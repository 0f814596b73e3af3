---------------------------- MODULE MemoryStore ------------------------------
(***************************************************************************)
(* LibsqlMemory (crates/memory/src/lib.rs, indexing.rs): conversation      *)
(* events, their index of chunks, the per-session state (last sequence,    *)
(* rolling summary, scratchpad), notes, and the tools that keep them       *)
(* (crates/tools/src/memory_tools.rs, scratchpad_tools.rs).                *)
(*                                                                         *)
(* A transaction (BEGIN IMMEDIATE ... COMMIT) is one step; what is read    *)
(* before it, and two transactions of one tool call, are steps of their    *)
(* own.  A text is the sequence of its chunks, each known by its hash.     *)
(***************************************************************************)
EXTENDS Naturals, FiniteSets, FiniteSetsExt, Sequences, SequencesExt

CONSTANTS
    Callers,  \* tool calls and turns that use the memory at the same time
    Texts,    \* contents of messages and notes that are not blank
    NoteIds,  \* fresh note ids, uuids in the code
    MaxEvents, \* bound: the highest sequence number
    TopK      \* results of a search

\* The memory of a user is a session of its own next to the conversations.
UserMemory == "memory"
MemorySessions == {UserMemory, "chat"}
NoNote == "none"

VARIABLES
    eventRows, \* events of each session: [seq, text, note]
    chunks,   \* indexed chunks: [session, hash, note, from, to]
    state,    \* session_state: last_sequence, summary, scratchpad
    calling,  \* what each caller is doing
    saved,    \* history: note -> the text its tool call reported as saved
    written   \* history: the scratchpad as last written

memoryVars == <<eventRows, chunks, state, calling, saved, written>>

Unsaved == <<>>   \* an id not given out yet, a scratchpad without items
Withdrawn == <<"gone">> \* an id given out, no note reported under it

\* A content has finitely many pieces; a blank note is refused.
ASSUME TextsAssumption ==
    \A text \in Texts : IsFiniteSet(DOMAIN text) /\ text \notin {Unsaved, Withdrawn}
ASSUME MemoryBoundsAssumption == MaxEvents \in Nat /\ TopK \in Nat
NoCall == [op |-> "idle"]
EmptyState == [last |-> 0, summary |-> <<>>, upper |-> 0, pad |-> Unsaved]

MemoryInit ==
    /\ eventRows = [s \in MemorySessions |-> {}] /\ chunks = {}
    /\ state = [s \in MemorySessions |-> EmptyState]
    /\ calling = [c \in Callers |-> NoCall]
    /\ saved = [n \in NoteIds |-> Unsaved] /\ written = Unsaved

\* SELECT COALESCE(MAX(sequence), ...)
MaxSequence(s) == Max({0} \cup {r.seq : r \in eventRows[s]})

\* split_text_into_chunks and prepare_index_document: a chunk for each piece,
\* two pieces with the same hash being the same chunk.
Prepared(s, seq, text, note) ==
    {[session |-> s, hash |-> text[i], note |-> note, from |-> seq, to |-> seq]
        : i \in DOMAIN text}

\* find_existing_chunk_id: the same text of the same session and note.
Existing(all, c) ==
    {d \in all : d.session = c.session /\ d.hash = c.hash /\ d.note = c.note}

\* touch_existing_chunk.
Touched(d, seq) == [d EXCEPT !.to = Max({@, seq})]

\* index_prepared_document: chunks that exist are touched, others inserted.
Indexed(all, s, seq, text, note) ==
    LET new == Prepared(s, seq, text, note) IN
    {IF Existing(new, d) = {} THEN d ELSE Touched(d, seq) : d \in all}
        \cup {c \in new : Existing(all, c) = {}}

Insert(s, seq, text, note) ==
    /\ eventRows' = [eventRows EXCEPT ![s] = @ \cup {[seq |-> seq, text |-> text, note |-> note]}]
    /\ chunks' = Indexed(chunks, s, seq, text, note)

-----------------------------------------------------------------------------
\* store: a turn saves a message under the number it has counted to; numbers
\* must grow, whoever saves.
Store(seq, text) ==
    /\ seq <= MaxEvents
    /\ seq > MaxSequence("chat")
    /\ Insert("chat", seq, text, NoNote)
    /\ state' = [state EXCEPT !["chat"].last = seq]
    /\ UNCHANGED <<calling, saved, written>>

\* memory_save: store_note reads the next number before its transaction.
SaveNote(c, text) ==
    /\ calling[c] = NoCall
    /\ \E n \in NoteIds :
         /\ saved[n] = Unsaved /\ saved' = [saved EXCEPT ![n] = Withdrawn]
         /\ calling' = [calling EXCEPT ![c] =
               [op |-> "store", note |-> n, text |-> text, seq |-> MaxSequence(UserMemory) + 1]]
    /\ UNCHANGED <<eventRows, chunks, state, written>>

\* delete_note: the chunks and the events of a note.
Removed(n) ==
    /\ eventRows' = [eventRows EXCEPT ![UserMemory] = {r \in @ : r.note # n}]
    /\ chunks' = {d \in chunks : ~(d.session = UserMemory /\ d.note = n)}
NoteFound(n) == \E r \in eventRows[UserMemory] : r.note = n

\* memory_update: delete the note, then store it again under its id.
UpdateNote(c, n, text) ==
    /\ calling[c] = NoCall /\ NoteFound(n)
    /\ Removed(n)
    /\ calling' = [calling EXCEPT ![c] = [op |-> "read", note |-> n, text |-> text]]
    /\ saved' = [saved EXCEPT ![n] = Withdrawn]
    /\ UNCHANGED <<state, written>>

\* store_note, its first half, after a delete: next_event_sequence.
ReadNextSequence(c) ==
    /\ calling[c].op = "read"
    /\ calling' = [calling EXCEPT ![c] =
          [op |-> "store", note |-> calling[c].note, text |-> calling[c].text,
           seq |-> MaxSequence(UserMemory) + 1]]
    /\ UNCHANGED <<eventRows, chunks, state, saved, written>>

\* store_note's transaction.  A number another call has taken meanwhile
\* violates the primary key: all of it is rolled back, the tool fails.
StoreNote(c) ==
    /\ calling[c].op = "store" /\ calling[c].seq <= MaxEvents
    /\ IF \E r \in eventRows[UserMemory] : r.seq = calling[c].seq
       THEN UNCHANGED <<eventRows, chunks, saved>>
       ELSE /\ Insert(UserMemory, calling[c].seq, calling[c].text, calling[c].note)
            /\ saved' = [saved EXCEPT ![calling[c].note] = calling[c].text]
    /\ calling' = [calling EXCEPT ![c] = NoCall]
    /\ UNCHANGED <<state, written>>

\* memory_delete.
DeleteNote(c, n) ==
    /\ calling[c] = NoCall /\ NoteFound(n)
    /\ Removed(n)
    /\ saved' = [saved EXCEPT ![n] = Withdrawn]
    /\ UNCHANGED <<state, calling, written>>

\* The tool's timeout, or a cancelled turn, drops the call where it is.
CallerDropped(c) ==
    /\ calling[c] # NoCall
    /\ calling' = [calling EXCEPT ![c] = NoCall]
    /\ UNCHANGED <<eventRows, chunks, state, saved, written>>

\* maybe_trigger_rolling_summary: the state is read, the summary composed of
\* the events after it up to one of them ...
ReadSummary(c) ==
    /\ calling[c] = NoCall
    /\ \E upper \in (state["chat"].upper + 1)..state["chat"].last :
         calling' = [calling EXCEPT ![c] =
            [op |-> "summary", epoch |-> Len(state["chat"].summary), upper |-> upper,
             text |-> Append(state["chat"].summary, <<state["chat"].upper + 1, upper>>),
             map |-> state["chat"]]]
    /\ UNCHANGED <<eventRows, chunks, state, saved, written>>

\* Mutant: the state map that was read is the one that is written back.
WriteSummaryStale(c) ==
    /\ calling[c].op = "summary"
    /\ state' = IF Len(state["chat"].summary) = calling[c].epoch
                THEN [state EXCEPT !["chat"] = [calling[c].map EXCEPT
                        !.summary = calling[c].text, !.upper = calling[c].upper]]
                ELSE state
    /\ calling' = [calling EXCEPT ![c] = NoCall]
    /\ UNCHANGED <<eventRows, chunks, saved, written>>

\* ... and written if the epoch is still the one read (write_summary_state);
\* the epoch is the number of times it was extended.
WriteSummary(c) ==
    /\ calling[c].op = "summary"
    /\ state' = IF Len(state["chat"].summary) = calling[c].epoch
                   /\ calling[c].upper >= state["chat"].upper
                THEN [state EXCEPT !["chat"].summary = calling[c].text,
                                   !["chat"].upper = calling[c].upper]
                ELSE state
    /\ calling' = [calling EXCEPT ![c] = NoCall]
    /\ UNCHANGED <<eventRows, chunks, saved, written>>

\* write_scratchpad, within its limits, and clear_scratchpad: the map is read
\* and written in one transaction.
WriteScratchpad(items) ==
    /\ state' = [state EXCEPT !["chat"].pad = items]
    /\ written' = items
    /\ UNCHANGED <<eventRows, chunks, calling, saved>>
ClearScratchpad ==
    /\ state["chat"].pad # Unsaved
    /\ state' = [state EXCEPT !["chat"].pad = Unsaved]
    /\ written' = Unsaved
    /\ UNCHANGED <<eventRows, chunks, calling, saved>>

\* forget: the session's row, and by cascade all that refers to it.  A summary
\* that is being composed is still written afterwards, if its epoch fits.
Forget ==
    /\ eventRows["chat"] # {} \/ state["chat"] # EmptyState
    /\ eventRows' = [eventRows EXCEPT !["chat"] = {}]
    /\ chunks' = {d \in chunks : d.session # "chat"}
    /\ state' = [state EXCEPT !["chat"] = EmptyState]
    /\ written' = Unsaved
    /\ UNCHANGED <<calling, saved>>

MemoryNext ==
    \/ \E seq \in 1..MaxEvents, text \in Texts : Store(seq, text)
    \/ \E c \in Callers :
         \/ \E text \in Texts :
              SaveNote(c, text) \/ \E n \in NoteIds : UpdateNote(c, n, text)
         \/ \E n \in NoteIds : DeleteNote(c, n)
         \/ ReadNextSequence(c) \/ StoreNote(c) \/ CallerDropped(c)
         \/ ReadSummary(c) \/ WriteSummary(c)
    \/ \E items \in Texts : WriteScratchpad(items)
    \/ ClearScratchpad \/ Forget

MemorySpec == MemoryInit /\ [][MemoryNext]_memoryVars

-----------------------------------------------------------------------------
(* Searching: hybrid_query over the index as it is.                         *)

\* vector_top_k over the whole index, then the session: what other sessions
\* hold takes part of the limit, so any part of the session may be missing.
VectorSearch(s) ==
    LET own == {d \in chunks : d.session = s}
        others == Cardinality(chunks) - Cardinality(own) IN
    {found \in SUBSET own :
        Cardinality(found) >= Min({Cardinality(own), Max({0, 4 * TopK - others})})}

\* fts_search: the chunks of the session that have the words.
FtsSearch(s, hash) == {d \in chunks : d.session = s /\ d.hash = hash}

\* execute_hybrid_query: both lists merged and the best TopK of them.
HybridResults(s, hash) ==
    UNION {{r \in SUBSET (v \cup FtsSearch(s, hash)) :
              Cardinality(r) = Min({TopK, Cardinality(v \cup FtsSearch(s, hash))})}
           : v \in VectorSearch(s)}

\* The index is exactly what the events say: every piece of a message or a
\* note can be found, under its note, and nothing of a deleted one can.
IndexMatchesEvents ==
    \A s \in MemorySessions :
        {<<d.hash, d.note>> : d \in {d \in chunks : d.session = s}}
            = UNION {{<<r.text[i], r.note>> : i \in DOMAIN r.text} : r \in eventRows[s]}

\* A note whose save or update was reported is stored with that text, until it
\* is deleted or another update begins; a call that failed leaves no part.
ReportedNotesKept ==
    \A n \in NoteIds :
        {r.text : r \in {r \in eventRows[UserMemory] : r.note = n}}
            = {saved[n]} \ {Unsaved, Withdrawn}

\* The parts of the state map do not overwrite each other: the last sequence
\* is that of the last message, the scratchpad is as written, whoever else
\* writes the map meanwhile.
StatePartsKept ==
    /\ state["chat"].last = MaxSequence("chat")
    /\ state["chat"].pad = written

Adjoining(s, upper) ==
    /\ \A i \in 1..Len(s) : s[i][1] = (IF i = 1 THEN 1 ELSE s[i - 1][2] + 1)
    /\ s # <<>> => s[Len(s)][2] = upper

\* The summary covers the messages up to its bound once each, however writers
\* of summaries overlap and whether or not the session is forgotten meanwhile.
SummaryAdjoins == Adjoining(state["chat"].summary, state["chat"].upper)

\* A search finds every note that has the word, whatever other sessions hold,
\* as long as the user's memory is no longer than the list of results.
SavedNotesFound ==
    Cardinality({d \in chunks : d.session = UserMemory}) <= TopK =>
        \A n \in {n \in NoteIds : saved[n] # Withdrawn} : \A i \in DOMAIN saved[n] :
            \A hits \in HybridResults(UserMemory, saved[n][i]) :
                \E d \in hits : d.note = n

\* What is in memory, whatever calls interleave, fail or are dropped: every
\* event is indexed, notes that were reported are there and are found, and
\* the parts of a session's state keep out of each other's way.
MemoryConsistent ==
    /\ IndexMatchesEvents /\ ReportedNotesKept /\ SavedNotesFound
    /\ StatePartsKept /\ SummaryAdjoins

-----------------------------------------------------------------------------
(* The inductive invariant of MemoryConsistent.                             *)

MemoryTypes ==
    /\ eventRows = [s \in MemorySessions |-> eventRows[s]]
    /\ \A r \in eventRows["chat"] : r.seq \in Nat
    /\ IsFiniteSet(chunks)
    /\ \A d \in chunks : d = [session |-> d.session, hash |-> d.hash, note |-> d.note,
                              from |-> d.from, to |-> d.to]
    /\ state \in [MemorySessions -> [last : Nat, summary : Seq(Nat \X Nat), upper : Nat,
                                     pad : Texts \cup {Unsaved}]]
    /\ calling = [c \in Callers |-> calling[c]]
    /\ saved \in [NoteIds -> Texts \cup {Unsaved, Withdrawn}]

\* Every chunk is a piece of an event that is stored ...
ChunksOfEvents ==
    \A d \in chunks : d.session \in MemorySessions /\
        \E r \in eventRows[d.session] :
            r.note = d.note /\ \E i \in DOMAIN r.text : r.text[i] = d.hash
\* ... and every piece of an event has its chunk.
EventsHaveChunks ==
    \A s \in MemorySessions : \A r \in eventRows[s] : \A i \in DOMAIN r.text :
        \E d \in chunks : d.session = s /\ d.hash = r.text[i] /\ d.note = r.note

\* The note a call is about to store is withdrawn, and no other call has it.
Storing(c) == calling[c].op \in {"store", "read"}
StoringAlone ==
    \A c \in Callers : Storing(c) =>
        /\ calling[c].note \in NoteIds /\ calling[c].text \in Texts
        /\ saved[calling[c].note] = Withdrawn
        /\ \A b \in Callers : Storing(b) /\ b # c => calling[b].note # calling[c].note

\* The last sequence of the conversation is its highest.
LastIsHighest ==
    /\ state["chat"].last \in {0} \cup {r.seq : r \in eventRows["chat"]}
    /\ \A r \in eventRows["chat"] : r.seq <= state["chat"].last
    /\ state["chat"].pad = written

\* A summary that is being written was composed from the first message on.
SummariesExtend ==
    /\ state["chat"].summary = <<>> => state["chat"].upper = 0
    /\ \A c \in Callers : calling[c].op = "summary" =>
         /\ calling[c].upper \in Nat /\ calling[c].text \in Seq(Nat \X Nat) \ {<<>>}
         /\ Adjoining(calling[c].text, calling[c].upper)

MemoryInv ==
    /\ MemoryTypes /\ ChunksOfEvents /\ EventsHaveChunks /\ ReportedNotesKept
    /\ StoringAlone /\ LastIsHighest /\ SummariesExtend /\ SummaryAdjoins
-----------------------------------------------------------------------------
(***************************************************************************)
(* Opening the memory database (crates/memory/src/schema.rs and            *)
(* LibsqlMemory::open): bookkeeping table, pending migrations, each in a   *)
(* transaction of its own, then verification of the schema.  The gateway   *)
(* of a user and tools run from the runner may open one file at the same   *)
(* time, and any of them may be killed.                                    *)
(***************************************************************************)
CONSTANTS
    Openers,       \* processes that open the database
    MigrationCount \* the length of MIGRATIONS, 26 in the code

ASSUME MigrationCountType == MigrationCount \in Nat \ {0}

\* The versions of MIGRATIONS; each adds to the schema.
Migrations == 1..MigrationCount

VARIABLES
    applied, \* versions recorded in memory_migrations
    built,   \* versions whose statements are in the schema
    opener,  \* each process: where it is, what it has read, its next migration
    writer   \* the process inside BEGIN IMMEDIATE, or NoWriter

schemaVars == <<applied, built, opener, writer>>

NoWriter == "nobody"
NotOpen == [at |-> "closed", seen |-> {}, next |-> 1]

SchemaInit ==
    /\ applied = {} /\ built = {} /\ writer = NoWriter
    /\ opener = [p \in Openers |-> NotOpen]

Move(p, at) == opener' = [opener EXCEPT ![p].at = at]

\* connect, the pragmas and ensure_migration_bookkeeping, then
\* applied_migration_versions: one read, outside any transaction.
OpenDatabase(p) ==
    /\ opener[p].at = "closed"
    /\ opener' = [opener EXCEPT ![p] = [at |-> "migrating", seen |-> applied, next |-> 1]]
    /\ UNCHANGED <<applied, built, writer>>

SkipApplied(p) ==
    /\ opener[p].at = "migrating" /\ opener[p].next \in opener[p].seen
    /\ opener' = [opener EXCEPT ![p].next = @ + 1]
    /\ UNCHANGED <<applied, built, writer>>

\* BEGIN IMMEDIATE waits for the lock; after busy_timeout the open fails.
BeginMigration(p) ==
    /\ opener[p].at = "migrating"
    /\ opener[p].next \in Migrations /\ opener[p].next \notin opener[p].seen
    /\ IF writer = NoWriter
       THEN writer' = p /\ Move(p, "in transaction")
       ELSE UNCHANGED writer /\ opener' = [opener EXCEPT ![p] = NotOpen]
    /\ UNCHANGED <<applied, built>>

\* Mutant: the version is recorded after the commit of its statements.
CommitMigrationFirst(p) ==
    /\ opener[p].at = "in transaction"
    /\ writer' = NoWriter
    /\ built' = built \cup {opener[p].next}
    /\ applied' \in {applied, applied \cup {opener[p].next}}
    /\ opener' = [opener EXCEPT ![p].at = "migrating", ![p].next = @ + 1]

\* The statements and the record of a migration are committed together.  The
\* record is unique: one another process applied meanwhile fails, as does any
\* statement that is not IF NOT EXISTS, and is rolled back.
CommitMigration(p) ==
    /\ opener[p].at = "in transaction"
    /\ writer' = NoWriter
    /\ IF opener[p].next \in applied
       THEN opener' = [opener EXCEPT ![p] = NotOpen] /\ UNCHANGED <<applied, built>>
       ELSE /\ built' = built \cup {opener[p].next}
            /\ applied' = applied \cup {opener[p].next}
            /\ opener' = [opener EXCEPT ![p].at = "migrating", ![p].next = @ + 1]

\* verify_required_schema and verify_native_vector_support.
VerifySchema(p) ==
    /\ opener[p].at = "migrating" /\ opener[p].next > MigrationCount
    /\ Move(p, IF built = Migrations THEN "open" ELSE "closed")
    /\ UNCHANGED <<applied, built, writer>>

\* The process ends; sqlite rolls its transaction back.
Crash(p) ==
    /\ opener[p] # NotOpen
    /\ opener' = [opener EXCEPT ![p] = NotOpen]
    /\ writer' = IF writer = p THEN NoWriter ELSE writer
    /\ UNCHANGED <<applied, built>>

SchemaNext ==
    \E p \in Openers :
        \/ OpenDatabase(p) \/ SkipApplied(p) \/ BeginMigration(p)
        \/ CommitMigration(p) \/ VerifySchema(p) \/ Crash(p)

SchemaSpec == SchemaInit /\ [][SchemaNext]_schemaVars

-----------------------------------------------------------------------------
\* However openers race and die, the schema holds exactly the migrations that
\* are recorded, without a gap: no statement is run twice or skipped.
SchemaMatchesRecord ==
    /\ built = applied
    /\ \A v \in applied, u \in Migrations : u < v => u \in applied

\* Whoever uses the database has all of the schema.
OpenIsComplete == \A p \in Openers : opener[p].at = "open" => built = Migrations

\* The inductive invariant behind DatabaseComplete.  What an opener has read
\* may be out of date, but it has read or applied every version below its
\* next one, so the version it commits never leaves a gap behind it.
OpenerStates == [at : {"closed", "migrating", "in transaction", "open"},
                 seen : SUBSET Migrations, next : 1..(MigrationCount + 1)]
OpenerOK(o, recorded) ==
    /\ o.seen \subseteq recorded
    /\ o.at \in {"migrating", "in transaction"} =>
         \A v \in Migrations : v < o.next => v \in recorded
    /\ o.at = "in transaction" => o.next \in Migrations
SchemaInv ==
    /\ applied \subseteq Migrations /\ opener \in [Openers -> OpenerStates]
    /\ \A p \in Openers : OpenerOK(opener[p], applied)
    /\ SchemaMatchesRecord /\ OpenIsComplete

\* A database that is in use has the whole schema its record says, after any
\* crash during migrations and any order of openers.
DatabaseComplete == SchemaMatchesRecord /\ OpenIsComplete
=============================================================================
