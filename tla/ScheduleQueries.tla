--------------------------- MODULE ScheduleQueries ---------------------------
(***************************************************************************)
(* Reading schedules and their runs page by page with the tools            *)
(* schedule_search, schedule_runs and schedule_run_output                  *)
(* (crates/tools/src/scheduler_tools.rs) while other turns create and      *)
(* delete schedules and the executor records and prunes runs               *)
(* (crates/memory/src/scheduler_store.rs).                                 *)
(*                                                                         *)
(* The reader asks for the next page as long as the answer names one.      *)
(* Schedules are numbered in the order of their creation; an output is the *)
(* sequence of its characters' widths in bytes.  Its reader goes on where  *)
(* the answer's lengths say, which are bytes, or by the characters it got, *)
(* which is how the tool's schema describes the offset.                    *)
(***************************************************************************)
EXTENDS Naturals, Sequences, SequencesExt, FiniteSetsExt

CONSTANTS
    MaxStored,  \* bound: schedules ever created
    PageLimit,     \* the limit of a search
    MaxChars,      \* max_chars of an output's chunk, in bytes
    Widths         \* the widths of characters

ASSUME QueryBounds ==
    /\ {MaxStored, PageLimit, MaxChars} \subseteq Nat \ {0}
    /\ Widths \subseteq 1..MaxChars   \* a chunk has at least 200 bytes, a character at most 4

VARIABLES
    stored,   \* the user's schedules
    born,     \* how many were created
    search,   \* the reader of schedules
    output,   \* the stored output of a run, <<>> where it was pruned
    reading   \* the reader of the output

queryVars == <<stored, born, search, output, reading>>

Outputs == UNION {[1..n -> Widths] : n \in 0..3}
NoSearch == [at |-> "idle", offset |-> 0, total |-> 0, listed |-> {}, expected |-> {}, calm |-> TRUE]

QueryInit ==
    /\ search = NoSearch
    /\ \/ /\ stored \in {1..n : n \in 1..(MaxStored - 1)} /\ output = <<>>
          /\ reading = [at |-> "end", by |-> "bytes", offset |-> 0, read |-> <<>>]
       \/ /\ stored = {} /\ output \in Outputs
          /\ \E by \in {"bytes", "chars"} : reading = [at |-> "idle", by |-> by, offset |-> 0, read |-> <<>>]
    /\ born = Cardinality(stored)

-----------------------------------------------------------------------------
(* Searching, in the behaviours that begin with schedules.                  *)

BeginSearch ==
    /\ search.at = "idle" /\ 0 < born /\ search' = [NoSearch EXCEPT !.at = "count", !.expected = stored]
    /\ UNCHANGED <<stored, born, output, reading>>

\* search_schedules: the matching schedules are counted, ...
CountSchedules ==
    /\ search.at = "count" /\ search' = [search EXCEPT !.at = "fetch", !.total = Cardinality(stored)]
    /\ UNCHANGED <<stored, born, output, reading>>

\* ... and then the page is fetched, the newest first.
Page == {s \in stored : LET newer == Cardinality({t \in stored : t > s})
                        IN  search.offset <= newer /\ newer < search.offset + PageLimit}

\* "Use offset={} to see the next page."
NextOffset == search.offset + PageLimit

\* total_count.saturating_sub(offset + schedules.len()).
Remaining == IF search.total > search.offset + Cardinality(Page) THEN search.total - (search.offset + Cardinality(Page)) ELSE 0

FetchPage ==
    /\ search.at = "fetch"
    /\ search' = [search EXCEPT !.listed = @ \union Page, !.offset = NextOffset,
                                !.at = IF Remaining > 0 THEN "count" ELSE "listed"]
    /\ UNCHANGED <<stored, born, output, reading>>

\* Another turn of the user creates a schedule or deletes one.
CreateSchedule ==
    /\ 0 < born /\ born < MaxStored /\ born' = born + 1 /\ stored' = stored \union {born + 1}
    /\ search' = [search EXCEPT !.calm = @ /\ search.at # "fetch"]
    /\ UNCHANGED <<output, reading>>
DeleteSchedule ==
    /\ \E s \in stored : stored' = stored \ {s}
    /\ search' = [search EXCEPT !.calm = @ /\ search.at \notin {"count", "fetch"}]
    /\ UNCHANGED <<born, output, reading>>

-----------------------------------------------------------------------------
(* Reading the output of a run.                                             *)

ByteLength(chars) == FoldLeft(LAMBDA a, w : a + w, 0, chars)
CharBoundaries == {ByteLength(SubSeq(output, 1, n)) : n \in 0..Len(output)}
\* The characters between two boundaries.
Slice(a, b) ==
    LET before(at) == Max({n \in 0..Len(output) : ByteLength(SubSeq(output, 1, n)) <= at})
    IN  SubSeq(output, before(a) + 1, before(b))

\* max_chars is clamped to 200 at least.
ChunkEnd == LET end == reading.offset + MaxChars IN IF end < ByteLength(output) THEN end ELSE ByteLength(output)
\* "Ensure we don't split a multi-byte char."
SafeEnd == Max({b \in CharBoundaries : b <= ChunkEnd})

\* schedule_run_output: the run is read, then its schedule, which must be the
\* user's; a run that was pruned is not found.  The offset counts bytes, and
\* inside a character the slice panics.
ReadRunOutput ==
    /\ reading.at \in {"idle", "more"}
    /\ LET chunk == Slice(reading.offset, SafeEnd)
       IN reading' = CASE reading.offset >= ByteLength(output) -> [reading EXCEPT !.at = "end"]
                       [] reading.offset < ByteLength(output) /\ reading.offset \notin CharBoundaries ->
                            [reading EXCEPT !.at = "panicked"]
                       [] OTHER ->
                            [reading EXCEPT !.at = IF ByteLength(output) > SafeEnd THEN "more" ELSE "end",
                                            !.offset = IF reading.by = "bytes" THEN SafeEnd ELSE @ + Len(chunk),
                                            !.read = @ \o chunk]
    /\ UNCHANGED <<stored, born, search, output>>

\* prune_run_history, or the schedule is deleted with its runs.
PruneRun ==
    /\ reading.at \in {"idle", "more"} /\ reading' = [reading EXCEPT !.at = "not found"]
    /\ UNCHANGED <<stored, born, search, output>>

QueryNext ==
    \/ BeginSearch \/ CountSchedules \/ FetchPage \/ CreateSchedule \/ DeleteSchedule
    \/ ReadRunOutput \/ PruneRun

QuerySpec == QueryInit /\ [][QueryNext]_queryVars

-----------------------------------------------------------------------------
(* Properties.                                                              *)

\* Following the pages lists every schedule that was there at the beginning
\* and still is, though schedules are created meanwhile; not where one is
\* deleted, which shifts the pages, or is created between the count and the
\* page it belongs to.
SearchListsAll == search.at = "listed" /\ search.calm => search.expected \subseteq search.listed

\* The chunks of an output, read one after another by a reader that goes on
\* where the lengths of the answer say, are its characters, none cut, none
\* missing and none twice, and the position is one Rust can slice at.
OutputReadExact ==
    reading.by = "bytes" =>
       /\ reading.offset \in CharBoundaries /\ reading.at # "panicked"
       /\ reading.read = Slice(0, reading.offset)
       /\ reading.at = "end" => reading.read = output

\* scheduler_tools.rs:951, "Character offset to start from".  Not kept: the
\* offset counts bytes, so one that counts characters repeats some, or the call
\* panics inside one.
CharacterOffsetsRead ==
    reading.at # "panicked" /\ (reading.at = "end" => reading.read = output)

\* What a reader of schedules and outputs is shown, page by page, is all of it,
\* when it counts an output in bytes.
QueriesExact == SearchListsAll /\ OutputReadExact

\* Reading comes to an end: every chunk but the last brings at least one
\* character, however small the chunks are.
ReadingAdvances ==
    [][reading.at = "more" /\ reading'.at = "more" => reading'.offset > reading.offset]_reading
=============================================================================
