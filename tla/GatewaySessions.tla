-------------------------- MODULE GatewaySessions ---------------------------
(***************************************************************************)
(* The sessions of one user of the gateway: the in-memory map from session *)
(* id to SessionState object, the durable session records, creation,       *)
(* resumption, the session limit, idle eviction and process restarts       *)
(* (crates/gateway/src/lib.rs, crates/memory/src/session_store.rs).        *)
(*                                                                         *)
(* Looking an id up, reading its record and inserting the new object are   *)
(* separate critical sections, so callers and the cleanup task interleave  *)
(* between them.  A turn is seen only as queued or running on its object;  *)
(* GatewayTurns has the detail.                                            *)
(***************************************************************************)
EXTENDS Naturals, FiniteSets

CONSTANTS
    Ids,         \* session ids
    DefaultId,   \* runtime-{user_id}
    Objs,        \* SessionState objects the process may allocate
    Callers,     \* connections and in-process adapters
    MaxSessions, \* max_sessions_per_user
    MayFail,     \* the calls of the session store that may return an error
    None

ASSUME IdsFinite == IsFiniteSet(Ids) /\ DefaultId \in Ids
ASSUME MaxSessionsType == MaxSessions \in Nat \ {0}
ASSUME MayFailType == MayFail \subseteq {"get", "count", "create", "archive"}
ASSUME NoneFresh == None \notin Ids \cup Objs

VARIABLES
    sessions,  \* user.sessions: id -> object or None
    idOf,      \* object -> its session id, None while unallocated
    record,    \* gateway_sessions: "absent", "open" or "archived"
    stale,     \* objects for which idle_for_at_least(session_idle_ttl)
    turn,      \* object -> its active turn: "none", "queued", "running"
    call,      \* caller -> the request it is in the middle of
    at,        \* caller -> the object whose channel it is subscribed to
    sweep      \* the cleanup task: ids collected, id being archived

vars == <<sessions, idOf, record, stale, turn, call, at, sweep>>

Idle == [step |-> "idle"]
Mapped == {id \in Ids : sessions[id] # None}
OpenRecords == {id \in Ids : record[id] = "open"}
Subscribers(o) == {c \in Callers : at[c] = o}
Free == {o \in Objs : idOf[o] = None}
\* now_v7 ids are fresh: never mapped, never recorded, not being persisted.
UnusedIds == {id \in Ids \ {DefaultId} :
                 /\ record[id] = "absent"
                 /\ \A o \in Objs : idOf[o] # id}

Calls == {Idle}
         \cup [step : {"missed", "loaded", "counting", "inserting"}, id : Ids, default : BOOLEAN]
         \cup [step : {"counted"}, id : Ids, default : BOOLEAN, inMemory : Nat]
         \cup [step : {"persisting"}, id : Ids, obj : Objs]
         \cup [step : {"resolved"}, obj : Objs]

TypeOK ==
    /\ sessions \in [Ids -> Objs \cup {None}]
    /\ idOf \in [Objs -> Ids \cup {None}]
    /\ record \in [Ids -> {"absent", "open", "archived"}]
    /\ stale \in SUBSET Objs
    /\ turn \in [Objs -> {"none", "queued", "running"}]
    /\ call \in [Callers -> Calls]
    /\ at \in [Callers -> Objs \cup {None}]
    /\ sweep \in [due : SUBSET Ids, archiving : Ids \cup {None}]

\* The process has just started; the store may hold sessions of earlier runs.
Init ==
    /\ sessions = [id \in Ids |-> None]
    /\ idOf = [o \in Objs |-> None]
    /\ record \in [Ids -> {"absent", "open", "archived"}]
    /\ Cardinality(OpenRecords) <= MaxSessions
    /\ stale = {}
    /\ turn = [o \in Objs |-> "none"]
    /\ call = [c \in Callers |-> Idle]
    /\ at = [c \in Callers |-> None]
    /\ sweep = [due |-> {}, archiving |-> None]

\* Whether one call of the store succeeds.
StoreOutcomes(method) == IF method \in MayFail THEN BOOLEAN ELSE {TRUE}

Step(c, next) == call' = [call EXCEPT ![c] = next]

\* SessionState::new and the insertion under the write lock.
Insert(id, o) ==
    /\ o \in Free
    /\ idOf' = [idOf EXCEPT ![o] = id]
    /\ sessions' = [sessions EXCEPT ![id] = o]
    /\ UNCHANGED <<record, stale, turn, at, sweep>>

-----------------------------------------------------------------------------
(* Joining a session: create_or_get_session(Some(id)) and the default       *)
(* branch of resolve_session share lookup, load and resume.                 *)

\* The read-locked lookup.
Lookup(c, id, default) ==
    /\ call[c] = Idle /\ at[c] = None
    /\ default => id = DefaultId
    /\ Step(c, IF sessions[id] # None
               THEN [step |-> "resolved", obj |-> sessions[id]]
               ELSE [step |-> "missed", id |-> id, default |-> default])
    /\ UNCHANGED <<sessions, idOf, record, stale, turn, at, sweep>>

\* store.get_session: archived records are returned too.  Without a record,
\* or when the store fails, the default session is created and any other id
\* is an error.
Load(c) ==
    /\ call[c].step = "missed"
    /\ \E ok \in StoreOutcomes("get") :
         Step(c, IF ok /\ record[call[c].id] # "absent"
                 THEN [call[c] EXCEPT !.step = "loaded"]
                 ELSE IF call[c].default
                      THEN [call[c] EXCEPT !.step = "counting"]
                      ELSE Idle)
    /\ UNCHANGED <<sessions, idOf, record, stale, turn, at, sweep>>

\* Resume: the new object is inserted whatever the map holds by now, and
\* the limit is not consulted.
Resume(c) ==
    /\ call[c].step = "loaded"
    /\ \E o \in Objs :
         /\ Insert(call[c].id, o)
         /\ Step(c, [step |-> "resolved", obj |-> o])

-----------------------------------------------------------------------------
(* Creating a session: create_or_get_session(None).                         *)

StartCreate(c) ==
    /\ call[c] = Idle /\ at[c] = None
    /\ \E id \in UnusedIds :
         /\ \A d \in Callers : call[d].step # "idle" /\ "id" \in DOMAIN call[d]
                                  => call[d].id # id
         /\ Step(c, [step |-> "counting", id |-> id, default |-> FALSE])
    /\ UNCHANGED <<sessions, idOf, record, stale, turn, at, sweep>>

\* ensure_session_capacity, first the map...
CountInMemory(c) ==
    /\ call[c].step = "counting"
    /\ Step(c, [step |-> "counted", id |-> call[c].id, default |-> call[c].default,
                inMemory |-> Cardinality(Mapped)])
    /\ UNCHANGED <<sessions, idOf, record, stale, turn, at, sweep>>

\* ... then the store, unless it fails and the first count stands in.
CountRecords(c) ==
    /\ call[c].step = "counted"
    /\ \E ok \in StoreOutcomes("count") :
         LET persisted == IF ok THEN Cardinality(OpenRecords) ELSE call[c].inMemory IN
         Step(c, IF call[c].inMemory >= MaxSessions \/ persisted >= MaxSessions
                 THEN Idle
                 ELSE [step |-> "inserting", id |-> call[c].id,
                       default |-> call[c].default])
    /\ UNCHANGED <<sessions, idOf, record, stale, turn, at, sweep>>

\* create_or_get_session counts again under the write lock; resolve_session
\* inserts its default session without looking.
InsertNew(c) ==
    /\ call[c].step = "inserting"
    /\ \/ /\ ~call[c].default /\ Cardinality(Mapped) >= MaxSessions
          /\ Step(c, Idle)
          /\ UNCHANGED <<sessions, idOf, record, stale, turn, at, sweep>>
       \/ /\ call[c].default \/ Cardinality(Mapped) < MaxSessions
          /\ \E o \in Objs :
               /\ Insert(call[c].id, o)
               /\ Step(c, [step |-> "persisting", id |-> call[c].id, obj |-> o])

\* Mutant: the record is left to be written by the first turn.
PersistSkipped(c) ==
    /\ call[c].step = "persisting"
    /\ Step(c, [step |-> "resolved", obj |-> call[c].obj])
    /\ UNCHANGED <<sessions, idOf, record, stale, turn, at, sweep>>

\* store.create_session: INSERT ... ON CONFLICT DO NOTHING; a failure is
\* logged and the session goes on without a record.
Persist(c) ==
    /\ call[c].step = "persisting"
    /\ \E ok \in StoreOutcomes("create") :
         record' = [record EXCEPT ![call[c].id] =
                        IF ok /\ @ = "absent" THEN "open" ELSE @]
    /\ Step(c, [step |-> "resolved", obj |-> call[c].obj])
    /\ UNCHANGED <<sessions, idOf, stale, turn, at, sweep>>

-----------------------------------------------------------------------------
(* Using a session.                                                         *)

\* session.events.subscribe(), on the Arc the caller holds.
Subscribe(c) ==
    /\ call[c].step = "resolved"
    /\ at' = [at EXCEPT ![c] = call[c].obj]
    /\ Step(c, Idle)
    /\ UNCHANGED <<sessions, idOf, record, stale, turn, sweep>>

Disconnect(c) ==
    /\ at[c] # None
    /\ at' = [at EXCEPT ![c] = None]
    /\ UNCHANGED <<sessions, idOf, record, stale, turn, call, sweep>>

\* start_turn_with_origin accepts if the object has no active turn; the
\* activity stamp is not touched until the permit is there.
SubmitTurn(c) ==
    /\ at[c] # None /\ turn[at[c]] = "none"
    /\ turn' = [turn EXCEPT ![at[c]] = "queued"]
    /\ UNCHANGED <<sessions, idOf, record, stale, call, at, sweep>>

\* mark_active, TurnStarted, run_turn.
RunTurn(o) ==
    /\ turn[o] = "queued"
    /\ turn' = [turn EXCEPT ![o] = "running"]
    /\ stale' = stale \ {o}
    /\ UNCHANGED <<sessions, idOf, record, call, at, sweep>>

\* The turn ends; mark_active.  touch_session leaves "archived" as it is.
EndTurn(o) ==
    /\ turn[o] = "running"
    /\ turn' = [turn EXCEPT ![o] = "none"]
    /\ stale' = stale \ {o}
    /\ UNCHANGED <<sessions, idOf, record, call, at, sweep>>

\* The idle TTL passes without mark_active; only the age of a mapped object
\* is ever read.
Age(o) ==
    /\ o \notin stale
    /\ \E id \in Mapped : sessions[id] = o
    /\ stale' = stale \cup {o}
    /\ UNCHANGED <<sessions, idOf, record, turn, call, at, sweep>>

-----------------------------------------------------------------------------
(* cleanup_sessions_once.                                                   *)

Evictable(id) ==
    /\ sessions[id] # None
    /\ Subscribers(sessions[id]) = {}
    /\ sessions[id] \in stale

\* Collect the stale ids under the read lock.
Collect ==
    /\ sweep.due = {} /\ sweep.archiving = None
    /\ \E id \in Ids : Evictable(id)
    /\ sweep' = [sweep EXCEPT !.due = {id \in Ids : Evictable(id)}]
    /\ UNCHANGED <<sessions, idOf, record, stale, turn, call, at>>

\* Mutant: what was collected is evicted without a second look.
EvictWithoutRecheck(id) ==
    /\ id \in sweep.due /\ sweep.archiving = None
    /\ sessions' = [sessions EXCEPT ![id] = None]
    /\ sweep' = [due |-> sweep.due \ {id}, archiving |-> id]
    /\ UNCHANGED <<idOf, record, stale, turn, call, at>>

\* Test again and remove under the write lock.
Evict(id) ==
    /\ id \in sweep.due /\ sweep.archiving = None
    /\ \/ /\ Evictable(id)
          /\ sessions' = [sessions EXCEPT ![id] = None]
          /\ sweep' = [due |-> sweep.due \ {id}, archiving |-> id]
       \/ /\ ~Evictable(id)
          /\ sweep' = [sweep EXCEPT !.due = @ \ {id}]
          /\ UNCHANGED sessions
    /\ UNCHANGED <<idOf, record, stale, turn, call, at>>

\* store.archive_session, a no-op without a record, a failure is logged; then
\* drop_session_context, whose map is not modelled here.
Archive ==
    /\ sweep.archiving # None
    /\ \E ok \in StoreOutcomes("archive") :
         record' = [record EXCEPT ![sweep.archiving] =
                        IF ~ok \/ @ = "absent" THEN @ ELSE "archived"]
    /\ sweep' = [sweep EXCEPT !.archiving = None]
    /\ UNCHANGED <<sessions, idOf, stale, turn, call, at>>

\* The process ends, at any point of any request, and starts again: only
\* the records survive.
Restart ==
    /\ sessions' = [id \in Ids |-> None]
    /\ idOf' = [o \in Objs |-> None]
    /\ stale' = {}
    /\ turn' = [o \in Objs |-> "none"]
    /\ call' = [c \in Callers |-> Idle]
    /\ at' = [c \in Callers |-> None]
    /\ sweep' = [due |-> {}, archiving |-> None]
    /\ UNCHANGED record

-----------------------------------------------------------------------------
CallStep(c) ==
    \/ \E id \in Ids, default \in BOOLEAN : Lookup(c, id, default)
    \/ Load(c) \/ Resume(c) \/ StartCreate(c) \/ CountInMemory(c)
    \/ CountRecords(c) \/ InsertNew(c) \/ Persist(c)
    \/ Subscribe(c) \/ Disconnect(c) \/ SubmitTurn(c)
Cleanup == Collect \/ (\E id \in Ids : Evict(id)) \/ Archive

Next ==
    \/ \E c \in Callers : CallStep(c)
    \/ \E o \in Objs : RunTurn(o) \/ EndTurn(o) \/ Age(o)
    \/ Cleanup
    \/ Restart

Spec == Init /\ [][Next]_vars
\* The cleanup task's interval keeps firing.
FairSpec == Spec /\ WF_vars(Cleanup)

-----------------------------------------------------------------------------
\* While create_session works (MayFail leaves it out; reads and archiving
\* may fail), a session that can be joined in memory can be joined after a
\* restart: every mapped id has a record, once its creator has written it.
MappedSessionsDurable ==
    \A id \in Mapped :
        \/ record[id] # "absent"
        \/ \E c \in Callers : call[c].step = "persisting" /\ call[c].id = id

\* The cleanup task never takes a session away from a client that is
\* subscribed to it, although the client may have arrived after the stale
\* ids were collected; only a restart does.
EvictionSparesSubscribers ==
    [][\A id \in Ids :
         (sessions[id] # None /\ sessions'[id] = None /\ ~Restart)
            => Subscribers(sessions[id]) = {}]_vars

\* Idle sessions do not pile up: no session stays evictable for ever.
IdleSessionsEvicted ==
    \A id \in Ids : ~ <>[](Evictable(id))

-----------------------------------------------------------------------------
(* Documented promises the code does not keep.                              *)

Live(id) == {o \in Objs : idOf[o] = id /\ turn[o] # "none"}

\* "If an active turn exists, the request is rejected with an error": a
\* session id never has two turns under way.
OneLiveTurnPerSessionId ==
    \A id \in Ids : Cardinality(Live(id)) <= 1

\* What the map of live sessions promises, of any interleaving of creations,
\* resumptions, lookups and evictions: its type, and that every mapped session
\* has its row.
SessionsConsistent == TypeOK /\ MappedSessionsDurable

\* The inductive invariant behind SessionsConsistent: a record that was found
\* is still there when the session is resumed, because nothing deletes one.
LoadedIsRecorded ==
    \A c \in Callers : call[c].step = "loaded" => record[call[c].id] # "absent"
CreatedIsRecorded == "create" \notin MayFail => MappedSessionsDurable
SessionsInv == TypeOK /\ CreatedIsRecorded /\ LoadedIsRecorded

\* Eviction takes the idle sessions and no others: none that somebody watches
\* goes, and each that stays idle goes in the end.
IdleSessionsAloneEvicted == EvictionSparesSubscribers /\ IdleSessionsEvicted
=============================================================================
