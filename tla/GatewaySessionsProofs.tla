----------------------- MODULE GatewaySessionsProofs ------------------------
(***************************************************************************)
(* Proofs about GatewaySessions, for any ids, objects, callers and limits. *)
(***************************************************************************)
EXTENDS GatewaySessions, FiniteSetTheorems, TLAPS

\* The map of live sessions has finitely many entries.
LEMMA MappedFinite == Cardinality(Mapped) \in Nat
BY IdsFinite, FS_Subset, FS_CardinalityType DEF Mapped

\* What the steps of a caller's request look like.
Waiting == [step : {"missed", "loaded", "counting", "inserting"}, id : Ids, default : BOOLEAN]
Counted == [step : {"counted"}, id : Ids, default : BOOLEAN, inMemory : Nat]
Persisting == [step : {"persisting"}, id : Ids, obj : Objs]
Resolved == [step : {"resolved"}, obj : Objs]

LEMMA CallCases ==
    ASSUME TypeOK, NEW c \in Callers
    PROVE  /\ call[c] \in Calls
           /\ call[c].step \in {"missed", "loaded", "counting", "inserting"} => call[c] \in Waiting
           /\ call[c].step = "counted" => call[c] \in Counted
           /\ call[c].step = "persisting" => call[c] \in Persisting
           /\ call[c].step = "resolved" => call[c] \in Resolved
BY DEF TypeOK, Calls, Idle, Waiting, Counted, Persisting, Resolved

\* Nothing deletes a record.
RecordsKept == \A id \in Ids : record[id] # "absent" => record'[id] # "absent"

\* A step of one caller that leaves the map of sessions alone.
LEMMA CallerMoves ==
    ASSUME SessionsInv, NEW c \in Callers, NEW k \in Calls, Step(c, k),
           record' \in [Ids -> {"absent", "open", "archived"}], RecordsKept,
           UNCHANGED sessions,
           k.step = "loaded" => record'[k.id] # "absent",
           call[c].step = "persisting" /\ "create" \notin MayFail =>
               (k.step = "persisting" /\ k.id = call[c].id) \/ record'[call[c].id] # "absent"
    PROVE  CreatedIsRecorded' /\ LoadedIsRecorded' /\ call' \in [Callers -> Calls]
<1> USE DEF SessionsInv, TypeOK, Step
<1>1. call' \in [Callers -> Calls] /\ call'[c] = k
      /\ \A d \in Callers : d # c => call'[d] = call[d]
  OBVIOUS
<1>2. LoadedIsRecorded'
  <2> SUFFICES ASSUME NEW d \in Callers, call'[d].step = "loaded"
               PROVE  record'[call'[d].id] # "absent"
    BY DEF LoadedIsRecorded
  <2>1. CASE d = c
    BY <1>1, <2>1
  <2>2. CASE d # c
    <3>1. call'[d] = call[d] /\ call[d] \in Waiting
      BY <1>1, <2>2, CallCases
    <3> QED
      BY <3>1 DEF LoadedIsRecorded, RecordsKept, Waiting
  <2> QED
    BY <2>1, <2>2
<1>3. CreatedIsRecorded'
  <2> SUFFICES ASSUME NEW id \in Ids, sessions[id] # None, record'[id] = "absent",
                      "create" \notin MayFail
               PROVE  \E d \in Callers : call'[d].step = "persisting" /\ call'[d].id = id
    BY DEF CreatedIsRecorded, MappedSessionsDurable, Mapped
  <2>1. PICK d \in Callers : call[d].step = "persisting" /\ call[d].id = id
    BY DEF CreatedIsRecorded, MappedSessionsDurable, Mapped, RecordsKept
  <2>2. CASE d = c
    BY <1>1, <2>1, <2>2
  <2>3. CASE d # c
    BY <1>1, <2>1, <2>3
  <2> QED
    BY <2>2, <2>3
<1> QED
  BY <1>1, <1>2, <1>3

\* A step of one caller that puts a new object into the map.
LEMMA CallerInserts ==
    ASSUME SessionsInv, NEW c \in Callers, NEW k \in Calls, Step(c, k),
           NEW id \in Ids, NEW o \in Objs, Insert(id, o),
           call[c].step # "persisting", k.step # "loaded",
           record[id] # "absent" \/ (k.step = "persisting" /\ k.id = id)
    PROVE  SessionsInv'
<1> USE DEF SessionsInv, TypeOK, Step, Insert
<1>1. /\ call' \in [Callers -> Calls] /\ call'[c] = k
      /\ \A d \in Callers : d # c => call'[d] = call[d]
      /\ sessions' \in [Ids -> Objs \cup {None}]
      /\ \A i \in Ids : i # id => sessions'[i] = sessions[i]
      /\ record' = record
  OBVIOUS
<1>2. LoadedIsRecorded'
  BY <1>1 DEF LoadedIsRecorded
<1>3. CreatedIsRecorded'
  <2> SUFFICES ASSUME NEW i \in Ids, sessions'[i] # None, record[i] = "absent",
                      "create" \notin MayFail
               PROVE  \E d \in Callers : call'[d].step = "persisting" /\ call'[d].id = i
    BY <1>1 DEF CreatedIsRecorded, MappedSessionsDurable, Mapped
  <2>1. CASE i = id
    BY <1>1, <2>1
  <2>2. CASE i # id
    <3>1. PICK d \in Callers : call[d].step = "persisting" /\ call[d].id = i
      BY <1>1, <2>2 DEF CreatedIsRecorded, MappedSessionsDurable, Mapped
    <3> QED
      BY <1>1, <3>1
  <2> QED
    BY <2>1, <2>2
<1>4. TypeOK'
  BY <1>1
<1> QED
  BY <1>2, <1>3, <1>4

\* A step that moves no caller and maps no session.
LEMMA NobodyMoves ==
    ASSUME SessionsInv, TypeOK', UNCHANGED call, RecordsKept,
           \A id \in Ids : sessions'[id] \in {sessions[id], None}
    PROVE  SessionsInv'
<1>1. LoadedIsRecorded'
  <2> SUFFICES ASSUME NEW d \in Callers, call[d].step = "loaded"
               PROVE  record'[call[d].id] # "absent"
    BY DEF LoadedIsRecorded
  <2>1. call[d] \in Waiting
    BY CallCases DEF SessionsInv
  <2> QED
    BY <2>1 DEF SessionsInv, LoadedIsRecorded, RecordsKept, Waiting
<1>2. CreatedIsRecorded'
  BY DEF SessionsInv, CreatedIsRecorded, MappedSessionsDurable, Mapped, RecordsKept
<1> QED
  BY <1>1, <1>2 DEF SessionsInv

\* Each step keeps the invariant.
\* The record a caller found is there when it inserts, since no step deletes
\* one, and the caller that inserts a new id is the one that writes its row.
LEMMA SessionsStep ==
    ASSUME SessionsInv, [Next]_vars
    PROVE  SessionsInv'
<1> USE DEF SessionsInv
<1>0. /\ Idle \in Calls /\ Idle.step = "idle"
      /\ \A id \in Ids, d \in BOOLEAN, s \in {"missed", "loaded", "counting", "inserting"} :
             [step |-> s, id |-> id, default |-> d] \in Calls
      /\ \A o \in Objs : [step |-> "resolved", obj |-> o] \in Calls
      /\ \A id \in Ids, o \in Objs : [step |-> "persisting", id |-> id, obj |-> o] \in Calls
      /\ \A id \in Ids, d \in BOOLEAN, n \in Nat :
             [step |-> "counted", id |-> id, default |-> d, inMemory |-> n] \in Calls
  BY DEF Calls, Idle
<1>1. CASE UNCHANGED vars
  BY <1>1 DEF vars, TypeOK, CreatedIsRecorded, MappedSessionsDurable, LoadedIsRecorded, Mapped
<1>2. ASSUME NEW c \in Callers, NEW id \in Ids, NEW d \in BOOLEAN, Lookup(c, id, d)
      PROVE  SessionsInv'
  <2>1. PICK k \in Calls : Step(c, k) /\ k.step \in {"resolved", "missed"}
    <3>1. CASE sessions[id] # None
      <4>1. sessions[id] \in Objs
        BY <3>1 DEF TypeOK
      <4> QED
        BY <1>0, <1>2, <3>1, <4>1 DEF Lookup
    <3>2. CASE sessions[id] = None
      BY <1>0, <1>2, <3>2 DEF Lookup
    <3> QED
      BY <3>1, <3>2
  <2> QED
    BY <1>2, <2>1, CallerMoves DEF Lookup, TypeOK, RecordsKept, Idle
<1>3. ASSUME NEW c \in Callers, Load(c) PROVE SessionsInv'
  <2>1. call[c] \in Waiting
    BY <1>3, CallCases DEF Load
  <2>2. PICK k \in Calls : Step(c, k) /\ (k.step = "loaded" => record[k.id] # "absent")
    <3>1. /\ [call[c] EXCEPT !.step = "loaded"] \in Calls
          /\ [call[c] EXCEPT !.step = "counting"] \in Calls
      BY <2>1 DEF Calls, Waiting
    <3> QED
      BY <1>0, <1>3, <2>1, <3>1 DEF Load, Waiting
  <2> QED
    BY <1>3, <2>2, CallerMoves DEF Load, TypeOK, RecordsKept
<1>4. ASSUME NEW c \in Callers, Resume(c) PROVE SessionsInv'
  <2>1. call[c] \in Waiting /\ record[call[c].id] # "absent"
    BY <1>4, CallCases DEF Resume, LoadedIsRecorded
  <2>2. PICK o \in Objs : Insert(call[c].id, o) /\ Step(c, [step |-> "resolved", obj |-> o])
    BY <1>4 DEF Resume
  <2> QED
    BY <1>0, <1>4, <2>1, <2>2, CallerInserts DEF Resume, Waiting
<1>5. ASSUME NEW c \in Callers, StartCreate(c) PROVE SessionsInv'
  <2>1. PICK id \in Ids : Step(c, [step |-> "counting", id |-> id, default |-> FALSE])
    BY <1>5 DEF StartCreate, UnusedIds
  <2> QED
    BY <1>0, <1>5, <2>1, CallerMoves DEF StartCreate, TypeOK, RecordsKept, Idle
<1>6. ASSUME NEW c \in Callers, CountInMemory(c) PROVE SessionsInv'
  <2>1. call[c] \in Waiting
    BY <1>6, CallCases DEF CountInMemory
  <2>2. PICK k \in Calls : Step(c, k) /\ k.step = "counted"
    BY <1>0, <1>6, <2>1, MappedFinite DEF CountInMemory, Waiting
  <2> QED
    BY <1>6, <2>2, CallerMoves DEF CountInMemory, TypeOK, RecordsKept
<1>7. ASSUME NEW c \in Callers, CountRecords(c) PROVE SessionsInv'
  <2>1. call[c] \in Counted
    BY <1>7, CallCases DEF CountRecords
  <2>2. PICK k \in Calls : Step(c, k) /\ k.step \in {"idle", "inserting"}
    BY <1>0, <1>7, <2>1 DEF CountRecords, Counted
  <2> QED
    BY <1>7, <2>2, CallerMoves DEF CountRecords, TypeOK, RecordsKept
<1>8. ASSUME NEW c \in Callers, InsertNew(c) PROVE SessionsInv'
  <2>1. call[c] \in Waiting
    BY <1>8, CallCases DEF InsertNew
  <2>2. CASE Step(c, Idle) /\ UNCHANGED <<sessions, idOf, record, stale, turn, at, sweep>>
    BY <1>0, <1>8, <2>2, CallerMoves DEF InsertNew, TypeOK, RecordsKept
  <2>3. CASE \E o \in Objs : /\ Insert(call[c].id, o)
                             /\ Step(c, [step |-> "persisting", id |-> call[c].id, obj |-> o])
    <3>1. PICK o \in Objs : /\ Insert(call[c].id, o)
                            /\ Step(c, [step |-> "persisting", id |-> call[c].id, obj |-> o])
      BY <2>3
    <3> QED
      BY <1>0, <1>8, <2>1, <3>1, CallerInserts DEF InsertNew, Waiting
  <2> QED
    BY <1>8, <2>2, <2>3 DEF InsertNew
<1>9. ASSUME NEW c \in Callers, Persist(c) PROVE SessionsInv'
  <2>1. call[c] \in Persisting
    BY <1>9, CallCases DEF Persist
  <2>2. PICK ok \in BOOLEAN :
            /\ record' = [record EXCEPT ![call[c].id] =
                              IF ok /\ @ = "absent" THEN "open" ELSE @]
            /\ "create" \notin MayFail => ok
    BY <1>9 DEF Persist, StoreOutcomes
  <2>3. /\ record' \in [Ids -> {"absent", "open", "archived"}] /\ RecordsKept
        /\ "create" \notin MayFail => record'[call[c].id] # "absent"
    BY <2>1, <2>2 DEF TypeOK, RecordsKept, Persisting
  <2>4. PICK k \in Calls : Step(c, k) /\ k.step = "resolved"
    BY <1>0, <1>9, <2>1 DEF Persist, Persisting
  <2> QED
    BY <1>9, <2>3, <2>4, CallerMoves DEF Persist, TypeOK
<1>10. ASSUME NEW c \in Callers, Subscribe(c) PROVE SessionsInv'
  <2>1. call[c] \in Resolved
    BY <1>10, CallCases DEF Subscribe
  <2> QED
    BY <1>0, <1>10, <2>1, CallerMoves DEF Subscribe, TypeOK, RecordsKept, Resolved
<1>11. ASSUME NEW c \in Callers, Disconnect(c) PROVE SessionsInv'
  BY <1>11, NobodyMoves DEF Disconnect, TypeOK, RecordsKept
<1>12. ASSUME NEW c \in Callers, SubmitTurn(c) PROVE SessionsInv'
  BY <1>12, NobodyMoves DEF SubmitTurn, TypeOK, RecordsKept
<1>13. ASSUME NEW o \in Objs, RunTurn(o) PROVE SessionsInv'
  BY <1>13, NobodyMoves DEF RunTurn, TypeOK, RecordsKept
<1>14. ASSUME NEW o \in Objs, EndTurn(o) PROVE SessionsInv'
  BY <1>14, NobodyMoves DEF EndTurn, TypeOK, RecordsKept
<1>15. ASSUME NEW o \in Objs, Age(o) PROVE SessionsInv'
  BY <1>15, NobodyMoves DEF Age, TypeOK, RecordsKept
<1>16. CASE Collect
  BY <1>16, NobodyMoves DEF Collect, TypeOK, RecordsKept
<1>17. ASSUME NEW id \in Ids, Evict(id) PROVE SessionsInv'
  BY <1>17, NobodyMoves DEF Evict, TypeOK, RecordsKept
<1>18. CASE Archive
  <2>1. record' \in [Ids -> {"absent", "open", "archived"}] /\ RecordsKept
    BY <1>18 DEF Archive, TypeOK, RecordsKept
  <2> QED
    BY <1>18, <2>1, NobodyMoves DEF Archive, TypeOK
<1>19. CASE Restart
  <2>1. TypeOK'
    BY <1>0, <1>19 DEF Restart, TypeOK
  <2> QED
    BY <1>0, <1>19, <2>1 DEF Restart, CreatedIsRecorded, MappedSessionsDurable, LoadedIsRecorded, Mapped
<1> QED
  BY <1>1, <1>2, <1>3, <1>4, <1>5, <1>6, <1>7, <1>8, <1>9, <1>10, <1>11, <1>12, <1>13, <1>14,
     <1>15, <1>16, <1>17, <1>18, <1>19 DEF Next, CallStep, Cleanup

\* The inductive invariant holds whichever calls of the store fail.
THEOREM SessionsInvariant == Spec => []SessionsInv
<1>1. Init => SessionsInv
  BY DEF Init, SessionsInv, TypeOK, Calls, Idle, Mapped, CreatedIsRecorded,
         MappedSessionsDurable, LoadedIsRecorded
<1>2. SessionsInv /\ [Next]_vars => SessionsInv'
  BY SessionsStep
<1> QED
  BY <1>1, <1>2, PTL DEF Spec

\* While create_session of the session store works, whatever the other store
\* calls do, and whenever the process restarts: every session a client can
\* find in the gateway's map has a row, or its creator is about to write it.
THEOREM SessionsAreDurable ==
    ASSUME "create" \notin MayFail
    PROVE  Spec => []SessionsConsistent
<1>1. SessionsInv => SessionsConsistent
  BY DEF SessionsInv, CreatedIsRecorded, SessionsConsistent
<1> QED
  BY <1>1, SessionsInvariant, PTL

\* Of all the steps but a restart, only Evict removes a session, after testing it.
LEMMA OnlyEvictTakesAway ==
    ASSUME TypeOK, NEW id \in Ids, Next, sessions[id] # None, sessions'[id] = None, ~Restart
    PROVE  Subscribers(sessions[id]) = {}
<1>1. ASSUME NEW o \in Objs, NEW i \in Ids, Insert(i, o) PROVE FALSE
  BY <1>1, NoneFresh DEF Insert, TypeOK
<1>2. PICK i \in Ids : Evict(i)
  <2>1. ASSUME NEW c \in Callers, Resume(c) \/ InsertNew(c), call[c] \in Waiting PROVE FALSE
    BY <1>1, <2>1 DEF Resume, InsertNew, Waiting
  <2>2. ASSUME NEW c \in Callers, CallStep(c) PROVE FALSE
    <3>1. Resume(c) \/ InsertNew(c) => call[c] \in Waiting
      BY CallCases DEF Resume, InsertNew
    <3> QED
      BY <2>1, <2>2, <3>1 DEF CallStep, Lookup, Load, StartCreate, CountInMemory, CountRecords,
                             Persist, Subscribe, Disconnect, SubmitTurn
  <2> QED
    BY <2>2 DEF Next, Cleanup, RunTurn, EndTurn, Age, Collect, Archive
<1> QED
  BY <1>2 DEF Evict, Evictable, TypeOK

\* The cleanup task tests a session again under the write lock, so whatever
\* happened since it collected the stale ids, it takes no session away from a
\* subscribed client.
THEOREM EvictionIsSafe == Spec => EvictionSparesSubscribers
<1>1. TypeOK /\ [Next]_vars =>
        [\A id \in Ids : (sessions[id] # None /\ sessions'[id] = None /\ ~Restart)
                           => Subscribers(sessions[id]) = {}]_vars
  BY OnlyEvictTakesAway
<1>2. SessionsInv => TypeOK
  BY DEF SessionsInv
<1> QED
  BY <1>1, <1>2, SessionsInvariant, PTL DEF Spec, EvictionSparesSubscribers
=============================================================================
