------------------------- MODULE GatewayTurnsProofs -------------------------
(***************************************************************************)
(* Proofs about GatewayTurns, for any finite set of submissions, any       *)
(* number of sessions, any semaphore size and any queue limit.             *)
(***************************************************************************)
EXTENDS GatewayTurns, FiniteSetTheorems, TLAPS

USE DEF Goto

-----------------------------------------------------------------------------
(* Facts about the counters and the semaphore's queue.                      *)

\* The turns counted in queued_turns, and the permit holders, are finitely
\* many.
LEMMA FiniteSubsets ==
    ASSUME TypeOK
    PROVE  IsFiniteSet(QueuedSet) /\ IsFiniteSet(holders)
BY TurnsFinite, FS_Subset DEF QueuedSet, TypeOK

\* queued_turns is positive while a turn is counted, so fetch_sub(1) in
\* acquire_turn_permit never wraps.
LEMMA CountedPositive ==
    ASSUME TypeOK, QueueCounterExact, NEW t \in Turns, pc[t] \in Counted
    PROVE  queuedTurns \in Nat /\ queuedTurns > 0
<1>1. QueuedSet # {}
  BY DEF QueuedSet
<1>2. Cardinality(QueuedSet) # 0 /\ Cardinality(QueuedSet) \in Nat
  BY <1>1, FiniteSubsets, FS_EmptySet, FS_CardinalityType
<1> QED
  BY <1>2 DEF QueueCounterExact

\* Dropping a waiter from anywhere in the semaphore's queue leaves a queue
\* of turns.
LEMMA RemoveWaiterType ==
    ASSUME NEW q \in Seq(Turns), NEW i \in DOMAIN q
    PROVE  SubSeq(q, 1, i - 1) \o SubSeq(q, i + 1, Len(q)) \in Seq(Turns)
<1>1. i \in 1 .. Len(q) /\ Len(q) \in Nat
  OBVIOUS
<1>2. SubSeq(q, 1, i - 1) \in Seq(Turns)
  BY <1>1
<1>3. SubSeq(q, i + 1, Len(q)) \in Seq(Turns)
  BY <1>1
<1> QED
  BY <1>2, <1>3

-----------------------------------------------------------------------------
(* Type correctness.                                                        *)

\* Every variable keeps its type across every step of a handler, a task or a
\* cancellation, given that queued_turns is positive while it counts a turn
\* and that an ending task has an outcome.
LEMMA TypeStep ==
    ASSUME TypeOK, OutcomeReady, QueueCounterExact, [Next]_vars
    PROVE  TypeOK'
<1> USE SessionOfType, NoTurnFresh
    DEF TypeOK, PCs, TerminalFrames, Frames, Outcomes, StopReasons
<1>1. CASE UNCHANGED vars
  BY <1>1 DEF vars
<1>2. ASSUME NEW t \in Turns, Submit(t) PROVE TypeOK'
  <2>1. CASE Reserve(t)             BY <2>1 DEF Reserve
  <2>2. CASE RejectBusy(t)          BY <2>2 DEF RejectBusy
  <2>3. CASE ClearTerminalFrame(t)  BY <2>3 DEF ClearTerminalFrame
  <2>4. CASE TryEnqueueTurn(t)
    <3>1. queuedTurns' \in Nat
      BY <2>4 DEF TryEnqueueTurn
    <3>2. pc' \in [Turns -> PCs]
      BY <2>4 DEF TryEnqueueTurn
    <3> QED
      BY <2>4, <3>1, <3>2 DEF TryEnqueueTurn
  <2>5. CASE Refuse(t)              BY <2>5 DEF Refuse
  <2> QED BY <1>2, <2>1, <2>2, <2>3, <2>4, <2>5 DEF Submit
<1>3. ASSUME NEW t \in Turns, Settle(t) PROVE TypeOK'
  <2>1. CASE ClearActiveTurn(t)       BY <2>1 DEF ClearActiveTurn
  <2>2. CASE StoreTerminalFrame(t)
    BY <2>2 DEF StoreTerminalFrame, Frame, OutcomeReady
  <2>3. CASE PublishTerminalFrame(t)
    BY <2>3 DEF PublishTerminalFrame, Frame, OutcomeReady
  <2>4. CASE EndTask(t)               BY <2>4 DEF EndTask
  <2> QED BY <1>3, <2>1, <2>2, <2>3, <2>4 DEF Settle
<1>4. ASSUME NEW t \in Turns, Task(t) PROVE TypeOK'
  <2>1. CASE JoinSemaphore(t)    BY <2>1 DEF JoinSemaphore
  <2>2. CASE AcquirePermit(t)    BY <2>2 DEF AcquirePermit
  <2>3. CASE DropWait(t)         BY <2>3 DEF DropWait
  <2>4. CASE LeaveQueue(t)
    <3>1. queuedTurns' \in Nat
      <4>1. pc[t] \in Counted /\ queuedTurns' = queuedTurns - 1
        BY <2>4 DEF LeaveQueue, Counted
      <4>2. queuedTurns > 0
        BY <4>1, CountedPositive
      <4> QED
        BY <4>1, <4>2
    <3>2. pc' \in [Turns -> PCs] /\ outcome' \in [Turns -> Outcomes \cup {"none"}]
      BY <2>4 DEF LeaveQueue
    <3>3. waitQueue' \in Seq(Turns)
      <4>1. CASE ReleaseWaiter(t)
        <5>1. CASE \E i \in DOMAIN waitQueue :
                     waitQueue' = SubSeq(waitQueue, 1, i - 1)
                                    \o SubSeq(waitQueue, i + 1, Len(waitQueue))
          <6>1. PICK i \in DOMAIN waitQueue :
                     waitQueue' = SubSeq(waitQueue, 1, i - 1)
                                    \o SubSeq(waitQueue, i + 1, Len(waitQueue))
            BY <5>1
          <6> QED
            BY <6>1, RemoveWaiterType
        <5>2. CASE UNCHANGED waitQueue
          BY <5>2
        <5> QED
          BY <4>1, <5>1, <5>2 DEF ReleaseWaiter
      <4>2. CASE UNCHANGED waitQueue
        BY <4>2
      <4> QED
        BY <2>4, <4>1, <4>2 DEF LeaveQueue
    <3>4. UNCHANGED <<activeTurn, terminalFrame, stopReason, cancelled, holders,
                      permits, events>>
      BY <2>4 DEF LeaveQueue
    <3> QED
      BY <3>1, <3>2, <3>3, <3>4
  <2>5. CASE AbandonAdmitted(t)  BY <2>5 DEF AbandonAdmitted
  <2>6. CASE StartTurn(t)        BY <2>6 DEF StartTurn, Frame
  <2>7. CASE Settle(t)           BY <2>7, <1>3
  <2> QED BY <1>4, <2>1, <2>2, <2>3, <2>4, <2>5, <2>6, <2>7 DEF Task
<1>5. ASSUME NEW t \in Turns, FinishRun(t) PROVE TypeOK'
  BY <1>5 DEF FinishRun, FrameKindFor
<1>6. ASSUME NEW s \in Sessions, CancelSession(s) PROVE TypeOK'
  BY <1>6 DEF CancelSession
<1>7. CASE AllDone
  BY <1>7 DEF AllDone, vars
<1> QED
  BY <1>1, <1>2, <1>4, <1>5, <1>6, <1>7 DEF Next

-----------------------------------------------------------------------------
(* The four remaining parts of IndInv, one lemma each.                      *)

\* Each task reaches its ending with the kind of its terminal frame set.
LEMMA OutcomeStep ==
    ASSUME TypeOK, OutcomeReady, [Next]_vars
    PROVE  OutcomeReady'
<1> USE DEF TypeOK, OutcomeReady, Outcomes
<1>1. CASE UNCHANGED vars
  BY <1>1 DEF vars
<1>2. ASSUME NEW t \in Turns, Submit(t) PROVE OutcomeReady'
  BY <1>2 DEF Submit, Reserve, RejectBusy, ClearTerminalFrame, TryEnqueueTurn, Refuse
<1>3. ASSUME NEW t \in Turns, Settle(t) PROVE OutcomeReady'
  BY <1>3 DEF Settle, ClearActiveTurn, StoreTerminalFrame, PublishTerminalFrame, EndTask
<1>4. ASSUME NEW t \in Turns, Task(t) PROVE OutcomeReady'
  <2>1. CASE JoinSemaphore(t) \/ AcquirePermit(t) \/ DropWait(t)
    BY <2>1 DEF JoinSemaphore, AcquirePermit, DropWait
  <2>2. CASE LeaveQueue(t) \/ AbandonAdmitted(t) \/ StartTurn(t)
    BY <2>2 DEF LeaveQueue, AbandonAdmitted, StartTurn
  <2> QED
    BY <1>3, <1>4, <2>1, <2>2 DEF Task
<1>5. ASSUME NEW t \in Turns, FinishRun(t) PROVE OutcomeReady'
  BY <1>5 DEF FinishRun, FrameKindFor
<1>6. ASSUME NEW s \in Sessions, CancelSession(s) PROVE OutcomeReady'
  BY <1>6 DEF CancelSession
<1>7. CASE AllDone
  BY <1>7 DEF AllDone, vars
<1> QED
  BY <1>1, <1>2, <1>4, <1>5, <1>6, <1>7 DEF Next

\* Only AcquirePermit and EndTask move permits, and each moves one permit
\* together with one holder.
LEMMA PermitStep ==
    ASSUME TypeOK, PermitsConserved, [Next]_vars
    PROVE  PermitsConserved'
<1> USE DEF TypeOK, PCs
<1> DEFINE Unmoved == UNCHANGED <<permits, holders>>
           HolderPcs == {"granted", "admitted", "running", "ending", "unset",
                         "stored", "published"}
<1>0. IsFiniteSet(holders) /\ Cardinality(holders) \in Nat /\ MaxConcurrent \in Nat
  BY FiniteSubsets, FS_CardinalityType, MaxConcurrentType
<1>1. ASSUME Unmoved,
             NEW t \in Turns, pc' = [pc EXCEPT ![t] = pc'[t]],
             pc'[t] \in {"granted", "admitted", "running"} => t \in holders,
             t \in holders => pc'[t] \in HolderPcs
      PROVE  PermitsConserved'
  BY <1>1 DEF PermitsConserved
<1>2. CASE UNCHANGED <<pc, permits, holders>>
  BY <1>2 DEF PermitsConserved
<1>3. ASSUME NEW t \in Turns, Submit(t) PROVE PermitsConserved'
  BY <1>1, <1>3 DEF Submit, Reserve, RejectBusy, ClearTerminalFrame,
                    TryEnqueueTurn, Refuse, PermitsConserved
<1>4. ASSUME NEW t \in Turns, EndTask(t) PROVE PermitsConserved'
  <2>1. CASE t \in holders
    <3>1. Cardinality(holders \ {t}) = Cardinality(holders) - 1
      BY <1>0, <2>1, FS_RemoveElement
    <3> QED
      BY <1>0, <1>4, <2>1, <3>1 DEF EndTask, PermitsConserved
  <2>2. CASE t \notin holders
    <3>1. holders' = holders /\ permits' = permits
      BY <1>4, <2>2 DEF EndTask
    <3> QED
      BY <1>1, <1>4, <2>2, <3>1 DEF EndTask, PermitsConserved
  <2> QED
    BY <2>1, <2>2
<1>5. ASSUME NEW t \in Turns, AcquirePermit(t) PROVE PermitsConserved'
  <2>1. t \notin holders
    BY <1>5 DEF AcquirePermit, PermitsConserved
  <2>2. Cardinality(holders \cup {t}) = Cardinality(holders) + 1
    BY <1>0, <2>1, FS_AddElement
  <2> QED
    BY <1>0, <1>5, <2>2 DEF AcquirePermit, PermitsConserved
<1>6. ASSUME NEW t \in Turns, Task(t) PROVE PermitsConserved'
  <2>1. CASE JoinSemaphore(t) \/ DropWait(t) \/ LeaveQueue(t)
    BY <1>1, <2>1 DEF JoinSemaphore, DropWait, LeaveQueue, PermitsConserved
  <2>2. CASE AbandonAdmitted(t) \/ StartTurn(t)
    BY <1>1, <2>2 DEF AbandonAdmitted, StartTurn, PermitsConserved
  <2>3. CASE ClearActiveTurn(t) \/ StoreTerminalFrame(t) \/ PublishTerminalFrame(t)
    BY <1>1, <2>3 DEF ClearActiveTurn, StoreTerminalFrame, PublishTerminalFrame,
                      PermitsConserved
  <2> QED
    BY <1>4, <1>5, <1>6, <2>1, <2>2, <2>3 DEF Task, Settle
<1>7. ASSUME NEW t \in Turns, FinishRun(t) PROVE PermitsConserved'
  BY <1>1, <1>7 DEF FinishRun, PermitsConserved
<1> QED
  BY <1>2, <1>3, <1>6, <1>7 DEF Next, CancelSession, AllDone, vars

\* Only TryEnqueueTurn and LeaveQueue move queued_turns, and each moves it
\* together with one counted turn; the limit was tested by the same
\* exchange that added it.
LEMMA QueueStep ==
    ASSUME TypeOK, QueueCounterExact, [Next]_vars
    PROVE  QueueCounterExact'
<1> USE DEF TypeOK, PCs, Counted
<1>0. IsFiniteSet(QueuedSet) /\ Cardinality(QueuedSet) \in Nat /\ MaxQueued \in Nat
  BY FiniteSubsets, FS_CardinalityType, MaxQueuedType
<1>1. ASSUME UNCHANGED queuedTurns, NEW t \in Turns,
             pc' = [pc EXCEPT ![t] = pc'[t]],
             pc[t] \in Counted <=> pc'[t] \in Counted
      PROVE  QueueCounterExact'
  <2>1. QueuedSet' = QueuedSet
    BY <1>1 DEF QueuedSet
  <2> QED
    BY <1>1, <2>1 DEF QueueCounterExact
<1>2. CASE UNCHANGED <<pc, queuedTurns>>
  BY <1>2 DEF QueueCounterExact, QueuedSet
<1>3. ASSUME NEW t \in Turns, TryEnqueueTurn(t) PROVE QueueCounterExact'
  <2>1. CASE queuedTurns < MaxQueued
    <3>1. t \notin QueuedSet /\ QueuedSet' = QueuedSet \cup {t}
      BY <1>3, <2>1, <1>0 DEF TryEnqueueTurn, QueuedSet
    <3>2. Cardinality(QueuedSet') = Cardinality(QueuedSet) + 1
      BY <1>0, <3>1, FS_AddElement
    <3>3. queuedTurns' = queuedTurns + 1
      BY <1>3, <2>1, <1>0 DEF TryEnqueueTurn
    <3> QED
      BY <1>0, <2>1, <3>2, <3>3 DEF QueueCounterExact
  <2>2. CASE ~(queuedTurns < MaxQueued)
    BY <1>1, <1>3, <2>2 DEF TryEnqueueTurn
  <2> QED
    BY <2>1, <2>2
<1>4. ASSUME NEW t \in Turns, LeaveQueue(t) PROVE QueueCounterExact'
  <2>1. t \in QueuedSet /\ QueuedSet' = QueuedSet \ {t}
    BY <1>4 DEF LeaveQueue, QueuedSet
  <2>2. Cardinality(QueuedSet') = Cardinality(QueuedSet) - 1
    BY <1>0, <2>1, FS_RemoveElement
  <2>3. queuedTurns' = queuedTurns - 1
    BY <1>4 DEF LeaveQueue
  <2> QED
    BY <1>0, <2>2, <2>3 DEF QueueCounterExact
<1>5. ASSUME NEW t \in Turns, Submit(t) PROVE QueueCounterExact'
  <2>1. CASE Reserve(t) \/ RejectBusy(t) \/ ClearTerminalFrame(t) \/ Refuse(t)
    BY <1>1, <2>1 DEF Reserve, RejectBusy, ClearTerminalFrame, Refuse
  <2> QED
    BY <1>3, <1>5, <2>1 DEF Submit
<1>6. ASSUME NEW t \in Turns, Task(t) PROVE QueueCounterExact'
  <2>1. CASE JoinSemaphore(t) \/ AcquirePermit(t) \/ DropWait(t)
    BY <1>1, <2>1 DEF JoinSemaphore, AcquirePermit, DropWait
  <2>2. CASE AbandonAdmitted(t) \/ StartTurn(t)
    BY <1>1, <2>2 DEF AbandonAdmitted, StartTurn
  <2>3. CASE Settle(t)
    BY <1>1, <2>3 DEF Settle, ClearActiveTurn, StoreTerminalFrame,
                      PublishTerminalFrame, EndTask
  <2> QED
    BY <1>4, <1>6, <2>1, <2>2, <2>3 DEF Task
<1>7. ASSUME NEW t \in Turns, FinishRun(t) PROVE QueueCounterExact'
  BY <1>1, <1>7 DEF FinishRun
<1> QED
  BY <1>2, <1>5, <1>6, <1>7 DEF Next, CancelSession, AllDone, vars

\* active_turn is set only where it was None and reset only by its owner.
LEMMA OwnerStep ==
    ASSUME TypeOK, OneTurnPerSession, [Next]_vars
    PROVE  OneTurnPerSession'
<1> USE SessionOfType, NoTurnFresh DEF TypeOK, PCs, OwnsSession
<1>1. ASSUME UNCHANGED activeTurn, NEW t \in Turns,
             pc' = [pc EXCEPT ![t] = pc'[t]],
             pc[t] \in OwnsSession <=> pc'[t] \in OwnsSession
      PROVE  OneTurnPerSession'
  BY <1>1 DEF OneTurnPerSession
<1>2. CASE UNCHANGED <<pc, activeTurn>>
  BY <1>2 DEF OneTurnPerSession
<1>3. ASSUME NEW t \in Turns, Reserve(t) PROVE OneTurnPerSession'
  BY <1>3 DEF Reserve, OneTurnPerSession
<1>4. ASSUME NEW t \in Turns, Refuse(t) PROVE OneTurnPerSession'
  BY <1>4 DEF Refuse, OneTurnPerSession
<1>5. ASSUME NEW t \in Turns, ClearActiveTurn(t) PROVE OneTurnPerSession'
  BY <1>5 DEF ClearActiveTurn, OneTurnPerSession
<1>6. ASSUME NEW t \in Turns, Submit(t) PROVE OneTurnPerSession'
  <2>1. CASE RejectBusy(t) \/ ClearTerminalFrame(t) \/ TryEnqueueTurn(t)
    BY <1>1, <2>1 DEF RejectBusy, ClearTerminalFrame, TryEnqueueTurn
  <2> QED
    BY <1>3, <1>4, <1>6, <2>1 DEF Submit
<1>7. ASSUME NEW t \in Turns, Task(t) PROVE OneTurnPerSession'
  <2>1. CASE JoinSemaphore(t) \/ AcquirePermit(t) \/ DropWait(t)
    BY <1>1, <2>1 DEF JoinSemaphore, AcquirePermit, DropWait
  <2>2. CASE LeaveQueue(t) \/ AbandonAdmitted(t) \/ StartTurn(t)
    BY <1>1, <2>2 DEF LeaveQueue, AbandonAdmitted, StartTurn
  <2>3. CASE StoreTerminalFrame(t) \/ PublishTerminalFrame(t) \/ EndTask(t)
    BY <1>1, <2>3 DEF StoreTerminalFrame, PublishTerminalFrame, EndTask
  <2> QED
    BY <1>5, <1>7, <2>1, <2>2, <2>3 DEF Task, Settle
<1>8. ASSUME NEW t \in Turns, FinishRun(t) PROVE OneTurnPerSession'
  BY <1>1, <1>8 DEF FinishRun
<1> QED
  BY <1>2, <1>6, <1>7, <1>8 DEF Next, CancelSession, AllDone, vars

-----------------------------------------------------------------------------
(* The invariant and its consequences.                                      *)

LEMMA InitInv == Init => IndInv
<1> SUFFICES ASSUME Init PROVE IndInv
  OBVIOUS
<1>1. TypeOK
  BY MaxConcurrentType DEF Init, TypeOK, PCs
<1>2. OutcomeReady /\ OneTurnPerSession
  BY SessionOfType, NoTurnFresh DEF Init, OutcomeReady, OneTurnPerSession, OwnsSession
<1>3. PermitsConserved
  BY FS_EmptySet, MaxConcurrentType DEF Init, PermitsConserved
<1>4. QueueCounterExact
  <2>1. QueuedSet = {}
    BY DEF Init, QueuedSet, Counted
  <2> QED
    BY <2>1, FS_EmptySet, MaxQueuedType DEF Init, QueueCounterExact
<1> QED
  BY <1>1, <1>2, <1>3, <1>4 DEF IndInv

\* The gateway's bookkeeping is consistent in every reachable state.
THEOREM Invariance == Spec => []IndInv
<1>1. Init => IndInv
  BY InitInv
<1>2. IndInv /\ [Next]_vars => IndInv'
  BY TypeStep, OutcomeStep, PermitStep, QueueStep, OwnerStep DEF IndInv
<1> QED
  BY <1>1, <1>2, PTL DEF Spec

\* Type correctness of the turn bookkeeping, queued_turns included: it never
\* goes below zero.
THEOREM TypeCorrect == Spec => []TypeOK
BY Invariance, PTL DEF IndInv

\* No permit of the user's turn_semaphore is lost or duplicated.
THEOREM PermitsAreConserved == Spec => []PermitsConserved
BY Invariance, PTL DEF IndInv

\* queued_turns is exact and bounded by max_queued_turns.
THEOREM QueueCounterIsExact == Spec => []QueueCounterExact
BY Invariance, PTL DEF IndInv

\* A session's active_turn belongs to exactly one live submission.
THEOREM SessionsAreExclusive == Spec => []OneTurnPerSession
BY Invariance, PTL DEF IndInv

-----------------------------------------------------------------------------
(* The frames of a turn.                                                    *)

\* A step of one turn that broadcasts nothing and does not take back what the
\* frames of the turn say of it.
LEMMA SilentStep ==
    ASSUME TypeOK, TurnFramesOrdered, FramesFollowTask, UNCHANGED events,
           NEW t \in Turns, pc' = [pc EXCEPT ![t] = pc'[t]],
           outcome' = [outcome EXCEPT ![t] = outcome'[t]],
           pc[t] \in StartedPCs => pc'[t] \in StartedPCs,
           pc[t] \in EndedPCs => pc'[t] \in EndedPCs /\ outcome'[t] = outcome[t]
    PROVE  TurnFramesOrdered' /\ FramesFollowTask'
<1>1. ASSUME NEW s \in Sessions, NEW i \in DOMAIN events[s]
      PROVE  /\ events[s][i] \in Frames
             /\ pc'[events[s][i].turn] \in
                    IF events[s][i].kind = "started" THEN StartedPCs ELSE EndedPCs
             /\ SessionOf[events[s][i].turn] = s
             /\ events[s][i].kind # "started" => events[s][i].kind = outcome'[events[s][i].turn]
  <2>1. events[s][i] \in Frames
    BY <1>1 DEF TypeOK
  <2>2. CASE events[s][i].turn = t
    BY <1>1, <2>1, <2>2 DEF TypeOK, TurnFramesOrdered, FramesFollowTask
  <2>3. CASE events[s][i].turn # t
    BY <1>1, <2>1, <2>3 DEF TypeOK, TurnFramesOrdered, FramesFollowTask, Frames
  <2> QED
    BY <2>1, <2>2, <2>3
<1>2. FramesFollowTask'
  BY <1>1 DEF FramesFollowTask
<1>3. TurnFramesOrdered'
  BY <1>1 DEF TurnFramesOrdered, StartedPCs, EndedPCs
<1> QED
  BY <1>2, <1>3

\* A step that broadcasts a frame of the turn it moves: TurnStarted when the
\* turn has no frame yet, or the frame its task built when it has no terminal
\* frame.
LEMMA BroadcastStep ==
    ASSUME TypeOK, TurnFramesOrdered, FramesFollowTask, UNCHANGED outcome,
           NEW t \in Turns, NEW k \in Outcomes \cup {"started"},
           events' = [events EXCEPT ![SessionOf[t]] = Append(@, Frame(t, k))],
           pc' = [pc EXCEPT ![t] = pc'[t]],
           \/ k = "started" /\ pc[t] \notin StartedPCs /\ pc'[t] \in StartedPCs
           \/ k = outcome[t] /\ k # "started" /\ pc[t] \notin EndedPCs /\ pc'[t] \in EndedPCs
    PROVE  TurnFramesOrdered' /\ FramesFollowTask'
<1> DEFINE own == SessionOf[t]
           n == Len(events[own]) + 1
<1>0. own \in Sessions /\ events[own] \in Seq(Frames) /\ n \in Nat \ {0}
      /\ EndedPCs \subseteq StartedPCs /\ "rejected" \notin StartedPCs
  <2>1. own \in Sessions /\ events[own] \in Seq(Frames)
    BY SessionOfType DEF TypeOK
  <2>2. n \in Nat \ {0}
    BY <2>1
  <2> QED
    BY <2>1, <2>2 DEF StartedPCs, EndedPCs
<1>1. /\ DOMAIN events'[own] = 1..n /\ DOMAIN events[own] = 1..(n - 1)
      /\ events'[own][n] = Frame(t, k)
      /\ \A i \in 1..(n - 1) : events'[own][i] = events[own][i]
      /\ \A s \in Sessions : s # own => events'[s] = events[s]
  <2>1. /\ events'[own] = Append(events[own], Frame(t, k))
        /\ \A s \in Sessions : s # own => events'[s] = events[s]
    BY <1>0 DEF TypeOK
  <2>2. ASSUME NEW q \in Seq(Frames), NEW f
        PROVE  /\ DOMAIN Append(q, f) = 1..(Len(q) + 1) /\ DOMAIN q = 1..Len(q)
               /\ Append(q, f)[Len(q) + 1] = f
               /\ \A i \in 1..Len(q) : Append(q, f)[i] = q[i]
    OBVIOUS
  <2>3. Len(events[own]) \in Nat /\ n - 1 = Len(events[own])
    BY <1>0
  <2> QED
    BY <1>0, <2>1, <2>2, <2>3
<1>2. ASSUME NEW s \in Sessions, NEW i \in DOMAIN events[s]
      PROVE  /\ events[s][i] \in Frames
             /\ pc'[events[s][i].turn] \in
                    IF events[s][i].kind = "started" THEN StartedPCs ELSE EndedPCs
             /\ SessionOf[events[s][i].turn] = s
             /\ events[s][i].kind # "started" => events[s][i].kind = outcome'[events[s][i].turn]
             /\ events[s][i].turn = t => events[s][i].kind = "started" /\ k # "started"
  <2>1. events[s][i] \in Frames
    BY <1>2 DEF TypeOK
  <2>2. CASE events[s][i].turn = t
    BY <1>0, <1>2, <2>1, <2>2 DEF TypeOK, TurnFramesOrdered, FramesFollowTask
  <2>3. CASE events[s][i].turn # t
    BY <1>2, <2>1, <2>3 DEF TypeOK, TurnFramesOrdered, FramesFollowTask, Frames
  <2> QED
    BY <2>1, <2>2, <2>3
<1>3. ASSUME NEW s \in Sessions, NEW i \in DOMAIN events'[s]
      PROVE  /\ pc'[events'[s][i].turn] \in
                    IF events'[s][i].kind = "started" THEN StartedPCs ELSE EndedPCs
             /\ SessionOf[events'[s][i].turn] = s
             /\ events'[s][i].kind # "started" =>
                    events'[s][i].kind = outcome'[events'[s][i].turn]
             /\ ~(s = own /\ i = n) => i \in DOMAIN events[s] /\ events'[s][i] = events[s][i]
  <2>1. CASE s = own /\ i = n
    <3>1. events'[s][i] = [turn |-> t, kind |-> k]
      BY <1>1, <2>1 DEF Frame
    <3>2. /\ pc'[t] \in IF k = "started" THEN StartedPCs ELSE EndedPCs
          /\ k # "started" => k = outcome'[t]
      OBVIOUS
    <3>3. events'[s][i].turn = t /\ events'[s][i].kind = k
      BY <3>1
    <3> HIDE DEF own, n
    <3> QED
      BY <2>1, <3>2, <3>3 DEF own
  <2>2. CASE ~(s = own /\ i = n)
    <3>1. i \in DOMAIN events[s] /\ events'[s][i] = events[s][i]
      BY <1>0, <1>1, <1>3, <2>2
    <3> QED
      BY <1>2, <3>1
  <2> QED
    BY <2>1, <2>2
<1>4. FramesFollowTask'
  BY <1>3 DEF FramesFollowTask
<1>5. TurnFramesOrdered'
  <2>1. ASSUME NEW s \in Sessions, NEW i \in DOMAIN events'[s], NEW j \in DOMAIN events'[s],
               i < j, events'[s][i].turn = events'[s][j].turn
        PROVE  events'[s][i].kind = "started" /\ events'[s][j].kind # "started"
    <3>1. i \in DOMAIN events[s] /\ events'[s][i] = events[s][i]
      BY <1>0, <1>1, <1>3, <2>1
    <3>2. CASE s = own /\ j = n
      <4>1. events'[s][j] = [turn |-> t, kind |-> k]
        BY <1>1, <3>2 DEF Frame
      <4> QED
        BY <1>2, <2>1, <3>1, <4>1
    <3>3. CASE ~(s = own /\ j = n)
      BY <1>3, <2>1, <3>1, <3>3 DEF TurnFramesOrdered
    <3> QED
      BY <3>2, <3>3
  <2> QED
    BY <1>0, <1>3, <2>1 DEF TurnFramesOrdered
<1> QED
  BY <1>4, <1>5

\* TurnStarted and the terminal frame are broadcast by one step each, and the
\* turn never comes back to where it was before.
LEMMA FramesStep ==
    ASSUME TypeOK, OutcomeReady, TurnFramesOrdered, FramesFollowTask, [Next]_vars
    PROVE  TurnFramesOrdered' /\ FramesFollowTask'
<1> DEFINE Goal == TurnFramesOrdered' /\ FramesFollowTask'
<1>1. CASE UNCHANGED <<pc, outcome, events>>
  BY <1>1 DEF TurnFramesOrdered, FramesFollowTask
<1>2. ASSUME NEW t \in Turns, Submit(t) PROVE Goal
  BY <1>2, SilentStep DEF Submit, Reserve, RejectBusy, ClearTerminalFrame, TryEnqueueTurn,
                          Refuse, TypeOK, StartedPCs, EndedPCs
<1>3. ASSUME NEW t \in Turns, PublishTerminalFrame(t) PROVE Goal
  <2>1. outcome[t] \in Outcomes /\ "started" \notin Outcomes
    BY <1>3 DEF PublishTerminalFrame, OutcomeReady, Outcomes
  <2>2. pc[t] \notin EndedPCs /\ pc'[t] \in EndedPCs /\ pc' = [pc EXCEPT ![t] = pc'[t]]
    BY <1>3 DEF PublishTerminalFrame, TypeOK, EndedPCs
  <2> QED
    BY <1>3, <2>1, <2>2, BroadcastStep DEF PublishTerminalFrame
<1>4. ASSUME NEW t \in Turns, StartTurn(t) PROVE Goal
  <2>1. pc[t] \notin StartedPCs /\ pc'[t] \in StartedPCs /\ pc' = [pc EXCEPT ![t] = pc'[t]]
    BY <1>4 DEF StartTurn, TypeOK, StartedPCs
  <2> QED
    BY <1>4, <2>1, BroadcastStep DEF StartTurn
<1>5. ASSUME NEW t \in Turns, Settle(t) PROVE Goal
  BY <1>3, <1>5, SilentStep DEF Settle, ClearActiveTurn, StoreTerminalFrame, EndTask,
                                TypeOK, StartedPCs, EndedPCs
<1>6. ASSUME NEW t \in Turns, Task(t) PROVE Goal
  <2>1. CASE JoinSemaphore(t) \/ AcquirePermit(t) \/ DropWait(t)
    BY <2>1, SilentStep DEF JoinSemaphore, AcquirePermit, DropWait, TypeOK, StartedPCs, EndedPCs
  <2>2. CASE LeaveQueue(t) \/ AbandonAdmitted(t)
    BY <2>2, SilentStep DEF LeaveQueue, AbandonAdmitted, TypeOK, StartedPCs, EndedPCs
  <2> QED
    BY <1>4, <1>5, <1>6, <2>1, <2>2 DEF Task
<1>7. ASSUME NEW t \in Turns, FinishRun(t) PROVE Goal
  BY <1>7, SilentStep DEF FinishRun, TypeOK, StartedPCs, EndedPCs
<1> QED
  BY <1>1, <1>2, <1>6, <1>7 DEF Next, CancelSession, AllDone, vars

\* What is on the channels follows how far the tasks have come.
LEMMA FramesInvariant == Spec => [](TurnFramesOrdered /\ FramesFollowTask)
<1>1. Init => TurnFramesOrdered /\ FramesFollowTask
  BY DEF Init, TurnFramesOrdered, FramesFollowTask
<1>2. IndInv /\ TurnFramesOrdered /\ FramesFollowTask /\ [Next]_vars
        => (TurnFramesOrdered /\ FramesFollowTask)'
  BY FramesStep DEF IndInv
<1> QED
  BY <1>1, <1>2, Invariance, PTL DEF Spec

\* On the channel of a session every turn shows at most one TurnStarted, then
\* at most one terminal frame, the one its task built; a refused one none.
THEOREM FramesAreOrdered == Spec => []TurnFramesOrdered
BY FramesInvariant, PTL

-----------------------------------------------------------------------------
(* Refinement: GatewayTurns implements TurnService.                         *)

\* TurnService counts with the same Cardinality.
LEMMA SameCardinality == \A S : Abstract!Cardinality(S) = Cardinality(S)
BY DEF Abstract!Cardinality, Cardinality

\* The abstract queue is what queued_turns counts, and abstractly running
\* turns hold a permit.
LEMMA AbstractSets ==
    /\ Abstract!InState("queued") = QueuedSet
    /\ Abstract!InState("running") = {t \in Turns : pc[t] \in {"admitted", "running"}}
BY DEF Abstract!InState, Status, StatusAt, QueuedSet, Counted

\* A step that moves no turn to another abstract state is a stutter.
LEMMA StutterStep ==
    ASSUME TypeOK, NEW t \in Turns, pc' = [pc EXCEPT ![t] = pc'[t]],
           Status'[t] = Status[t]
    PROVE  UNCHANGED Status
BY DEF Status, TypeOK

\* A step that moves one turn is an EXCEPT of the abstract status.
LEMMA MoveStep ==
    ASSUME TypeOK, NEW t \in Turns, NEW k, pc' = [pc EXCEPT ![t] = pc'[t]],
           Status'[t] = k
    PROVE  Status' = [Status EXCEPT ![t] = k]
BY DEF Status, TypeOK

\* Every step of the gateway is a step of TurnService or leaves it alone.
LEMMA RefinementStep ==
    ASSUME IndInv, [Next]_vars
    PROVE  [Abstract!Next]_Status
<1> USE DEF TypeOK, Counted
<1>0. TypeOK /\ PermitsConserved /\ QueueCounterExact /\ OneTurnPerSession
  BY DEF IndInv
<1>1. CASE UNCHANGED pc
  BY <1>1 DEF Status, StatusAt
<1>2. ASSUME NEW t \in Turns, RejectBusy(t) \/ Refuse(t) PROVE Abstract!Reject(t)
  <2>1. Status[t] = "new" /\ Status'[t] = "rejected" /\ pc' = [pc EXCEPT ![t] = pc'[t]]
    BY <1>0, <1>2 DEF RejectBusy, Refuse, Status, StatusAt
  <2> QED
    BY <1>0, <2>1, MoveStep DEF Abstract!Reject
<1>3. ASSUME NEW t \in Turns, TryEnqueueTurn(t), queuedTurns < MaxQueued
      PROVE  Abstract!Accept(t)
  <2>1. pc[t] = "cleared" /\ pc' = [pc EXCEPT ![t] = "spawned"]
    BY <1>3, <1>0, MaxQueuedType DEF TryEnqueueTurn
  <2>2. Status[t] = "new" /\ Status'[t] = "queued"
    BY <1>0, <2>1 DEF Status, StatusAt
  <2>3. \A u \in Turns : SessionOf[u] = SessionOf[t]
                            => Status[u] \notin {"queued", "running"}
    <3> SUFFICES ASSUME NEW u \in Turns, SessionOf[u] = SessionOf[t],
                        Status[u] \in {"queued", "running"}
                 PROVE  FALSE
      OBVIOUS
    <3>1. pc[u] \in OwnsSession /\ u # t
      BY <2>1 DEF Status, StatusAt, OwnsSession
    <3>2. activeTurn[SessionOf[t]] = t /\ activeTurn[SessionOf[u]] = u
      BY <1>0, <2>1, <3>1 DEF OneTurnPerSession, OwnsSession
    <3> QED
      BY <3>1, <3>2
  <2>4. Cardinality(Abstract!InState("queued")) < MaxQueued
    BY <1>0, <1>3, AbstractSets DEF QueueCounterExact
  <2>5. Status' = [Status EXCEPT ![t] = "queued"]
    BY <1>0, <2>1, <2>2, MoveStep
  <2> QED
    BY <2>2, <2>3, <2>4, <2>5, SameCardinality DEF Abstract!Accept
<1>4. ASSUME NEW t \in Turns, LeaveQueue(t), pc[t] = "granted"
      PROVE  Abstract!Start(t)
  <2> DEFINE R == {u \in Turns : pc[u] \in {"admitted", "running"}}
  <2>1. pc' = [pc EXCEPT ![t] = "admitted"]
    BY <1>4 DEF LeaveQueue
  <2>2. Status[t] = "queued" /\ Status'[t] = "running"
    BY <1>0, <1>4, <2>1 DEF Status, StatusAt
  <2>3. R \cup {t} \subseteq holders /\ t \notin R
    BY <1>0, <1>4 DEF PermitsConserved
  <2>4. /\ IsFiniteSet(holders) /\ Cardinality(holders) \in Nat
        /\ permits \in Nat /\ MaxConcurrent \in Nat
    BY <1>0, FiniteSubsets, FS_CardinalityType, MaxConcurrentType
  <2>5. IsFiniteSet(R) /\ Cardinality(R) \in Nat
    BY <2>3, <2>4, FS_Subset, FS_CardinalityType
  <2>6. Cardinality(R \cup {t}) = Cardinality(R) + 1
    BY <2>3, <2>5, FS_AddElement
  <2>7. Cardinality(R \cup {t}) <= Cardinality(holders)
    BY <2>3, <2>4, FS_Subset
  <2>8. Cardinality(R) < MaxConcurrent
    BY <1>0, <2>4, <2>5, <2>6, <2>7 DEF PermitsConserved
  <2>9. Cardinality(Abstract!InState("running")) < MaxConcurrent
    BY <2>8, AbstractSets
  <2>10. Status' = [Status EXCEPT ![t] = "running"]
    BY <1>0, <2>1, <2>2, MoveStep
  <2> QED
    BY <2>2, <2>9, <2>10, SameCardinality DEF Abstract!Start
<1>5. ASSUME NEW t \in Turns,
             pc[t] \in {"dropped", "admitted", "running"},
             pc' = [pc EXCEPT ![t] = "ending"]
      PROVE  Abstract!Finish(t)
  <2>1. Status[t] \in {"queued", "running"} /\ Status'[t] = "finished"
    BY <1>0, <1>5 DEF Status, StatusAt
  <2> QED
    BY <1>0, <1>5, <2>1, MoveStep DEF Abstract!Finish
<1>6. ASSUME NEW t \in Turns, Submit(t) PROVE [Abstract!Next]_Status
  <2>1. CASE Reserve(t) \/ ClearTerminalFrame(t) \/ (TryEnqueueTurn(t) /\ ~(queuedTurns < MaxQueued))
    <3>1. pc' = [pc EXCEPT ![t] = pc'[t]] /\ Status'[t] = Status[t]
      BY <1>0, <2>1 DEF Reserve, ClearTerminalFrame, TryEnqueueTurn, Status, StatusAt
    <3> QED
      BY <1>0, <3>1, StutterStep
  <2> QED
    BY <1>2, <1>3, <1>6, <2>1 DEF Submit, Abstract!Next
<1>7. ASSUME NEW t \in Turns, Task(t) PROVE [Abstract!Next]_Status
  <2>1. CASE JoinSemaphore(t) \/ AcquirePermit(t) \/ DropWait(t)
    <3>1. pc' = [pc EXCEPT ![t] = pc'[t]] /\ Status'[t] = Status[t]
      BY <1>0, <2>1 DEF JoinSemaphore, AcquirePermit, DropWait, Status, StatusAt
    <3> QED
      BY <1>0, <3>1, StutterStep
  <2>2. CASE LeaveQueue(t)
    <3>1. pc[t] = "granted" \/ (pc[t] = "dropped" /\ pc' = [pc EXCEPT ![t] = "ending"])
      BY <2>2 DEF LeaveQueue
    <3> QED
      BY <1>4, <1>5, <2>2, <3>1 DEF Abstract!Next
  <2>3. CASE AbandonAdmitted(t)
    BY <1>5, <2>3 DEF AbandonAdmitted, Abstract!Next
  <2>4. CASE StartTurn(t)
    <3>1. pc' = [pc EXCEPT ![t] = pc'[t]] /\ Status'[t] = Status[t]
      BY <1>0, <2>4 DEF StartTurn, Status, StatusAt
    <3> QED
      BY <1>0, <3>1, StutterStep
  <2>5. CASE Settle(t)
    <3>1. pc' = [pc EXCEPT ![t] = pc'[t]] /\ Status'[t] = Status[t]
      BY <1>0, <2>5 DEF Settle, ClearActiveTurn, StoreTerminalFrame,
                        PublishTerminalFrame, EndTask, Status, StatusAt
    <3> QED
      BY <1>0, <3>1, StutterStep
  <2> QED
    BY <1>7, <2>1, <2>2, <2>3, <2>4, <2>5 DEF Task
<1>8. ASSUME NEW t \in Turns, FinishRun(t) PROVE [Abstract!Next]_Status
  BY <1>5, <1>8 DEF FinishRun, Abstract!Next
<1> QED
  BY <1>1, <1>6, <1>7, <1>8 DEF Next, CancelSession, AllDone, vars

\* The gateway implements TurnService: whatever the interleaving of its
\* locks, a client sees a service with one turn per session, at most
\* MaxConcurrent running and at most MaxQueued waiting.
THEOREM Refinement == Spec => ImplementsTurnService
<1>1. Init => Abstract!Init
  <2> SUFFICES ASSUME Init PROVE Status = [t \in Turns |-> "new"]
    BY DEF Abstract!Init
  <2>1. \A t \in Turns : Status[t] = "new"
    BY DEF Init, Status, StatusAt, Counted
  <2> QED
    BY <2>1 DEF Status
<1>2. IndInv /\ [Next]_vars => [Abstract!Next]_Status
  BY RefinementStep
<1> QED
  BY <1>1, <1>2, Invariance, PTL DEF Spec, ImplementsTurnService, Abstract!Spec
=============================================================================
