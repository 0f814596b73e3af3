---------------------------- MODULE GatewayTurns ----------------------------
(***************************************************************************)
(* Admission, queueing, execution and termination of the top-level turns   *)
(* of ONE user of the gateway (crates/gateway/src/lib.rs and session.rs).  *)
(* Users share nothing but the map that holds them, so one user is the     *)
(* whole story.  A member of Turns is one SendTurn frame; SessionOf gives  *)
(* the SessionState it is addressed to.                                    *)
(*                                                                         *)
(* Every lock or atomic operation of start_turn_with_origin is a step of   *)
(* its own: the handler and the spawned task release each mutex before     *)
(* they take the next one, so other turns run in between.                  *)
(***************************************************************************)
EXTENDS Naturals, Sequences, FiniteSets

CONSTANTS
    Turns,         \* submissions (SendTurn frames) of the user
    Sessions,      \* the user's SessionState objects
    SessionOf,     \* [Turns -> Sessions]
    MaxConcurrent, \* max_concurrent_turns: permits of turn_semaphore
    MaxQueued,     \* max_queued_turns
    NoTurn,        \* None in active_turn
    NoFrame        \* None in latest_terminal_frame and stop_reason

ASSUME TurnsFinite == IsFiniteSet(Turns)
ASSUME SessionOfType == SessionOf \in [Turns -> Sessions]
ASSUME MaxConcurrentType == MaxConcurrent \in Nat
ASSUME MaxQueuedType == MaxQueued \in Nat
ASSUME NoTurnFresh == NoTurn \notin Turns

VARIABLES
    pc,            \* where each submission's handler or task stands
    activeTurn,    \* session.active_turn
    terminalFrame, \* session.latest_terminal_frame
    stopReason,    \* session.stop_reason
    cancelled,     \* the turns whose CancellationToken has fired
    outcome,       \* the kind of terminal frame a finishing task carries
    holders,       \* the turns whose task owns a permit
    queuedTurns,   \* user.queued_turns
    permits,       \* free permits of user.turn_semaphore
    waitQueue,     \* the semaphore's waiters, FIFO
    events         \* everything broadcast on session.events, oldest first

vars == <<pc, activeTurn, terminalFrame, stopReason, cancelled, outcome,
          holders, queuedTurns, permits, waitQueue, events>>

-----------------------------------------------------------------------------
(* Frames.  A frame is its turn and its kind; texts are left out.           *)

Outcomes == {"completed", "cancelled", "error"}
Frame(t, k) == [turn |-> t, kind |-> k]
Frames == [turn : Turns, kind : Outcomes \cup {"started"}]
TerminalFrames == [turn : Turns, kind : Outcomes]
\* One StopReason per way run_turn can end; a panic and every other error
\* are both StopReason::Error.
StopReasons == {"Completed", "Cancelled", "MaxBudgetExceeded", "MaxTurns",
                "MaxRuntimeExceeded", "Error"}

-----------------------------------------------------------------------------
(* Program points.                                                          *)
(*   idle      not submitted yet                                            *)
(*   reserved  active_turn set, latest_terminal_frame not yet cleared       *)
(*   cleared   latest_terminal_frame cleared, not yet queued                *)
(*   refused   the queue was full, active_turn not yet reset                *)
(*   spawned   counted in queued_turns, task spawned                        *)
(*   waiting   its acquire future is in the semaphore's queue               *)
(*   granted   the select! chose the permit, queued_turns not decremented   *)
(*   dropped   the select! chose cancellation, queued_turns not decremented *)
(*   admitted  holds a permit, about to look at its token                   *)
(*   running   TurnStarted published, run_turn in progress                  *)
(*   ending    terminal frame built, active_turn not yet cleared            *)
(*   unset     active_turn cleared, terminal frame not yet stored           *)
(*   stored    terminal frame stored, not yet broadcast                     *)
(*   published terminal frame broadcast, permit (if any) still held         *)
(*   done      task ended       rejected   an error frame was returned      *)

PCs == {"idle", "reserved", "cleared", "refused", "spawned", "waiting",
        "granted", "dropped", "admitted", "running", "ending", "unset",
        "stored", "published", "done", "rejected"}
\* while a turn is at one of these it owns its session's active_turn
OwnsSession == {"reserved", "cleared", "refused", "spawned", "waiting",
                "granted", "dropped", "admitted", "running", "ending"}
\* while a turn is at one of these it is counted in queued_turns
Counted == {"spawned", "waiting", "granted", "dropped"}

TypeOK ==
    /\ pc \in [Turns -> PCs]
    /\ activeTurn \in [Sessions -> Turns \cup {NoTurn}]
    /\ terminalFrame \in [Sessions -> TerminalFrames \cup {NoFrame}]
    /\ stopReason \in [Sessions -> StopReasons \cup {NoFrame}]
    /\ cancelled \in SUBSET Turns
    /\ outcome \in [Turns -> Outcomes \cup {"none"}]
    /\ holders \in SUBSET Turns
    /\ queuedTurns \in Nat
    /\ permits \in Nat
    /\ waitQueue \in Seq(Turns)
    /\ events \in [Sessions -> Seq(Frames)]

Init ==
    /\ pc = [t \in Turns |-> "idle"]
    /\ activeTurn = [s \in Sessions |-> NoTurn]
    /\ terminalFrame = [s \in Sessions |-> NoFrame]
    /\ stopReason = [s \in Sessions |-> NoFrame]
    /\ cancelled = {}
    /\ outcome = [t \in Turns |-> "none"]
    /\ holders = {}
    /\ queuedTurns = 0
    /\ permits = MaxConcurrent
    /\ waitQueue = <<>>
    /\ events = [s \in Sessions |-> <<>>]

Goto(t, from, to) ==
    /\ pc[t] = from
    /\ pc' = [pc EXCEPT ![t] = to]

-----------------------------------------------------------------------------
(* start_turn_with_origin, up to the spawn.                                 *)

\* The active_turn critical section: refuse a second turn, else reserve.
Reserve(t) ==
    /\ activeTurn[SessionOf[t]] = NoTurn
    /\ Goto(t, "idle", "reserved")
    /\ activeTurn' = [activeTurn EXCEPT ![SessionOf[t]] = t]
    /\ UNCHANGED <<terminalFrame, stopReason, cancelled, outcome, holders,
                   queuedTurns, permits, waitQueue, events>>

\* Attachments that fail validate_inline_attachments, or a turn already
\* active: an error frame goes back to the submitter and nothing changes.
RejectBusy(t) ==
    /\ Goto(t, "idle", "rejected")
    /\ UNCHANGED <<activeTurn, terminalFrame, stopReason, cancelled, outcome,
                   holders, queuedTurns, permits, waitQueue, events>>

ClearTerminalFrame(t) ==
    /\ Goto(t, "reserved", "cleared")
    /\ terminalFrame' = [terminalFrame EXCEPT ![SessionOf[t]] = NoFrame]
    /\ UNCHANGED <<activeTurn, stopReason, cancelled, outcome, holders,
                   queuedTurns, permits, waitQueue, events>>

\* try_enqueue_turn: its compare-exchange loop is one atomic step, because
\* the only effect is the exchange that succeeds on the value it tested.
TryEnqueueTurn(t) ==
    /\ \/ /\ queuedTurns < MaxQueued
          /\ Goto(t, "cleared", "spawned")
          /\ queuedTurns' = queuedTurns + 1
       \/ /\ queuedTurns >= MaxQueued
          /\ Goto(t, "cleared", "refused")
          /\ UNCHANGED queuedTurns
    /\ UNCHANGED <<activeTurn, terminalFrame, stopReason, cancelled, outcome,
                   holders, permits, waitQueue, events>>

\* Mutant: the refused handler returns without resetting active_turn.
RefuseKeepsActive(t) ==
    /\ Goto(t, "refused", "rejected")
    /\ UNCHANGED <<activeTurn, terminalFrame, stopReason, cancelled, outcome,
                   holders, queuedTurns, permits, waitQueue, events>>

\* The queue was full: reset active_turn and return the error frame.
Refuse(t) ==
    /\ Goto(t, "refused", "rejected")
    /\ activeTurn' = [activeTurn EXCEPT ![SessionOf[t]] = NoTurn]
    /\ UNCHANGED <<terminalFrame, stopReason, cancelled, outcome, holders,
                   queuedTurns, permits, waitQueue, events>>

-----------------------------------------------------------------------------
(* The spawned task.                                                        *)

\* First poll of acquire_owned: join the semaphore's FIFO queue.
JoinSemaphore(t) ==
    /\ Goto(t, "spawned", "waiting")
    /\ waitQueue' = Append(waitQueue, t)
    /\ UNCHANGED <<activeTurn, terminalFrame, stopReason, cancelled, outcome,
                   holders, queuedTurns, permits, events>>

\* select!: the permit branch.  It may be chosen although the token fired.
AcquirePermit(t) ==
    /\ waitQueue # <<>> /\ Head(waitQueue) = t /\ permits > 0
    /\ Goto(t, "waiting", "granted")
    /\ permits' = permits - 1
    /\ waitQueue' = Tail(waitQueue)
    /\ holders' = holders \cup {t}
    /\ UNCHANGED <<activeTurn, terminalFrame, stopReason, cancelled, outcome,
                   queuedTurns, events>>

\* Mutant: a plain acquire_owned().await that cancellation cannot interrupt.
DropWaitNever(t) == FALSE /\ t \in cancelled /\ UNCHANGED vars

\* select!: the cancellation branch, whether acquire was polled or not.  The
\* future is pinned outside of the select!, so it stays where it is.
DropWait(t) ==
    /\ t \in cancelled
    /\ \/ Goto(t, "waiting", "dropped")
       \/ Goto(t, "spawned", "dropped")
    /\ UNCHANGED <<activeTurn, terminalFrame, stopReason, cancelled, outcome,
                   holders, queuedTurns, permits, waitQueue, events>>

\* The acquire future goes out of scope: its entry leaves the semaphore's
\* queue.  A permit assigned to it meanwhile goes to the next in line, so the
\* entry only holds up the ones behind it.
ReleaseWaiter(t) ==
    \/ /\ \A i \in DOMAIN waitQueue : waitQueue[i] # t
       /\ UNCHANGED waitQueue
    \/ \E i \in DOMAIN waitQueue :
         /\ waitQueue[i] = t
         /\ waitQueue' = SubSeq(waitQueue, 1, i - 1)
                           \o SubSeq(waitQueue, i + 1, Len(waitQueue))

\* Mutant: the cancellation branch returns before the fetch_sub.
LeaveQueueOnlyWithPermit(t) ==
    /\ \/ /\ Goto(t, "granted", "admitted")
          /\ queuedTurns' = queuedTurns - 1
          /\ UNCHANGED <<outcome, waitQueue>>
       \/ /\ Goto(t, "dropped", "ending")
          /\ outcome' = [outcome EXCEPT ![t] = "cancelled"]
          /\ ReleaseWaiter(t)
          /\ UNCHANGED queuedTurns
    /\ UNCHANGED <<activeTurn, terminalFrame, stopReason, cancelled, holders,
                   permits, events>>

\* Mutant: a cancelled waiter ends like a refused submission, with an error
\* for the submitter and no terminal frame.
LeaveQueueRejected(t) ==
    /\ queuedTurns' = queuedTurns - 1
    /\ \/ /\ Goto(t, "granted", "admitted")
          /\ UNCHANGED <<activeTurn, waitQueue>>
       \/ /\ Goto(t, "dropped", "rejected")
          /\ activeTurn' = [activeTurn EXCEPT ![SessionOf[t]] = NoTurn]
          /\ ReleaseWaiter(t)
    /\ UNCHANGED <<terminalFrame, stopReason, cancelled, outcome, holders,
                   permits, events>>

\* queued_turns.fetch_sub(1) on either branch and the return; without a
\* permit the task goes straight to its TurnCancelled frame.
LeaveQueue(t) ==
    /\ queuedTurns' = queuedTurns - 1
    /\ \/ /\ Goto(t, "granted", "admitted")
          /\ UNCHANGED <<outcome, waitQueue>>
       \/ /\ Goto(t, "dropped", "ending")
          /\ outcome' = [outcome EXCEPT ![t] = "cancelled"]
          /\ ReleaseWaiter(t)
    /\ UNCHANGED <<activeTurn, terminalFrame, stopReason, cancelled, holders,
                   permits, events>>

\* Mutant: the task goes to its ending without having built its frame.
AbandonWithoutFrame(t) ==
    /\ t \in cancelled
    /\ Goto(t, "admitted", "ending")
    /\ UNCHANGED <<activeTurn, terminalFrame, stopReason, cancelled, outcome,
                   holders, queuedTurns, permits, waitQueue, events>>

\* The token had fired by the time the permit came.
AbandonAdmitted(t) ==
    /\ t \in cancelled
    /\ Goto(t, "admitted", "ending")
    /\ outcome' = [outcome EXCEPT ![t] = "cancelled"]
    /\ UNCHANGED <<activeTurn, terminalFrame, stopReason, cancelled, holders,
                   queuedTurns, permits, waitQueue, events>>

\* Publish TurnStarted and enter run_turn.
StartTurn(t) ==
    /\ t \notin cancelled
    /\ Goto(t, "admitted", "running")
    /\ events' = [events EXCEPT ![SessionOf[t]] = Append(@, Frame(t, "started"))]
    /\ UNCHANGED <<activeTurn, terminalFrame, stopReason, cancelled, outcome,
                   holders, queuedTurns, permits, waitQueue>>

\* run_turn returned or panicked: stop_reason is set and the frame built.
\* The runtime answers Cancelled only when the token fired; a turn whose
\* token fired may still complete or fail first.
FrameKindFor(r) == CASE r = "Completed" -> "completed"
                     [] r = "Cancelled" -> "cancelled"
                     [] OTHER           -> "error"
FinishRun(t) ==
    /\ Goto(t, "running", "ending")
    /\ \E r \in StopReasons :
         /\ r = "Cancelled" => t \in cancelled
         /\ stopReason' = [stopReason EXCEPT ![SessionOf[t]] = r]
         /\ outcome' = [outcome EXCEPT ![t] = FrameKindFor(r)]
    /\ UNCHANGED <<activeTurn, terminalFrame, cancelled, holders, queuedTurns,
                   permits, waitQueue, events>>

-----------------------------------------------------------------------------
(* The common ending of the three exits of the task.                        *)

ClearActiveTurn(t) ==
    /\ Goto(t, "ending", "unset")
    /\ activeTurn' = [activeTurn EXCEPT ![SessionOf[t]] =
                          IF @ = t THEN NoTurn ELSE @]
    /\ UNCHANGED <<terminalFrame, stopReason, cancelled, outcome, holders,
                   queuedTurns, permits, waitQueue, events>>

\* Mutant: storing the terminal frame broadcasts it as well.
StoreAndPublish(t) ==
    /\ Goto(t, "unset", "stored")
    /\ terminalFrame' = [terminalFrame EXCEPT ![SessionOf[t]] =
                             Frame(t, outcome[t])]
    /\ events' = [events EXCEPT ![SessionOf[t]] =
                      Append(@, Frame(t, outcome[t]))]
    /\ UNCHANGED <<activeTurn, stopReason, cancelled, outcome, holders,
                   queuedTurns, permits, waitQueue>>

StoreTerminalFrame(t) ==
    /\ Goto(t, "unset", "stored")
    /\ terminalFrame' = [terminalFrame EXCEPT ![SessionOf[t]] =
                             Frame(t, outcome[t])]
    /\ UNCHANGED <<activeTurn, stopReason, cancelled, outcome, holders,
                   queuedTurns, permits, waitQueue, events>>

PublishTerminalFrame(t) ==
    /\ Goto(t, "stored", "published")
    /\ events' = [events EXCEPT ![SessionOf[t]] =
                      Append(@, Frame(t, outcome[t]))]
    /\ UNCHANGED <<activeTurn, terminalFrame, stopReason, cancelled, outcome,
                   holders, queuedTurns, permits, waitQueue>>

\* Mutant: the permit is forgotten (mem::forget) instead of dropped.
EndTaskLeaksPermit(t) ==
    /\ Goto(t, "published", "done")
    /\ holders' = holders \ {t}
    /\ UNCHANGED <<activeTurn, terminalFrame, stopReason, cancelled, outcome,
                   queuedTurns, permits, waitQueue, events>>

\* mark_active, touch_session, and the drop of _permit with the task.
EndTask(t) ==
    /\ Goto(t, "published", "done")
    /\ permits' = IF t \in holders THEN permits + 1 ELSE permits
    /\ holders' = holders \ {t}
    /\ UNCHANGED <<activeTurn, terminalFrame, stopReason, cancelled, outcome,
                   queuedTurns, waitQueue, events>>

-----------------------------------------------------------------------------
(* Cancellation.                                                            *)

\* cancel_session_active_turn: whatever turn the session has now; the turn
\* id of the frame is not compared.  CancelAllActiveTurns does the same to
\* each session in turn.
CancelSession(s) ==
    /\ activeTurn[s] # NoTurn
    /\ activeTurn[s] \notin cancelled
    /\ cancelled' = cancelled \cup {activeTurn[s]}
    /\ UNCHANGED <<pc, activeTurn, terminalFrame, stopReason, outcome,
                   holders, queuedTurns, permits, waitQueue, events>>

-----------------------------------------------------------------------------
Submit(t) == \/ Reserve(t) \/ RejectBusy(t) \/ ClearTerminalFrame(t)
             \/ TryEnqueueTurn(t) \/ Refuse(t)
Settle(t) == \/ ClearActiveTurn(t) \/ StoreTerminalFrame(t)
             \/ PublishTerminalFrame(t) \/ EndTask(t)
Task(t)   == \/ JoinSemaphore(t) \/ AcquirePermit(t) \/ DropWait(t)
             \/ LeaveQueue(t) \/ AbandonAdmitted(t) \/ StartTurn(t)
             \/ Settle(t)

\* Every submission has been answered and every task has ended.
AllDone == /\ \A t \in Turns : pc[t] \in {"done", "rejected"}
           /\ UNCHANGED vars

Next == \/ \E t \in Turns : Submit(t) \/ Task(t) \/ FinishRun(t)
        \/ \E s \in Sessions : CancelSession(s)
        \/ AllDone

Spec == Init /\ [][Next]_vars

\* A spawned task and a handler past its first lock keep being polled, and
\* nothing in them waits for anything but a mutex that is always released.
TaskFairness == \A t \in Turns : /\ WF_vars(Task(t))
                                 /\ WF_vars(ClearTerminalFrame(t))
                                 /\ WF_vars(TryEnqueueTurn(t))
                                 /\ WF_vars(Refuse(t))
\* Nothing is said of run_turn: it may never return.
StuckRuntimeSpec == Spec /\ TaskFairness
\* run_turn returns: turn_timeout bounds each provider and tool call, and
\* max_turns their number.
RunsReturn == \A t \in Turns : WF_vars(FinishRun(t))

-----------------------------------------------------------------------------
(* Safety.                                                                  *)

QueuedSet == {t \in Turns : pc[t] \in Counted}

\* Over every interleaving of admissions, cancellations and task ends no
\* permit of turn_semaphore is lost or duplicated (acquire_turn_permit and
\* the drop of _permit), so at most MaxConcurrent turns run at once.
PermitsConserved ==
    /\ permits + Cardinality(holders) = MaxConcurrent
    /\ \A t \in Turns :
         /\ pc[t] \in {"granted", "admitted", "running"} => t \in holders
         /\ t \in holders => pc[t] \in {"granted", "admitted", "running",
                                        "ending", "unset", "stored", "published"}

\* queued_turns counts exactly the turns between try_enqueue_turn and the
\* fetch_sub of acquire_turn_permit: a cancelled waiter leaves no phantom
\* entry that would shrink the queue for good, and the limit holds.
QueueCounterExact ==
    /\ queuedTurns = Cardinality(QueuedSet)
    /\ queuedTurns <= MaxQueued

\* active_turn is owned by exactly one submission from the moment it is
\* reserved until that submission resets it, whether it is refused, dropped
\* in the queue, abandoned or run: one session never has two live turns,
\* and no task clears another's entry.
OneTurnPerSession ==
    \A t \in Turns : pc[t] \in OwnsSession <=> activeTurn[SessionOf[t]] = t

\* What the subscribers of a session see of one turn: at most one
\* TurnStarted and then at most one terminal frame, the one the task built;
\* a refused submission leaves no frame.
TurnFramesOrdered ==
    \A s \in Sessions :
      /\ \A i, j \in DOMAIN events[s] :
           (i < j /\ events[s][i].turn = events[s][j].turn) =>
              events[s][i].kind = "started" /\ events[s][j].kind # "started"
      /\ \A i \in DOMAIN events[s] :
           LET f == events[s][i] IN
             /\ SessionOf[f.turn] = s
             /\ pc[f.turn] # "rejected"
             /\ f.kind # "started" => f.kind = outcome[f.turn]

\* The strengthening TurnFramesOrdered needs: what is on the channel tells how
\* far the task has come, so that it cannot publish the same frame again.
StartedPCs == {"running", "ending", "unset", "stored", "published", "done"}
EndedPCs == {"published", "done"}
FramesFollowTask ==
    \A s \in Sessions : \A i \in DOMAIN events[s] :
      pc[events[s][i].turn] \in IF events[s][i].kind = "started" THEN StartedPCs ELSE EndedPCs

\* A task that is ending has built its terminal frame.
OutcomeReady ==
    \A t \in Turns : pc[t] \in {"ending", "unset", "stored", "published"}
                       => outcome[t] \in Outcomes

\* The inductive invariant behind the safety theorems: the counters are only
\* naturals because they count, and frames are only well typed because an
\* ending task has an outcome, so the parts need each other.
IndInv == TypeOK /\ OutcomeReady /\ PermitsConserved /\ QueueCounterExact
          /\ OneTurnPerSession

-----------------------------------------------------------------------------
(* Liveness.                                                                *)

\* If run_turn returns, every turn the gateway accepts is answered: its
\* terminal frame is broadcast and its permit is back (the spawned task
\* reaches its end).
AcceptedTurnEnds ==
    RunsReturn => \A t \in Turns : pc[t] = "spawned" ~> pc[t] = "done"

\* A cancelled turn that is still queued ends even if no running turn ever
\* returns (the select! of acquire_turn_permit), so cancelling really does
\* free the session and the place in the queue.
CancelledWaiterEnds ==
    \A t \in Turns :
      (pc[t] \in Counted /\ t \in cancelled) ~> pc[t] = "done"

-----------------------------------------------------------------------------
(* Refinement.                                                              *)

\* Each step of a submission's handler or task is a step of TurnService or
\* leaves it alone: a turn counts as queued until its queued_turns entry is
\* released, as running until its terminal frame is built.
StatusAt(p) ==
    CASE p \in {"idle", "reserved", "cleared", "refused"} -> "new"
      [] p = "rejected"                -> "rejected"
      [] p \in Counted                 -> "queued"
      [] p \in {"admitted", "running"} -> "running"
      [] OTHER                         -> "finished"
Status == [t \in Turns |-> StatusAt(pc[t])]

Abstract == INSTANCE TurnService WITH status <- Status

\* The gateway implements TurnService (start_turn_with_origin and the task
\* it spawns, seen through the five states a client can tell apart).
ImplementsTurnService == Abstract!Spec
\* ... and, if run_turn returns, also its fairness: queued and running turns
\* come to an end.
ImplementsFairTurnService == RunsReturn => Abstract!Fairness

\* Every turn of the gateway ends, as TurnService promises: by itself if
\* run_turn returns, by cancellation while it is queued also if no run_turn
\* ever does.
TurnsEnd == AcceptedTurnEnds /\ CancelledWaiterEnds /\ ImplementsFairTurnService
=============================================================================
