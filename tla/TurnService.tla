---------------------------- MODULE TurnService -----------------------------
(***************************************************************************)
(* What the gateway promises about the turns of one user, without queues,  *)
(* locks, permits or tokens: a submission is either rejected or queued,    *)
(* then possibly run, then finished; a session has at most one turn under  *)
(* way, at most MaxConcurrent turns run and at most MaxQueued wait.        *)
(* GatewayTurns implements this specification.                             *)
(***************************************************************************)
EXTENDS Naturals, FiniteSets

CONSTANTS Turns, Sessions, SessionOf, MaxConcurrent, MaxQueued

VARIABLE status

Statuses == {"new", "queued", "running", "finished", "rejected"}
InState(k) == {t \in Turns : status[t] = k}

Init == status = [t \in Turns |-> "new"]

Reject(t) ==
    /\ status[t] = "new"
    /\ status' = [status EXCEPT ![t] = "rejected"]

Accept(t) ==
    /\ status[t] = "new"
    /\ Cardinality(InState("queued")) < MaxQueued
    /\ \A u \in Turns : SessionOf[u] = SessionOf[t]
                           => status[u] \notin {"queued", "running"}
    /\ status' = [status EXCEPT ![t] = "queued"]

Start(t) ==
    /\ status[t] = "queued"
    /\ Cardinality(InState("running")) < MaxConcurrent
    /\ status' = [status EXCEPT ![t] = "running"]

Finish(t) ==
    /\ status[t] \in {"queued", "running"}
    /\ status' = [status EXCEPT ![t] = "finished"]

Next == \E t \in Turns : Reject(t) \/ Accept(t) \/ Start(t) \/ Finish(t)

Spec == Init /\ [][Next]_status
Fairness == \A t \in Turns : WF_status(Finish(t))
=============================================================================
