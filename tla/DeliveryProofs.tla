--------------------------- MODULE DeliveryProofs ---------------------------
(***************************************************************************)
(* Proofs about what reaches clients: the connections of the gateway and   *)
(* the notifications of schedules, for any number of turns, sessions,      *)
(* connections, notices and chunks.                                        *)
(***************************************************************************)
EXTENDS GatewayConnection, ProactiveDelivery, GatewayTurnsProofs

USE DEF Goto

-----------------------------------------------------------------------------
(* GatewayConnection.                                                       *)

\* The turns go their own way, whatever connections do.
LEMMA ConnectionsRefineTurns == ConnSpec => Spec
<1>1. ConnInit => Init
  BY DEF ConnInit
<1>2. [ConnNext]_allVars => [Next]_vars
  BY DEF ConnNext, allVars, vars, ConnStep, Hello, SwitchSession, HelloAck, RecheckActive,
         ReplayOutcome, SessionSwitched, Deliver, Lag, Disconnect
<1> QED
  BY <1>1, <1>2, PTL DEF ConnSpec, Spec

\* What a connection is given is typed.
LEMMA ConnTypes ==
    ASSUME ConnInv, TypeOK, NEW c \in Conns
    PROVE  /\ onSession[c] \in Sessions /\ cursor[c] \in Nat /\ Len(events[onSession[c]]) \in Nat
           /\ events[onSession[c]] \in Seq(Frames)
           /\ \A i \in 1..Len(events[onSession[c]]) : events[onSession[c]][i] \in Frames
           /\ cursor[c] <= Len(events[onSession[c]])
BY DEF ConnInv, ConnTypeOK, TypeOK, ReceiverOK

\* A step of a turn adds a frame to the channel of a session, or none.
LEMMA LogsGrow ==
    ASSUME TypeOK, OutcomeReady, Next, NEW s \in Sessions
    PROVE  events'[s] = events[s] \/ \E f \in Frames : events'[s] = Append(events[s], f)
<1>1. ASSUME NEW t \in Turns, NEW k \in Outcomes \cup {"started"},
             events' = [events EXCEPT ![SessionOf[t]] = Append(@, Frame(t, k))]
      PROVE  events'[s] = events[s] \/ \E f \in Frames : events'[s] = Append(events[s], f)
  <2>1. Frame(t, k) \in Frames
    BY DEF Frame, Frames
  <2> QED
    BY <1>1, <2>1 DEF TypeOK
<1>2. ASSUME NEW t \in Turns, StartTurn(t)
      PROVE  events'[s] = events[s] \/ \E f \in Frames : events'[s] = Append(events[s], f)
  <2>1. "started" \in Outcomes \cup {"started"}
    OBVIOUS
  <2>2. events' = [events EXCEPT ![SessionOf[t]] = Append(@, Frame(t, "started"))]
    BY <1>2 DEF StartTurn
  <2> QED
    BY <1>1, <2>1, <2>2
<1>3. ASSUME NEW t \in Turns, PublishTerminalFrame(t)
      PROVE  events'[s] = events[s] \/ \E f \in Frames : events'[s] = Append(events[s], f)
  BY <1>1, <1>3 DEF PublishTerminalFrame, OutcomeReady
<1> QED
  BY <1>2, <1>3 DEF Next, Submit, Reserve, RejectBusy, ClearTerminalFrame, TryEnqueueTurn, Refuse,
     Task, JoinSemaphore, AcquirePermit, DropWait, LeaveQueue, AbandonAdmitted, Settle,
     ClearActiveTurn, StoreTerminalFrame, EndTask, FinishRun, CancelSession, AllDone, vars

\* A channel that grows by a frame, or stays.
LEMMA GrownLog ==
    ASSUME NEW q \in Seq(Frames), NEW r, r = q \/ \E f \in Frames : r = Append(q, f)
    PROVE  /\ r \in Seq(Frames) /\ Len(r) \in Nat /\ Len(q) <= Len(r)
           /\ Len(r) = Len(q) => r = q
           /\ \A i \in 1..Len(q) : i \in 1..Len(r) /\ r[i] = q[i]
           /\ \A i \in 1..Len(r) : i \in 1..Len(q) \/ i > Len(q)
<1>1. CASE r = q
  BY <1>1
<1>2. ASSUME NEW f \in Frames, r = Append(q, f)
      PROVE  /\ r \in Seq(Frames) /\ Len(r) \in Nat /\ Len(r) = Len(q) + 1
             /\ \A i \in 1..Len(q) : i \in 1..Len(r) /\ r[i] = q[i]
             /\ \A i \in 1..Len(r) : i \in 1..Len(q) \/ i > Len(q)
  BY <1>2
<1> QED
  BY <1>1, <1>2

\* A receiver is right whatever is broadcast: it is ahead of the cursor.
LEMMA ReceiverKeeps ==
    ASSUME ConnInv, TypeOK, NEW c \in Conns, UNCHANGED connVars,
           \/ events'[onSession[c]] = events[onSession[c]]
           \/ \E f \in Frames : events'[onSession[c]] = Append(events[onSession[c]], f)
    PROVE  ReceiverOK(c)'
<1> DEFINE q == events[onSession[c]]
           r == events'[onSession[c]]
<1>1. /\ q \in Seq(Frames) /\ cursor[c] \in Nat /\ Len(q) \in Nat /\ cursor[c] <= Len(q)
      /\ UNCHANGED <<onSession, cursor, told, received, lagged>>
  BY ConnTypes DEF connVars
<1>2. /\ Len(r) \in Nat /\ Len(q) <= Len(r) /\ (Len(r) = Len(q) => r = q)
      /\ \A i \in 1..Len(q) : i \in 1..Len(r) /\ r[i] = q[i]
      /\ \A i \in 1..Len(r) : i \in 1..Len(q) \/ i > Len(q)
  BY <1>1, GrownLog
<1>3. /\ told[c] # NoTurn =>
           /\ SessionOf[told[c]] = onSession[c]
           /\ ~lagged[c] => \A i \in 1..Len(q) :
                q[i].turn = told[c] /\ q[i].kind # "started" => i > cursor[c] \/ q[i] \in received[c]
      /\ lagged[c] => Len(q) > 0 /\ (cursor[c] = Len(q) => q[Len(q)] \in received[c])
  BY DEF ConnInv, ReceiverOK
<1> HIDE DEF q, r
<1>4. cursor[c] <= Len(r)
  BY <1>1, <1>2
<1>5. lagged[c] => Len(r) > 0 /\ (cursor[c] = Len(r) => r[Len(r)] \in received[c])
  <2>1. cursor[c] = Len(r) => Len(r) = Len(q)
    BY <1>1, <1>2
  <2> QED
    BY <1>1, <1>2, <1>3, <2>1
<1>6. ASSUME told[c] # NoTurn, ~lagged[c], NEW i \in 1..Len(r),
             r[i].turn = told[c], r[i].kind # "started"
      PROVE  i > cursor[c] \/ r[i] \in received[c]
  <2>1. CASE i \in 1..Len(q)
    BY <1>2, <1>3, <1>6, <2>1
  <2>2. CASE i > Len(q)
    BY <1>1, <2>2
  <2> QED
    BY <1>2, <1>6, <2>1, <2>2
<1> QED
  BY <1>1, <1>3, <1>4, <1>5, <1>6 DEF ReceiverOK, q, r

\* A session's entries are its own.
LEMMA EntriesStep ==
    ASSUME IndInv, SessionEntriesOwn, Next
    PROVE  SessionEntriesOwn'
<1> USE SessionOfType, NoTurnFresh
<1>0. TypeOK /\ OutcomeReady
  BY DEF IndInv
<1>1. ASSUME UNCHANGED <<activeTurn, terminalFrame>>, NEW t \in Turns,
             pc' = [pc EXCEPT ![t] = pc'[t]],
             outcome' = outcome \/ outcome' = [outcome EXCEPT ![t] = outcome'[t]],
             pc[t] \in {"stored", "published", "done"} =>
                 pc'[t] \in {"stored", "published", "done"} /\ outcome'[t] = outcome[t]
      PROVE  SessionEntriesOwn'
  <2>1. \A u \in Turns : pc[u] \in {"stored", "published", "done"} =>
              pc'[u] \in {"stored", "published", "done"} /\ outcome'[u] = outcome[u]
    BY <1>0, <1>1 DEF TypeOK
  <2>2. \A f \in TerminalFrames : f.turn \in Turns
    BY DEF TerminalFrames
  <2> QED
    BY <1>1, <2>1, <2>2 DEF SessionEntriesOwn
<1>2. CASE UNCHANGED <<activeTurn, terminalFrame, pc, outcome>>
  BY <1>2 DEF SessionEntriesOwn
<1>3. ASSUME NEW t \in Turns, UNCHANGED <<terminalFrame, outcome>>,
             pc' = [pc EXCEPT ![t] = pc'[t]], pc[t] \notin {"stored", "published", "done"},
             NEW u \in {t, NoTurn}, activeTurn' = [activeTurn EXCEPT ![SessionOf[t]] = u]
      PROVE  SessionEntriesOwn'
  <2>1. \A v \in Turns : pc[v] \in {"stored", "published", "done"} => pc'[v] = pc[v]
    BY <1>0, <1>3 DEF TypeOK
  <2>2. \A s \in Sessions : activeTurn'[s] # NoTurn => SessionOf[activeTurn'[s]] = s
    BY <1>0, <1>3 DEF TypeOK, SessionEntriesOwn
  <2>3. \A f \in TerminalFrames : f.turn \in Turns
    BY DEF TerminalFrames
  <2> QED
    BY <1>3, <2>1, <2>2, <2>3 DEF SessionEntriesOwn
<1>4. ASSUME NEW t \in Turns, UNCHANGED <<activeTurn, outcome>>,
             pc' = [pc EXCEPT ![t] = pc'[t]], pc[t] \notin {"stored", "published", "done"},
             NEW f, terminalFrame' = [terminalFrame EXCEPT ![SessionOf[t]] = f],
             f = NoFrame \/ (/\ f \in TerminalFrames /\ f.turn = t /\ f.kind = outcome[t]
                             /\ pc'[t] = "stored")
      PROVE  SessionEntriesOwn'
  <2>1. \A v \in Turns : pc[v] \in {"stored", "published", "done"} => pc'[v] = pc[v]
    BY <1>0, <1>4 DEF TypeOK
  <2>2. \A g \in TerminalFrames : g.turn \in Turns
    BY DEF TerminalFrames
  <2>3. /\ terminalFrame'[SessionOf[t]] = f
        /\ \A s \in Sessions : s # SessionOf[t] => terminalFrame'[s] = terminalFrame[s]
    BY <1>0, <1>4 DEF TypeOK
  <2> QED
    BY <1>4, <2>1, <2>2, <2>3 DEF SessionEntriesOwn
<1>5. ASSUME NEW t \in Turns, Reserve(t) \/ Refuse(t) \/ ClearActiveTurn(t)
      PROVE  SessionEntriesOwn'
  <2>1. CASE Reserve(t)
    BY <1>0, <1>3, <2>1 DEF Reserve, TypeOK
  <2>2. CASE Refuse(t)
    BY <1>0, <1>3, <2>2 DEF Refuse, TypeOK
  <2>3. CASE ClearActiveTurn(t)
    <3>1. activeTurn[SessionOf[t]] = t
      BY <2>3 DEF ClearActiveTurn, IndInv, OneTurnPerSession, OwnsSession
    <3> QED
      BY <1>0, <1>3, <2>3, <3>1 DEF ClearActiveTurn, TypeOK
  <2> QED
    BY <1>5, <2>1, <2>2, <2>3
<1>6. ASSUME NEW t \in Turns, ClearTerminalFrame(t)
      PROVE  SessionEntriesOwn'
  BY <1>0, <1>4, <1>6 DEF ClearTerminalFrame, TypeOK
<1>7. ASSUME NEW t \in Turns, StoreTerminalFrame(t)
      PROVE  SessionEntriesOwn'
  <2>1. Frame(t, outcome[t]) \in TerminalFrames /\ Frame(t, outcome[t]).turn = t
        /\ Frame(t, outcome[t]).kind = outcome[t]
    BY <1>0, <1>7 DEF StoreTerminalFrame, OutcomeReady, Frame, TerminalFrames
  <2> QED
    BY <1>0, <1>4, <1>7, <2>1 DEF StoreTerminalFrame, TypeOK
<1>8. ASSUME NEW t \in Turns, Submit(t) PROVE SessionEntriesOwn'
  <2>1. CASE RejectBusy(t) \/ TryEnqueueTurn(t)
    BY <1>0, <1>1, <2>1 DEF RejectBusy, TryEnqueueTurn, TypeOK
  <2> QED
    BY <1>5, <1>6, <1>8, <2>1 DEF Submit
<1>9. ASSUME NEW t \in Turns, Task(t) PROVE SessionEntriesOwn'
  <2>1. CASE JoinSemaphore(t) \/ AcquirePermit(t) \/ DropWait(t)
    BY <1>0, <1>1, <2>1 DEF JoinSemaphore, AcquirePermit, DropWait, TypeOK
  <2>2. CASE LeaveQueue(t) \/ AbandonAdmitted(t) \/ StartTurn(t)
    BY <1>0, <1>1, <2>2 DEF LeaveQueue, AbandonAdmitted, StartTurn, TypeOK
  <2>3. CASE PublishTerminalFrame(t) \/ EndTask(t)
    BY <1>0, <1>1, <2>3 DEF PublishTerminalFrame, EndTask, TypeOK
  <2> QED
    BY <1>5, <1>7, <1>9, <2>1, <2>2, <2>3 DEF Task, Settle
<1>10. ASSUME NEW t \in Turns, FinishRun(t) PROVE SessionEntriesOwn'
  BY <1>0, <1>1, <1>10 DEF FinishRun, TypeOK
<1> QED
  BY <1>2, <1>8, <1>9, <1>10 DEF Next, CancelSession, AllDone, vars

\* A client that was told "no active turn" keeps hearing of the outcome: a
\* turn that stores its frame goes on to broadcast it, and the turn that has
\* reserved the session clears the old one.
LEMMA IdleKeeps ==
    ASSUME IndInv, ConnInv, Next, UNCHANGED connVars, NEW c \in Conns
    PROVE  IdleOK(c)'
<1> USE SessionOfType, NoTurnFresh
<1> DEFINE s == onSession[c]
<1>0. /\ TypeOK /\ OutcomeReady /\ OneTurnPerSession /\ s \in Sessions /\ events[s] \in Seq(Frames)
      /\ cursor[c] \in Nat /\ Len(events[s]) \in Nat /\ cursor[c] <= Len(events[s])
      /\ UNCHANGED <<conn, onSession, cursor, told, received, lagged>>
  BY ConnTypes DEF IndInv, connVars
<1>1. /\ Len(events'[s]) \in Nat
      /\ \A i \in 1..Len(events[s]) : i \in 1..Len(events'[s]) /\ events'[s][i] = events[s][i]
  BY <1>0, LogsGrow, GrownLog
<1> HIDE DEF s
\* The frame stays or is cleared, no task comes from or to "stored", and no
\* submission leaves "reserved" with the frame in place.
<1>2. ASSUME terminalFrame'[s] \in {terminalFrame[s], NoFrame},
             activeTurn[s] = NoTurn => activeTurn'[s] = NoTurn,
             \A t \in Turns : pc[t] = "stored" => pc'[t] = "stored",
             terminalFrame'[s] = NoFrame \/
               \A t \in Turns : SessionOf[t] = s /\ pc[t] = "reserved" => pc'[t] = "reserved"
      PROVE  IdleOK(c)'
  <2> SUFFICES ASSUME IdleOK(c)!1', terminalFrame'[s] # NoFrame PROVE Known(c)'
    BY <1>0 DEF IdleOK, Known, s
  <2>1. Known(c) /\ terminalFrame'[s] = terminalFrame[s] /\ terminalFrame[s] # NoFrame
    BY <1>0, <1>2 DEF ConnInv, IdleOK, s
  <2>2. terminalFrame[s].turn \in Turns
    BY <1>0, <2>1 DEF ConnInv, SessionEntriesOwn, TerminalFrames
  <2>3. \/ terminalFrame[s] \in received[c]
        \/ \E i \in 1..Len(events[s]) : i > cursor[c] /\ events[s][i] = terminalFrame[s]
        \/ pc[terminalFrame[s].turn] = "stored"
        \/ \E t \in Turns : SessionOf[t] = s /\ pc[t] = "reserved"
    BY <2>1 DEF Known, s
  <2>4. \/ terminalFrame'[s] \in received'[c]
        \/ \E i \in 1..Len(events'[s]) : i > cursor'[c] /\ events'[s][i] = terminalFrame'[s]
        \/ pc'[terminalFrame'[s].turn] = "stored"
        \/ \E t \in Turns : SessionOf[t] = s /\ pc'[t] = "reserved"
    BY <1>0, <1>1, <1>2, <2>1, <2>2, <2>3
  <2> QED
    BY <1>0, <2>4 DEF Known, s
<1>3. ASSUME NEW t \in Turns, Reserve(t) PROVE IdleOK(c)'
  <2>1. CASE SessionOf[t] = s
    <3>1. SessionOf[t] = onSession'[c] /\ pc'[t] = "reserved"
      BY <1>0, <1>3, <2>1 DEF Reserve, TypeOK, s
    <3> QED
      BY <3>1 DEF IdleOK, Known
  <2>2. CASE SessionOf[t] # s
    BY <1>0, <1>2, <1>3, <2>2 DEF Reserve, TypeOK
  <2> QED
    BY <2>1, <2>2
<1>4. ASSUME NEW t \in Turns, ClearTerminalFrame(t) PROVE IdleOK(c)'
  <2>1. CASE SessionOf[t] = s
    BY <1>0, <1>2, <1>4, <2>1 DEF ClearTerminalFrame, TypeOK
  <2>2. CASE SessionOf[t] # s
    BY <1>0, <1>2, <1>4, <2>2 DEF ClearTerminalFrame, TypeOK
  <2> QED
    BY <2>1, <2>2
<1>5. ASSUME NEW t \in Turns, StoreTerminalFrame(t) PROVE IdleOK(c)'
  <2>1. CASE SessionOf[t] = s
    <3>1. terminalFrame'[s] = Frame(t, outcome[t]) /\ pc'[t] = "stored"
      BY <1>0, <1>5, <2>1 DEF StoreTerminalFrame, TypeOK
    <3>2. terminalFrame'[s].turn = t
      BY <3>1 DEF Frame
    <3> QED
      BY <1>0, <3>1, <3>2 DEF IdleOK, Known, s
  <2>2. CASE SessionOf[t] # s
    BY <1>0, <1>2, <1>5, <2>2 DEF StoreTerminalFrame, TypeOK
  <2> QED
    BY <2>1, <2>2
<1>6. ASSUME NEW t \in Turns, PublishTerminalFrame(t) PROVE IdleOK(c)'
  <2> SUFFICES ASSUME IdleOK(c)!1', terminalFrame[s] # NoFrame PROVE Known(c)'
    BY <1>0, <1>6 DEF IdleOK, Known, PublishTerminalFrame, s
  <2>0. /\ UNCHANGED <<activeTurn, terminalFrame, outcome>> /\ pc[t] = "stored"
        /\ pc' = [pc EXCEPT ![t] = "published"]
    BY <1>6 DEF PublishTerminalFrame
  <2>1. Known(c)
    BY <1>0, <2>0 DEF ConnInv, IdleOK, s
  <2>2. /\ terminalFrame[s].turn \in Turns /\ SessionOf[terminalFrame[s].turn] = s
        /\ terminalFrame[s] \in TerminalFrames
        /\ terminalFrame[s].kind = outcome[terminalFrame[s].turn]
    BY <1>0 DEF ConnInv, SessionEntriesOwn, TerminalFrames
  <2>3. CASE terminalFrame[s].turn = t
    <3>1. terminalFrame[s] = Frame(t, outcome[t])
      BY <2>2, <2>3 DEF TerminalFrames, Frame
    <3>2. events'[s] = Append(events[s], terminalFrame[s])
      BY <1>0, <1>6, <2>2, <2>3, <3>1 DEF PublishTerminalFrame, TypeOK
    <3>3. Len(events'[s]) = Len(events[s]) + 1 /\ events'[s][Len(events[s]) + 1] = terminalFrame[s]
      BY <1>0, <3>2
    <3>4. Len(events[s]) + 1 \in 1..Len(events'[s]) /\ Len(events[s]) + 1 > cursor[c]
      BY <1>0, <3>3
    <3> QED
      BY <1>0, <2>0, <3>3, <3>4 DEF Known, s
  <2>4. CASE terminalFrame[s].turn # t
    <3>1. /\ pc'[terminalFrame[s].turn] = pc[terminalFrame[s].turn]
          /\ \A u \in Turns : pc[u] = "reserved" => pc'[u] = "reserved"
      BY <1>0, <2>0, <2>2, <2>4 DEF TypeOK
    <3>2. \/ terminalFrame[s] \in received[c]
          \/ \E i \in 1..Len(events[s]) : i > cursor[c] /\ events[s][i] = terminalFrame[s]
          \/ pc[terminalFrame[s].turn] = "stored"
          \/ \E u \in Turns : SessionOf[u] = s /\ pc[u] = "reserved"
      BY <2>1 DEF Known, s
    <3>3. \/ terminalFrame'[s] \in received'[c]
          \/ \E i \in 1..Len(events'[s]) : i > cursor'[c] /\ events'[s][i] = terminalFrame'[s]
          \/ pc'[terminalFrame'[s].turn] = "stored"
          \/ \E u \in Turns : SessionOf[u] = s /\ pc'[u] = "reserved"
      BY <1>0, <1>1, <2>0, <3>1, <3>2
    <3> QED
      BY <1>0, <3>3 DEF Known, s
  <2> QED
    BY <2>3, <2>4
<1>7. ASSUME NEW t \in Turns, pc' = [pc EXCEPT ![t] = pc'[t]], UNCHANGED terminalFrame,
             pc[t] \notin {"stored", "reserved"},
             \/ UNCHANGED activeTurn
             \/ activeTurn' = [activeTurn EXCEPT ![SessionOf[t]] = NoTurn]
      PROVE  IdleOK(c)'
  BY <1>0, <1>2, <1>7 DEF TypeOK
<1>8. ASSUME NEW t \in Turns, Submit(t) PROVE IdleOK(c)'
  <2>1. CASE RejectBusy(t) \/ TryEnqueueTurn(t) \/ Refuse(t)
    BY <1>0, <1>7, <2>1 DEF RejectBusy, TryEnqueueTurn, Refuse, TypeOK
  <2> QED
    BY <1>3, <1>4, <1>8, <2>1 DEF Submit
<1>9. ASSUME NEW t \in Turns, Task(t) PROVE IdleOK(c)'
  <2>1. CASE JoinSemaphore(t) \/ AcquirePermit(t) \/ DropWait(t)
    BY <1>0, <1>7, <2>1 DEF JoinSemaphore, AcquirePermit, DropWait, TypeOK
  <2>2. CASE LeaveQueue(t) \/ AbandonAdmitted(t) \/ StartTurn(t) \/ EndTask(t)
    BY <1>0, <1>7, <2>2 DEF LeaveQueue, AbandonAdmitted, StartTurn, EndTask, TypeOK
  <2>3. CASE ClearActiveTurn(t)
    <3>1. activeTurn[SessionOf[t]] = t
      BY <1>0, <2>3 DEF ClearActiveTurn, OneTurnPerSession, OwnsSession
    <3> QED
      BY <1>0, <1>7, <2>3, <3>1 DEF ClearActiveTurn, TypeOK
  <2> QED
    BY <1>5, <1>6, <1>9, <2>1, <2>2, <2>3 DEF Task, Settle
<1>10. ASSUME NEW t \in Turns, FinishRun(t) PROVE IdleOK(c)'
  BY <1>0, <1>7, <1>10 DEF FinishRun, TypeOK
<1>11. CASE UNCHANGED <<pc, activeTurn, terminalFrame>>
  BY <1>0, <1>2, <1>11
<1> QED
  BY <1>8, <1>9, <1>10, <1>11 DEF Next, CancelSession, AllDone, vars

\* The handlers of a connection.
LEMMA ConnectionStep ==
    ASSUME IndInv, FramesFollowTask, ConnInv, NEW c \in Conns, ConnStep(c)
    PROVE  ConnInv'
<1> USE SessionOfType, NoTurnFresh
<1> DEFINE s == onSession[c]
           log == events[s]
<1>0. /\ TypeOK /\ OneTurnPerSession /\ ConnTypeOK /\ SessionEntriesOwn
      /\ ReceiverOK(c) /\ IdleOK(c) /\ s \in Sessions /\ log \in Seq(Frames)
      /\ cursor[c] \in Nat /\ Len(log) \in Nat /\ cursor[c] <= Len(log)
      /\ \A i \in 1..Len(log) : log[i] \in Frames
  BY ConnTypes DEF IndInv, ConnInv
<1>1. UNCHANGED vars
  BY DEF ConnStep, Hello, SwitchSession, HelloAck, RecheckActive, ReplayOutcome, SessionSwitched,
         Deliver, Lag, Disconnect
<1>2. SessionEntriesOwn'
  BY <1>0, <1>1 DEF SessionEntriesOwn, vars
\* Only this connection moves.
<1> DEFINE Moved ==
             /\ conn' = [conn EXCEPT ![c] = conn'[c]] /\ conn'[c] \in ConnStates
             /\ onSession' = [onSession EXCEPT ![c] = onSession'[c]] /\ onSession'[c] \in Sessions
             /\ cursor' = [cursor EXCEPT ![c] = cursor'[c]] /\ cursor'[c] \in Nat
             /\ told' = [told EXCEPT ![c] = told'[c]] /\ told'[c] \in Turns \cup {NoTurn}
             /\ received' = [received EXCEPT ![c] = received'[c]] /\ received'[c] \in SUBSET Frames
             /\ lagged' = [lagged EXCEPT ![c] = lagged'[c]] /\ lagged'[c] \in BOOLEAN
<1>3. ASSUME Moved, ReceiverOK(c)', IdleOK(c)'
      PROVE  ConnInv'
  <2>1. ConnTypeOK'
    BY <1>0, <1>3 DEF ConnTypeOK
  <2>2. ASSUME NEW d \in Conns, d # c PROVE ReceiverOK(d)' /\ IdleOK(d)'
    <3>1. /\ conn'[d] = conn[d] /\ onSession'[d] = onSession[d] /\ cursor'[d] = cursor[d]
          /\ told'[d] = told[d] /\ received'[d] = received[d] /\ lagged'[d] = lagged[d]
      BY <1>0, <1>3, <2>2 DEF ConnTypeOK
    <3>2. ReceiverOK(d) /\ IdleOK(d)
      BY DEF ConnInv
    <3>3. ReceiverOK(d)'
      BY <1>1, <3>1, <3>2 DEF ReceiverOK, vars
    <3>4. Known(d) => Known(d)'
      BY <1>1, <3>1 DEF Known, vars
    <3>5. IdleOK(d)'
      BY <1>1, <3>1, <3>2, <3>4 DEF IdleOK, vars
    <3> QED
      BY <3>3, <3>5
  <2> QED
    BY <1>2, <1>3, <2>1, <2>2 DEF ConnInv
<1>5. ASSUME NEW ss \in Sessions, Hello(c, ss) \/ SwitchSession(c, ss)
      PROVE  ConnInv'
  <2>1. PICK k \in {"subscribed", "switching"} : conn' = [conn EXCEPT ![c] = k]
    BY <1>5 DEF Hello, SwitchSession
  <2>2. SubscribeTo(c, ss) /\ Len(events[ss]) \in Nat
    BY <1>0, <1>5 DEF Hello, SwitchSession, TypeOK
  <2>3. /\ conn'[c] = k /\ onSession'[c] = ss /\ cursor'[c] = Len(events[ss])
        /\ told'[c] = NoTurn /\ lagged'[c] = FALSE
    BY <1>0, <2>1, <2>2 DEF ConnTypeOK, SubscribeTo
  <2>4. ReceiverOK(c)'
    BY <1>1, <2>2, <2>3 DEF ReceiverOK, vars
  <2>5. IdleOK(c)'
    BY <2>3 DEF IdleOK
  <2>10. Moved
    BY <1>0, <2>1, <2>2, <2>3 DEF SubscribeTo, ConnTypeOK, ConnStates
  <2> QED
    BY <1>3, <2>4, <2>5, <2>10
<1>6. CASE HelloAck(c) \/ SessionSwitched(c)
  <2>1. PICK k \in {"acked", "switched"} : conn' = [conn EXCEPT ![c] = k]
    BY <1>6 DEF HelloAck, SessionSwitched
  <2>2. /\ told' = [told EXCEPT ![c] = activeTurn[s]]
        /\ UNCHANGED <<onSession, cursor, received, lagged>>
        /\ activeTurn[s] \in Turns \cup {NoTurn}
    BY <1>0, <1>6 DEF HelloAck, SessionSwitched, TypeOK
  <2>3. conn'[c] = k /\ told'[c] = activeTurn[s]
    BY <1>0, <2>1, <2>2 DEF ConnTypeOK
  <2>4. ASSUME activeTurn[s] # NoTurn
        PROVE  /\ SessionOf[activeTurn[s]] = s
               /\ \A i \in 1..Len(log) : log[i].turn = activeTurn[s] => log[i].kind = "started"
    <3>1. activeTurn[s] \in Turns /\ SessionOf[activeTurn[s]] = s
      BY <1>0, <2>2, <2>4 DEF SessionEntriesOwn
    <3>2. pc[activeTurn[s]] \in OwnsSession
      BY <1>0, <3>1 DEF OneTurnPerSession
    <3>3. pc[activeTurn[s]] \notin EndedPCs
      BY <3>2 DEF OwnsSession, EndedPCs
    <3>4. DOMAIN log = 1..Len(log)
      BY <1>0
    <3> QED
      BY <1>0, <3>1, <3>3, <3>4 DEF FramesFollowTask
  <2>5. ReceiverOK(c)'
    BY <1>0, <1>1, <2>2, <2>3, <2>4 DEF ReceiverOK, vars
  <2>6. IdleOK(c)'
    BY <1>1, <2>2, <2>3 DEF IdleOK, vars
  <2>10. Moved
    BY <1>0, <2>1, <2>2, <2>3 DEF ConnTypeOK, ConnStates
  <2> QED
    BY <1>3, <2>5, <2>6, <2>10
<1>7. CASE RecheckActive(c)
  <2>1. PICK k \in {"idleSeen", "live"} :
           conn' = [conn EXCEPT ![c] = k] /\ (k = "live" => activeTurn[s] # NoTurn)
    BY <1>7 DEF RecheckActive
  <2>2. UNCHANGED <<onSession, cursor, told, received, lagged>> /\ conn[c] = "acked"
    BY <1>7 DEF RecheckActive
  <2>3. conn'[c] = k
    BY <1>0, <2>1 DEF ConnTypeOK
  <2>4. ReceiverOK(c)'
    BY <1>0, <1>1, <2>2 DEF ReceiverOK, vars
  <2>5. Known(c) => Known(c)'
    BY <1>1, <2>2 DEF Known, vars
  <2>6. IdleOK(c)'
    BY <1>0, <1>1, <2>1, <2>2, <2>3, <2>5 DEF IdleOK, vars
  <2>10. Moved
    BY <1>0, <2>1, <2>2, <2>3 DEF ConnTypeOK, ConnStates
  <2> QED
    BY <1>3, <2>4, <2>6, <2>10
<1>8. CASE ReplayOutcome(c)
  <2> DEFINE re == received[c] \cup ({terminalFrame[s]} \ {NoFrame})
  <2>1. /\ conn' = [conn EXCEPT ![c] = "live"] /\ received' = [received EXCEPT ![c] = re]
        /\ UNCHANGED <<onSession, cursor, told, lagged>>
    BY <1>8 DEF ReplayOutcome
  <2>2. re \in SUBSET Frames
    BY <1>0, <1>8 DEF ConnTypeOK, TypeOK, TerminalFrames, Frames
  <2>3. received'[c] = re
    BY <1>0, <2>1 DEF ConnTypeOK
  <2>4. ReceiverOK(c)'
    BY <1>0, <1>1, <2>1, <2>3 DEF ReceiverOK, vars
  <2>5. terminalFrame[s] = NoFrame \/ terminalFrame[s] \in received'[c]
    BY <2>3
  <2>6. IdleOK(c)'
    BY <1>1, <2>1, <2>5 DEF IdleOK, Known, vars
  <2>10. Moved
    BY <1>0, <2>1, <2>2, <2>3 DEF ConnTypeOK, ConnStates
  <2> QED
    BY <1>3, <2>4, <2>6, <2>10
<1>9. CASE Deliver(c)
  <2> DEFINE f == log[cursor[c] + 1]
             re == received[c] \cup {f}
  <2>1. /\ cursor' = [cursor EXCEPT ![c] = cursor[c] + 1] /\ received' = [received EXCEPT ![c] = re]
        /\ UNCHANGED <<conn, onSession, told, lagged>> /\ Len(log) - cursor[c] > 0
    BY <1>9 DEF Deliver, Unread
  <2>2. cursor[c] + 1 \in 1..Len(log) /\ cursor[c] + 1 \in Nat /\ re \in SUBSET Frames
    <3>1. cursor[c] + 1 \in 1..Len(log) /\ cursor[c] + 1 \in Nat
      BY <1>0, <2>1
    <3> QED
      BY <1>0, <3>1 DEF ConnTypeOK
  <2>3. received'[c] = re /\ cursor'[c] = cursor[c] + 1
    BY <1>0, <2>1 DEF ConnTypeOK
  <2>4. \A i \in 1..Len(log) : i > cursor[c] => i > cursor[c] + 1 \/ (i = cursor[c] + 1 /\ log[i] = f)
    BY <1>0
  <2> HIDE DEF f
  <2>5. ReceiverOK(c)'
    <3>1. cursor[c] + 1 <= Len(log) /\ Len(log) > 0
      BY <1>0, <2>2
    <3>2. cursor[c] + 1 = Len(log) => log[Len(log)] \in re
      BY DEF f
    <3>3. ASSUME told[c] # NoTurn
          PROVE  /\ SessionOf[told[c]] = s
                 /\ ~lagged[c] => \A i \in 1..Len(log) :
                      log[i].turn = told[c] /\ log[i].kind # "started" => i > cursor[c] + 1 \/ log[i] \in re
      BY <1>0, <2>4, <3>3 DEF ReceiverOK
    <3> QED
      BY <1>1, <2>1, <2>3, <3>1, <3>2, <3>3 DEF ReceiverOK, vars
  <2>6. Known(c) => Known(c)'
    BY <1>1, <2>1, <2>3, <2>4 DEF Known, vars
  <2>7. IdleOK(c)'
    BY <1>0, <1>1, <2>1, <2>6 DEF IdleOK, vars
  <2>10. Moved
    BY <1>0, <2>1, <2>2, <2>3 DEF ConnTypeOK
  <2> QED
    BY <1>3, <2>5, <2>7, <2>10
<1>10. CASE Lag(c)
  <2>1. /\ cursor' = [cursor EXCEPT ![c] = Len(log) - BufferCapacity] /\ lagged' = [lagged EXCEPT ![c] = TRUE]
        /\ UNCHANGED <<conn, onSession, told, received>> /\ Len(log) - cursor[c] > BufferCapacity
    BY <1>10 DEF Lag, Unread
  <2>2. /\ Len(log) - BufferCapacity \in Nat /\ Len(log) - BufferCapacity < Len(log)
        /\ Len(log) > 0
    BY <1>0, <2>1, BufferCapacityType
  <2>3. lagged'[c] = TRUE /\ cursor'[c] = Len(log) - BufferCapacity
    BY <1>0, <2>1 DEF ConnTypeOK
  <2>4. Len(log) - BufferCapacity <= Len(log) /\ Len(log) - BufferCapacity # Len(log)
    BY <1>0, <2>2
  <2>5. ReceiverOK(c)'
    BY <1>0, <1>1, <2>1, <2>2, <2>3, <2>4 DEF ReceiverOK, vars
  <2>6. IdleOK(c)'
    BY <2>3 DEF IdleOK
  <2>10. Moved
    BY <1>0, <2>1, <2>2, <2>3 DEF ConnTypeOK
  <2> QED
    BY <1>3, <2>5, <2>6, <2>10
<1>11. CASE Disconnect(c)
  <2>1. conn' = [conn EXCEPT ![c] = "off"] /\ UNCHANGED <<onSession, cursor, told, received, lagged>>
    BY <1>11 DEF Disconnect
  <2>2. ReceiverOK(c)'
    BY <1>0, <1>1, <2>1 DEF ReceiverOK, vars
  <2>3. conn'[c] = "off"
    BY <1>0, <2>1 DEF ConnTypeOK
  <2>4. IdleOK(c)'
    BY <2>3 DEF IdleOK
  <2>10. Moved
    BY <1>0, <2>1, <2>3 DEF ConnTypeOK, ConnStates
  <2> QED
    BY <1>3, <2>2, <2>4, <2>10
<1> QED
  BY <1>5, <1>6, <1>7, <1>8, <1>9, <1>10, <1>11 DEF ConnStep

\* What the invariant says of a client that has read its channel.
LEMMA DrainedClients ==
    ASSUME IndInv, ConnInv
    PROVE  OutcomesReachClients
<1>1. ConnTypeOK
  BY DEF ConnInv
<1>2. ASSUME NEW c \in Conns, Drained(c)
      PROVE  /\ InLoop(c) /\ ReceiverOK(c) /\ IdleOK(c) /\ onSession[c] \in Sessions
             /\ cursor[c] = Len(events[onSession[c]]) /\ cursor[c] \in Nat
             /\ DOMAIN events[onSession[c]] = 1..Len(events[onSession[c]])
  <2>1. TypeOK
    BY DEF IndInv
  <2> QED
    BY <1>2, <2>1, ConnTypes DEF ConnInv, Drained, Unread
<1>3. ASSUME NEW c \in Conns, Drained(c) PROVE \A i \in 1..Len(events[onSession[c]]) : ~(i > cursor[c])
  BY <1>2, <1>3
<1>4. ToldTurnOutcomeDelivered
  <2> SUFFICES ASSUME NEW c \in Conns, Drained(c), ~lagged[c], told[c] # NoTurn, Broadcast(told[c])
               PROVE  OutcomeReceived(c, told[c])
    BY DEF ToldTurnOutcomeDelivered
  <2>1. SessionOf[told[c]] = onSession[c]
    BY <1>2 DEF ReceiverOK
  <2>2. PICK i \in DOMAIN events[onSession[c]] :
            events[onSession[c]][i].turn = told[c] /\ events[onSession[c]][i].kind # "started"
    BY <2>1 DEF Broadcast
  <2>3. events[onSession[c]][i] \in received[c]
    BY <1>2, <1>3, <2>2 DEF ReceiverOK
  <2> QED
    BY <2>2, <2>3 DEF OutcomeReceived
<1>5. IdleOutcomeDelivered
  <2> SUFFICES ASSUME NEW c \in Conns, Drained(c), conn[c] = "live", ~lagged[c], told[c] = NoTurn,
                      terminalFrame[onSession[c]] # NoFrame,
                      \A t \in Turns : SessionOf[t] = onSession[c] => pc[t] \in {"idle", "done"}
               PROVE  terminalFrame[onSession[c]] \in received[c]
    BY DEF IdleOutcomeDelivered
  <2>1. Known(c)
    BY <1>2 DEF IdleOK
  <2>2. /\ terminalFrame[onSession[c]].turn \in Turns
        /\ SessionOf[terminalFrame[onSession[c]].turn] = onSession[c]
    BY <1>2 DEF ConnInv, SessionEntriesOwn, TerminalFrames
  <2> QED
    BY <1>3, <2>1, <2>2 DEF Known
<1>6. NewestFrameDelivered
  BY <1>2 DEF NewestFrameDelivered, ReceiverOK
<1> QED
  BY <1>1, <1>4, <1>5, <1>6 DEF OutcomesReachClients

\* A client learns how the turn it was told of ended, and an idle session's
\* last outcome, whenever it connects, switches sessions or falls behind.
THEOREM OutcomesAreDelivered == ConnSpec => []OutcomesReachClients
<1>1. ConnInit => ConnInv
  <2> SUFFICES ASSUME ConnInit PROVE ConnInv
    OBVIOUS
  <2>1. ConnTypeOK
    BY DEF ConnInit, ConnTypeOK, ConnStates
  <2>2. SessionEntriesOwn
    BY DEF ConnInit, Init, SessionEntriesOwn
  <2>3. ASSUME NEW c \in Conns PROVE ReceiverOK(c) /\ IdleOK(c)
    <3>1. conn[c] = "off" /\ cursor[c] = 0 /\ told[c] = NoTurn /\ lagged[c] = FALSE
          /\ onSession[c] \in Sessions
      BY DEF ConnInit
    <3>2. Len(events[onSession[c]]) = 0
      BY <3>1 DEF ConnInit, Init
    <3> QED
      BY <3>1, <3>2 DEF ReceiverOK, IdleOK
  <2> QED
    BY <2>1, <2>2, <2>3 DEF ConnInv
<1>2. IndInv /\ TurnFramesOrdered /\ FramesFollowTask /\ ConnInv /\ [ConnNext]_allVars => ConnInv'
  <2> SUFFICES ASSUME IndInv, FramesFollowTask, ConnInv, [ConnNext]_allVars PROVE ConnInv'
    OBVIOUS
  <2>1. CASE UNCHANGED allVars
    <3>1. ConnTypeOK' /\ SessionEntriesOwn'
      BY <2>1 DEF allVars, vars, connVars, ConnInv, ConnTypeOK, SessionEntriesOwn
    <3>2. \A c \in Conns : ReceiverOK(c)' /\ IdleOK(c)'
      BY <2>1 DEF allVars, vars, connVars, ConnInv, ReceiverOK, IdleOK, Known
    <3> QED
      BY <3>1, <3>2 DEF ConnInv
  <2>2. CASE Next /\ UNCHANGED connVars
    <3>1. ConnTypeOK'
      BY <2>2 DEF connVars, ConnInv, ConnTypeOK
    <3>2. SessionEntriesOwn'
      BY <2>2, EntriesStep DEF ConnInv
    <3>3. ASSUME NEW c \in Conns PROVE ReceiverOK(c)'
      BY <2>2, LogsGrow, ReceiverKeeps, ConnTypes DEF IndInv
    <3>4. ASSUME NEW c \in Conns PROVE IdleOK(c)'
      BY <2>2, IdleKeeps
    <3> QED
      BY <3>1, <3>2, <3>3, <3>4 DEF ConnInv
  <2> QED
    BY <2>1, <2>2, ConnectionStep DEF ConnNext
<1>3. IndInv /\ ConnInv => OutcomesReachClients
  BY DrainedClients
<1> QED
  BY <1>1, <1>2, <1>3, ConnectionsRefineTurns, Invariance, FramesInvariant, PTL DEF ConnSpec

-----------------------------------------------------------------------------
(* ProactiveDelivery.                                                       *)

\* Chunks are numbered as they are sent.
LEMMA CountedOn ==
    ASSUME NEW k \in Nat
    PROVE  /\ CountedTo(k) \in Seq(Nat) /\ Append(CountedTo(k), k + 1) = CountedTo(k + 1)
           /\ CountedTo(0) = <<>>
<1>1. CountedTo(k) \in Seq(Nat) /\ Len(CountedTo(k)) = k
  BY DEF CountedTo
<1>2. CountedTo(0) = <<>>
  BY DEF CountedTo
<1>3. Append(CountedTo(k), k + 1) = CountedTo(k + 1)
  <2> DEFINE a == Append(CountedTo(k), k + 1)
             b == CountedTo(k + 1)
  <2>1. a \in Seq(Nat) /\ Len(a) = k + 1 /\ \A i \in 1..(k + 1) : a[i] = i
    BY <1>1 DEF CountedTo
  <2>2. b \in Seq(Nat) /\ Len(b) = k + 1 /\ \A i \in 1..(k + 1) : b[i] = i
    BY DEF CountedTo
  <2> HIDE DEF a, b
  <2>3. a = b
    BY <2>1, <2>2
  <2> QED
    BY <2>3 DEF a, b
<1> QED
  BY <1>1, <1>2, <1>3

\* A deletion and one more delivery that missed the topic leave a delivery as
\* right as it was.
LEMMA NoticeKeeps ==
    ASSUME NEW d, NEW alive, NEW alive2, NEW lost \in Nat, NEW lost2 \in Nat,
           NoticeOK(d, alive, lost), alive2 => alive, lost <= lost2
    PROVE  NoticeOK(d, alive2, lost2)
<1>1. lost >= RemapThreshold => lost2 >= RemapThreshold
  BY DeliveryBounds
<1> QED
  BY <1>1 DEF NoticeOK

\* The task of a notice ends.
LEMMA EndedNotice ==
    ASSUME NEW d \in Deliveries, NEW alive, NEW lost,
           d.deadAtStart => ~alive /\ (~d.mainRefused => d.main = CountedTo(d.of))
    PROVE  Ended(d) \in Deliveries /\ NoticeOK(Ended(d), alive, lost) /\ Ended(d).step = "done"
<1> DEFINE e == Ended(d)
<1>1. /\ e.step = "done" /\ e.what = "none" /\ e.route = "none" /\ e.target = "none"
      /\ e.switched = FALSE /\ e.outcome = "none" /\ e.of = d.of /\ e.main = d.main
      /\ e.deadAtStart = d.deadAtStart /\ e.mainRefused = d.mainRefused
  BY DEF Ended, Unsent
<1>2. e \in Deliveries
  BY DEF Ended, Unsent, Deliveries, Routes
<1> HIDE DEF e
<1>3. NoticeOK(e, alive, lost)
  BY <1>1 DEF NoticeOK, DeadTopicOK, Sending
<1> QED
  BY <1>1, <1>2, <1>3 DEF e

\* Numbers of chunks.
LEMMA ChunkNumbers ==
    /\ 0 < 1 /\ \A k \in Nat : k + 1 \in Nat
    /\ \A j, k \in Nat : j < k /\ ~(j + 1 < k) => j + 1 = k
OBVIOUS

\* A chunk is done with: the next one, or the report.
LEMMA NextChunk ==
    ASSUME NEW e \in Deliveries, NEW alive, NEW lost,
           e.what = "text", e.chunk < e.of, e.target \in {"topic", "main"},
           e.target = "topic" => e.route = "topic",
           e.switched => ~alive /\ e.route = "topic",
           e.outcome \in {"fallback", "fallback failed"} => e.switched,
           e.deadAtStart => /\ ~alive /\ e.target = "main"
                            /\ ~e.mainRefused => e.main = CountedTo(e.chunk + 1)
    PROVE  NextChunkOf(e) \in Deliveries /\ NoticeOK(NextChunkOf(e), alive, lost)
<1>0. e.chunk \in Nat /\ e.of \in Nat /\ e.chunk + 1 \in Nat
  <2>1. e.chunk \in Nat /\ e.of \in Nat
    BY DEF Deliveries
  <2> QED
    BY <2>1, ChunkNumbers
<1>1. CASE e.chunk + 1 < e.of
  <2> DEFINE d == [e EXCEPT !.chunk = e.chunk + 1, !.step = "send"]
  <2>1. NextChunkOf(e) = d
    BY <1>1 DEF NextChunkOf
  <2>2. /\ d.step = "send" /\ d.chunk = e.chunk + 1 /\ d.of = e.of /\ d.what = "text"
        /\ d.target = e.target /\ d.route = e.route /\ d.switched = e.switched
        /\ d.outcome = e.outcome /\ d.deadAtStart = e.deadAtStart
        /\ d.mainRefused = e.mainRefused /\ d.main = e.main
    BY DEF Deliveries
  <2>3. d \in Deliveries
    BY <1>0 DEF Deliveries
  <2> HIDE DEF d
  <2> QED
    BY <1>1, <2>1, <2>2, <2>3 DEF NoticeOK, DeadTopicOK, Sending
<1>2. CASE ~(e.chunk + 1 < e.of)
  <2> DEFINE o == IF ~e.switched THEN "primary" ELSE IF e.failed THEN "fallback failed" ELSE "fallback"
             d == [e EXCEPT !.chunk = e.chunk + 1, !.step = "report", !.outcome = o]
  <2>1. NextChunkOf(e) = d
    BY <1>2 DEF NextChunkOf
  <2>2. /\ d.step = "report" /\ d.chunk = e.chunk + 1 /\ d.of = e.of
        /\ d.target = e.target /\ d.route = e.route /\ d.switched = e.switched
        /\ d.outcome = o /\ d.deadAtStart = e.deadAtStart
        /\ d.mainRefused = e.mainRefused /\ d.main = e.main
    BY DEF Deliveries
  <2>3. d \in Deliveries
    BY <1>0 DEF Deliveries
  <2>4. e.chunk + 1 = e.of
    BY <1>0, <1>2, ChunkNumbers
  <2>5. o \in {"fallback", "fallback failed"} => e.switched
    OBVIOUS
  <2> HIDE DEF d, o
  <2> QED
    BY <2>1, <2>2, <2>3, <2>4, <2>5 DEF NoticeOK, DeadTopicOK, Sending
<1> QED
  BY <1>1, <1>2

\* The sender's steps: a chunk as HTML, as plain text, an upload, the notice.
LEMMA SenderStep ==
    ASSUME DeliveryInv, NEW n \in Notices,
           SendHtml(n) \/ SendPlain(n) \/ UploadMedia(n) \/ SendFallbackNotice(n)
    PROVE  \E e \in Deliveries :
             NoticeOK(e, topicAlive, notFound) /\ PutNotice(n, e)
             /\ (row.channel # "telegram" => e.step \in {"none", "done"})
<1> DEFINE d == notices[n]
           Goal == \E e \in Deliveries :
                     NoticeOK(e, topicAlive, notFound) /\ PutNotice(n, e)
<1>0. d \in Deliveries /\ NoticeOK(d, topicAlive, notFound) /\ d.step \notin {"none", "done"}
  BY DEF DeliveryInv, DeliveryTypeOK, SendHtml, SendPlain, UploadMedia, SendFallbackNotice
<1>1. d.chunk \in Nat /\ d.of \in Nat /\ d.main \in Seq(Nat) /\ d.mainRefused \in BOOLEAN
      /\ d.deadAtStart \in BOOLEAN /\ d.switched \in BOOLEAN
  BY <1>0 DEF Deliveries
<1>2. row.channel = "telegram"
  BY <1>0 DEF DeliveryInv
<1> SUFFICES Goal
  BY <1>2
<1> HIDE DEF d
\* What is sent to the main chat is counted on; what is refused is noted.
<1>3. ASSUME Sending(d)
      PROVE  /\ Sent(d) \in Deliveries /\ Sent(d) = [d EXCEPT !.main = Sent(d).main]
             /\ d.target = "main" => Sent(d).main = Append(d.main, d.chunk + 1)
             /\ Refused(d) \in Deliveries /\ Refused(d) = [d EXCEPT !.mainRefused = Refused(d).mainRefused]
             /\ d.target = "main" => Refused(d).mainRefused
             /\ d.mainRefused => Refused(d).mainRefused
  <2>1. Append(d.main, d.chunk + 1) \in Seq(Nat)
    BY <1>1
  <2>2. CASE d.target = "main"
    BY <1>0, <2>1, <2>2 DEF Sent, Refused, Deliveries
  <2>3. CASE d.target # "main"
    BY <1>0, <2>3 DEF Sent, Refused, Deliveries
  <2> QED
    BY <2>2, <2>3
<1>4. ASSUME Sending(d), d.deadAtStart, d.target = "main", ~d.mainRefused
      PROVE  Append(d.main, d.chunk + 1) = CountedTo(d.chunk + 1)
  <2>1. d.main = CountedTo(d.chunk)
    BY <1>0, <1>4 DEF NoticeOK, DeadTopicOK
  <2> QED
    BY <1>1, <2>1, CountedOn
<1>5. ASSUME Sending(d), d.what = "text", d.target = "main" \/ ~d.deadAtStart,
             NEW e \in Deliveries,
             \/ e = Sent(d)
             \/ \E f \in BOOLEAN : e = [Refused(d) EXCEPT !.failed = f]
      PROVE  NextChunkOf(e) \in Deliveries /\ NoticeOK(NextChunkOf(e), topicAlive, notFound)
  <2> DEFINE Same == /\ e.what = "text" /\ e.chunk = d.chunk /\ e.of = d.of /\ e.target = d.target
                     /\ e.route = d.route /\ e.switched = d.switched /\ e.outcome = d.outcome
                     /\ e.deadAtStart = d.deadAtStart
  <2>1. Same
    <3>1. CASE e = Sent(d)
      BY <1>0, <1>3, <1>5, <3>1 DEF Deliveries
    <3>2. ASSUME NEW f \in BOOLEAN, e = [Refused(d) EXCEPT !.failed = f]
          PROVE  Same
      <4> DEFINE r == Refused(d)
      <4>1. /\ r \in Deliveries /\ r.what = "text" /\ r.chunk = d.chunk /\ r.of = d.of
            /\ r.target = d.target /\ r.route = d.route /\ r.switched = d.switched
            /\ r.outcome = d.outcome /\ r.deadAtStart = d.deadAtStart
        BY <1>0, <1>3, <1>5 DEF Deliveries
      <4> HIDE DEF r
      <4>2. e = [r EXCEPT !.failed = f]
        BY <3>2 DEF r
      <4> QED
        BY <4>1, <4>2 DEF Deliveries
    <3> HIDE DEF Same
    <3> QED
      BY <1>5, <3>1, <3>2
  <2>2. /\ d.chunk < d.of /\ d.target \in {"topic", "main"} /\ (d.target = "topic" => d.route = "topic")
        /\ d.switched => ~topicAlive /\ d.route = "topic"
        /\ d.outcome \in {"fallback", "fallback failed"} => d.switched
        /\ d.deadAtStart => ~topicAlive
    BY <1>0, <1>5 DEF NoticeOK
  <2>3. e.deadAtStart /\ ~e.mainRefused => e.main = CountedTo(e.chunk + 1)
    <3>1. CASE e = Sent(d)
      <4>1. e.mainRefused = d.mainRefused
        BY <1>0, <1>3, <1>5, <3>1 DEF Deliveries
      <4> QED
        BY <1>3, <1>4, <1>5, <2>1, <3>1, <4>1
    <3>2. ASSUME NEW f \in BOOLEAN, e = [Refused(d) EXCEPT !.failed = f], e.deadAtStart
          PROVE  e.mainRefused
      <4>1. e.mainRefused = Refused(d).mainRefused
        BY <1>3, <1>5, <3>2 DEF Deliveries
      <4> QED
        BY <1>3, <1>5, <2>1, <3>2, <4>1
    <3> QED
      BY <1>5, <3>1, <3>2
  <2> QED
    BY <1>5, <2>1, <2>2, <2>3, NextChunk
<1>6. CASE SendHtml(n)
  <2>1. PICK answer \in Answers(d.target) :
          /\ Sending(d) /\ d.step = "send" /\ d.what = "text"
          /\ PutNotice(n, IF answer = "ok" THEN NextChunkOf(Sent(d))
                          ELSE IF answer = "not found" /\ d.chunk = 0 /\ d.target = "topic"
                          THEN [d EXCEPT !.target = "main", !.switched = TRUE]
                          ELSE [Refused(d) EXCEPT !.step = "plain"])
    BY <1>6 DEF SendHtml, d, Sending
  <2>2. d.deadAtStart => ~topicAlive
    BY <1>0 DEF NoticeOK
  <2>3. CASE answer = "ok"
    <3>1. d.target = "main" \/ ~d.deadAtStart
      BY <1>0, <2>1, <2>2, <2>3 DEF NoticeOK, Answers
    <3> QED
      BY <1>3, <1>5, <2>1, <2>3, <3>1
  <2>4. CASE answer = "not found" /\ d.chunk = 0 /\ d.target = "topic"
    <3> DEFINE e == [d EXCEPT !.target = "main", !.switched = TRUE]
    <3>1. PutNotice(n, e)
      BY <2>1, <2>4
    <3>2. e \in Deliveries
      BY <1>0 DEF Deliveries, Routes
    <3>3. /\ e.step = "send" /\ e.what = "text" /\ e.chunk = 0 /\ e.of = d.of /\ e.target = "main"
          /\ e.route = d.route /\ e.switched /\ e.outcome = d.outcome
          /\ e.deadAtStart = d.deadAtStart /\ e.main = d.main
      BY <1>0, <2>1, <2>4 DEF Deliveries
    <3>4. ~topicAlive
      BY <2>1, <2>4 DEF Answers
    <3>5. d.deadAtStart => e.main = CountedTo(0)
      BY <1>0, <2>1, <2>4, <3>3, CountedOn DEF NoticeOK, DeadTopicOK
    <3> HIDE DEF e
    <3>6. NoticeOK(e, topicAlive, notFound)
      BY <1>0, <2>1, <2>4, <3>3, <3>4, <3>5 DEF NoticeOK, DeadTopicOK, Sending
    <3> QED
      BY <3>1, <3>2, <3>6
  <2>5. CASE answer # "ok" /\ ~(answer = "not found" /\ d.chunk = 0 /\ d.target = "topic")
    <3> DEFINE e == [Refused(d) EXCEPT !.step = "plain"]
    <3>1. PutNotice(n, e)
      BY <2>1, <2>5
    <3>2. e \in Deliveries
      BY <1>3, <2>1 DEF Deliveries
    <3>3. /\ e.step = "plain" /\ e.what = "text" /\ e.chunk = d.chunk /\ e.of = d.of
          /\ e.target = d.target /\ e.route = d.route /\ e.switched = d.switched
          /\ e.outcome = d.outcome /\ e.deadAtStart = d.deadAtStart
          /\ d.target = "main" => e.mainRefused
      <4>1. CASE d.target = "main"
        BY <1>0, <2>1, <4>1 DEF Deliveries, Refused
      <4>2. CASE d.target # "main"
        BY <1>0, <2>1, <4>2 DEF Deliveries, Refused
      <4> QED
        BY <4>1, <4>2
    <3>4. d.deadAtStart => d.target = "main"
      BY <1>0, <2>1, <2>2, <2>5 DEF NoticeOK, DeadTopicOK, Answers
    <3> HIDE DEF e
    <3>5. NoticeOK(e, topicAlive, notFound)
      BY <1>0, <2>1, <3>3, <3>4 DEF NoticeOK, DeadTopicOK, Sending
    <3> QED
      BY <3>1, <3>2, <3>5
  <2> QED
    BY <2>3, <2>4, <2>5
<1>7. CASE SendPlain(n)
  <2>1. PICK answer \in Answers(d.target) :
          /\ Sending(d) /\ d.step = "plain"
          /\ PutNotice(n, NextChunkOf(IF answer = "ok" THEN Sent(d)
                            ELSE [Refused(d) EXCEPT !.failed = @ \/ (d.switched /\ d.chunk = 0)]))
    BY <1>7 DEF SendPlain, d, Sending
  <2>2. d.what = "text" /\ (d.target = "main" \/ ~d.deadAtStart)
    BY <1>0, <2>1 DEF NoticeOK, DeadTopicOK
  <2>3. CASE answer = "ok"
    BY <1>3, <1>5, <2>1, <2>2, <2>3
  <2>4. CASE answer # "ok"
    <3> DEFINE f == Refused(d).failed \/ (d.switched /\ d.chunk = 0)
               e == [Refused(d) EXCEPT !.failed = f]
    <3>1. PutNotice(n, NextChunkOf(e))
      BY <2>1, <2>4
    <3>2. f \in BOOLEAN
      OBVIOUS
    <3> HIDE DEF f
    <3>3. e \in Deliveries
      BY <1>3, <2>1, <3>2 DEF Deliveries
    <3>4. NextChunkOf(e) \in Deliveries /\ NoticeOK(NextChunkOf(e), topicAlive, notFound)
      BY <1>5, <2>1, <2>2, <3>2, <3>3
    <3> QED
      BY <3>1, <3>4
  <2> QED
    BY <2>3, <2>4
<1>8. CASE SendFallbackNotice(n)
  <2>1. d.step = "notice" /\ PutNotice(n, Ended(d))
    BY <1>8 DEF SendFallbackNotice, d
  <2>2. d.deadAtStart => ~topicAlive /\ d.mainRefused
    BY <1>0, <2>1 DEF NoticeOK, DeadTopicOK
  <2>3. Ended(d) \in Deliveries /\ NoticeOK(Ended(d), topicAlive, notFound)
    BY <1>0, <2>2, EndedNotice
  <2> QED
    BY <2>1, <2>3
\* An upload that goes on, in the main chat or after a refusal.
<1> DEFINE Retried(e) == /\ e.step = "send" /\ e.target = d.target /\ e.switched = d.switched
                         /\ d.target = "topic" => topicAlive
                         /\ d.target = "main" => e.mainRefused
           Diverted(e) == /\ e.step = "send" /\ e.target = "main" /\ e.switched
                          /\ d.target = "topic" /\ ~topicAlive
           GivenUp(e) == /\ e.step = "notice" /\ e.target = d.target /\ e.switched = d.switched
                         /\ d.deadAtStart => e.mainRefused
<1>9. ASSUME Sending(d), d.what = "media", NEW e \in Deliveries, e.what = "media", e.chunk = 0, e.of = 1,
             e.route = d.route, e.outcome = d.outcome, e.deadAtStart = d.deadAtStart, e.main = d.main,
             Retried(e) \/ Diverted(e) \/ GivenUp(e)
      PROVE  NoticeOK(e, topicAlive, notFound)
  <2>1. /\ d.target \in {"topic", "main"} /\ (d.target = "topic" => d.route = "topic")
        /\ d.switched => ~topicAlive /\ d.route = "topic"
        /\ d.outcome \in {"fallback", "fallback failed"} => d.switched
        /\ d.deadAtStart => /\ ~topicAlive
                            /\ d.target = "topic" => d.step = "send" /\ d.chunk = 0 /\ d.main = <<>>
    BY <1>0, <1>9 DEF NoticeOK, DeadTopicOK
  <2>2. CountedTo(0) = <<>>
    BY CountedOn
  <2>3. e.chunk < e.of
    BY <1>9, ChunkNumbers
  <2>4. CASE Retried(e) \/ Diverted(e)
    <3>1. /\ e.step = "send" /\ e.target \in {"topic", "main"} /\ (e.target = "topic" => e.route = "topic")
      BY <1>9, <2>1, <2>4
    <3>2. /\ e.switched => ~topicAlive /\ e.route = "topic"
          /\ e.outcome \in {"fallback", "fallback failed"} => e.switched
      BY <1>9, <2>1, <2>4
    <3>3. e.deadAtStart => ~topicAlive /\ e.target = "main" /\ (~e.mainRefused => e.main = CountedTo(e.chunk))
      BY <1>9, <2>1, <2>2, <2>4
    <3> HIDE DEF Retried, Diverted, GivenUp
    <3>4. DeadTopicOK(e) \/ ~e.deadAtStart
      BY <3>1, <3>3 DEF DeadTopicOK, Sending
    <3> QED
      BY <1>9, <2>3, <3>1, <3>2, <3>3, <3>4 DEF NoticeOK, Sending
  <2>5. CASE GivenUp(e)
    <3>1. ~Sending(e) /\ e.step \notin {"plain", "report", "remap", "done"}
      BY <2>5 DEF Sending
    <3>2. DeadTopicOK(e) \/ ~e.deadAtStart
      BY <1>9, <2>5, <3>1 DEF DeadTopicOK
    <3> QED
      BY <1>9, <2>1, <2>5, <3>1, <3>2 DEF NoticeOK
  <2> HIDE DEF Retried, Diverted, GivenUp
  <2> QED
    BY <1>9, <2>4, <2>5
<1>10. CASE UploadMedia(n)
  <2>1. PICK answer \in Answers(d.target) \cup {"io"} :
          /\ Sending(d) /\ d.step = "send" /\ d.what = "media"
          /\ PutNotice(n, IF answer = "io" THEN [AfterUpload(d, answer) EXCEPT !.mainRefused = TRUE]
                          ELSE AfterUpload(d, answer))
    BY <1>10 DEF UploadMedia, d, Sending
  <2>2. d.of = 1 /\ d.chunk = 0 /\ d.target \in {"topic", "main"} /\ (d.deadAtStart => ~topicAlive)
    BY <1>0, <2>1 DEF NoticeOK
  <2>3. CASE answer = "ok"
    <3>1. PutNotice(n, Ended(Sent(d)))
      BY <2>1, <2>3 DEF AfterUpload
    <3>2. /\ Sent(d).deadAtStart = d.deadAtStart /\ Sent(d).mainRefused = d.mainRefused
          /\ Sent(d).of = d.of
      BY <1>0, <1>3, <2>1 DEF Deliveries
    <3>3. d.deadAtStart => d.target = "main"
      BY <2>1, <2>2, <2>3 DEF Answers
    <3>4. Sent(d).deadAtStart => ~topicAlive /\ (~Sent(d).mainRefused => Sent(d).main = CountedTo(Sent(d).of))
      BY <1>3, <1>4, <2>1, <2>2, <3>2, <3>3
    <3> QED
      BY <1>3, <2>1, <3>1, <3>4, EndedNotice
  <2>4. CASE answer = "io" /\ d.switched
    <3> DEFINE e == [[d EXCEPT !.step = "notice"] EXCEPT !.mainRefused = TRUE]
    <3>1. PutNotice(n, e)
      BY <2>1, <2>4 DEF AfterUpload
    <3>2. /\ e \in Deliveries /\ e.what = "media" /\ e.chunk = 0 /\ e.of = 1 /\ e.step = "notice"
          /\ e.route = d.route /\ e.outcome = d.outcome /\ e.deadAtStart = d.deadAtStart
          /\ e.main = d.main /\ e.target = d.target /\ e.switched = d.switched /\ e.mainRefused = TRUE
      BY <1>0, <2>1, <2>2 DEF Deliveries
    <3> HIDE DEF e
    <3> QED
      BY <1>9, <2>1, <3>1, <3>2
  <2>5. CASE answer = "io" /\ ~d.switched
    <3> DEFINE e == [Ended(d) EXCEPT !.mainRefused = TRUE]
               g == [d EXCEPT !.mainRefused = TRUE]
    <3>1. PutNotice(n, e)
      BY <2>1, <2>5 DEF AfterUpload
    <3>2. e = Ended(g)
      BY <1>0 DEF Ended, Unsent, Deliveries
    <3>3. g \in Deliveries /\ g.mainRefused /\ g.deadAtStart = d.deadAtStart
      BY <1>0 DEF Deliveries
    <3> HIDE DEF e, g
    <3> QED
      BY <2>2, <3>1, <3>2, <3>3, EndedNotice
  <2>6. CASE answer = "not found"
    <3> DEFINE e == [d EXCEPT !.target = "main", !.switched = TRUE, !.tries = 0]
    <3>1. PutNotice(n, e) /\ d.target = "topic" /\ ~topicAlive
      BY <2>1, <2>6 DEF AfterUpload, Answers
    <3>2. /\ e \in Deliveries /\ e.what = "media" /\ e.chunk = 0 /\ e.of = 1 /\ e.step = "send"
          /\ e.route = d.route /\ e.outcome = d.outcome /\ e.deadAtStart = d.deadAtStart
          /\ e.main = d.main /\ e.target = "main" /\ e.switched = TRUE
      BY <1>0, <2>1, <2>2 DEF Deliveries, Routes
    <3> HIDE DEF e
    <3> QED
      BY <1>9, <2>1, <3>1, <3>2
  <2>7. CASE answer = "error"
    <3> DEFINE r == Refused(d)
               e == IF d.tries < MediaRetries THEN [r EXCEPT !.tries = r.tries + 1] ELSE [r EXCEPT !.step = "notice"]
    <3>1. PutNotice(n, e) /\ (d.target = "topic" => topicAlive)
      BY <2>1, <2>7 DEF AfterUpload, Answers
    <3>2. /\ r \in Deliveries /\ r.tries \in Nat /\ r.what = "media" /\ r.chunk = 0 /\ r.of = 1
          /\ r.step = "send" /\ r.route = d.route /\ r.outcome = d.outcome
          /\ r.deadAtStart = d.deadAtStart /\ r.main = d.main /\ r.target = d.target
          /\ r.switched = d.switched /\ (d.target = "main" => r.mainRefused)
      BY <1>0, <1>3, <2>1, <2>2 DEF Deliveries
    <3> HIDE DEF r
    <3>3. r.tries + 1 \in Nat
      BY <3>2
    <3>4. /\ e \in Deliveries /\ e.what = "media" /\ e.chunk = 0 /\ e.of = 1 /\ e.step \in {"send", "notice"}
          /\ e.route = d.route /\ e.outcome = d.outcome /\ e.deadAtStart = d.deadAtStart
          /\ e.main = d.main /\ e.target = d.target /\ e.switched = d.switched
          /\ d.target = "main" => e.mainRefused
      <4>1. CASE d.tries < MediaRetries
        BY <3>2, <3>3, <4>1 DEF Deliveries
      <4>2. CASE ~(d.tries < MediaRetries)
        BY <3>2, <4>2 DEF Deliveries
      <4> QED
        BY <4>1, <4>2
    <3>5. d.deadAtStart => e.mainRefused
      BY <2>2, <3>1, <3>4
    <3> HIDE DEF e
    <3> QED
      BY <1>9, <2>1, <3>1, <3>4, <3>5
  <2> QED
    BY <2>1, <2>3, <2>4, <2>5, <2>6, <2>7 DEF Answers
<1> QED
  BY <1>6, <1>7, <1>8, <1>10

\* One notice moves, by steps that leave the schedule's row and the screens.
LEMMA OneNoticeMoves ==
    ASSUME DeliveryInv, NEW n \in Notices, NEW e \in Deliveries, NoticeOK(e, topicAlive, notFound),
           PutNotice(n, e), row.channel = "telegram",
           UNCHANGED <<topicAlive, row, screens, notFound>>
    PROVE  DeliveryInv'
<1>1. DeliveryTypeOK' /\ RouteLeftForCause' /\ row'.streak <= notFound'
  BY DEF DeliveryInv, DeliveryTypeOK, RouteLeftForCause, PutNotice
<1>2. TerminalNotified'
  BY DEF TerminalNotified
<1>3. ASSUME NEW m \in Notices PROVE NoticeOK(notices'[m], topicAlive', notFound')
  <2>1. notices'[m] = IF m = n THEN e ELSE notices[m]
    BY DEF DeliveryInv, DeliveryTypeOK, PutNotice
  <2>2. NoticeOK(notices[m], topicAlive, notFound)
    BY DEF DeliveryInv
  <2> QED
    BY <2>1, <2>2
<1> QED
  BY <1>1, <1>2, <1>3 DEF DeliveryInv

\* A notice that has not been sent.
LEMMA UnsentType ==
    /\ Unsent \in Deliveries /\ Unsent.step = "none" /\ Unsent.what = "none" /\ Unsent.target = "none"
    /\ Unsent.chunk = 0 /\ Unsent.main = <<>> /\ Unsent.switched = FALSE /\ Unsent.outcome = "none"
    /\ Unsent.deadAtStart = FALSE /\ Unsent.watched = {}
BY DEF Unsent, Deliveries, Routes

\* A notice is sent: to the terminal's sessions, or by a task of its own.
LEMMA NotifyStep ==
    ASSUME DeliveryInv, NEW n \in Notices, NotifyTui(n) \/ NotifyTelegram(n)
    PROVE  DeliveryInv'
<1>0. /\ DeliveryTypeOK /\ notices[n] \in Deliveries /\ row.route \in {"topic", "main"}
      /\ topicAlive \in BOOLEAN /\ notFound \in Nat
  BY DEF DeliveryInv, DeliveryTypeOK
<1>1. CASE NotifyTelegram(n)
  <2>1. PICK what \in {"text", "media"} :
           PutNotice(n, [Unsent EXCEPT !.step = "send", !.what = what, !.route = row.route,
                           !.target = row.route, !.of = IF what = "text" THEN ChunksOf[n] ELSE 1,
                           !.deadAtStart = (row.route = "topic" /\ ~topicAlive)])
    BY <1>1 DEF NotifyTelegram
  <2> DEFINE k == IF what = "text" THEN ChunksOf[n] ELSE 1
             dead == (row.route = "topic" /\ ~topicAlive)
             e == [Unsent EXCEPT !.step = "send", !.what = what, !.route = row.route,
                     !.target = row.route, !.of = k, !.deadAtStart = dead]
  <2>2. PutNotice(n, e)
    BY <2>1
  <2>3. k \in Nat /\ 0 < k /\ (what = "media" => k = 1)
    BY DeliveryBounds
  <2>4. dead \in BOOLEAN /\ (dead => ~topicAlive /\ row.route = "topic")
    OBVIOUS
  <2> HIDE DEF k, dead
  <2>5. /\ e.step = "send" /\ e.what = what /\ e.route = row.route /\ e.target = row.route
        /\ e.chunk = 0 /\ e.of = k /\ e.switched = FALSE /\ e.outcome = "none"
        /\ e.deadAtStart = dead /\ e.main = <<>>
    BY DEF Unsent
  <2>6. e \in Deliveries
    BY <1>0, <2>3, <2>4, UnsentType DEF Deliveries, Routes
  <2> HIDE DEF e
  <2>7. DeadTopicOK(e) \/ ~dead
    BY <2>4, <2>5 DEF DeadTopicOK, Sending
  <2>8. NoticeOK(e, topicAlive, notFound)
    <3>1. e.chunk < e.of /\ e.target \in {"topic", "main"} /\ (what = "media" => e.of = 1)
      BY <1>0, <2>3, <2>5
    <3> QED
      BY <2>4, <2>5, <2>7, <3>1 DEF NoticeOK, Sending
  <2> QED
    BY <1>1, <2>2, <2>6, <2>8, OneNoticeMoves DEF NotifyTelegram
<1>2. CASE NotifyTui(n)
  <2> DEFINE e == [Unsent EXCEPT !.step = "done", !.watched = Connected]
             shown == IF row.channel = "none" THEN Connected ELSE TuiTargets
  <2>1. /\ PutNotice(n, e) /\ ShownOn(n, shown) /\ row.channel # "telegram"
        /\ UNCHANGED <<topicAlive, row, notFound>>
    BY <1>2 DEF NotifyTui
  <2>2. /\ e.step = "done" /\ e.what = "none" /\ e.target = "none" /\ e.switched = FALSE
        /\ e.outcome = "none" /\ e.deadAtStart = FALSE /\ e.watched = Connected
    BY DEF Unsent
  <2>3. Connected \subseteq TuiSessions
    BY DEF Connected
  <2>4. e \in Deliveries
    <3>1. \A w \in SUBSET TuiSessions : [Unsent EXCEPT !.step = "done", !.watched = w] \in Deliveries
      BY UnsentType DEF Deliveries
    <3> QED
      BY <2>3, <3>1
  <2>5. NoticeOK(e, topicAlive, notFound)
    <3> HIDE DEF e
    <3> QED
      BY <2>2 DEF NoticeOK, Sending
  <2> HIDE DEF e, shown
  <2>6. /\ notices'[n] = e /\ \A m \in Notices : m # n => notices'[m] = notices[m]
        /\ notices' \in [Notices -> Deliveries]
    BY <1>0, <2>1, <2>4 DEF DeliveryTypeOK, PutNotice
  <2>7. /\ screens' \in [TuiSessions -> [held : BOOLEAN, top : BOOLEAN, connected : BOOLEAN, seen : SUBSET Notices]]
        /\ \A s \in TuiSessions : /\ screens'[s].top = screens[s].top
                                  /\ screens[s].seen \subseteq screens'[s].seen
                                  /\ s \in shown => n \in screens'[s].seen
    BY <1>0, <2>1 DEF DeliveryTypeOK, ShownOn
  <2>8. TerminalNotified'
    <3> SUFFICES ASSUME NEW m \in Notices, row'.channel = "tui",
                        NEW s \in notices'[m].watched, screens'[s].top
                 PROVE  \E r \in TuiSessions : m \in screens'[r].seen
      BY DEF TerminalNotified
    <3>1. CASE m = n
      <4>1. s \in Connected /\ s \in TuiSessions /\ screens[s].top
        BY <2>2, <2>3, <2>6, <2>7, <3>1
      <4>2. s \in TuiTargets \/ "origin" \in TuiTargets
        BY <4>1 DEF TuiTargets
      <4>3. shown = TuiTargets /\ TuiTargets \subseteq TuiSessions
        BY <2>1, <2>3 DEF shown, TuiTargets
      <4> QED
        BY <2>7, <3>1, <4>2, <4>3
    <3>2. CASE m # n
      <4>1. s \in notices[m].watched /\ s \in TuiSessions /\ screens[s].top
        BY <1>0, <2>6, <2>7, <3>2 DEF DeliveryTypeOK, Deliveries
      <4>2. \E r \in TuiSessions : m \in screens[r].seen
        BY <2>1, <4>1 DEF DeliveryInv, TerminalNotified
      <4> QED
        BY <2>7, <4>2
    <3> QED
      BY <3>1, <3>2
  <2>9. \A m \in Notices : NoticeOK(notices'[m], topicAlive', notFound') /\ notices'[m].step \in {"none", "done"}
    BY <2>1, <2>2, <2>5, <2>6 DEF DeliveryInv
  <2>10. DeliveryTypeOK' /\ RouteLeftForCause' /\ row'.streak <= notFound'
    BY <1>0, <2>1, <2>6, <2>7 DEF DeliveryInv, DeliveryTypeOK, RouteLeftForCause
  <2> QED
    BY <2>8, <2>9, <2>10 DEF DeliveryInv
<1> QED
  BY <1>1, <1>2

\* What a task reports to the schedule's row.
LEMMA ReportStep ==
    ASSUME DeliveryInv, NEW n \in Notices, ReportSuccess(n) \/ CountNotFound(n) \/ RemapRoute(n)
    PROVE  DeliveryInv'
<1> DEFINE d == notices[n]
<1>0. /\ DeliveryTypeOK /\ d \in Deliveries /\ NoticeOK(d, topicAlive, notFound) /\ notFound \in Nat
      /\ row \in [route : {"topic", "main"}, streak : Nat, channel : Channels]
      /\ row.streak <= notFound /\ RouteLeftForCause /\ RemapThreshold \in Nat
      /\ d.step \in {"report", "remap"}
  BY DeliveryBounds DEF DeliveryInv, DeliveryTypeOK, ReportSuccess, CountNotFound, RemapRoute
<1>1. row.channel = "telegram" /\ row.route \in {"topic", "main"} /\ row.streak \in Nat
  BY <1>0 DEF DeliveryInv
<1>2. /\ d.deadAtStart => ~topicAlive /\ (~d.mainRefused => d.main = CountedTo(d.of))
      /\ d.outcome \in {"fallback", "fallback failed"} => ~topicAlive /\ d.route = "topic"
      /\ d.step = "remap" => ~topicAlive /\ notFound >= RemapThreshold
  BY <1>0 DEF NoticeOK, DeadTopicOK
<1>3. Ended(d) \in Deliveries /\ NoticeOK(Ended(d), topicAlive, notFound)
      /\ NoticeOK(Ended(d), topicAlive, notFound + 1)
  BY <1>0, <1>2, EndedNotice
<1> HIDE DEF d
\* The row changes with the notice.
<1>4. ASSUME NEW e \in Deliveries, PutNotice(n, e), UNCHANGED <<topicAlive, screens>>,
             NEW r \in {"topic", "main"}, NEW k \in Nat, NEW lost \in {notFound, notFound + 1},
             row' = [route |-> r, streak |-> k, channel |-> row.channel], notFound' = lost,
             NoticeOK(e, topicAlive, lost), k <= lost,
             r = "main" => ~topicAlive /\ lost >= RemapThreshold /\ k = 0
      PROVE  DeliveryInv'
  <2>1. lost \in Nat /\ notFound <= lost
    BY <1>0, <1>4
  <2>2. DeliveryTypeOK'
    BY <1>0, <1>1, <1>4, <2>1 DEF DeliveryTypeOK, PutNotice, Channels
  <2>3. RouteLeftForCause' /\ row'.streak <= notFound' /\ row'.channel = "telegram"
    BY <1>1, <1>4 DEF RouteLeftForCause
  <2>4. TerminalNotified'
    BY <2>3 DEF TerminalNotified
  <2>5. ASSUME NEW m \in Notices PROVE NoticeOK(notices'[m], topicAlive', notFound')
    <3>1. CASE m = n
      BY <1>0, <1>4, <3>1 DEF DeliveryTypeOK, PutNotice
    <3>2. CASE m # n
      <4>1. notices'[m] = notices[m] /\ NoticeOK(notices[m], topicAlive, notFound)
        BY <1>0, <1>4, <3>2 DEF DeliveryTypeOK, PutNotice, DeliveryInv
      <4> QED
        BY <1>0, <1>4, <2>1, <4>1, NoticeKeeps
    <3> QED
      BY <3>1, <3>2
  <2> QED
    BY <2>2, <2>3, <2>4, <2>5 DEF DeliveryInv
<1>5. row = [route |-> row.route, streak |-> row.streak, channel |-> row.channel]
  BY <1>0
<1>6. row.route = "main" => ~topicAlive /\ notFound >= RemapThreshold /\ row.streak = 0
  BY <1>0 DEF RouteLeftForCause
<1>7. CASE ReportSuccess(n)
  <2>1. PutNotice(n, Ended(d)) /\ UNCHANGED <<topicAlive, screens, notFound>>
    BY <1>7 DEF ReportSuccess, d
  <2>2. CASE row.route = d.route
    <3>1. row' = [route |-> row.route, streak |-> 0, channel |-> row.channel]
      BY <1>0, <1>7, <2>2 DEF ReportSuccess, d
    <3>2. 0 \in Nat /\ 0 <= notFound
      BY <1>0
    <3> QED
      BY <1>1, <1>3, <1>4, <1>6, <2>1, <3>1, <3>2
  <2>3. CASE row.route # d.route
    <3>1. row' = [route |-> row.route, streak |-> row.streak, channel |-> row.channel]
      BY <1>5, <1>7, <2>3 DEF ReportSuccess, d
    <3> QED
      BY <1>0, <1>1, <1>3, <1>4, <1>6, <2>1, <3>1
  <2> QED
    BY <2>2, <2>3
<1>8. CASE CountNotFound(n)
  <2>1. d.step = "report" /\ d.outcome \in {"fallback", "fallback failed"} /\ UNCHANGED <<topicAlive, screens>>
    BY <1>8 DEF CountNotFound, d
  <2>2. CASE row.route # d.route
    <3>1. PutNotice(n, Ended(d)) /\ UNCHANGED <<row, notFound>>
      BY <1>8, <2>2 DEF CountNotFound, d
    <3>2. row' = [route |-> row.route, streak |-> row.streak, channel |-> row.channel]
      BY <1>5, <3>1
    <3> QED
      BY <1>0, <1>1, <1>3, <1>4, <1>6, <2>1, <3>1, <3>2
  <2>3. CASE row.route = d.route
    <3> DEFINE e == IF d.outcome = "fallback" /\ row.streak + 1 >= RemapThreshold
                    THEN [d EXCEPT !.step = "remap"] ELSE Ended(d)
    <3>1. PutNotice(n, e) /\ notFound' = notFound + 1 /\ row' = [row EXCEPT !.streak = row.streak + 1]
      BY <1>8, <2>3 DEF CountNotFound, d
    <3>2. row.route = "topic" /\ ~topicAlive
      BY <1>2, <2>1, <2>3
    <3>3. row' = [route |-> "topic", streak |-> row.streak + 1, channel |-> row.channel]
      BY <1>0, <3>1, <3>2
    <3>4. row.streak + 1 \in Nat /\ row.streak + 1 <= notFound + 1
          /\ (row.streak + 1 >= RemapThreshold => notFound + 1 >= RemapThreshold)
      BY <1>0, <1>1
    <3>5. e \in Deliveries /\ NoticeOK(e, topicAlive, notFound + 1)
      <4>1. CASE d.outcome = "fallback" /\ row.streak + 1 >= RemapThreshold
        <5> DEFINE g == [d EXCEPT !.step = "remap"]
        <5>1. /\ g \in Deliveries /\ g.step = "remap" /\ g.target = d.target /\ g.route = d.route
              /\ g.switched = d.switched /\ g.outcome = d.outcome /\ g.deadAtStart = d.deadAtStart
              /\ g.mainRefused = d.mainRefused /\ g.main = d.main /\ g.of = d.of
          BY <1>0 DEF Deliveries
        <5> HIDE DEF g
        <5>2. DeadTopicOK(g) \/ ~g.deadAtStart
          BY <1>2, <5>1 DEF DeadTopicOK, Sending
        <5>3. notFound + 1 >= RemapThreshold
          BY <3>4, <4>1
        <5>4. NoticeOK(g, topicAlive, notFound + 1)
          BY <1>0, <3>2, <5>1, <5>2, <5>3 DEF NoticeOK, Sending
        <5> QED
          BY <4>1, <5>1, <5>4 DEF g
      <4>2. CASE ~(d.outcome = "fallback" /\ row.streak + 1 >= RemapThreshold)
        BY <1>3, <4>2
      <4> QED
        BY <4>1, <4>2
    <3> HIDE DEF e
    <3> QED
      BY <1>4, <2>1, <3>1, <3>3, <3>4, <3>5
  <2> QED
    BY <2>2, <2>3
<1>9. CASE RemapRoute(n)
  <2>1. d.step = "remap" /\ PutNotice(n, Ended(d)) /\ UNCHANGED <<topicAlive, screens, notFound>>
    BY <1>9 DEF RemapRoute, d
  <2>2. CASE row.route = d.route
    <3>1. row' = [route |-> "main", streak |-> 0, channel |-> row.channel]
      BY <1>0, <1>9, <2>2 DEF RemapRoute, d
    <3>2. 0 \in Nat /\ 0 <= notFound
      BY <1>0
    <3> QED
      BY <1>2, <1>3, <1>4, <2>1, <3>1, <3>2
  <2>3. CASE row.route # d.route
    <3>1. row' = [route |-> row.route, streak |-> row.streak, channel |-> row.channel]
      BY <1>5, <1>9, <2>3 DEF RemapRoute, d
    <3> QED
      BY <1>0, <1>1, <1>3, <1>4, <1>6, <2>1, <3>1
  <2> QED
    BY <2>2, <2>3
<1> QED
  BY <1>7, <1>8, <1>9

\* A notification reaches its user: whole and in order in the main chat when
\* its topic was gone, on a connected terminal otherwise, and a route is given
\* up only for a topic that is gone.
THEOREM NotificationsAreDelivered == DeliverySpec => []NotificationsDelivered
<1>1. DeliveryInit => DeliveryInv
  <2> SUFFICES ASSUME DeliveryInit PROVE DeliveryInv
    OBVIOUS
  <2>2. NoticeOK(Unsent, topicAlive, notFound)
    BY UnsentType DEF NoticeOK, Sending
  <2>3. \A n \in Notices : notices[n] = Unsent
    BY DEF DeliveryInit
  <2>4. topicAlive \in BOOLEAN /\ notFound = 0 /\ row.route = "topic" /\ row.streak = 0
        /\ row \in [route : {"topic", "main"}, streak : Nat, channel : Channels]
    BY DEF DeliveryInit, Channels
  <2>5. screens \in [TuiSessions -> [held : BOOLEAN, top : BOOLEAN, connected : BOOLEAN, seen : SUBSET Notices]]
    BY DEF DeliveryInit
  <2>6. notices \in [Notices -> Deliveries]
    BY UnsentType DEF DeliveryInit
  <2>7. DeliveryTypeOK
    BY <2>4, <2>5, <2>6 DEF DeliveryTypeOK
  <2>8. RouteLeftForCause /\ TerminalNotified /\ row.streak <= notFound
    BY <2>3, <2>4, UnsentType DEF RouteLeftForCause, TerminalNotified
  <2> QED
    BY <2>2, <2>3, <2>7, <2>8, UnsentType DEF DeliveryInv
<1>2. DeliveryInv /\ [DeliveryNext]_deliveryVars => DeliveryInv'
  <2> SUFFICES ASSUME DeliveryInv, [DeliveryNext]_deliveryVars PROVE DeliveryInv'
    OBVIOUS
  <2>1. CASE UNCHANGED deliveryVars
    BY <2>1 DEF deliveryVars, DeliveryInv, DeliveryTypeOK, RouteLeftForCause, TerminalNotified,
                NoticeOK, DeadTopicOK, Sending
  <2>2. CASE DeleteTopic
    <3>1. topicAlive' = FALSE /\ UNCHANGED <<row, notices, screens, notFound>>
      BY <2>2 DEF DeleteTopic
    <3>2. DeliveryTypeOK' /\ RouteLeftForCause' /\ TerminalNotified'
      BY <3>1 DEF DeliveryInv, DeliveryTypeOK, RouteLeftForCause, TerminalNotified
    <3>3. notFound \in Nat /\ notFound <= notFound
      BY DEF DeliveryInv, DeliveryTypeOK
    <3>4. ASSUME NEW m \in Notices PROVE NoticeOK(notices'[m], topicAlive', notFound')
      <4>1. NoticeOK(notices[m], topicAlive, notFound)
        BY DEF DeliveryInv
      <4>2. NoticeOK(notices[m], FALSE, notFound)
        BY <3>3, <4>1, NoticeKeeps
      <4> QED
        BY <3>1, <4>2
    <3> QED
      BY <3>1, <3>2, <3>4 DEF DeliveryInv
  <2>3. ASSUME NEW s \in TuiSessions, ConnectScreen(s) PROVE DeliveryInv'
    <3>1. /\ screens' = [screens EXCEPT ![s].connected = ~@]
          /\ UNCHANGED <<topicAlive, row, notices, notFound>>
      BY <2>3 DEF ConnectScreen
    <3>2. /\ screens' \in [TuiSessions -> [held : BOOLEAN, top : BOOLEAN, connected : BOOLEAN, seen : SUBSET Notices]]
          /\ \A r \in TuiSessions : screens'[r].top = screens[r].top /\ screens'[r].seen = screens[r].seen
      BY <3>1 DEF DeliveryInv, DeliveryTypeOK
    <3>3. \A n \in Notices : notices[n].watched \subseteq TuiSessions
      BY DEF DeliveryInv, DeliveryTypeOK, Deliveries
    <3>4. TerminalNotified'
      BY <3>1, <3>2, <3>3 DEF DeliveryInv, TerminalNotified
    <3>5. DeliveryTypeOK' /\ RouteLeftForCause'
      BY <3>1, <3>2 DEF DeliveryInv, DeliveryTypeOK, RouteLeftForCause
    <3>6. \A n \in Notices : NoticeOK(notices'[n], topicAlive', notFound')
      BY <3>1 DEF DeliveryInv
    <3> QED
      BY <3>1, <3>4, <3>5, <3>6 DEF DeliveryInv
  <2>4. ASSUME NEW n \in Notices, SendHtml(n) \/ SendPlain(n) \/ UploadMedia(n) \/ SendFallbackNotice(n)
        PROVE  DeliveryInv'
    <3>1. UNCHANGED <<topicAlive, row, screens, notFound>> /\ notices[n].step \notin {"none", "done"}
      BY <2>4 DEF SendHtml, SendPlain, UploadMedia, SendFallbackNotice
    <3>2. row.channel = "telegram"
      BY <3>1 DEF DeliveryInv
    <3> QED
      BY <2>4, <3>1, <3>2, SenderStep, OneNoticeMoves
  <2> QED
    BY <2>1, <2>2, <2>3, <2>4, NotifyStep, ReportStep DEF DeliveryNext
<1>3. DeliveryInv => NotificationsDelivered
  <2> SUFFICES ASSUME DeliveryInv PROVE DeadTopicReachesMainChat
    BY DEF DeliveryInv, NotificationsDelivered
  <2> QED
    BY DEF DeliveryInv, NoticeOK, DeadTopicOK, DeadTopicReachesMainChat, CountedTo
<1> QED
  BY <1>1, <1>2, <1>3, PTL DEF DeliverySpec
=============================================================================
