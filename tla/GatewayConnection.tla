------------------------- MODULE GatewayConnection --------------------------
(***************************************************************************)
(* WebSocket connections of the gateway on top of GatewayTurns: handshake, *)
(* replay of the latest outcome, switching sessions, and delivery from the *)
(* session's broadcast channel, a ring buffer that overtakes slow readers  *)
(* (handle_socket and handle_client_frame in crates/gateway/src/lib.rs).   *)
(***************************************************************************)
EXTENDS GatewayTurns

CONSTANTS
    Conns,         \* websocket connections
    BufferCapacity \* EVENT_BUFFER_CAPACITY

ASSUME BufferCapacityType == BufferCapacity \in Nat \ {0}

VARIABLES
    conn,      \* how far each connection is in its handshake
    onSession, \* its active_session (meaningful unless conn is "off")
    cursor,    \* frames of that session's channel its receiver has consumed
    told,      \* the active_turn the last HelloAck or SessionSwitched named
    received,  \* frames sent to the client since that acknowledgement
    lagged     \* RecvError::Lagged was seen since then

connVars == <<conn, onSession, cursor, told, received, lagged>>
allVars == <<vars, connVars>>

\* off         not connected
\* subscribed  receiver created, active_turn_status not yet read
\* acked       HelloAck sent
\* idleSeen    the second active_turn_status found no active turn
\* live        in the select! loop, on the session of its Hello
\* switching   subscribed to another session, SessionSwitched not yet sent
\* switched    in the select! loop, on a session it switched to
ConnStates == {"off", "subscribed", "acked", "idleSeen", "live", "switching",
               "switched"}
InLoop(c) == conn[c] \in {"live", "switched"}

ConnTypeOK ==
    /\ conn \in [Conns -> ConnStates]
    /\ onSession \in [Conns -> Sessions]
    /\ cursor \in [Conns -> Nat]
    /\ told \in [Conns -> Turns \cup {NoTurn}]
    /\ received \in [Conns -> SUBSET Frames]
    /\ lagged \in [Conns -> BOOLEAN]

ConnInit ==
    /\ Init
    /\ conn = [c \in Conns |-> "off"]
    /\ onSession \in [Conns -> Sessions]
    /\ cursor = [c \in Conns |-> 0]
    /\ told = [c \in Conns |-> NoTurn]
    /\ received = [c \in Conns |-> {}]
    /\ lagged = [c \in Conns |-> FALSE]

-----------------------------------------------------------------------------
\* Subscribing drops the previous receiver and starts at the tail.
SubscribeTo(c, s) ==
    /\ onSession' = [onSession EXCEPT ![c] = s]
    /\ cursor' = [cursor EXCEPT ![c] = Len(events[s])]
    /\ received' = [received EXCEPT ![c] = {}]
    /\ lagged' = [lagged EXCEPT ![c] = FALSE]
    /\ told' = [told EXCEPT ![c] = NoTurn]

\* Hello resolved to session s: subscribe, before anything is read.
Hello(c, s) ==
    /\ conn[c] = "off"
    /\ conn' = [conn EXCEPT ![c] = "subscribed"]
    /\ SubscribeTo(c, s)
    /\ UNCHANGED vars

\* Read active_turn_status and send HelloAck with it.
HelloAck(c) ==
    /\ conn[c] = "subscribed"
    /\ conn' = [conn EXCEPT ![c] = "acked"]
    /\ told' = [told EXCEPT ![c] = activeTurn[onSession[c]]]
    /\ UNCHANGED <<vars, onSession, cursor, received, lagged>>

\* Mutant: the receiver is created only when the select! loop is entered.
RecheckThenSubscribe(c) ==
    /\ conn[c] = "acked"
    /\ conn' = [conn EXCEPT ![c] =
                    IF activeTurn[onSession[c]] = NoTurn THEN "idleSeen" ELSE "live"]
    /\ cursor' = [cursor EXCEPT ![c] = Len(events[onSession[c]])]
    /\ UNCHANGED <<vars, onSession, told, received, lagged>>

\* The second active_turn_status: an active turn skips the replay.
RecheckActive(c) ==
    /\ conn[c] = "acked"
    /\ conn' = [conn EXCEPT ![c] =
                    IF activeTurn[onSession[c]] = NoTurn THEN "idleSeen" ELSE "live"]
    /\ UNCHANGED <<vars, onSession, cursor, told, received, lagged>>

\* Replay latest_terminal_frame, if there is one.
ReplayOutcome(c) ==
    /\ conn[c] = "idleSeen"
    /\ conn' = [conn EXCEPT ![c] = "live"]
    /\ received' = [received EXCEPT ![c] =
                        @ \cup ({terminalFrame[onSession[c]]} \ {NoFrame})]
    /\ UNCHANGED <<vars, onSession, cursor, told, lagged>>

\* SwitchSession (or CreateSession, whose session is new and so idle):
\* subscribe to the target, read its active turn, answer SessionSwitched;
\* nothing is replayed.  The subscription and the status are separate locks,
\* so the answer is a second step.
SwitchSession(c, s) ==
    /\ InLoop(c)
    /\ conn' = [conn EXCEPT ![c] = "switching"]
    /\ SubscribeTo(c, s)
    /\ UNCHANGED vars

SessionSwitched(c) ==
    /\ conn[c] = "switching"
    /\ conn' = [conn EXCEPT ![c] = "switched"]
    /\ told' = [told EXCEPT ![c] = activeTurn[onSession[c]]]
    /\ UNCHANGED <<vars, onSession, cursor, received, lagged>>

-----------------------------------------------------------------------------
(* The receiver.                                                            *)

Unread(c) == Len(events[onSession[c]]) - cursor[c]

\* updates.recv() hands over the next frame, which is sent to the client.
Deliver(c) ==
    /\ InLoop(c)
    /\ Unread(c) > 0 /\ Unread(c) <= BufferCapacity
    /\ cursor' = [cursor EXCEPT ![c] = @ + 1]
    /\ received' = [received EXCEPT ![c] =
                        @ \cup {events[onSession[c]][cursor[c] + 1]}]
    /\ UNCHANGED <<vars, conn, onSession, told, lagged>>

\* RecvError::Lagged: the receiver skips to the oldest frame still buffered;
\* the connection logs it and goes on.
Lag(c) ==
    /\ InLoop(c)
    /\ Unread(c) > BufferCapacity
    /\ cursor' = [cursor EXCEPT ![c] = Len(events[onSession[c]]) - BufferCapacity]
    /\ lagged' = [lagged EXCEPT ![c] = TRUE]
    /\ UNCHANGED <<vars, conn, onSession, told, received>>

\* The socket closes or a send fails, at any time.
Disconnect(c) ==
    /\ conn[c] # "off"
    /\ conn' = [conn EXCEPT ![c] = "off"]
    /\ UNCHANGED <<vars, onSession, cursor, told, received, lagged>>

-----------------------------------------------------------------------------
ConnStep(c) ==
    \/ \E s \in Sessions : Hello(c, s) \/ SwitchSession(c, s)
    \/ HelloAck(c) \/ RecheckActive(c) \/ ReplayOutcome(c) \/ SessionSwitched(c)
    \/ Deliver(c) \/ Lag(c) \/ Disconnect(c)

ConnNext ==
    \/ Next /\ UNCHANGED connVars
    \/ \E c \in Conns : ConnStep(c)

ConnSpec == ConnInit /\ [][ConnNext]_allVars

-----------------------------------------------------------------------------
Drained(c) == InLoop(c) /\ Unread(c) = 0
\* t's terminal frame has been broadcast on its session's channel.
Broadcast(t) ==
    \E i \in DOMAIN events[SessionOf[t]] :
        /\ events[SessionOf[t]][i].turn = t
        /\ events[SessionOf[t]][i].kind # "started"
OutcomeReceived(c, t) == \E f \in received[c] : f.turn = t /\ f.kind # "started"

\* A client that was told a turn is active (HelloAck or SessionSwitched) gets
\* that turn's outcome once it has read its channel: however the turn's end,
\* the next turn's start and the handshake interleave, the outcome cannot
\* fall between the status that was read and the subscription.
ToldTurnOutcomeDelivered ==
    \A c \in Conns :
        (Drained(c) /\ ~lagged[c] /\ told[c] # NoTurn /\ Broadcast(told[c]))
            => OutcomeReceived(c, told[c])

\* An idle session's outcome reaches a client that connects late: when the
\* handshake is over, nothing is under way in the session and its
\* latest_terminal_frame is set, a client that was told "no active turn" has
\* been sent that frame, from the replay or from the channel.  (A client
\* that came by SwitchSession gets no replay.)
IdleOutcomeDelivered ==
    \A c \in Conns :
        LET s == onSession[c] IN
        ( /\ Drained(c) /\ conn[c] = "live" /\ ~lagged[c] /\ told[c] = NoTurn
          /\ terminalFrame[s] # NoFrame
          /\ \A t \in Turns : SessionOf[t] = s => pc[t] \in {"idle", "done"} )
            => terminalFrame[s] \in received[c]

\* Falling behind loses old frames only: a drained receiver has been given
\* the newest frame broadcast since it subscribed, which is how a lagging
\* client still learns that a turn has ended.
NewestFrameDelivered ==
    \A c \in Conns :
        LET log == events[onSession[c]] IN
        (Drained(c) /\ lagged[c]) => log[Len(log)] \in received[c]

\* A client learns how the turn it was told of ended, whenever it connects,
\* switches or falls behind.
OutcomesReachClients ==
    ConnTypeOK /\ ToldTurnOutcomeDelivered /\ IdleOutcomeDelivered /\ NewestFrameDelivered
\* The inductive invariant behind OutcomesReachClients.  A session's entries
\* name its own turns, and the stored outcome is one its task built ...
SessionEntriesOwn ==
    \A s \in Sessions :
        /\ activeTurn[s] # NoTurn => SessionOf[activeTurn[s]] = s
        /\ terminalFrame[s] # NoFrame =>
             LET f == terminalFrame[s] IN
             /\ f \in TerminalFrames /\ SessionOf[f.turn] = s /\ f.kind = outcome[f.turn]
             /\ pc[f.turn] \in {"stored", "published", "done"}

\* ... what a receiver has not been given of the turn it was told of, or of
\* the newest frames after it lagged, is still ahead of its cursor ...
ReceiverOK(c) ==
    LET log == events[onSession[c]] IN
    /\ cursor[c] <= Len(log)
    /\ told[c] # NoTurn =>
         /\ SessionOf[told[c]] = onSession[c]
         /\ ~lagged[c] => \A i \in 1..Len(log) :
              log[i].turn = told[c] /\ log[i].kind # "started" => i > cursor[c] \/ log[i] \in received[c]
    /\ lagged[c] => Len(log) > 0 /\ (cursor[c] = Len(log) => log[Len(log)] \in received[c])

\* ... and a client that was told "no active turn" has been sent the stored
\* outcome, or will be: it is ahead, about to be broadcast, or about to be
\* cleared by a turn that has reserved the session.
Known(c) ==
    LET s == onSession[c] IN
    \/ terminalFrame[s] = NoFrame
    \/ terminalFrame[s] \in received[c]
    \/ \E i \in 1..Len(events[s]) : i > cursor[c] /\ events[s][i] = terminalFrame[s]
    \/ pc[terminalFrame[s].turn] = "stored"
    \/ \E t \in Turns : SessionOf[t] = s /\ pc[t] = "reserved"
IdleOK(c) ==
    ( /\ told[c] = NoTurn /\ ~lagged[c]
      /\ conn[c] = "live" \/ (conn[c] = "acked" /\ activeTurn[onSession[c]] # NoTurn) )
    => Known(c)

ConnInv == ConnTypeOK /\ SessionEntriesOwn /\ \A c \in Conns : ReceiverOK(c) /\ IdleOK(c)
=============================================================================
