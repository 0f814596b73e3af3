-------------------------------- MODULE Tui ---------------------------------
(***************************************************************************)
(* The terminal client: the select loop and reconnection of TuiApp         *)
(* (crates/tui/src/app.rs) and the protocol state of TuiChannelAdapter     *)
(* (crates/tui/src/channel_adapter.rs), with the gateway's end of the      *)
(* connection, where replies overtake the session's events.                *)
(*                                                                         *)
(* Frames go through the adapter's stream and the socket, one queue here   *)
(* (`wire`), to the gateway, and through the gateway's subscription        *)
(* (`events`) and the socket (`inbox`) back.  Turns are also started by    *)
(* other clients of the sessions.                                          *)
(***************************************************************************)
EXTENDS Naturals, Sequences

CONSTANTS
    MaxTurnsTui, \* bound: turns
    MaxKeys,     \* bound: commands, Ctrl+C and health checks
    MaxLosses    \* bound: connections lost

ASSUME TuiBounds == {MaxTurnsTui, MaxKeys, MaxLosses} \subseteq Nat

VARIABLES
    ui,       \* TuiUiState: [session, active], 0 for None
    link,     \* "retry", "hello", "connected" or "quit"
    socket,   \* the connection stands
    wire, events, inbox, \* the queues
    attached, \* the connection's active_session in the gateway, 0 before Hello
    gwTurns,  \* turn -> [state, session, typedIn]
    gwActive, \* session -> its active turn, 0 for none
    keys,     \* the number of commands entered, of Ctrl+C and of health checks
    losses    \* connections lost

tuiVars == <<ui, link, socket, wire, events, inbox, attached, gwTurns, gwActive, keys, losses>>

TuiSessionIds == {1, 2}
TurnIds == 1..MaxTurnsTui
Msg(k, s, t) == [kind |-> k, session |-> s, turn |-> t]

TuiInit ==
    /\ ui = [session |-> 0, active |-> 0] /\ link = "retry" /\ socket = FALSE
    /\ wire = <<>> /\ events = <<>> /\ inbox = <<>>
    /\ attached = 0 /\ keys = 0 /\ losses = 0
    /\ gwTurns = [t \in TurnIds |-> [state |-> "none", session |-> 0, typedIn |-> 0]]
    /\ gwActive = [s \in TuiSessionIds |-> 0]

gatewayTurns == <<gwTurns, gwActive>>
queues == <<wire, events, inbox>>
FreshTurns == {t \in TurnIds : gwTurns[t].state = "none" /\ \A u \in 1..(t - 1) : gwTurns[u].state # "none"}

-----------------------------------------------------------------------------
(* try_reconnect: connect, Hello, and everything read until the HelloAck.   *)
(* The select loop waits for it.                                            *)

\* build_hello_frame: the session of the last connection, or a new one.
TryReconnect ==
    /\ link = "retry" /\ link' = "hello" /\ socket' = TRUE
    /\ wire' = <<Msg("hello", ui.session, 0)>> /\ inbox' = <<>> /\ events' = <<>> /\ attached' = 0
    /\ UNCHANGED <<ui, gatewayTurns, keys, losses>>

\* The connection is lost or the 5 seconds are over.
ReconnectFails ==
    /\ link = "hello" /\ (~socket \/ losses < MaxLosses) /\ link' = "retry" /\ socket' = FALSE
    /\ losses' = IF socket THEN losses + 1 ELSE losses
    /\ attached' = 0 /\ wire' = <<>> /\ events' = <<>> /\ inbox' = <<>>
    /\ UNCHANGED <<ui, gatewayTurns, keys>>

\* HelloAck, SessionSwitched and HealthStatus tell the active turn, or none.
TurnTold(t) == t

\* apply_gateway_frame.
ApplyFrame(f) ==
    ui' = CASE f.kind \in {"ack", "switched", "health"} -> [session |-> f.session, active |-> TurnTold(f.turn)]
            [] f.kind \in {"started", "delta"} -> [session |-> f.session, active |-> f.turn]
            [] f.kind \in {"ended", "created"} -> [session |-> f.session, active |-> 0]
            [] f.kind = "error" -> [session |-> IF f.session = 0 THEN ui.session ELSE f.session, active |-> f.turn]
            [] OTHER -> ui

\* The listen stream is made anew: what was in the old one is gone.
ReadBeforeAck ==
    /\ link = "hello" /\ inbox # <<>>
    /\ ApplyFrame(Head(inbox)) /\ inbox' = Tail(inbox)
    /\ link' = IF Head(inbox).kind = "ack" THEN "connected" ELSE link
    /\ UNCHANGED <<socket, wire, events, attached, gatewayTurns, keys, losses>>

-----------------------------------------------------------------------------
(* The other arms of the select loop.                                       *)

ReadGatewayFrame ==
    /\ link = "connected" /\ inbox # <<>>
    /\ ApplyFrame(Head(inbox)) /\ inbox' = Tail(inbox)
    /\ UNCHANGED <<link, socket, wire, events, attached, gatewayTurns, keys, losses>>

LoseSocket ==
    /\ socket /\ link = "connected" /\ losses < MaxLosses
    /\ socket' = FALSE /\ losses' = losses + 1 /\ wire' = <<>> /\ events' = <<>> /\ attached' = 0
    /\ UNCHANGED <<ui, link, inbox, gatewayTurns, keys>>

\* gateway_rx has ended: mark_disconnected, and the retry is scheduled.
NoticeLoss ==
    /\ link = "connected" /\ ~socket /\ inbox = <<>> /\ link' = "retry"
    /\ UNCHANGED <<ui, socket, queues, attached, gatewayTurns, keys, losses>>

\* Frames of the adapter go to the writer task, or are dropped while the
\* connection is down.
ForwardOutgoing(f) == wire' = IF link = "connected" /\ socket THEN Append(wire, f) ELSE wire

\* The tick, every five seconds.
SendHealthCheck ==
    /\ link = "connected" /\ socket /\ keys < MaxKeys /\ keys' = keys + 1
    /\ wire' = Append(wire, Msg("check", 0, 0))
    /\ UNCHANGED <<ui, link, socket, events, inbox, attached, gatewayTurns, losses>>

\* handle_action, Submit: nothing while a turn is active or the connection
\* is down.  The prompt names the session that is shown.
SubmitPrompt(t) ==
    /\ link = "connected" /\ ui.active = 0 /\ ui.session # 0 /\ t \in FreshTurns
    /\ ForwardOutgoing(Msg("turn", ui.session, t))
    /\ gwTurns' = [gwTurns EXCEPT ![t] = [state |-> "sent", session |-> 0, typedIn |-> ui.session]]
    /\ UNCHANGED <<ui, link, socket, events, inbox, attached, gwActive, keys, losses>>

\* A slash command is entered: try_handle_slash_command is behind the same
\* guard, and where that fails the input stays in the input bar.
SlashCommand(cmd) ==
    /\ link \in {"connected", "retry"} /\ keys < MaxKeys /\ keys' = keys + 1
    /\ IF link = "connected" /\ ui.active = 0 THEN ForwardOutgoing(Msg(cmd, ui.session, ui.active))
       ELSE UNCHANGED wire
    /\ UNCHANGED <<ui, link, socket, events, inbox, attached, gatewayTurns, losses>>

\* Ctrl+C: a turn is cancelled; without one, or pressed twice, it quits.
PressCtrlC ==
    /\ link \in {"connected", "retry"} /\ keys < MaxKeys /\ keys' = keys + 1
    /\ \/ /\ ui.active # 0 /\ ForwardOutgoing(Msg("cancel", ui.session, ui.active))
          /\ UNCHANGED <<link, socket>>
       \/ link' = "quit" /\ socket' = FALSE /\ UNCHANGED wire
    /\ UNCHANGED <<ui, events, inbox, attached, gatewayTurns, losses>>

-----------------------------------------------------------------------------
(* The gateway's end: handle_socket, which takes a frame of the client or   *)
(* an event of the session, and the turns.                                  *)

Reply(f) == inbox' = Append(inbox, f)

\* latest_terminal_frame, for a session without an active turn.
LastOutcome(s) ==
    IF gwActive[s] = 0 /\ \E t \in TurnIds : gwTurns[t].session = s /\ gwTurns[t].state = "over"
    THEN <<Msg("ended", s, 0)>> ELSE <<>>

\* resolve_session: the named session or a new one; an error closes.
GatewayHello ==
    /\ socket /\ wire # <<>> /\ Head(wire).kind = "hello" /\ wire' = Tail(wire)
    /\ LET s == IF Head(wire).session = 0 THEN 1 ELSE Head(wire).session IN
         /\ attached' = s
         /\ inbox' = <<Msg("ack", s, gwActive[s])>> \o LastOutcome(s)
    /\ UNCHANGED <<ui, link, socket, events, gatewayTurns, keys, losses>>

ForwardEvent ==
    /\ socket /\ events # <<>> /\ Reply(Head(events)) /\ events' = Tail(events)
    /\ UNCHANGED <<ui, link, socket, wire, attached, gatewayTurns, keys, losses>>

Published(s, f) == IF attached = s THEN Append(events, f) ELSE events
Started(t, s) == /\ gwTurns' = [gwTurns EXCEPT ![t].state = "running", ![t].session = s]
                 /\ gwActive' = [gwActive EXCEPT ![s] = t]

\* Mutant: the turn is started in the connection's session, unasked.
TurnMatchesAny(f) == TRUE
\* "session_id does not match active session".
TurnMatches(f) == f.session = attached

GatewayTurn ==
    LET f == Head(wire) IN
    /\ socket /\ wire # <<>> /\ f.kind = "turn" /\ wire' = Tail(wire)
    /\ IF ~TurnMatches(f) THEN Reply(Msg("error", attached, 0)) /\ UNCHANGED <<events, gatewayTurns>>
       ELSE IF gwActive[attached] # 0
       THEN Reply(Msg("error", attached, gwActive[attached])) /\ UNCHANGED <<events, gatewayTurns>>
       ELSE /\ Started(f.turn, attached) /\ events' = Append(events, Msg("started", attached, f.turn))
            /\ UNCHANGED inbox
    /\ UNCHANGED <<ui, link, socket, attached, keys, losses>>

\* /new and /switch move the connection and its subscription; /cancel and
\* Ctrl+C cancel, or there is nothing to cancel; a list has no effect.
GatewayCommand ==
    LET f == Head(wire) IN
    /\ socket /\ wire # <<>> /\ f.kind \in {"new", "switch", "cancel", "cancelall", "check", "list"} /\ wire' = Tail(wire)
    /\ \/ /\ f.kind \in {"new", "switch"}
          /\ \E s \in TuiSessionIds :
               /\ f.kind = "new" => gwActive[s] = 0
               /\ attached' = s /\ events' = <<>>
               /\ Reply(IF f.kind = "new" THEN Msg("created", s, 0) ELSE Msg("switched", s, gwActive[s]))
       \/ /\ f.kind \in {"new", "switch", "list"} /\ Reply(Msg("error", attached, 0)) /\ UNCHANGED <<attached, events>>
       \/ /\ f.kind = "check" /\ Reply(Msg("health", attached, gwActive[attached])) /\ UNCHANGED <<attached, events>>
       \/ /\ f.kind = "list" /\ Reply(Msg("list", 0, 0)) /\ UNCHANGED <<attached, events>>
       \/ /\ f.kind = "cancel" /\ UNCHANGED <<attached, events>>
          /\ IF f.session = attached /\ gwActive[attached] # 0 THEN UNCHANGED inbox
             ELSE Reply(Msg("error", attached, 0))
       \/ /\ f.kind = "cancelall" /\ UNCHANGED <<attached, events>>
          /\ IF \E s \in TuiSessionIds : gwActive[s] # 0 THEN UNCHANGED inbox ELSE Reply(Msg("error", attached, 0))
    /\ UNCHANGED <<ui, link, socket, gatewayTurns, keys, losses>>

\* Another client of the session submits a turn.
OtherClientTurn(t, s) ==
    /\ t \in FreshTurns /\ gwActive[s] = 0
    /\ gwTurns' = [gwTurns EXCEPT ![t] = [state |-> "running", session |-> s, typedIn |-> s]]
    /\ gwActive' = [gwActive EXCEPT ![s] = t]
    /\ events' = Published(s, Msg("started", s, t))
    /\ UNCHANGED <<ui, link, socket, wire, inbox, attached, keys, losses>>

\* A turn ends: active_turn is cleared, deltas of the turn perhaps not yet
\* forwarded, and then the last frame is published.
TurnClears(t) ==
    /\ gwTurns[t].state = "running" /\ gwTurns' = [gwTurns EXCEPT ![t].state = "cleared"]
    /\ gwActive' = [gwActive EXCEPT ![gwTurns[t].session] = 0]
    /\ events' = Published(gwTurns[t].session, Msg("delta", gwTurns[t].session, t))
    /\ UNCHANGED <<ui, link, socket, wire, inbox, attached, keys, losses>>
TurnTellsEnd(t) ==
    /\ gwTurns[t].state = "cleared" /\ gwTurns' = [gwTurns EXCEPT ![t].state = "over"]
    /\ events' = Published(gwTurns[t].session, Msg("ended", gwTurns[t].session, t))
    /\ UNCHANGED <<ui, link, socket, wire, inbox, attached, gwActive, keys, losses>>

ClientStep ==
    \/ TryReconnect \/ ReadBeforeAck \/ ReadGatewayFrame \/ NoticeLoss \/ ReconnectFails
GatewayStep == GatewayHello \/ ForwardEvent \/ GatewayTurn \/ GatewayCommand
TurnStep(t) == TurnClears(t) \/ TurnTellsEnd(t)

TuiNext ==
    \/ ClientStep \/ LoseSocket \/ SendHealthCheck \/ PressCtrlC
    \/ \E t \in TurnIds : SubmitPrompt(t) \/ TurnStep(t) \/ \E s \in TuiSessionIds : OtherClientTurn(t, s)
    \/ \E cmd \in {"new", "switch", "cancel", "cancelall", "list"} : SlashCommand(cmd)
    \/ GatewayStep

\* The loop and both ends of the socket go on, and turns end.
TuiFairness ==
    /\ WF_tuiVars(TryReconnect \/ ReadBeforeAck \/ ReadGatewayFrame \/ NoticeLoss)
    /\ WF_tuiVars(GatewayHello) /\ WF_tuiVars(ForwardEvent)
    /\ \A t \in TurnIds : WF_tuiVars(TurnStep(t))
TuiSpec == TuiInit /\ [][TuiNext]_tuiVars /\ TuiFairness

-----------------------------------------------------------------------------
(* Properties.                                                              *)

\* A prompt runs in the session that was shown when it was entered, or not
\* at all, though a /switch or a reconnection may have moved the connection.
PromptRunsWhereTyped ==
    \A t \in TurnIds : gwTurns[t].session # 0 => gwTurns[t].session = gwTurns[t].typedIn

\* The inductive invariant behind it: a prompt under way names the session it
\* was typed in, and no other turn has its number.
PromptsUnderWay ==
    \A i \in 1..Len(wire) :
        wire[i].kind = "turn" =>
            /\ wire[i].turn \in TurnIds /\ wire[i].session # 0
            /\ gwTurns[wire[i].turn].state # "none"
            /\ gwTurns[wire[i].turn].typedIn = wire[i].session

\* Before the gateway has read the Hello of a connection nothing is behind it
\* and nothing has come back.
HelloFirst ==
    /\ link = "hello" => socket
    /\ attached = 0 =>
         /\ events = <<>> /\ (link = "hello" => inbox = <<>>)
         /\ ~(link = "connected" /\ socket)
         /\ wire # <<>> => Head(wire).kind = "hello"

SessionOrNone == {0} \cup TuiSessionIds
TurnRecords == [state : {"none", "sent", "running", "cleared", "over"},
                session : SessionOrNone, typedIn : SessionOrNone]
Kinds == {"hello", "turn", "check", "new", "switch", "cancel", "cancelall", "list", "ack",
          "switched", "created", "health", "started", "delta", "ended", "error"}
Messages == [kind : Kinds, session : SessionOrNone, turn : Nat]
TuiTypeOK ==
    /\ wire \in Seq(Messages) /\ inbox \in Seq(Messages) /\ events \in Seq(Messages)
    /\ gwTurns \in [TurnIds -> TurnRecords]
    /\ \A t \in TurnIds : gwTurns[t].state \in {"running", "cleared"} => gwTurns[t].session # 0
    /\ gwActive \in [TuiSessionIds -> {0} \cup TurnIds]
    /\ ui \in [session : SessionOrNone, active : Nat]
    /\ attached \in SessionOrNone /\ socket \in BOOLEAN
    /\ link \in {"retry", "hello", "connected", "quit"}
TuiInv == TuiTypeOK /\ HelloFirst /\ PromptsUnderWay /\ PromptRunsWhereTyped

\* A turn that is over does not stay the active turn of a terminal that is
\* still open, whatever frames were lost or overtook others: a terminal that
\* shows one takes no prompts.
InputUnblocked ==
    \A t \in TurnIds : (ui.active = t /\ gwTurns[t].state = "over") ~> (ui.active # t \/ link = "quit")

\* /cancel entered in a connected terminal while a turn is active has a
\* cancel frame sent.
CancelCommandSent ==
    [][SlashCommand("cancel") /\ link = "connected" /\ ui.active # 0 => wire' # wire]_tuiVars
=============================================================================
