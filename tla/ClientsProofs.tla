--------------------------- MODULE ClientsProofs ----------------------------
(***************************************************************************)
(* Proofs about what the user works with: the terminal, for any number of  *)
(* turns and lost connections, the configurator's page, for any number of  *)
(* clicks, the shell tool with its sidecar, for any number of calls,       *)
(* connections and sizes of output, and the Telegram adapter, for any      *)
(* number of chats, messages and deltas.                                   *)
(***************************************************************************)
EXTENDS Tui, WebApp, ShellSession, Telegram, FiniteSetTheorems, SequenceTheorems, TLAPS

-----------------------------------------------------------------------------
(* Tui.                                                                     *)

\* Messages are made of a kind, a session and a turn.
LEMMA MsgType ==
    ASSUME NEW k \in Kinds, NEW s \in SessionOrNone, NEW t \in Nat
    PROVE  /\ Msg(k, s, t) \in Messages
           /\ Msg(k, s, t).kind = k /\ Msg(k, s, t).session = s /\ Msg(k, s, t).turn = t
BY DEF Msg, Messages

\* Turns are numbers.
LEMMA TurnIdsType == TurnIds \subseteq Nat /\ TuiSessionIds \subseteq Nat /\ 0 \notin TuiSessionIds
BY TuiBounds DEF TurnIds, TuiSessionIds

\* What a frame leaves in the user interface.
LEMMA ApplyType ==
    ASSUME TuiTypeOK, NEW f \in Messages, ApplyFrame(f)
    PROVE  ui' \in [session : SessionOrNone, active : Nat]
BY DEF TuiTypeOK, ApplyFrame, TurnTold, Messages

\* The rest of a queue.
LEMMA TailEntries ==
    ASSUME NEW S, NEW q \in Seq(S), q # <<>>
    PROVE  /\ Tail(q) \in Seq(S) /\ Head(q) \in S /\ Head(q) = q[1] /\ Len(q) > 0
           /\ Len(Tail(q)) = Len(q) - 1
           /\ \A i \in 1..(Len(q) - 1) : i + 1 \in 1..Len(q) /\ Tail(q)[i] = q[i + 1]
<1>1. Len(q) \in Nat /\ Len(q) > 0
  OBVIOUS
<1>2. \A i \in 1..(Len(q) - 1) : i + 1 \in 1..Len(q)
  BY <1>1
<1> QED
  BY <1>1, <1>2, HeadTailProperties

\* A step that leaves the turns alone and takes frames from the client's end
\* of the wire, drops them all, or adds one that is no prompt.
LEMMA WireMoves ==
    ASSUME TuiInv, UNCHANGED gwTurns,
           \/ wire' = wire \/ wire' = <<>> \/ (wire # <<>> /\ wire' = Tail(wire))
           \/ \E f \in Messages : f.kind # "turn" /\ (wire' = Append(wire, f) \/ wire' = <<f>>)
    PROVE  wire' \in Seq(Messages) /\ PromptsUnderWay' /\ PromptRunsWhereTyped'
<1>0. wire \in Seq(Messages) /\ Len(wire) \in Nat
  BY DEF TuiInv, TuiTypeOK
<1>1. PromptRunsWhereTyped'
  BY DEF TuiInv, PromptRunsWhereTyped
<1>2. ASSUME wire' \in Seq(Messages),
             \A i \in 1..Len(wire') : wire'[i].kind = "turn" =>
                 \E j \in 1..Len(wire) : wire'[i] = wire[j]
      PROVE  PromptsUnderWay'
  BY <1>2 DEF TuiInv, PromptsUnderWay
<1>3. CASE wire' = wire
  BY <1>0, <1>1, <1>2, <1>3
<1>4. CASE wire' = <<>>
  BY <1>1, <1>2, <1>4
<1>5. CASE wire # <<>> /\ wire' = Tail(wire)
  <2>1. /\ wire' \in Seq(Messages)
        /\ \A i \in 1..Len(wire') : i + 1 \in 1..Len(wire) /\ wire'[i] = wire[i + 1]
    BY <1>0, <1>5, TailEntries
  <2> QED
    BY <1>1, <1>2, <2>1
<1>6. ASSUME NEW f \in Messages, f.kind # "turn", wire' = Append(wire, f)
      PROVE  wire' \in Seq(Messages) /\ PromptsUnderWay'
  <2>1. wire' \in Seq(Messages) /\ Len(wire') = Len(wire) + 1 /\ wire'[Len(wire) + 1] = f
        /\ \A i \in 1..Len(wire) : wire'[i] = wire[i]
    BY <1>0, <1>6
  <2>2. \A i \in 1..Len(wire') : i \in 1..Len(wire) \/ i = Len(wire) + 1
    BY <1>0, <2>1
  <2> QED
    BY <1>2, <1>6, <2>1, <2>2
<1>7. ASSUME NEW f \in Messages, f.kind # "turn", wire' = <<f>>
      PROVE  wire' \in Seq(Messages) /\ PromptsUnderWay'
  BY <1>2, <1>7
<1> QED
  BY <1>1, <1>3, <1>4, <1>5, <1>6, <1>7
\* A turn that nobody has started yet is given a number.
LEMMA FreshTurnType ==
    ASSUME NEW t \in FreshTurns
    PROVE  t \in TurnIds /\ gwTurns[t].state = "none"
BY DEF FreshTurns

\* A turn is started or changes its state: what is under way stays right if
\* the turn has no prompt under way, or keeps where it was typed.
LEMMA TurnMoves ==
    ASSUME TuiInv, NEW t \in TurnIds, NEW r \in TurnRecords,
           gwTurns' = [gwTurns EXCEPT ![t] = r], UNCHANGED wire,
           r.state # "none", r.state \in {"running", "cleared"} => r.session # 0,
           gwTurns[t].state = "none" \/ r.typedIn = gwTurns[t].typedIn,
           r.session # 0 => r.session = r.typedIn
    PROVE  /\ gwTurns' \in [TurnIds -> TurnRecords]
           /\ \A u \in TurnIds : gwTurns'[u].state \in {"running", "cleared"} => gwTurns'[u].session # 0
           /\ PromptsUnderWay' /\ PromptRunsWhereTyped'
BY DEF TuiInv, TuiTypeOK, PromptsUnderWay, PromptRunsWhereTyped

\* Steps of the client.
LEMMA TuiClientStep ==
    ASSUME TuiInv,
           \/ ClientStep \/ LoseSocket \/ SendHealthCheck \/ PressCtrlC
           \/ \E cmd \in {"new", "switch", "cancel", "cancelall", "list"} : SlashCommand(cmd)
    PROVE  TuiInv'
<1> USE DEF gatewayTurns, queues
<1>0. /\ TuiTypeOK /\ HelloFirst /\ ui.session \in SessionOrNone /\ ui.active \in Nat
  BY DEF TuiInv, TuiTypeOK
<1>1. CASE TryReconnect
  <2> DEFINE f == Msg("hello", ui.session, 0)
  <2>1. f \in Messages /\ f.kind = "hello" /\ wire' = <<f>> /\ Head(wire') = f
    BY <1>0, <1>1, MsgType DEF TryReconnect, Kinds
  <2>2. wire' \in Seq(Messages) /\ PromptsUnderWay' /\ PromptRunsWhereTyped'
    BY <1>1, <2>1, WireMoves DEF TryReconnect
  <2>3. TuiTypeOK' /\ HelloFirst'
    BY <1>0, <1>1, <2>1, <2>2 DEF TryReconnect, TuiTypeOK, HelloFirst, SessionOrNone
  <2> QED
    BY <2>2, <2>3 DEF TuiInv
<1>2. CASE ReconnectFails
  <2>1. wire' \in Seq(Messages) /\ PromptsUnderWay' /\ PromptRunsWhereTyped'
    BY <1>2, WireMoves DEF ReconnectFails
  <2>2. TuiTypeOK' /\ HelloFirst'
    BY <1>0, <1>2, <2>1 DEF ReconnectFails, TuiTypeOK, HelloFirst, SessionOrNone
  <2> QED
    BY <2>1, <2>2 DEF TuiInv
<1>3. CASE ReadBeforeAck \/ ReadGatewayFrame
  <2>1. /\ inbox \in Seq(Messages) /\ inbox # <<>> /\ ApplyFrame(Head(inbox))
        /\ inbox' = Tail(inbox) /\ UNCHANGED <<socket, wire, events, attached, gwTurns, gwActive>>
        /\ link' = link \/ (link = "hello" /\ link' = "connected")
    BY <1>0, <1>3 DEF ReadBeforeAck, ReadGatewayFrame, TuiTypeOK
  <2>2. inbox' \in Seq(Messages) /\ ui' \in [session : SessionOrNone, active : Nat]
    BY <1>0, <2>1, TailEntries, ApplyType
  <2>3. wire' \in Seq(Messages) /\ PromptsUnderWay' /\ PromptRunsWhereTyped'
    BY <2>1, WireMoves
  <2>4. attached = 0 => link # "hello"
    BY <1>0, <2>1 DEF HelloFirst
  <2>5. HelloFirst'
    BY <1>0, <2>1, <2>4 DEF HelloFirst
  <2>6. TuiTypeOK'
    BY <1>0, <2>1, <2>2 DEF TuiTypeOK
  <2> QED
    BY <2>3, <2>5, <2>6 DEF TuiInv
<1>4. CASE NoticeLoss
  <2>1. wire' \in Seq(Messages) /\ PromptsUnderWay' /\ PromptRunsWhereTyped'
    BY <1>4, WireMoves DEF NoticeLoss
  <2>2. TuiTypeOK' /\ HelloFirst'
    BY <1>0, <1>4, <2>1 DEF NoticeLoss, TuiTypeOK, HelloFirst
  <2> QED
    BY <2>1, <2>2 DEF TuiInv
<1>5. CASE LoseSocket
  <2>1. wire' \in Seq(Messages) /\ PromptsUnderWay' /\ PromptRunsWhereTyped'
    BY <1>5, WireMoves DEF LoseSocket
  <2>2. TuiTypeOK' /\ HelloFirst'
    BY <1>0, <1>5, <2>1 DEF LoseSocket, TuiTypeOK, HelloFirst, SessionOrNone
  <2> QED
    BY <2>1, <2>2 DEF TuiInv
<1>6. ASSUME NEW f \in Messages, f.kind # "turn", ForwardOutgoing(f) \/ UNCHANGED wire,
             UNCHANGED <<ui, events, inbox, attached, gwTurns, gwActive>>,
             (link' = link /\ socket' = socket)
               \/ (link' = "quit" /\ socket' = FALSE /\ UNCHANGED wire)
      PROVE  TuiInv'
  <2>1. wire' = wire \/ (wire' = Append(wire, f) /\ link = "connected" /\ socket)
    BY <1>6 DEF ForwardOutgoing
  <2>2. wire' \in Seq(Messages) /\ PromptsUnderWay' /\ PromptRunsWhereTyped'
    BY <1>6, <2>1, WireMoves
  <2>3. TuiTypeOK'
    BY <1>0, <1>6, <2>2 DEF TuiTypeOK
  <2>4. HelloFirst'
    BY <1>0, <1>6, <2>1 DEF HelloFirst
  <2> QED
    BY <2>2, <2>3, <2>4 DEF TuiInv
<1>7. CASE SendHealthCheck
  <2>1. Msg("check", 0, 0) \in Messages /\ Msg("check", 0, 0).kind = "check"
    BY MsgType DEF Kinds, SessionOrNone
  <2> QED
    BY <1>6, <1>7, <2>1 DEF SendHealthCheck, ForwardOutgoing
<1>8. CASE PressCtrlC
  <2> DEFINE f == Msg("cancel", ui.session, ui.active)
  <2>1. f \in Messages /\ f.kind = "cancel"
    BY <1>0, MsgType DEF Kinds
  <2> HIDE DEF f
  <2>2. ForwardOutgoing(f) \/ UNCHANGED wire
    BY <1>8 DEF PressCtrlC, f
  <2> QED
    BY <1>6, <1>8, <2>1, <2>2 DEF PressCtrlC
<1>9. ASSUME NEW cmd \in {"new", "switch", "cancel", "cancelall", "list"}, SlashCommand(cmd)
      PROVE  TuiInv'
  <2> DEFINE f == Msg(cmd, ui.session, ui.active)
  <2>1. f \in Messages /\ f.kind # "turn"
    BY <1>0, MsgType DEF Kinds
  <2> HIDE DEF f
  <2>2. ForwardOutgoing(f) \/ UNCHANGED wire
    BY <1>9 DEF SlashCommand, f
  <2> QED
    BY <1>6, <1>9, <2>1, <2>2 DEF SlashCommand
<1> QED
  BY <1>1, <1>2, <1>3, <1>4, <1>5, <1>7, <1>8, <1>9 DEF ClientStep
\* Steps of the gateway's end of the connection.
LEMMA TuiGatewayStep ==
    ASSUME TuiInv, GatewayStep
    PROVE  TuiInv'
<1> USE DEF gatewayTurns
<1>0. /\ TuiTypeOK /\ HelloFirst /\ TurnIds \subseteq Nat /\ 0 \in SessionOrNone
      /\ wire \in Seq(Messages) /\ inbox \in Seq(Messages) /\ events \in Seq(Messages)
      /\ \A s \in TuiSessionIds : s \in SessionOrNone /\ s # 0 /\ gwActive[s] \in Nat
  <2>1. /\ TuiTypeOK /\ HelloFirst /\ wire \in Seq(Messages) /\ inbox \in Seq(Messages)
        /\ events \in Seq(Messages) /\ \A s \in TuiSessionIds : gwActive[s] \in {0} \cup TurnIds
    BY DEF TuiInv, TuiTypeOK
  <2>2. {0} \cup TurnIds \subseteq Nat
    BY TurnIdsType
  <2>3. /\ TurnIds \subseteq Nat /\ 0 \in SessionOrNone
        /\ \A s \in TuiSessionIds : s \in SessionOrNone /\ s # 0
    BY TurnIdsType DEF SessionOrNone
  <2> QED
    BY <2>1, <2>2, <2>3
<1>1. ASSUME wire # <<>>, wire' = Tail(wire), UNCHANGED gwTurns
      PROVE  wire' \in Seq(Messages) /\ PromptsUnderWay' /\ PromptRunsWhereTyped'
  BY <1>1, WireMoves
<1>2. ASSUME wire # <<>> PROVE Head(wire) \in Messages
  BY <1>0, <1>2, TailEntries
<1>3. ASSUME wire # <<>>, Head(wire).kind # "hello"
      PROVE  attached \in TuiSessionIds /\ attached \in SessionOrNone /\ gwActive[attached] \in Nat
  BY <1>0, <1>3 DEF TuiTypeOK, HelloFirst, SessionOrNone
<1>4. ASSUME NEW k \in Kinds, NEW s \in SessionOrNone, NEW t \in Nat, Reply(Msg(k, s, t))
      PROVE  inbox' \in Seq(Messages)
  BY <1>0, <1>4, MsgType DEF Reply
<1>5. CASE GatewayHello
  <2> DEFINE s == IF Head(wire).session = 0 THEN 1 ELSE Head(wire).session
  <2>1. wire # <<>> /\ Head(wire) \in Messages
    BY <1>2, <1>5 DEF GatewayHello
  <2>2. s \in TuiSessionIds /\ s # 0
    BY <2>1 DEF Messages, SessionOrNone, TuiSessionIds
  <2>3. attached' = s /\ inbox' = <<Msg("ack", s, gwActive[s])>> \o LastOutcome(s)
    BY <1>5 DEF GatewayHello
  <2> HIDE DEF s
  <2>4. inbox' \in Seq(Messages)
    <3>1. Msg("ack", s, gwActive[s]) \in Messages /\ Msg("ended", s, 0) \in Messages
      BY <1>0, <2>2, MsgType DEF Kinds
    <3>2. LastOutcome(s) \in Seq(Messages)
      BY <3>1 DEF LastOutcome
    <3> QED
      BY <2>3, <3>1, <3>2
  <2>5. wire' \in Seq(Messages) /\ PromptsUnderWay' /\ PromptRunsWhereTyped'
    BY <1>1, <1>5 DEF GatewayHello
  <2>6. TuiTypeOK'
    BY <1>0, <1>5, <2>2, <2>3, <2>4, <2>5 DEF GatewayHello, TuiTypeOK
  <2>7. HelloFirst'
    BY <1>0, <1>5, <2>2, <2>3 DEF GatewayHello, HelloFirst
  <2> QED
    BY <2>5, <2>6, <2>7 DEF TuiInv
<1>6. CASE ForwardEvent
  <2>1. /\ events # <<>> /\ inbox' = Append(inbox, Head(events)) /\ events' = Tail(events)
        /\ UNCHANGED <<ui, link, socket, wire, attached, gwTurns, gwActive>>
    BY <1>6 DEF ForwardEvent, Reply
  <2>2. inbox' \in Seq(Messages) /\ events' \in Seq(Messages)
    BY <1>0, <2>1, TailEntries
  <2>3. wire' \in Seq(Messages) /\ PromptsUnderWay' /\ PromptRunsWhereTyped'
    BY <2>1, WireMoves
  <2>4. TuiTypeOK'
    BY <1>0, <2>1, <2>2 DEF TuiTypeOK
  <2>5. HelloFirst'
    BY <1>0, <2>1 DEF HelloFirst
  <2> QED
    BY <2>3, <2>4, <2>5 DEF TuiInv
<1>7. ASSUME wire # <<>>, Head(wire).kind # "hello", wire' = Tail(wire),
             inbox' \in Seq(Messages), events' \in Seq(Messages), attached' \in TuiSessionIds,
             UNCHANGED <<ui, link, socket, gwTurns, gwActive>>
      PROVE  TuiInv'
  <2>1. wire' \in Seq(Messages) /\ PromptsUnderWay' /\ PromptRunsWhereTyped'
    BY <1>1, <1>7
  <2>2. TuiTypeOK'
    BY <1>0, <1>7, <2>1 DEF TuiTypeOK
  <2>3. HelloFirst'
    BY <1>0, <1>7 DEF HelloFirst
  <2> QED
    BY <2>1, <2>2, <2>3 DEF TuiInv
<1>8. CASE GatewayTurn
  <2> DEFINE f == Head(wire)
  <2>1. /\ wire # <<>> /\ f.kind = "turn" /\ f \in Messages /\ wire' = Tail(wire)
        /\ UNCHANGED <<ui, link, socket, attached>>
    BY <1>2, <1>8 DEF GatewayTurn
  <2>2. /\ attached \in TuiSessionIds /\ attached \in SessionOrNone /\ attached # 0
        /\ gwActive[attached] \in Nat /\ "error" \in Kinds
    BY <1>0, <1>3, <2>1 DEF Kinds
  <2>3. CASE ~TurnMatches(f) \/ gwActive[attached] # 0
    <3>1. /\ Reply(Msg("error", attached, 0)) \/ Reply(Msg("error", attached, gwActive[attached]))
          /\ UNCHANGED <<events, gwTurns, gwActive>>
      BY <1>8, <2>3 DEF GatewayTurn
    <3>2. inbox' \in Seq(Messages)
      BY <1>4, <2>2, <3>1
    <3> QED
      BY <1>0, <1>7, <2>1, <2>2, <3>1, <3>2
  <2>4. CASE TurnMatches(f) /\ gwActive[attached] = 0
    <3>1. /\ Started(f.turn, attached) /\ UNCHANGED inbox
          /\ events' = Append(events, Msg("started", attached, f.turn))
      BY <1>8, <2>4 DEF GatewayTurn
    <3>2. /\ f.turn \in TurnIds /\ gwTurns[f.turn].state # "none"
          /\ gwTurns[f.turn].typedIn = attached
      <4>1. 1 \in 1..Len(wire) /\ wire[1] = f
        BY <1>0, <2>1, TailEntries
      <4> QED
        BY <2>1, <2>4, <4>1 DEF TuiInv, PromptsUnderWay, TurnMatches
    <3> DEFINE t == f.turn
               r == [gwTurns[t] EXCEPT !.state = "running", !.session = attached]
    <3>3. gwTurns[t] \in TurnRecords
      BY <1>0, <3>2 DEF TuiTypeOK
    <3>4. /\ r \in TurnRecords /\ r.state = "running" /\ r.session = attached
          /\ r.typedIn = gwTurns[t].typedIn
      BY <2>2, <3>3 DEF TurnRecords
    <3>5. gwTurns' = [gwTurns EXCEPT ![t] = r] /\ gwActive' = [gwActive EXCEPT ![attached] = t]
      BY <1>0, <3>1, <3>2 DEF Started, TuiTypeOK
    <3> HIDE DEF f, t, r
    <3>6. /\ gwTurns' \in [TurnIds -> TurnRecords]
          /\ \A u \in TurnIds : gwTurns'[u].state \in {"running", "cleared"} => gwTurns'[u].session # 0
          /\ PromptRunsWhereTyped'
          /\ \A u \in TurnIds : /\ gwTurns[u].state # "none" => gwTurns'[u].state # "none"
                                /\ gwTurns'[u].typedIn = gwTurns[u].typedIn
      BY <1>0, <2>2, <3>2, <3>4, <3>5 DEF TuiInv, TuiTypeOK, PromptRunsWhereTyped, t
    <3>7. wire' \in Seq(Messages) /\ PromptsUnderWay'
      <4>1. /\ wire' \in Seq(Messages)
            /\ \A i \in 1..Len(wire') : i + 1 \in 1..Len(wire) /\ wire'[i] = wire[i + 1]
        BY <1>0, <2>1, TailEntries
      <4> QED
        BY <3>6, <4>1 DEF TuiInv, PromptsUnderWay
    <3>8. events' \in Seq(Messages)
      <4>1. Msg("started", attached, t) \in Messages
        BY <1>0, <2>2, <3>2, MsgType DEF Kinds, t
      <4> QED
        BY <1>0, <3>1, <4>1 DEF t
    <3>9. gwActive' \in [TuiSessionIds -> {0} \cup TurnIds]
      BY <1>0, <3>2, <3>5 DEF TuiTypeOK, t
    <3>10. TuiTypeOK'
      BY <1>0, <2>1, <3>1, <3>6, <3>7, <3>8, <3>9 DEF TuiTypeOK
    <3>11. HelloFirst'
      BY <1>0, <2>1, <2>2 DEF HelloFirst
    <3> QED
      BY <3>6, <3>7, <3>10, <3>11 DEF TuiInv
  <2> QED
    BY <2>3, <2>4
<1>9. CASE GatewayCommand
  <2> DEFINE f == Head(wire)
  <2>1. /\ wire # <<>> /\ wire' = Tail(wire) /\ f.kind # "hello"
        /\ UNCHANGED <<ui, link, socket, gwTurns, gwActive>>
    BY <1>9 DEF GatewayCommand
  <2>2. attached \in TuiSessionIds /\ attached \in SessionOrNone /\ gwActive[attached] \in Nat
    BY <1>3, <2>1
  <2>3. \A k \in {"created", "switched", "error", "health", "list"} : k \in Kinds
    BY DEF Kinds
  <2>4. CASE (f.kind \in {"new", "switch"} /\ attached' # attached) \/ events' # events
    <3>1. PICK s \in TuiSessionIds :
             /\ attached' = s /\ events' = <<>>
             /\ Reply(IF f.kind = "new" THEN Msg("created", s, 0) ELSE Msg("switched", s, gwActive[s]))
      BY <1>9, <2>4 DEF GatewayCommand
    <3>2. attached' \in TuiSessionIds /\ events' \in Seq(Messages)
      BY <3>1
    <3>3. inbox' \in Seq(Messages)
      BY <1>0, <1>4, <2>3, <3>1
    <3> QED
      BY <1>7, <2>1, <3>2, <3>3
  <2>5. CASE UNCHANGED <<attached, events>>
    <3>1. \/ UNCHANGED inbox
          \/ Reply(Msg("error", attached, 0)) \/ Reply(Msg("health", attached, gwActive[attached]))
          \/ Reply(Msg("list", 0, 0))
          \/ \E s \in TuiSessionIds : Reply(Msg("created", s, 0)) \/ Reply(Msg("switched", s, gwActive[s]))
      BY <1>9 DEF GatewayCommand
    <3>2. inbox' \in Seq(Messages)
      BY <1>0, <1>4, <2>2, <2>3, <3>1
    <3> QED
      BY <1>0, <1>7, <2>1, <2>2, <2>5, <3>2
  <2>6. (f.kind \in {"new", "switch"} /\ attached' # attached) \/ events' # events \/ UNCHANGED <<attached, events>>
    BY <1>9 DEF GatewayCommand
  <2> QED
    BY <2>4, <2>5, <2>6
<1> QED
  BY <1>5, <1>6, <1>8, <1>9 DEF GatewayStep

\* Steps of turns: the terminal's prompt is sent, another client starts a
\* turn, a turn ends.
LEMMA TuiTurnStep ==
    ASSUME TuiInv, NEW t \in TurnIds,
           SubmitPrompt(t) \/ TurnStep(t) \/ \E s \in TuiSessionIds : OtherClientTurn(t, s)
    PROVE  TuiInv'
<1>0. /\ TuiTypeOK /\ HelloFirst /\ t \in Nat /\ 0 \in SessionOrNone
      /\ wire \in Seq(Messages) /\ events \in Seq(Messages) /\ gwTurns[t] \in TurnRecords
      /\ \A s \in TuiSessionIds : s \in SessionOrNone /\ s # 0
  BY TurnIdsType DEF TuiInv, TuiTypeOK, SessionOrNone
<1>1. ASSUME NEW s \in TuiSessionIds, NEW k \in Kinds, events' = Published(s, Msg(k, s, t))
      PROVE  events' \in Seq(Messages) /\ (attached = 0 => events' = events)
  BY <1>0, <1>1, MsgType DEF Published
<1>2. CASE SubmitPrompt(t)
  <2> DEFINE r == [state |-> "sent", session |-> 0, typedIn |-> ui.session]
             f == Msg("turn", ui.session, t)
  <2>1. /\ link = "connected" /\ ui.session # 0 /\ gwTurns[t].state = "none"
        /\ ForwardOutgoing(f) /\ gwTurns' = [gwTurns EXCEPT ![t] = r]
        /\ UNCHANGED <<ui, link, socket, events, inbox, attached, gwActive>>
    BY <1>2, FreshTurnType DEF SubmitPrompt
  <2>2. ui.session \in SessionOrNone /\ r \in TurnRecords /\ r.typedIn = ui.session
        /\ r.state = "sent" /\ r.session = 0
    BY <1>0 DEF TuiTypeOK, TurnRecords
  <2>3. f \in Messages /\ f.kind = "turn" /\ f.session = ui.session /\ f.turn = t
    BY <1>0, <2>2, MsgType DEF Kinds
  <2> HIDE DEF r, f
  <2>4. /\ gwTurns' \in [TurnIds -> TurnRecords] /\ gwTurns'[t] = r
        /\ \A u \in TurnIds : u # t => gwTurns'[u] = gwTurns[u]
    BY <1>0, <2>1, <2>2 DEF TuiTypeOK
  <2>5. /\ \A u \in TurnIds : gwTurns'[u].state \in {"running", "cleared"} => gwTurns'[u].session # 0
        /\ PromptRunsWhereTyped'
    BY <1>0, <2>2, <2>4 DEF TuiInv, TuiTypeOK, PromptRunsWhereTyped
  <2>6. ASSUME NEW m \in Messages, m.kind = "turn",
               \/ m = f
               \/ /\ m.turn \in TurnIds /\ m.session # 0
                  /\ gwTurns[m.turn].state # "none" /\ gwTurns[m.turn].typedIn = m.session
        PROVE  /\ m.turn \in TurnIds /\ m.session # 0
               /\ gwTurns'[m.turn].state # "none" /\ gwTurns'[m.turn].typedIn = m.session
    BY <2>1, <2>2, <2>3, <2>4, <2>6
  <2>7. CASE wire' = wire
    <3>1. PromptsUnderWay'
      BY <1>0, <2>6, <2>7 DEF TuiInv, PromptsUnderWay
    <3>2. TuiTypeOK'
      BY <1>0, <2>1, <2>4, <2>5, <2>7 DEF TuiTypeOK
    <3>3. HelloFirst'
      BY <1>0, <2>1, <2>7 DEF HelloFirst
    <3> QED
      BY <2>5, <3>1, <3>2, <3>3 DEF TuiInv
  <2>8. CASE wire' = Append(wire, f) /\ link = "connected" /\ socket
    <3>1. /\ wire' \in Seq(Messages) /\ Len(wire') = Len(wire) + 1 /\ wire'[Len(wire) + 1] = f
          /\ \A i \in 1..Len(wire) : wire'[i] = wire[i]
      BY <1>0, <2>3, <2>8, AppendProperties
    <3>2. \A i \in 1..Len(wire') : i \in 1..Len(wire) \/ i = Len(wire) + 1
      BY <1>0, <3>1
    <3>3. \A i \in 1..Len(wire') : wire'[i] \in Messages
      BY <3>1
    <3>4. PromptsUnderWay'
      BY <2>6, <3>1, <3>2, <3>3 DEF TuiInv, PromptsUnderWay
    <3>5. TuiTypeOK'
      BY <1>0, <2>1, <2>4, <2>5, <3>1 DEF TuiTypeOK
    <3>6. HelloFirst'
      BY <1>0, <2>1, <2>8 DEF HelloFirst
    <3> QED
      BY <2>5, <3>4, <3>5, <3>6 DEF TuiInv
  <2> QED
    BY <2>1, <2>7, <2>8 DEF ForwardOutgoing
<1>3. ASSUME NEW r \in TurnRecords, gwTurns' = [gwTurns EXCEPT ![t] = r], UNCHANGED wire,
             r.state # "none", r.state \in {"running", "cleared"} => r.session # 0,
             gwTurns[t].state = "none" \/ r.typedIn = gwTurns[t].typedIn,
             r.session # 0 => r.session = r.typedIn,
             events' \in Seq(Messages), attached = 0 => events' = events,
             gwActive' \in [TuiSessionIds -> {0} \cup TurnIds],
             UNCHANGED <<ui, link, socket, inbox, attached>>
      PROVE  TuiInv'
  <2>1. /\ gwTurns' \in [TurnIds -> TurnRecords]
        /\ \A u \in TurnIds : gwTurns'[u].state \in {"running", "cleared"} => gwTurns'[u].session # 0
        /\ PromptsUnderWay' /\ PromptRunsWhereTyped'
    BY <1>3, TurnMoves
  <2>2. TuiTypeOK'
    BY <1>0, <1>3, <2>1 DEF TuiTypeOK
  <2>3. HelloFirst'
    BY <1>0, <1>3 DEF HelloFirst
  <2> QED
    BY <2>1, <2>2, <2>3 DEF TuiInv
<1>4. ASSUME NEW s \in TuiSessionIds, OtherClientTurn(t, s) PROVE TuiInv'
  <2> DEFINE r == [state |-> "running", session |-> s, typedIn |-> s]
  <2>1. /\ gwTurns[t].state = "none" /\ gwTurns' = [gwTurns EXCEPT ![t] = r]
        /\ gwActive' = [gwActive EXCEPT ![s] = t] /\ events' = Published(s, Msg("started", s, t))
        /\ UNCHANGED <<ui, link, socket, wire, inbox, attached>>
    BY <1>4, FreshTurnType DEF OtherClientTurn
  <2>2. /\ r \in TurnRecords /\ r.state = "running" /\ r.session = s /\ r.typedIn = s
        /\ r.session # 0
    BY <1>0 DEF TurnRecords
  <2> HIDE DEF r
  <2>3. events' \in Seq(Messages) /\ (attached = 0 => events' = events)
    BY <1>1, <2>1 DEF Kinds
  <2>4. gwActive' \in [TuiSessionIds -> {0} \cup TurnIds]
    BY <1>0, <2>1 DEF TuiTypeOK
  <2> QED
    BY <1>3, <2>1, <2>2, <2>3, <2>4
<1>5. CASE TurnClears(t) \/ TurnTellsEnd(t)
  <2> DEFINE s == gwTurns[t].session
  <2>1. PICK state \in {"cleared", "over"}, k \in {"delta", "ended"} :
            /\ gwTurns' = [gwTurns EXCEPT ![t].state = state]
            /\ gwActive' = [gwActive EXCEPT ![s] = 0] \/ gwActive' = gwActive
            /\ events' = Published(s, Msg(k, s, t))
            /\ UNCHANGED <<ui, link, socket, wire, inbox, attached>>
            /\ gwTurns[t].state # "none"
    BY <1>5 DEF TurnClears, TurnTellsEnd
  <2> DEFINE r == [gwTurns[t] EXCEPT !.state = state]
  <2>2. /\ r \in TurnRecords /\ r.state = state /\ r.session = s
        /\ r.typedIn = gwTurns[t].typedIn
    BY <1>0 DEF TurnRecords
  <2>3. gwTurns' = [gwTurns EXCEPT ![t] = r]
    BY <1>0, <2>1 DEF TuiTypeOK
  <2>4. s \in SessionOrNone /\ s # 0 /\ s = gwTurns[t].typedIn
    BY <1>0, <1>5 DEF TuiInv, TuiTypeOK, PromptRunsWhereTyped, TurnRecords, TurnClears, TurnTellsEnd
  <2> HIDE DEF r, s
  <2>5. gwActive' \in [TuiSessionIds -> {0} \cup TurnIds]
    BY <1>0, <2>1 DEF TuiTypeOK
  <2>6. events' \in Seq(Messages) /\ (attached = 0 => events' = events)
    BY <1>1, <2>1, <2>4 DEF Kinds, SessionOrNone
  <2> QED
    BY <1>3, <2>1, <2>2, <2>3, <2>4, <2>5, <2>6
<1> QED
  BY <1>2, <1>4, <1>5 DEF TurnStep

\* A prompt runs in the session that was shown when it was entered, or not at
\* all: whatever /switch, reconnection and lost frames did in between.
THEOREM PromptsRunWhereTyped == TuiSpec => []PromptRunsWhereTyped
<1>1. TuiInit => TuiInv
  <2> SUFFICES ASSUME TuiInit PROVE TuiInv
    OBVIOUS
  <2> USE DEF TuiInit
  <2>1. wire \in Seq(Messages) /\ inbox \in Seq(Messages) /\ events \in Seq(Messages)
    OBVIOUS
  <2>2. /\ gwTurns \in [TurnIds -> TurnRecords]
        /\ \A t \in TurnIds : gwTurns[t].state = "none" /\ gwTurns[t].session = 0
    BY DEF TurnRecords, SessionOrNone
  <2>3. gwActive \in [TuiSessionIds -> {0} \cup TurnIds]
    OBVIOUS
  <2>4. ui \in [session : SessionOrNone, active : Nat] /\ attached \in SessionOrNone
    BY DEF SessionOrNone
  <2>5. socket \in BOOLEAN /\ link \in {"retry", "hello", "connected", "quit"}
    OBVIOUS
  <2>6. TuiTypeOK
    BY <2>1, <2>2, <2>3, <2>4, <2>5 DEF TuiTypeOK
  <2>7. PromptRunsWhereTyped
    BY <2>2 DEF PromptRunsWhereTyped
  <2>8. HelloFirst
    BY DEF HelloFirst
  <2>9. PromptsUnderWay
    BY DEF PromptsUnderWay
  <2> QED
    BY <2>6, <2>7, <2>8, <2>9 DEF TuiInv
<1>2. TuiInv /\ [TuiNext]_tuiVars => TuiInv'
  <2>1. TuiInv /\ UNCHANGED tuiVars => TuiInv'
    BY DEF tuiVars, TuiInv, TuiTypeOK, HelloFirst, PromptsUnderWay, PromptRunsWhereTyped
  <2> QED
    BY <2>1, TuiClientStep, TuiGatewayStep, TuiTurnStep DEF TuiNext
<1>3. TuiInv => PromptRunsWhereTyped
  BY DEF TuiInv
<1> QED
  BY <1>1, <1>2, <1>3, PTL DEF TuiSpec
-----------------------------------------------------------------------------
(* WebApp.                                                                  *)

Whats == {"control", "load", "logs", "save", "add", "delete", "seed", "wizard"}
Stages == {"post", "status", "get", "validate", "patch", "channels", "reload"}
Flagged == {"save", "add", "delete"}
Wizards == [step : 1..6, busy : BOOLEAN, done : BOOLEAN, user : Names,
            existing : Names, canRename : BOOLEAN]
Servers == [users : SUBSET Names, saved : SUBSET Names]
Budget == [page : Nat, wizard : Nat]

\* What is saved stays saved, and so does what depends on it.
LEMMA StepStaysSaved ==
    ASSUME onServer.saved \subseteq onServer'.saved, NEW n, StepSaved(n)
    PROVE  StepSaved(n)'
BY DEF StepSaved, StepFiles

LEMMA CallStaysSaved ==
    ASSUME onServer.saved \subseteq onServer'.saved, NEW c, WizardCallSaved(c)
    PROVE  WizardCallSaved(c)'
<1> SUFFICES ASSUME c.what = "wizard"
             PROVE  /\ c.step \in 2..6
                    /\ \A n \in 2..5 : c.step > n => StepSaved(n)'
                    /\ c.stage = "patch" => c.step < 6
                    /\ c.stage = "channels" => c.step = 5 /\ StepFiles[5] \in onServer'.saved
                    /\ c.stage = "reload" => c.step < 6 /\ StepSaved(c.step)'
  BY DEF WizardCallSaved, StepFiles
<1>1. /\ c.step \in 2..6
      /\ \A n \in 2..5 : c.step > n => StepSaved(n)
      /\ c.stage = "patch" => c.step < 6
      /\ c.stage = "channels" => c.step = 5 /\ StepFiles[5] \in onServer.saved
      /\ c.stage = "reload" => c.step < 6 /\ StepSaved(c.step)
  BY DEF WizardCallSaved
<1> QED  BY <1>1, StepStaysSaved

\* The parts of the invariant.
LEMMA PageParts ==
    ASSUME PageInv
    PROVE  /\ calls \subseteq Requests /\ clicks \in Budget /\ wizard \in Wizards /\ onServer \in Servers
           /\ \A c \in calls : c.what = "control" => c.of \in busyUsers
           /\ \A c, d \in calls : c.what = "control" /\ d.what = "control" /\ c.of = d.of => c = d
           /\ \A n \in 2..5 : wizard.step > n => StepSaved(n)
           /\ saving => \E c \in calls : c.what \in Flagged
           /\ \A u \in busyUsers : \E c \in calls : c.what = "control" /\ c.of = u
           /\ wizard.busy => \E c \in calls : c.what = "wizard"
           /\ \A c \in calls : WizardCallSaved(c)
BY DEF PageInv, WebAppTypeOK, ControlIsBusy, PageConsistent, OneControlAtATime, WizardStepsSaved,
       ButtonsComeBack, Wizards, Servers, Budget, Flagged

LEMMA PageFromParts ==
    ASSUME calls' \subseteq Requests, clicks' \in Budget, wizard' \in Wizards, onServer' \in Servers,
           \A c \in calls' : c.what = "control" => c.of \in busyUsers',
           \A c, d \in calls' : c.what = "control" /\ d.what = "control" /\ c.of = d.of => c = d,
           \A n \in 2..5 : wizard'.step > n => StepSaved(n)',
           saving' => \E c \in calls' : c.what \in Flagged,
           \A u \in busyUsers' : \E c \in calls' : c.what = "control" /\ c.of = u,
           wizard'.busy => \E c \in calls' : c.what = "wizard",
           \A c \in calls' : WizardCallSaved(c)'
    PROVE  PageInv'
<1>1. WebAppTypeOK'  BY DEF WebAppTypeOK, Wizards, Servers, Budget
<1>2. OneControlAtATime' /\ ControlIsBusy' /\ WizardStepsSaved'
  BY DEF ControlIsBusy, OneControlAtATime, WizardStepsSaved
<1>3. ButtonsComeBack'  BY DEF ButtonsComeBack, Flagged
<1> QED  BY <1>1, <1>2, <1>3 DEF PageInv, PageConsistent

\* A handler starts; it may set the flag that it clears when it ends.
LEMMA HandlerStarts ==
    ASSUME PageInv, NEW c \in Requests, calls' = calls \union {c}, onServer' = onServer,
           clicks' \in Budget, wizard' \in Wizards,
           busyUsers' = busyUsers \union (IF c.what = "control" THEN {c.of} ELSE {}),
           c.what = "control" => c.of \notin busyUsers,
           saving' => saving \/ c.what \in Flagged,
           wizard'.busy => wizard.busy \/ c.what = "wizard",
           \A n \in 2..5 : wizard'.step > n => wizard.step > n,
           WizardCallSaved(c)
    PROVE  PageInv'
<1>1. \A n \in 2..5 : wizard'.step > n => StepSaved(n)'  BY PageParts, StepStaysSaved
<1>2. \A d \in calls' : WizardCallSaved(d)'  BY PageParts, CallStaysSaved
<1>3. calls' \subseteq Requests /\ onServer' \in Servers  BY PageParts
<1>4. \A d \in calls' : d.what = "control" => d.of \in busyUsers'  BY PageParts
<1>5. \A d, e \in calls' : d.what = "control" /\ e.what = "control" /\ d.of = e.of => d = e  BY PageParts
<1>6. saving' => \E d \in calls' : d.what \in Flagged  BY PageParts
<1>7. \A u \in busyUsers' : \E d \in calls' : d.what = "control" /\ d.of = u  BY PageParts
<1>8. wizard'.busy => \E d \in calls' : d.what = "wizard"  BY PageParts
<1> QED  BY <1>1, <1>2, <1>3, <1>4, <1>5, <1>6, <1>7, <1>8, PageFromParts

\* A handler goes on to its next await.
LEMMA HandlerGoesOn ==
    ASSUME PageInv, NEW c \in calls, NEW stage \in Stages, GoesOn(c, stage),
           onServer' \in Servers, onServer.saved \subseteq onServer'.saved,
           wizard' \in Wizards, wizard'.step = wizard.step, wizard'.busy = wizard.busy,
           UNCHANGED <<clicks, saving, busyUsers>>,
           WizardCallSaved([c EXCEPT !.stage = stage])'
    PROVE  PageInv'
<1> DEFINE d == [c EXCEPT !.stage = stage]
<1>0. /\ d \in Requests /\ d.what = c.what /\ d.of = c.of
      /\ calls' = (calls \ {c}) \union {d} /\ calls \subseteq Requests
  BY PageParts DEF Requests, Stages, GoesOn
<1> HIDE DEF d
<1>1. \A n \in 2..5 : wizard'.step > n => StepSaved(n)'  BY PageParts, StepStaysSaved
<1>2. \A e \in calls' : WizardCallSaved(e)'
  <2>1. WizardCallSaved(d)'  BY DEF d
  <2> QED  BY <1>0, <2>1, PageParts, CallStaysSaved
<1>3. calls' \subseteq Requests /\ clicks' \in Budget  BY <1>0, PageParts
<1>4. \A e \in calls' : e.what = "control" => e.of \in busyUsers'  BY <1>0, PageParts
<1>5. \A e, f \in calls' : e.what = "control" /\ f.what = "control" /\ e.of = f.of => e = f  BY <1>0, PageParts
<1>6. saving' => \E e \in calls' : e.what \in Flagged  BY <1>0, PageParts
<1>7. \A u \in busyUsers' : \E e \in calls' : e.what = "control" /\ e.of = u  BY <1>0, PageParts
<1>8. wizard'.busy => \E e \in calls' : e.what = "wizard"  BY <1>0, PageParts
<1> QED  BY <1>1, <1>2, <1>3, <1>4, <1>5, <1>6, <1>7, <1>8, PageFromParts

\* A handler ends, and clears its flag.
LEMMA HandlerReturns ==
    ASSUME PageInv, NEW c \in calls, Returns(c), onServer' = onServer, clicks' = clicks,
           busyUsers' = busyUsers \ (IF c.what = "control" THEN {c.of} ELSE {}),
           saving' => saving /\ c.what \notin Flagged,
           wizard' \in Wizards, wizard'.busy => wizard.busy /\ c.what # "wizard",
           \A n \in 2..5 : wizard'.step > n => StepSaved(n)
    PROVE  PageInv'
<1>0. calls' = calls \ {c}  BY DEF Returns
<1>1. \A n \in 2..5 : wizard'.step > n => StepSaved(n)'  BY PageParts, StepStaysSaved
<1>2. \A e \in calls' : WizardCallSaved(e)'  BY <1>0, PageParts, CallStaysSaved
<1>3. calls' \subseteq Requests /\ clicks' \in Budget /\ onServer' \in Servers  BY <1>0, PageParts
<1>4. \A e \in calls' : e.what = "control" => e.of \in busyUsers'  BY <1>0, PageParts
<1>5. \A e, f \in calls' : e.what = "control" /\ f.what = "control" /\ e.of = f.of => e = f  BY <1>0, PageParts
<1>6. saving' => \E e \in calls' : e.what \in Flagged  BY <1>0, PageParts
<1>7. \A u \in busyUsers' : \E e \in calls' : e.what = "control" /\ e.of = u  BY <1>0, PageParts
<1>8. wizard'.busy => \E e \in calls' : e.what = "wizard"  BY <1>0, PageParts
<1> QED  BY <1>1, <1>2, <1>3, <1>4, <1>5, <1>6, <1>7, <1>8, PageFromParts

\* The user does something that asks the server for nothing.
LEMMA PageStays ==
    ASSUME PageInv, UNCHANGED <<calls, onServer, saving, busyUsers>>, clicks' \in Budget,
           wizard' \in Wizards, wizard'.busy => wizard.busy,
           \A n \in 2..5 : wizard'.step > n => wizard.step > n
    PROVE  PageInv'
<1>1. \A n \in 2..5 : wizard'.step > n => StepSaved(n)'  BY PageParts, StepStaysSaved
<1>2. \A e \in calls' : WizardCallSaved(e)'  BY PageParts, CallStaysSaved
<1> QED  BY <1>1, <1>2, PageParts, PageFromParts
\* A click is counted.
LEMMA ClickType ==
    ASSUME PageInv, Click \/ ClickWizard
    PROVE  clicks' \in Budget
BY PageParts DEF Click, ClickWizard, Budget

\* A handler is a request; one that belongs to no step of the wizard.
LEMMA HandlerType ==
    ASSUME PageInv, NEW what \in Whats, NEW stage \in Stages, NEW of \in Names
    PROVE  /\ Handler(what, stage, of) \in Requests
           /\ Handler(what, stage, of).what = what /\ Handler(what, stage, of).of = of
           /\ what # "wizard" => WizardCallSaved(Handler(what, stage, of))
BY PageParts DEF Handler, Requests, Whats, Stages, Budget, WizardCallSaved

LEMMA HandlerWaits ==
    ASSUME PageInv, NEW what \in Whats \ {"wizard"}, NEW stage \in Stages, NEW of \in Names,
           Waits(what, stage, of), onServer' = onServer, clicks' \in Budget, wizard' \in Wizards,
           busyUsers' = busyUsers \union (IF what = "control" THEN {of} ELSE {}),
           what = "control" => of \notin busyUsers,
           saving' => saving \/ what \in Flagged,
           wizard'.busy => wizard.busy,
           \A n \in 2..5 : wizard'.step > n => wizard.step > n
    PROVE  PageInv'
<1> DEFINE c == Handler(what, stage, of)
<1>1. c \in Requests /\ c.what = what /\ c.of = of /\ WizardCallSaved(c)  BY HandlerType, Zenon
<1>2. calls' = calls \union {c}  BY DEF Waits
<1> HIDE DEF c
<1> QED  BY <1>1, <1>2, HandlerStarts

\* What the user may click on.
LEMMA ClickStep ==
    ASSUME PageInv,
           \/ \E u \in WebUsers : ClickControl(u) \/ ClickEdit(u) \/ AskLogs(u) \/ ClickAddUser(u) \/ ClickDeleteUser(u)
                                  \/ TypeUserId(u)
           \/ \E file \in {"runner", "provider", "user"} : ClickSave(file)
           \/ CloseUserEditor \/ OpenWizard \/ PreviousStep \/ NextStep
    PROVE  PageInv'
<1>0. clicks \in Budget /\ wizard \in Wizards /\ WebUsers \subseteq Names  BY PageParts DEF Names
<1>1. ASSUME NEW u \in WebUsers, ClickControl(u)  PROVE PageInv'
  <2>1. clicks' \in Budget  BY <1>1, ClickType DEF ClickControl
  <2>2. "control" \in Whats \ {"wizard"} /\ "post" \in Stages  BY DEF Whats, Stages
  <2>3. /\ Waits("control", "post", u) /\ u \notin busyUsers /\ busyUsers' = busyUsers \union {u}
        /\ UNCHANGED <<saving, wizard, onServer>>
    BY <1>1 DEF ClickControl
  <2> QED  BY <1>0, <2>1, <2>2, <2>3, HandlerWaits
<1>2. ASSUME NEW u \in WebUsers, ClickEdit(u) \/ AskLogs(u) \/ ClickAddUser(u) \/ ClickDeleteUser(u)  PROVE PageInv'
  <2>1. clicks' \in Budget  BY <1>2, ClickType DEF ClickEdit, AskLogs, ClickAddUser, ClickDeleteUser
  <2>2. PICK what \in {"load", "logs", "add", "delete"}, stage \in {"get", "post"} :
            /\ Waits(what, stage, u) /\ (saving' => saving \/ what \in Flagged)
            /\ UNCHANGED <<busyUsers, wizard, onServer>>
    BY <1>2 DEF ClickEdit, AskLogs, ClickAddUser, ClickDeleteUser, Flagged
  <2>3. what \in Whats \ {"wizard"} /\ stage \in Stages /\ what # "control"  BY DEF Whats, Stages
  <2> QED  BY <1>0, <2>1, <2>2, <2>3, HandlerWaits
<1>3. ASSUME NEW u \in WebUsers, TypeUserId(u)  PROVE PageInv'
  <2>1. clicks' \in Budget  BY <1>3, ClickType DEF TypeUserId
  <2>2. wizard' \in Wizards /\ wizard'.step = wizard.step /\ wizard'.busy = wizard.busy
    BY <1>0, <1>3 DEF TypeUserId, Wizards
  <2> QED  BY <1>3, <2>1, <2>2, PageStays DEF TypeUserId
<1>4. ASSUME NEW file \in {"runner", "provider", "user"}, ClickSave(file)  PROVE PageInv'
  <2>1. clicks' \in Budget  BY <1>4, ClickType DEF ClickSave
  <2>2. "save" \in Whats \ {"wizard"} /\ "validate" \in Stages /\ "save" \in Flagged  BY DEF Whats, Stages, Flagged
  <2>4. file \in Names  BY <1>4 DEF Names
  <2>3. Waits("save", "validate", file) /\ UNCHANGED <<busyUsers, wizard, onServer>>  BY <1>4 DEF ClickSave
  <2> QED  BY <1>0, <2>1, <2>2, <2>3, <2>4, HandlerWaits
<1>5. ASSUME CloseUserEditor  PROVE PageInv'
  <2>1. clicks' \in Budget  BY <1>5, ClickType DEF CloseUserEditor
  <2> QED  BY <1>0, <1>5, <2>1, PageStays DEF CloseUserEditor
<1>6. ASSUME OpenWizard  PROVE PageInv'
  <2>1. clicks' \in Budget  BY <1>6, ClickType DEF OpenWizard
  <2>2. wizard' \in Wizards /\ wizard'.step = 1 /\ ~wizard'.busy
    <3>1. NoUser \in Names /\ "alice" \in Names  BY DEF Names
    <3>2. wizard' = FreshWizard  BY <1>6 DEF OpenWizard
    <3> QED  BY <3>1, <3>2 DEF FreshWizard, Wizards
  <2>3. "seed" \in Whats \ {"wizard"} /\ "get" \in Stages /\ NoUser \in Names  BY DEF Whats, Stages, Names
  <2>4. Waits("seed", "get", NoUser) /\ UNCHANGED <<saving, busyUsers, onServer>>  BY <1>6 DEF OpenWizard
  <2> QED  BY <2>1, <2>2, <2>3, <2>4, HandlerWaits
<1>7. ASSUME PreviousStep  PROVE PageInv'
  <2>1. clicks' \in Budget  BY <1>7, ClickType DEF PreviousStep
  <2>2. wizard' \in Wizards /\ wizard'.step = wizard.step - 1 /\ wizard'.busy = wizard.busy /\ wizard.step \in 1..6
    BY <1>0, <1>7 DEF PreviousStep, Wizards
  <2> QED  BY <1>7, <2>1, <2>2, PageStays DEF PreviousStep
<1>8. ASSUME NextStep  PROVE PageInv'
  <2>1. clicks' \in Budget  BY <1>8, ClickType DEF NextStep
  <2>2. CASE wizard.step = 1
    <3>1. wizard' \in Wizards /\ wizard'.step = 2 /\ wizard'.busy = wizard.busy /\ UNCHANGED calls
      BY <1>0, <1>8, <2>2 DEF NextStep, Wizards
    <3> QED  BY <1>8, <2>1, <3>1, PageStays DEF NextStep
  <2>3. CASE wizard.step # 1
    <3> DEFINE c == [id |-> clicks, what |-> "wizard", step |-> wizard.step, plan |-> RegisterPlan,
                     stage |-> "validate", of |-> wizard.user]
    <3>0. RegisterPlan \in {"skip", "rename", "create"}  BY DEF RegisterPlan
    <3>1. wizard' \in Wizards /\ wizard'.step = wizard.step /\ wizard.step \in 2..6 /\ calls' = calls \union {c}
      <4>1. wizard' = [wizard EXCEPT !.busy = TRUE] /\ calls' = calls \union {c}  BY <1>8, <2>3 DEF NextStep
      <4>2. wizard.step \in 2..6  BY <1>0, <2>3 DEF Wizards
      <4>3. wizard' \in Wizards /\ wizard'.step = wizard.step  BY <1>0, <4>1 DEF Wizards
      <4> QED  BY <4>1, <4>2, <4>3, Zenon
    <3>2. c \in Requests /\ c.what = "wizard" /\ c.stage = "validate" /\ c.step = wizard.step
      <4> DEFINE plan == RegisterPlan
      <4>1. c = [id |-> clicks, what |-> "wizard", step |-> wizard.step, plan |-> plan,
                 stage |-> "validate", of |-> wizard.user]
        OBVIOUS
      <4>2. clicks \in Budget /\ wizard.user \in Names /\ wizard.step \in 0..6
            /\ plan \in {"none", "skip", "rename", "create"}
        BY <1>0, <3>0, <3>1 DEF Wizards
      <4> HIDE DEF plan, c
      <4> QED  BY <4>1, <4>2 DEF Requests, Budget
    <3>3. UNCHANGED <<saving, busyUsers, onServer>>  BY <1>8 DEF NextStep
    <3> HIDE DEF c
    <3>4. WizardCallSaved(c)  BY <3>1, <3>2, PageParts DEF WizardCallSaved
    <3> QED  BY <2>1, <3>1, <3>2, <3>3, <3>4, HandlerStarts
  <2> QED  BY <2>2, <2>3
<1> QED  BY <1>1, <1>2, <1>3, <1>4, <1>5, <1>6, <1>7, <1>8

\* Answers that are not the wizard's.
LEMMA AnswerStep ==
    ASSUME PageInv, NEW c \in calls,
           ControlAnswered(c) \/ LoadAnswered(c) \/ LogsAnswered(c) \/ SaveAnswered(c) \/ UserAnswered(c) \/ SeedWizard(c)
    PROVE  PageInv'
<1>0. /\ clicks \in Budget /\ wizard \in Wizards /\ onServer \in Servers /\ c \in Requests
      /\ \A n \in 2..5 : wizard.step > n => StepSaved(n)
  BY PageParts
<1>1. ASSUME NEW stage \in Stages, GoesOn(c, stage), c.what # "wizard", onServer' \in Servers,
             onServer.saved \subseteq onServer'.saved, UNCHANGED <<clicks, saving, busyUsers, wizard>>
      PROVE  PageInv'
  <2>1. WizardCallSaved([c EXCEPT !.stage = stage])'  BY <1>0, <1>1 DEF WizardCallSaved, Requests
  <2> QED  BY <1>0, <1>1, <2>1, HandlerGoesOn
<1>2. ASSUME Returns(c), c.what # "wizard", UNCHANGED <<clicks, onServer, wizard>>,
             busyUsers' = busyUsers \ (IF c.what = "control" THEN {c.of} ELSE {}),
             saving' => saving /\ c.what \notin Flagged
      PROVE  PageInv'
  BY <1>0, <1>2, HandlerReturns
<1>3. ASSUME ControlAnswered(c)  PROVE PageInv'
  <2>1. CASE GoesOn(c, "status") /\ c.what = "control" /\ UNCHANGED busyUsers
    BY <1>0, <1>1, <1>3, <2>1 DEF ControlAnswered, Stages
  <2>2. CASE Returns(c) /\ c.what = "control" /\ busyUsers' = busyUsers \ {c.of}
    BY <1>2, <1>3, <2>2 DEF ControlAnswered, Flagged
  <2> QED  BY <1>3, <2>1, <2>2 DEF ControlAnswered, ControlEnds, Waiting
<1>4. ASSUME LoadAnswered(c) \/ LogsAnswered(c)  PROVE PageInv'
  BY <1>2, <1>4 DEF LoadAnswered, LogsAnswered, Waiting, Flagged
<1>5. ASSUME SaveAnswered(c)  PROVE PageInv'
  <2>0. c.what = "save" /\ UNCHANGED <<wizard, clicks, busyUsers>>  BY <1>5 DEF SaveAnswered, Waiting
  <2>1. CASE GoesOn(c, "patch") /\ UNCHANGED <<saving, onServer>>
    BY <1>0, <1>1, <2>0, <2>1 DEF Stages
  <2>2. CASE /\ GoesOn(c, "reload") /\ UNCHANGED saving
             /\ onServer' = [onServer EXCEPT !.saved = @ \union {c.of}] /\ c.stage = "patch"
    <3>0. c.of \in Names  BY <1>0 DEF Requests
    <3>1. onServer' \in Servers /\ onServer.saved \subseteq onServer'.saved  BY <1>0, <2>2, <3>0 DEF Servers
    <3> QED  BY <1>1, <2>0, <2>2, <3>1 DEF Stages
  <2>3. CASE Returns(c) /\ saving' = FALSE /\ UNCHANGED onServer
    BY <1>2, <2>0, <2>3
  <2> QED  BY <1>5, <2>1, <2>2, <2>3 DEF SaveAnswered, SaveUnchanged, Waiting
<1>6. ASSUME UserAnswered(c)  PROVE PageInv'
  <2>0. c.what \in {"add", "delete"} /\ UNCHANGED <<wizard, clicks, busyUsers>>  BY <1>6 DEF UserAnswered
  <2>1. CASE /\ GoesOn(c, "reload") /\ UNCHANGED saving
             /\ onServer' = [onServer EXCEPT !.users = IF c.what = "add" THEN @ \union {c.of} ELSE @ \ {c.of}]
    <3>1. onServer' \in Servers /\ onServer.saved \subseteq onServer'.saved  BY <1>0, <2>1 DEF Servers, Requests
    <3> QED  BY <1>1, <2>0, <2>1, <3>1 DEF Stages
  <2>2. CASE Returns(c) /\ saving' = FALSE /\ UNCHANGED onServer
    BY <1>2, <2>0, <2>2
  <2> QED  BY <1>6, <2>1, <2>2 DEF UserAnswered
<1>7. ASSUME SeedWizard(c)  PROVE PageInv'
  <2>1. wizard' \in Wizards /\ wizard'.step = wizard.step /\ wizard'.busy = wizard.busy
    <3>1. NoUser \in Names /\ onServer.users \subseteq Names  BY <1>0 DEF Names, Servers
    <3> QED  BY <1>0, <1>7, <3>1 DEF SeedWizard, Wizards
  <2>2. c.what = "seed" /\ Returns(c) /\ UNCHANGED <<saving, busyUsers, onServer, clicks>>
    BY <1>7 DEF SeedWizard, Waiting
  <2> QED  BY <1>0, <2>1, <2>2, HandlerReturns DEF Flagged
<1> QED  BY <1>3, <1>4, <1>5, <1>6, <1>7
\* The steps' files.
LEMMA StepFilesAre ==
    /\ StepFiles[3] = "user" /\ "channels" \in Names
    /\ \A n \in 1..5 : StepFiles[n] \in Names
<1>1. StepFiles[1] \in Names /\ StepFiles[2] \in Names /\ StepFiles[3] \in Names /\ StepFiles[4] \in Names
      /\ StepFiles[5] \in Names /\ StepFiles[3] = "user" /\ "channels" \in Names
  BY DEF StepFiles, Names
<1>2. \A n \in 1..5 : n = 1 \/ n = 2 \/ n = 3 \/ n = 4 \/ n = 5  OBVIOUS
<1> QED  BY <1>1, <1>2

\* A step of the wizard is carried out on the server.
LEMMA WizardSendStep ==
    ASSUME PageInv, NEW c \in calls, WizardSends(c)
    PROVE  PageInv'
<1>0. /\ c \in Requests /\ c.what = "wizard" /\ wizard \in Wizards /\ onServer \in Servers
      /\ WizardCallSaved(c) /\ UNCHANGED <<saving, busyUsers, clicks>>
  BY PageParts DEF WizardSends
<1>1. c.step \in 2..6 /\ \A n \in 2..5 : c.step > n => StepSaved(n)  BY <1>0 DEF WizardCallSaved
<1>2. ASSUME NEW stage \in Stages, GoesOn(c, stage), onServer' \in Servers, onServer.saved \subseteq onServer'.saved,
             wizard' \in Wizards, wizard'.step = wizard.step, wizard'.busy = wizard.busy,
             stage = "patch" => c.step < 6,
             stage = "channels" => c.step = 5 /\ StepFiles[5] \in onServer'.saved,
             stage = "reload" => c.step < 6 /\ StepFiles[c.step] \in onServer'.saved
                                 /\ (c.step = 5 => "channels" \in onServer'.saved)
      PROVE  PageInv'
  <2> DEFINE d == [c EXCEPT !.stage = stage]
  <2>1. d.what = "wizard" /\ d.step = c.step /\ d.stage = stage  BY <1>0 DEF Requests
  <2>2. \A n \in 2..5 : c.step > n => StepSaved(n)'  BY <1>1, <1>2, StepStaysSaved
  <2>3. stage = "reload" => StepSaved(c.step)'  BY <1>2 DEF StepSaved, StepFiles
  <2>4. StepFiles' = StepFiles  BY DEF StepFiles
  <2> HIDE DEF d
  <2>5. WizardCallSaved(d)'  BY <1>1, <1>2, <2>1, <2>2, <2>3, <2>4 DEF WizardCallSaved
  <2> QED  BY <1>0, <1>2, <2>5, HandlerGoesOn DEF d
<1>3. CASE c.step < 6 /\ GoesOn(c, "patch") /\ UNCHANGED <<onServer, wizard>>
  BY <1>0, <1>2, <1>3 DEF Stages
<1>4. CASE /\ Waiting(c, c.what, "patch") /\ GoesOn(c, IF c.step = 5 THEN "channels" ELSE "reload")
           /\ IF c.step = 3 THEN RegisterUser(c) ELSE WizardPatches(c)
  <2>0. c.step \in 2..5 /\ c.of \in Names  BY <1>0, <1>1, <1>4 DEF WizardCallSaved, Waiting, Requests
  <2>1. /\ onServer' \in Servers /\ onServer.saved \subseteq onServer'.saved /\ StepFiles[c.step] \in onServer'.saved
        /\ wizard' \in Wizards /\ wizard'.step = wizard.step /\ wizard'.busy = wizard.busy
    <3>1. CASE c.step = 3
      <4>1. /\ onServer'.saved = onServer.saved \union {"user"} /\ onServer' \in Servers
            /\ wizard' = [wizard EXCEPT !.user = c.of, !.existing = IF c.plan = "skip" THEN @ ELSE c.of,
                                        !.canRename = @ /\ c.plan # "rename"]
        <5>1. "user" \in Names  BY DEF Names
        <5> QED  BY <1>0, <1>4, <2>0, <3>1, <5>1 DEF RegisterUser, Servers
      <4> QED  BY <1>0, <2>0, <3>1, <4>1, StepFilesAre DEF Wizards
    <3>2. CASE c.step # 3
      <4>1. StepFiles[c.step] \in Names  BY <2>0, StepFilesAre
      <4>2. onServer' = [onServer EXCEPT !.saved = @ \union {StepFiles[c.step]}] /\ wizard' = wizard
        BY <1>4, <3>2 DEF WizardPatches, WizardFile
      <4> QED  BY <1>0, <4>1, <4>2 DEF Servers
    <3> QED  BY <3>1, <3>2
  <2> QED  BY <1>2, <1>4, <2>0, <2>1 DEF Stages
<1>5. CASE /\ Waiting(c, c.what, "channels") /\ GoesOn(c, "reload") /\ UNCHANGED wizard
           /\ onServer' = [onServer EXCEPT !.saved = @ \union {"channels"}]
  <2>1. c.step = 5 /\ StepFiles[5] \in onServer.saved  BY <1>0, <1>5 DEF WizardCallSaved, Waiting
  <2>2. /\ onServer' \in Servers /\ onServer.saved \subseteq onServer'.saved
        /\ "channels" \in onServer'.saved /\ StepFiles[5] \in onServer'.saved
    BY <1>0, <1>5, <2>1, StepFilesAre DEF Servers
  <2> QED  BY <1>0, <1>2, <1>5, <2>1, <2>2 DEF Stages
<1> QED  BY <1>3, <1>4, <1>5 DEF WizardSends

\* A step of the wizard ends; the page goes to the one after it, wherever the
\* wizard was in the meantime.
LEMMA WizardReturnStep ==
    ASSUME PageInv, NEW c \in calls, WizardReturns(c)
    PROVE  PageInv'
<1>0. /\ c.what = "wizard" /\ wizard \in Wizards /\ WizardCallSaved(c) /\ Returns(c)
      /\ UNCHANGED <<saving, busyUsers, onServer, clicks>> /\ \A n \in 2..5 : wizard.step > n => StepSaved(n)
  BY PageParts DEF WizardReturns
<1>1. c.step \in 2..6 /\ \A n \in 2..5 : c.step > n => StepSaved(n)  BY <1>0 DEF WizardCallSaved
<1>2. wizard' \in Wizards /\ ~wizard'.busy /\ \A n \in 2..5 : wizard'.step > n => StepSaved(n)
  <2>1. CASE c.stage = "reload" /\ wizard' = [wizard EXCEPT !.step = StepAfter(c), !.busy = FALSE]
    <3>1. c.step < 6 /\ StepSaved(c.step)  BY <1>0, <2>1 DEF WizardCallSaved
    <3>0. StepAfter(c) \in 1..6 /\ StepAfter(c) = c.step + 1  BY <1>1, <3>1 DEF StepAfter
    <3>2. wizard' \in Wizards /\ wizard'.step = c.step + 1 /\ ~wizard'.busy
      BY <1>0, <2>1, <3>0 DEF Wizards
    <3> QED  BY <1>1, <3>1, <3>2
  <2>2. CASE wizard' = [wizard EXCEPT !.done = TRUE, !.busy = FALSE] \/ wizard' = [wizard EXCEPT !.busy = FALSE]
    BY <1>0, <2>2 DEF Wizards
  <2> QED  BY <2>1, <2>2 DEF WizardReturns
<1> QED  BY <1>0, <1>2, HandlerReturns DEF Flagged

\* Every step of the page keeps the invariant.
LEMMA PageStep == PageInv /\ [WebAppNext]_webAppVars => PageInv'
<1> SUFFICES ASSUME PageInv, [WebAppNext]_webAppVars PROVE PageInv'
  OBVIOUS
<1>1. CASE \E c \in calls : RequestAnswered(c)
  BY <1>1, AnswerStep, WizardSendStep, WizardReturnStep DEF RequestAnswered
<1>2. CASE UNCHANGED webAppVars
  <2>1. clicks' \in Budget /\ wizard \in Wizards  BY <1>2, PageParts DEF webAppVars
  <2> QED  BY <1>2, <2>1, PageStays DEF webAppVars
<1> QED  BY <1>1, <1>2, ClickStep DEF WebAppNext

\* The configurator's page (app.js) never has two control commands of a user
\* under way, is at a step of the setup wizard only when the steps before it
\* are saved, and has a handler under way behind every flag that disables a
\* button: for any users, any number of clicks and any order of answers.
THEOREM PageStaysConsistent == WebAppSpec => []PageConsistent
<1>1. WebAppInit => PageInv
  <2> SUFFICES ASSUME WebAppInit PROVE PageInv
    OBVIOUS
  <2>1. calls = {} /\ ~saving /\ busyUsers = {} /\ wizard.step = 1 /\ ~wizard.busy
    BY DEF WebAppInit, FreshWizard
  <2>2. wizard \in Wizards
    <3>1. NoUser \in Names /\ "alice" \in Names  BY DEF Names
    <3> QED  BY <3>1 DEF WebAppInit, FreshWizard, Wizards
  <2>3. onServer \in Servers /\ clicks \in Budget  BY WebBounds DEF WebAppInit, Servers, Budget
  <2>4. WebAppTypeOK  BY <2>1, <2>2, <2>3 DEF WebAppTypeOK, Wizards, Servers, Budget
  <2>5. PageConsistent
    BY <2>1, <2>2 DEF PageConsistent, OneControlAtATime, WizardStepsSaved, ButtonsComeBack, Wizards
  <2> QED  BY <2>1, <2>4, <2>5 DEF PageInv, ControlIsBusy
<1>2. PageInv /\ [WebAppNext]_webAppVars => PageInv'
  BY PageStep
<1>3. PageInv => PageConsistent
  BY DEF PageInv
<1> QED
  BY <1>1, <1>2, <1>3, PTL DEF WebAppSpec

-----------------------------------------------------------------------------
(* ShellSession: the output of a command and what is read of it.            *)

\* How many bytes of stdout and of stderr the session keeps.
LEMMA ShellSizes ==
    /\ OutSize \in Nat /\ ErrSize \in Nat /\ RoomForErr \in Nat
    /\ OutSize <= OutBytes /\ OutSize <= SessionBytes /\ RoomForErr = SessionBytes - OutSize
    /\ OutSize = 0 <=> (SessionBytes = 0 \/ OutBytes = 0)
    /\ ErrSize = 0 <=> (RoomForErr = 0 \/ ErrBytes = 0)
BY ShellBounds, SMT DEF OutSize, ErrSize, RoomForErr, Least

\* A function on an initial segment is a sequence.
LEMMA SegmentIsSeq ==
    ASSUME NEW S, NEW n \in Nat, NEW f \in [1..n -> S]
    PROVE  f \in Seq(S) /\ Len(f) = n
<1>1. f \in Seq(S)
  BY SeqDef
<1> QED
  BY <1>1, LenProperties

\* The bytes of a stretch of output.
LEMMA BytesType ==
    ASSUME NEW c, NEW stream, NEW from \in Nat, NEW to \in Nat, from <= to
    PROVE  /\ Bytes(c, stream, from, to) \in Seq({c} \X {stream} \X Nat)
           /\ Len(Bytes(c, stream, from, to)) = to - from
           /\ \A i \in 1..(to - from) : Bytes(c, stream, from, to)[i] = <<c, stream, from + i>>
<1> DEFINE f == Bytes(c, stream, from, to)
<1>1. f = [i \in 1..(to - from) |-> <<c, stream, from + i>>]
  BY DEF Bytes
<1>2. \A i \in 1..(to - from) : <<c, stream, from + i>> \in {c} \X {stream} \X Nat
  OBVIOUS
<1>3. to - from \in Nat
  OBVIOUS
<1>4. f \in [1..(to - from) -> {c} \X {stream} \X Nat]
  BY <1>1, <1>2
<1>5. f \in Seq({c} \X {stream} \X Nat) /\ Len(f) = to - from
  <2> HIDE DEF f
  <2> QED
    BY <1>3, <1>4, SegmentIsSeq
<1> QED
  BY <1>1, <1>5

\* Two adjacent stretches are one, and one can be cut in two.
LEMMA BytesJoin ==
    ASSUME NEW c, NEW stream, NEW m \in Nat, NEW n \in Nat, NEW p \in Nat, m <= n, n <= p
    PROVE  Bytes(c, stream, m, n) \o Bytes(c, stream, n, p) = Bytes(c, stream, m, p)
<1> DEFINE S == {c} \X {stream} \X Nat
           a == Bytes(c, stream, m, n)
           b == Bytes(c, stream, n, p)
           d == Bytes(c, stream, m, p)
<1>1. /\ a \in Seq(S) /\ Len(a) = n - m
      /\ \A i \in 1..(n - m) : a[i] = <<c, stream, m + i>>
  BY BytesType
<1>2. /\ b \in Seq(S) /\ Len(b) = p - n
      /\ \A i \in 1..(p - n) : b[i] = <<c, stream, n + i>>
  BY BytesType
<1>3. /\ d \in Seq(S) /\ Len(d) = p - m
      /\ \A i \in 1..(p - m) : d[i] = <<c, stream, m + i>>
  <2>1. m <= p
    OBVIOUS
  <2> QED
    BY <2>1, BytesType
<1> HIDE DEF S, a, b, d
<1>4. /\ a \o b \in Seq(S) /\ Len(a \o b) = Len(a) + Len(b)
      /\ \A i \in 1..(Len(a) + Len(b)) : (a \o b)[i] = IF i <= Len(a) THEN a[i] ELSE b[i - Len(a)]
  BY <1>1, <1>2, ConcatProperties
<1>5. Len(a \o b) = Len(d)
  BY <1>1, <1>2, <1>3, <1>4
<1>6. ASSUME NEW i \in 1..Len(a \o b) PROVE (a \o b)[i] = d[i]
  <2>1. i \in 1..(p - m) /\ d[i] = <<c, stream, m + i>>
    BY <1>3, <1>5
  <2>2. CASE i <= n - m
    BY <2>1, <2>2, <1>1, <1>2, <1>4
  <2>3. CASE ~(i <= n - m)
    <3>1. i - (n - m) \in 1..(p - n) /\ n + (i - (n - m)) = m + i
      BY <2>1, <2>3
    <3>2. b[i - (n - m)] = <<c, stream, m + i>>
      BY <3>1, <1>2
    <3> QED
      BY <2>1, <2>3, <3>2, <1>1, <1>2, <1>4
  <2> QED
    BY <2>2, <2>3
<1>7. a \o b = d
  BY <1>3, <1>4, <1>5, <1>6, SeqEqual
<1> QED
  BY <1>7 DEF a, b, d

LEMMA BytesCut ==
    ASSUME NEW c, NEW stream, NEW m \in Nat, NEW n \in Nat, NEW p \in Nat, m <= n, n <= p
    PROVE  /\ SubSeq(Bytes(c, stream, m, p), 1, n - m) = Bytes(c, stream, m, n)
           /\ SubSeq(Bytes(c, stream, m, p), n - m + 1, p - m) = Bytes(c, stream, n, p)
<1> DEFINE S == {c} \X {stream} \X Nat
           a == Bytes(c, stream, m, n)
           b == Bytes(c, stream, n, p)
           d == Bytes(c, stream, m, p)
           x == SubSeq(d, 1, n - m)
           y == SubSeq(d, n - m + 1, p - m)
<1>1. /\ a \in Seq(S) /\ Len(a) = n - m
      /\ \A i \in 1..(n - m) : a[i] = <<c, stream, m + i>>
  BY BytesType
<1>2. /\ b \in Seq(S) /\ Len(b) = p - n
      /\ \A i \in 1..(p - n) : b[i] = <<c, stream, n + i>>
  BY BytesType
<1>3. /\ d \in Seq(S) /\ Len(d) = p - m
      /\ \A i \in 1..(p - m) : d[i] = <<c, stream, m + i>>
  <2>1. m <= p
    OBVIOUS
  <2> QED
    BY <2>1, BytesType
<1> HIDE DEF S, a, b, d
<1>4. \A i \in 1..(p - m) : d[i] \in S
  BY <1>3, ElementOfSeq
<1>5. x \in Seq(S) /\ Len(x) = n - m /\ \A i \in 1..(n - m) : x[i] = d[i]
  <2>1. \A i \in 1..(n - m) : d[i] \in S
    BY <1>4
  <2>2. /\ x \in Seq(S) /\ Len(x) = IF 1 <= n - m THEN (n - m) - 1 + 1 ELSE 0
        /\ \A i \in 1..((n - m) - 1 + 1) : x[i] = d[1 + i - 1]
    BY <2>1, SubSeqProperties
  <2> QED
    BY <2>2
<1>6. y \in Seq(S) /\ Len(y) = p - n /\ \A i \in 1..(p - n) : y[i] = d[(n - m) + i]
  <2>1. \A i \in (n - m + 1)..(p - m) : d[i] \in S
    BY <1>4
  <2>2. /\ y \in Seq(S)
        /\ Len(y) = IF n - m + 1 <= p - m THEN (p - m) - (n - m + 1) + 1 ELSE 0
        /\ \A i \in 1..((p - m) - (n - m + 1) + 1) : y[i] = d[(n - m + 1) + i - 1]
    BY <2>1, SubSeqProperties
  <2> HIDE DEF y
  <2>3. Len(y) = p - n
    BY <2>2
  <2>4. ASSUME NEW i \in 1..(p - n) PROVE y[i] = d[(n - m) + i]
    <3>1. i \in 1..((p - m) - (n - m + 1) + 1) /\ (n - m + 1) + i - 1 = (n - m) + i
      OBVIOUS
    <3> QED
      BY <3>1, <2>2
  <2> QED
    BY <2>2, <2>3, <2>4
<1> HIDE DEF x, y
<1>7. x = a
  <2>1. ASSUME NEW i \in 1..Len(x) PROVE x[i] = a[i]
    <3>1. i \in 1..(n - m) /\ i \in 1..(p - m)
      BY <1>5
    <3> QED
      BY <3>1, <1>1, <1>3, <1>5
  <2> QED
    BY <2>1, <1>1, <1>5, SeqEqual
<1>8. y = b
  <2>1. ASSUME NEW i \in 1..Len(y) PROVE y[i] = b[i]
    <3>1. i \in 1..(p - n) /\ (n - m) + i \in 1..(p - m) /\ m + ((n - m) + i) = n + i
      BY <1>6
    <3> QED
      BY <3>1, <1>2, <1>3, <1>6
  <2> QED
    BY <2>1, <1>2, <1>6, SeqEqual
<1> QED
  BY <1>7, <1>8 DEF x, y, a, b, d

\* Stretches of output are pieces of it.
LEMMA PieceType ==
    ASSUME NEW c \in CommandIds, NEW stream \in {"out", "err"},
           NEW from \in Nat, NEW to \in Nat, from <= to
    PROVE  /\ Piece(stream, Bytes(c, stream, from, to)) \in OutputPieces
           /\ PieceOrNone(c, stream, from, to) \in Seq(OutputPieces)
<1> DEFINE b == Bytes(c, stream, from, to)
           S == CommandIds \X {"out", "err"} \X Nat
<1>1. b \in Seq({c} \X {stream} \X Nat)
  BY BytesType
<1>2. {c} \X {stream} \X Nat \subseteq S
  OBVIOUS
<1>3. b \in Seq(S)
  <2> HIDE DEF b, S
  <2> QED
    BY <1>1, <1>2, SeqMonotonic
<1>4. Piece(stream, b) \in OutputPieces
  <2> HIDE DEF b
  <2> QED
    BY <1>3 DEF Piece, OutputPieces
<1> HIDE DEF b
<1>5. <<Piece(stream, b)>> \in Seq(OutputPieces) /\ <<>> \in Seq(OutputPieces)
  BY <1>4
<1> QED
  BY <1>4, <1>5 DEF PieceOrNone, b

\* build_output_queue gives the whole output, stdout first.
LEMMA OutputIs ==
    ASSUME NEW c \in CommandIds
    PROVE  /\ OutputOf(c) = PieceOrNone(c, "out", 0, OutSize) \o PieceOrNone(c, "err", 0, ErrSize)
           /\ OutputOf(c) \in Seq(OutputPieces)
<1> DEFINE o == PieceOrNone(c, "out", 0, OutSize)
           e == PieceOrNone(c, "err", 0, ErrSize)
           r == Piece("err", Bytes(c, "err", 0, ErrSize))
           q == PushBounded(<<>>, c, "out", OutBytes, SessionBytes)
<1>1. /\ o \in Seq(OutputPieces) /\ e \in Seq(OutputPieces)
      /\ r \in OutputPieces
  <2>1. 0 \in Nat /\ OutSize \in Nat /\ ErrSize \in Nat /\ 0 <= OutSize /\ 0 <= ErrSize
    BY ShellSizes
  <2> QED
    BY <2>1, PieceType
<1>2. q = o
  <2>1. OutSize = Least(OutBytes, SessionBytes)
    BY DEF OutSize
  <2>2. \A x : Append(<<>>, x) = <<x>>
    OBVIOUS
  <2> QED
    BY <2>1, <2>2, ShellSizes DEF PieceOrNone, PushBounded
<1>3. OutputOf(c) = IF ErrSize = 0 THEN o ELSE Append(o, r)
  BY <1>2, ShellSizes DEF OutputOf, PushBounded, ErrSize
<1>4. e = IF ErrSize = 0 THEN <<>> ELSE <<r>>
  BY DEF PieceOrNone
<1> HIDE DEF o, e, r
<1>5. OutputOf(c) = o \o e
  BY <1>1, <1>3, <1>4, AppendIsConcat, ConcatEmptySeq
<1> QED
  BY <1>1, <1>5, ConcatProperties DEF o, e

\* The first bytes of a stretch were taken, the rest of it stays.
CutAt(chunk, c, stream, m, n, p, more) ==
    /\ chunk.piece = Piece(stream, Lossy(Bytes(c, stream, m, n)))
    /\ chunk.rest = PieceOrNone(c, stream, n, p) \o more
    /\ chunk.eof = (chunk.rest = <<>>)
    /\ n = p \/ n = m + ChunkBytes

\* next_stream_chunk: a piece of the first entry, the rest of it stays.
LEMMA ChunkCut ==
    ASSUME NEW c \in CommandIds, NEW stream \in {"out", "err"},
           NEW m \in Nat, NEW p \in Nat, m < p, NEW more \in Seq(OutputPieces),
           NEW queue, queue = <<Piece(stream, Bytes(c, stream, m, p))>> \o more,
           NEW chunk, chunk = NextChunk(queue)
    PROVE  \E n \in m..p : CutAt(chunk, c, stream, m, n, p, more)
<1> DEFINE whole == Bytes(c, stream, m, p)
           cut == Least(p - m, ChunkBytes)
           n == m + cut
<1>1. /\ Piece(stream, whole) \in OutputPieces /\ Len(whole) = p - m
  <2>1. m <= p
    OBVIOUS
  <2> QED
    BY <2>1, PieceType, BytesType
<1>2. /\ n \in m..p /\ n - m = cut /\ (cut = p - m <=> n = p)
      /\ n = p \/ n = m + ChunkBytes
  <2>1. ChunkBytes \in Nat /\ p - m \in Nat
    BY ShellBounds
  <2>2. cut \in Nat /\ cut <= p - m /\ (cut = p - m \/ cut = ChunkBytes)
    BY <2>1 DEF Least
  <2> HIDE DEF cut
  <2> QED
    BY <2>2
<1>3. /\ SubSeq(whole, 1, cut) = Bytes(c, stream, m, n)
      /\ SubSeq(whole, cut + 1, Len(whole)) = Bytes(c, stream, n, p)
  <2> HIDE DEF n, cut
  <2>1. n \in Nat /\ m <= n /\ n <= p
    BY <1>2
  <2>2. /\ SubSeq(whole, 1, n - m) = Bytes(c, stream, m, n)
        /\ SubSeq(whole, n - m + 1, p - m) = Bytes(c, stream, n, p)
    BY <2>1, BytesCut
  <2> QED
    BY <1>1, <1>2, <2>2
<1>4. Piece(stream, whole).data = whole /\ Piece(stream, whole).stream = stream
  BY DEF Piece
<1>5. queue # <<>> /\ Head(queue) = Piece(stream, whole) /\ Tail(queue) = more
  <2> DEFINE x == Piece(stream, whole)
  <2>1. queue = <<x>> \o more /\ x \in OutputPieces
    BY <1>1
  <2> HIDE DEF x
  <2>2. <<x>> \in Seq(OutputPieces) /\ Len(<<x>>) = 1 /\ <<x>>[1] = x
    BY <2>1
  <2>3. /\ queue \in Seq(OutputPieces) /\ Len(queue) = 1 + Len(more)
        /\ \A i \in 1..(1 + Len(more)) : queue[i] = IF i <= 1 THEN <<x>>[i] ELSE more[i - 1]
    BY <2>1, <2>2, ConcatProperties
  <2>4. Len(more) \in Nat
    BY LenProperties
  <2>5. queue # <<>> /\ Head(queue) = x
    BY <2>2, <2>3, <2>4
  <2>6. /\ Tail(queue) \in Seq(OutputPieces) /\ Len(Tail(queue)) = Len(more)
        /\ \A i \in 1..Len(more) : Tail(queue)[i] = queue[i + 1]
    BY <2>3, <2>4, <2>5, HeadTailProperties
  <2>7. ASSUME NEW i \in 1..Len(more) PROVE Tail(queue)[i] = more[i]
    <3>1. i + 1 \in 1..(1 + Len(more)) /\ ~(i + 1 <= 1) /\ (i + 1) - 1 = i
      BY <2>4
    <3> QED
      BY <3>1, <2>3, <2>6
  <2>8. Tail(queue) = more
    BY <2>6, <2>7, SeqEqual
  <2> QED
    BY <2>5, <2>8 DEF x
<1> DEFINE rest == IF cut = Len(whole) THEN more
                   ELSE <<Piece(stream, SubSeq(whole, cut + 1, Len(whole)))>> \o more
<1>6. chunk = [piece |-> Piece(stream, Lossy(SubSeq(whole, 1, cut))), eof |-> rest = <<>>, rest |-> rest]
  BY <1>1, <1>4, <1>5 DEF NextChunk
<1>7. rest = PieceOrNone(c, stream, n, p) \o more
  <2> HIDE DEF whole, cut, n
  <2>1. <<>> \o more = more
    BY ConcatEmptySeq
  <2> QED
    BY <2>1, <1>1, <1>2, <1>3 DEF PieceOrNone
<1>8. /\ chunk.piece = Piece(stream, Lossy(Bytes(c, stream, m, n)))
      /\ chunk.rest = PieceOrNone(c, stream, n, p) \o more
      /\ chunk.eof = (chunk.rest = <<>>)
  <2>1. chunk.piece = Piece(stream, Lossy(SubSeq(whole, 1, cut))) /\ chunk.rest = rest
        /\ chunk.eof = (rest = <<>>)
    <3> HIDE DEF rest, cut, whole
    <3> QED
      BY <1>6
  <2> HIDE DEF rest, cut, whole, n
  <2> QED
    BY <2>1, <1>3, <1>7
<1>9. CutAt(chunk, c, stream, m, n, p, more)
  BY <1>2, <1>8 DEF CutAt
<1> QED
  BY <1>2, <1>9

\* Chunks end at multiples of their size.
LEMMA EdgeZero == ChunkEdge(0)
<1>1. 0 \in 0..0 /\ 0 = 0 * ChunkBytes
  BY ShellBounds
<1> QED
  BY <1>1 DEF ChunkEdge

LEMMA EdgeNext ==
    ASSUME NEW m \in Nat, ChunkEdge(m)
    PROVE  ChunkEdge(m + ChunkBytes)
<1>1. PICK k \in 0..m : m = k * ChunkBytes
  BY DEF ChunkEdge
<1>2. ChunkBytes \in Nat /\ ChunkBytes >= 1 /\ k \in Nat
  BY <1>1, ShellBounds
<1>3. (k + 1) * ChunkBytes = k * ChunkBytes + ChunkBytes
  BY <1>2
<1>4. k + 1 \in 0..(m + ChunkBytes) /\ m + ChunkBytes = (k + 1) * ChunkBytes
  BY <1>1, <1>2, <1>3
<1> QED
  BY <1>4 DEF ChunkEdge

\* Only half characters at the ends of a stretch are replaced.
LossyOf(d, c, stream, m, n) ==
    /\ d \in Seq({c} \X {stream} \X Nat) /\ Len(d) = n - m
    /\ \A i \in 1..(n - m) :
         \/ d[i] = <<c, stream, m + i>>
         \/ /\ d[i] = <<c, stream, 0>>
            /\ (m + i \in WideAt /\ m + i = n) \/ (m + i - 1 \in WideAt /\ i = 1)

LEMMA LossyIs ==
    ASSUME NEW c, NEW stream, NEW m \in Nat, NEW n \in Nat, m <= n,
           NEW d, d = Lossy(Bytes(c, stream, m, n))
    PROVE  LossyOf(d, c, stream, m, n)
<1> DEFINE b == Bytes(c, stream, m, n)
           S == {c} \X {stream} \X Nat
<1>1. /\ b \in Seq(S) /\ Len(b) = n - m
      /\ \A i \in 1..(n - m) : b[i] = <<c, stream, m + i>>
  BY BytesType
<1>2. n - m \in Nat /\ DOMAIN b = 1..(n - m)
  <2> HIDE DEF b, S
  <2> QED
    BY <1>1, LenProperties
<1>0. d = [i \in DOMAIN b |->
             IF (b[i][3] \in WideAt /\ i = Len(b)) \/ (b[i][3] - 1 \in WideAt /\ i = 1)
             THEN <<b[i][1], b[i][2], 0>> ELSE b[i]]
  BY DEF Lossy
<1> HIDE DEF b
<1>3. ASSUME NEW i \in 1..(n - m)
      PROVE  /\ d[i] \in S
             /\ \/ d[i] = <<c, stream, m + i>>
                \/ /\ d[i] = <<c, stream, 0>>
                   /\ (m + i \in WideAt /\ m + i = n) \/ (m + i - 1 \in WideAt /\ i = 1)
  <2>1. b[i] = <<c, stream, m + i>> /\ b[i][1] = c /\ b[i][2] = stream /\ b[i][3] = m + i
    BY <1>1
  <2>2. d[i] = IF (m + i \in WideAt /\ i = n - m) \/ (m + i - 1 \in WideAt /\ i = 1)
               THEN <<c, stream, 0>> ELSE <<c, stream, m + i>>
    <3>1. d[i] = IF (b[i][3] \in WideAt /\ i = Len(b)) \/ (b[i][3] - 1 \in WideAt /\ i = 1)
                 THEN <<b[i][1], b[i][2], 0>> ELSE b[i]
      BY <1>0, <1>2
    <3> QED
      BY <1>1, <2>1, <3>1
  <2>3. i = n - m => m + i = n
    OBVIOUS
  <2>4. <<c, stream, 0>> \in S /\ <<c, stream, m + i>> \in S
    OBVIOUS
  <2> HIDE DEF S
  <2> QED
    BY <2>2, <2>3, <2>4
<1>4. d = [i \in 1..(n - m) |-> d[i]]
  BY <1>0, <1>2
<1> HIDE DEF S
<1>5. d \in [1..(n - m) -> S]
  BY <1>3, <1>4
<1>6. d \in Seq(S) /\ Len(d) = n - m
  BY <1>2, <1>5, SegmentIsSeq
<1> QED
  BY <1>3, <1>6 DEF S, LossyOf

\* What reading starts with.
LEMMA ReadingStarts ==
    ASSUME NEW c \in CommandIds
    PROVE  InReading(c, NothingRead, OutputOf(c))
<1>1. \A stream, size : ReadOf(<<>>, c, stream, 0, size)
  BY DEF ReadOf
<1>2. ChunkEdge(0)
  BY EdgeZero
<1>3. ReadUpTo(c, 0, 0, NothingRead, OutputOf(c))
  BY <1>1, <1>2, OutputIs DEF ReadUpTo, NothingRead
<1>4. 0 \in 0..OutSize /\ 0 \in 0..ErrSize
  BY ShellSizes
<1> QED
  BY <1>3, <1>4 DEF InReading

\* The queue is empty when all is read, and only then.
LEMMA ReadingEnds ==
    ASSUME NEW c \in CommandIds, NEW text, NEW queue,
           NEW m \in 0..OutSize, NEW n \in 0..ErrSize, ReadUpTo(c, m, n, text, queue)
    PROVE  (queue = <<>>) <=> (m = OutSize /\ n = ErrSize)
<1> DEFINE o == PieceOrNone(c, "out", m, OutSize)
           e == PieceOrNone(c, "err", n, ErrSize)
<1>1. m \in Nat /\ n \in Nat /\ m <= OutSize /\ n <= ErrSize /\ OutSize \in Nat /\ ErrSize \in Nat
  BY ShellSizes
<1>2. o \in Seq(OutputPieces) /\ e \in Seq(OutputPieces)
  BY <1>1, PieceType
<1>3. (o = <<>> <=> m = OutSize) /\ (e = <<>> <=> n = ErrSize)
  BY DEF PieceOrNone
<1>4. queue = o \o e
  BY DEF ReadUpTo
<1> HIDE DEF o, e
<1>5. (o \o e = <<>>) <=> (o = <<>> /\ e = <<>>)
  BY <1>2, ConcatEqualIffEmpty
<1> QED
  BY <1>3, <1>4, <1>5

\* Read to the end, the text is what the command wrote.
LEMMA ReadingDone ==
    ASSUME NEW c \in CommandIds, NEW text, InReading(c, text, <<>>)
    PROVE  IsOwnOutput(text, c)
<1>1. PICK m \in 0..OutSize, n \in 0..ErrSize : ReadUpTo(c, m, n, text, <<>>)
  BY DEF InReading
<1>2. m = OutSize /\ n = ErrSize
  BY <1>1, ReadingEnds
<1> QED
  BY <1>1, <1>2 DEF ReadUpTo, IsOwnOutput

\* A chunk made text and appended to what was read of its stream.
LEMMA ReadJoin ==
    ASSUME NEW c, NEW stream, NEW size \in Nat, NEW m \in Nat, NEW n \in Nat, m < size, m <= n,
           n <= size, ChunkEdge(m), n = size \/ n = m + ChunkBytes,
           NEW text, ReadOf(text, c, stream, m, size)
    PROVE  /\ ReadOf(text \o Lossy(Bytes(c, stream, m, n)), c, stream, n, size)
           /\ n < size => ChunkEdge(n)
<1> DEFINE b == Bytes(c, stream, m, n)
           d == Lossy(b)
           S == {c} \X {stream} \X Nat
           e == text \o d
<1>1. n < size => ChunkEdge(n)
  BY EdgeNext
<1>2. /\ d \in Seq(S) /\ Len(d) = n - m
      /\ \A i \in 1..(n - m) :
           \/ d[i] = <<c, stream, m + i>>
           \/ /\ d[i] = <<c, stream, 0>>
              /\ (m + i \in WideAt /\ m + i = n) \/ (m + i - 1 \in WideAt /\ i = 1)
  <2>1. d = Lossy(Bytes(c, stream, m, n))
    OBVIOUS
  <2> HIDE DEF d
  <2>2. LossyOf(d, c, stream, m, n)
    BY <2>1, LossyIs
  <2> QED
    BY <2>2 DEF LossyOf
<1>3. text \in Seq(S) /\ Len(text) = m
  BY DEF ReadOf
<1>4. \A i \in 1..m : text[i] = <<c, stream, i>> \/ (text[i] = <<c, stream, 0>> /\ CharCut(i, size))
  BY DEF ReadOf
<1> HIDE DEF d, b, S
<1>5. /\ e \in Seq(S) /\ Len(e) = Len(text) + Len(d)
      /\ \A i \in 1..(Len(text) + Len(d)) : e[i] = IF i <= Len(text) THEN text[i] ELSE d[i - Len(text)]
  BY <1>2, <1>3, ConcatProperties
<1>6. Len(e) = n /\ \A i \in 1..n : e[i] = IF i <= m THEN text[i] ELSE d[i - m]
  <2> HIDE DEF e
  <2> QED
    BY <1>2, <1>3, <1>5
<1>7. ASSUME NEW i \in 1..n
      PROVE  e[i] = <<c, stream, i>> \/ (e[i] = <<c, stream, 0>> /\ CharCut(i, size))
  <2>1. CASE i <= m
    <3>1. i \in 1..m /\ e[i] = text[i]
      BY <1>6, <2>1
    <3> QED
      BY <1>4, <3>1
  <2>2. CASE ~(i <= m)
    <3> DEFINE k == i - m
    <3>1. k \in 1..(n - m) /\ m + k = i /\ e[i] = d[k] /\ m + k - 1 = i - 1
      BY <1>6, <2>2
    <3>2. k = 1 => i - 1 = m
      BY <2>2
    <3> HIDE DEF k
    <3>3. \/ e[i] = <<c, stream, i>>
          \/ e[i] = <<c, stream, 0>> /\ ((i \in WideAt /\ i = n) \/ (i - 1 \in WideAt /\ i - 1 = m))
      BY <1>2, <3>1, <3>2
    <3>4. i = n => i = size \/ ChunkEdge(i)
      BY <1>1
    <3> HIDE DEF e
    <3> QED
      BY <3>3, <3>4 DEF CharCut
  <2> QED
    BY <2>1, <2>2
<1> QED
  BY <1>1, <1>5, <1>6, <1>7 DEF ReadOf, d, b, S

\* A chunk of stdout, then of stderr.
LEMMA OutGoesOn ==
    ASSUME NEW c \in CommandIds, NEW text, NEW queue, NEW m \in Nat, m < OutSize,
           ReadUpTo(c, m, 0, text, queue), NEW chunk, chunk = NextChunk(queue)
    PROVE  /\ InReading(c, Collected(text, chunk.piece), chunk.rest)
           /\ chunk.eof = (chunk.rest = <<>>)
<1> DEFINE more == PieceOrNone(c, "err", 0, ErrSize)
           size == OutSize
<1>1. size \in Nat /\ ErrSize \in Nat /\ m < size
  BY ShellSizes
<1>2. /\ ReadOf(text.out, c, "out", m, size) /\ ReadOf(text.err, c, "err", 0, ErrSize)
      /\ ChunkEdge(m) /\ (0 < ErrSize => ChunkEdge(0))
      /\ queue = PieceOrNone(c, "out", m, size) \o more
  BY DEF ReadUpTo
<1>3. more \in Seq(OutputPieces)
  <2>1. 0 \in Nat /\ 0 <= ErrSize /\ "err" \in {"out", "err"}
    BY <1>1
  <2> QED
    BY <1>1, <2>1, PieceType
<1> HIDE DEF more, size
<1>4. queue = <<Piece("out", Bytes(c, "out", m, size))>> \o more
  BY <1>1, <1>2 DEF PieceOrNone
<1>5. PICK p \in m..size : CutAt(chunk, c, "out", m, p, size, more)
  <2>1. "out" \in {"out", "err"}
    OBVIOUS
  <2> QED
    BY <1>1, <1>3, <1>4, <2>1, ChunkCut
<1>6. p \in Nat /\ m <= p /\ p <= size /\ p \in 0..size /\ 0 \in Nat
  BY <1>1, <1>5
<1> DEFINE d == Lossy(Bytes(c, "out", m, p))
           read == Collected(text, chunk.piece)
<1>7. /\ ReadOf(text.out \o d, c, "out", p, size)
      /\ p < size => ChunkEdge(p)
  <2>1. p = size \/ p = m + ChunkBytes
    BY <1>5 DEF CutAt
  <2> QED
    BY <1>1, <1>2, <1>6, <2>1, ReadJoin
<1>8. ReadUpTo(c, p, 0, read, chunk.rest)
  <2> HIDE DEF d
  <2>1. chunk.piece.stream = "out" /\ chunk.piece.data = d
    BY <1>5 DEF CutAt, Piece, d
  <2>2. read.out = text.out \o d /\ read.err = text.err
    BY <2>1 DEF Collected
  <2> HIDE DEF read
  <2> QED
    BY <1>2, <1>5, <1>7, <2>2 DEF ReadUpTo, more, size, CutAt
<1>9. p \in 0..OutSize /\ 0 \in 0..ErrSize
  BY <1>1, <1>6 DEF size
<1> QED
  BY <1>5, <1>8, <1>9 DEF InReading, CutAt

LEMMA ErrGoesOn ==
    ASSUME NEW c \in CommandIds, NEW text, NEW queue, NEW n \in Nat, n < ErrSize,
           ReadUpTo(c, OutSize, n, text, queue), NEW chunk, chunk = NextChunk(queue)
    PROVE  /\ InReading(c, Collected(text, chunk.piece), chunk.rest)
           /\ chunk.eof = (chunk.rest = <<>>)
<1> DEFINE size == ErrSize
           m == OutSize
<1>1. size \in Nat /\ m \in Nat /\ n < size
  BY ShellSizes
<1>2. /\ ReadOf(text.out, c, "out", m, m) /\ ReadOf(text.err, c, "err", n, size) /\ ChunkEdge(n)
      /\ queue = PieceOrNone(c, "out", m, m) \o PieceOrNone(c, "err", n, size)
  BY DEF ReadUpTo
<1> HIDE DEF size, m
<1>3. PieceOrNone(c, "out", m, m) = <<>>
  BY DEF PieceOrNone
<1>4. \A p \in Nat : p <= size => /\ PieceOrNone(c, "err", p, size) \o <<>> = PieceOrNone(c, "err", p, size)
                                  /\ <<>> \o PieceOrNone(c, "err", p, size) = PieceOrNone(c, "err", p, size)
  <2>1. SUFFICES ASSUME NEW p \in Nat, p <= size
                 PROVE  /\ PieceOrNone(c, "err", p, size) \o <<>> = PieceOrNone(c, "err", p, size)
                        /\ <<>> \o PieceOrNone(c, "err", p, size) = PieceOrNone(c, "err", p, size)
    OBVIOUS
  <2>2. "err" \in {"out", "err"}
    OBVIOUS
  <2>3. PieceOrNone(c, "err", p, size) \in Seq(OutputPieces)
    BY <1>1, <2>1, <2>2, PieceType
  <2> QED
    BY <2>3, ConcatEmptySeq
<1>5. queue = <<Piece("err", Bytes(c, "err", n, size))>> \o <<>>
  <2>1. n <= size /\ n # size
    BY <1>1
  <2>2. PieceOrNone(c, "err", n, size) = <<Piece("err", Bytes(c, "err", n, size))>>
    BY <2>1 DEF PieceOrNone
  <2> QED
    BY <1>2, <1>3, <1>4, <2>1, <2>2
<1>6. PICK p \in n..size : CutAt(chunk, c, "err", n, p, size, <<>>)
  <2>1. "err" \in {"out", "err"} /\ <<>> \in Seq(OutputPieces)
    OBVIOUS
  <2> QED
    BY <1>1, <1>5, <2>1, ChunkCut
<1>7. p \in Nat /\ n <= p /\ p <= size /\ p \in 0..size /\ m \in 0..m
  BY <1>1, <1>6
<1> DEFINE d == Lossy(Bytes(c, "err", n, p))
           read == Collected(text, chunk.piece)
<1>8. /\ ReadOf(text.err \o d, c, "err", p, size)
      /\ p < size => ChunkEdge(p)
  <2>1. p = size \/ p = n + ChunkBytes
    BY <1>6 DEF CutAt
  <2> QED
    BY <1>1, <1>2, <1>7, <2>1, ReadJoin
<1>9. chunk.rest = PieceOrNone(c, "out", m, m) \o PieceOrNone(c, "err", p, size)
  BY <1>3, <1>4, <1>6, <1>7 DEF CutAt
<1>10. ReadUpTo(c, m, p, read, chunk.rest)
  <2> HIDE DEF d
  <2>1. ~(m < m)
    BY <1>1
  <2>2. chunk.piece.stream = "err" /\ chunk.piece.data = d
    BY <1>6 DEF CutAt, Piece, d
  <2>3. read.out = text.out /\ read.err = text.err \o d
    BY <2>2 DEF Collected
  <2> HIDE DEF read
  <2> QED
    BY <2>1, <2>3, <1>2, <1>8, <1>9 DEF ReadUpTo, m, size
<1> QED
  BY <1>6, <1>7, <1>10 DEF InReading, m, size, CutAt

\* A chunk taken from the queue goes on where reading was.
LEMMA ReadingGoesOn ==
    ASSUME NEW c \in CommandIds, NEW text, NEW queue, InReading(c, text, queue),
           NEW chunk, chunk = NextChunk(queue)
    PROVE  /\ InReading(c, Collected(text, chunk.piece), chunk.rest)
           /\ chunk.eof = (chunk.rest = <<>>)
<1>1. PICK m \in 0..OutSize, n \in 0..ErrSize : ReadUpTo(c, m, n, text, queue)
  BY DEF InReading
<1>2. m \in Nat /\ n \in Nat /\ m <= OutSize /\ n <= ErrSize /\ OutSize \in Nat /\ ErrSize \in Nat
  BY ShellSizes
<1>3. CASE m < OutSize
  <2>1. n = 0
    BY <1>1, <1>3 DEF ReadUpTo
  <2> QED
    BY <1>1, <1>2, <1>3, <2>1, OutGoesOn
<1>4. CASE m = OutSize /\ n < ErrSize
  BY <1>1, <1>2, <1>4, ErrGoesOn
<1>5. CASE m = OutSize /\ n = ErrSize
  <2>1. queue = <<>>
    BY <1>1, <1>5, ReadingEnds
  <2>2. chunk = [piece |-> Piece("out", <<>>), eof |-> TRUE, rest |-> <<>>]
    BY <2>1 DEF NextChunk
  <2> DEFINE read == Collected(text, chunk.piece)
  <2>3. ReadOf(text.out, c, "out", m, OutSize) /\ ReadOf(text.err, c, "err", n, ErrSize)
    BY <1>1 DEF ReadUpTo
  <2>4. text.out \o <<>> = text.out
    BY <2>3, ConcatEmptySeq DEF ReadOf
  <2>5. read.out = text.out /\ read.err = text.err
    <3>1. chunk.piece.stream = "out" /\ chunk.piece.data = <<>>
      BY <2>2 DEF Piece
    <3>2. read = [out |-> text.out \o <<>>, err |-> text.err]
      BY <3>1 DEF Collected
    <3> QED
      BY <2>4, <3>2
  <2>6. chunk.rest = queue /\ chunk.eof = (chunk.rest = <<>>)
    <3>1. chunk.rest = <<>> /\ chunk.eof = TRUE
      BY <2>2
    <3>2. (chunk.rest = <<>>) = TRUE
      BY <3>1
    <3> QED
      BY <2>1, <3>1, <3>2, Zenon
  <2> HIDE DEF read
  <2>7. ReadUpTo(c, m, n, read, chunk.rest)
    BY <1>1, <2>5, <2>6 DEF ReadUpTo
  <2> QED
    BY <2>6, <2>7 DEF InReading, read
<1> QED
  BY <1>2, <1>3, <1>4, <1>5

\* Chunks are made of pieces.
LEMMA ChunkType ==
    ASSUME NEW queue \in Seq(OutputPieces)
    PROVE  NextChunk(queue) \in Chunks
<1> DEFINE S == CommandIds \X {"out", "err"} \X Nat
<1>1. Piece("out", <<>>) \in OutputPieces
  BY DEF Piece, OutputPieces
<1>2. CASE queue = <<>>
  BY <1>1, <1>2 DEF NextChunk, Chunks
<1>3. CASE queue # <<>>
  <2>1. Head(queue) \in OutputPieces /\ Tail(queue) \in Seq(OutputPieces)
    BY <1>3, HeadTailProperties
  <2> DEFINE stream == Head(queue).stream
             whole == Head(queue).data
             cut == Least(Len(whole), ChunkBytes)
  <2>2. stream \in {"out", "err"} /\ whole \in Seq(S)
    BY <2>1 DEF OutputPieces
  <2>3. Len(whole) \in Nat /\ \A i \in 1..Len(whole) : whole[i] \in S
    <3> HIDE DEF S, whole
    <3> QED
      BY <2>2, LenProperties, ElementOfSeq
  <2>4. cut \in Nat /\ cut <= Len(whole)
    <3> HIDE DEF whole
    <3>1. ChunkBytes \in Nat
      BY ShellBounds
    <3> QED
      BY <2>3, <3>1 DEF Least
  <2>5. SubSeq(whole, 1, cut) \in Seq(S) /\ SubSeq(whole, cut + 1, Len(whole)) \in Seq(S)
    <3> HIDE DEF S, whole, cut
    <3>1. /\ \A i \in 1..cut : whole[i] \in S
          /\ \A i \in (cut + 1)..Len(whole) : whole[i] \in S
          /\ cut \in Int /\ cut + 1 \in Int /\ 1 \in Int /\ Len(whole) \in Int
      BY <2>3, <2>4
    <3> QED
      BY <3>1, SubSeqProperties
  <2> DEFINE read == SubSeq(whole, 1, cut)
  <2>10. Lossy(read) \in Seq(S)
    <3>1. read \in Seq(S)
      BY <2>5
    <3> HIDE DEF read
    <3>2. Len(read) \in Nat /\ DOMAIN read = 1..Len(read) /\ \A i \in 1..Len(read) : read[i] \in S
      BY <3>1, LenProperties, ElementOfSeq
    <3>3. \A x \in S : <<x[1], x[2], 0>> \in S
      OBVIOUS
    <3> HIDE DEF S
    <3>4. \A i \in 1..Len(read) : Lossy(read)[i] \in S
      BY <3>2, <3>3 DEF Lossy
    <3>5. Lossy(read) \in [1..Len(read) -> S]
      BY <3>2, <3>4 DEF Lossy
    <3> QED
      BY <3>2, <3>5, SegmentIsSeq
  <2> HIDE DEF read
  <2>6. /\ Piece(stream, Lossy(read)) \in OutputPieces
        /\ Piece(stream, SubSeq(whole, cut + 1, Len(whole))) \in OutputPieces
    <3> HIDE DEF stream, whole, cut
    <3> QED
      BY <2>2, <2>5, <2>10 DEF OutputPieces, Piece
  <2> DEFINE rest == IF cut = Len(whole) THEN Tail(queue)
                     ELSE <<Piece(stream, SubSeq(whole, cut + 1, Len(whole)))>> \o Tail(queue)
  <2>7. rest \in Seq(OutputPieces)
    <3> DEFINE x == Piece(stream, SubSeq(whole, cut + 1, Len(whole)))
    <3>1. x \in OutputPieces
      BY <2>6
    <3> HIDE DEF x
    <3>2. <<x>> \in Seq(OutputPieces)
      BY <3>1
    <3>3. <<x>> \o Tail(queue) \in Seq(OutputPieces)
      BY <3>2, <2>1, ConcatProperties
    <3> QED
      BY <3>3, <2>1 DEF x
  <2>8. NextChunk(queue) =
          [piece |-> Piece(stream, Lossy(read)), eof |-> rest = <<>>, rest |-> rest]
    BY <1>3 DEF NextChunk, read
  <2> HIDE DEF rest, stream, whole, cut
  <2>9. (rest = <<>>) \in BOOLEAN
    OBVIOUS
  <2> QED
    BY <2>6, <2>7, <2>8, <2>9 DEF Chunks
<1> QED
  BY <1>2, <1>3

-----------------------------------------------------------------------------
(* ShellSession: what a connection owes.                                    *)

\* The lengths that make up what is owed.
LEMMA SocketLengths ==
    ASSUME NEW s \in ShellSockets
    PROVE  /\ s.answers \in Seq(ShellAnswers) /\ s.requests \in Seq(ShellRequests)
           /\ Len(s.answers) \in Nat /\ Len(s.requests) \in Nat
           /\ (s.answers = <<>> <=> Len(s.answers) = 0) /\ (s.requests = <<>> <=> Len(s.requests) = 0)
           /\ Busy(s) \in Nat /\ Busy(s) <= 1 /\ (Busy(s) = 0 <=> s.busy = 0)
           /\ Owed(s) = Len(s.answers) + Busy(s) + Len(s.requests)
<1>1. s.answers \in Seq(ShellAnswers) /\ s.requests \in Seq(ShellRequests)
  BY DEF ShellSockets
<1>2. /\ Len(s.answers) \in Nat /\ Len(s.requests) \in Nat
      /\ (s.answers = <<>> <=> Len(s.answers) = 0) /\ (s.requests = <<>> <=> Len(s.requests) = 0)
  BY <1>1, EmptySeq, LenProperties
<1>3. Busy(s) \in Nat /\ Busy(s) <= 1 /\ (Busy(s) = 0 <=> s.busy = 0)
  BY DEF Busy
<1>4. Owed(s) = Len(s.answers) + Busy(s) + Len(s.requests)
  BY DEF Owed
<1> QED
  BY <1>1, <1>2, <1>3, <1>4

\* A connection that owes nothing, or one answer.
LEMMA OwesNothing ==
    ASSUME NEW s \in ShellSockets
    PROVE  Owed(s) = 0 <=> (s.answers = <<>> /\ s.busy = 0 /\ s.requests = <<>>)
BY SocketLengths

LEMMA OwesOne ==
    ASSUME NEW s \in ShellSockets, Owed(s) = 1
    PROVE  /\ s.answers # <<>> =>
                /\ Len(s.answers) = 1 /\ s.busy = 0 /\ s.requests = <<>>
                /\ OwedKind(s, 1) = AnswersTo(s.answers[1].kind)
           /\ s.busy # 0 => s.answers = <<>> /\ s.requests = <<>> /\ OwedKind(s, 1) = "exec"
           /\ s.requests # <<>> =>
                /\ s.answers = <<>> /\ s.busy = 0 /\ Len(s.requests) = 1
                /\ OwedKind(s, 1) = s.requests[1].kind
<1> DEFINE a == Len(s.answers)
           b == Busy(s)
           q == Len(s.requests)
<1>1. /\ a \in Nat /\ b \in Nat /\ q \in Nat /\ b <= 1 /\ (b = 0 <=> s.busy = 0)
      /\ (a = 0 <=> s.answers = <<>>) /\ (q = 0 <=> s.requests = <<>>) /\ a + b + q = 1
  BY SocketLengths
<1>2. OwedKind(s, 1) = IF 1 <= a THEN AnswersTo(s.answers[1].kind)
                       ELSE IF 1 = a + b THEN "exec" ELSE s.requests[1 - a - b].kind
  BY DEF OwedKind
<1> HIDE DEF a, b, q
<1>3. CASE s.answers # <<>>
  <2>1. a = 1 /\ b = 0 /\ q = 0 /\ 1 <= a
    BY <1>1, <1>3
  <2> QED
    BY <1>1, <1>2, <1>3, <2>1 DEF a
<1>4. CASE s.busy # 0
  <2>1. a = 0 /\ b = 1 /\ q = 0 /\ ~(1 <= a) /\ 1 = a + b
    BY <1>1, <1>4
  <2> QED
    BY <1>1, <1>2, <1>4, <2>1
<1>5. CASE s.requests # <<>>
  <2>1. a = 0 /\ b = 0 /\ q = 1 /\ ~(1 <= a) /\ 1 # a + b /\ 1 - a - b = 1
    BY <1>1, <1>5
  <2> QED
    BY <1>1, <1>2, <1>5, <2>1 DEF q
<1> QED
  BY <1>3, <1>4, <1>5

\* The same is owed in the same order.
SameOwed(s, t) == Owed(t) = Owed(s) /\ \A i \in 1..Owed(s) : OwedKind(t, i) = OwedKind(s, i)

\* The daemon answers a request at once.
LEMMA AnsweringKeeps ==
    ASSUME NEW s \in ShellSockets, NEW t \in ShellSockets, NEW ans \in ShellAnswers,
           s.busy = 0, s.requests # <<>>, AnswersTo(ans.kind) = s.requests[1].kind,
           t.answers = Append(s.answers, ans), t.busy = 0, t.requests = Tail(s.requests)
    PROVE  SameOwed(s, t)
<1> DEFINE a == Len(s.answers)
           b == Busy(s)
           q == Len(s.requests)
           a2 == Len(t.answers)
           b2 == Busy(t)
           q2 == Len(t.requests)
<1>1. /\ a \in Nat /\ b \in Nat /\ q \in Nat /\ b <= 1 /\ (b = 0 <=> s.busy = 0)
      /\ (a = 0 <=> s.answers = <<>>) /\ (q = 0 <=> s.requests = <<>>) /\ Owed(s) = a + b + q
  BY SocketLengths
<1>2. /\ a2 \in Nat /\ b2 \in Nat /\ q2 \in Nat /\ b2 <= 1 /\ (b2 = 0 <=> t.busy = 0)
      /\ Owed(t) = a2 + b2 + q2
  BY SocketLengths
<1>3. \A i : OwedKind(s, i) = IF i <= a THEN AnswersTo(s.answers[i].kind)
                             ELSE IF i = a + b THEN "exec" ELSE s.requests[i - a - b].kind
  BY DEF OwedKind
<1>4. \A i : OwedKind(t, i) = IF i <= a2 THEN AnswersTo(t.answers[i].kind)
                             ELSE IF i = a2 + b2 THEN "exec" ELSE t.requests[i - a2 - b2].kind
  BY DEF OwedKind
<1>5. a2 = a + 1 /\ t.answers[a + 1] = ans /\ \A i \in 1..a : t.answers[i] = s.answers[i]
  BY SocketLengths, AppendProperties
<1>6. q2 = q - 1 /\ \A i \in 1..q2 : t.requests[i] = s.requests[i + 1]
  BY SocketLengths, HeadTailProperties
<1> HIDE DEF a, b, q, a2, b2, q2
<1>7. b = 0 /\ b2 = 0 /\ q > 0
  BY <1>1, <1>2
<1>8. Owed(t) = Owed(s)
  BY <1>1, <1>2, <1>5, <1>6, <1>7
<1>9. ASSUME NEW i \in 1..Owed(s) PROVE OwedKind(t, i) = OwedKind(s, i)
  <2>1. i \in Int /\ i >= 1 /\ i <= a + q
    BY <1>1, <1>7
  <2>2. CASE i <= a
    <3>1. i \in 1..a /\ i <= a2
      BY <1>1, <1>5, <2>1, <2>2
    <3>2. t.answers[i] = s.answers[i]
      BY <1>5, <3>1
    <3> QED
      BY <1>3, <1>4, <2>2, <3>1, <3>2
  <2>3. CASE i = a + 1
    <3>1. OwedKind(t, i) = AnswersTo(ans.kind)
      <4>1. i <= a2
        BY <1>1, <1>5, <2>3
      <4>2. t.answers[i] = ans
        BY <1>5, <2>3, Zenon
      <4> QED
        BY <1>4, <4>1, <4>2
    <3>2. ~(i <= a) /\ i # a + b /\ i - a - b = 1
      BY <1>1, <1>7, <2>3
    <3> QED
      BY <1>3, <3>1, <3>2
  <2>4. CASE i > a + 1
    <3>1. /\ i - a2 - b2 \in 1..q2 /\ (i - a2 - b2) + 1 = i - a - b
          /\ ~(i <= a) /\ ~(i <= a2) /\ i # a + b /\ i # a2 + b2
      BY <1>1, <1>2, <1>5, <1>6, <1>7, <2>1, <2>4
    <3>2. t.requests[i - a2 - b2] = s.requests[i - a - b]
      BY <1>6, <3>1
    <3> QED
      BY <1>3, <1>4, <3>1, <3>2
  <2> QED
    BY <1>1, <2>1, <2>2, <2>3, <2>4
<1> QED
  BY <1>8, <1>9 DEF SameOwed

\* A command is started.
LEMMA StartingKeeps ==
    ASSUME NEW s \in ShellSockets, NEW t \in ShellSockets,
           s.busy = 0, s.requests # <<>>, s.requests[1].kind = "exec",
           t.answers = s.answers, t.busy # 0, t.requests = Tail(s.requests)
    PROVE  SameOwed(s, t)
<1> DEFINE a == Len(s.answers)
           b == Busy(s)
           q == Len(s.requests)
           a2 == Len(t.answers)
           b2 == Busy(t)
           q2 == Len(t.requests)
<1>1. /\ a \in Nat /\ b \in Nat /\ q \in Nat /\ b <= 1 /\ (b = 0 <=> s.busy = 0)
      /\ (a = 0 <=> s.answers = <<>>) /\ (q = 0 <=> s.requests = <<>>) /\ Owed(s) = a + b + q
  BY SocketLengths
<1>2. /\ a2 \in Nat /\ b2 \in Nat /\ q2 \in Nat /\ b2 <= 1 /\ (b2 = 0 <=> t.busy = 0)
      /\ Owed(t) = a2 + b2 + q2
  BY SocketLengths
<1>3. \A i : OwedKind(s, i) = IF i <= a THEN AnswersTo(s.answers[i].kind)
                             ELSE IF i = a + b THEN "exec" ELSE s.requests[i - a - b].kind
  BY DEF OwedKind
<1>4. \A i : OwedKind(t, i) = IF i <= a2 THEN AnswersTo(t.answers[i].kind)
                             ELSE IF i = a2 + b2 THEN "exec" ELSE t.requests[i - a2 - b2].kind
  BY DEF OwedKind
<1>5. a2 = a
  OBVIOUS
<1>6. q2 = q - 1 /\ \A i \in 1..q2 : t.requests[i] = s.requests[i + 1]
  BY SocketLengths, HeadTailProperties
<1> HIDE DEF a, b, q, a2, b2, q2
<1>7. b = 0 /\ b2 = 1 /\ q > 0
  BY <1>1, <1>2
<1>8. Owed(t) = Owed(s)
  BY <1>1, <1>2, <1>5, <1>6, <1>7
<1>9. ASSUME NEW i \in 1..Owed(s) PROVE OwedKind(t, i) = OwedKind(s, i)
  <2>1. i \in Int /\ i >= 1 /\ i <= a + q
    BY <1>1, <1>7
  <2>2. CASE i <= a
    BY <1>1, <1>3, <1>4, <1>5, <2>1, <2>2
  <2>3. CASE i = a + 1
    <3>1. /\ ~(i <= a) /\ i # a + b /\ i - a - b = 1 /\ ~(i <= a2) /\ i = a2 + b2
      BY <1>1, <1>5, <1>7, <2>3
    <3> QED
      BY <1>3, <1>4, <3>1
  <2>4. CASE i > a + 1
    <3>1. /\ i - a2 - b2 \in 1..q2 /\ (i - a2 - b2) + 1 = i - a - b
          /\ ~(i <= a) /\ ~(i <= a2) /\ i # a + b /\ i # a2 + b2
      BY <1>1, <1>2, <1>5, <1>6, <1>7, <2>1, <2>4
    <3>2. t.requests[i - a2 - b2] = s.requests[i - a - b]
      BY <1>6, <3>1
    <3> QED
      BY <1>3, <1>4, <3>1, <3>2
  <2> QED
    BY <1>1, <2>1, <2>2, <2>3, <2>4
<1> QED
  BY <1>8, <1>9 DEF SameOwed

\* A command ends.
LEMMA EndingKeeps ==
    ASSUME NEW s \in ShellSockets, NEW t \in ShellSockets, NEW ans \in ShellAnswers,
           s.busy # 0, AnswersTo(ans.kind) = "exec",
           t.answers = Append(s.answers, ans), t.busy = 0, t.requests = s.requests
    PROVE  SameOwed(s, t)
<1> DEFINE a == Len(s.answers)
           b == Busy(s)
           q == Len(s.requests)
           a2 == Len(t.answers)
           b2 == Busy(t)
           q2 == Len(t.requests)
<1>1. /\ a \in Nat /\ b \in Nat /\ q \in Nat /\ b <= 1 /\ (b = 0 <=> s.busy = 0)
      /\ (a = 0 <=> s.answers = <<>>) /\ (q = 0 <=> s.requests = <<>>) /\ Owed(s) = a + b + q
  BY SocketLengths
<1>2. /\ a2 \in Nat /\ b2 \in Nat /\ q2 \in Nat /\ b2 <= 1 /\ (b2 = 0 <=> t.busy = 0)
      /\ Owed(t) = a2 + b2 + q2
  BY SocketLengths
<1>3. \A i : OwedKind(s, i) = IF i <= a THEN AnswersTo(s.answers[i].kind)
                             ELSE IF i = a + b THEN "exec" ELSE s.requests[i - a - b].kind
  BY DEF OwedKind
<1>4. \A i : OwedKind(t, i) = IF i <= a2 THEN AnswersTo(t.answers[i].kind)
                             ELSE IF i = a2 + b2 THEN "exec" ELSE t.requests[i - a2 - b2].kind
  BY DEF OwedKind
<1>5. a2 = a + 1 /\ t.answers[a + 1] = ans /\ \A i \in 1..a : t.answers[i] = s.answers[i]
  BY SocketLengths, AppendProperties
<1>6. q2 = q
  OBVIOUS
<1> HIDE DEF a, b, q, a2, b2, q2
<1>7. b = 1 /\ b2 = 0
  BY <1>1, <1>2
<1>8. Owed(t) = Owed(s)
  BY <1>1, <1>2, <1>5, <1>6, <1>7
<1>9. ASSUME NEW i \in 1..Owed(s) PROVE OwedKind(t, i) = OwedKind(s, i)
  <2>1. i \in Int /\ i >= 1 /\ i <= a + 1 + q
    BY <1>1, <1>7
  <2>2. CASE i <= a
    <3>1. i \in 1..a /\ i <= a2
      BY <1>1, <1>5, <2>1, <2>2
    <3>2. t.answers[i] = s.answers[i]
      BY <1>5, <3>1
    <3> QED
      BY <1>3, <1>4, <2>2, <3>1, <3>2
  <2>3. CASE i = a + 1
    <3>1. OwedKind(t, i) = AnswersTo(ans.kind)
      <4>1. i <= a2
        BY <1>1, <1>5, <2>3
      <4>2. t.answers[i] = ans
        BY <1>5, <2>3, Zenon
      <4> QED
        BY <1>4, <4>1, <4>2
    <3>2. ~(i <= a) /\ i = a + b
      BY <1>1, <1>7, <2>3
    <3> QED
      BY <1>3, <3>1, <3>2
  <2>4. CASE i > a + 1
    <3>1. /\ i - a2 - b2 = i - a - b
          /\ ~(i <= a) /\ ~(i <= a2) /\ i # a + b /\ i # a2 + b2
      BY <1>1, <1>2, <1>5, <1>7, <2>1, <2>4
    <3> QED
      BY <1>3, <1>4, <3>1
  <2> QED
    BY <1>1, <2>1, <2>2, <2>3, <2>4
<1> QED
  BY <1>8, <1>9 DEF SameOwed

\* A request is sent.
LEMMA SendingOwes ==
    ASSUME NEW s \in ShellSockets, NEW t \in ShellSockets, NEW r \in ShellRequests,
           t.answers = s.answers, t.busy = s.busy, t.requests = Append(s.requests, r)
    PROVE  /\ Owed(t) = Owed(s) + 1 /\ OwedKind(t, Owed(s) + 1) = r.kind
           /\ \A i \in 1..Owed(s) : OwedKind(t, i) = OwedKind(s, i)
<1> DEFINE a == Len(s.answers)
           b == Busy(s)
           q == Len(s.requests)
           a2 == Len(t.answers)
           b2 == Busy(t)
           q2 == Len(t.requests)
<1>1. /\ a \in Nat /\ b \in Nat /\ q \in Nat /\ b <= 1 /\ (b = 0 <=> s.busy = 0)
      /\ (a = 0 <=> s.answers = <<>>) /\ (q = 0 <=> s.requests = <<>>) /\ Owed(s) = a + b + q
  BY SocketLengths
<1>2. /\ a2 \in Nat /\ b2 \in Nat /\ q2 \in Nat /\ b2 <= 1 /\ (b2 = 0 <=> t.busy = 0)
      /\ Owed(t) = a2 + b2 + q2
  BY SocketLengths
<1>3. \A i : OwedKind(s, i) = IF i <= a THEN AnswersTo(s.answers[i].kind)
                             ELSE IF i = a + b THEN "exec" ELSE s.requests[i - a - b].kind
  BY DEF OwedKind
<1>4. \A i : OwedKind(t, i) = IF i <= a2 THEN AnswersTo(t.answers[i].kind)
                             ELSE IF i = a2 + b2 THEN "exec" ELSE t.requests[i - a2 - b2].kind
  BY DEF OwedKind
<1>5. a2 = a /\ b2 = b
  BY DEF Busy
<1>6. q2 = q + 1 /\ t.requests[q + 1] = r /\ \A i \in 1..q : t.requests[i] = s.requests[i]
  BY SocketLengths, AppendProperties
<1> HIDE DEF a, b, q, a2, b2, q2
<1>7. Owed(t) = Owed(s) + 1
  BY <1>1, <1>2, <1>5, <1>6
<1>8. OwedKind(t, Owed(s) + 1) = r.kind
  <2> DEFINE j == Owed(s) + 1
  <2>1. ~(j <= a2) /\ j # a2 + b2 /\ j - a2 - b2 = q + 1
    BY <1>1, <1>5
  <2> HIDE DEF j
  <2>2. t.requests[j - a2 - b2] = r
    BY <1>6, <2>1, Zenon
  <2>3. OwedKind(t, j) = t.requests[j - a2 - b2].kind
    BY <1>4, <2>1, Zenon
  <2> QED
    BY <2>2, <2>3, Zenon DEF j
<1>9. ASSUME NEW i \in 1..Owed(s) PROVE OwedKind(t, i) = OwedKind(s, i)
  <2>1. i \in Int /\ i >= 1 /\ i <= a + b + q
    BY <1>1
  <2>2. CASE i <= a \/ i = a + b
    BY <1>3, <1>4, <1>5, <2>2
  <2>3. CASE ~(i <= a \/ i = a + b)
    <3>1. i - a - b \in 1..q
      BY <1>1, <2>1, <2>3
    <3>2. t.requests[i - a - b] = s.requests[i - a - b]
      BY <1>6, <3>1
    <3> QED
      BY <1>3, <1>4, <1>5, <2>3, <3>2
  <2> QED
    BY <2>2, <2>3
<1> QED
  BY <1>7, <1>8, <1>9

\* An answer is read.
LEMMA ReceivingOwes ==
    ASSUME NEW s \in ShellSockets, NEW t \in ShellSockets, s.answers # <<>>,
           t.answers = Tail(s.answers), t.busy = s.busy, t.requests = s.requests
    PROVE  /\ Owed(s) = Owed(t) + 1 /\ OwedKind(s, 1) = AnswersTo(s.answers[1].kind)
           /\ \A i \in 1..Owed(t) : OwedKind(t, i) = OwedKind(s, i + 1)
<1> DEFINE a == Len(s.answers)
           b == Busy(s)
           q == Len(s.requests)
           a2 == Len(t.answers)
           b2 == Busy(t)
           q2 == Len(t.requests)
<1>1. /\ a \in Nat /\ b \in Nat /\ q \in Nat /\ b <= 1 /\ (b = 0 <=> s.busy = 0)
      /\ (a = 0 <=> s.answers = <<>>) /\ (q = 0 <=> s.requests = <<>>) /\ Owed(s) = a + b + q
  BY SocketLengths
<1>2. /\ a2 \in Nat /\ b2 \in Nat /\ q2 \in Nat /\ b2 <= 1 /\ (b2 = 0 <=> t.busy = 0)
      /\ Owed(t) = a2 + b2 + q2
  BY SocketLengths
<1>3. \A i : OwedKind(s, i) = IF i <= a THEN AnswersTo(s.answers[i].kind)
                             ELSE IF i = a + b THEN "exec" ELSE s.requests[i - a - b].kind
  BY DEF OwedKind
<1>4. \A i : OwedKind(t, i) = IF i <= a2 THEN AnswersTo(t.answers[i].kind)
                             ELSE IF i = a2 + b2 THEN "exec" ELSE t.requests[i - a2 - b2].kind
  BY DEF OwedKind
<1>5. q2 = q /\ b2 = b
  BY DEF Busy
<1>6. a2 = a - 1 /\ \A i \in 1..a2 : t.answers[i] = s.answers[i + 1]
  BY SocketLengths, HeadTailProperties
<1> HIDE DEF a, b, q, a2, b2, q2
<1>7. Owed(s) = Owed(t) + 1
  BY <1>1, <1>2, <1>5, <1>6
<1>8. OwedKind(s, 1) = AnswersTo(s.answers[1].kind)
  <2>1. 1 <= a
    BY <1>1
  <2> QED
    BY <1>3, <2>1
<1>9. ASSUME NEW i \in 1..Owed(t) PROVE OwedKind(t, i) = OwedKind(s, i + 1)
  <2>1. i \in Int /\ i >= 1
    BY <1>2
  <2>2. CASE i <= a2
    <3>1. i \in 1..a2 /\ i + 1 <= a
      BY <1>1, <1>6, <2>1, <2>2
    <3>2. OwedKind(t, i) = AnswersTo(t.answers[i].kind) /\ OwedKind(s, i + 1) = AnswersTo(s.answers[i + 1].kind)
      BY <1>3, <1>4, <2>2, <3>1
    <3> QED
      BY <1>6, <3>1, <3>2
  <2>3. CASE ~(i <= a2)
    <3>1. /\ ~(i <= a2) /\ ~(i + 1 <= a) /\ (i = a2 + b2 <=> i + 1 = a + b)
          /\ i - a2 - b2 = (i + 1) - a - b
      BY <1>1, <1>2, <1>5, <1>6, <2>1, <2>3
    <3> QED
      BY <1>3, <1>4, <3>1
  <2> QED
    BY <2>2, <2>3
<1> QED
  BY <1>7, <1>8, <1>9

\* What the daemon does on a connection that is one call behind, or being set
\* up, changes nothing the client can tell.
LEMMA BehindKept ==
    ASSUME NEW s, NEW t, NEW sh, SameOwed(s, t), OneBehind(s, sh)
    PROVE  OneBehind(t, sh)
<1>1. 1 \in 1..2 /\ 2 \in 1..2 /\ 1 \in 1..1
  OBVIOUS
<1>2. CASE sh.at = "exec"
  BY <1>1, <1>2 DEF OneBehind, SameOwed
<1>3. CASE sh.at = "stream"
  BY <1>1, <1>3 DEF OneBehind, SameOwed
<1>4. CASE sh.at \notin {"exec", "stream"}
  BY <1>4 DEF OneBehind, SameOwed
<1> QED
  BY <1>2, <1>3, <1>4

LEMMA SetUpKept ==
    ASSUME NEW s, NEW t, NEW sh, SameOwed(s, t), SetUp(s, sh), t.lost = s.lost
    PROVE  SetUp(t, sh)
<1>1. 1 \in 1..1
  OBVIOUS
<1> QED
  BY <1>1 DEF SetUp, SameOwed

\* What InStep says at each place.
LEMMA InStepCases ==
    ASSUME NEW s, NEW queue, NEW sh, NEW text
    PROVE  /\ sh.at = "exec" =>
                (InStep(s, queue, sh, text) <=>
                   /\ Owed(s) = 1 /\ OwedKind(s, 1) = "exec"
                   /\ s.busy # 0 => s.busy = sh.call
                   /\ s.requests # <<>> => s.requests[1].call = sh.call
                   /\ (s.answers # <<>> /\ s.answers[1].kind = "ack") => queue = OutputOf(sh.call))
           /\ sh.at = "stream" =>
                (InStep(s, queue, sh, text) <=>
                   /\ Owed(s) = 1 /\ OwedKind(s, 1) = "stream"
                   /\ s.answers = <<>> => InReading(sh.call, text, queue)
                   /\ s.answers # <<>> =>
                        /\ InReading(sh.call, Collected(text, s.answers[1].chunk.piece), queue)
                        /\ s.answers[1].chunk.eof = (queue = <<>>))
           /\ sh.at \notin {"exec", "stream"} => (InStep(s, queue, sh, text) <=> Owed(s) = 0)
<1>1. CASE sh.at = "exec"
  BY <1>1, Zenon DEF InStep
<1>2. CASE sh.at = "stream"
  BY <1>2, Zenon DEF InStep
<1>3. CASE sh.at \notin {"exec", "stream"}
  BY <1>3, Zenon DEF InStep
<1> QED
  BY <1>1, <1>2, <1>3

\* The same for the client's connection.
LEMMA ClientKept ==
    ASSUME NEW s, NEW t, NEW queue, NEW rest, NEW sh, NEW text,
           ClientSound(s, queue, sh, text), SameOwed(s, t), t.open, t.lost = s.lost,
           InStep(s, queue, sh, text) => InStep(t, rest, sh, text)
    PROVE  ClientSound(t, rest, sh, text)
<1>1. OneBehind(s, sh) => OneBehind(t, sh)
  BY BehindKept
<1> QED
  BY <1>1 DEF ClientSound

\* A connection in step has no session to set up.
LEMMA InStepSpawns ==
    ASSUME NEW s \in ShellSockets, NEW queue, NEW sh, NEW text,
           s.busy = 0, s.requests # <<>>, s.requests[1].kind = "spawn"
    PROVE  ~InStep(s, queue, sh, text)
<1>1. Owed(s) # 0
  BY OwesNothing
<1>2. Owed(s) = 1 => OwedKind(s, 1) = "spawn"
  BY OwesOne
<1>3. CASE sh.at = "exec"
  BY <1>2, <1>3, InStepCases
<1>4. CASE sh.at = "stream"
  BY <1>2, <1>4, InStepCases
<1>5. CASE sh.at \notin {"exec", "stream"}
  BY <1>1, <1>5, InStepCases
<1> QED
  BY <1>3, <1>4, <1>5

\* One that is asked for output gives the next chunk of the call that waits.
LEMMA InStepStreams ==
    ASSUME NEW s \in ShellSockets, NEW t \in ShellSockets, NEW queue, NEW sh, NEW text,
           sh.at = "stream" => sh.call \in CommandIds, InStep(s, queue, sh, text), SameOwed(s, t),
           s.busy = 0, s.requests # <<>>, s.requests[1].kind = "stream",
           NEW chunk, chunk = NextChunk(queue), NEW ans \in ShellAnswers, ans.chunk = chunk,
           t.answers = Append(s.answers, ans)
    PROVE  InStep(t, chunk.rest, sh, text)
<1>1. Owed(s) # 0
  BY OwesNothing
<1>2. Owed(s) = 1 => OwedKind(s, 1) = "stream" /\ s.answers = <<>>
  BY OwesOne
<1>3. sh.at = "stream"
  <2>1. CASE sh.at = "exec"
    BY <1>2, <2>1, InStepCases
  <2>2. CASE sh.at \notin {"exec", "stream"}
    BY <1>1, <2>2, InStepCases
  <2> QED
    BY <2>1, <2>2
<1>4. Owed(s) = 1 /\ OwedKind(s, 1) = "stream" /\ (s.answers = <<>> => InReading(sh.call, text, queue))
  BY <1>3, InStepCases
<1>5. s.answers = <<>> /\ InReading(sh.call, text, queue)
  BY <1>2, <1>4
<1>6. Owed(t) = 1 /\ OwedKind(t, 1) = "stream"
  <2>1. 1 \in 1..1
    OBVIOUS
  <2> QED
    BY <1>4, <2>1 DEF SameOwed
<1>7. t.answers # <<>> /\ t.answers[1] = ans
  BY <1>5
<1>8. /\ InReading(sh.call, Collected(text, chunk.piece), chunk.rest)
      /\ chunk.eof = (chunk.rest = <<>>)
  BY <1>3, <1>5, ReadingGoesOn
<1> QED
  BY <1>3, <1>6, <1>7, <1>8, InStepCases

\* One whose command starts is that of the call that waits.
LEMMA InStepStarts ==
    ASSUME NEW s \in ShellSockets, NEW t \in ShellSockets, NEW queue, NEW sh, NEW text,
           InStep(s, queue, sh, text), SameOwed(s, t),
           s.busy = 0, s.requests # <<>>, s.requests[1].kind = "exec",
           t.busy = s.requests[1].call, t.requests = Tail(s.requests), t.answers = s.answers
    PROVE  InStep(t, queue, sh, text)
<1>1. Owed(s) # 0
  BY OwesNothing
<1>2. Owed(s) = 1 => OwedKind(s, 1) = "exec" /\ s.answers = <<>> /\ Len(s.requests) = 1
  BY OwesOne
<1>3. sh.at = "exec"
  <2>1. CASE sh.at = "stream"
    BY <1>2, <2>1, InStepCases
  <2>2. CASE sh.at \notin {"exec", "stream"}
    BY <1>1, <2>2, InStepCases
  <2> QED
    BY <2>1, <2>2
<1>4. Owed(s) = 1 /\ OwedKind(s, 1) = "exec" /\ s.requests[1].call = sh.call
  BY <1>3, InStepCases
<1>5. Owed(t) = 1 /\ OwedKind(t, 1) = "exec"
  <2>1. 1 \in 1..1
    OBVIOUS
  <2> QED
    BY <1>4, <2>1 DEF SameOwed
<1>6. t.answers = <<>> /\ t.requests = <<>>
  <2>1. s.requests \in Seq(ShellRequests) /\ Len(s.requests) = 1
    BY <1>2, <1>4, SocketLengths
  <2>2. Tail(s.requests) \in Seq(ShellRequests) /\ Len(Tail(s.requests)) = 0
    BY <2>1, HeadTailProperties
  <2> QED
    BY <1>2, <1>4, <2>2, EmptySeq
<1> QED
  BY <1>3, <1>4, <1>5, <1>6, InStepCases

\* And its end leaves the output of that call.
LEMMA InStepEnds ==
    ASSUME NEW s \in ShellSockets, NEW t \in ShellSockets, NEW queue, NEW rest, NEW sh, NEW text,
           InStep(s, queue, sh, text), SameOwed(s, t), s.busy # 0, t.busy = 0,
           NEW ans \in ShellAnswers, ans.kind = "ack" => rest = OutputOf(s.busy),
           t.answers = Append(s.answers, ans), t.requests = s.requests
    PROVE  InStep(t, rest, sh, text)
<1>1. Owed(s) # 0
  BY OwesNothing
<1>2. Owed(s) = 1 => OwedKind(s, 1) = "exec" /\ s.answers = <<>> /\ s.requests = <<>>
  BY OwesOne
<1>3. sh.at = "exec"
  <2>1. CASE sh.at = "stream"
    BY <1>2, <2>1, InStepCases
  <2>2. CASE sh.at \notin {"exec", "stream"}
    BY <1>1, <2>2, InStepCases
  <2> QED
    BY <2>1, <2>2
<1>4. Owed(s) = 1 /\ OwedKind(s, 1) = "exec" /\ s.busy = sh.call
  BY <1>3, InStepCases
<1>5. Owed(t) = 1 /\ OwedKind(t, 1) = "exec"
  <2>1. 1 \in 1..1
    OBVIOUS
  <2> QED
    BY <1>4, <2>1 DEF SameOwed
<1>6. t.answers # <<>> /\ t.answers[1] = ans /\ t.requests = <<>>
  <2>1. s.answers = <<>> /\ s.requests = <<>>
    BY <1>2, <1>4
  <2>2. Append(<<>>, ans) # <<>> /\ Append(<<>>, ans)[1] = ans
    OBVIOUS
  <2> QED
    BY <2>1, <2>2
<1> QED
  BY <1>3, <1>4, <1>5, <1>6, InStepCases

\* An idle call owes nothing, or one answer.
LEMMA IdleCases ==
    ASSUME NEW s, NEW queue, NEW sh, NEW text, sh.at = "idle"
    PROVE  ClientSound(s, queue, sh, text) <=>
              (s.open /\ (s.lost = 0 => Owed(s) = 0) /\ (s.lost = 1 => Owed(s) = 1))
BY DEF ClientSound, InStep, OneBehind

LEMMA BehindCases ==
    ASSUME NEW s, NEW sh
    PROVE  /\ sh.at = "exec" => (OneBehind(s, sh) <=> (Owed(s) = 2 /\ OwedKind(s, 2) = "exec"))
           /\ sh.at = "stream" =>
                (OneBehind(s, sh) <=>
                   (Owed(s) = 2 /\ OwedKind(s, 1) = "exec" /\ OwedKind(s, 2) = "stream"))
<1>1. CASE sh.at = "exec"
  BY <1>1, Zenon DEF OneBehind
<1>2. CASE sh.at = "stream"
  BY <1>2, Zenon DEF OneBehind
<1> QED
  BY <1>1, <1>2

\* The client sends a command.
LEMMA ClientSends ==
    ASSUME NEW s \in ShellSockets, NEW t \in ShellSockets, NEW r \in ShellRequests,
           NEW queue, NEW sh, NEW next, NEW text, ClientSound(s, queue, sh, text),
           sh.at = "idle", next.at = "exec", r.kind = "exec", r.call = next.call,
           t.answers = s.answers, t.busy = s.busy, t.requests = Append(s.requests, r),
           t.open, t.lost = s.lost
    PROVE  ClientSound(t, queue, next, text)
<1>1. /\ Owed(t) = Owed(s) + 1 /\ OwedKind(t, Owed(s) + 1) = "exec"
  BY SendingOwes
<1>2. ASSUME t.lost = 0 PROVE InStep(t, queue, next, text)
  <2>1. Owed(s) = 0
    BY <1>2, IdleCases
  <2>2. s.answers = <<>> /\ s.busy = 0 /\ s.requests = <<>>
    BY <2>1, OwesNothing
  <2>3. Owed(t) = 1 /\ OwedKind(t, 1) = "exec"
    <3>1. Owed(s) + 1 = 1
      BY <2>1
    <3> QED
      BY <1>1, <3>1
  <2>4. t.requests[1] = r /\ t.answers = <<>> /\ t.busy = 0
    BY <2>2
  <2> QED
    BY <2>3, <2>4, InStepCases
<1>3. ASSUME t.lost = 1 PROVE OneBehind(t, next)
  <2>1. Owed(s) = 1
    BY <1>3, IdleCases
  <2>2. Owed(s) + 1 = 2
    BY <2>1
  <2> QED
    BY <1>1, <2>2, BehindCases
<1> QED
  BY <1>2, <1>3 DEF ClientSound

\* It reads the acknowledgement and asks for output.
LEMMA ClientAcked ==
    ASSUME NEW s \in ShellSockets, NEW u \in ShellSockets, NEW t \in ShellSockets,
           NEW r \in ShellRequests, NEW queue, NEW sh, NEW next,
           ClientSound(s, queue, sh, NothingRead), sh.call \in CommandIds,
           sh.at = "exec", next.at = "stream", r.kind = "stream", next.call = sh.call,
           s.answers # <<>>, s.answers[1].kind = "ack",
           u.answers = Tail(s.answers), u.busy = s.busy, u.requests = s.requests,
           t.answers = u.answers, t.busy = u.busy, t.requests = Append(u.requests, r),
           t.open, t.lost = s.lost
    PROVE  ClientSound(t, queue, next, NothingRead)
<1>1. /\ Owed(s) = Owed(u) + 1
      /\ \A i \in 1..Owed(u) : OwedKind(u, i) = OwedKind(s, i + 1)
  BY ReceivingOwes
<1>2. /\ Owed(t) = Owed(u) + 1 /\ OwedKind(t, Owed(u) + 1) = "stream"
      /\ \A i \in 1..Owed(u) : OwedKind(t, i) = OwedKind(u, i)
  BY SendingOwes
<1>3. Owed(u) \in Nat
  BY SocketLengths
<1>4. ASSUME t.lost = 0 PROVE InStep(t, queue, next, NothingRead)
  <2>1. InStep(s, queue, sh, NothingRead)
    BY <1>4 DEF ClientSound
  <2>2. Owed(s) = 1 /\ queue = OutputOf(sh.call)
    BY <2>1, InStepCases
  <2>3. Owed(u) = 0 /\ Owed(u) + 1 = 1
    BY <1>1, <1>3, <2>2
  <2>4. Owed(t) = 1 /\ OwedKind(t, 1) = "stream"
    BY <1>2, <2>3
  <2>5. t.answers = <<>>
    BY <2>3, OwesNothing
  <2>6. InReading(next.call, NothingRead, queue)
    BY <2>2, ReadingStarts
  <2> QED
    BY <2>4, <2>5, <2>6, InStepCases
<1>5. ASSUME t.lost = 1 PROVE OneBehind(t, next)
  <2>1. OneBehind(s, sh)
    BY <1>5 DEF ClientSound
  <2>2. Owed(s) = 2 /\ OwedKind(s, 2) = "exec"
    BY <2>1, BehindCases
  <2>3. Owed(u) = 1 /\ Owed(u) + 1 = 2 /\ 1 \in 1..Owed(u) /\ 1 + 1 = 2
    BY <1>1, <1>3, <2>2
  <2>4. OwedKind(u, 1) = "exec" /\ OwedKind(t, 1) = "exec"
    <3>1. OwedKind(u, 1) = OwedKind(s, 1 + 1) /\ OwedKind(t, 1) = OwedKind(u, 1)
      BY <1>1, <1>2, <2>3
    <3> QED
      BY <2>2, <2>3, <3>1
  <2>5. Owed(t) = 2 /\ OwedKind(t, 2) = "stream"
    BY <1>2, <2>3
  <2> QED
    BY <2>4, <2>5, BehindCases
<1> QED
  BY <1>4, <1>5 DEF ClientSound

\* A chunk is read only where the connection is in step, or more than one
\* call behind.
LEMMA ChunkInStep ==
    ASSUME NEW s \in ShellSockets, NEW queue, NEW sh, NEW text,
           ClientSound(s, queue, sh, text), sh.at = "stream",
           s.answers # <<>>, s.answers[1].kind = "chunk"
    PROVE  /\ s.lost # 1
           /\ s.lost = 0 =>
                /\ Owed(s) = 1
                /\ InReading(sh.call, Collected(text, s.answers[1].chunk.piece), queue)
                /\ s.answers[1].chunk.eof = (queue = <<>>)
<1>1. s.lost # 1
  <2>1. SUFFICES ASSUME s.lost = 1 PROVE FALSE
    OBVIOUS
  <2>2. OwedKind(s, 1) = "exec"
    BY <2>1, BehindCases DEF ClientSound
  <2>3. OwedKind(s, 1) = AnswersTo("chunk")
    <3>1. 1 <= Len(s.answers)
      BY SocketLengths
    <3> QED
      BY <3>1 DEF OwedKind
  <2> QED
    BY <2>2, <2>3 DEF AnswersTo
<1>2. ASSUME s.lost = 0
      PROVE  /\ Owed(s) = 1
             /\ InReading(sh.call, Collected(text, s.answers[1].chunk.piece), queue)
             /\ s.answers[1].chunk.eof = (queue = <<>>)
  <2>1. InStep(s, queue, sh, text)
    BY <1>2 DEF ClientSound
  <2> QED
    BY <2>1, InStepCases
<1> QED
  BY <1>1, <1>2

\* The client reads a chunk and asks for the next.
LEMMA ClientReadsOn ==
    ASSUME NEW s \in ShellSockets, NEW u \in ShellSockets, NEW t \in ShellSockets,
           NEW r \in ShellRequests, NEW queue, NEW sh, NEW text,
           ClientSound(s, queue, sh, text), sh.at = "stream", r.kind = "stream",
           s.answers # <<>>, s.answers[1].kind = "chunk",
           u.answers = Tail(s.answers), u.busy = s.busy, u.requests = s.requests,
           t.answers = u.answers, t.busy = u.busy, t.requests = Append(u.requests, r),
           t.open, t.lost = s.lost
    PROVE  ClientSound(t, queue, sh, Collected(text, s.answers[1].chunk.piece))
<1>1. Owed(s) = Owed(u) + 1
  BY ReceivingOwes
<1>2. Owed(t) = Owed(u) + 1 /\ OwedKind(t, Owed(u) + 1) = "stream"
  BY SendingOwes
<1>3. Owed(u) \in Nat
  BY SocketLengths
<1>4. t.lost # 1
  BY ChunkInStep
<1>5. ASSUME t.lost = 0
      PROVE  InStep(t, queue, sh, Collected(text, s.answers[1].chunk.piece))
  <2>1. Owed(s) = 1 /\ InReading(sh.call, Collected(text, s.answers[1].chunk.piece), queue)
    BY <1>5, ChunkInStep
  <2>2. Owed(u) = 0 /\ Owed(u) + 1 = 1
    BY <1>1, <1>3, <2>1
  <2>3. Owed(t) = 1 /\ OwedKind(t, 1) = "stream"
    BY <1>2, <2>2
  <2>4. t.answers = <<>>
    BY <2>2, OwesNothing
  <2> QED
    BY <2>1, <2>3, <2>4, InStepCases
<1> QED
  BY <1>4, <1>5 DEF ClientSound

\* The call ends with an answer, or is dropped.
LEMMA ClientAnswered ==
    ASSUME NEW s \in ShellSockets, NEW t \in ShellSockets, NEW queue, NEW sh, NEW text,
           NEW next, NEW none, ClientSound(s, queue, sh, text), next.at = "idle",
           sh.at = "exec" \/ (sh.at = "stream" /\ s.answers[1].kind = "chunk"), s.answers # <<>>,
           t.answers = Tail(s.answers), t.busy = s.busy, t.requests = s.requests,
           t.open, t.lost = s.lost
    PROVE  ClientSound(t, queue, next, none)
<1>1. Owed(s) = Owed(t) + 1 /\ Owed(t) \in Nat
  BY ReceivingOwes, SocketLengths
<1>2. ASSUME t.lost = 0 PROVE Owed(t) = 0
  <2>1. InStep(s, queue, sh, text)
    BY <1>2 DEF ClientSound
  <2>2. Owed(s) = 1
    BY <2>1, InStepCases
  <2> QED
    BY <1>1, <2>2
<1>3. ASSUME t.lost = 1 PROVE Owed(t) = 1
  <2>1. OneBehind(s, sh) /\ sh.at = "exec"
    BY <1>3, ChunkInStep DEF ClientSound
  <2>2. Owed(s) = 2
    BY <2>1, BehindCases
  <2> QED
    BY <1>1, <2>2
<1> QED
  BY <1>2, <1>3, IdleCases

LEMMA ClientDropped ==
    ASSUME NEW s \in ShellSockets, NEW t \in ShellSockets, NEW queue, NEW sh, NEW text,
           NEW next, NEW none, ClientSound(s, queue, sh, text), next.at = "idle",
           sh.at \in {"exec", "stream"}, t.answers = s.answers, t.busy = s.busy,
           t.requests = s.requests, t.open, t.lost = s.lost + 1
    PROVE  ClientSound(t, queue, next, none)
<1>1. Owed(t) = Owed(s)
  BY DEF Owed, Busy
<1>2. s.lost \in Nat
  BY DEF ShellSockets
<1>3. ASSUME t.lost = 1 PROVE Owed(t) = 1
  <2>1. s.lost = 0
    BY <1>2, <1>3
  <2>2. InStep(s, queue, sh, text)
    BY <2>1 DEF ClientSound
  <2>3. Owed(s) = 1
    BY <2>2, InStepCases
  <2> QED
    BY <1>1, <2>3
<1>4. t.lost # 0
  BY <1>2
<1> QED
  BY <1>3, <1>4, IdleCases

-----------------------------------------------------------------------------
(* ShellSession: starts of a command.                                       *)

LEMMA AwaitsNone == AskedOnce(<<>>) /\ \A c : ~Awaits(c, <<>>)
BY DEF AskedOnce, Awaits

LEMMA AwaitsOne ==
    ASSUME NEW x
    PROVE  AskedOnce(<<x>>) /\ \A c : Awaits(c, <<x>>) <=> IsExec(c, x)
<1>1. DOMAIN <<x>> = {1} /\ <<x>>[1] = x
  OBVIOUS
<1> HIDE DEF IsExec
<1> QED
  BY <1>1 DEF AskedOnce, Awaits

\* A request that is taken from the queue.
LEMMA AwaitsTail ==
    ASSUME NEW r \in Seq(ShellRequests), r # <<>>, AskedOnce(r)
    PROVE  /\ AskedOnce(Tail(r))
           /\ \A c \in CommandIds : Awaits(c, Tail(r)) => Awaits(c, r)
           /\ \A c \in CommandIds : IsExec(c, r[1]) => Awaits(c, r) /\ ~Awaits(c, Tail(r))
<1> DEFINE t == Tail(r)
<1>1. t \in Seq(ShellRequests) /\ Len(t) = Len(r) - 1 /\ \A i \in 1..Len(t) : t[i] = r[i + 1]
  BY HeadTailProperties
<1>2. Len(r) \in Nat \ {0} /\ DOMAIN r = 1..Len(r)
  BY EmptySeq, LenProperties
<1> HIDE DEF t
<1>3. DOMAIN t = 1..Len(t)
  BY <1>1, LenProperties
<1>4. \A i \in DOMAIN t : i \in Int /\ i >= 1 /\ i + 1 \in DOMAIN r /\ t[i] = r[i + 1]
  BY <1>1, <1>2, <1>3
<1>5. AskedOnce(t)
  <2>1. SUFFICES ASSUME NEW c \in CommandIds, NEW i \in DOMAIN t, NEW j \in DOMAIN t,
                        IsExec(c, t[i]), IsExec(c, t[j])
                 PROVE  i = j
    BY DEF AskedOnce
  <2>2. i + 1 = j + 1
    BY <1>4, <2>1 DEF AskedOnce
  <2> QED
    BY <1>4, <2>2
<1>6. \A c \in CommandIds : Awaits(c, t) => Awaits(c, r)
  BY <1>4 DEF Awaits
<1>7. ASSUME NEW c \in CommandIds, IsExec(c, r[1]) PROVE Awaits(c, r) /\ ~Awaits(c, t)
  <2>1. 1 \in DOMAIN r
    BY <1>2
  <2>2. ASSUME NEW i \in DOMAIN t, IsExec(c, t[i]) PROVE FALSE
    <3>1. i + 1 = 1
      BY <1>4, <1>7, <2>1, <2>2 DEF AskedOnce
    <3> QED
      BY <1>4, <3>1
  <2> QED
    BY <1>7, <2>1, <2>2 DEF Awaits
<1> QED
  BY <1>5, <1>6, <1>7 DEF t

\* A request that is sent.
LEMMA AwaitsAppend ==
    ASSUME NEW r \in Seq(ShellRequests), NEW x \in ShellRequests, AskedOnce(r),
           \A c \in CommandIds : IsExec(c, x) => ~Awaits(c, r)
    PROVE  /\ AskedOnce(Append(r, x))
           /\ \A c \in CommandIds : Awaits(c, Append(r, x)) => Awaits(c, r) \/ IsExec(c, x)
<1> DEFINE t == Append(r, x)
<1>1. /\ t \in Seq(ShellRequests) /\ Len(t) = Len(r) + 1
      /\ t[Len(r) + 1] = x /\ \A i \in 1..Len(r) : t[i] = r[i]
  BY AppendProperties
<1>2. Len(r) \in Nat /\ DOMAIN r = 1..Len(r)
  BY LenProperties
<1> HIDE DEF t
<1>3. DOMAIN t = 1..Len(t)
  BY <1>1, LenProperties
<1>4. \A i \in DOMAIN t : (i \in DOMAIN r /\ t[i] = r[i]) \/ (i = Len(r) + 1 /\ t[i] = x)
  BY <1>1, <1>2, <1>3
<1>5. \A c \in CommandIds : Awaits(c, t) => Awaits(c, r) \/ IsExec(c, x)
  BY <1>4 DEF Awaits
<1>6. AskedOnce(t)
  <2>1. SUFFICES ASSUME NEW c \in CommandIds, NEW i \in DOMAIN t, NEW j \in DOMAIN t,
                        IsExec(c, t[i]), IsExec(c, t[j])
                 PROVE  i = j
    BY DEF AskedOnce
  <2>2. CASE IsExec(c, x)
    <3>1. \A n \in DOMAIN r : ~IsExec(c, r[n])
      BY <2>2 DEF Awaits
    <3>2. \A n \in DOMAIN t : IsExec(c, t[n]) => n = Len(r) + 1
      BY <1>4, <3>1
    <3> QED
      BY <2>1, <3>2
  <2>3. CASE ~IsExec(c, x)
    <3>1. \A n \in DOMAIN t : IsExec(c, t[n]) => n \in DOMAIN r /\ IsExec(c, r[n])
      BY <1>4, <2>3
    <3> QED
      BY <2>1, <3>1 DEF AskedOnce
  <2> QED
    BY <2>2, <2>3
<1> QED
  BY <1>5, <1>6 DEF t

\* Counting connections.
LEMMA CountSockets ==
    ASSUME NEW A \in SUBSET (1..MaxSockets), NEW B \in SUBSET (1..MaxSockets),
           NEW k \in 1..MaxSockets
    PROVE  /\ Cardinality(A) \in Nat /\ Cardinality(B) \in Nat
           /\ B \subseteq A => Cardinality(B) <= Cardinality(A)
           /\ B \subseteq A \cup {k} => Cardinality(B) <= Cardinality(A) + 1
           /\ (k \in A /\ B \subseteq A \ {k}) => Cardinality(B) + 1 <= Cardinality(A)
<1>1. IsFiniteSet(1..MaxSockets)
  <2>1. 1 \in Int /\ MaxSockets \in Int
    BY ShellBounds
  <2> QED
    BY <2>1, FS_Interval
<1>2. IsFiniteSet(A) /\ IsFiniteSet(B)
  BY <1>1, FS_Subset
<1>3. Cardinality(A) \in Nat /\ Cardinality(B) \in Nat
  BY <1>2, FS_CardinalityType
<1>4. B \subseteq A => Cardinality(B) <= Cardinality(A)
  BY <1>2, FS_Subset
<1>5. ASSUME B \subseteq A \cup {k} PROVE Cardinality(B) <= Cardinality(A) + 1
  <2>1. /\ IsFiniteSet(A \cup {k})
        /\ Cardinality(A \cup {k}) = IF k \in A THEN Cardinality(A) ELSE Cardinality(A) + 1
    BY <1>2, FS_AddElement
  <2>2. Cardinality(B) <= Cardinality(A \cup {k})
    BY <1>5, <2>1, FS_Subset
  <2>3. CASE k \in A
    BY <1>3, <2>1, <2>2, <2>3
  <2>4. CASE k \notin A
    BY <1>3, <2>1, <2>2, <2>4
  <2> QED
    BY <2>3, <2>4
<1>6. ASSUME k \in A, B \subseteq A \ {k} PROVE Cardinality(B) + 1 <= Cardinality(A)
  <2>1. /\ IsFiniteSet(A \ {k})
        /\ Cardinality(A \ {k}) = IF k \in A THEN Cardinality(A) - 1 ELSE Cardinality(A)
    BY <1>2, FS_RemoveElement
  <2>2. Cardinality(B) <= Cardinality(A \ {k})
    BY <1>6, <2>1, FS_Subset
  <2>3. Cardinality(A \ {k}) = Cardinality(A) - 1
    BY <1>6, <2>1
  <2> QED
    BY <1>3, <2>2, <2>3
<1> QED
  BY <1>3, <1>4, <1>5, <1>6

\* How often a command may have been sent, when its call goes on or returns.
LEMMA SentType ==
    ASSUME NEW c \in CommandIds, NEW sh \in ShellPlaces
    PROVE  SentUpTo(c, sh) \in Nat /\ SentUpTo(c, sh) <= 2
<1>1. sh.attempt \in Nat /\ sh.attempt <= 2
  BY DEF ShellPlaces
<1> QED
  BY <1>1 DEF SentUpTo

LEMMA SentReturns ==
    ASSUME NEW c \in CommandIds, NEW sh \in ShellPlaces, NEW next, sh.call \in CommandIds,
           next = [call |-> sh.call + 1, at |-> "idle", attempt |-> 1]
    PROVE  /\ SentUpTo(c, sh) <= SentUpTo(c, next)
           /\ c = sh.call => SentUpTo(c, next) = 2
           /\ next \in ShellPlaces
<1>1. c \in Int /\ sh.call \in Int /\ sh.call + 1 \in 1..(ShellCalls + 1)
  BY ShellBounds DEF CommandIds
<1>2. next.call = sh.call + 1 /\ next.at = "idle" /\ next \in ShellPlaces
  BY <1>1 DEF ShellPlaces
<1>3. CASE c < sh.call
  BY <1>1, <1>2, <1>3 DEF SentUpTo
<1>4. CASE c = sh.call
  <2>1. SentUpTo(c, next) = 2
    BY <1>1, <1>2, <1>4 DEF SentUpTo
  <2> QED
    BY <2>1, <1>2, SentType
<1>5. CASE c > sh.call
  <2>1. SentUpTo(c, sh) = 0
    BY <1>1, <1>5 DEF SentUpTo
  <2>2. SentUpTo(c, next) \in Nat
    BY <1>2, SentType
  <2> QED
    BY <1>1, <1>2, <1>5, <2>1, <2>2
<1> QED
  BY <1>1, <1>3, <1>4, <1>5

\* No connection waits for a start of command c that did not before.
NoMoreAwait(c) ==
    \A k \in 1..MaxSockets : Awaits(c, sockets'[k].requests) => Awaits(c, sockets[k].requests)

\* A step adds a start, or turns one that waits into one that was made.
LEMMA StartsMove ==
    ASSUME ShellTypes, StartsCounted, shellRuns' \in [CommandIds -> Nat], shell' \in ShellPlaces,
           \A k \in 1..MaxSockets : AskedOnce(sockets'[k].requests),
           \A c \in CommandIds :
              \/ /\ NoMoreAwait(c) /\ shellRuns'[c] = shellRuns[c]
                 /\ SentUpTo(c, shell) <= SentUpTo(c, shell')
              \/ /\ NoMoreAwait(c) /\ shellRuns'[c] = shellRuns[c] + 1
                 /\ SentUpTo(c, shell) + 1 <= SentUpTo(c, shell')
              \/ /\ shellRuns'[c] = shellRuns[c] /\ SentUpTo(c, shell) + 1 <= SentUpTo(c, shell')
                 /\ \E j \in 1..MaxSockets : \A k \in 1..MaxSockets \ {j} :
                       Awaits(c, sockets'[k].requests) => Awaits(c, sockets[k].requests)
              \/ /\ NoMoreAwait(c) /\ shellRuns'[c] = shellRuns[c] + 1
                 /\ SentUpTo(c, shell) <= SentUpTo(c, shell')
                 /\ \E j \in 1..MaxSockets :
                       Awaits(c, sockets[j].requests) /\ ~Awaits(c, sockets'[j].requests)
    PROVE  StartsCounted'
<1>1. SUFFICES ASSUME NEW c \in CommandIds
               PROVE  Cardinality(AwaitingStart(c)') + shellRuns'[c] <= SentUpTo(c, shell')
  BY DEF StartsCounted
<1> DEFINE A == AwaitingStart(c)
           B == AwaitingStart(c)'
           before == SentUpTo(c, shell)
           after == SentUpTo(c, shell')
           r == shellRuns[c]
           r2 == shellRuns'[c]
<1>2. A \in SUBSET (1..MaxSockets) /\ B \in SUBSET (1..MaxSockets)
  BY DEF AwaitingStart
<1>3. /\ \A k \in 1..MaxSockets : k \in A <=> Awaits(c, sockets[k].requests)
      /\ \A k \in 1..MaxSockets : k \in B <=> Awaits(c, sockets'[k].requests)
  BY DEF AwaitingStart
<1>4. before \in Nat /\ after \in Nat /\ r \in Nat /\ r2 \in Nat
  BY SentType DEF ShellTypes
<1>5. Cardinality(A) + r <= before
  BY DEF StartsCounted
<1>6. 1 \in 1..MaxSockets
  BY ShellBounds
<1> SUFFICES Cardinality(B) + r2 <= after
  OBVIOUS
<1> HIDE DEF A, B, before, after, r, r2
<1>7. Cardinality(A) \in Nat /\ Cardinality(B) \in Nat
  BY <1>2, <1>6, CountSockets
<1>8. NoMoreAwait(c) => B \subseteq A
  BY <1>2, <1>3 DEF NoMoreAwait
<1>9. NoMoreAwait(c) => Cardinality(B) <= Cardinality(A)
  BY <1>2, <1>6, <1>8, CountSockets
<1>10. CASE NoMoreAwait(c) /\ r2 = r /\ before <= after
  BY <1>4, <1>5, <1>7, <1>9, <1>10
<1>11. CASE NoMoreAwait(c) /\ r2 = r + 1 /\ before + 1 <= after
  BY <1>4, <1>5, <1>7, <1>9, <1>11
<1>12. CASE /\ r2 = r /\ before + 1 <= after
            /\ \E j \in 1..MaxSockets : \A k \in 1..MaxSockets \ {j} :
                  Awaits(c, sockets'[k].requests) => Awaits(c, sockets[k].requests)
  <2>1. PICK j \in 1..MaxSockets : \A k \in 1..MaxSockets \ {j} :
                  Awaits(c, sockets'[k].requests) => Awaits(c, sockets[k].requests)
    BY <1>12
  <2>2. B \subseteq A \cup {j}
    BY <1>2, <1>3, <2>1
  <2>3. Cardinality(B) <= Cardinality(A) + 1
    BY <1>2, <2>2, CountSockets
  <2> QED
    BY <1>4, <1>5, <1>7, <1>12, <2>3
<1>13. CASE /\ NoMoreAwait(c) /\ r2 = r + 1 /\ before <= after
            /\ \E j \in 1..MaxSockets :
                  Awaits(c, sockets[j].requests) /\ ~Awaits(c, sockets'[j].requests)
  <2>1. PICK j \in 1..MaxSockets :
                  Awaits(c, sockets[j].requests) /\ ~Awaits(c, sockets'[j].requests)
    BY <1>13
  <2>2. j \in A /\ B \subseteq A \ {j}
    BY <1>3, <1>8, <1>13, <2>1
  <2>3. Cardinality(B) + 1 <= Cardinality(A)
    BY <1>2, <2>2, CountSockets
  <2> QED
    BY <1>4, <1>5, <1>7, <1>13, <2>3
<1> QED
  BY <1>10, <1>11, <1>12, <1>13 DEF before, after, r, r2

\* A step of the daemon on one connection.
LEMMA SocketServed ==
    ASSUME ShellInv, NEW k \in 1..MaxSockets, NEW t \in ShellSockets, NEW q \in Seq(OutputPieces),
           sockets' = [sockets EXCEPT ![k] = t], outputs' = [outputs EXCEPT ![k] = q],
           UNCHANGED <<backend, client, shell, collected, results>>,
           shellRuns' \in [CommandIds -> Nat], StartsCounted', t.open = sockets[k].open,
           (t.open /\ k = client) => ClientSound(t, q, shell, collected),
           (t.open /\ k # client) => SetUp(t, shell)
    PROVE  ShellInv'
<1>1. /\ sockets'[k] = t /\ \A j \in 1..MaxSockets : j # k => sockets'[j] = sockets[j]
      /\ sockets' \in [1..MaxSockets -> ShellSockets]
  BY DEF ShellInv, ShellTypes
<1>2. /\ outputs'[k] = q /\ \A j \in 0..MaxSockets : j # k => outputs'[j] = outputs[j]
      /\ outputs' \in [0..MaxSockets -> Seq(OutputPieces)]
  <2>1. outputs \in [0..MaxSockets -> Seq(OutputPieces)] /\ k \in 0..MaxSockets
    BY DEF ShellInv, ShellTypes
  <2> QED
    BY <2>1
<1>3. ShellTypes'
  BY <1>1, <1>2 DEF ShellInv, ShellTypes
<1>4. client # 0 => client \in 1..MaxSockets /\ client \in 0..MaxSockets
  BY DEF ShellInv, ShellTypes
<1>5. client # 0 => ClientSound(sockets'[client], outputs'[client], shell, collected)
  <2>1. SUFFICES ASSUME client # 0
                 PROVE  ClientSound(sockets'[client], outputs'[client], shell, collected)
    OBVIOUS
  <2>2. ClientSound(sockets[client], outputs[client], shell, collected)
    BY <2>1 DEF ShellInv, Connected
  <2>3. CASE client = k
    BY <1>1, <1>2, <2>2, <2>3 DEF ClientSound
  <2>4. CASE client # k
    BY <1>1, <1>2, <1>4, <2>1, <2>2, <2>4
  <2> QED
    BY <2>3, <2>4
<1>6. ASSUME NEW j \in 1..MaxSockets, sockets'[j].open, j # client PROVE SetUp(sockets'[j], shell)
  <2>1. CASE j = k
    BY <1>1, <1>6, <2>1
  <2>2. CASE j # k
    BY <1>1, <1>6, <2>2 DEF ShellInv, Connected
  <2> QED
    BY <2>1, <2>2
<1>7. \A j \in 1..MaxSockets : sockets'[j].open = sockets[j].open
  BY <1>1
<1>8. Connected'
  <2>1. \A i, j \in 1..MaxSockets : sockets'[i].open /\ sockets'[j].open => i = j
    BY <1>7 DEF ShellInv, Connected
  <2> QED
    BY <1>5, <1>6, <2>1 DEF Connected
<1>9. CallPlaced'
  <2>1. outputs'[0] = outputs[0]
    <3>1. 0 \in 0..MaxSockets /\ 0 # k
      BY ShellBounds
    <3> QED
      BY <1>2, <3>1
  <2> QED
    BY <2>1 DEF ShellInv, CallPlaced
<1>10. OutputOwnAfterDrop'
  BY DEF ShellInv, OutputOwnAfterDrop
<1> QED
  BY <1>3, <1>8, <1>9, <1>10 DEF ShellInv

\* The records a connection starts and ends with.
LEMMA NoSocketType ==
    /\ NoSocket \in ShellSockets /\ ~NoSocket.open /\ NoSocket.requests = <<>>
    /\ NoSocket.answers = <<>> /\ NoSocket.busy = 0 /\ NoSocket.lost = 0
<1>1. /\ <<>> \in Seq(ShellRequests) /\ <<>> \in Seq(ShellAnswers) /\ FALSE \in BOOLEAN
      /\ 0 \in {0} \cup CommandIds /\ 0 \in Nat
  OBVIOUS
<1>2. /\ ~NoSocket.open /\ NoSocket.requests = <<>>
      /\ NoSocket.answers = <<>> /\ NoSocket.busy = 0 /\ NoSocket.lost = 0
  BY DEF NoSocket
<1>3. NoSocket \in ShellSockets
  BY <1>1, Zenon DEF NoSocket, ShellSockets
<1> QED
  BY <1>2, <1>3

\* Its answer, on an open connection and on a closed one.
AnsweredWith(s, t, ans) ==
    /\ ans \in ShellAnswers /\ t \in ShellSockets /\ t.open = s.open
    /\ s.open => t.answers = Append(s.answers, ans) /\ t.busy = 0 /\ t.lost = s.lost

LEMMA AnswerIs ==
    ASSUME ShellTypes, NEW k \in 1..MaxSockets, NEW kind \in {"spawned", "ack", "error", "chunk"},
           NEW chunk \in Chunks, NEW t, t = Answer(k, kind, chunk)
    PROVE  /\ AnsweredWith(sockets[k], t, [kind |-> kind, chunk |-> chunk])
           /\ sockets[k].open => t.requests = sockets[k].requests
           /\ ~sockets[k].open => t.requests = <<>>
<1> DEFINE s == sockets[k]
           ans == [kind |-> kind, chunk |-> chunk]
<1>1. s \in ShellSockets
  BY DEF ShellTypes
<1>2. ans \in ShellAnswers
  BY DEF ShellAnswers
<1>3. Append(s.answers, ans) \in Seq(ShellAnswers)
  <2> HIDE DEF s, ans
  <2> QED
    BY <1>1, <1>2, SocketLengths, AppendProperties
<1>4. CASE s.open
  <2>1. t = [s EXCEPT !.answers = Append(s.answers, ans), !.busy = 0]
    BY <1>4 DEF Answer
  <2> HIDE DEF s, ans
  <2>2. /\ t.requests = s.requests /\ t \in ShellSockets /\ t.open = s.open
        /\ t.answers = Append(s.answers, ans) /\ t.busy = 0 /\ t.lost = s.lost
    BY <1>1, <1>3, <2>1 DEF ShellSockets
  <2> QED
    BY <1>2, <1>4, <2>2 DEF s, ans, AnsweredWith
<1>5. CASE ~s.open
  <2>1. t = NoSocket
    BY <1>5 DEF Answer
  <2>2. s.open = FALSE
    BY <1>1, <1>5 DEF ShellSockets
  <2>3. NoSocket.open = FALSE
    BY NoSocketType DEF ShellSockets
  <2>4. t.open = s.open /\ t \in ShellSockets /\ t.requests = <<>>
    BY <2>1, <2>2, <2>3, NoSocketType
  <2> QED
    BY <1>2, <1>5, <2>4 DEF s, ans, AnsweredWith
<1> QED
  BY <1>4, <1>5

\* A step that asks for no start.
LEMMA RequestsShrink ==
    ASSUME ShellTypes, StartsCounted, shellRuns' = shellRuns, shell' \in ShellPlaces,
           NEW k \in 1..MaxSockets, NEW t, sockets' = [sockets EXCEPT ![k] = t], AskedOnce(t.requests),
           \A c \in CommandIds : Awaits(c, t.requests) => Awaits(c, sockets[k].requests),
           \A c \in CommandIds : SentUpTo(c, shell) <= SentUpTo(c, shell')
    PROVE  StartsCounted'
<1>1. sockets'[k] = t /\ \A j \in 1..MaxSockets : j # k => sockets'[j] = sockets[j]
  BY DEF ShellTypes
<1>2. \A c \in CommandIds : NoMoreAwait(c)
  BY <1>1 DEF NoMoreAwait
<1>3. \A j \in 1..MaxSockets : AskedOnce(sockets'[j].requests)
  BY <1>1 DEF StartsCounted
<1>4. shellRuns' \in [CommandIds -> Nat]
  BY DEF ShellTypes
<1> QED
  BY <1>2, <1>3, <1>4, StartsMove

\* The daemon answers a request that starts nothing.
LEMMA DaemonAnswers ==
    ASSUME ShellInv, NEW k \in 1..MaxSockets, NextRequest(k), NEW kind \in {"spawned", "chunk"},
           NEW chunk \in Chunks, NEW q \in Seq(OutputPieces), NEW t,
           AnswersTo(kind) = sockets[k].requests[1].kind,
           t = [Answer(k, kind, chunk) EXCEPT !.requests = Tail(sockets[k].requests)],
           sockets' = [sockets EXCEPT ![k] = t], outputs' = [outputs EXCEPT ![k] = q],
           UNCHANGED <<backend, client, shell, collected, results, shellRuns>>,
           SameOwed(sockets[k], t) /\ t \in ShellSockets
             /\ t.answers = Append(sockets[k].answers, [kind |-> kind, chunk |-> chunk])
             /\ InStep(sockets[k], outputs[k], shell, collected) => InStep(t, q, shell, collected)
    PROVE  ShellInv'
<1> DEFINE s == sockets[k]
           ans == [kind |-> kind, chunk |-> chunk]
<1>1. s \in ShellSockets /\ s.requests \in Seq(ShellRequests) /\ s.busy = 0 /\ s.requests # <<>>
  BY DEF ShellInv, ShellTypes, ShellSockets, NextRequest
<1>2. Tail(s.requests) \in Seq(ShellRequests)
  <2> HIDE DEF s
  <2> QED
    BY <1>1, HeadTailProperties
<1>3. ShellTypes
  BY DEF ShellInv
<1>4. /\ ans \in ShellAnswers /\ t \in ShellSockets /\ t.requests = Tail(s.requests)
      /\ t.open = s.open
      /\ s.open => t.answers = Append(s.answers, ans) /\ t.busy = 0 /\ t.lost = s.lost
  <2> DEFINE u == Answer(k, kind, chunk)
             rest == Tail(s.requests)
  <2>1. kind \in {"spawned", "ack", "error", "chunk"}
    OBVIOUS
  <2>2. AnsweredWith(s, u, ans) /\ t = [u EXCEPT !.requests = rest] /\ rest \in Seq(ShellRequests)
    BY <1>2, <1>3, <2>1, AnswerIs
  <2> HIDE DEF s, u, ans, rest
  <2>3. /\ ans \in ShellAnswers /\ u \in ShellSockets /\ u.open = s.open
        /\ s.open => u.answers = Append(s.answers, ans) /\ u.busy = 0 /\ u.lost = s.lost
    BY <2>2 DEF AnsweredWith
  <2>4. /\ t \in ShellSockets /\ t.requests = rest /\ t.open = u.open
        /\ t.answers = u.answers /\ t.busy = u.busy /\ t.lost = u.lost
    BY <2>2, <2>3 DEF ShellSockets
  <2> QED
    BY <2>3, <2>4 DEF rest
<1>5. ans.kind = kind
  OBVIOUS
<1>6. s.open => SameOwed(s, t)
  <2> HIDE DEF s, ans
  <2>1. AnswersTo(ans.kind) = s.requests[1].kind
    BY <1>5 DEF s
  <2> QED
    BY <1>1, <1>4, <2>1, AnsweringKeeps
<1>7. AskedOnce(s.requests)
  BY DEF ShellInv, StartsCounted
<1>8. AskedOnce(t.requests) /\ \A c \in CommandIds : Awaits(c, t.requests) => Awaits(c, s.requests)
  <2> HIDE DEF s
  <2> QED
    BY <1>1, <1>4, <1>7, AwaitsTail
<1>9. shell' \in ShellPlaces /\ shell' = shell /\ StartsCounted
  BY <1>3 DEF ShellTypes, ShellInv
<1>10. \A c \in CommandIds : SentUpTo(c, shell) <= SentUpTo(c, shell')
  BY <1>9, SentType
<1>11. StartsCounted'
  BY <1>3, <1>8, <1>9, <1>10, RequestsShrink
<1>12. ASSUME t.open, k = client PROVE ClientSound(t, q, shell, collected)
  <2>1. ClientSound(s, outputs[k], shell, collected)
    <3>1. client # 0
      BY <1>12
    <3> QED
      BY <1>12, <3>1 DEF ShellInv, Connected
  <2>2. SameOwed(s, t) /\ t.lost = s.lost /\ t.answers = Append(s.answers, ans)
    BY <1>4, <1>6, <1>12
  <2>3. InStep(s, outputs[k], shell, collected) => InStep(t, q, shell, collected)
    BY <1>4, <2>2
  <2> HIDE DEF s
  <2> QED
    BY <1>12, <2>1, <2>2, <2>3, ClientKept
<1>13. ASSUME t.open, k # client PROVE SetUp(t, shell)
  <2>1. SetUp(s, shell)
    BY <1>4, <1>13 DEF ShellInv, Connected
  <2> HIDE DEF s
  <2> QED
    BY <1>4, <1>6, <1>13, <2>1, SetUpKept
<1>14. shellRuns' \in [CommandIds -> Nat]
  BY <1>3 DEF ShellTypes
<1> QED
  BY <1>4, <1>11, <1>12, <1>13, <1>14, SocketServed

LEMMA NoChunkType == NoChunk \in Chunks /\ <<>> \in Seq(OutputPieces)
<1>1. Piece("out", <<>>) \in OutputPieces
  BY DEF Piece, OutputPieces
<1>2. <<>> \in Seq(OutputPieces)
  OBVIOUS
<1> QED
  BY <1>1, <1>2 DEF NoChunk, Chunks

LEMMA SpawnsStep ==
    ASSUME ShellInv, NEW k \in 1..MaxSockets, DaemonSpawns(k) PROVE ShellInv'
<1> DEFINE t == [Answer(k, "spawned", NoChunk) EXCEPT !.requests = Tail(sockets[k].requests)]
<1>1. /\ NextRequest(k) /\ sockets[k].requests[1].kind = "spawn"
      /\ sockets' = [sockets EXCEPT ![k] = t] /\ outputs' = [outputs EXCEPT ![k] = <<>>]
      /\ UNCHANGED <<backend, client, shell, collected, results, shellRuns>>
  BY DEF DaemonSpawns
<1>2. AnswersTo("spawned") = sockets[k].requests[1].kind
  BY <1>1 DEF AnswersTo
<1>3. sockets[k] \in ShellSockets
  BY DEF ShellInv, ShellTypes
<1>4. ~InStep(sockets[k], outputs[k], shell, collected)
  BY <1>1, <1>3, InStepSpawns DEF NextRequest
<1> HIDE DEF t
<1> QED
  BY <1>1, <1>2, <1>4, NoChunkType, DaemonAnswers DEF t

LEMMA StreamsStep ==
    ASSUME ShellInv, NEW k \in 1..MaxSockets, DaemonStreams(k) PROVE ShellInv'
<1> DEFINE chunk == NextChunk(outputs[k])
           q == chunk.rest
           t == [Answer(k, "chunk", chunk) EXCEPT !.requests = Tail(sockets[k].requests)]
<1>1. /\ NextRequest(k) /\ sockets[k].requests[1].kind = "stream"
      /\ sockets' = [sockets EXCEPT ![k] = t] /\ outputs' = [outputs EXCEPT ![k] = q]
      /\ UNCHANGED <<backend, client, shell, collected, results, shellRuns>>
  BY DEF DaemonStreams
<1>2. AnswersTo("chunk") = sockets[k].requests[1].kind
  BY <1>1 DEF AnswersTo
<1>3. sockets[k] \in ShellSockets /\ outputs[k] \in Seq(OutputPieces)
  BY DEF ShellInv, ShellTypes
<1>4. chunk \in Chunks
  BY <1>3, ChunkType
<1>5. q \in Seq(OutputPieces)
  BY <1>4 DEF Chunks
<1>6. shell.at = "stream" => shell.call \in CommandIds
  BY DEF ShellInv, CallPlaced
<1>7. chunk = NextChunk(outputs[k])
  OBVIOUS
<1> DEFINE ans == [kind |-> "chunk", chunk |-> chunk]
<1>8. ans \in ShellAnswers /\ ans.chunk = chunk
  BY <1>4 DEF ShellAnswers
<1> HIDE DEF t, chunk
<1>9. ASSUME SameOwed(sockets[k], t), t \in ShellSockets,
             t.answers = Append(sockets[k].answers, ans),
             InStep(sockets[k], outputs[k], shell, collected)
      PROVE  InStep(t, q, shell, collected)
  <2> HIDE DEF ans
  <2> QED
    BY <1>1, <1>3, <1>6, <1>7, <1>8, <1>9, InStepStreams DEF NextRequest
<1> HIDE DEF q
<1> QED
  BY <1>1, <1>2, <1>4, <1>5, <1>9, DaemonAnswers DEF t

\* The connection that is used, and the shape of the state, at a glance.
LEMMA SocketsSound ==
    ASSUME ShellInv, NEW k \in 1..MaxSockets
    PROVE  /\ sockets[k] \in ShellSockets /\ outputs[k] \in Seq(OutputPieces)
           /\ outputs = [outputs EXCEPT ![k] = outputs[k]]
           /\ k = client => ClientSound(sockets[k], outputs[k], shell, collected)
           /\ sockets[k].open /\ k # client => SetUp(sockets[k], shell)
           /\ AskedOnce(sockets[k].requests)
<1>1. sockets[k] \in ShellSockets /\ outputs \in [0..MaxSockets -> Seq(OutputPieces)]
  BY DEF ShellInv, ShellTypes
<1>2. outputs[k] \in Seq(OutputPieces) /\ outputs = [outputs EXCEPT ![k] = outputs[k]]
  BY <1>1
<1>3. k # 0
  OBVIOUS
<1>4. k = client => ClientSound(sockets[k], outputs[k], shell, collected)
  BY <1>3 DEF ShellInv, Connected
<1> QED
  BY <1>1, <1>2, <1>4 DEF ShellInv, Connected, StartsCounted

\* The step of the daemon that starts a command.
LEMMA StartsStep ==
    ASSUME ShellInv, NEW k \in 1..MaxSockets, DaemonStarts(k) PROVE ShellInv'
<1> DEFINE s == sockets[k]
           c == s.requests[1].call
           t == [s EXCEPT !.busy = c, !.requests = Tail(s.requests)]
<1>1. /\ s.busy = 0 /\ s.requests # <<>> /\ s.requests[1].kind = "exec"
      /\ shellRuns' = [shellRuns EXCEPT ![c] = @ + 1]
      /\ UNCHANGED <<backend, client, outputs, shell, collected, results>>
  BY DEF DaemonStarts, NextRequest
<1>2. sockets' = [sockets EXCEPT ![k] = t]
  BY DEF DaemonStarts
<1>3. /\ s \in ShellSockets /\ outputs[k] \in Seq(OutputPieces)
      /\ outputs' = [outputs EXCEPT ![k] = outputs[k]] /\ AskedOnce(s.requests)
      /\ k = client => ClientSound(s, outputs[k], shell, collected)
      /\ s.open /\ k # client => SetUp(s, shell)
  BY <1>1, SocketsSound
<1> HIDE DEF s, c, t
<1>4. s.requests \in Seq(ShellRequests) /\ Len(s.requests) \in Nat \ {0}
  BY <1>1, <1>3, SocketLengths
<1>5. c \in CommandIds /\ c # 0 /\ Tail(s.requests) \in Seq(ShellRequests)
  <2>1. s.requests[1] \in ShellRequests
    BY <1>4
  <2>2. c \in CommandIds
    BY <2>1 DEF ShellRequests, c
  <2> QED
    BY <1>1, <1>4, <2>2, HeadTailProperties DEF CommandIds
<1>6. /\ t \in ShellSockets /\ t.busy = c /\ t.requests = Tail(s.requests)
      /\ t.answers = s.answers /\ t.open = s.open /\ t.lost = s.lost
  BY <1>3, <1>5 DEF t, ShellSockets
<1>7. SameOwed(s, t)
  BY <1>1, <1>3, <1>5, <1>6, StartingKeeps
<1>8. InStep(s, outputs[k], shell, collected) => InStep(t, outputs[k], shell, collected)
  BY <1>1, <1>3, <1>6, <1>7, InStepStarts DEF c
<1>9. t.open /\ k = client => ClientSound(t, outputs[k], shell, collected)
  BY <1>3, <1>6, <1>7, <1>8, ClientKept
<1>10. t.open /\ k # client => SetUp(t, shell)
  BY <1>3, <1>6, <1>7, SetUpKept
<1>11. /\ AskedOnce(t.requests)
       /\ \A d \in CommandIds : Awaits(d, t.requests) => Awaits(d, s.requests)
       /\ \A d \in CommandIds : IsExec(d, s.requests[1]) => Awaits(d, s.requests) /\ ~Awaits(d, t.requests)
  BY <1>1, <1>3, <1>4, <1>6, AwaitsTail
<1>12. /\ ShellTypes /\ StartsCounted /\ sockets[k] = s /\ sockets'[k] = t
       /\ \A j \in 1..MaxSockets : j # k => sockets'[j] = sockets[j]
  BY <1>2 DEF ShellInv, ShellTypes, s
<1>13. /\ shellRuns' \in [CommandIds -> Nat] /\ shellRuns'[c] = shellRuns[c] + 1
       /\ \A d \in CommandIds : d # c => shellRuns'[d] = shellRuns[d]
  BY <1>1, <1>5, <1>12 DEF ShellTypes
<1>14. StartsCounted'
  <2>1. \A d \in CommandIds : NoMoreAwait(d)
    BY <1>11, <1>12 DEF NoMoreAwait
  <2>2. \A j \in 1..MaxSockets : AskedOnce(sockets'[j].requests)
    BY <1>11, <1>12 DEF StartsCounted
  <2>3. shell' = shell /\ shell \in ShellPlaces
    BY <1>1, <1>12 DEF ShellTypes
  <2>4. \A d \in CommandIds : SentUpTo(d, shell) <= SentUpTo(d, shell')
    BY <2>3, SentType
  <2>5. IsExec(c, s.requests[1])
    BY <1>1 DEF IsExec, c
  <2>6. Awaits(c, sockets[k].requests) /\ ~Awaits(c, sockets'[k].requests)
    BY <1>5, <1>11, <1>12, <2>5
  <2>7. ASSUME NEW d \in CommandIds
        PROVE  \/ /\ NoMoreAwait(d) /\ shellRuns'[d] = shellRuns[d]
                  /\ SentUpTo(d, shell) <= SentUpTo(d, shell')
               \/ /\ NoMoreAwait(d) /\ shellRuns'[d] = shellRuns[d] + 1
                  /\ SentUpTo(d, shell) <= SentUpTo(d, shell')
                  /\ \E j \in 1..MaxSockets :
                        Awaits(d, sockets[j].requests) /\ ~Awaits(d, sockets'[j].requests)
    <3>1. CASE d = c
      BY <1>13, <2>1, <2>4, <2>6, <3>1
    <3>2. CASE d # c
      BY <1>13, <2>1, <2>4, <3>2
    <3> QED
      BY <3>1, <3>2
  <2> QED
    BY <1>12, <1>13, <2>2, <2>3, <2>7, StartsMove
<1> QED
  BY <1>1, <1>2, <1>3, <1>6, <1>9, <1>10, <1>12, <1>13, <1>14, SocketServed

\* A command ends, by itself or by its time-out.
LEMMA EndsStep ==
    ASSUME ShellInv, NEW k \in 1..MaxSockets, sockets[k].busy # 0, NEW kind \in {"ack", "error"},
           NEW q \in Seq(OutputPieces), kind = "ack" => q = OutputOf(sockets[k].busy),
           sockets' = [sockets EXCEPT ![k] = Answer(k, kind, NoChunk)],
           outputs' = [outputs EXCEPT ![k] = q],
           UNCHANGED <<backend, client, shell, collected, results, shellRuns>>
    PROVE  ShellInv'
<1> DEFINE s == sockets[k]
           ans == [kind |-> kind, chunk |-> NoChunk]
           t == Answer(k, kind, NoChunk)
<1>1. s \in ShellSockets /\ AskedOnce(s.requests)
      /\ (k = client => ClientSound(s, outputs[k], shell, collected))
      /\ (s.open /\ k # client => SetUp(s, shell))
  BY SocketsSound
<1>2. ShellTypes /\ StartsCounted /\ kind \in {"spawned", "ack", "error", "chunk"}
  BY DEF ShellInv
<1>3. /\ AnsweredWith(s, t, ans) /\ (s.open => t.requests = s.requests) /\ (~s.open => t.requests = <<>>)
  BY <1>2, NoChunkType, AnswerIs
<1>4. s.busy # 0 /\ (ans.kind = "ack" => q = OutputOf(s.busy)) /\ AnswersTo(ans.kind) = "exec"
  <2>1. CASE kind = "ack"
    BY <2>1 DEF AnswersTo
  <2>2. CASE kind = "error"
    BY <2>2 DEF AnswersTo
  <2> QED
    BY <2>1, <2>2
<1>5. sockets' = [sockets EXCEPT ![k] = t] /\ s = sockets[k]
  OBVIOUS
<1> HIDE DEF s, ans, t
<1>6. /\ ans \in ShellAnswers /\ t \in ShellSockets /\ t.open = s.open
      /\ s.open => t.answers = Append(s.answers, ans) /\ t.busy = 0 /\ t.lost = s.lost
  BY <1>3 DEF AnsweredWith
<1>7. s.open => SameOwed(s, t)
  BY <1>1, <1>3, <1>4, <1>6, EndingKeeps
<1>8. s.open /\ InStep(s, outputs[k], shell, collected) => InStep(t, q, shell, collected)
  BY <1>1, <1>3, <1>4, <1>6, <1>7, InStepEnds
<1>9. t.open /\ k = client => ClientSound(t, q, shell, collected)
  BY <1>1, <1>6, <1>7, <1>8, ClientKept
<1>10. t.open /\ k # client => SetUp(t, shell)
  BY <1>1, <1>6, <1>7, SetUpKept
<1>11. AskedOnce(t.requests) /\ \A c \in CommandIds : Awaits(c, t.requests) => Awaits(c, s.requests)
  BY <1>1, <1>3, AwaitsNone
<1>12. shell' \in ShellPlaces /\ shell' = shell /\ shellRuns' \in [CommandIds -> Nat]
  BY <1>2 DEF ShellTypes
<1>13. \A c \in CommandIds : SentUpTo(c, shell) <= SentUpTo(c, shell')
  BY <1>12, SentType
<1>14. StartsCounted'
  BY <1>2, <1>5, <1>11, <1>12, <1>13, RequestsShrink
<1> QED
  BY <1>5, <1>6, <1>9, <1>10, <1>12, <1>14, SocketServed

LEMMA FinishesStep ==
    ASSUME ShellInv, NEW k \in 1..MaxSockets, DaemonFinishes(k) PROVE ShellInv'
<1>1. sockets[k].busy \in CommandIds
  BY DEF ShellInv, ShellTypes, ShellSockets, DaemonFinishes
<1>2. OutputOf(sockets[k].busy) \in Seq(OutputPieces)
  BY <1>1, OutputIs
<1>3. /\ sockets[k].busy # 0 /\ sockets' = [sockets EXCEPT ![k] = Answer(k, "ack", NoChunk)]
      /\ outputs' = [outputs EXCEPT ![k] = OutputOf(sockets[k].busy)]
      /\ UNCHANGED <<backend, client, shell, collected, results, shellRuns>>
  BY DEF DaemonFinishes
<1> QED
  BY <1>2, <1>3, EndsStep

LEMMA TimesOutStep ==
    ASSUME ShellInv, NEW k \in 1..MaxSockets, DaemonTimesOut(k) PROVE ShellInv'
<1>1. outputs[k] \in Seq(OutputPieces) /\ outputs = [outputs EXCEPT ![k] = outputs[k]]
  BY SocketsSound
<1>2. /\ sockets[k].busy # 0 /\ sockets' = [sockets EXCEPT ![k] = Answer(k, "error", NoChunk)]
      /\ outputs' = outputs
      /\ UNCHANGED <<backend, client, shell, collected, results, shellRuns>>
  BY DEF DaemonTimesOut
<1> QED
  BY <1>1, <1>2, EndsStep

\* The daemon notices that a connection was closed.
LEMMA HangsUpStep ==
    ASSUME ShellInv, NEW k \in 1..MaxSockets, DaemonHangsUp(k) PROVE ShellInv'
<1>1. /\ ~sockets[k].open /\ sockets' = [sockets EXCEPT ![k] = NoSocket]
      /\ outputs' = outputs
      /\ UNCHANGED <<backend, client, shell, collected, results, shellRuns>>
  BY DEF DaemonHangsUp
<1>2. /\ sockets[k] \in ShellSockets /\ outputs[k] \in Seq(OutputPieces)
      /\ outputs = [outputs EXCEPT ![k] = outputs[k]]
  BY SocketsSound
<1>3. NoSocket.open = sockets[k].open
  <2>1. NoSocket.open = FALSE /\ sockets[k].open = FALSE
    BY <1>1, <1>2, NoSocketType DEF ShellSockets
  <2> QED
    BY <2>1
<1>4. /\ AskedOnce(NoSocket.requests)
      /\ \A c \in CommandIds : Awaits(c, NoSocket.requests) => Awaits(c, sockets[k].requests)
  BY AwaitsNone, NoSocketType
<1>5. shell' \in ShellPlaces /\ shell' = shell /\ shellRuns' \in [CommandIds -> Nat]
  BY <1>1 DEF ShellInv, ShellTypes
<1>6. \A c \in CommandIds : SentUpTo(c, shell) <= SentUpTo(c, shell')
  BY <1>5, SentType
<1>7. StartsCounted'
  BY <1>1, <1>4, <1>5, <1>6, RequestsShrink DEF ShellInv
<1> QED
  BY <1>1, <1>2, <1>3, <1>5, <1>7, NoSocketType, SocketServed

-----------------------------------------------------------------------------
(* ShellSession: steps of the tool.                                         *)

\* Steps that start no command.
LEMMA StartsStay ==
    ASSUME ShellInv, shellRuns' = shellRuns, shell' \in ShellPlaces,
           \A k \in 1..MaxSockets : AskedOnce(sockets'[k].requests),
           \A c \in CommandIds : NoMoreAwait(c),
           \A c \in CommandIds : SentUpTo(c, shell) <= SentUpTo(c, shell')
    PROVE  StartsCounted'
<1>1. ShellTypes /\ StartsCounted /\ shellRuns' \in [CommandIds -> Nat]
  BY DEF ShellInv, ShellTypes
<1> QED
  BY <1>1, StartsMove

LEMMA RequestsStay ==
    ASSUME ShellInv, \A k \in 1..MaxSockets : sockets'[k].requests = sockets[k].requests
    PROVE  /\ \A k \in 1..MaxSockets : AskedOnce(sockets'[k].requests)
           /\ \A c \in CommandIds : NoMoreAwait(c)
BY DEF ShellInv, StartsCounted, NoMoreAwait

\* A call returns.
LEMMA ReturnKeeps ==
    ASSUME ShellInv, shell.call \in CommandIds, NEW how, NEW text, Return(how, text),
           how = "ok" =>
              /\ client = 0 => IsOwnOutput(text, shell.call)
              /\ client # 0 /\ sockets[client].lost <= 1 => IsOwnOutput(text, shell.call)
    PROVE  /\ OutputOwnAfterDrop' /\ results' = [c \in CommandIds |-> results'[c]]
           /\ shell' \in ShellPlaces /\ shell'.at = "idle" /\ collected' = NothingRead
           /\ \A c \in CommandIds : SentUpTo(c, shell) <= SentUpTo(c, shell')
           /\ SentUpTo(shell.call, shell') = 2
<1> DEFINE lost == IF client = 0 THEN 0 ELSE sockets[client].lost
           r == [text |-> text, ended |-> how, lost |-> lost]
<1>1. /\ results' = [results EXCEPT ![shell.call] = r]
      /\ shell' = [call |-> shell.call + 1, at |-> "idle", attempt |-> 1]
      /\ collected' = NothingRead
  BY DEF Return
<1>2. /\ results = [c \in CommandIds |-> results[c]] /\ shell \in ShellPlaces
      /\ OutputOwnAfterDrop
  BY DEF ShellInv, ShellTypes
<1>3. \A c \in CommandIds : /\ SentUpTo(c, shell) <= SentUpTo(c, shell')
                            /\ c = shell.call => SentUpTo(c, shell') = 2
                            /\ shell' \in ShellPlaces
  BY <1>1, <1>2, SentReturns
<1>4. shell'.at = "idle" /\ shell' \in ShellPlaces
  BY <1>1, <1>3
<1>5. /\ results' = [c \in CommandIds |-> results'[c]] /\ results'[shell.call] = r
      /\ \A c \in CommandIds : c # shell.call => results'[c] = results[c]
  <2> HIDE DEF r
  <2> QED
    BY <1>1, <1>2
<1>6. r.ended = "ok" /\ r.lost <= 1 => IsOwnOutput(r.text, shell.call)
  <2>1. SUFFICES ASSUME how = "ok", lost <= 1 PROVE IsOwnOutput(text, shell.call)
    OBVIOUS
  <2>2. CASE client = 0
    BY <2>1, <2>2
  <2>3. CASE client # 0
    BY <2>1, <2>3
  <2> QED
    BY <2>2, <2>3
<1>7. OutputOwnAfterDrop'
  <2> HIDE DEF r
  <2>1. ASSUME NEW c \in CommandIds, results'[c].ended = "ok", results'[c].lost <= 1
        PROVE  IsOwnOutput(results'[c].text, c)
    <3>1. CASE c = shell.call
      BY <1>5, <1>6, <2>1, <3>1
    <3>2. CASE c # shell.call
      BY <1>2, <1>5, <2>1, <3>2 DEF OutputOwnAfterDrop
    <3> QED
      BY <3>1, <3>2
  <2> QED
    BY <2>1 DEF OutputOwnAfterDrop
<1> QED
  BY <1>1, <1>3, <1>4, <1>5, <1>7

\* A step without a connection.
LEMMA QuietMoves ==
    ASSUME ShellInv, client' = 0, sockets' \in [1..MaxSockets -> ShellSockets],
           outputs' \in [0..MaxSockets -> Seq(OutputPieces)],
           \A k \in 1..MaxSockets : ~sockets'[k].open,
           backend' \in {"starting", "sidecar", "local", "disabled"},
           shell' \in ShellPlaces, shell'.at \in {"idle", "local"},
           shell'.at = "idle" => collected' = NothingRead,
           shell'.at = "local" => /\ backend' = "local" /\ shell'.call \in CommandIds
                                  /\ InReading(shell'.call, collected', outputs'[0]),
           results' = [c \in CommandIds |-> results'[c]], shellRuns' \in [CommandIds -> Nat],
           StartsCounted', OutputOwnAfterDrop'
    PROVE  ShellInv'
<1>1. client' \in 0..MaxSockets
  BY ShellBounds
<1>2. ShellTypes'
  BY <1>1 DEF ShellTypes
<1>3. Connected'
  BY DEF Connected
<1>4. CallPlaced'
  BY DEF CallPlaced
<1> QED
  BY <1>2, <1>3, <1>4 DEF ShellInv

\* Without a connection, none is open unless one is being set up.
LEMMA NoneOpen ==
    ASSUME ShellInv, client = 0, shell.at \notin {"spawn", "respawn"}
    PROVE  \A k \in 1..MaxSockets : ~sockets[k].open
BY DEF ShellInv, Connected, SetUp

\* A step on the connection in use.
LEMMA ClientMoves ==
    ASSUME ShellInv, client # 0, NEW t \in ShellSockets, sockets' = [sockets EXCEPT ![client] = t],
           UNCHANGED <<backend, client, outputs>>, shell' \in ShellPlaces, t.open,
           ClientSound(t, outputs[client], shell', collected'),
           shell'.at # "idle" => shell'.call \in CommandIds,
           shell'.at \in {"idle", "exec"} => collected' = NothingRead,
           results' = [c \in CommandIds |-> results'[c]], shellRuns' \in [CommandIds -> Nat],
           StartsCounted', OutputOwnAfterDrop'
    PROVE  ShellInv'
<1>1. client \in 1..MaxSockets
  BY DEF ShellInv, ShellTypes
<1>2. /\ sockets'[client] = t /\ \A j \in 1..MaxSockets : j # client => sockets'[j] = sockets[j]
      /\ sockets' \in [1..MaxSockets -> ShellSockets]
  BY <1>1 DEF ShellInv, ShellTypes
<1>3. ShellTypes'
  BY <1>2 DEF ShellInv, ShellTypes
<1>4. sockets[client].open
  BY DEF ShellInv, Connected, ClientSound
<1>5. \A j \in 1..MaxSockets : j # client => ~sockets[j].open
  BY <1>1, <1>4 DEF ShellInv, Connected
<1>6. Connected'
  <2>1. \A j \in 1..MaxSockets : j # client => ~sockets'[j].open
    BY <1>2, <1>5
  <2>2. ClientSound(sockets'[client], outputs'[client], shell', collected')
    BY <1>2
  <2> QED
    BY <2>1, <2>2 DEF Connected
<1>7. backend = "sidecar" /\ shell'.at \in {"idle", "exec", "stream"}
  BY DEF ShellInv, CallPlaced, ClientSound
<1>8. CallPlaced'
  BY <1>7 DEF CallPlaced
<1> QED
  BY <1>3, <1>6, <1>8 DEF ShellInv

\* A command that was not sent yet waits nowhere.
LEMMA NoneAwaits ==
    ASSUME ShellInv, NEW c \in CommandIds, SentUpTo(c, shell) = 0
    PROVE  shellRuns[c] = 0 /\ \A k \in 1..MaxSockets : ~Awaits(c, sockets[k].requests)
<1> DEFINE A == AwaitingStart(c)
<1>1. A \in SUBSET (1..MaxSockets) /\ \A k \in 1..MaxSockets : k \in A <=> Awaits(c, sockets[k].requests)
  BY DEF AwaitingStart
<1>2. Cardinality(A) + shellRuns[c] <= 0 /\ shellRuns[c] \in Nat
  BY DEF ShellInv, StartsCounted, ShellTypes
<1>3. 1 \in 1..MaxSockets
  BY ShellBounds
<1> HIDE DEF A
<1>4. Cardinality(A) \in Nat
  BY <1>1, <1>3, CountSockets
<1>5. Cardinality(A) = 0 /\ shellRuns[c] = 0
  BY <1>2, <1>4
<1>6. ASSUME NEW k \in 1..MaxSockets, k \in A PROVE FALSE
  <2>1. Cardinality({}) + 1 <= Cardinality(A)
    <3>1. {} \in SUBSET (1..MaxSockets) /\ {} \subseteq A \ {k}
      OBVIOUS
    <3> QED
      BY <1>1, <1>6, <3>1, CountSockets
  <2>2. Cardinality({}) \in Nat
    BY <1>1, <1>3, CountSockets
  <2> QED
    BY <1>5, <2>1, <2>2
<1> QED
  BY <1>1, <1>5, <1>6

\* The connection in use.
LEMMA ClientIs ==
    ASSUME ShellInv, client # 0
    PROVE  /\ client \in 1..MaxSockets /\ sockets[client] \in ShellSockets
           /\ ClientSound(sockets[client], outputs[client], shell, collected)
           /\ sockets[client].open /\ AskedOnce(sockets[client].requests)
           /\ sockets[client].requests \in Seq(ShellRequests)
           /\ sockets[client].answers \in Seq(ShellAnswers)
           /\ backend = "sidecar" /\ shell.at \in {"idle", "exec", "stream"} /\ shell \in ShellPlaces
<1>1. client \in 1..MaxSockets /\ shell \in ShellPlaces
  BY DEF ShellInv, ShellTypes
<1>2. /\ sockets[client] \in ShellSockets /\ AskedOnce(sockets[client].requests)
      /\ ClientSound(sockets[client], outputs[client], shell, collected)
  BY <1>1, SocketsSound
<1>3. sockets[client].open /\ shell.at \in {"idle", "exec", "stream"}
  BY <1>2 DEF ClientSound
<1>4. backend = "sidecar"
  BY DEF ShellInv, CallPlaced
<1> QED
  BY <1>1, <1>2, <1>3, <1>4, SocketLengths

LEMMA ShellTyped ==
    ASSUME ShellInv
    PROVE  /\ backend \in {"starting", "sidecar", "local", "disabled"} /\ client \in 0..MaxSockets
           /\ sockets \in [1..MaxSockets -> ShellSockets]
           /\ outputs \in [0..MaxSockets -> Seq(OutputPieces)]
           /\ shell \in ShellPlaces /\ results = [c \in CommandIds |-> results[c]]
           /\ shellRuns \in [CommandIds -> Nat] /\ OutputOwnAfterDrop
           /\ \A c \in CommandIds : SentUpTo(c, shell) <= SentUpTo(c, shell)
<1>1. shell \in ShellPlaces
  BY DEF ShellInv, ShellTypes
<1>2. \A c \in CommandIds : SentUpTo(c, shell) <= SentUpTo(c, shell)
  BY <1>1, SentType
<1> QED
  BY <1>1, <1>2 DEF ShellInv, ShellTypes

\* A call is refused, or its command sent.
LEMMA StartCommandStep == ASSUME ShellInv, StartCommand PROVE ShellInv'
<1>1. /\ shell.at = "idle" /\ shell.call \in CommandIds
      /\ UNCHANGED <<backend, client, outputs, shellRuns>>
  BY DEF StartCommand
<1>2. CASE /\ backend = "disabled" \/ (backend = "sidecar" /\ client = 0)
           /\ Return("failed", NothingRead) /\ sockets' = sockets
  <2>1. client = 0
    BY <1>2 DEF ShellInv, CallPlaced
  <2>2. \A k \in 1..MaxSockets : ~sockets'[k].open
    BY <1>1, <1>2, <2>1, NoneOpen
  <2>3. /\ OutputOwnAfterDrop' /\ results' = [c \in CommandIds |-> results'[c]]
        /\ shell' \in ShellPlaces /\ shell'.at = "idle" /\ collected' = NothingRead
        /\ \A c \in CommandIds : SentUpTo(c, shell) <= SentUpTo(c, shell')
    BY <1>1, <1>2, ReturnKeeps
  <2>4. StartsCounted'
    BY <1>1, <1>2, <2>3, RequestsStay, StartsStay
  <2>5. shell'.at \in {"idle", "local"} /\ shell'.at # "local"
    BY <2>3
  <2> QED
    BY <1>1, <1>2, <2>1, <2>2, <2>3, <2>4, <2>5, ShellTyped, QuietMoves
<1>3. CASE /\ client # 0 /\ sockets' = Send(client, "exec", shell.call)
           /\ shell' = [shell EXCEPT !.at = "exec"] /\ UNCHANGED <<collected, results>>
  <2> DEFINE s == sockets[client]
             r == [kind |-> "exec", call |-> shell.call]
             t == [s EXCEPT !.requests = Append(s.requests, r)]
  <2>1. /\ client \in 1..MaxSockets /\ s \in ShellSockets /\ s.open /\ AskedOnce(s.requests)
        /\ ClientSound(s, outputs[client], shell, collected)
        /\ s.requests \in Seq(ShellRequests) /\ shell \in ShellPlaces
    BY <1>3, ClientIs
  <2>2. r \in ShellRequests /\ r.kind = "exec" /\ r.call = shell.call
    BY <1>1 DEF ShellRequests
  <2>3. sockets' = [sockets EXCEPT ![client] = t] /\ s = sockets[client]
    BY <1>3 DEF Send
  <2> HIDE DEF s, r
  <2>4. /\ t \in ShellSockets /\ t.answers = s.answers /\ t.busy = s.busy
        /\ t.requests = Append(s.requests, r) /\ t.open = s.open /\ t.lost = s.lost
    <3>1. Append(s.requests, r) \in Seq(ShellRequests)
      BY <2>1, <2>2, AppendProperties
    <3> QED
      BY <2>1, <3>1 DEF ShellSockets
  <2> HIDE DEF t
  <2>5. shell' \in ShellPlaces /\ shell'.at = "exec" /\ shell'.call = shell.call /\ shell'.attempt = shell.attempt
    BY <1>3, <2>1 DEF ShellPlaces
  <2>6. ClientSound(t, outputs[client], shell', collected)
    BY <1>1, <2>1, <2>2, <2>4, <2>5, ClientSends
  <2>7. SentUpTo(shell.call, shell) = 0 /\ SentUpTo(shell.call, shell) + 1 <= SentUpTo(shell.call, shell')
    <3>1. shell.call \in Int /\ shell.attempt \in Int /\ shell.attempt >= 1
      BY <2>1 DEF ShellPlaces
    <3> QED
      BY <1>1, <2>5, <3>1 DEF SentUpTo
  <2>8. ASSUME NEW c \in CommandIds, c # shell.call
        PROVE  SentUpTo(c, shell) <= SentUpTo(c, shell')
    <3>1. c \in Int /\ shell.call \in Int
      BY <2>1 DEF ShellPlaces, CommandIds
    <3> QED
      BY <1>1, <2>5, <2>8, <3>1 DEF SentUpTo
  <2>9. \A k \in 1..MaxSockets : ~Awaits(shell.call, sockets[k].requests)
    BY <1>1, <2>7, NoneAwaits
  <2>10. /\ AskedOnce(t.requests)
         /\ \A c \in CommandIds : Awaits(c, t.requests) => Awaits(c, s.requests) \/ IsExec(c, r)
    <3>1. \A c \in CommandIds : IsExec(c, r) => c = shell.call
      BY <2>2 DEF IsExec
    <3>2. \A c \in CommandIds : IsExec(c, r) => ~Awaits(c, s.requests)
      BY <2>1, <2>9, <3>1 DEF s
    <3> QED
      BY <2>1, <2>2, <2>4, <3>2, AwaitsAppend
  <2>11. sockets'[client] = t /\ \A k \in 1..MaxSockets : k # client => sockets'[k] = sockets[k]
    BY <2>1, <2>3, ShellTyped
  <2>12. StartsCounted'
    <3>1. \A c \in CommandIds : c # shell.call => NoMoreAwait(c)
      BY <2>2, <2>3, <2>10, <2>11 DEF NoMoreAwait, IsExec
    <3>2. \A k \in 1..MaxSockets : AskedOnce(sockets'[k].requests)
      BY <2>10, <2>11 DEF ShellInv, StartsCounted
    <3>3. \A k \in 1..MaxSockets \ {client} :
             Awaits(shell.call, sockets'[k].requests) => Awaits(shell.call, sockets[k].requests)
      BY <2>11
    <3>4. ASSUME NEW c \in CommandIds
          PROVE  \/ /\ NoMoreAwait(c) /\ shellRuns'[c] = shellRuns[c]
                    /\ SentUpTo(c, shell) <= SentUpTo(c, shell')
                 \/ /\ shellRuns'[c] = shellRuns[c] /\ SentUpTo(c, shell) + 1 <= SentUpTo(c, shell')
                    /\ \E j \in 1..MaxSockets : \A k \in 1..MaxSockets \ {j} :
                          Awaits(c, sockets'[k].requests) => Awaits(c, sockets[k].requests)
      <4>1. CASE c = shell.call
        BY <1>1, <2>1, <2>7, <3>3, <4>1
      <4>2. CASE c # shell.call
        BY <1>1, <2>8, <3>1, <4>2
      <4> QED
        BY <4>1, <4>2
    <3>5. ShellTypes /\ StartsCounted /\ shellRuns' \in [CommandIds -> Nat]
      BY <1>1 DEF ShellInv, ShellTypes
    <3> QED
      BY <2>5, <3>2, <3>4, <3>5, StartsMove
  <2>13. collected' = NothingRead
    BY <1>1, <1>3 DEF ShellInv, CallPlaced
  <2>14. /\ results' = [c \in CommandIds |-> results'[c]] /\ shellRuns' \in [CommandIds -> Nat]
         /\ OutputOwnAfterDrop'
    BY <1>1, <1>3, ShellTyped DEF OutputOwnAfterDrop
  <2>15. ClientSound(t, outputs[client], shell', collected') /\ t.open
    BY <1>3, <2>1, <2>4, <2>6
  <2>16. shell'.call \in CommandIds
    BY <1>1, <2>5
  <2> QED
    BY <1>1, <1>3, <2>3, <2>4, <2>5, <2>12, <2>13, <2>14, <2>15, <2>16, ClientMoves
<1> QED
  BY <1>2, <1>3 DEF StartCommand

\* A connection from which an answer was taken, and one on which output was
\* then asked for.
ReadFrom(s) == [s EXCEPT !.answers = Tail(s.answers)]
StreamRequest(c) == [kind |-> "stream", call |-> c]
AskedFrom(s, c) == [ReadFrom(s) EXCEPT !.requests = Append(s.requests, StreamRequest(c))]

LEMMA ReadFromIs ==
    ASSUME NEW s \in ShellSockets, s.answers # <<>>
    PROVE  /\ ReadFrom(s) \in ShellSockets /\ ReadFrom(s).answers = Tail(s.answers)
           /\ ReadFrom(s).busy = s.busy /\ ReadFrom(s).requests = s.requests
           /\ ReadFrom(s).open = s.open /\ ReadFrom(s).lost = s.lost
<1>1. s.answers \in Seq(ShellAnswers)
  BY SocketLengths
<1>2. Tail(s.answers) \in Seq(ShellAnswers)
  BY <1>1, HeadTailProperties
<1> QED
  BY <1>2 DEF ReadFrom, ShellSockets

LEMMA AskedFromIs ==
    ASSUME NEW s \in ShellSockets, s.answers # <<>>, AskedOnce(s.requests), NEW c \in CommandIds
    PROVE  /\ AskedFrom(s, c) \in ShellSockets /\ AskedFrom(s, c).answers = Tail(s.answers)
           /\ AskedFrom(s, c).busy = s.busy /\ AskedFrom(s, c).open = s.open
           /\ AskedFrom(s, c).lost = s.lost
           /\ AskedFrom(s, c).requests = Append(s.requests, StreamRequest(c))
           /\ StreamRequest(c) \in ShellRequests /\ StreamRequest(c).kind = "stream"
           /\ AskedOnce(AskedFrom(s, c).requests)
           /\ \A d \in CommandIds : Awaits(d, AskedFrom(s, c).requests) => Awaits(d, s.requests)
<1> DEFINE u == ReadFrom(s)
           r == StreamRequest(c)
           more == Append(s.requests, r)
           t == [u EXCEPT !.requests = more]
<1>1. /\ u \in ShellSockets /\ u.answers = Tail(s.answers) /\ u.busy = s.busy
      /\ u.requests = s.requests /\ u.open = s.open /\ u.lost = s.lost
  BY ReadFromIs
<1>2. r \in ShellRequests /\ r.kind = "stream"
  BY DEF ShellRequests, StreamRequest
<1>3. \A d \in CommandIds : ~IsExec(d, r)
  BY <1>2 DEF IsExec
<1>4. AskedFrom(s, c) = t
  BY DEF AskedFrom
<1> HIDE DEF u, r
<1>5. s.requests \in Seq(ShellRequests)
  BY SocketLengths
<1>6. more \in Seq(ShellRequests)
  BY <1>2, <1>5, AppendProperties
<1>7. AskedOnce(more) /\ \A d \in CommandIds : Awaits(d, more) => Awaits(d, s.requests)
  BY <1>2, <1>3, <1>5, AwaitsAppend
<1> HIDE DEF more
<1>8. /\ t \in ShellSockets /\ t.answers = u.answers /\ t.busy = u.busy
      /\ t.requests = more /\ t.open = u.open /\ t.lost = u.lost
  BY <1>1, <1>6 DEF ShellSockets
<1> HIDE DEF t
<1> QED
  BY <1>1, <1>2, <1>4, <1>7, <1>8 DEF more, r

\* What a client has before it when it takes an answer.
LEMMA ReceivedIs ==
    ASSUME ShellInv, HasFrame
    PROVE  /\ client \in 1..MaxSockets /\ client # 0 /\ sockets[client] \in ShellSockets
           /\ sockets[client].answers # <<>> /\ sockets[client].open
           /\ AskedOnce(sockets[client].requests)
           /\ ClientSound(sockets[client], outputs[client], shell, collected)
           /\ Received = [sockets EXCEPT ![client] = ReadFrom(sockets[client])]
           /\ \A c \in CommandIds :
                 [Received EXCEPT ![client].requests = Append(@, StreamRequest(c))]
                   = [sockets EXCEPT ![client] = AskedFrom(sockets[client], c)]
<1>1. client # 0 /\ sockets[client].answers # <<>>
  BY DEF HasFrame
<1>2. /\ client \in 1..MaxSockets /\ sockets[client] \in ShellSockets /\ sockets[client].open
      /\ AskedOnce(sockets[client].requests)
      /\ ClientSound(sockets[client], outputs[client], shell, collected)
  BY <1>1, ClientIs
<1>3. sockets \in [1..MaxSockets -> ShellSockets]
  BY ShellTyped
<1>4. Received = [sockets EXCEPT ![client] = ReadFrom(sockets[client])]
  BY <1>2, <1>3 DEF Received, ReadFrom
<1>5. ReadFrom(sockets[client]).requests = sockets[client].requests
  BY <1>1, <1>2, ReadFromIs
<1>6. ASSUME NEW c \in CommandIds
      PROVE  [Received EXCEPT ![client].requests = Append(@, StreamRequest(c))]
                = [sockets EXCEPT ![client] = AskedFrom(sockets[client], c)]
  <2>1. Received[client] = ReadFrom(sockets[client]) /\ client \in DOMAIN Received
    BY <1>2, <1>3, <1>4
  <2>2. [Received EXCEPT ![client].requests = Append(@, StreamRequest(c))]
          = [Received EXCEPT ![client] = AskedFrom(sockets[client], c)]
    BY <1>5, <2>1 DEF AskedFrom
  <2> QED
    BY <1>2, <1>3, <1>4, <2>2
<1> QED
  BY <1>1, <1>2, <1>4, <1>6

\* Counting for such a step.
LEMMA ClientStartsStay ==
    ASSUME ShellInv, client \in 1..MaxSockets, NEW t, sockets' = [sockets EXCEPT ![client] = t],
           AskedOnce(t.requests), shellRuns' = shellRuns, shell' \in ShellPlaces,
           \A c \in CommandIds : Awaits(c, t.requests) => Awaits(c, sockets[client].requests),
           \A c \in CommandIds : SentUpTo(c, shell) <= SentUpTo(c, shell')
    PROVE  StartsCounted' /\ shellRuns' \in [CommandIds -> Nat]
<1>1. ShellTypes /\ StartsCounted /\ shellRuns' \in [CommandIds -> Nat]
  BY DEF ShellInv, ShellTypes
<1> QED
  BY <1>1, RequestsShrink


LEMMA ReadAckStep == ASSUME ShellInv, ReadAck PROVE ShellInv'
<1> DEFINE s == sockets[client]
           u == ReadFrom(s)
           r == StreamRequest(shell.call)
           t == AskedFrom(s, shell.call)
<1>1. /\ shell.at = "exec" /\ HasFrame /\ s.answers[1].kind = "ack"
      /\ sockets' = [Received EXCEPT ![client].requests = Append(@, r)]
      /\ shell' = [shell EXCEPT !.at = "stream"]
      /\ UNCHANGED <<backend, client, outputs, collected, results, shellRuns>>
  BY DEF ReadAck, First, StreamRequest
<1>2. shell.call \in CommandIds /\ shell \in ShellPlaces /\ collected = NothingRead
  BY <1>1 DEF ShellInv, ShellTypes, CallPlaced
<1>3. /\ client \in 1..MaxSockets /\ client # 0 /\ s \in ShellSockets /\ s.answers # <<>>
      /\ s.open /\ AskedOnce(s.requests) /\ ClientSound(s, outputs[client], shell, collected)
  BY <1>1, ReceivedIs
<1>4. sockets' = [sockets EXCEPT ![client] = t] /\ s = sockets[client]
  BY <1>1, <1>2, ReceivedIs
<1>5. /\ u \in ShellSockets /\ u.answers = Tail(s.answers) /\ u.busy = s.busy
      /\ u.requests = s.requests
  BY <1>3, ReadFromIs
<1>6. /\ r \in ShellRequests /\ r.kind = "stream"
      /\ t \in ShellSockets /\ t.answers = u.answers /\ t.busy = u.busy
      /\ t.requests = Append(u.requests, r) /\ t.open = s.open /\ t.lost = s.lost
      /\ AskedOnce(t.requests)
      /\ \A d \in CommandIds : Awaits(d, t.requests) => Awaits(d, s.requests)
  BY <1>2, <1>3, <1>5, AskedFromIs
<1> HIDE DEF s, u, r, t
<1>7. shell' \in ShellPlaces /\ shell'.at = "stream" /\ shell'.call = shell.call
      /\ shell'.attempt = shell.attempt
  BY <1>1, <1>2 DEF ShellPlaces
<1>8. ClientSound(t, outputs[client], shell', NothingRead)
  BY <1>1, <1>2, <1>3, <1>5, <1>6, <1>7, ClientAcked
<1>9. \A c \in CommandIds : SentUpTo(c, shell) <= SentUpTo(c, shell')
  <2>1. SUFFICES ASSUME NEW c \in CommandIds PROVE SentUpTo(c, shell') = SentUpTo(c, shell)
    BY <1>2, SentType
  <2> QED
    BY <1>1, <1>7 DEF SentUpTo
<1>10. StartsCounted' /\ shellRuns' \in [CommandIds -> Nat]
  BY <1>1, <1>3, <1>4, <1>6, <1>7, <1>9, ClientStartsStay
<1>11. results' = [c \in CommandIds |-> results'[c]] /\ OutputOwnAfterDrop'
  BY <1>1, ShellTyped DEF OutputOwnAfterDrop
<1>12. /\ shell'.at \notin {"idle", "exec"} /\ shell'.call \in CommandIds
       /\ ClientSound(t, outputs[client], shell', collected') /\ t.open
  BY <1>1, <1>2, <1>3, <1>6, <1>7, <1>8
<1> QED
  BY <1>1, <1>3, <1>4, <1>6, <1>7, <1>10, <1>11, <1>12, ClientMoves

LEMMA ReadChunkStep == ASSUME ShellInv, ReadChunk PROVE ShellInv'
<1> DEFINE s == sockets[client]
           u == ReadFrom(s)
           r == StreamRequest(shell.call)
           t == AskedFrom(s, shell.call)
           text == Collected(collected, s.answers[1].chunk.piece)
<1>1. /\ shell.at = "stream" /\ HasFrame /\ s.answers[1].kind = "chunk"
      /\ UNCHANGED <<backend, client, outputs, shellRuns>>
  BY DEF ReadChunk, First
<1>2. \/ s.answers[1].chunk.eof /\ Return("ok", text) /\ sockets' = Received
      \/ /\ collected' = text /\ UNCHANGED <<shell, results>>
         /\ sockets' = [Received EXCEPT ![client].requests = Append(@, r)]
  BY DEF ReadChunk, First, StreamRequest
<1>3. shell.call \in CommandIds /\ shell \in ShellPlaces
  BY <1>1 DEF ShellInv, ShellTypes, CallPlaced
<1>4. /\ client \in 1..MaxSockets /\ client # 0 /\ s \in ShellSockets /\ s.answers # <<>>
      /\ s.open /\ AskedOnce(s.requests) /\ ClientSound(s, outputs[client], shell, collected)
      /\ Received = [sockets EXCEPT ![client] = u]
      /\ [Received EXCEPT ![client].requests = Append(@, r)] = [sockets EXCEPT ![client] = t]
      /\ s = sockets[client]
  BY <1>1, <1>3, ReceivedIs
<1>5. /\ u \in ShellSockets /\ u.answers = Tail(s.answers) /\ u.busy = s.busy
      /\ u.requests = s.requests /\ u.open /\ u.lost = s.lost
  BY <1>4, ReadFromIs
<1>6. /\ r \in ShellRequests /\ r.kind = "stream"
      /\ t \in ShellSockets /\ t.answers = u.answers /\ t.busy = u.busy
      /\ t.requests = Append(u.requests, r) /\ t.open /\ t.lost = s.lost
      /\ AskedOnce(t.requests)
      /\ \A d \in CommandIds : Awaits(d, t.requests) => Awaits(d, s.requests)
  BY <1>3, <1>4, <1>5, AskedFromIs
<1>7. text = Collected(collected, s.answers[1].chunk.piece)
  OBVIOUS
<1> HIDE DEF s, u, r, t, text
<1>8. /\ s.lost # 1
      /\ s.lost = 0 =>
           /\ Owed(s) = 1 /\ InReading(shell.call, text, outputs[client])
           /\ s.answers[1].chunk.eof = (outputs[client] = <<>>)
  BY <1>1, <1>4, <1>7, ChunkInStep
<1>9. CASE s.answers[1].chunk.eof /\ Return("ok", text) /\ sockets' = Received
  <2>1. ASSUME s.lost <= 1 PROVE IsOwnOutput(text, shell.call)
    <3>1. s.lost = 0
      <4>1. s.lost \in Nat
        BY <1>4 DEF ShellSockets
      <4> QED
        BY <1>8, <2>1, <4>1
    <3>2. InReading(shell.call, text, <<>>)
      BY <1>8, <1>9, <3>1
    <3> QED
      BY <1>3, <3>2, ReadingDone
  <2>2. /\ OutputOwnAfterDrop' /\ results' = [c \in CommandIds |-> results'[c]]
        /\ shell' \in ShellPlaces /\ shell'.at = "idle" /\ collected' = NothingRead
        /\ \A c \in CommandIds : SentUpTo(c, shell) <= SentUpTo(c, shell')
    BY <1>3, <1>4, <1>9, <2>1, ReturnKeeps
  <2>3. ClientSound(u, outputs[client], shell', collected')
    BY <1>1, <1>4, <1>5, <2>2, ClientAnswered
  <2>4. /\ sockets' = [sockets EXCEPT ![client] = u]
        /\ AskedOnce(u.requests)
        /\ \A d \in CommandIds : Awaits(d, u.requests) => Awaits(d, s.requests)
    BY <1>4, <1>5, <1>9
  <2>5. StartsCounted' /\ shellRuns' \in [CommandIds -> Nat]
    BY <1>1, <1>4, <2>2, <2>4, ClientStartsStay
  <2> QED
    BY <1>1, <1>4, <1>5, <2>2, <2>3, <2>4, <2>5, ClientMoves
<1>10. CASE /\ collected' = text /\ UNCHANGED <<shell, results>>
            /\ sockets' = [Received EXCEPT ![client].requests = Append(@, r)]
  <2>1. sockets' = [sockets EXCEPT ![client] = t]
    BY <1>4, <1>10
  <2>2. ClientSound(t, outputs[client], shell, Collected(collected, s.answers[1].chunk.piece))
    BY <1>1, <1>4, <1>5, <1>6, ClientReadsOn
  <2>3. \A c \in CommandIds : SentUpTo(c, shell) <= SentUpTo(c, shell')
    BY <1>10, ShellTyped
  <2>4. shell' \in ShellPlaces
    BY <1>3, <1>10
  <2>5. StartsCounted' /\ shellRuns' \in [CommandIds -> Nat]
    BY <1>1, <1>4, <1>6, <2>1, <2>3, <2>4, ClientStartsStay
  <2>6. results' = [c \in CommandIds |-> results'[c]] /\ OutputOwnAfterDrop'
    BY <1>10, ShellTyped DEF OutputOwnAfterDrop
  <2>7. /\ shell'.at \notin {"idle", "exec"} /\ shell'.call \in CommandIds
        /\ ClientSound(t, outputs[client], shell', collected')
    BY <1>1, <1>3, <1>7, <1>10, <2>2
  <2> QED
    BY <1>1, <1>4, <1>6, <2>1, <2>4, <2>5, <2>6, <2>7, ClientMoves
<1> QED
  BY <1>2, <1>9, <1>10

LEMMA FailAgainStep == ASSUME ShellInv, FailAgain PROVE ShellInv'
<1> DEFINE s == sockets[client]
           u == ReadFrom(s)
<1>1. /\ shell.at = "exec" /\ HasFrame /\ sockets' = Received /\ Return("failed", NothingRead)
      /\ UNCHANGED <<backend, client, outputs, shellRuns>>
  BY DEF FailAgain
<1>2. shell.call \in CommandIds
  BY <1>1 DEF ShellInv, CallPlaced
<1>3. /\ client \in 1..MaxSockets /\ client # 0 /\ s \in ShellSockets /\ s.answers # <<>>
      /\ s.open /\ AskedOnce(s.requests) /\ ClientSound(s, outputs[client], shell, collected)
      /\ sockets' = [sockets EXCEPT ![client] = u] /\ s = sockets[client]
  BY <1>1, ReceivedIs
<1>4. /\ u \in ShellSockets /\ u.answers = Tail(s.answers) /\ u.busy = s.busy
      /\ u.requests = s.requests /\ u.open /\ u.lost = s.lost
  BY <1>3, ReadFromIs
<1> HIDE DEF s, u
<1>5. /\ OutputOwnAfterDrop' /\ results' = [c \in CommandIds |-> results'[c]]
      /\ shell' \in ShellPlaces /\ shell'.at = "idle" /\ collected' = NothingRead
      /\ \A c \in CommandIds : SentUpTo(c, shell) <= SentUpTo(c, shell')
  BY <1>1, <1>2, ReturnKeeps
<1>6. ClientSound(u, outputs[client], shell', collected')
  BY <1>1, <1>3, <1>4, <1>5, ClientAnswered
<1>7. /\ AskedOnce(u.requests)
      /\ \A d \in CommandIds : Awaits(d, u.requests) => Awaits(d, s.requests)
  BY <1>3, <1>4
<1>8. StartsCounted' /\ shellRuns' \in [CommandIds -> Nat]
  BY <1>1, <1>3, <1>5, <1>7, ClientStartsStay
<1> QED
  BY <1>1, <1>3, <1>4, <1>5, <1>6, <1>8, ClientMoves

\* The connection cannot be replaced: none is left.
LEMMA ReconnectRefusedStep == ASSUME ShellInv, ReconnectRefused PROVE ShellInv'
<1> DEFINE s == sockets[client]
           u == ReadFrom(s)
           t == [u EXCEPT !.open = FALSE]
<1>1. /\ shell.at \in {"exec", "stream"} /\ HasFrame /\ client' = 0
      /\ sockets' = [Received EXCEPT ![client].open = FALSE] /\ Return("failed", NothingRead)
      /\ UNCHANGED <<backend, outputs, shellRuns>>
  BY DEF ReconnectRefused
<1>2. shell.call \in CommandIds
  BY <1>1 DEF ShellInv, CallPlaced
<1>3. /\ client \in 1..MaxSockets /\ s \in ShellSockets /\ s.answers # <<>>
      /\ s.open /\ Received = [sockets EXCEPT ![client] = u]
  BY <1>1, ReceivedIs
<1>4. u \in ShellSockets /\ u.requests = s.requests
  BY <1>3, ReadFromIs
<1>5. sockets \in [1..MaxSockets -> ShellSockets] /\ s = sockets[client]
  BY ShellTyped
<1> HIDE DEF s, u
<1>6. sockets' = [sockets EXCEPT ![client] = t]
  BY <1>1, <1>3, <1>5
<1>7. t \in ShellSockets /\ t.requests = u.requests /\ ~t.open
  BY <1>4 DEF ShellSockets
<1> HIDE DEF t
<1>8. /\ sockets'[client] = t /\ \A k \in 1..MaxSockets : k # client => sockets'[k] = sockets[k]
      /\ sockets' \in [1..MaxSockets -> ShellSockets]
  BY <1>3, <1>5, <1>6, <1>7
<1>9. \A k \in 1..MaxSockets : ~sockets'[k].open
  BY <1>3, <1>5, <1>7, <1>8 DEF ShellInv, Connected
<1>10. /\ OutputOwnAfterDrop' /\ results' = [c \in CommandIds |-> results'[c]]
       /\ shell' \in ShellPlaces /\ shell'.at = "idle" /\ collected' = NothingRead
       /\ \A c \in CommandIds : SentUpTo(c, shell) <= SentUpTo(c, shell')
  BY <1>1, <1>2, ReturnKeeps
<1>11. \A k \in 1..MaxSockets : sockets'[k].requests = sockets[k].requests
  BY <1>4, <1>5, <1>7, <1>8
<1>12. StartsCounted'
  BY <1>1, <1>10, <1>11, RequestsStay, StartsStay
<1>13. /\ shell'.at \in {"idle", "local"} /\ shell'.at # "local"
       /\ backend' \in {"starting", "sidecar", "local", "disabled"}
       /\ outputs' \in [0..MaxSockets -> Seq(OutputPieces)] /\ shellRuns' \in [CommandIds -> Nat]
  BY <1>1, <1>10, ShellTyped
<1> QED
  BY <1>1, <1>8, <1>9, <1>10, <1>12, <1>13, QuietMoves

\* A call is dropped where it waits.
LEMMA DropCommandStep == ASSUME ShellInv, DropCommand PROVE ShellInv'
<1>1. /\ shell.at # "idle" /\ Return("dropped", NothingRead)
      /\ UNCHANGED <<backend, client, outputs, shellRuns>>
  BY DEF DropCommand
<1>2. shell.call \in CommandIds /\ shell \in ShellPlaces
  BY <1>1 DEF ShellInv, CallPlaced, ShellTypes
<1>3. /\ OutputOwnAfterDrop' /\ results' = [c \in CommandIds |-> results'[c]]
      /\ shell' \in ShellPlaces /\ shell'.at = "idle" /\ collected' = NothingRead
      /\ \A c \in CommandIds : SentUpTo(c, shell) <= SentUpTo(c, shell')
  BY <1>1, <1>2, ReturnKeeps
<1>4. /\ shell'.at \in {"idle", "local"} /\ shell'.at # "local"
      /\ backend' \in {"starting", "sidecar", "local", "disabled"}
      /\ outputs' \in [0..MaxSockets -> Seq(OutputPieces)] /\ shellRuns' \in [CommandIds -> Nat]
  BY <1>1, <1>3, ShellTyped
<1>5. sockets \in [1..MaxSockets -> ShellSockets]
  BY ShellTyped
<1>6. CASE shell.at \in {"spawn", "respawn"}
  <2>1. sockets' = [k \in 1..MaxSockets |-> [sockets[k] EXCEPT !.open = FALSE]]
    BY <1>5, <1>6 DEF DropCommand
  <2>2. ASSUME NEW k \in 1..MaxSockets
        PROVE  /\ sockets'[k] \in ShellSockets /\ ~sockets'[k].open
               /\ sockets'[k].requests = sockets[k].requests
    <3> DEFINE s == sockets[k]
    <3>1. s \in ShellSockets /\ sockets'[k] = [s EXCEPT !.open = FALSE]
      BY <1>5, <2>1
    <3>2. FALSE \in BOOLEAN
      OBVIOUS
    <3> HIDE DEF s
    <3>3. [s EXCEPT !.open = FALSE] \in ShellSockets /\ [s EXCEPT !.open = FALSE].open = FALSE
          /\ [s EXCEPT !.open = FALSE].requests = s.requests
      BY <3>1, <3>2 DEF ShellSockets
    <3> QED
      BY <3>1, <3>3 DEF s
  <2>3. sockets' \in [1..MaxSockets -> ShellSockets]
    <3>1. sockets' = [k \in 1..MaxSockets |-> sockets'[k]]
      BY <2>1
    <3> QED
      BY <2>2, <3>1
  <2>4. StartsCounted'
    BY <1>1, <1>3, <2>2, RequestsStay, StartsStay
  <2>5. client' = 0
    BY <1>1, <1>6 DEF ShellInv, CallPlaced
  <2> QED
    BY <1>3, <1>4, <2>2, <2>3, <2>4, <2>5, QuietMoves
<1>7. CASE shell.at \in {"exec", "stream"}
  <2> DEFINE s == sockets[client]
             t == [s EXCEPT !.lost = s.lost + 1]
  <2>1. client # 0
    BY <1>7 DEF ShellInv, CallPlaced
  <2>2. /\ client \in 1..MaxSockets /\ s \in ShellSockets /\ s.open
        /\ ClientSound(s, outputs[client], shell, collected) /\ AskedOnce(s.requests)
    BY <2>1, ClientIs
  <2>3. sockets' = [sockets EXCEPT ![client] = t] /\ s = sockets[client]
    BY <1>5, <1>7, <2>2 DEF DropCommand
  <2> HIDE DEF s
  <2>4. /\ t \in ShellSockets /\ t.answers = s.answers /\ t.busy = s.busy
        /\ t.requests = s.requests /\ t.open /\ t.lost = s.lost + 1
    <3>1. s.lost \in Nat /\ s.lost + 1 \in Nat
      BY <2>2 DEF ShellSockets
    <3> QED
      BY <2>2, <3>1 DEF ShellSockets
  <2> HIDE DEF t
  <2>5. ClientSound(t, outputs[client], shell', collected')
    BY <1>3, <1>7, <2>2, <2>4, ClientDropped
  <2>6. /\ AskedOnce(t.requests)
        /\ \A c \in CommandIds : Awaits(c, t.requests) => Awaits(c, s.requests)
    BY <2>2, <2>4
  <2>7. StartsCounted'
    BY <1>1, <1>3, <2>2, <2>3, <2>6, ClientStartsStay
  <2> QED
    BY <1>1, <1>3, <1>4, <2>1, <2>3, <2>4, <2>5, <2>7, ClientMoves
<1>8. CASE shell.at = "local"
  <2>1. sockets' = sockets
    BY <1>8 DEF DropCommand
  <2>2. client = 0
    BY <1>8 DEF ShellInv, CallPlaced
  <2>3. \A k \in 1..MaxSockets : ~sockets'[k].open
    BY <1>8, <2>1, <2>2, NoneOpen
  <2>4. StartsCounted'
    BY <1>1, <1>3, <2>1, RequestsStay, StartsStay
  <2> QED
    BY <1>1, <1>3, <1>4, <1>5, <2>1, <2>2, <2>3, <2>4, QuietMoves
<1> QED
  BY <1>1, <1>2, <1>6, <1>7, <1>8 DEF ShellPlaces

\* A command runs under the mutex.
LEMMA RunLocallyStep == ASSUME ShellInv, NEW ends, RunLocally(ends) PROVE ShellInv'
<1>1. /\ backend = "local" /\ shell.at = "idle" /\ shell.call \in CommandIds
      /\ shellRuns' = [shellRuns EXCEPT ![shell.call] = @ + 1]
      /\ UNCHANGED <<backend, client, sockets>>
      /\ \/ /\ outputs' = [outputs EXCEPT ![0] = OutputOf(shell.call)]
            /\ shell' = [shell EXCEPT !.at = "local"] /\ UNCHANGED <<collected, results>>
         \/ Return("failed", NothingRead) /\ UNCHANGED outputs
  BY DEF RunLocally
<1>2. client = 0 /\ collected = NothingRead /\ ShellTypes /\ StartsCounted
  BY <1>1 DEF ShellInv, CallPlaced
<1>3. \A k \in 1..MaxSockets : ~sockets'[k].open
  BY <1>1, <1>2, NoneOpen
<1>4. /\ sockets \in [1..MaxSockets -> ShellSockets]
      /\ outputs \in [0..MaxSockets -> Seq(OutputPieces)] /\ shell \in ShellPlaces
      /\ results = [c \in CommandIds |-> results[c]] /\ shellRuns \in [CommandIds -> Nat]
      /\ OutputOwnAfterDrop
  BY ShellTyped
<1>5. /\ shellRuns' \in [CommandIds -> Nat] /\ shellRuns'[shell.call] = shellRuns[shell.call] + 1
      /\ \A c \in CommandIds : c # shell.call => shellRuns'[c] = shellRuns[c]
  BY <1>1, <1>4
<1>6. /\ \A k \in 1..MaxSockets : AskedOnce(sockets'[k].requests)
      /\ \A c \in CommandIds : NoMoreAwait(c)
  BY <1>1, RequestsStay
<1>7. SentUpTo(shell.call, shell) = 0
  <2>1. shell.call \in Int
    BY <1>1 DEF CommandIds
  <2> QED
    BY <1>1, <2>1 DEF SentUpTo
<1>8. ASSUME shell' \in ShellPlaces, SentUpTo(shell.call, shell') >= 1,
             \A c \in CommandIds : c # shell.call => SentUpTo(c, shell) <= SentUpTo(c, shell')
      PROVE  StartsCounted'
  <2>1. SentUpTo(shell.call, shell) + 1 <= SentUpTo(shell.call, shell')
    <3>1. SentUpTo(shell.call, shell') \in Nat
      BY <1>1, <1>8, SentType
    <3> QED
      BY <1>7, <1>8, <3>1
  <2>2. ASSUME NEW c \in CommandIds
        PROVE  \/ /\ NoMoreAwait(c) /\ shellRuns'[c] = shellRuns[c]
                  /\ SentUpTo(c, shell) <= SentUpTo(c, shell')
               \/ /\ NoMoreAwait(c) /\ shellRuns'[c] = shellRuns[c] + 1
                  /\ SentUpTo(c, shell) + 1 <= SentUpTo(c, shell')
    <3>1. CASE c = shell.call
      BY <1>5, <1>6, <2>1, <3>1
    <3>2. CASE c # shell.call
      BY <1>5, <1>6, <1>8, <3>2
    <3> QED
      BY <3>1, <3>2
  <2> QED
    BY <1>2, <1>5, <1>6, <1>8, <2>2, StartsMove
<1>9. CASE /\ outputs' = [outputs EXCEPT ![0] = OutputOf(shell.call)]
           /\ shell' = [shell EXCEPT !.at = "local"] /\ UNCHANGED <<collected, results>>
  <2>1. OutputOf(shell.call) \in Seq(OutputPieces)
    BY <1>1, OutputIs
  <2>2. 0 \in 0..MaxSockets
    BY ShellBounds
  <2>3. /\ outputs' \in [0..MaxSockets -> Seq(OutputPieces)] /\ outputs'[0] = OutputOf(shell.call)
    <3> DEFINE q == OutputOf(shell.call)
    <3>1. outputs' = [outputs EXCEPT ![0] = q] /\ q \in Seq(OutputPieces)
      BY <1>9, <2>1
    <3> HIDE DEF q
    <3>2. outputs' \in [0..MaxSockets -> Seq(OutputPieces)] /\ outputs'[0] = q
      BY <1>4, <2>2, <3>1
    <3> QED
      BY <3>2 DEF q
  <2>4. shell' \in ShellPlaces /\ shell'.at = "local" /\ shell'.call = shell.call
    BY <1>4, <1>9 DEF ShellPlaces
  <2>5. InReading(shell'.call, collected', outputs'[0])
    <3>1. InReading(shell.call, NothingRead, OutputOf(shell.call))
      BY <1>1, ReadingStarts
    <3> QED
      BY <1>2, <1>9, <2>3, <2>4, <3>1
  <2>6. SentUpTo(shell.call, shell') = 1
    <3>1. shell.call \in Int
      BY <1>1 DEF CommandIds
    <3> QED
      BY <2>4, <3>1 DEF SentUpTo
  <2>7. ASSUME NEW c \in CommandIds, c # shell.call
        PROVE  SentUpTo(c, shell) <= SentUpTo(c, shell')
    <3>1. c \in Int /\ shell.call \in Int
      BY <1>1 DEF CommandIds
    <3> QED
      BY <1>1, <2>4, <2>7, <3>1 DEF SentUpTo
  <2>8. StartsCounted'
    BY <1>8, <2>4, <2>6, <2>7
  <2>9. /\ OutputOwnAfterDrop' /\ results' = [c \in CommandIds |-> results'[c]]
        /\ shell'.at \in {"idle", "local"} /\ shell'.at # "idle" /\ backend' = "local"
        /\ shell'.call \in CommandIds /\ sockets' \in [1..MaxSockets -> ShellSockets]
        /\ backend' \in {"starting", "sidecar", "local", "disabled"} /\ client' = 0
    BY <1>1, <1>2, <1>4, <1>9, <2>4 DEF OutputOwnAfterDrop
  <2> QED
    BY <1>3, <1>5, <2>3, <2>4, <2>5, <2>8, <2>9, QuietMoves
<1>10. CASE Return("failed", NothingRead) /\ outputs' = outputs
  <2>1. /\ OutputOwnAfterDrop' /\ results' = [c \in CommandIds |-> results'[c]]
        /\ shell' \in ShellPlaces /\ shell'.at = "idle" /\ collected' = NothingRead
        /\ \A c \in CommandIds : SentUpTo(c, shell) <= SentUpTo(c, shell')
        /\ SentUpTo(shell.call, shell') = 2
    BY <1>1, <1>10, ReturnKeeps
  <2>2. StartsCounted'
    BY <1>8, <2>1
  <2>3. /\ shell'.at \in {"idle", "local"} /\ shell'.at # "local"
        /\ sockets' \in [1..MaxSockets -> ShellSockets]
        /\ outputs' \in [0..MaxSockets -> Seq(OutputPieces)]
        /\ backend' \in {"starting", "sidecar", "local", "disabled"} /\ client' = 0
    BY <1>1, <1>2, <1>4, <1>10, <2>1
  <2> QED
    BY <1>3, <1>5, <2>1, <2>2, <2>3, QuietMoves
<1> QED
  BY <1>1, <1>9, <1>10

\* Its output is collected chunk by chunk.
LEMMA ReadLocallyStep == ASSUME ShellInv, ReadLocally PROVE ShellInv'
<1> DEFINE queue == outputs[0]
           chunk == NextChunk(queue)
           text == Collected(collected, chunk.piece)
           rest == chunk.rest
<1>1. /\ shell.at = "local" /\ UNCHANGED <<backend, client, sockets, shellRuns>>
      /\ outputs' = [outputs EXCEPT ![0] = rest]
      /\ \/ chunk.eof /\ Return("ok", text)
         \/ collected' = text /\ UNCHANGED <<shell, results>> /\ ~chunk.eof
  BY DEF ReadLocally
<1>2. /\ backend = "local" /\ client = 0 /\ shell.call \in CommandIds
      /\ InReading(shell.call, collected, queue)
  BY <1>1 DEF ShellInv, CallPlaced
<1>3. /\ sockets \in [1..MaxSockets -> ShellSockets]
      /\ outputs \in [0..MaxSockets -> Seq(OutputPieces)] /\ shell \in ShellPlaces
      /\ results = [c \in CommandIds |-> results[c]] /\ shellRuns \in [CommandIds -> Nat]
      /\ OutputOwnAfterDrop
  BY ShellTyped
<1>4. 0 \in 0..MaxSockets
  BY ShellBounds
<1>5. queue \in Seq(OutputPieces)
  BY <1>3, <1>4
<1>6. chunk = NextChunk(queue) /\ text = Collected(collected, chunk.piece) /\ rest = chunk.rest
  OBVIOUS
<1> HIDE DEF queue, chunk, text, rest
<1>7. chunk \in Chunks
  BY <1>5, <1>6, ChunkType
<1>8. rest \in Seq(OutputPieces)
  BY <1>6, <1>7 DEF Chunks
<1>9. InReading(shell.call, text, rest) /\ chunk.eof = (rest = <<>>)
  BY <1>2, <1>6, ReadingGoesOn
<1>10. outputs' \in [0..MaxSockets -> Seq(OutputPieces)] /\ outputs'[0] = rest
  BY <1>1, <1>3, <1>4, <1>8
<1>11. \A k \in 1..MaxSockets : ~sockets'[k].open
  BY <1>1, <1>2, NoneOpen
<1>12. /\ sockets' \in [1..MaxSockets -> ShellSockets] /\ client' = 0 /\ backend' = "local"
       /\ shellRuns' \in [CommandIds -> Nat]
       /\ backend' \in {"starting", "sidecar", "local", "disabled"}
  BY <1>1, <1>2, <1>3
<1>13. CASE chunk.eof /\ Return("ok", text)
  <2>1. IsOwnOutput(text, shell.call)
    <3>1. InReading(shell.call, text, <<>>)
      BY <1>9, <1>13
    <3> QED
      BY <1>2, <3>1, ReadingDone
  <2>2. /\ OutputOwnAfterDrop' /\ results' = [c \in CommandIds |-> results'[c]]
        /\ shell' \in ShellPlaces /\ shell'.at = "idle" /\ collected' = NothingRead
        /\ \A c \in CommandIds : SentUpTo(c, shell) <= SentUpTo(c, shell')
    BY <1>2, <1>13, <2>1, ReturnKeeps
  <2>3. StartsCounted'
    BY <1>1, <2>2, RequestsStay, StartsStay
  <2>4. shell'.at \in {"idle", "local"} /\ shell'.at # "local"
    BY <2>2
  <2> QED
    BY <1>10, <1>11, <1>12, <2>2, <2>3, <2>4, QuietMoves
<1>14. CASE collected' = text /\ UNCHANGED <<shell, results>>
  <2>1. StartsCounted'
    <3>1. shell' \in ShellPlaces /\ \A c \in CommandIds : SentUpTo(c, shell) <= SentUpTo(c, shell')
      BY <1>14, ShellTyped
    <3> QED
      BY <1>1, <3>1, RequestsStay, StartsStay
  <2>2. /\ OutputOwnAfterDrop' /\ results' = [c \in CommandIds |-> results'[c]]
        /\ shell' \in ShellPlaces /\ shell'.at \in {"idle", "local"} /\ shell'.at # "idle"
        /\ shell'.call \in CommandIds /\ InReading(shell'.call, collected', outputs'[0])
    BY <1>1, <1>2, <1>3, <1>9, <1>10, <1>14 DEF OutputOwnAfterDrop
  <2> QED
    BY <1>10, <1>11, <1>12, <2>1, <2>2, QuietMoves
<1> QED
  BY <1>1, <1>13, <1>14

\* A step after which one connection is open.
LEMMA OneOpen ==
    ASSUME ShellInv, NEW k \in 1..MaxSockets, NEW t \in ShellSockets, sockets'[k] = t,
           sockets' \in [1..MaxSockets -> ShellSockets], outputs' = outputs,
           \A j \in 1..MaxSockets : j # k => ~sockets'[j].open,
           backend' = "sidecar", shell' \in ShellPlaces,
           \/ client' = k /\ ClientSound(t, outputs[k], shell', collected')
           \/ client' = 0 /\ SetUp(t, shell'),
           shell'.at # "idle" => shell'.call \in CommandIds,
           shell'.at \in {"idle", "exec", "spawn"} => collected' = NothingRead,
           results' = [c \in CommandIds |-> results'[c]], shellRuns' \in [CommandIds -> Nat],
           StartsCounted', OutputOwnAfterDrop'
    PROVE  ShellInv'
<1>1. client' \in 0..MaxSockets /\ k # 0
  BY ShellBounds
<1>2. outputs' \in [0..MaxSockets -> Seq(OutputPieces)]
  BY ShellTyped
<1>3. ShellTypes'
  BY <1>1, <1>2 DEF ShellTypes
<1>4. \A i, j \in 1..MaxSockets : sockets'[i].open /\ sockets'[j].open => i = j
  BY Zenon
<1>5. CASE client' = k /\ ClientSound(t, outputs[k], shell', collected')
  <2>1. shell'.at \in {"idle", "exec", "stream"}
    BY <1>5 DEF ClientSound
  <2>2. ClientSound(sockets'[client'], outputs'[client'], shell', collected')
    BY <1>5
  <2>3. Connected'
    BY <1>4, <1>5, <2>2 DEF Connected
  <2>4. CallPlaced'
    BY <1>1, <1>5, <2>1 DEF CallPlaced
  <2> QED
    BY <1>3, <2>3, <2>4 DEF ShellInv
<1>6. CASE client' = 0 /\ SetUp(t, shell')
  <2>1. shell'.at \in {"spawn", "respawn"}
    BY <1>6 DEF SetUp
  <2>2. Connected'
    BY <1>4, <1>6 DEF Connected
  <2>3. CallPlaced'
    BY <1>1, <1>6, <2>1 DEF CallPlaced
  <2> QED
    BY <1>3, <2>2, <2>3 DEF ShellInv
<1> QED
  BY <1>5, <1>6

LEMMA FreshType ==
    /\ FreshSocket \in ShellSockets /\ FreshSocket.open /\ FreshSocket.requests = <<>>
    /\ FreshSocket.answers = <<>> /\ FreshSocket.busy = 0 /\ FreshSocket.lost = 0
<1>1. TRUE \in BOOLEAN
  OBVIOUS
<1> QED
  BY <1>1, NoSocketType DEF FreshSocket, ShellSockets

\* The shell is disabled, local, or behind a connection.
LEMMA BootstrapStep == ASSUME ShellInv, Bootstrap PROVE ShellInv'
<1>1. /\ backend = "starting" /\ UNCHANGED <<outputs, shell, collected, results, shellRuns>>
      /\ \/ backend' \in {"disabled", "local"} /\ UNCHANGED <<client, sockets>>
         \/ /\ backend' = "sidecar" /\ client' = 1
            /\ sockets' = [sockets EXCEPT ![1] = FreshSocket]
  BY DEF Bootstrap
<1>2. client = 0 /\ shell.at = "idle" /\ collected = NothingRead
  BY <1>1 DEF ShellInv, CallPlaced
<1>3. /\ sockets \in [1..MaxSockets -> ShellSockets]
      /\ outputs \in [0..MaxSockets -> Seq(OutputPieces)] /\ shell \in ShellPlaces
      /\ results = [c \in CommandIds |-> results[c]] /\ shellRuns \in [CommandIds -> Nat]
      /\ OutputOwnAfterDrop /\ \A c \in CommandIds : SentUpTo(c, shell) <= SentUpTo(c, shell)
  BY ShellTyped
<1>4. \A k \in 1..MaxSockets : ~sockets[k].open
  BY <1>2, NoneOpen
<1>5. /\ shell' \in ShellPlaces /\ shell'.at = "idle" /\ collected' = NothingRead
      /\ results' = [c \in CommandIds |-> results'[c]] /\ shellRuns' \in [CommandIds -> Nat]
      /\ shellRuns' = shellRuns
      /\ OutputOwnAfterDrop' /\ \A c \in CommandIds : SentUpTo(c, shell) <= SentUpTo(c, shell')
  BY <1>1, <1>2, <1>3 DEF OutputOwnAfterDrop
<1>6. CASE backend' \in {"disabled", "local"} /\ UNCHANGED <<client, sockets>>
  <2>1. StartsCounted'
    BY <1>5, <1>6, RequestsStay, StartsStay
  <2>2. /\ shell'.at \in {"idle", "local"} /\ shell'.at # "local" /\ client' = 0
        /\ sockets' \in [1..MaxSockets -> ShellSockets] /\ \A k \in 1..MaxSockets : ~sockets'[k].open
        /\ outputs' \in [0..MaxSockets -> Seq(OutputPieces)]
        /\ backend' \in {"starting", "sidecar", "local", "disabled"}
    BY <1>1, <1>2, <1>3, <1>4, <1>5, <1>6
  <2> QED
    BY <1>5, <2>1, <2>2, QuietMoves
<1>7. CASE /\ backend' = "sidecar" /\ client' = 1
           /\ sockets' = [sockets EXCEPT ![1] = FreshSocket]
  <2>1. 1 \in 1..MaxSockets
    BY ShellBounds
  <2>2. /\ sockets'[1] = FreshSocket /\ \A k \in 1..MaxSockets : k # 1 => sockets'[k] = sockets[k]
        /\ sockets' \in [1..MaxSockets -> ShellSockets]
    BY <1>3, <1>7, <2>1, FreshType
  <2>3. /\ \A k \in 1..MaxSockets : AskedOnce(sockets'[k].requests)
        /\ \A c \in CommandIds : NoMoreAwait(c)
    <3>1. sockets'[1].requests = <<>>
      BY <2>2, FreshType
    <3>2. \A k \in 1..MaxSockets : AskedOnce(sockets[k].requests)
      BY DEF ShellInv, StartsCounted
    <3> QED
      BY <2>2, <3>1, <3>2, AwaitsNone DEF NoMoreAwait
  <2>4. StartsCounted'
    BY <1>5, <2>3, StartsStay
  <2>5. Owed(FreshSocket) = 0
    BY FreshType, OwesNothing
  <2>6. ClientSound(FreshSocket, outputs[1], shell', collected')
    BY <1>5, <2>5, FreshType, IdleCases
  <2> QED
    BY <1>1, <1>4, <1>5, <1>7, <2>1, <2>2, <2>4, <2>6, FreshType, OneOpen
<1> QED
  BY <1>1, <1>6, <1>7

\* A connection with nothing but one request.
LEMMA OwesRequest ==
    ASSUME NEW s \in ShellSockets, NEW r, s.answers = <<>>, s.busy = 0, s.requests = <<r>>
    PROVE  /\ Owed(s) = 1 /\ OwedKind(s, 1) = r.kind /\ s.requests[1] = r
           /\ AskedOnce(s.requests) /\ \A c : Awaits(c, s.requests) => IsExec(c, r)
<1>1. Len(s.requests) = 1 /\ Len(s.answers) = 0 /\ s.requests[1] = r /\ s.requests # <<>>
  OBVIOUS
<1>2. Owed(s) = 1
  <2>1. Owed(s) = Len(s.answers) + Busy(s) + Len(s.requests) /\ Busy(s) = 0
    BY SocketLengths
  <2> QED
    BY <1>1, <2>1
<1>3. OwedKind(s, 1) = r.kind
  BY <1>1, <1>2, OwesOne
<1> QED
  BY <1>1, <1>2, <1>3, AwaitsOne

\* Another connection is opened in place of the one out of step.
LEMMA ReconnectStep == ASSUME ShellInv, Reconnect PROVE ShellInv'
<1> DEFINE s == sockets[client]
           u == ReadFrom(s)
           t == [u EXCEPT !.open = FALSE]
           r == [kind |-> "spawn", call |-> shell.call]
           f == [FreshSocket EXCEPT !.requests = <<r>>]
<1>1. PICK k \in Unused :
         /\ shell.at \in {"exec", "stream"} /\ HasFrame /\ client' = 0
         /\ shell.attempt = 1 \/ shell.at = "stream"
         /\ sockets' = [Received EXCEPT ![client].open = FALSE, ![k] = f]
         /\ shell' = [shell EXCEPT !.at = IF @ = "exec" THEN "spawn" ELSE "respawn"]
         /\ UNCHANGED <<backend, outputs, collected, results, shellRuns>>
  BY DEF Reconnect
<1>2. shell.call \in CommandIds /\ shell \in ShellPlaces /\ (shell.at = "exec" => collected = NothingRead)
  BY <1>1 DEF ShellInv, CallPlaced, ShellTypes
<1>3. /\ client \in 1..MaxSockets /\ client # 0 /\ s \in ShellSockets /\ s.answers # <<>>
      /\ s.open /\ Received = [sockets EXCEPT ![client] = u]
  BY <1>1, ReceivedIs
<1>4. u \in ShellSockets /\ u.requests = s.requests
  BY <1>3, ReadFromIs
<1>5. sockets \in [1..MaxSockets -> ShellSockets] /\ s = sockets[client] /\ backend = "sidecar"
  BY <1>3, ShellTyped, ClientIs
<1>6. k \in 1..MaxSockets /\ sockets[k] = NoSocket
  BY DEF Unused
<1>7. k # client
  BY <1>3, <1>6, NoSocketType
<1>8. r \in ShellRequests /\ r.kind = "spawn"
  BY <1>2 DEF ShellRequests
<1> HIDE DEF s, u, r
<1>9. /\ f \in ShellSockets /\ f.open /\ f.requests = <<r>>
      /\ f.answers = <<>> /\ f.busy = 0 /\ f.lost = 0
  <2>1. <<r>> \in Seq(ShellRequests)
    BY <1>8
  <2> QED
    BY <2>1, FreshType DEF ShellSockets
<1>10. t \in ShellSockets /\ t.requests = u.requests /\ ~t.open
  BY <1>4 DEF ShellSockets
<1> HIDE DEF f
<1>11. /\ sockets'[k] = f /\ sockets'[client] = t
       /\ \A j \in 1..MaxSockets : j \notin {k, client} => sockets'[j] = sockets[j]
       /\ sockets' = [j \in 1..MaxSockets |-> sockets'[j]]
  <2>1. sockets' = [[sockets EXCEPT ![client] = t] EXCEPT ![k] = f]
    BY <1>1, <1>3, <1>5
  <2> HIDE DEF t
  <2> QED
    BY <1>3, <1>5, <1>6, <1>7, <2>1
<1> HIDE DEF t
<1>12. \A j \in 1..MaxSockets : sockets'[j] \in ShellSockets
  <2>1. \A j \in 1..MaxSockets : sockets[j] \in ShellSockets
    BY <1>5
  <2> QED
    BY <1>9, <1>10, <1>11, <2>1
<1>13. sockets' \in [1..MaxSockets -> ShellSockets]
  BY <1>11, <1>12
<1>14. \A j \in 1..MaxSockets : j # k => ~sockets'[j].open
  <2>1. \A j \in 1..MaxSockets : j # client => ~sockets[j].open
    BY <1>3, <1>5 DEF ShellInv, Connected
  <2> QED
    BY <1>10, <1>11, <2>1
<1>15. /\ Owed(f) = 1 /\ OwedKind(f, 1) = r.kind /\ AskedOnce(f.requests)
       /\ \A c \in CommandIds : ~Awaits(c, f.requests)
  <2>1. \A c : ~IsExec(c, r)
    BY <1>8 DEF IsExec
  <2> QED
    BY <1>9, <2>1, OwesRequest
<1>16. /\ shell' \in ShellPlaces /\ shell'.call = shell.call /\ shell'.attempt = shell.attempt
       /\ shell'.at = IF shell.at = "exec" THEN "spawn" ELSE "respawn"
  BY <1>1, <1>2 DEF ShellPlaces
<1>17. SetUp(f, shell')
  BY <1>8, <1>9, <1>15, <1>16 DEF SetUp
<1>18. \A c \in CommandIds : SentUpTo(c, shell) <= SentUpTo(c, shell')
  <2>1. SUFFICES ASSUME NEW c \in CommandIds PROVE SentUpTo(c, shell') = SentUpTo(c, shell)
    BY <1>2, SentType
  <2>2. CASE shell.at = "exec"
    <3>1. shell'.at = "spawn" /\ shell.attempt = 1
      BY <1>1, <1>16, <2>2
    <3> QED
      BY <1>16, <2>2, <3>1 DEF SentUpTo
  <2>3. CASE shell.at = "stream"
    <3>1. shell'.at = "respawn"
      BY <1>16, <2>3
    <3> QED
      BY <1>16, <2>3, <3>1 DEF SentUpTo
  <2> QED
    BY <1>1, <2>2, <2>3
<1>19. \A j \in 1..MaxSockets : AskedOnce(sockets'[j].requests)
  <2>1. \A j \in 1..MaxSockets : AskedOnce(sockets[j].requests)
    BY DEF ShellInv, StartsCounted
  <2>2. AskedOnce(t.requests)
    BY <1>3, <1>4, <1>5, <1>10, <2>1
  <2> QED
    BY <1>11, <1>15, <2>1, <2>2
<1>20. \A c \in CommandIds : NoMoreAwait(c)
  <2>1. SUFFICES ASSUME NEW c \in CommandIds, NEW j \in 1..MaxSockets,
                        Awaits(c, sockets'[j].requests)
                 PROVE  Awaits(c, sockets[j].requests)
    BY DEF NoMoreAwait
  <2>2. CASE j = client
    BY <1>4, <1>5, <1>10, <1>11, <2>1, <2>2
  <2>3. CASE j = k
    BY <1>11, <1>15, <2>1, <2>3
  <2>4. CASE j \notin {k, client}
    BY <1>11, <2>1, <2>4
  <2> QED
    BY <2>2, <2>3, <2>4
<1>21. StartsCounted'
  BY <1>1, <1>16, <1>18, <1>19, <1>20, StartsStay
<1>22. /\ results' = [c \in CommandIds |-> results'[c]] /\ shellRuns' \in [CommandIds -> Nat]
       /\ OutputOwnAfterDrop'
  BY <1>1, ShellTyped DEF OutputOwnAfterDrop
<1>23. /\ shell'.call \in CommandIds /\ backend' = "sidecar"
       /\ shell'.at \in {"idle", "exec", "spawn"} => collected' = NothingRead
  BY <1>1, <1>2, <1>5, <1>16
<1> QED
  BY <1>1, <1>6, <1>9, <1>11, <1>13, <1>14, <1>16, <1>17, <1>21, <1>22, <1>23, OneOpen

\* The connection is set up: the command is sent again, or its output lost.
LEMMA ReconnectedStep ==
    ASSUME ShellInv, NEW k \in 1..MaxSockets, Reconnected(k) PROVE ShellInv'
<1> DEFINE s == sockets[k]
           r == [kind |-> "exec", call |-> shell.call]
<1>1. /\ shell.at \in {"spawn", "respawn"} /\ s.open /\ s.answers # <<>> /\ client = 0
      /\ client' = k /\ UNCHANGED <<backend, outputs, shellRuns>>
      /\ \/ /\ shell.at = "spawn" /\ UNCHANGED <<collected, results>>
            /\ sockets' = [sockets EXCEPT ![k].answers = <<>>, ![k].requests = <<r>>]
            /\ shell' = [shell EXCEPT !.at = "exec", !.attempt = 2]
         \/ /\ sockets' = [sockets EXCEPT ![k].answers = <<>>] /\ Return("failed", NothingRead)
  BY DEF Reconnected
<1>2. /\ shell.call \in CommandIds /\ shell \in ShellPlaces /\ backend = "sidecar" /\ ShellTypes
      /\ StartsCounted /\ (shell.at = "spawn" => collected = NothingRead)
  BY <1>1 DEF ShellInv, CallPlaced, ShellTypes
<1>3. /\ sockets \in [1..MaxSockets -> ShellSockets] /\ s \in ShellSockets
      /\ results = [c \in CommandIds |-> results[c]] /\ shellRuns \in [CommandIds -> Nat]
      /\ OutputOwnAfterDrop
  BY ShellTyped
<1>4. k # client /\ SetUp(s, shell) /\ \A j \in 1..MaxSockets : j # k => ~sockets[j].open
  BY <1>1 DEF ShellInv, Connected
<1>5. s.lost = 0 /\ Owed(s) = 1
  BY <1>4 DEF SetUp
<1>6. /\ s.busy = 0 /\ s.requests = <<>> /\ s = sockets[k]
  <2>1. s = sockets[k]
    OBVIOUS
  <2> HIDE DEF s
  <2> QED
    BY <1>1, <1>3, <1>5, <2>1, OwesOne
<1>7. r \in ShellRequests /\ r.kind = "exec" /\ r.call = shell.call
  BY <1>2 DEF ShellRequests
<1> HIDE DEF r
<1>8. \A j \in 1..MaxSockets : AskedOnce(sockets[j].requests)
  BY <1>2 DEF StartsCounted
<1>9. CASE /\ shell.at = "spawn" /\ UNCHANGED <<collected, results>>
           /\ sockets' = [sockets EXCEPT ![k].answers = <<>>, ![k].requests = <<r>>]
           /\ shell' = [shell EXCEPT !.at = "exec", !.attempt = 2]
  <2> DEFINE t == [s EXCEPT !.answers = <<>>, !.requests = <<r>>]
  <2>1. sockets' = [sockets EXCEPT ![k] = t]
    BY <1>3, <1>9
  <2> HIDE DEF s
  <2>2. /\ t \in ShellSockets /\ t.open /\ t.requests = <<r>>
        /\ t.answers = <<>> /\ t.busy = 0 /\ t.lost = 0
    <3>1. <<r>> \in Seq(ShellRequests) /\ <<>> \in Seq(ShellAnswers)
      BY <1>7
    <3> QED
      BY <1>1, <1>3, <1>5, <1>6, <3>1 DEF ShellSockets
  <2> HIDE DEF t
  <2>3. /\ sockets'[k] = t /\ sockets' \in [1..MaxSockets -> ShellSockets]
        /\ \A j \in 1..MaxSockets : j # k => sockets'[j] = sockets[j]
    BY <1>3, <2>1, <2>2
  <2>4. /\ Owed(t) = 1 /\ OwedKind(t, 1) = "exec" /\ t.requests[1].call = shell.call
        /\ AskedOnce(t.requests) /\ \A c : Awaits(c, t.requests) => IsExec(c, r)
    BY <1>7, <2>2, OwesRequest
  <2>5. shell' \in ShellPlaces /\ shell'.at = "exec" /\ shell'.call = shell.call /\ shell'.attempt = 2
    <3>1. 2 \in 1..2
      OBVIOUS
    <3> QED
      BY <1>2, <1>9, <3>1 DEF ShellPlaces
  <2>6. InStep(t, outputs[k], shell', collected')
    BY <2>2, <2>4, <2>5, InStepCases
  <2>7. ClientSound(t, outputs[k], shell', collected')
    BY <2>2, <2>5, <2>6 DEF ClientSound
  <2>8. SentUpTo(shell.call, shell) + 1 <= SentUpTo(shell.call, shell')
    <3>1. shell.call \in Int
      BY <1>2 DEF CommandIds
    <3> QED
      BY <1>9, <2>5, <3>1 DEF SentUpTo
  <2>9. ASSUME NEW c \in CommandIds, c # shell.call
        PROVE  SentUpTo(c, shell) <= SentUpTo(c, shell') /\ NoMoreAwait(c)
    <3>1. c \in Int /\ shell.call \in Int
      BY <1>2 DEF CommandIds
    <3>2. SentUpTo(c, shell) <= SentUpTo(c, shell')
      BY <1>9, <2>5, <2>9, <3>1 DEF SentUpTo
    <3>3. ~IsExec(c, r)
      BY <1>7, <2>9 DEF IsExec
    <3>4. NoMoreAwait(c)
      BY <2>3, <2>4, <3>3 DEF NoMoreAwait
    <3> QED
      BY <3>2, <3>4
  <2>10. StartsCounted'
    <3>1. \A j \in 1..MaxSockets : AskedOnce(sockets'[j].requests)
      BY <1>8, <2>3, <2>4
    <3>2. \A j \in 1..MaxSockets \ {k} :
             Awaits(shell.call, sockets'[j].requests) => Awaits(shell.call, sockets[j].requests)
      BY <2>3
    <3>3. ASSUME NEW c \in CommandIds
          PROVE  \/ /\ NoMoreAwait(c) /\ shellRuns'[c] = shellRuns[c]
                    /\ SentUpTo(c, shell) <= SentUpTo(c, shell')
                 \/ /\ shellRuns'[c] = shellRuns[c] /\ SentUpTo(c, shell) + 1 <= SentUpTo(c, shell')
                    /\ \E j \in 1..MaxSockets : \A i \in 1..MaxSockets \ {j} :
                          Awaits(c, sockets'[i].requests) => Awaits(c, sockets[i].requests)
      <4>1. CASE c = shell.call
        BY <1>1, <2>8, <3>2, <4>1
      <4>2. CASE c # shell.call
        BY <1>1, <2>9, <4>2
      <4> QED
        BY <4>1, <4>2
    <3>4. shellRuns' \in [CommandIds -> Nat]
      BY <1>1, <1>3
    <3> QED
      BY <1>2, <2>5, <3>1, <3>3, <3>4, StartsMove
  <2>11. /\ results' = [c \in CommandIds |-> results'[c]] /\ shellRuns' \in [CommandIds -> Nat]
         /\ OutputOwnAfterDrop' /\ collected' = NothingRead /\ backend' = "sidecar"
         /\ shell'.call \in CommandIds /\ outputs' = outputs
    BY <1>1, <1>2, <1>3, <1>9, <2>5 DEF OutputOwnAfterDrop
  <2>12. \A j \in 1..MaxSockets : j # k => ~sockets'[j].open
    BY <1>4, <2>3
  <2> QED
    BY <1>1, <2>2, <2>3, <2>5, <2>7, <2>10, <2>11, <2>12, OneOpen
<1>10. CASE sockets' = [sockets EXCEPT ![k].answers = <<>>] /\ Return("failed", NothingRead)
  <2> DEFINE t == [s EXCEPT !.answers = <<>>]
  <2>1. sockets' = [sockets EXCEPT ![k] = t]
    BY <1>3, <1>10
  <2> HIDE DEF s
  <2>2. /\ t \in ShellSockets /\ t.open /\ t.requests = <<>>
        /\ t.answers = <<>> /\ t.busy = 0 /\ t.lost = 0
    <3>1. <<>> \in Seq(ShellAnswers)
      OBVIOUS
    <3> QED
      BY <1>1, <1>3, <1>5, <1>6, <3>1 DEF ShellSockets
  <2> HIDE DEF t
  <2>3. /\ sockets'[k] = t /\ sockets' \in [1..MaxSockets -> ShellSockets]
        /\ \A j \in 1..MaxSockets : j # k => sockets'[j] = sockets[j]
    BY <1>3, <2>1, <2>2
  <2>4. /\ OutputOwnAfterDrop' /\ results' = [c \in CommandIds |-> results'[c]]
        /\ shell' \in ShellPlaces /\ shell'.at = "idle" /\ collected' = NothingRead
        /\ \A c \in CommandIds : SentUpTo(c, shell) <= SentUpTo(c, shell')
    BY <1>2, <1>10, ReturnKeeps
  <2>5. Owed(t) = 0
    BY <2>2, OwesNothing
  <2>6. ClientSound(t, outputs[k], shell', collected')
    BY <2>2, <2>4, <2>5, IdleCases
  <2>7. \A j \in 1..MaxSockets : sockets'[j].requests = sockets[j].requests
    BY <1>6, <2>2, <2>3
  <2>8. StartsCounted' /\ shellRuns' \in [CommandIds -> Nat]
    BY <1>1, <1>3, <2>4, <2>7, RequestsStay, StartsStay
  <2>9. \A j \in 1..MaxSockets : j # k => ~sockets'[j].open
    BY <1>4, <2>3
  <2>10. backend' = "sidecar" /\ outputs' = outputs
    BY <1>1, <1>2
  <2> QED
    BY <1>1, <2>2, <2>3, <2>4, <2>6, <2>8, <2>9, <2>10, OneOpen
<1> QED
  BY <1>1, <1>9, <1>10

-----------------------------------------------------------------------------
(* ShellSession: the theorem.                                               *)

LEMMA ShellStarts == ShellInit => ShellInv
<1> SUFFICES ASSUME ShellInit PROVE ShellInv
  OBVIOUS
<1>1. /\ backend = "starting" /\ client = 0 /\ sockets = [k \in 1..MaxSockets |-> NoSocket]
      /\ outputs = [k \in 0..MaxSockets |-> <<>>] /\ collected = NothingRead
      /\ shell = [call |-> 1, at |-> "idle", attempt |-> 1]
      /\ results = [c \in CommandIds |-> NoResultYet] /\ shellRuns = [c \in CommandIds |-> 0]
  BY DEF ShellInit
<1>2. sockets \in [1..MaxSockets -> ShellSockets] /\ \A k \in 1..MaxSockets : sockets[k] = NoSocket
  BY <1>1, NoSocketType
<1>3. outputs \in [0..MaxSockets -> Seq(OutputPieces)]
  BY <1>1
<1>4. shell \in ShellPlaces /\ shell.at = "idle"
  BY <1>1, ShellBounds DEF ShellPlaces
<1>5. \A c \in CommandIds : shellRuns[c] = 0 /\ results[c] = NoResultYet
  BY <1>1
<1>6. /\ shellRuns \in [CommandIds -> Nat] /\ results = [c \in CommandIds |-> results[c]]
      /\ client \in 0..MaxSockets
  BY <1>1, ShellBounds
<1>7. ShellTypes
  BY <1>1, <1>2, <1>3, <1>4, <1>6 DEF ShellTypes
<1>8. Connected
  BY <1>1, <1>2, NoSocketType DEF Connected
<1>9. CallPlaced
  BY <1>1, <1>4 DEF CallPlaced
<1>10. ASSUME NEW c \in CommandIds
       PROVE  Cardinality(AwaitingStart(c)) + shellRuns[c] <= SentUpTo(c, shell)
  <2>1. AwaitingStart(c) = {}
    BY <1>2, NoSocketType, AwaitsNone DEF AwaitingStart
  <2>2. Cardinality(AwaitingStart(c)) = 0
    BY <2>1, FS_EmptySet
  <2>3. SentUpTo(c, shell) \in Nat
    BY <1>4, SentType
  <2> QED
    BY <1>5, <2>2, <2>3
<1>11. StartsCounted
  BY <1>2, <1>10, NoSocketType, AwaitsNone DEF StartsCounted
<1>12. OutputOwnAfterDrop
  BY <1>5 DEF OutputOwnAfterDrop, NoResultYet
<1> QED
  BY <1>7, <1>8, <1>9, <1>11, <1>12 DEF ShellInv

LEMMA ShellStutters == ASSUME ShellInv, UNCHANGED shellVars PROVE ShellInv'
<1>1. UNCHANGED <<backend, client, sockets, outputs, shell, collected, results, shellRuns>>
  BY DEF shellVars
<1>2. ShellTypes' /\ Connected' /\ CallPlaced' /\ OutputOwnAfterDrop'
  BY <1>1 DEF ShellInv, ShellTypes, Connected, CallPlaced, OutputOwnAfterDrop
<1>3. StartsCounted'
  <2>1. \A c \in CommandIds : AwaitingStart(c)' = AwaitingStart(c)
    BY <1>1 DEF AwaitingStart
  <2> QED
    BY <1>1, <2>1 DEF ShellInv, StartsCounted
<1> QED
  BY <1>2, <1>3 DEF ShellInv

LEMMA ShellStep == ShellInv /\ [ShellNext]_shellVars => ShellInv'
<1> SUFFICES ASSUME ShellInv, [ShellNext]_shellVars PROVE ShellInv'
  OBVIOUS
<1>1. ASSUME ShellToolStep PROVE ShellInv'
  BY <1>1, BootstrapStep, StartCommandStep, ReadLocallyStep, ReadAckStep, ReadChunkStep,
     ReconnectStep, ReconnectRefusedStep, FailAgainStep, RunLocallyStep, ReconnectedStep
     DEF ShellToolStep
<1>2. ASSUME NEW k \in 1..MaxSockets, ShellDaemonStep(k) PROVE ShellInv'
  BY <1>2, SpawnsStep, StreamsStep, StartsStep, FinishesStep, TimesOutStep, HangsUpStep
     DEF ShellDaemonStep
<1> QED
  BY <1>1, <1>2, DropCommandStep, ShellStutters DEF ShellNext

\* A call of the shell tool returns the output of its own command, but for the
\* characters that the edge of a chunk cuts, also when a dropped call left its
\* answers on the connection, unless the connection is two calls out of step; and
\* no command is started more than twice: for any number of calls, drops and
\* connections and any sizes of output, chunk and session limit
\* (VsockShellSession, serve_stream).
THEOREM ShellAnswersAreSound == ShellSpec => []ShellAnswersSound
<1>1. ShellInv => ShellAnswersSound
  <2>1. SUFFICES ASSUME ShellInv, NEW c \in CommandIds PROVE shellRuns[c] <= 2
    BY DEF ShellInv, ShellAnswersSound, CommandRunsAtMostTwice
  <2> DEFINE A == AwaitingStart(c)
             sent == SentUpTo(c, shell)
             runs == shellRuns[c]
  <2>2. /\ A \in SUBSET (1..MaxSockets) /\ shell \in ShellPlaces /\ runs \in Nat
        /\ Cardinality(A) + runs <= sent
    BY <2>1, ShellTyped DEF ShellInv, StartsCounted, AwaitingStart
  <2>3. 1 \in 1..MaxSockets
    BY ShellBounds
  <2>4. sent \in Nat /\ sent <= 2
    BY <2>2, SentType
  <2> HIDE DEF A, sent, runs
  <2>5. Cardinality(A) \in Nat
    BY <2>2, <2>3, CountSockets
  <2>6. runs <= 2
    BY <2>2, <2>4, <2>5
  <2> QED
    BY <2>6 DEF runs
<1> QED
  BY <1>1, ShellStarts, ShellStep, PTL DEF ShellSpec

-----------------------------------------------------------------------------
(* Telegram: the frames of a turn and how far its task has read them.       *)

\* A frame more at the end.
LEMMA FrameAppended ==
    ASSUME NEW fs \in Seq(FrameRecs), NEW f \in FrameRecs
    PROVE  /\ Append(fs, f) \in Seq(FrameRecs) /\ Len(Append(fs, f)) = Len(fs) + 1
           /\ Len(fs) \in Nat /\ Append(fs, f)[Len(fs) + 1] = f
           /\ \A i \in 1..Len(fs) : Append(fs, f)[i] = fs[i] /\ fs[i] \in FrameRecs
<1>1. Len(fs) \in Nat /\ \A i \in 1..Len(fs) : fs[i] \in FrameRecs
  BY LenProperties, ElementOfSeq
<1> QED
  BY <1>1, AppendProperties

\* Only the state and the parts of a turn matter to its task.
LEMMA SameTurn ==
    ASSUME NEW u, NEW t, NEW fs, NEW turn, NEW next, next.state = turn.state, next.parts = turn.parts
    PROVE  /\ TaskSound(u, t, turn, fs) => TaskSound(u, t, next, fs)
           /\ FramesInOrder(u, turn, fs) => FramesInOrder(u, next, fs)
BY DEF TaskSound, CaughtUp, FramesInOrder

\* Turns that did not publish.
LEMMA NothingPublished ==
    ASSUME NEW u, NEW turn, NEW fs, \A i \in 1..Len(fs) : fs[i].turn # u
    PROVE  FramesInOrder(u, turn, fs)
BY DEF FramesInOrder, IsDelta

\* Another turn publishes.
LEMMA OthersPublish ==
    ASSUME NEW fs \in Seq(FrameRecs), NEW f \in FrameRecs, NEW u, NEW t \in BotTasks, NEW turn,
           f.turn # u, TaskSound(u, t, turn, fs), FramesInOrder(u, turn, fs)
    PROVE  TaskSound(u, t, turn, Append(fs, f)) /\ FramesInOrder(u, turn, Append(fs, f))
<1> DEFINE gs == Append(fs, f)
<1>1. /\ Len(gs) = Len(fs) + 1 /\ Len(fs) \in Nat /\ gs[Len(fs) + 1] = f
      /\ \A i \in 1..Len(fs) : gs[i] = fs[i]
  BY FrameAppended
<1> HIDE DEF gs
<1>2. \A i \in 1..Len(gs) : gs[i].turn = u => i \in 1..Len(fs) /\ gs[i] = fs[i]
  BY <1>1
<1>3. 1..Len(fs) \subseteq 1..Len(gs)
  BY <1>1
<1>4. FramesInOrder(u, turn, gs)
  <2>1. ASSUME NEW i \in 1..Len(gs), IsDelta(u, gs[i])
        PROVE  /\ gs[i].body[1] \in Nat /\ gs[i].body = <<gs[i].body[1], gs[i].body[1] + 1>>
               /\ gs[i].body[1] + 1 <= turn.parts
               /\ gs[i].body[1] + 1 = turn.parts
                  \/ \E j \in 1..Len(gs) : IsDelta(u, gs[j]) /\ gs[j].body[1] = gs[i].body[1] + 2
    <3>1. i \in 1..Len(fs) /\ gs[i] = fs[i]
      BY <1>2, <2>1 DEF IsDelta
    <3>2. /\ fs[i].body[1] \in Nat /\ fs[i].body = <<fs[i].body[1], fs[i].body[1] + 1>>
          /\ fs[i].body[1] + 1 <= turn.parts
          /\ fs[i].body[1] + 1 = turn.parts
             \/ \E j \in 1..Len(fs) : IsDelta(u, fs[j]) /\ fs[j].body[1] = fs[i].body[1] + 2
      BY <2>1, <3>1 DEF FramesInOrder
    <3> QED
      BY <1>1, <1>3, <3>1, <3>2
  <2>2. ASSUME NEW i \in 1..Len(gs), NEW j \in 1..Len(gs), i < j, IsDelta(u, gs[i]), IsDelta(u, gs[j])
        PROVE  gs[i].body[1] + 2 <= gs[j].body[1]
    <3>1. i \in 1..Len(fs) /\ gs[i] = fs[i] /\ j \in 1..Len(fs) /\ gs[j] = fs[j]
      BY <1>2, <2>2 DEF IsDelta
    <3> QED
      BY <2>2, <3>1 DEF FramesInOrder
  <2>3. ASSUME NEW i \in 1..Len(gs), gs[i].turn = u, gs[i].kind # "delta"
        PROVE  turn.state = "over" /\ \A j \in 1..Len(gs) : IsDelta(u, gs[j]) => j < i
    <3>1. i \in 1..Len(fs) /\ gs[i] = fs[i]
      BY <1>2, <2>3
    <3>2. turn.state = "over" /\ \A j \in 1..Len(fs) : IsDelta(u, fs[j]) => j < i
      BY <2>3, <3>1 DEF FramesInOrder
    <3> QED
      BY <1>2, <3>2 DEF IsDelta
  <2> QED
    BY <2>1, <2>2, <2>3 DEF FramesInOrder
<1>5. ASSUME t.next <= Len(fs) + 1 PROVE t.next <= Len(gs) + 1
  <2>1. t.next \in Nat
    BY DEF BotTasks
  <2> QED
    BY <1>1, <1>5, <2>1
<1>6. ASSUME NEW m, CaughtUp(u, m, t.next, turn, fs) PROVE CaughtUp(u, m, t.next, turn, gs)
  <2>1. ASSUME NEW i \in 1..Len(gs), i >= t.next, IsDelta(u, gs[i]) PROVE gs[i].body[1] > m
    <3>1. i \in 1..Len(fs) /\ gs[i] = fs[i]
      BY <1>2, <2>1 DEF IsDelta
    <3> QED
      BY <1>6, <2>1, <3>1 DEF CaughtUp
  <2>2. ASSUME m # turn.parts
        PROVE  \E i \in 1..Len(gs) : i >= t.next /\ IsDelta(u, gs[i]) /\ gs[i].body[1] = m + 1
    <3>1. PICK i \in 1..Len(fs) : i >= t.next /\ IsDelta(u, fs[i]) /\ fs[i].body[1] = m + 1
      BY <1>6, <2>2 DEF CaughtUp
    <3>2. gs[i] = fs[i] /\ i \in 1..Len(gs)
      BY <1>1, <1>3
    <3> QED
      BY <3>1, <3>2
  <2> QED
    BY <2>1, <2>2 DEF CaughtUp
<1> QED
  BY <1>4, <1>5, <1>6 DEF TaskSound, gs

\* A task has read no more than was published.
LEMMA CaughtUpBound ==
    ASSUME NEW u, NEW turn \in TurnRecs, NEW fs, NEW m \in Nat, NEW next,
           FramesInOrder(u, turn, fs), CaughtUp(u, m, next, turn, fs)
    PROVE  m <= turn.parts /\ turn.parts \in Nat
<1>1. turn.parts \in Nat
  BY DEF TurnRecs
<1>2. CASE m = turn.parts
  BY <1>1, <1>2
<1>3. CASE m # turn.parts
  <2>1. PICK i \in 1..Len(fs) : IsDelta(u, fs[i]) /\ fs[i].body[1] = m + 1
    BY <1>3 DEF CaughtUp
  <2>2. fs[i].body[1] + 1 <= turn.parts
    BY <2>1 DEF FramesInOrder
  <2> QED
    BY <1>1, <2>1, <2>2
<1> QED
  BY <1>2, <1>3

\* A turn publishes two parts more.
LEMMA DeltaPublishes ==
    ASSUME NEW fs \in Seq(FrameRecs), NEW f \in FrameRecs, NEW u, NEW t \in BotTasks,
           NEW turn \in TurnRecs, NEW more, turn.state = "running", more.state = "running",
           more.parts = turn.parts + 2, IsDelta(u, f),
           f.body = <<turn.parts + 1, turn.parts + 2>>,
           TaskSound(u, t, turn, fs), FramesInOrder(u, turn, fs)
    PROVE  TaskSound(u, t, more, Append(fs, f)) /\ FramesInOrder(u, more, Append(fs, f))
<1> DEFINE gs == Append(fs, f)
           n == Len(fs)
           p == turn.parts
<1>1. /\ Len(gs) = n + 1 /\ n \in Nat /\ gs[n + 1] = f
      /\ \A i \in 1..n : gs[i] = fs[i]
  BY FrameAppended
<1>2. p \in Nat /\ f.body[1] = p + 1 /\ f.body = <<f.body[1], f.body[1] + 1>>
  <2>1. p \in Nat
    BY DEF TurnRecs
  <2>2. f.body[1] = p + 1
    OBVIOUS
  <2>3. p + 2 = (p + 1) + 1
    BY <2>1
  <2> QED
    BY <2>1, <2>2, <2>3
<1> HIDE DEF gs
<1>3. \A i \in 1..Len(gs) : i \in 1..n \/ i = n + 1
  BY <1>1
<1>4. 1..n \subseteq 1..Len(gs) /\ n + 1 \in 1..Len(gs)
  BY <1>1
<1>5. \A i \in 1..n : IsDelta(u, fs[i]) =>
        fs[i].body[1] \in Nat /\ fs[i].body[1] + 1 <= p
  BY DEF FramesInOrder
<1>6. \A i \in 1..n : fs[i].turn = u => fs[i].kind = "delta"
  BY DEF FramesInOrder
<1>7. ASSUME NEW i \in 1..Len(gs), IsDelta(u, gs[i])
      PROVE  /\ gs[i].body[1] \in Nat /\ gs[i].body = <<gs[i].body[1], gs[i].body[1] + 1>>
             /\ gs[i].body[1] + 1 <= p + 2
             /\ gs[i].body[1] + 1 = p + 2
                \/ \E j \in 1..Len(gs) : IsDelta(u, gs[j]) /\ gs[j].body[1] = gs[i].body[1] + 2
  <2>1. CASE i = n + 1
    <3>1. gs[i] = f
      BY <1>1, <2>1
    <3>2. f.body[1] \in Nat /\ f.body[1] + 1 = p + 2 /\ f.body[1] + 1 <= p + 2
      BY <1>2
    <3> QED
      BY <1>2, <3>1, <3>2
  <2>2. CASE i \in 1..n
    <3>1. gs[i] = fs[i]
      BY <1>1, <2>2
    <3>2. /\ fs[i].body[1] \in Nat /\ fs[i].body = <<fs[i].body[1], fs[i].body[1] + 1>>
          /\ fs[i].body[1] + 1 <= p
          /\ fs[i].body[1] + 1 = p
             \/ \E j \in 1..n : IsDelta(u, fs[j]) /\ fs[j].body[1] = fs[i].body[1] + 2
      BY <1>7, <2>2, <3>1 DEF FramesInOrder
    <3>3. fs[i].body[1] + 1 <= p + 2
      BY <1>2, <3>2
    <3>4. \E j \in 1..Len(gs) : IsDelta(u, gs[j]) /\ gs[j].body[1] = fs[i].body[1] + 2
      <4>1. CASE fs[i].body[1] + 1 = p
        <5>1. f.body[1] = fs[i].body[1] + 2
          BY <1>2, <3>2, <4>1
        <5> QED
          BY <1>1, <1>4, <5>1
      <4>2. CASE \E j \in 1..n : IsDelta(u, fs[j]) /\ fs[j].body[1] = fs[i].body[1] + 2
        BY <1>1, <1>4, <4>2
      <4> QED
        BY <3>2, <4>1, <4>2
    <3> QED
      BY <3>1, <3>2, <3>3, <3>4
  <2> QED
    BY <1>3, <2>1, <2>2
<1>8. ASSUME NEW i \in 1..Len(gs), NEW j \in 1..Len(gs), i < j, IsDelta(u, gs[i]), IsDelta(u, gs[j])
      PROVE  gs[i].body[1] + 2 <= gs[j].body[1]
  <2>1. i \in 1..n /\ gs[i] = fs[i]
    BY <1>1, <1>8
  <2>2. CASE j = n + 1
    <3>1. fs[i].body[1] \in Nat /\ fs[i].body[1] + 1 <= p
      BY <1>5, <1>8, <2>1
    <3>2. fs[i].body[1] + 2 <= p + 1
      BY <1>2, <3>1
    <3> QED
      BY <1>1, <1>2, <2>1, <2>2, <3>2
  <2>3. CASE j \in 1..n
    BY <1>1, <1>8, <2>1, <2>3 DEF FramesInOrder
  <2> QED
    BY <1>3, <2>2, <2>3
<1>9. ASSUME NEW i \in 1..Len(gs), gs[i].turn = u PROVE gs[i].kind = "delta"
  BY <1>1, <1>3, <1>6, <1>9 DEF IsDelta
<1>10. FramesInOrder(u, more, gs)
  BY <1>7, <1>8, <1>9 DEF FramesInOrder
<1>11. t.next \in Nat /\ Len(t.got) \in Nat
  BY DEF BotTasks
<1>12. t.next <= n + 1 => t.next <= Len(gs) + 1
  BY <1>1, <1>11
<1>13. ASSUME t.next <= n + 1, CaughtUp(u, Len(t.got), t.next, turn, fs)
       PROVE  CaughtUp(u, Len(t.got), t.next, more, gs)
  <2> DEFINE m == Len(t.got)
  <2>1. m <= p /\ m \in Nat
    BY <1>11, <1>13, CaughtUpBound
  <2>2. CaughtUp(u, m, t.next, turn, fs)
    BY <1>13
  <2> HIDE DEF m
  <2>3. ASSUME NEW i \in 1..Len(gs), i >= t.next, IsDelta(u, gs[i]) PROVE gs[i].body[1] > m
    <3>1. CASE i = n + 1
      BY <1>1, <1>2, <2>1, <3>1
    <3>2. CASE i \in 1..n
      BY <1>1, <2>2, <2>3, <3>2 DEF CaughtUp
    <3> QED
      BY <1>3, <3>1, <3>2
  <2>4. \E i \in 1..Len(gs) : i >= t.next /\ IsDelta(u, gs[i]) /\ gs[i].body[1] = m + 1
    <3>1. CASE m = p
      <4>1. n + 1 >= t.next
        BY <1>1, <1>11, <1>13
      <4> QED
        BY <1>1, <1>2, <1>4, <3>1, <4>1
    <3>2. CASE m # p
      <4>1. PICK i \in 1..n : i >= t.next /\ IsDelta(u, fs[i]) /\ fs[i].body[1] = m + 1
        BY <2>2, <3>2 DEF CaughtUp
      <4> QED
        BY <1>1, <1>4, <4>1
    <3> QED
      BY <3>1, <3>2
  <2>5. CaughtUp(u, m, t.next, more, gs)
    BY <2>3, <2>4 DEF CaughtUp
  <2> QED
    BY <2>5 DEF m
<1>14. TaskSound(u, t, more, gs)
  BY <1>12, <1>13 DEF TaskSound
<1> QED
  BY <1>10, <1>14 DEF gs

\* A turn publishes its last frame.
LEMMA EndPublishes ==
    ASSUME NEW fs \in Seq(FrameRecs), NEW f \in FrameRecs, NEW u, NEW t \in BotTasks,
           NEW turn, NEW over, turn.state = "cleared", over.state = "over",
           over.parts = turn.parts, f.turn = u, f.kind # "delta",
           TaskSound(u, t, turn, fs), FramesInOrder(u, turn, fs)
    PROVE  TaskSound(u, t, over, Append(fs, f)) /\ FramesInOrder(u, over, Append(fs, f))
<1> DEFINE gs == Append(fs, f)
           n == Len(fs)
<1>1. /\ Len(gs) = n + 1 /\ n \in Nat /\ gs[n + 1] = f
      /\ \A i \in 1..n : gs[i] = fs[i]
  BY FrameAppended
<1> HIDE DEF gs
<1>2. /\ \A i \in 1..Len(gs) : i \in 1..n \/ i = n + 1
      /\ 1..n \subseteq 1..Len(gs)
  BY <1>1
<1>3. \A i \in 1..Len(gs) : IsDelta(u, gs[i]) => i \in 1..n /\ gs[i] = fs[i]
  BY <1>1, <1>2 DEF IsDelta
<1>4. \A i \in 1..n : fs[i].turn = u => fs[i].kind = "delta"
  BY DEF FramesInOrder
<1>5. ASSUME NEW i \in 1..Len(gs), IsDelta(u, gs[i])
      PROVE  /\ gs[i].body[1] \in Nat /\ gs[i].body = <<gs[i].body[1], gs[i].body[1] + 1>>
             /\ gs[i].body[1] + 1 <= turn.parts
             /\ gs[i].body[1] + 1 = turn.parts
                \/ \E j \in 1..Len(gs) : IsDelta(u, gs[j]) /\ gs[j].body[1] = gs[i].body[1] + 2
  <2>1. i \in 1..n /\ gs[i] = fs[i]
    BY <1>3, <1>5
  <2>2. /\ fs[i].body[1] \in Nat /\ fs[i].body = <<fs[i].body[1], fs[i].body[1] + 1>>
        /\ fs[i].body[1] + 1 <= turn.parts
        /\ fs[i].body[1] + 1 = turn.parts
           \/ \E j \in 1..n : IsDelta(u, fs[j]) /\ fs[j].body[1] = fs[i].body[1] + 2
    BY <1>5, <2>1 DEF FramesInOrder
  <2> QED
    BY <1>1, <1>2, <2>1, <2>2
<1>6. ASSUME NEW i \in 1..Len(gs), NEW j \in 1..Len(gs), i < j, IsDelta(u, gs[i]), IsDelta(u, gs[j])
      PROVE  gs[i].body[1] + 2 <= gs[j].body[1]
  BY <1>3, <1>6 DEF FramesInOrder
<1>7. ASSUME NEW i \in 1..Len(gs), gs[i].turn = u, gs[i].kind # "delta"
      PROVE  \A j \in 1..Len(gs) : IsDelta(u, gs[j]) => j < i
  <2>1. i = n + 1
    BY <1>1, <1>2, <1>4, <1>7
  <2> QED
    BY <1>1, <1>3, <2>1
<1>8. FramesInOrder(u, over, gs)
  BY <1>5, <1>6, <1>7 DEF FramesInOrder
<1>9. ASSUME NEW m, CaughtUp(u, m, t.next, turn, fs) PROVE CaughtUp(u, m, t.next, over, gs)
  BY <1>1, <1>2, <1>3, <1>9 DEF CaughtUp
<1>10. t.next <= n + 1 => t.next <= Len(gs) + 1
  <2>1. t.next \in Nat
    BY DEF BotTasks
  <2> QED
    BY <1>1, <2>1
<1>11. TaskSound(u, t, over, gs)
  BY <1>9, <1>10 DEF TaskSound
<1> QED
  BY <1>8, <1>11 DEF gs

-----------------------------------------------------------------------------
(* Telegram: the messages of a task in the chat.                            *)

\* What of a task the streamer leaves alone.
SameReading(t, r) ==
    /\ r.step = t.step /\ r.spawned = t.spawned /\ r.session = t.session /\ r.next = t.next
    /\ r.lagged = t.lagged /\ r.own = t.own /\ r.got = t.got /\ r.ended = t.ended
    /\ r.final = t.final

\* The message that is edited is one of the task's, if it has one.
EditsOwn(t) == t.at <= Len(t.shown) /\ (t.at = 0 => t.refused)

LEMMA PlacedKeeps ==
    ASSUME NEW t \in BotTasks, NEW ok \in BOOLEAN
    PROVE  Placed(t, ok) \in BotTasks /\ SameReading(t, Placed(t, ok)) /\ EditsOwn(Placed(t, ok))
<1>1. t.shown \in Seq(Seq(Nat)) /\ Len(t.shown) \in Nat /\ <<>> \in Seq(Nat)
  BY LenProperties DEF BotTasks
<1>2. /\ Append(t.shown, <<>>) \in Seq(Seq(Nat))
      /\ Len(Append(t.shown, <<>>)) = Len(t.shown) + 1
  BY <1>1, AppendProperties
<1>3. CASE ok
  <2>1. Placed(t, ok) = [t EXCEPT !.shown = Append(t.shown, <<>>), !.at = Len(t.shown) + 1]
    BY <1>3 DEF Placed
  <2> DEFINE more == Append(t.shown, <<>>)
             at == Len(t.shown) + 1
             p == [t EXCEPT !.shown = more, !.at = at]
  <2>5. more \in Seq(Seq(Nat)) /\ at \in Nat
    BY <1>1, <1>2
  <2> HIDE DEF more, at
  <2>2. p \in BotTasks /\ SameReading(t, p)
    BY <2>5 DEF BotTasks, SameReading
  <2>3. p.at = Len(t.shown) + 1 /\ p.shown = Append(t.shown, <<>>)
    BY DEF BotTasks, more, at
  <2> HIDE DEF p
  <2>4. EditsOwn(p)
    BY <1>1, <1>2, <2>3 DEF EditsOwn
  <2> QED
    BY <2>1, <2>2, <2>4 DEF p, more, at
<1>4. CASE ~ok
  <2>1. Placed(t, ok) = [t EXCEPT !.at = 0, !.refused = TRUE]
    BY <1>4 DEF Placed
  <2> DEFINE p == [t EXCEPT !.at = 0, !.refused = TRUE]
  <2>2. p \in BotTasks /\ SameReading(t, p)
    BY DEF BotTasks, SameReading
  <2>3. p.at = 0 /\ p.shown = t.shown /\ p.refused
    BY DEF BotTasks
  <2> HIDE DEF p
  <2>4. EditsOwn(p)
    BY <1>1, <2>3 DEF EditsOwn
  <2> QED
    BY <2>1, <2>2, <2>4 DEF p
<1> QED
  BY <1>3, <1>4

LEMMA EditedKeeps ==
    ASSUME NEW t \in BotTasks, NEW ok \in BOOLEAN, t.at <= Len(t.shown)
    PROVE  Edited(t, ok) \in BotTasks /\ SameReading(t, Edited(t, ok))
<1>1. /\ t.shown \in Seq(Seq(Nat)) /\ Len(t.shown) \in Nat /\ t.acc \in Seq(Nat) /\ t.at \in Nat
      /\ DOMAIN t.shown = 1..Len(t.shown)
  BY LenProperties DEF BotTasks
<1>2. CASE t.at = 0
  BY <1>2 DEF Edited, SameReading
<1>3. CASE t.at # 0 /\ ok
  <2>1. Edited(t, ok) = [t EXCEPT !.shown = [t.shown EXCEPT ![t.at] = t.acc]]
    BY <1>3 DEF Edited
  <2>2. [t.shown EXCEPT ![t.at] = t.acc] \in Seq(Seq(Nat))
    BY <1>1, <1>3, ExceptSeq
  <2> QED
    BY <2>1, <2>2 DEF BotTasks, SameReading
<1>4. CASE t.at # 0 /\ ~ok
  <2>1. Edited(t, ok) = [t EXCEPT !.refused = TRUE]
    BY <1>4 DEF Edited
  <2> QED
    BY <2>1 DEF BotTasks, SameReading
<1> QED
  BY <1>2, <1>3, <1>4

LEMMA AppendTextKeeps ==
    ASSUME NEW t \in BotTasks, NEW body \in Seq(Nat), NEW ok \in BOOLEAN, EditsOwn(t)
    PROVE  /\ AppendText(t, body, ok) \in BotTasks /\ SameReading(t, AppendText(t, body, ok))
           /\ EditsOwn(AppendText(t, body, ok))
<1> DEFINE longer == [t EXCEPT !.acc = t.acc \o body]
           e == Edited(longer, ok)
           f == [e EXCEPT !.acc = <<>>]
<1>1. t.acc \o body \in Seq(Nat)
  <2>1. t.acc \in Seq(Nat)
    BY DEF BotTasks
  <2> QED
    BY <2>1, ConcatProperties
<1>2. longer \in BotTasks /\ SameReading(t, longer) /\ EditsOwn(longer)
  BY <1>1 DEF BotTasks, SameReading, EditsOwn
<1>3. AppendText(t, body, ok) = IF Len(longer.acc) > SplitAt THEN Placed(f, ok) ELSE longer
  BY DEF AppendText
<1> HIDE DEF longer
<1>4. e \in BotTasks /\ SameReading(longer, e)
  BY <1>2, EditedKeeps DEF EditsOwn
<1> HIDE DEF e
<1>5. f \in BotTasks /\ SameReading(e, f)
  <2>1. <<>> \in Seq(Nat)
    OBVIOUS
  <2> QED
    BY <1>4, <2>1 DEF BotTasks, SameReading
<1> HIDE DEF f
<1>6. Placed(f, ok) \in BotTasks /\ SameReading(f, Placed(f, ok)) /\ EditsOwn(Placed(f, ok))
  BY <1>5, PlacedKeeps
<1>7. SameReading(t, Placed(f, ok))
  BY <1>2, <1>4, <1>5, <1>6 DEF SameReading
<1> QED
  BY <1>2, <1>3, <1>6, <1>7

\* Division that rounds up.
LEMMA RoundedUp ==
    ASSUME NEW L \in Nat \ {0}, NEW M \in Nat \ {0}
    PROVE  /\ (L + M - 1) \div M \in Nat \ {0}
           /\ L <= ((L + M - 1) \div M) * M
           /\ \A i \in 0..(((L + M - 1) \div M) - 1) : i * M < L /\ (i + 1) * M = i * M + M /\ i * M \in Nat
<1> DEFINE x == L + M - 1
           n == x \div M
           r == x % M
<1>1. x \in Nat
  OBVIOUS
<1> HIDE DEF x
<1>2. n \in Int /\ r \in 0..(M - 1) /\ x = M * n + r
  BY <1>1
<1> HIDE DEF n, r
<1>3. M * (n - 1) = M * n - M /\ M * n = n * M
  BY <1>2
<1>4. n \in Nat
  BY <1>1, <1>2
<1>5. n * M >= L
  BY <1>1, <1>2, <1>3 DEF x
<1>6. n > 0 /\ M * (n - 1) < L
  BY <1>1, <1>2, <1>3, <1>4 DEF x
<1>7. ASSUME NEW i \in 0..(n - 1)
      PROVE  i * M < L /\ (i + 1) * M = i * M + M /\ i * M \in Nat
  <2>1. i \in Nat /\ i * M \in Nat /\ (i + 1) * M = i * M + M
    BY <1>4, <1>7
  <2>2. i * M <= (n - 1) * M /\ (n - 1) * M = M * (n - 1)
    BY <1>4, <1>6, <1>7
  <2>3. M * (n - 1) \in Int
    BY <1>4, <1>6
  <2> QED
    BY <1>6, <2>1, <2>2, <2>3
<1> QED
  BY <1>4, <1>5, <1>6, <1>7 DEF n, x

\* The pieces of an answer, one after the other, are the answer.
LEMMA PiecesReadAs ==
    ASSUME NEW final \in Seq(Nat), final # <<>>, NEW at \in Nat \ {0}, NEW ms,
           Len(ms) = (at - 1) + Len(Pieces(final)),
           \A k \in 1..Len(Pieces(final)) : ms[(at - 1) + k] = Pieces(final)[k]
    PROVE  at \in 1..Len(ms) /\ ReadsAs(ms, at, final)
<1> DEFINE L == Len(final)
           M == MaxPerMessage
           n == (L + M - 1) \div M
           Upto(i) == IF i * M < L THEN i * M ELSE L
           cut == [i \in at..(Len(ms) + 1) |-> Upto(i - at)]
<1>1. L \in Nat \ {0} /\ M \in Nat \ {0}
  BY TelegramBounds, EmptySeq, LenProperties
<1>2. Pieces(final) = [i \in 1..n |-> SubSeq(final, (i - 1) * M + 1, Upto(i))]
  BY DEF Pieces
<1> HIDE DEF L, M
<1>3. /\ n \in Nat \ {0} /\ L <= n * M
      /\ \A i \in 0..(n - 1) : i * M < L /\ (i + 1) * M = i * M + M /\ i * M \in Nat
  BY <1>1, RoundedUp
<1> HIDE DEF n
<1>4. Len(Pieces(final)) = n
  BY <1>2, <1>3
<1>5. /\ \A i \in 0..(n - 1) : Upto(i) = i * M /\ i * M \in 0..L
      /\ \A i \in 0..(n - 1) : (i + 1) * M \in Nat /\ Upto(i + 1) \in 0..L /\ Upto(i) <= Upto(i + 1)
  <2>1. \A i \in 0..(n - 1) : Upto(i) = i * M /\ i * M \in 0..L
    BY <1>1, <1>3
  <2>2. ASSUME NEW i \in 0..(n - 1)
        PROVE  (i + 1) * M \in Nat /\ Upto(i + 1) \in 0..L /\ Upto(i) <= Upto(i + 1)
    <3>1. (i + 1) * M = i * M + M /\ i * M \in Nat /\ i * M < L
      BY <1>3
    <3> HIDE DEF Upto
    <3>2. Upto(i) = i * M
      BY <2>1
    <3>3. Upto(i + 1) = IF (i + 1) * M < L THEN (i + 1) * M ELSE L
      BY DEF Upto
    <3> QED
      BY <1>1, <3>1, <3>2, <3>3
  <2> QED
    BY <2>1, <2>2
<1>6. Upto(n) = L /\ Upto(0) = 0
  <2>1. Upto(n) = L
    <3>1. n * M \in Nat
      BY <1>1, <1>3
    <3> QED
      BY <1>1, <1>3, <3>1
  <2>2. Upto(0) = 0 * M
    BY <1>3, <1>5
  <2>3. 0 * M = 0
    BY <1>1
  <2> QED
    BY <2>1, <2>2, <2>3
<1>7. \A i \in 0..n : Upto(i) \in 0..L
  <2>1. ASSUME NEW i \in 0..n PROVE Upto(i) \in 0..L
    <3>1. CASE i = n
      BY <1>1, <1>6, <3>1
    <3>2. CASE i # n
      <4>1. i \in 0..(n - 1)
        BY <1>3, <2>1, <3>2
      <4> QED
        BY <1>5, <4>1
    <3> QED
      BY <3>1, <3>2
  <2> QED
    BY <2>1
<1> HIDE DEF Upto
<1>8. Len(ms) + 1 = at + n /\ at \in 1..Len(ms) /\ Len(ms) \in Nat
  BY <1>3, <1>4
<1>9. cut \in [at..(Len(ms) + 1) -> 0..L]
  <2>1. \A i \in at..(Len(ms) + 1) : i - at \in 0..n
    BY <1>3, <1>8
  <2> QED
    BY <1>7, <2>1
<1>10. cut[at] = 0 /\ cut[Len(ms) + 1] = L
  <2>1. at - at = 0 /\ at + n - at = n /\ at \in at..(at + n) /\ at + n \in at..(at + n)
    BY <1>3
  <2>2. cut[at] = Upto(at - at)
    BY <1>8, <2>1
  <2>3. cut[Len(ms) + 1] = Upto(n)
    <3> DEFINE e == Len(ms) + 1
    <3>1. e \in at..e /\ e - at = n
      BY <1>3, <1>8
    <3> HIDE DEF e, Upto
    <3>2. [i \in at..e |-> Upto(i - at)][e] = Upto(e - at)
      BY <3>1
    <3>3. Upto(e - at) = Upto(n)
      BY <3>1
    <3> QED
      BY <3>2, <3>3 DEF e
  <2> HIDE DEF cut
  <2> QED
    BY <1>6, <1>8, <2>1, <2>2, <2>3
<1>11. ASSUME NEW i \in at..Len(ms)
       PROVE  cut[i] <= cut[i + 1] /\ ms[i] = SubSeq(final, cut[i] + 1, cut[i + 1])
  <2>1. /\ i - at \in 0..(n - 1) /\ (i - at) + 1 \in 1..n /\ i = (at - 1) + ((i - at) + 1)
        /\ ((i - at) + 1) - 1 = i - at /\ (i + 1) - at = (i - at) + 1
        /\ i \in at..(Len(ms) + 1) /\ i + 1 \in at..(Len(ms) + 1)
    BY <1>3, <1>8
  <2>2. cut[i] = Upto(i - at) /\ cut[i + 1] = Upto((i - at) + 1)
    BY <2>1
  <2>3. ms[i] = Pieces(final)[(i - at) + 1]
    BY <1>4, <2>1
  <2>4. Pieces(final)[(i - at) + 1] = SubSeq(final, (i - at) * M + 1, Upto((i - at) + 1))
    BY <1>2, <2>1
  <2>5. Upto(i - at) = (i - at) * M /\ Upto(i - at) <= Upto((i - at) + 1)
    BY <1>5, <2>1
  <2> QED
    BY <2>2, <2>3, <2>4, <2>5
<1> HIDE DEF cut
<1> QED
  BY <1>8, <1>9, <1>10, <1>11 DEF ReadsAs, L

LEMMA PiecesAreTexts ==
    ASSUME NEW final \in Seq(Nat), final # <<>>
    PROVE  Pieces(final) \in Seq(Seq(Nat))
<1> DEFINE L == Len(final)
           M == MaxPerMessage
           n == (L + M - 1) \div M
           Upto(i) == IF i * M < L THEN i * M ELSE L
<1>1. L \in Nat \ {0} /\ M \in Nat \ {0}
  BY TelegramBounds, EmptySeq, LenProperties
<1>2. Pieces(final) = [i \in 1..n |-> SubSeq(final, (i - 1) * M + 1, Upto(i))]
  BY DEF Pieces
<1> HIDE DEF M
<1>3. n \in Nat \ {0} /\ \A i \in 0..(n - 1) : (i + 1) * M = i * M + M /\ i * M \in Nat
  <2> HIDE DEF L
  <2> QED
    BY <1>1, RoundedUp
<1> HIDE DEF n
<1>4. ASSUME NEW i \in 1..n PROVE SubSeq(final, (i - 1) * M + 1, Upto(i)) \in Seq(Nat)
  <2>1. i - 1 \in 0..(n - 1) /\ (i - 1) + 1 = i
    BY <1>3
  <2>2. (i - 1) * M \in Nat /\ i * M \in Nat
    BY <1>1, <1>3, <2>1
  <2>3. Upto(i) \in 0..L
    BY <1>1, <2>2
  <2>4. (i - 1) * M + 1 \in 1..(L + 1) \/ (i - 1) * M + 1 > Upto(i)
    BY <1>1, <2>2, <2>3
  <2>5. \A k \in ((i - 1) * M + 1)..Upto(i) : k \in 1..Len(final)
    BY <1>1, <2>2, <2>3
  <2>6. (i - 1) * M + 1 \in Int /\ Upto(i) \in Int
    BY <1>1, <2>2, <2>3
  <2> HIDE DEF Upto
  <2>7. \A k \in ((i - 1) * M + 1)..Upto(i) : final[k] \in Nat
    BY <2>5, ElementOfSeq
  <2> QED
    BY <2>6, <2>7, SubSeqProperties
<1> QED
  BY <1>2, <1>3, <1>4

LEMMA AfterTheFirst ==
    ASSUME NEW S, NEW x \in Seq(S), NEW y \in Seq(S), NEW k \in 1..Len(y)
    PROVE  (x \o y)[Len(x) + k] = y[k]
<1>1. /\ Len(x) \in Nat /\ Len(y) \in Nat
      /\ \A i \in 1..(Len(x) + Len(y)) :
           (x \o y)[i] = IF i <= Len(x) THEN x[i] ELSE y[i - Len(x)]
  BY ConcatProperties, LenProperties
<1> DEFINE i == Len(x) + k
<1>2. i \in 1..(Len(x) + Len(y)) /\ ~(i <= Len(x)) /\ i - Len(x) = k
  BY <1>1
<1> HIDE DEF i
<1>3. (x \o y)[i] = y[i - Len(x)]
  BY <1>1, <1>2
<1> QED
  BY <1>2, <1>3 DEF i

\* An answer whose messages were not refused is there, whole.
LEMMA FinalizeShows ==
    ASSUME NEW t \in BotTasks, NEW final \in Seq(Nat), EditsOwn(t)
    PROVE  LET r == Finalize(t, final) IN
           /\ r \in BotTasks /\ SameReading(t, r)
           /\ ~r.refused /\ final # <<>> =>
                \E first \in DOMAIN r.shown : ReadsAs(r.shown, first, final)
<1> DEFINE r == Finalize(t, final)
<1>1. t.shown \in Seq(Seq(Nat)) /\ Len(t.shown) \in Nat /\ t.at \in Nat /\ t.refused \in BOOLEAN
  BY LenProperties DEF BotTasks
<1>2. CASE final = <<>>
  BY <1>2 DEF Finalize, SameReading
<1>3. CASE final # <<>> /\ t.at = 0
  <2>1. t.refused
    BY <1>3 DEF EditsOwn
  <2>2. CASE Len(final) <= MaxPerMessage
    <3> DEFINE more == Append(t.shown, final)
    <3>1. r = [t EXCEPT !.shown = more]
      BY <1>3, <2>2 DEF Finalize
    <3>2. more \in Seq(Seq(Nat))
      BY <1>1, AppendProperties
    <3> HIDE DEF more, r
    <3>3. r \in BotTasks /\ SameReading(t, r)
      BY <3>1, <3>2 DEF BotTasks, SameReading
    <3>4. r.refused = t.refused
      BY <3>1 DEF BotTasks
    <3> QED
      BY <2>1, <3>3, <3>4 DEF r
  <2>3. CASE ~(Len(final) <= MaxPerMessage)
    <3>1. r = [t EXCEPT !.refused = TRUE]
      BY <1>3, <2>3 DEF Finalize
    <3> HIDE DEF r
    <3>3. r \in BotTasks /\ SameReading(t, r)
      BY <3>1 DEF BotTasks, SameReading
    <3>4. r.refused
      BY <3>1 DEF BotTasks
    <3> QED
      BY <3>3, <3>4 DEF r
  <2> QED
    BY <2>2, <2>3
<1>4. CASE final # <<>> /\ t.at # 0
  <2> DEFINE before == SubSeq(t.shown, 1, t.at - 1)
             pieces == Pieces(final)
             ms == before \o pieces
  <2>1. r = [t EXCEPT !.shown = ms]
    BY <1>4 DEF Finalize
  <2>2. before \in Seq(Seq(Nat)) /\ Len(before) = t.at - 1
    <3>1. 1 \in Int /\ t.at - 1 \in Int /\ t.at - 1 <= Len(t.shown) /\ t.at - 1 >= 0
      BY <1>1, <1>4 DEF EditsOwn
    <3>2. \A i \in 1..(t.at - 1) : i \in 1..Len(t.shown)
      BY <1>1, <3>1
    <3>3. \A i \in 1..(t.at - 1) : t.shown[i] \in Seq(Nat)
      BY <1>1, <3>2, ElementOfSeq
    <3>4. /\ before \in Seq(Seq(Nat))
          /\ Len(before) = IF 1 <= t.at - 1 THEN (t.at - 1) - 1 + 1 ELSE 0
      BY <3>1, <3>3, SubSeqProperties
    <3> HIDE DEF before
    <3> QED
      BY <1>1, <1>4, <3>1, <3>4
  <2>3. pieces \in Seq(Seq(Nat)) /\ Len(pieces) \in Nat
    BY <1>4, PiecesAreTexts, LenProperties
  <2> HIDE DEF before, pieces
  <2>4. /\ ms \in Seq(Seq(Nat)) /\ Len(ms) = (t.at - 1) + Len(pieces)
        /\ \A k \in 1..Len(pieces) : ms[(t.at - 1) + k] = pieces[k]
    <3>1. ms \in Seq(Seq(Nat)) /\ Len(ms) = Len(before) + Len(pieces)
      BY <2>2, <2>3, ConcatProperties
    <3>2. ASSUME NEW k \in 1..Len(pieces) PROVE ms[(t.at - 1) + k] = pieces[k]
      <4>1. (before \o pieces)[Len(before) + k] = pieces[k]
        BY <2>2, <2>3, AfterTheFirst
      <4> QED
        BY <2>2, <4>1
    <3> QED
      BY <2>2, <3>1, <3>2
  <2> HIDE DEF ms, r
  <2>5. r \in BotTasks /\ SameReading(t, r) /\ r.shown = ms
    BY <2>1, <2>4 DEF BotTasks, SameReading
  <2>6. t.at \in Nat \ {0}
    BY <1>1, <1>4
  <2>7. t.at \in 1..Len(ms) /\ ReadsAs(ms, t.at, final)
    BY <1>4, <2>4, <2>6, PiecesReadAs DEF pieces
  <2>8. DOMAIN ms = 1..Len(ms)
    BY <2>4, LenProperties
  <2> QED
    BY <2>5, <2>7, <2>8 DEF r
<1> QED
  BY <1>2, <1>3, <1>4

-----------------------------------------------------------------------------
(* Telegram: a task reads the frames.                                       *)

LEMMA CountedOn ==
    ASSUME NEW m \in Nat
    PROVE  /\ CountTo(m) \o <<m + 1, m + 2>> = CountTo(m + 2)
           /\ Len(CountTo(m)) = m /\ CountTo(m) \in Seq(Nat)
<1>1. CountTo(m) \in Seq(Nat) /\ Len(CountTo(m)) = m /\ \A i \in 1..m : CountTo(m)[i] = i
  BY DEF CountTo
<1>2. /\ CountTo(m + 2) \in Seq(Nat) /\ Len(CountTo(m + 2)) = m + 2
      /\ \A i \in 1..(m + 2) : CountTo(m + 2)[i] = i
  BY DEF CountTo
<1> DEFINE y == <<m + 1, m + 2>>
<1>3. y \in Seq(Nat) /\ Len(y) = 2 /\ y[1] = m + 1 /\ y[2] = m + 2
  OBVIOUS
<1> HIDE DEF y
<1>4. /\ CountTo(m) \o y \in Seq(Nat) /\ Len(CountTo(m) \o y) = m + 2
      /\ \A i \in 1..(m + 2) : (CountTo(m) \o y)[i] = IF i <= m THEN CountTo(m)[i] ELSE y[i - m]
  <2> DEFINE x == CountTo(m)
  <2>1. x \in Seq(Nat) /\ Len(x) = m
    BY <1>1
  <2> HIDE DEF x
  <2>2. /\ x \o y \in Seq(Nat) /\ Len(x \o y) = Len(x) + Len(y)
        /\ \A i \in 1..(Len(x) + Len(y)) : (x \o y)[i] = IF i <= Len(x) THEN x[i] ELSE y[i - Len(x)]
    BY <1>3, <2>1, ConcatProperties
  <2>3. Len(x) + Len(y) = m + 2
    BY <1>3, <2>1
  <2> QED
    BY <2>1, <2>2, <2>3 DEF x
<1>5. ASSUME NEW i \in 1..(m + 2) PROVE (CountTo(m) \o y)[i] = CountTo(m + 2)[i]
  <2>1. CountTo(m + 2)[i] = i
    BY <1>2
  <2>2. CASE i <= m
    <3>1. i \in 1..m
      BY <2>2
    <3> QED
      BY <1>1, <1>4, <2>1, <2>2, <3>1
  <2>3. CASE i = m + 1
    <3>1. i - m = 1 /\ ~(i <= m)
      BY <2>3
    <3>2. (CountTo(m) \o y)[i] = y[1]
      BY <1>4, <3>1
    <3> QED
      BY <1>3, <2>1, <2>3, <3>2
  <2>4. CASE i = m + 2
    <3>1. i - m = 2 /\ ~(i <= m)
      BY <2>4
    <3>2. (CountTo(m) \o y)[i] = y[2]
      BY <1>4, <3>1
    <3> QED
      BY <1>3, <2>1, <2>4, <3>2
  <2>5. i <= m \/ i = m + 1 \/ i = m + 2
    OBVIOUS
  <2> QED
    BY <2>2, <2>3, <2>4, <2>5
<1>6. CountTo(m) \o y = CountTo(m + 2)
  BY <1>2, <1>4, <1>5, SeqEqual
<1> QED
  BY <1>1, <1>6 DEF y

\* The next frame is a delta of the turn: it goes on where the task is.
LEMMA OwnDeltaRead ==
    ASSUME NEW u, NEW turn \in TurnRecs, NEW fs \in Seq(FrameRecs), NEW m \in Nat,
           NEW next \in 1..Len(fs), FramesInOrder(u, turn, fs),
           CaughtUp(u, m, next, turn, fs), IsDelta(u, fs[next])
    PROVE  fs[next].body = <<m + 1, m + 2>> /\ CaughtUp(u, m + 2, next + 1, turn, fs)
<1>1. turn.parts \in Nat /\ Len(fs) \in Nat
  BY LenProperties DEF TurnRecs
<1>2. \A i \in 1..Len(fs) : IsDelta(u, fs[i]) =>
         /\ fs[i].body[1] \in Nat /\ fs[i].body = <<fs[i].body[1], fs[i].body[1] + 1>>
         /\ fs[i].body[1] + 1 <= turn.parts
         /\ fs[i].body[1] + 1 = turn.parts
            \/ \E j \in 1..Len(fs) : IsDelta(u, fs[j]) /\ fs[j].body[1] = fs[i].body[1] + 2
  BY DEF FramesInOrder
<1>3. \A i, j \in 1..Len(fs) :
         i < j /\ IsDelta(u, fs[i]) /\ IsDelta(u, fs[j]) => fs[i].body[1] + 2 <= fs[j].body[1]
  BY DEF FramesInOrder
<1> DEFINE b == fs[next].body[1]
<1>4. b \in Nat /\ b > m /\ b + 1 <= turn.parts
  BY <1>2 DEF CaughtUp
<1>5. b = m + 1
  <2>1. m # turn.parts
    BY <1>1, <1>4
  <2>2. PICK i \in 1..Len(fs) : i >= next /\ IsDelta(u, fs[i]) /\ fs[i].body[1] = m + 1
    BY <2>1 DEF CaughtUp
  <2>3. CASE i = next
    BY <2>2, <2>3
  <2>4. CASE i > next
    <3>1. b + 2 <= m + 1
      BY <1>3, <2>2, <2>4
    <3> QED
      BY <1>4, <3>1
  <2>5. i = next \/ i > next
    BY <1>1, <2>2
  <2> QED
    BY <2>3, <2>4, <2>5
<1>6. fs[next].body = <<m + 1, m + 2>>
  <2>1. (m + 1) + 1 = m + 2
    OBVIOUS
  <2> QED
    BY <1>2, <1>5, <2>1
<1>7. ASSUME NEW i \in 1..Len(fs), i >= next + 1, IsDelta(u, fs[i]) PROVE fs[i].body[1] > m + 2
  <2>1. b + 2 <= fs[i].body[1] /\ fs[i].body[1] \in Nat
    BY <1>1, <1>2, <1>3, <1>7
  <2> QED
    BY <1>5, <2>1
<1>8. m + 2 = turn.parts
      \/ \E i \in 1..Len(fs) : i >= next + 1 /\ IsDelta(u, fs[i]) /\ fs[i].body[1] = (m + 2) + 1
  <2>1. CASE b + 1 = turn.parts
    BY <1>5, <2>1
  <2>2. CASE \E j \in 1..Len(fs) : IsDelta(u, fs[j]) /\ fs[j].body[1] = b + 2
    <3>1. PICK j \in 1..Len(fs) : IsDelta(u, fs[j]) /\ fs[j].body[1] = b + 2
      BY <2>2
    <3>2. j # next
      BY <1>4, <3>1
    <3>3. ~(j < next)
      <4>1. j < next => (b + 2) + 2 <= b
        BY <1>3, <3>1
      <4> QED
        BY <1>4, <4>1
    <3>4. j >= next + 1 /\ b + 2 = (m + 2) + 1
      BY <1>1, <1>5, <3>2, <3>3
    <3> QED
      BY <3>1, <3>4
  <2> QED
    BY <1>2, <2>1, <2>2
<1> QED
  BY <1>6, <1>7, <1>8 DEF CaughtUp

\* Another frame.
LEMMA OtherFrameRead ==
    ASSUME NEW u, NEW turn, NEW fs \in Seq(FrameRecs), NEW m, NEW next \in 1..Len(fs),
           CaughtUp(u, m, next, turn, fs), ~IsDelta(u, fs[next])
    PROVE  CaughtUp(u, m, next + 1, turn, fs)
<1>1. Len(fs) \in Nat
  BY LenProperties
<1>2. \A i \in 1..Len(fs) : IsDelta(u, fs[i]) => (i >= next + 1 <=> i >= next)
  BY <1>1
<1> QED
  BY <1>2 DEF CaughtUp

\* A task that streams reads a frame that is not the last.
LEMMA DeltaRead ==
    ASSUME NEW u, NEW t \in BotTasks, NEW turn \in TurnRecs, NEW fs \in Seq(FrameRecs),
           TaskSound(u, t, turn, fs), FramesInOrder(u, turn, fs), t.step = "stream",
           t.next \in 1..Len(fs), NEW r, SameReading([t EXCEPT !.next = t.next + 1,
             !.got = IF IsDelta(u, fs[t.next]) THEN t.got \o fs[t.next].body ELSE t.got], r),
           EditsOwn(r)
    PROVE  TaskSound(u, r, turn, fs)
<1> DEFINE own == IsDelta(u, fs[t.next])
<1>1. /\ r.step = "stream" /\ r.session = t.session /\ r.next = t.next + 1 /\ r.lagged = t.lagged
      /\ r.got = IF own THEN t.got \o fs[t.next].body ELSE t.got
  BY DEF SameReading, BotTasks
<1>2. Len(t.got) \in Nat /\ t.got \in Seq(Nat) /\ Len(fs) \in Nat /\ t.lagged \in BOOLEAN
  BY LenProperties DEF BotTasks
<1>3. r.next <= Len(fs) + 1
  BY <1>1, <1>2
<1>4. ASSUME ~t.lagged
      PROVE  r.got = CountTo(Len(r.got)) /\ CaughtUp(u, Len(r.got), r.next, turn, fs)
  <2> DEFINE m == Len(t.got)
  <2>1. t.got = CountTo(m) /\ CaughtUp(u, m, t.next, turn, fs)
    BY <1>4 DEF TaskSound
  <2>2. CASE own
    <3>1. fs[t.next].body = <<m + 1, m + 2>> /\ CaughtUp(u, m + 2, t.next + 1, turn, fs)
      <4> HIDE DEF m
      <4>1. m \in Nat
        BY <1>2 DEF m
      <4> QED
        BY <2>1, <2>2, <4>1, OwnDeltaRead
    <3>2. r.got = CountTo(m + 2) /\ Len(CountTo(m + 2)) = m + 2
      <4> HIDE DEF m
      <4>1. m \in Nat /\ m + 2 \in Nat
        BY <1>2 DEF m
      <4>2. CountTo(m) \o <<m + 1, m + 2>> = CountTo(m + 2)
        BY <4>1, CountedOn
      <4>3. Len(CountTo(m + 2)) = m + 2
        BY <4>1, CountedOn
      <4>4. r.got = t.got \o fs[t.next].body
        BY <1>1, <2>2
      <4> QED
        BY <2>1, <3>1, <4>2, <4>3, <4>4
    <3> HIDE DEF m
    <3> QED
      BY <1>1, <3>1, <3>2
  <2>3. CASE ~own
    <3>1. CaughtUp(u, m, t.next + 1, turn, fs)
      <4> HIDE DEF m
      <4> QED
        BY <2>1, <2>3, OtherFrameRead
    <3> QED
      BY <1>1, <2>1, <2>3, <3>1
  <2> QED
    BY <2>2, <2>3
<1>5. turn.state # "none" => t.session # 0
  BY DEF TaskSound
<1>6. turn.state # "none"
  BY DEF TaskSound
<1>7. r.at <= Len(r.shown) /\ (r.at = 0 => r.refused)
  BY DEF EditsOwn
<1> QED
  BY <1>1, <1>3, <1>4, <1>5, <1>6, <1>7 DEF TaskSound

\* A task that streams reads a last frame.
LEMMA EndRead ==
    ASSUME NEW u, NEW t \in BotTasks, NEW turn \in TurnRecs, NEW fs \in Seq(FrameRecs),
           TaskSound(u, t, turn, fs), FramesInOrder(u, turn, fs), t.step = "stream",
           t.next \in 1..Len(fs), fs[t.next].kind # "delta",
           NEW r, r.step = "done", r.session = t.session, r.got = t.got, r.lagged = t.lagged,
           r.own = (fs[t.next].turn = u)
    PROVE  TaskSound(u, r, turn, fs)
<1>1. turn.state # "none" => t.session # 0
  BY DEF TaskSound
<1>2. ASSUME r.own PROVE turn.state = "over" /\ (~r.lagged => r.got = CountTo(turn.parts))
  <2>1. turn.state = "over" /\ \A j \in 1..Len(fs) : IsDelta(u, fs[j]) => j < t.next
    BY <1>2 DEF FramesInOrder
  <2>2. ASSUME ~t.lagged PROVE t.got = CountTo(turn.parts)
    <3>1. t.got = CountTo(Len(t.got)) /\ CaughtUp(u, Len(t.got), t.next, turn, fs)
      BY <2>2 DEF TaskSound
    <3>2. \A i \in 1..Len(fs) : i >= t.next => ~IsDelta(u, fs[i])
      <4>1. Len(fs) \in Nat /\ t.next \in Nat
        BY LenProperties
      <4> QED
        BY <2>1, <4>1
    <3>3. Len(t.got) = turn.parts
      BY <3>1, <3>2 DEF CaughtUp
    <3> QED
      BY <3>1, <3>3
  <2> QED
    BY <2>1, <2>2
<1> QED
  BY <1>1, <1>2 DEF TaskSound

\* Frames are skipped, or the placeholder is sent.
LEMMA StreamGoesOn ==
    ASSUME NEW u, NEW t, NEW turn, NEW fs, TaskSound(u, t, turn, fs),
           t.step \in {"placeholder", "stream"}, NEW r, r.step = "stream",
           r.session = t.session, r.got = t.got, EditsOwn(r),
           r.lagged \/ (r.lagged = t.lagged /\ r.next = t.next), r.next <= Len(fs) + 1
    PROVE  TaskSound(u, r, turn, fs)
BY DEF TaskSound, EditsOwn

-----------------------------------------------------------------------------
(* Telegram: what a step of one task, or of one turn, has to keep.          *)

\* The task of update u becomes r; turns are at most marked as cancelled.
BotStep(u, r) ==
    /\ tasks' = [tasks EXCEPT ![u] = r] /\ UNCHANGED <<botScript, updates, offset, frames>>
    /\ turns' \in [UpdateNrs -> TurnRecs]
    /\ \A v \in UpdateNrs : /\ turns'[v].state = turns[v].state /\ turns'[v].parts = turns[v].parts
                            /\ turns'[v].outcome = turns[v].outcome
    /\ created' \in 0..MaxChatSessions /\ chatMap' \in [ChatsOf(botScript) -> 0..MaxChatSessions]

Spawned(u) == tasks[u].step # "none"

LEMMA NoTurnYet ==
    ASSUME TelegramInv, NEW u \in UpdateNrs, turns[u].state = "none", NEW s \in 0..MaxChatSessions,
           NEW turn
    PROVE  FramesInOrder(u, turn, Seen(s)) /\ \A i \in 1..Len(Seen(s)) : Seen(s)[i].turn # u
<1>1. ASSUME NEW i \in 1..Len(Seen(s)) PROVE Seen(s)[i].turn # u
  <2>1. CASE s = 0
    <3>1. Seen(s) = <<>>
      BY <2>1 DEF Seen
    <3>2. 1..Len(Seen(s)) = {}
      BY <3>1
    <3> QED
      BY <1>1, <3>2
  <2>2. CASE s # 0
    <3>1. s \in ChatSessions /\ Seen(s) = frames[s]
      BY <2>2, TelegramBounds DEF ChatSessions, Seen
    <3>2. PublishedBy(frames[s][i], s)
      BY <1>1, <3>1 DEF TelegramInv
    <3> QED
      BY <3>1, <3>2 DEF PublishedBy
  <2> QED
    BY <2>1, <2>2
<1> QED
  BY <1>1, NothingPublished

LEMMA TaskMoves ==
    ASSUME TelegramInv, NEW u \in UpdateNrs, NEW r \in BotTasks, BotStep(u, r), Spawned(u),
           TaskSound(u, r, turns[u], Seen(r.session)), ShownWhole(r),
           turns[u].state # "none" => r.session = tasks[u].session
    PROVE  TelegramInv'
<1>1. tasks \in [UpdateNrs -> BotTasks] /\ tasks' \in [UpdateNrs -> BotTasks] /\ tasks'[u] = r
      /\ \A v \in UpdateNrs : v # u => tasks'[v] = tasks[v]
  BY DEF TelegramInv, BotTypes, BotStep
<1>2. BotTypes'
  BY <1>1 DEF TelegramInv, BotTypes, BotStep
<1>3. NotFetched'
  <2>1. ~(u >= offset)
    BY DEF TelegramInv, NotFetched, Spawned, Unspawned
  <2> QED
    BY <1>1, <2>1 DEF TelegramInv, NotFetched, BotStep
<1>4. \A s : Seen(s)' = Seen(s)
  BY DEF Seen, BotStep
<1>5. ASSUME NEW v \in UpdateNrs PROVE TaskInOrder(v)'
  <2> DEFINE same == /\ turns'[v].state = turns[v].state /\ turns'[v].parts = turns[v].parts
                     /\ turns'[v].outcome = turns[v].outcome
  <2>1. same
    BY DEF BotStep
  <2>2. TaskInOrder(v)
    BY DEF TelegramInv
  <2>3. /\ TaskSound(v, tasks'[v], turns[v], Seen(tasks'[v].session))
        /\ FramesInOrder(v, turns[v], Seen(tasks'[v].session))
    <3>1. CASE v # u
      BY <1>1, <2>2, <3>1 DEF TaskInOrder
    <3>2. CASE v = u /\ turns[u].state = "none"
      <4>1. r.session \in 0..MaxChatSessions
        BY DEF BotTasks
      <4>2. FramesInOrder(u, turns[u], Seen(r.session))
        BY <3>2, <4>1, NoTurnYet
      <4> QED
        BY <1>1, <3>2, <4>2
    <3>3. CASE v = u /\ turns[u].state # "none"
      BY <1>1, <2>2, <3>3 DEF TaskInOrder
    <3> QED
      BY <3>1, <3>2, <3>3
  <2>4. /\ TaskSound(v, tasks'[v], turns'[v], Seen(tasks'[v].session))
        /\ FramesInOrder(v, turns'[v], Seen(tasks'[v].session))
    BY <2>1, <2>3, SameTurn
  <2>5. TurnSound(turns'[v])
    BY <2>1, <2>2 DEF TaskInOrder, TurnSound
  <2>6. Seen(tasks[v].session)' = Seen(tasks'[v].session)
    BY DEF Seen, BotStep
  <2> QED
    BY <2>4, <2>5, <2>6 DEF TaskInOrder
<1>6. ASSUME NEW s \in ChatSessions, NEW i \in 1..Len(frames[s]) PROVE PublishedBy(frames[s][i], s)'
  <2>1. PublishedBy(frames[s][i], s) /\ frames' = frames
    BY DEF TelegramInv, BotStep
  <2>2. frames[s][i].turn \in UpdateNrs
    <3>1. frames[s] \in Seq(FrameRecs)
      BY DEF TelegramInv, BotTypes
    <3>2. frames[s][i] \in FrameRecs
      BY <3>1, ElementOfSeq
    <3> QED
      BY <3>2 DEF FrameRecs
  <2> DEFINE w == frames[s][i].turn
  <2>3. turns[w].state # "none" /\ tasks[w].session = s
    BY <2>1 DEF PublishedBy
  <2>4. turns'[w].state # "none" /\ tasks'[w].session = s
    <3> HIDE DEF w
    <3>1. w \in UpdateNrs
      BY <2>2 DEF w
    <3>2. turns'[w].state = turns[w].state
      BY <3>1 DEF BotStep
    <3>3. tasks'[w].session = tasks[w].session
      BY <1>1, <2>3, <3>1
    <3> QED
      BY <2>3, <3>2, <3>3
  <2> QED
    BY <2>1, <2>4 DEF PublishedBy
<1>7. AnswerShownWhole'
  <2>1. ASSUME NEW v \in UpdateNrs PROVE ShownWhole(tasks'[v])
    BY <1>1 DEF TelegramInv, AnswerShownWhole
  <2> QED
    BY <2>1 DEF AnswerShownWhole, ShownWhole
<1>8. frames' = frames
  BY DEF BotStep
<1> QED
  BY <1>2, <1>3, <1>5, <1>6, <1>7, <1>8 DEF TelegramInv

\* A task that has no turn goes on.
LEMMA EarlyMoves ==
    ASSUME TelegramInv, NEW u \in UpdateNrs, NEW r \in BotTasks, BotStep(u, r),
           tasks[u].step \notin {"none", "placeholder", "stream", "done", "died", "spinning"},
           r.step \notin {"placeholder", "stream"}, r.got = tasks[u].got, r.own = tasks[u].own,
           r.step \in {"map", "submit"} => r.session # 0,
           r.step = "submit" => r.next <= Len(Seen(r.session)) + 1
    PROVE  TelegramInv'
<1>1. TaskSound(u, tasks[u], turns[u], Seen(tasks[u].session))
  BY DEF TelegramInv, TaskInOrder
<1>2. turns[u].state = "none" /\ tasks[u].got = <<>> /\ ~tasks[u].own
  BY <1>1 DEF TaskSound
<1>3. TaskSound(u, r, turns[u], Seen(r.session))
  BY <1>2 DEF TaskSound
<1>4. ShownWhole(r)
  BY <1>2 DEF ShownWhole
<1> QED
  BY <1>2, <1>3, <1>4, TaskMoves DEF Spawned

-----------------------------------------------------------------------------
(* Telegram: the actions of a task without a turn.                          *)

\* Only the task of update u, and perhaps the mapping and the sessions.
LEMMA OnlyTaskMoves ==
    ASSUME TelegramInv, NEW u \in UpdateNrs, NEW r, Set(u, r),
           UNCHANGED <<botScript, updates, offset, gatewaySide>>,
           created' \in 0..MaxChatSessions, chatMap' \in [ChatsOf(botScript) -> 0..MaxChatSessions]
    PROVE  BotStep(u, r)
BY DEF BotStep, Set, gatewaySide, TelegramInv, BotTypes

LEMMA BotFacts ==
    ASSUME TelegramInv, NEW u \in UpdateNrs, Spawned(u)
    PROVE  /\ tasks[u] \in BotTasks /\ ChatOf(u) \in ChatsOf(botScript)
           /\ chatMap[ChatOf(u)] \in 0..MaxChatSessions
           /\ created \in 0..MaxChatSessions /\ chatMap \in [ChatsOf(botScript) -> 0..MaxChatSessions]
<1>1. u < offset /\ offset \in 1..(Len(updates) + 1) /\ Len(updates) \in Nat
  <2>1. /\ updates \in Seq([chat : ChatsOf(botScript), what : STRING])
        /\ offset \in 1..(Len(updates) + 1)
    BY DEF TelegramInv, BotTypes
  <2>2. Len(updates) \in Nat
    BY <2>1, LenProperties
  <2>3. ~(u >= offset)
    BY DEF TelegramInv, NotFetched, Spawned, Unspawned
  <2> QED
    BY <2>1, <2>2, <2>3, TelegramBounds DEF UpdateNrs
<1>2. u \in 1..Len(updates)
  BY <1>1, TelegramBounds DEF UpdateNrs
<1>3. updates[u] \in [chat : ChatsOf(botScript), what : STRING]
  BY <1>2, ElementOfSeq DEF TelegramInv, BotTypes
<1>4. ChatOf(u) \in ChatsOf(botScript)
  BY <1>3 DEF ChatOf
<1>5. created \in 0..MaxChatSessions /\ chatMap \in [ChatsOf(botScript) -> 0..MaxChatSessions]
  BY DEF TelegramInv, BotTypes
<1> QED
  BY <1>4, <1>5 DEF TelegramInv, BotTypes

\* A task goes to a step that needs nothing.
LEMMA GoesTo ==
    ASSUME TelegramInv, NEW u \in UpdateNrs,
           NEW step \in {"done", "resolve", "create", "switch", "cancel", "cancelall"},
           tasks[u].step \notin {"none", "placeholder", "stream", "done", "died", "spinning"},
           BotStep(u, [tasks[u] EXCEPT !.step = step])
    PROVE  TelegramInv'
<1> DEFINE r == [tasks[u] EXCEPT !.step = step]
<1>1. tasks[u] \in BotTasks
  BY DEF TelegramInv, BotTypes
<1>2. r \in BotTasks /\ r.step = step /\ r.got = tasks[u].got /\ r.own = tasks[u].own
  BY <1>1 DEF BotTasks, TaskSteps
<1>3. BotStep(u, r)
  OBVIOUS
<1> HIDE DEF r
<1> QED
  BY <1>2, <1>3, EarlyMoves

LEMMA HandleKeeps ==
    ASSUME TelegramInv, NEW u \in UpdateNrs, HandleMessage(u)
    PROVE  TelegramInv'
<1>1. tasks[u].step = "handle" /\ Spawned(u)
  BY DEF HandleMessage, Spawned
<1>2. created' \in 0..MaxChatSessions /\ chatMap' \in [ChatsOf(botScript) -> 0..MaxChatSessions]
  BY <1>1, BotFacts DEF HandleMessage
<1>3. PICK step \in {"done", "resolve", "create", "switch", "cancel", "cancelall"} :
        Set(u, [tasks[u] EXCEPT !.step = step])
  BY DEF HandleMessage, To, AfterCommand
<1>4. UNCHANGED <<botScript, updates, offset, gatewaySide>>
  BY DEF HandleMessage
<1>5. BotStep(u, [tasks[u] EXCEPT !.step = step])
  BY <1>2, <1>3, <1>4, OnlyTaskMoves
<1> QED
  BY <1>1, <1>5, GoesTo

\* A task with its session subscribes.
LEMMA Subscribes ==
    ASSUME TelegramInv, NEW u \in UpdateNrs, NEW s \in 1..MaxChatSessions,
           tasks[u].step \notin {"none", "placeholder", "stream", "done", "died", "spinning"},
           BotStep(u, SubscribeChat([tasks[u] EXCEPT !.session = s]))
    PROVE  TelegramInv'
<1> DEFINE t == [tasks[u] EXCEPT !.session = s]
           r == SubscribeChat(t)
<1>1. t \in BotTasks /\ t.session = s /\ t.got = tasks[u].got /\ t.own = tasks[u].own
  <2>1. tasks[u] \in BotTasks
    BY DEF TelegramInv, BotTypes
  <2>2. s \in 0..MaxChatSessions
    BY TelegramBounds
  <2> QED
    BY <2>1, <2>2 DEF BotTasks
<1>2. BotStep(u, r)
  OBVIOUS
<1> HIDE DEF t
<1>3. Len(frames[s]) + 1 \in Nat /\ Seen(s) = frames[s] /\ s # 0
  <2>1. frames[s] \in Seq(FrameRecs)
    BY DEF TelegramInv, BotTypes, ChatSessions
  <2>2. s # 0
    BY TelegramBounds
  <2> QED
    BY <2>1, <2>2, LenProperties DEF Seen
<1>4. r = [t EXCEPT !.step = "submit", !.next = Len(frames[s]) + 1]
  BY <1>1 DEF SubscribeChat
<1> HIDE DEF r
<1>5. /\ r \in BotTasks /\ r.step = "submit" /\ r.next = Len(frames[s]) + 1 /\ r.session = s
      /\ r.got = tasks[u].got /\ r.own = tasks[u].own
  BY <1>1, <1>3, <1>4 DEF BotTasks, TaskSteps
<1>6. r.next <= Len(Seen(r.session)) + 1
  BY <1>3, <1>5
<1> QED
  BY <1>2, <1>3, <1>5, <1>6, EarlyMoves

LEMMA ResolveKeeps ==
    ASSUME TelegramInv, NEW u \in UpdateNrs, ResolveChatSession(u)
    PROVE  TelegramInv'
<1>1. tasks[u].step = "resolve" /\ Spawned(u)
  BY DEF ResolveChatSession, Spawned
<1>2. created' \in 0..MaxChatSessions /\ chatMap' \in [ChatsOf(botScript) -> 0..MaxChatSessions]
  BY <1>1, BotFacts DEF ResolveChatSession
<1>3. UNCHANGED <<botScript, updates, offset, gatewaySide>>
  BY DEF ResolveChatSession
<1>4. CASE To(u, "create")
  <2>1. BotStep(u, [tasks[u] EXCEPT !.step = "create"])
    BY <1>2, <1>3, <1>4, OnlyTaskMoves DEF To
  <2> QED
    BY <1>1, <2>1, GoesTo
<1>5. CASE /\ chatMap[ChatOf(u)] # 0
           /\ Set(u, SubscribeChat([tasks[u] EXCEPT !.session = chatMap[ChatOf(u)]]))
  <2> DEFINE s == chatMap[ChatOf(u)]
  <2>1. s \in 0..MaxChatSessions
    BY <1>1, BotFacts
  <2>2. s \in 1..MaxChatSessions
    BY <1>5, <2>1, TelegramBounds
  <2>3. BotStep(u, SubscribeChat([tasks[u] EXCEPT !.session = s]))
    BY <1>2, <1>3, <1>5, OnlyTaskMoves
  <2> HIDE DEF s
  <2> QED
    BY <1>1, <2>2, <2>3, Subscribes
<1> QED
  BY <1>4, <1>5 DEF ResolveChatSession

\* A task takes a session.
LEMMA TakesSession ==
    ASSUME TelegramInv, NEW u \in UpdateNrs, NEW s \in 1..MaxChatSessions,
           NEW step \in {"map", "cancelling"},
           tasks[u].step \notin {"none", "placeholder", "stream", "done", "died", "spinning"},
           BotStep(u, [tasks[u] EXCEPT !.step = step, !.session = s])
    PROVE  TelegramInv'
<1> DEFINE r == [tasks[u] EXCEPT !.step = step, !.session = s]
<1>1. tasks[u] \in BotTasks
  BY DEF TelegramInv, BotTypes
<1>2. s \in 0..MaxChatSessions /\ s # 0
  BY TelegramBounds
<1>3. /\ r \in BotTasks /\ r.step = step /\ r.session = s /\ r.got = tasks[u].got
      /\ r.own = tasks[u].own
  BY <1>1, <1>2 DEF BotTasks, TaskSteps
<1>4. BotStep(u, r)
  OBVIOUS
<1> HIDE DEF r
<1> QED
  BY <1>2, <1>3, <1>4, EarlyMoves

LEMMA CreateKeeps ==
    ASSUME TelegramInv, NEW u \in UpdateNrs, CreateChatSession(u)
    PROVE  TelegramInv'
<1>1. tasks[u].step = "create" /\ Spawned(u)
  BY DEF CreateChatSession, Spawned
<1>2. created \in 0..MaxChatSessions /\ chatMap \in [ChatsOf(botScript) -> 0..MaxChatSessions]
  BY <1>1, BotFacts
<1>3. UNCHANGED <<botScript, updates, offset, gatewaySide>> /\ chatMap' = chatMap
  BY DEF CreateChatSession
<1>4. CASE created < botScript.limit
  <2>1. botScript.limit \in 0..MaxChatSessions
    BY TelegramBounds DEF TelegramInv, BotTypes
  <2>2. /\ created' = created + 1
        /\ Set(u, [tasks[u] EXCEPT !.step = "map", !.session = created + 1])
    BY <1>4 DEF CreateChatSession
  <2>3. created + 1 \in 1..MaxChatSessions /\ created' \in 0..MaxChatSessions
    BY <1>2, <1>4, <2>1, <2>2, TelegramBounds
  <2>4. BotStep(u, [tasks[u] EXCEPT !.step = "map", !.session = created + 1])
    BY <1>2, <1>3, <2>2, <2>3, OnlyTaskMoves
  <2> QED
    BY <1>1, <2>3, <2>4, TakesSession
<1>5. CASE ~(created < botScript.limit)
  <2>1. To(u, "done") /\ created' = created
    BY <1>5 DEF CreateChatSession
  <2>2. BotStep(u, [tasks[u] EXCEPT !.step = "done"])
    BY <1>2, <1>3, <2>1, OnlyTaskMoves DEF To
  <2> QED
    BY <1>1, <2>2, GoesTo
<1> QED
  BY <1>4, <1>5

LEMMA SwitchKeeps ==
    ASSUME TelegramInv, NEW u \in UpdateNrs, SwitchChat(u)
    PROVE  TelegramInv'
<1>1. tasks[u].step = "switch" /\ Spawned(u)
  BY DEF SwitchChat, Spawned
<1>2. created' \in 0..MaxChatSessions /\ chatMap' \in [ChatsOf(botScript) -> 0..MaxChatSessions]
  BY <1>1, BotFacts DEF SwitchChat
<1>3. UNCHANGED <<botScript, updates, offset, gatewaySide>>
  BY DEF SwitchChat
<1>4. PICK s \in NamedSessions :
         IF s = 0 THEN To(u, "done") ELSE Set(u, [tasks[u] EXCEPT !.step = "map", !.session = s])
  BY DEF SwitchChat
<1>5. CASE s = 0
  <2>1. BotStep(u, [tasks[u] EXCEPT !.step = "done"])
    BY <1>2, <1>3, <1>4, <1>5, OnlyTaskMoves DEF To
  <2> QED
    BY <1>1, <2>1, GoesTo
<1>6. CASE s # 0
  <2>1. created \in 0..MaxChatSessions
    BY <1>1, BotFacts
  <2>2. s \in 1..MaxChatSessions
    BY <1>4, <1>6, <2>1, TelegramBounds DEF NamedSessions
  <2>3. BotStep(u, [tasks[u] EXCEPT !.step = "map", !.session = s])
    BY <1>2, <1>3, <1>4, <1>6, OnlyTaskMoves
  <2> QED
    BY <1>1, <2>2, <2>3, TakesSession
<1> QED
  BY <1>5, <1>6

LEMMA MapKeeps ==
    ASSUME TelegramInv, NEW u \in UpdateNrs, MapChat(u)
    PROVE  TelegramInv'
<1>1. tasks[u].step = "map" /\ Spawned(u)
  BY DEF MapChat, Spawned
<1>2. /\ tasks[u] \in BotTasks /\ created' \in 0..MaxChatSessions
      /\ chatMap \in [ChatsOf(botScript) -> 0..MaxChatSessions]
  BY <1>1, BotFacts DEF MapChat
<1>3. UNCHANGED <<botScript, updates, offset, gatewaySide>>
  BY DEF MapChat
<1>4. tasks[u].session \in 0..MaxChatSessions /\ tasks[u].session # 0
  <2>1. TaskSound(u, tasks[u], turns[u], Seen(tasks[u].session))
    BY DEF TelegramInv, TaskInOrder
  <2> QED
    BY <1>1, <1>2, <2>1 DEF TaskSound, BotTasks
<1>5. chatMap' \in [ChatsOf(botScript) -> 0..MaxChatSessions]
  BY <1>2, <1>4 DEF MapChat
<1>6. CASE updates[u].what \in {"text", "media"}
  <2> DEFINE s == tasks[u].session
  <2>1. s \in 1..MaxChatSessions
    BY <1>4, TelegramBounds
  <2>2. tasks[u] = [tasks[u] EXCEPT !.session = s]
    BY <1>2 DEF BotTasks
  <2>3. Set(u, SubscribeChat(tasks[u]))
    BY <1>6 DEF MapChat
  <2>4. BotStep(u, SubscribeChat(tasks[u]))
    BY <1>2, <1>3, <1>5, <2>3, OnlyTaskMoves
  <2>5. BotStep(u, SubscribeChat([tasks[u] EXCEPT !.session = s]))
    BY <2>2, <2>4
  <2> HIDE DEF s
  <2> QED
    BY <1>1, <2>1, <2>5, Subscribes
<1>7. CASE updates[u].what \notin {"text", "media"}
  <2>1. To(u, "done")
    BY <1>7 DEF MapChat
  <2>2. BotStep(u, [tasks[u] EXCEPT !.step = "done"])
    BY <1>2, <1>3, <1>5, <2>1, OnlyTaskMoves DEF To
  <2> QED
    BY <1>1, <2>2, GoesTo
<1> QED
  BY <1>6, <1>7

LEMMA CancelKeeps ==
    ASSUME TelegramInv, NEW u \in UpdateNrs, CancelChat(u)
    PROVE  TelegramInv'
<1>1. tasks[u].step = "cancel" /\ Spawned(u)
  BY DEF CancelChat, Spawned
<1>2. created' \in 0..MaxChatSessions /\ chatMap' \in [ChatsOf(botScript) -> 0..MaxChatSessions]
  BY <1>1, BotFacts DEF CancelChat
<1>3. UNCHANGED <<botScript, updates, offset, gatewaySide>>
  BY DEF CancelChat
<1>4. CASE chatMap[ChatOf(u)] = 0
  <2>1. BotStep(u, [tasks[u] EXCEPT !.step = "done"])
    BY <1>2, <1>3, <1>4, OnlyTaskMoves DEF CancelChat, To
  <2> QED
    BY <1>1, <2>1, GoesTo
<1>5. CASE chatMap[ChatOf(u)] # 0
  <2> DEFINE s == chatMap[ChatOf(u)]
  <2>1. s \in 0..MaxChatSessions
    BY <1>1, BotFacts
  <2>2. s \in 1..MaxChatSessions
    BY <1>5, <2>1, TelegramBounds
  <2>3. Set(u, [tasks[u] EXCEPT !.step = "cancelling", !.session = s])
    BY <1>5 DEF CancelChat
  <2>4. BotStep(u, [tasks[u] EXCEPT !.step = "cancelling", !.session = s])
    BY <1>2, <1>3, <2>3, OnlyTaskMoves
  <2> HIDE DEF s
  <2> QED
    BY <1>1, <2>2, <2>4, TakesSession
<1> QED
  BY <1>4, <1>5

\* Turns are marked as cancelled.
LEMMA Marked ==
    ASSUME TelegramInv, NEW u \in UpdateNrs, NEW victims, Cancelled(victims), To(u, "done"), Spawned(u),
           UNCHANGED <<botScript, updates, offset, chatMap, created, active, frames>>
    PROVE  BotStep(u, [tasks[u] EXCEPT !.step = "done"])
<1>1. turns \in [UpdateNrs -> TurnRecs]
  BY DEF TelegramInv, BotTypes
<1>2. ASSUME NEW v \in UpdateNrs
      PROVE  /\ turns'[v] \in TurnRecs
             /\ turns'[v].state = turns[v].state /\ turns'[v].parts = turns[v].parts
             /\ turns'[v].outcome = turns[v].outcome
  <2>1. turns[v] \in TurnRecs
    BY <1>1
  <2>2. turns'[v] = IF v \in victims THEN [turns[v] EXCEPT !.cancelled = TRUE] ELSE turns[v]
    BY DEF Cancelled
  <2> QED
    BY <2>1, <2>2 DEF TurnRecs
<1>3. turns' \in [UpdateNrs -> TurnRecs]
  BY <1>2 DEF Cancelled
<1>4. created' \in 0..MaxChatSessions /\ chatMap' \in [ChatsOf(botScript) -> 0..MaxChatSessions]
  BY BotFacts
<1> QED
  BY <1>2, <1>3, <1>4 DEF BotStep, To, Set

LEMMA CancelTurnKeeps ==
    ASSUME TelegramInv, NEW u \in UpdateNrs, CancelSessionTurn(u) \/ CancelAllTurns(u)
    PROVE  TelegramInv'
<1>1. tasks[u].step \in {"cancelling", "cancelall"} /\ Spawned(u)
  BY DEF CancelSessionTurn, CancelAllTurns, Spawned
<1>2. PICK victims : Cancelled(victims)
  BY DEF CancelSessionTurn, CancelAllTurns
<1>3. To(u, "done") /\ UNCHANGED <<botScript, updates, offset, chatMap, created, active, frames>>
  BY DEF CancelSessionTurn, CancelAllTurns
<1>4. BotStep(u, [tasks[u] EXCEPT !.step = "done"])
  BY <1>1, <1>2, <1>3, Marked
<1> QED
  BY <1>1, <1>4, GoesTo

-----------------------------------------------------------------------------
(* Telegram: the actions of a task that streams.                            *)

LEMMA StreamTasks ==
    ASSUME TelegramInv, NEW u \in UpdateNrs, tasks[u].step \in {"placeholder", "stream"}
    PROVE  /\ tasks[u] \in BotTasks /\ turns[u] \in TurnRecs /\ Spawned(u)
           /\ tasks[u].session \in ChatSessions
           /\ Seen(tasks[u].session) = frames[tasks[u].session]
           /\ frames[tasks[u].session] \in Seq(FrameRecs)
           /\ TaskSound(u, tasks[u], turns[u], frames[tasks[u].session])
           /\ FramesInOrder(u, turns[u], frames[tasks[u].session])
<1>1. tasks[u] \in BotTasks /\ turns[u] \in TurnRecs
  BY DEF TelegramInv, BotTypes
<1>2. /\ TaskSound(u, tasks[u], turns[u], Seen(tasks[u].session))
      /\ FramesInOrder(u, turns[u], Seen(tasks[u].session))
  BY DEF TelegramInv, TaskInOrder
<1>3. tasks[u].session # 0
  BY <1>2 DEF TaskSound
<1>4. tasks[u].session \in 0..MaxChatSessions
  BY <1>1 DEF BotTasks
<1>5. tasks[u].session \in ChatSessions
  BY <1>3, <1>4, TelegramBounds DEF ChatSessions
<1>6. frames[tasks[u].session] \in Seq(FrameRecs)
  BY <1>5 DEF TelegramInv, BotTypes
<1>7. Seen(tasks[u].session) = frames[tasks[u].session]
  BY <1>3 DEF Seen
<1> QED
  BY <1>1, <1>2, <1>5, <1>6, <1>7 DEF Spawned

\* Only the task moves, and stays on its session.
LEMMA StreamTaskMoves ==
    ASSUME TelegramInv, NEW u \in UpdateNrs, tasks[u].step \in {"placeholder", "stream"},
           NEW r \in BotTasks, Set(u, r), r.session = tasks[u].session, ShownWhole(r),
           TaskSound(u, r, turns[u], frames[tasks[u].session]),
           UNCHANGED <<botScript, updates, offset, chatMap, created, gatewaySide>>
    PROVE  TelegramInv'
<1>1. Spawned(u) /\ Seen(r.session) = frames[tasks[u].session]
  BY StreamTasks
<1>2. created' \in 0..MaxChatSessions /\ chatMap' \in [ChatsOf(botScript) -> 0..MaxChatSessions]
  BY <1>1, BotFacts
<1>3. UNCHANGED <<botScript, updates, offset, gatewaySide>>
  OBVIOUS
<1>4. BotStep(u, r)
  BY <1>2, <1>3, OnlyTaskMoves
<1>5. TaskSound(u, r, turns[u], Seen(r.session))
  BY <1>1
<1> QED
  BY <1>1, <1>4, <1>5, TaskMoves

LEMMA PlaceholderKeeps ==
    ASSUME TelegramInv, NEW u \in UpdateNrs, SendPlaceholder(u)
    PROVE  TelegramInv'
<1> DEFINE t == tasks[u]
           fs == frames[t.session]
<1>1. t.step = "placeholder"
  BY DEF SendPlaceholder
<1>2. t \in BotTasks /\ TaskSound(u, t, turns[u], fs)
  BY <1>1, StreamTasks
<1>3. PICK ok \in BOOLEAN : Set(u, [Placed(t, ok) EXCEPT !.step = "stream"])
  BY DEF SendPlaceholder
<1> DEFINE p == Placed(t, ok)
           r == [p EXCEPT !.step = "stream"]
<1>4. p \in BotTasks /\ SameReading(t, p) /\ EditsOwn(p)
  <2> HIDE DEF t
  <2> QED
    BY <1>2, PlacedKeeps
<1>5. Set(u, r)
  BY <1>3
<1> HIDE DEF p
<1>6. /\ r \in BotTasks /\ r.step = "stream" /\ r.session = p.session /\ r.next = p.next
      /\ r.lagged = p.lagged /\ r.got = p.got /\ r.at = p.at /\ r.shown = p.shown
      /\ r.refused = p.refused
  BY <1>4 DEF BotTasks, TaskSteps
<1> HIDE DEF r
<1>7. EditsOwn(r)
  BY <1>4, <1>6 DEF EditsOwn
<1>8. r.session = t.session /\ r.got = t.got /\ r.lagged = t.lagged /\ r.next = t.next
  BY <1>4, <1>6 DEF SameReading
<1>9. t.next <= Len(fs) + 1
  BY <1>1, <1>2 DEF TaskSound
<1>10. TaskSound(u, r, turns[u], fs)
  <2> HIDE DEF t, fs
  <2> QED
    BY <1>1, <1>2, <1>6, <1>7, <1>8, <1>9, StreamGoesOn
<1>11. ShownWhole(r)
  BY <1>6 DEF ShownWhole
<1>12. UNCHANGED <<botScript, updates, offset, chatMap, created, gatewaySide>>
  BY DEF SendPlaceholder
<1> QED
  BY <1>1, <1>5, <1>6, <1>8, <1>10, <1>11, <1>12, StreamTaskMoves

LEMMA LagKeeps ==
    ASSUME TelegramInv, NEW u \in UpdateNrs, LagBehind(u)
    PROVE  TelegramInv'
<1> DEFINE t == tasks[u]
           fs == frames[t.session]
           r == [t EXCEPT !.next = OldestKept(t.session), !.lagged = TRUE]
<1>1. t.step = "stream" /\ Set(u, r)
  BY DEF LagBehind
<1>2. t \in BotTasks /\ TaskSound(u, t, turns[u], fs) /\ fs \in Seq(FrameRecs)
  BY <1>1, StreamTasks
<1>3. OldestKept(t.session) \in Nat /\ OldestKept(t.session) <= Len(fs) + 1
  <2>1. Len(fs) \in Nat
    BY <1>2, LenProperties
  <2>2. OldestKept(t.session) = IF Len(fs) > EventCapacity THEN Len(fs) - EventCapacity + 1 ELSE 1
    BY DEF OldestKept
  <2> HIDE DEF fs
  <2> QED
    BY <2>1, <2>2, TelegramBounds
<1>4. /\ r \in BotTasks /\ r.step = "stream" /\ r.session = t.session /\ r.got = t.got /\ r.lagged
      /\ r.next = OldestKept(t.session) /\ r.at = t.at /\ r.shown = t.shown /\ r.refused = t.refused
  BY <1>1, <1>2, <1>3 DEF BotTasks
<1> HIDE DEF r
<1>5. EditsOwn(r)
  BY <1>1, <1>2, <1>4 DEF EditsOwn, TaskSound
<1>6. TaskSound(u, r, turns[u], fs)
  <2> HIDE DEF t, fs
  <2> QED
    BY <1>1, <1>2, <1>3, <1>4, <1>5, StreamGoesOn
<1>7. ShownWhole(r)
  BY <1>4 DEF ShownWhole
<1>8. UNCHANGED <<botScript, updates, offset, chatMap, created, gatewaySide>>
  BY DEF LagBehind
<1> QED
  BY <1>1, <1>4, <1>6, <1>7, <1>8, StreamTaskMoves

\* A last frame ends the stream: the answer is shown.
LEMMA EndKeeps ==
    ASSUME TelegramInv, NEW u \in UpdateNrs, tasks[u].step = "stream",
           tasks[u].next \in 1..Len(frames[tasks[u].session]),
           NEW f, f = frames[tasks[u].session][tasks[u].next], f.kind # "delta",
           NEW read \in BotTasks, EditsOwn(read), read.got = tasks[u].got,
           read.lagged = tasks[u].lagged, read.session = tasks[u].session,
           Set(u, [Finalize(read, FinalText(f)) EXCEPT
                      !.step = "done", !.ended = f.kind, !.final = f.body,
                      !.own = (f.turn = u), !.acc = <<>>, !.at = 0, !.next = 0]),
           UNCHANGED <<botScript, updates, offset, chatMap, created, gatewaySide>>
    PROVE  TelegramInv'
<1> DEFINE t == tasks[u]
           fs == frames[t.session]
           e == Finalize(read, FinalText(f))
           own == f.turn = u
           r == [e EXCEPT !.step = "done", !.ended = f.kind, !.final = f.body,
                          !.own = own, !.acc = <<>>, !.at = 0, !.next = 0]
<1>1. /\ t \in BotTasks /\ turns[u] \in TurnRecs /\ fs \in Seq(FrameRecs)
      /\ TaskSound(u, t, turns[u], fs) /\ FramesInOrder(u, turns[u], fs)
  BY StreamTasks
<1>2. f \in FrameRecs
  BY <1>1, ElementOfSeq
<1>3. f.body \in Seq(Nat) /\ f.kind \in {"completed", "cancelled", "failed"}
  BY <1>2 DEF FrameRecs
<1>4. FinalText(f) \in Seq(Nat)
  <2>1. <<0>> \in Seq(Nat)
    OBVIOUS
  <2> QED
    BY <1>3, <2>1 DEF FinalText
<1>5. /\ e \in BotTasks /\ SameReading(read, e)
      /\ ~e.refused /\ FinalText(f) # <<>> =>
                \E first \in DOMAIN e.shown : ReadsAs(e.shown, first, FinalText(f))
  BY <1>4, FinalizeShows
<1>6. Set(u, r)
  OBVIOUS
<1>7. own \in BOOLEAN /\ <<>> \in Seq(Nat)
  OBVIOUS
<1> HIDE DEF e, own
<1>8. /\ r \in BotTasks /\ r.step = "done" /\ r.own = own
  BY <1>3, <1>5, <1>7 DEF BotTasks, TaskSteps
<1>9. /\ r.session = e.session /\ r.got = e.got /\ r.lagged = e.lagged /\ r.refused = e.refused
      /\ r.shown = e.shown
  BY <1>5 DEF BotTasks
<1>10. r.ended = f.kind /\ r.final = f.body
  BY <1>5 DEF BotTasks
<1> HIDE DEF r
<1>11. r.session = t.session /\ r.got = t.got /\ r.lagged = t.lagged
  BY <1>5, <1>9 DEF SameReading
<1>12. TaskSound(u, r, turns[u], fs)
  <2>1. t.step = "stream" /\ t.next \in 1..Len(fs) /\ fs[t.next].kind # "delta"
    OBVIOUS
  <2>2. r.own = (fs[t.next].turn = u)
    BY <1>8 DEF own
  <2> HIDE DEF t, fs
  <2> QED
    BY <1>1, <1>8, <1>11, <2>1, <2>2, EndRead
<1>13. ShownWhole(r)
  <2>1. r.ended = "completed" => FinalText(f) = r.final
    BY <1>10 DEF FinalText
  <2> QED
    BY <1>5, <1>9, <2>1 DEF ShownWhole
<1> QED
  BY <1>6, <1>8, <1>11, <1>12, <1>13, StreamTaskMoves

LEMMA ReadKeeps ==
    ASSUME TelegramInv, NEW u \in UpdateNrs, ReadFrame(u)
    PROVE  TelegramInv'
<1> DEFINE t == tasks[u]
           fs == frames[t.session]
           f == fs[t.next]
           got == IF IsDelta(u, f) THEN t.got \o f.body ELSE t.got
           read == [t EXCEPT !.next = t.next + 1, !.got = got]
<1>1. t.step = "stream" /\ t.next \in OldestKept(t.session)..Len(fs)
  BY DEF ReadFrame
<1>2. /\ t \in BotTasks /\ turns[u] \in TurnRecs /\ fs \in Seq(FrameRecs)
      /\ TaskSound(u, t, turns[u], fs) /\ FramesInOrder(u, turns[u], fs)
  BY <1>1, StreamTasks
<1>3. t.next \in 1..Len(fs)
  <2>1. Len(fs) \in Nat
    BY <1>2, LenProperties
  <2>2. OldestKept(t.session) = IF Len(fs) > EventCapacity THEN Len(fs) - EventCapacity + 1 ELSE 1
    BY DEF OldestKept
  <2>3. t.next \in Nat
    BY <1>2 DEF BotTasks
  <2> DEFINE n == t.next
  <2>4. n \in Nat /\ n \in OldestKept(t.session)..Len(fs)
    BY <1>1, <2>3
  <2> HIDE DEF fs, n
  <2>5. n \in 1..Len(fs)
    BY <2>1, <2>2, <2>4, TelegramBounds
  <2> QED
    BY <2>5 DEF n
<1>4. f \in FrameRecs
  BY <1>2, <1>3, ElementOfSeq
<1>5. f.body \in Seq(Nat) /\ f.kind \in {"delta", "completed", "cancelled", "failed"}
  BY <1>4 DEF FrameRecs
<1>6. got \in Seq(Nat) /\ (f.kind # "delta" => got = t.got)
  <2>1. t.got \in Seq(Nat)
    BY <1>2 DEF BotTasks
  <2>2. t.got \o f.body \in Seq(Nat)
    BY <1>5, <2>1, ConcatProperties
  <2> QED
    BY <2>1, <2>2 DEF IsDelta
<1>7. /\ IF EndsStream(f.kind)
         THEN Set(u, [Finalize(read, FinalText(f)) EXCEPT
                      !.step = "done", !.ended = f.kind, !.final = f.body,
                      !.own = (f.turn = u), !.acc = <<>>, !.at = 0, !.next = 0])
         ELSE IF f.kind = "delta"
         THEN \E ok \in BOOLEAN : Set(u, AppendText(read, f.body, ok))
         ELSE Set(u, read)
      /\ UNCHANGED <<botScript, updates, offset, chatMap, created, gatewaySide>>
  BY DEF ReadFrame, IsDelta
<1> HIDE DEF got
<1>8. /\ read \in BotTasks /\ read.got = got /\ read.lagged = t.lagged /\ read.session = t.session
      /\ read.at = t.at /\ read.shown = t.shown /\ read.refused = t.refused /\ read.step = "stream"
  <2>1. t.next + 1 \in Nat
    BY <1>2 DEF BotTasks
  <2> QED
    BY <1>1, <1>2, <1>6, <2>1 DEF BotTasks
<1>9. EditsOwn(read)
  <2> HIDE DEF read
  <2> QED
    BY <1>1, <1>2, <1>8 DEF EditsOwn, TaskSound
<1>10. CASE f.kind # "delta"
  <2>1. Set(u, [Finalize(read, FinalText(f)) EXCEPT
                      !.step = "done", !.ended = f.kind, !.final = f.body,
                      !.own = (f.turn = u), !.acc = <<>>, !.at = 0, !.next = 0])
    BY <1>5, <1>7, <1>10 DEF EndsStream
  <2>2. read.got = t.got
    BY <1>6, <1>8, <1>10
  <2> HIDE DEF read
  <2> QED
    BY <1>1, <1>3, <1>7, <1>8, <1>9, <1>10, <2>1, <2>2, EndKeeps
<1>11. CASE f.kind = "delta"
  <2>1. PICK ok \in BOOLEAN : Set(u, AppendText(read, f.body, ok))
    BY <1>7, <1>11 DEF EndsStream
  <2> DEFINE r == AppendText(read, f.body, ok)
  <2>2. r \in BotTasks /\ SameReading(read, r) /\ EditsOwn(r)
    <3> HIDE DEF read, f
    <3> QED
      BY <1>5, <1>8, <1>9, AppendTextKeeps
  <2> HIDE DEF r
  <2>3. SameReading([t EXCEPT !.next = t.next + 1,
             !.got = IF IsDelta(u, fs[t.next]) THEN t.got \o fs[t.next].body ELSE t.got], r)
    BY <2>2 DEF got
  <2>4. TaskSound(u, r, turns[u], fs)
    <3> HIDE DEF t, fs
    <3> QED
      BY <1>1, <1>2, <1>3, <2>2, <2>3, DeltaRead
  <2>5. r.session = t.session /\ r.step = "stream"
    <3> HIDE DEF read
    <3> QED
      BY <1>8, <2>2 DEF SameReading
  <2>6. ShownWhole(r)
    BY <2>5 DEF ShownWhole
  <2>7. Set(u, r)
    BY <2>1 DEF r
  <2> QED
    BY <1>1, <1>7, <2>2, <2>4, <2>5, <2>6, <2>7, StreamTaskMoves
<1> QED
  BY <1>10, <1>11

\* A task that split_message does not return to keeps what it has read.
LEMMA SplitFailsKeeps ==
    ASSUME TelegramInv, NEW u \in UpdateNrs, SplitFails(u)
    PROVE  TelegramInv'
<1> DEFINE t == tasks[u]
           fs == frames[t.session]
           body == fs[t.next].body
<1>1. PICK step \in {"died", "spinning"} : Set(u, [t EXCEPT !.step = step, !.final = body])
  BY DEF SplitFails
<1>2. t.step = "stream" /\ t.next \in OldestKept(t.session)..Len(fs)
      /\ UNCHANGED <<botScript, updates, offset, chatMap, created, gatewaySide>>
  BY DEF SplitFails
<1>3. t \in BotTasks /\ TaskSound(u, t, turns[u], fs) /\ fs \in Seq(FrameRecs)
  BY <1>2, StreamTasks
<1>4. t.next \in 1..Len(fs)
  <2>1. Len(fs) \in Nat
    BY <1>3, LenProperties
  <2>2. OldestKept(t.session) = IF Len(fs) > EventCapacity THEN Len(fs) - EventCapacity + 1 ELSE 1
    BY DEF OldestKept
  <2>3. t.next \in Nat
    BY <1>3 DEF BotTasks
  <2> DEFINE n == t.next
  <2>4. n \in Nat /\ n \in OldestKept(t.session)..Len(fs)
    BY <1>2, <2>3
  <2> HIDE DEF fs, n
  <2>5. n \in 1..Len(fs)
    BY <2>1, <2>2, <2>4, TelegramBounds
  <2> QED
    BY <2>5 DEF n
<1>5. fs[t.next] \in FrameRecs
  BY <1>3, <1>4, ElementOfSeq
<1>6. body \in Seq(Nat)
  BY <1>5 DEF FrameRecs
<1> DEFINE r == [t EXCEPT !.step = step, !.final = body]
<1> HIDE DEF body
<1>7. /\ r \in BotTasks /\ r.step \in {"died", "spinning"} /\ r.session = t.session
      /\ r.got = t.got /\ r.lagged = t.lagged
  BY <1>1, <1>3, <1>6 DEF BotTasks, TaskSteps
<1>8. Set(u, r)
  BY <1>1
<1> HIDE DEF r
<1>9. TaskSound(u, r, turns[u], fs)
  <2> HIDE DEF t, fs
  <2> QED
    BY <1>2, <1>3, <1>7 DEF TaskSound
<1>10. ShownWhole(r)
  BY <1>7 DEF ShownWhole
<1> QED
  BY <1>2, <1>7, <1>8, <1>9, <1>10, StreamTaskMoves

-----------------------------------------------------------------------------
(* Telegram: the actions of a turn.                                         *)

\* The turn of update u becomes turn, its task r, on the same session.
BotTurnStep(u, r, turn) ==
    /\ tasks' = [tasks EXCEPT ![u] = r] /\ turns' = [turns EXCEPT ![u] = turn]
    /\ UNCHANGED <<botScript, updates, offset, chatMap, created, frames>>

LEMMA BotTurnMoves ==
    ASSUME TelegramInv, NEW u \in UpdateNrs, NEW r \in BotTasks, NEW turn \in TurnRecs,
           BotTurnStep(u, r, turn), Spawned(u), r.session = tasks[u].session, turn.state # "none",
           TaskSound(u, r, turn, Seen(r.session)), FramesInOrder(u, turn, Seen(r.session)),
           TurnSound(turn), ShownWhole(r)
    PROVE  TelegramInv'
<1>1. /\ tasks' \in [UpdateNrs -> BotTasks] /\ tasks'[u] = r
      /\ \A v \in UpdateNrs : v # u => tasks'[v] = tasks[v]
      /\ turns' \in [UpdateNrs -> TurnRecs] /\ turns'[u] = turn
      /\ \A v \in UpdateNrs : v # u => turns'[v] = turns[v]
  BY DEF TelegramInv, BotTypes, BotTurnStep
<1>2. BotTypes'
  BY <1>1 DEF TelegramInv, BotTypes, BotTurnStep
<1>3. NotFetched'
  <2>1. ~(u >= offset)
    BY DEF TelegramInv, NotFetched, Spawned, Unspawned
  <2> QED
    BY <1>1, <2>1 DEF TelegramInv, NotFetched, BotTurnStep
<1>4. ASSUME NEW v \in UpdateNrs PROVE TaskInOrder(v)'
  <2>1. Seen(tasks[v].session)' = Seen(tasks'[v].session)
    BY DEF Seen, BotTurnStep
  <2>2. TaskInOrder(v)
    BY DEF TelegramInv
  <2>3. /\ TaskSound(v, tasks'[v], turns'[v], Seen(tasks'[v].session))
        /\ FramesInOrder(v, turns'[v], Seen(tasks'[v].session)) /\ TurnSound(turns'[v])
    BY <1>1, <2>2 DEF TaskInOrder
  <2> QED
    BY <2>1, <2>3 DEF TaskInOrder
<1>5. ASSUME NEW s \in ChatSessions, NEW i \in 1..Len(frames[s]) PROVE PublishedBy(frames[s][i], s)'
  <2>1. PublishedBy(frames[s][i], s) /\ frames' = frames
    BY DEF TelegramInv, BotTurnStep
  <2>2. frames[s][i].turn \in UpdateNrs
    <3>1. frames[s] \in Seq(FrameRecs)
      BY DEF TelegramInv, BotTypes
    <3>2. frames[s][i] \in FrameRecs
      BY <3>1, ElementOfSeq
    <3> QED
      BY <3>2 DEF FrameRecs
  <2> DEFINE w == frames[s][i].turn
  <2>3. turns[w].state # "none" /\ tasks[w].session = s /\ w \in UpdateNrs
    BY <2>1, <2>2 DEF PublishedBy
  <2>4. turns'[w].state # "none" /\ tasks'[w].session = s
    <3> HIDE DEF w
    <3> QED
      BY <1>1, <2>3
  <2> QED
    BY <2>1, <2>4 DEF PublishedBy
<1>6. AnswerShownWhole'
  <2>1. ASSUME NEW v \in UpdateNrs PROVE ShownWhole(tasks'[v])
    BY <1>1 DEF TelegramInv, AnswerShownWhole
  <2> QED
    BY <2>1 DEF AnswerShownWhole, ShownWhole
<1>7. frames' = frames
  BY DEF BotTurnStep
<1> QED
  BY <1>2, <1>3, <1>4, <1>5, <1>6, <1>7 DEF TelegramInv

LEMMA SubmitKeeps ==
    ASSUME TelegramInv, NEW u \in UpdateNrs, SubmitFromChat(u)
    PROVE  TelegramInv'
<1> DEFINE t == tasks[u]
           s == t.session
<1>1. t.step = "submit" /\ Spawned(u)
  BY DEF SubmitFromChat, Spawned
<1>2. /\ t \in BotTasks /\ created \in 0..MaxChatSessions
      /\ chatMap \in [ChatsOf(botScript) -> 0..MaxChatSessions]
  BY <1>1, BotFacts
<1>3. UNCHANGED <<botScript, updates, offset, chatMap, created, frames>>
  BY DEF SubmitFromChat
<1>4. CASE active[s] # 0
  <2>1. To(u, "done") /\ UNCHANGED <<active, turns>>
    BY <1>4 DEF SubmitFromChat
  <2>2. UNCHANGED <<botScript, updates, offset, gatewaySide>>
    BY <1>3, <2>1 DEF gatewaySide
  <2>3. BotStep(u, [tasks[u] EXCEPT !.step = "done"])
    BY <1>2, <1>3, <2>1, <2>2, OnlyTaskMoves DEF To
  <2> QED
    BY <1>1, <2>3, GoesTo
<1>5. CASE active[s] = 0
  <2> DEFINE r == [t EXCEPT !.step = "placeholder"]
             turn == [turns[u] EXCEPT !.state = "running"]
             fs == Seen(s)
  <2>1. tasks' = [tasks EXCEPT ![u] = r] /\ turns' = [turns EXCEPT ![u] = turn]
    BY <1>5 DEF SubmitFromChat, To, Set
  <2>2. BotTurnStep(u, r, turn)
    BY <1>3, <2>1 DEF BotTurnStep
  <2>3. turns[u] \in TurnRecs /\ TaskSound(u, t, turns[u], fs) /\ TurnSound(turns[u])
    BY DEF TelegramInv, BotTypes, TaskInOrder
  <2>4. turns[u].state = "none" /\ t.got = <<>> /\ ~t.own /\ t.next <= Len(fs) + 1 /\ s # 0
    BY <1>1, <2>3 DEF TaskSound
  <2>5. turns[u].parts = 0
    BY <2>3, <2>4 DEF TurnSound
  <2>6. turn \in TurnRecs /\ turn.state = "running" /\ turn.parts = 0
    BY <2>3, <2>5 DEF TurnRecs
  <2>7. /\ r \in BotTasks /\ r.step = "placeholder" /\ r.session = s /\ r.got = <<>>
        /\ ~r.own /\ r.next = t.next
    BY <1>2, <2>4 DEF BotTasks, TaskSteps
  <2>8. s \in 0..MaxChatSessions
    BY <1>2 DEF BotTasks
  <2>9. FramesInOrder(u, turn, fs) /\ \A i \in 1..Len(fs) : fs[i].turn # u
    <3> HIDE DEF s, turn
    <3> QED
      BY <2>4, <2>8, NoTurnYet
  <2> HIDE DEF r, turn, fs
  <2>10. r.got = CountTo(Len(r.got)) /\ CaughtUp(u, Len(r.got), r.next, turn, fs)
    <3>1. Len(r.got) = 0 /\ CountTo(0) = <<>>
      BY <2>7 DEF CountTo
    <3>2. CaughtUp(u, 0, r.next, turn, fs)
      BY <2>6, <2>9 DEF CaughtUp, IsDelta
    <3> QED
      BY <2>7, <3>1, <3>2
  <2>11. TaskSound(u, r, turn, fs)
    BY <2>4, <2>6, <2>7, <2>10 DEF TaskSound
  <2>12. TurnSound(turn) /\ ShownWhole(r)
    BY <2>6, <2>7 DEF TurnSound, ShownWhole
  <2>13. fs = Seen(r.session)
    BY <2>7 DEF fs
  <2> QED
    BY <1>1, <2>2, <2>6, <2>7, <2>9, <2>11, <2>12, <2>13, BotTurnMoves
<1> QED
  BY <1>4, <1>5

\* A turn that runs has a task on a session.
LEMMA TurnTasks ==
    ASSUME TelegramInv, NEW u \in UpdateNrs, turns[u].state # "none"
    PROVE  /\ tasks[u] \in BotTasks /\ turns[u] \in TurnRecs /\ Spawned(u)
           /\ tasks[u].session \in ChatSessions
           /\ Seen(tasks[u].session) = frames[tasks[u].session]
           /\ frames[tasks[u].session] \in Seq(FrameRecs)
           /\ TaskSound(u, tasks[u], turns[u], frames[tasks[u].session])
           /\ FramesInOrder(u, turns[u], frames[tasks[u].session])
           /\ TurnSound(turns[u])
<1>1. tasks[u] \in BotTasks /\ turns[u] \in TurnRecs
  BY DEF TelegramInv, BotTypes
<1>2. /\ TaskSound(u, tasks[u], turns[u], Seen(tasks[u].session))
      /\ FramesInOrder(u, turns[u], Seen(tasks[u].session)) /\ TurnSound(turns[u])
  BY DEF TelegramInv, TaskInOrder
<1>3. tasks[u].session # 0 /\ tasks[u].step # "none"
  BY <1>2 DEF TaskSound
<1>4. tasks[u].session \in 0..MaxChatSessions
  BY <1>1 DEF BotTasks
<1>5. tasks[u].session \in ChatSessions
  BY <1>3, <1>4, TelegramBounds DEF ChatSessions
<1>6. frames[tasks[u].session] \in Seq(FrameRecs)
  BY <1>5 DEF TelegramInv, BotTypes
<1>7. Seen(tasks[u].session) = frames[tasks[u].session]
  BY <1>3 DEF Seen
<1> QED
  BY <1>1, <1>2, <1>3, <1>5, <1>6, <1>7 DEF Spawned

LEMMA ClearedTurn ==
    ASSUME NEW u, NEW t, NEW turn, NEW next, NEW fs, turn.state = "running",
           next.state = "cleared", next.parts = turn.parts,
           TaskSound(u, t, turn, fs), FramesInOrder(u, turn, fs)
    PROVE  TaskSound(u, t, next, fs) /\ FramesInOrder(u, next, fs)
<1>1. TaskSound(u, t, next, fs)
  BY DEF TaskSound, CaughtUp
<1>2. FramesInOrder(u, next, fs)
  BY DEF FramesInOrder
<1> QED
  BY <1>1, <1>2

LEMMA EndsKeeps ==
    ASSUME TelegramInv, NEW u \in UpdateNrs, NEW outcome \in {"completed", "cancelled", "failed"},
           NEW final \in Seq(Nat), TurnEndsAs(u, outcome, final)
    PROVE  TelegramInv'
<1> DEFINE turn == [turns[u] EXCEPT !.state = "cleared", !.outcome = outcome, !.final = final]
           t == tasks[u]
<1>1. turns[u].state = "running"
  BY DEF TurnEndsAs
<1>2. /\ t \in BotTasks /\ turns[u] \in TurnRecs /\ Spawned(u)
      /\ TaskSound(u, t, turns[u], Seen(t.session)) /\ FramesInOrder(u, turns[u], Seen(t.session))
  BY <1>1, TurnTasks
<1>3. /\ turn \in TurnRecs /\ turn.state = "cleared" /\ turn.parts = turns[u].parts
      /\ turn.outcome = outcome
  BY <1>2 DEF TurnRecs
<1>4. BotTurnStep(u, t, turn)
  <2>1. turns' = [turns EXCEPT ![u] = turn]
    BY DEF TurnEndsAs
  <2>2. tasks' = [tasks EXCEPT ![u] = tasks[u]]
    <3>1. tasks \in [UpdateNrs -> BotTasks] /\ tasks' = tasks
      BY DEF TelegramInv, BotTypes, TurnEndsAs
    <3> QED
      BY <3>1
  <2> QED
    BY <2>1, <2>2 DEF BotTurnStep, TurnEndsAs
<1> HIDE DEF turn
<1>5. TaskSound(u, t, turn, Seen(t.session)) /\ FramesInOrder(u, turn, Seen(t.session))
  <2> DEFINE fs == Seen(t.session)
  <2>1. TaskSound(u, t, turns[u], fs) /\ FramesInOrder(u, turns[u], fs)
    BY <1>2
  <2> HIDE DEF fs, t
  <2>2. TaskSound(u, t, turn, fs) /\ FramesInOrder(u, turn, fs)
    BY <1>1, <1>3, <2>1, ClearedTurn
  <2> QED
    BY <2>2 DEF fs
<1>6. TurnSound(turn)
  BY <1>3 DEF TurnSound
<1>7. ShownWhole(t)
  BY DEF TelegramInv, AnswerShownWhole
<1> QED
  BY <1>2, <1>3, <1>4, <1>5, <1>6, <1>7, BotTurnMoves

\* The turn of update u publishes frame f and becomes turn.
PublishStep(u, f, turn) ==
    /\ turns' = [turns EXCEPT ![u] = turn] /\ PublishTo(TurnSession(u), f)
    /\ UNCHANGED <<botScript, updates, offset, tasks, chatMap, created>>

LEMMA FramePublished ==
    ASSUME TelegramInv, NEW u \in UpdateNrs, NEW f \in FrameRecs, f.turn = u,
           NEW turn \in TurnRecs, turns[u].state # "none", turn.state # "none", TurnSound(turn),
           PublishStep(u, f, turn),
           TaskSound(u, tasks[u], turn, Append(frames[tasks[u].session], f)),
           FramesInOrder(u, turn, Append(frames[tasks[u].session], f))
    PROVE  TelegramInv'
<1> DEFINE s == tasks[u].session
           gs == Append(frames[s], f)
<1>1. s \in ChatSessions /\ frames[s] \in Seq(FrameRecs)
  BY TurnTasks
<1>2. /\ gs \in Seq(FrameRecs) /\ Len(gs) = Len(frames[s]) + 1 /\ Len(frames[s]) \in Nat
      /\ gs[Len(frames[s]) + 1] = f /\ \A i \in 1..Len(frames[s]) : gs[i] = frames[s][i]
  BY <1>1, FrameAppended
<1>3. frames' = [frames EXCEPT ![s] = gs] /\ tasks' = tasks
  BY DEF PublishStep, PublishTo, TurnSession
<1>4. frames \in [ChatSessions -> Seq(FrameRecs)]
  BY DEF TelegramInv, BotTypes
<1>5. /\ TaskSound(u, tasks[u], turn, gs) /\ FramesInOrder(u, turn, gs)
  OBVIOUS
<1>15. gs = Append(frames[s], f)
  OBVIOUS
<1> HIDE DEF gs, s
<1>6. /\ frames' \in [ChatSessions -> Seq(FrameRecs)] /\ frames'[s] = gs
      /\ \A q \in ChatSessions : q # s => frames'[q] = frames[q]
  BY <1>1, <1>2, <1>3, <1>4
<1>7. /\ turns' \in [UpdateNrs -> TurnRecs] /\ turns'[u] = turn
      /\ \A v \in UpdateNrs : v # u => turns'[v] = turns[v]
  BY DEF TelegramInv, BotTypes, PublishStep
<1>8. BotTypes'
  BY <1>6, <1>7 DEF TelegramInv, BotTypes, PublishStep
<1>9. NotFetched'
  BY DEF TelegramInv, NotFetched, PublishStep
<1>10. ASSUME NEW v \in UpdateNrs PROVE TaskInOrder(v)'
  <2> DEFINE q == tasks[v].session
  <2>1. /\ TaskSound(v, tasks[v], turns[v], Seen(q)) /\ FramesInOrder(v, turns[v], Seen(q))
        /\ TurnSound(turns[v]) /\ tasks[v] \in BotTasks
    BY DEF TelegramInv, TaskInOrder, BotTypes
  <2>2. q \in 0..MaxChatSessions
    BY <2>1 DEF BotTasks
  <2>3. Seen(q)' = IF q = 0 THEN <<>> ELSE frames'[q]
    BY <1>3 DEF Seen
  <2>4. /\ TaskSound(v, tasks[v], turns'[v], Seen(q)') /\ FramesInOrder(v, turns'[v], Seen(q)')
        /\ TurnSound(turns'[v])
    <3>1. CASE v = u
      <4>1. Seen(q)' = gs
        <5>1. q = s /\ q # 0
          BY <1>1, <3>1, TelegramBounds DEF s, ChatSessions
        <5> QED
          BY <1>6, <2>3, <5>1
      <4> QED
        BY <1>5, <1>7, <3>1, <4>1
    <3>2. CASE v # u /\ q = s
      <4>1. q # 0
        BY <1>1, <3>2, TelegramBounds DEF ChatSessions
      <4>2. Seen(q)' = gs /\ Seen(q) = frames[s]
        BY <1>6, <2>3, <3>2, <4>1 DEF Seen
      <4> DEFINE fs == frames[s]
      <4>3. TaskSound(v, tasks[v], turns[v], fs) /\ FramesInOrder(v, turns[v], fs)
        BY <2>1, <4>2
      <4>4. f.turn # v /\ fs \in Seq(FrameRecs)
        BY <1>1, <3>2
      <4> HIDE DEF fs
      <4>5. TaskSound(v, tasks[v], turns[v], Append(fs, f)) /\ FramesInOrder(v, turns[v], Append(fs, f))
        BY <2>1, <4>3, <4>4, OthersPublish
      <4> QED
        BY <1>7, <1>15, <2>1, <3>2, <4>2, <4>5 DEF fs
    <3>3. CASE v # u /\ q # s
      <4>1. Seen(q)' = Seen(q)
        <5>1. q # 0 => q \in ChatSessions
          BY <2>2, TelegramBounds DEF ChatSessions
        <5> QED
          BY <1>6, <2>3, <3>3, <5>1 DEF Seen
      <4> QED
        BY <1>7, <2>1, <3>3, <4>1
    <3> QED
      BY <3>1, <3>2, <3>3
  <2> QED
    BY <1>3, <2>4 DEF TaskInOrder
<1>11. ASSUME NEW q \in ChatSessions, NEW i \in 1..Len(frames'[q]) PROVE PublishedBy(frames[q][i], q)'
  <2> DEFINE g == frames'[q][i]
             w == g.turn
  <2>1. turns'[w].state # "none" /\ tasks[w].session = q
    <3>1. CASE q = s /\ i = Len(frames[s]) + 1
      <4>1. g = f
        BY <1>2, <1>6, <3>1
      <4> QED
        BY <1>7, <3>1, <4>1 DEF s
    <3>2. CASE ~(q = s /\ i = Len(frames[s]) + 1)
      <4>1. i \in 1..Len(frames[q]) /\ g = frames[q][i]
        BY <1>2, <1>6, <1>11, <3>2
      <4>2. PublishedBy(frames[q][i], q)
        BY <4>1 DEF TelegramInv
      <4>3. frames[q][i] \in FrameRecs
        BY <1>4, <4>1, ElementOfSeq
      <4>4. w \in UpdateNrs /\ turns[w].state # "none" /\ tasks[w].session = q
        BY <4>1, <4>2, <4>3 DEF PublishedBy, FrameRecs
      <4> HIDE DEF w
      <4> QED
        BY <1>7, <4>4
    <3> QED
      BY <3>1, <3>2
  <2> QED
    BY <1>3, <2>1 DEF PublishedBy
<1>12. AnswerShownWhole'
  BY <1>3 DEF TelegramInv, AnswerShownWhole, ShownWhole
<1> QED
  BY <1>8, <1>9, <1>10, <1>11, <1>12 DEF TelegramInv

LEMMA DeltaKeeps ==
    ASSUME TelegramInv, NEW u \in UpdateNrs, TurnDelta(u)
    PROVE  TelegramInv'
<1> DEFINE p == turns[u].parts
           f == Frame("delta", u, <<p + 1, p + 2>>)
           turn == [turns[u] EXCEPT !.parts = p + 2]
           t == tasks[u]
           fs == frames[t.session]
<1>1. turns[u].state = "running"
  BY DEF TurnDelta
<1>2. /\ t \in BotTasks /\ turns[u] \in TurnRecs /\ fs \in Seq(FrameRecs)
      /\ TaskSound(u, t, turns[u], fs) /\ FramesInOrder(u, turns[u], fs)
  BY <1>1, TurnTasks
<1>3. p \in Nat
  BY <1>2 DEF TurnRecs
<1>4. turn \in TurnRecs /\ turn.state = "running" /\ turn.parts = p + 2
  BY <1>1, <1>2, <1>3 DEF TurnRecs
<1>5. PublishStep(u, f, turn)
  BY DEF TurnDelta, PublishStep
<1>6. /\ f.turn = u /\ f.body = <<p + 1, p + 2>> /\ IsDelta(u, f)
  BY DEF Frame, IsDelta
<1>7. f \in FrameRecs
  <2>1. <<p + 1, p + 2>> \in Seq(Nat)
    BY <1>3
  <2> QED
    BY <2>1 DEF Frame, FrameRecs
<1> HIDE DEF f, turn
<1>8. TaskSound(u, t, turn, Append(fs, f)) /\ FramesInOrder(u, turn, Append(fs, f))
  <2> HIDE DEF t, fs
  <2> QED
    BY <1>1, <1>2, <1>4, <1>6, <1>7, DeltaPublishes
<1>9. TurnSound(turn)
  BY <1>4 DEF TurnSound
<1> QED
  BY <1>1, <1>4, <1>5, <1>6, <1>7, <1>8, <1>9, FramePublished

LEMMA PublishEndKeeps ==
    ASSUME TelegramInv, NEW u \in UpdateNrs, TurnPublishesEnd(u)
    PROVE  TelegramInv'
<1> DEFINE f == Frame(turns[u].outcome, u, turns[u].final)
           turn == [turns[u] EXCEPT !.state = "over"]
           t == tasks[u]
           fs == frames[t.session]
<1>1. turns[u].state = "cleared"
  BY DEF TurnPublishesEnd
<1>2. /\ t \in BotTasks /\ turns[u] \in TurnRecs /\ fs \in Seq(FrameRecs) /\ TurnSound(turns[u])
      /\ TaskSound(u, t, turns[u], fs) /\ FramesInOrder(u, turns[u], fs)
  BY <1>1, TurnTasks
<1>3. turns[u].outcome \in {"completed", "cancelled", "failed"} /\ turns[u].final \in Seq(Nat)
  BY <1>1, <1>2 DEF TurnRecs, TurnSound
<1>4. turn \in TurnRecs /\ turn.state = "over" /\ turn.parts = turns[u].parts
  BY <1>2 DEF TurnRecs
<1>5. PublishStep(u, f, turn)
  BY DEF TurnPublishesEnd, PublishStep
<1>6. f \in FrameRecs /\ f.turn = u /\ f.kind # "delta"
  BY <1>3 DEF Frame, FrameRecs
<1> HIDE DEF f, turn
<1>7. TaskSound(u, t, turn, Append(fs, f)) /\ FramesInOrder(u, turn, Append(fs, f))
  <2> HIDE DEF t, fs
  <2> QED
    BY <1>1, <1>2, <1>4, <1>6, EndPublishes
<1>8. TurnSound(turn)
  BY <1>4 DEF TurnSound
<1> QED
  BY <1>1, <1>4, <1>5, <1>6, <1>7, <1>8, FramePublished

-----------------------------------------------------------------------------
(* Telegram: messages arrive and are fetched.                               *)

LEMMA ArrivalKeeps ==
    ASSUME TelegramInv, SendToBot
    PROVE  TelegramInv'
<1> DEFINE ms == botScript.messages
           n == Len(updates)
           Arrivals == [chat : ChatsOf(botScript), what : STRING]
           more == Append(updates, ms[n + 1])
<1>1. /\ botScript \in BotScripts /\ updates \in Seq(Arrivals) /\ offset \in 1..(n + 1)
      /\ n < Len(ms) /\ updates' = more
  BY DEF TelegramInv, BotTypes, SendToBot
<1>2. ms \in Seq([chat : Nat, what : STRING])
  BY <1>1, TelegramBounds
<1>3. n \in Nat /\ Len(ms) \in Nat /\ DOMAIN ms = 1..Len(ms)
  BY <1>1, <1>2, LenProperties
<1>4. n + 1 \in 1..Len(ms)
  BY <1>1, <1>3
<1>5. ms[n + 1] \in [chat : Nat, what : STRING]
  BY <1>2, <1>4, ElementOfSeq
<1>6. ms[n + 1].chat \in ChatsOf(botScript)
  BY <1>3, <1>4 DEF ChatsOf
<1>7. ms[n + 1] \in Arrivals
  <2> DEFINE x == ms[n + 1]
             C == ChatsOf(botScript)
  <2>1. x \in [chat : Nat, what : STRING] /\ x.chat \in C
    BY <1>5, <1>6
  <2> HIDE DEF x, C
  <2>2. x \in [chat : C, what : STRING]
    BY <2>1
  <2> QED
    BY <2>2 DEF x, C
<1>8. more \in Seq(Arrivals) /\ Len(more) = n + 1
  <2> DEFINE x == ms[n + 1]
  <2>1. x \in Arrivals
    BY <1>7
  <2> HIDE DEF x, Arrivals
  <2>2. Append(updates, x) \in Seq(Arrivals) /\ Len(Append(updates, x)) = n + 1
    BY <1>1, <2>1, AppendProperties
  <2> QED
    BY <2>2 DEF x
<1> HIDE DEF more
<1>9. Len(more) <= Len(ms) /\ offset \in 1..(Len(more) + 1)
  BY <1>1, <1>3, <1>8
<1>10. UNCHANGED <<botScript, offset, tasks, chatMap, created, active, turns, frames>>
  BY DEF SendToBot, gatewaySide
<1>11. BotTypes'
  BY <1>1, <1>8, <1>9, <1>10 DEF TelegramInv, BotTypes
<1>12. NotFetched' /\ AnswerShownWhole'
  BY <1>10 DEF TelegramInv, NotFetched, AnswerShownWhole, ShownWhole
<1>13. ASSUME NEW u \in UpdateNrs PROVE TaskInOrder(u)'
  BY <1>10 DEF TelegramInv, TaskInOrder, Seen
<1>14. ASSUME NEW s \in ChatSessions, NEW i \in 1..Len(frames[s]) PROVE PublishedBy(frames[s][i], s)'
  BY <1>10 DEF TelegramInv, PublishedBy
<1> QED
  BY <1>10, <1>11, <1>12, <1>13, <1>14 DEF TelegramInv

LEMMA PollKeeps ==
    ASSUME TelegramInv, Poll
    PROVE  TelegramInv'
<1> DEFINE new == offset..Len(updates)
           fresh == [Unspawned EXCEPT !.step = "handle", !.spawned = 1]
<1>1. /\ updates \in Seq([chat : ChatsOf(botScript), what : STRING]) /\ offset \in 1..(Len(updates) + 1)
      /\ tasks \in [UpdateNrs -> BotTasks] /\ NotFetched
  BY DEF TelegramInv, BotTypes
<1>2. Len(updates) \in Nat
  BY <1>1, LenProperties
<1>3. UNCHANGED <<botScript, updates, chatMap, created, active, turns, frames>> /\ offset' = Len(updates) + 1
  BY DEF Poll, gatewaySide
<1>4. fresh \in BotTasks
  <2>1. <<>> \in Seq(Nat) /\ <<>> \in Seq(Seq(Nat)) /\ 0 \in 0..MaxChatSessions /\ 1 \in 0..1
    BY TelegramBounds
  <2> QED
    BY <2>1 DEF Unspawned, BotTasks, TaskSteps
<1>5. /\ tasks' = [u \in UpdateNrs |->
            IF u \in new
            THEN [Unspawned EXCEPT !.step = "handle", !.spawned = tasks[u].spawned + 1] ELSE tasks[u]]
  BY DEF Poll
<1>6. ASSUME NEW u \in UpdateNrs, u \in new PROVE tasks[u] = Unspawned /\ tasks'[u] = fresh
  <2>1. tasks[u] = Unspawned
    BY <1>1, <1>2, <1>6 DEF NotFetched
  <2>2. tasks[u].spawned + 1 = 1
    BY <2>1 DEF Unspawned
  <2>3. tasks'[u] = [Unspawned EXCEPT !.step = "handle", !.spawned = tasks[u].spawned + 1]
    BY <1>5, <1>6
  <2> QED
    BY <2>1, <2>2, <2>3
<1>7. ASSUME NEW u \in UpdateNrs, u \notin new PROVE tasks'[u] = tasks[u]
  BY <1>5, <1>7
<1> HIDE DEF new
<1>8. tasks' \in [UpdateNrs -> BotTasks]
  <2>1. tasks' = [u \in UpdateNrs |-> tasks'[u]]
    BY <1>5
  <2>2. \A u \in UpdateNrs : tasks'[u] \in BotTasks
    BY <1>1, <1>4, <1>6, <1>7
  <2> QED
    BY <2>1, <2>2
<1>9. BotTypes'
  <2>1. offset' \in 1..(Len(updates) + 1)
    BY <1>2, <1>3
  <2> QED
    BY <1>3, <1>8, <2>1 DEF TelegramInv, BotTypes
<1>10. NotFetched'
  <2>1. ASSUME NEW u \in UpdateNrs, u >= offset' PROVE tasks'[u] = Unspawned
    <3>1. u \notin new /\ u >= offset
      BY <1>1, <1>2, <1>3, <2>1, TelegramBounds DEF new, UpdateNrs
    <3> QED
      BY <1>1, <1>7, <3>1 DEF NotFetched
  <2> QED
    BY <2>1 DEF NotFetched
<1>11. /\ fresh.step = "handle" /\ fresh.got = <<>> /\ ~fresh.own /\ fresh.session = 0
  BY DEF Unspawned
<1>12. Unspawned.step = "none" /\ Unspawned.session = 0
  BY DEF Unspawned
<1> HIDE DEF fresh
<1>13. ASSUME NEW u \in UpdateNrs PROVE TaskInOrder(u)' /\ ShownWhole(tasks'[u])
  <2>1. TaskInOrder(u) /\ ShownWhole(tasks[u])
    BY DEF TelegramInv, AnswerShownWhole
  <2>2. Seen(tasks[u].session)' = Seen(tasks'[u].session)
    BY <1>3 DEF Seen
  <2>3. CASE u \in new
    <3>1. tasks'[u] = fresh /\ tasks[u] = Unspawned
      BY <1>6, <2>3
    <3>2. turns[u].state = "none"
      BY <1>12, <2>1, <3>1 DEF TaskInOrder, TaskSound
    <3>3. TaskSound(u, fresh, turns[u], Seen(fresh.session))
      BY <1>11, <3>2 DEF TaskSound
    <3>4. FramesInOrder(u, turns[u], Seen(fresh.session)) /\ TurnSound(turns[u])
      BY <1>11, <1>12, <2>1, <3>1 DEF TaskInOrder
    <3>5. ShownWhole(fresh)
      BY <1>11 DEF ShownWhole
    <3> QED
      BY <1>3, <2>2, <3>1, <3>3, <3>4, <3>5 DEF TaskInOrder
  <2>4. CASE u \notin new
    <3>1. tasks'[u] = tasks[u]
      BY <1>7, <2>4
    <3> QED
      BY <1>3, <2>1, <2>2, <3>1 DEF TaskInOrder
  <2> QED
    BY <2>3, <2>4
<1>14. ASSUME NEW s \in ChatSessions, NEW i \in 1..Len(frames[s]) PROVE PublishedBy(frames[s][i], s)'
  <2> DEFINE w == frames[s][i].turn
  <2>1. frames[s] \in Seq(FrameRecs)
    BY DEF TelegramInv, BotTypes
  <2>2. frames[s][i] \in FrameRecs
    BY <2>1, ElementOfSeq
  <2>3. w \in UpdateNrs /\ turns[w].state # "none" /\ tasks[w].session = s
    BY <2>2 DEF TelegramInv, PublishedBy, FrameRecs
  <2>4. turns'[w].state # "none" /\ tasks'[w].session = s
    <3> HIDE DEF w
    <3>1. TaskSound(w, tasks[w], turns[w], Seen(tasks[w].session))
      BY <2>3 DEF TelegramInv, TaskInOrder
    <3>2. tasks[w].step # "none"
      BY <2>3, <3>1 DEF TaskSound
    <3>3. tasks'[w] = tasks[w]
      BY <1>6, <1>7, <1>12, <2>3, <3>2
    <3> QED
      BY <1>3, <2>3, <3>3
  <2> QED
    BY <1>3, <2>4 DEF PublishedBy
<1>15. AnswerShownWhole'
  BY <1>13 DEF AnswerShownWhole, ShownWhole
<1> QED
  BY <1>3, <1>9, <1>10, <1>13, <1>14, <1>15 DEF TelegramInv

LEMMA BotInit ==
    ASSUME TelegramInit
    PROVE  TelegramInv
<1>1. <<>> \in Seq(Nat) /\ <<>> \in Seq(Seq(Nat)) /\ 0 \in 0..MaxChatSessions /\ 0 \in 0..1
      /\ <<>> \in Seq(FrameRecs) /\ <<>> \in Seq([chat : ChatsOf(botScript), what : STRING])
  BY TelegramBounds
<1>2. Unspawned \in BotTasks
  BY <1>1 DEF Unspawned, BotTasks, TaskSteps
<1>3. NoTurn \in TurnRecs
  BY <1>1 DEF NoTurn, TurnRecs
<1>4. BotTypes
  <2>1. botScript \in BotScripts /\ updates = <<>> /\ offset = 1 /\ created = 0
    BY DEF TelegramInit
  <2>2. Len(updates) = 0 /\ Len(botScript.messages) \in Nat
    BY <2>1, TelegramBounds, LenProperties
  <2>3. 0 <= Len(botScript.messages) /\ 1 \in 1..(0 + 1)
    BY <2>2
  <2>4. chatMap \in [ChatsOf(botScript) -> 0..MaxChatSessions]
    BY <1>1 DEF TelegramInit
  <2>5. tasks \in [UpdateNrs -> BotTasks] /\ turns \in [UpdateNrs -> TurnRecs]
    BY <1>2, <1>3 DEF TelegramInit
  <2>6. frames \in [ChatSessions -> Seq(FrameRecs)]
    BY <1>1 DEF TelegramInit
  <2> QED
    BY <1>1, <2>1, <2>2, <2>3, <2>4, <2>5, <2>6 DEF BotTypes
<1>5. \A u \in UpdateNrs : tasks[u] = Unspawned /\ turns[u] = NoTurn
  BY DEF TelegramInit
<1>6. NotFetched
  BY <1>5 DEF NotFetched
<1>7. ASSUME NEW u \in UpdateNrs PROVE TaskInOrder(u) /\ ShownWhole(tasks[u])
  <2>1. /\ tasks[u].step = "none" /\ tasks[u].session = 0 /\ tasks[u].got = <<>> /\ ~tasks[u].own
        /\ turns[u].state = "none" /\ turns[u].parts = 0
    BY <1>5 DEF Unspawned, NoTurn
  <2>2. Seen(tasks[u].session) = <<>>
    BY <2>1 DEF Seen
  <2>3. TaskSound(u, tasks[u], turns[u], Seen(tasks[u].session))
    BY <2>1 DEF TaskSound
  <2>4. FramesInOrder(u, turns[u], <<>>)
    <3>1. 1..Len(<<>>) = {}
      OBVIOUS
    <3>2. \A i \in 1..Len(<<>>) : <<>>[i].turn # u
      BY <3>1
    <3> QED
      BY <3>2, NothingPublished
  <2>5. TurnSound(turns[u]) /\ ShownWhole(tasks[u])
    BY <2>1 DEF TurnSound, ShownWhole
  <2> QED
    BY <2>2, <2>3, <2>4, <2>5 DEF TaskInOrder
<1>8. \A s \in ChatSessions : \A i \in 1..Len(frames[s]) : PublishedBy(frames[s][i], s)
  <2>1. \A s \in ChatSessions : frames[s] = <<>>
    BY DEF TelegramInit
  <2>2. \A s \in ChatSessions : 1..Len(frames[s]) = {}
    BY <2>1
  <2> QED
    BY <2>2
<1> QED
  BY <1>4, <1>6, <1>7, <1>8 DEF TelegramInv, AnswerShownWhole

LEMMA TurnEndKeeps ==
    ASSUME TelegramInv, NEW u \in UpdateNrs, TurnEndStep(u)
    PROVE  TelegramInv'
<1>1. turns[u] \in TurnRecs
  BY DEF TelegramInv, BotTypes
<1>2. turns[u].parts \in Nat
  BY <1>1 DEF TurnRecs
<1>3. ASSUME NEW n \in {0, turns[u].parts},
             TurnEndsAs(u, "completed", [i \in 1..n |-> turns[u].parts - n + i])
      PROVE  TelegramInv'
  <2> DEFINE final == [i \in 1..n |-> turns[u].parts - n + i]
  <2>1. n \in Nat /\ n <= turns[u].parts
    BY <1>2, <1>3
  <2>2. \A i \in 1..n : turns[u].parts - n + i \in Nat
    BY <1>2, <2>1
  <2>3. final \in Seq(Nat)
    BY <2>1, <2>2
  <2>4. TurnEndsAs(u, "completed", final)
    BY <1>3
  <2> HIDE DEF final
  <2> QED
    BY <2>3, <2>4, EndsKeeps
<1>4. ASSUME TurnEndsAs(u, IF turns[u].cancelled THEN "cancelled" ELSE "failed", <<>>)
      PROVE  TelegramInv'
  <2>1. <<>> \in Seq(Nat)
    OBVIOUS
  <2>2. PICK outcome \in {"cancelled", "failed"} : TurnEndsAs(u, outcome, <<>>)
    BY <1>4
  <2> QED
    BY <2>1, <2>2, EndsKeeps
<1> QED
  BY <1>3, <1>4, PublishEndKeeps DEF TurnEndStep

LEMMA BotNext ==
    ASSUME TelegramInv, [TelegramNext]_telegramVars
    PROVE  TelegramInv'
<1>1. CASE UNCHANGED telegramVars
  <2>1. UNCHANGED <<botScript, updates, offset, tasks, chatMap, created, turns, frames>>
    BY <1>1 DEF telegramVars
  <2>2. BotTypes' /\ NotFetched' /\ AnswerShownWhole'
    BY <2>1 DEF TelegramInv, BotTypes, NotFetched, AnswerShownWhole, ShownWhole
  <2>3. ASSUME NEW u \in UpdateNrs PROVE TaskInOrder(u)'
    BY <2>1 DEF TelegramInv, TaskInOrder, Seen
  <2>4. ASSUME NEW s \in ChatSessions, NEW i \in 1..Len(frames[s]) PROVE PublishedBy(frames[s][i], s)'
    BY <2>1 DEF TelegramInv, PublishedBy
  <2> QED
    BY <2>1, <2>2, <2>3, <2>4 DEF TelegramInv
<1>2. ASSUME NEW u \in UpdateNrs, TaskStep(u) PROVE TelegramInv'
  BY <1>2, HandleKeeps, ResolveKeeps, CreateKeeps, SwitchKeeps, MapKeeps, CancelKeeps,
     CancelTurnKeeps, SubmitKeeps, PlaceholderKeeps, LagKeeps, ReadKeeps, SplitFailsKeeps DEF TaskStep
<1> QED
  BY <1>1, <1>2, ArrivalKeeps, PollKeeps, DeltaKeeps, TurnEndKeeps DEF TelegramNext

\* For any number of chats, messages, sessions and deltas, and any sizes of a
\* message and of the event buffer: every message to the bot is handed to one
\* task, a task that was ended by its own turn and did not lag has seen every
\* delta once and in order, and an answer of which no message was refused
\* stands in the chat whole.
THEOREM ChatsAreAnswered == TelegramSpec => []ChatsAnswered
<1>1. TelegramInit => TelegramInv
  BY BotInit
<1>2. TelegramInv /\ [TelegramNext]_telegramVars => TelegramInv'
  BY BotNext
<1>3. TelegramInv => ChatsAnswered
  <2> SUFFICES ASSUME TelegramInv PROVE ChatsAnswered
    OBVIOUS
  <2>1. UpdatesHandledOnce
    <3>1. ASSUME NEW u \in UpdateNrs PROVE tasks[u].spawned <= 1
      <4>1. tasks[u].spawned \in 0..1
        BY DEF TelegramInv, BotTypes, BotTasks
      <4> QED
        BY <4>1
    <3> QED
      BY <3>1 DEF UpdatesHandledOnce
  <2>2. EveryDeltaSeen
    <3>1. ASSUME NEW u \in UpdateNrs, EndedByOwnTurn(u), ~tasks[u].lagged
          PROVE  tasks[u].got = [i \in 1..turns[u].parts |-> i]
      BY <3>1 DEF TelegramInv, TaskInOrder, TaskSound, EndedByOwnTurn, CountTo
    <3> QED
      BY <3>1 DEF EveryDeltaSeen
  <2> QED
    BY <2>1, <2>2 DEF ChatsAnswered, TelegramInv
<1> QED
  BY <1>1, <1>2, <1>3, PTL DEF TelegramSpec
=============================================================================
