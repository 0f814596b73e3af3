------------------------------ MODULE Telegram ------------------------------
(***************************************************************************)
(* The Telegram adapter (crates/channels/src/telegram.rs): the polling     *)
(* loop, a task for every message, which resolves the chat's session,      *)
(* subscribes to its events, submits a turn and streams the answer into    *)
(* the chat by editing a message, and the commands.                        *)
(*                                                                         *)
(* Tasks interleave at every call of the gateway, the session store or the *)
(* Bot API.  The gateway is seen from here: one active turn a session,     *)
(* cleared before the turn's last frame is published, and a broadcast that *)
(* keeps the newest EventCapacity frames.  A text is a sequence of parts.  *)
(***************************************************************************)
EXTENDS Naturals, Sequences

CONSTANTS
    BotScripts,    \* what users send, sequences of [chat, what], and their limit on sessions
    MaxUpdates,    \* their number, at most
    MaxChatSessions, \* bound: sessions
    MaxDeltas,     \* bound: deltas of a turn, of two parts each
    SplitAt,       \* max_message_length - TEXT_SPLIT_MARGIN, in parts
    MaxPerMessage, \* max_message_length, in parts
    EventCapacity  \* EVENT_BUFFER_CAPACITY

ASSUME TelegramBounds ==
    /\ {MaxChatSessions, MaxDeltas, SplitAt, MaxPerMessage, EventCapacity} \subseteq Nat \ {0}
    /\ SplitAt <= MaxPerMessage /\ MaxUpdates \in Nat
    /\ \A b \in BotScripts :
         /\ b.messages \in Seq([chat : Nat, what : STRING]) /\ Len(b.messages) <= MaxUpdates
         /\ b.limit \in 0..MaxChatSessions

VARIABLES
    botScript, \* what will be sent, and the limit
    updates,   \* what Telegram has for the bot
    offset,    \* the first update the next poll asks for
    tasks,     \* update -> its handler
    chatMap,   \* channel_session_mappings: chat -> session, 0 for none
    created,   \* sessions 1..created exist
    active,    \* session -> the update whose turn is active, 0 for none
    turns,     \* update -> its turn in the gateway
    frames     \* session -> all frames published

telegramVars == <<botScript, updates, offset, tasks, chatMap, created, active, turns, frames>>

ChatSessions == 1..MaxChatSessions
UpdateNrs == 1..MaxUpdates
Unspawned == [step |-> "none", spawned |-> 0, session |-> 0, next |-> 0, lagged |-> FALSE,
              refused |-> FALSE, own |-> FALSE, got |-> <<>>, acc |-> <<>>, at |-> 0, shown |-> <<>>,
              ended |-> "none", final |-> <<>>]
NoTurn == [state |-> "none", parts |-> 0, cancelled |-> FALSE, outcome |-> "none", final |-> <<>>]
Frame(kind, nr, body) == [kind |-> kind, turn |-> nr, body |-> body]

ChatsOf(script) == {script.messages[u].chat : u \in DOMAIN script.messages}

TelegramInit ==
    /\ botScript \in BotScripts
    /\ updates = <<>> /\ offset = 1
    /\ tasks = [u \in UpdateNrs |-> Unspawned]
    /\ chatMap = [c \in ChatsOf(botScript) |-> 0] /\ created = 0
    /\ active = [s \in ChatSessions |-> 0]
    /\ turns = [u \in UpdateNrs |-> NoTurn]
    /\ frames = [s \in ChatSessions |-> <<>>]

gatewaySide == <<active, turns, frames>>
Set(u, t) == tasks' = [tasks EXCEPT ![u] = t]
To(u, step) == Set(u, [tasks[u] EXCEPT !.step = step])
ChatOf(u) == updates[u].chat

-----------------------------------------------------------------------------
(* Messages arrive and are fetched.                                         *)

SendToBot ==
    /\ Len(updates) < Len(botScript.messages)
    /\ updates' = Append(updates, botScript.messages[Len(updates) + 1])
    /\ UNCHANGED <<botScript, offset, tasks, chatMap, created, gatewaySide>>

\* run: every update is handed to a task of its own.  A poll that fails is
\* made again with the same offset.
Poll ==
    /\ offset <= Len(updates)
    /\ tasks' = [u \in UpdateNrs |->
         IF u \in offset..Len(updates)
         THEN [Unspawned EXCEPT !.step = "handle", !.spawned = tasks[u].spawned + 1] ELSE tasks[u]]
    /\ offset' = Len(updates) + 1
    /\ UNCHANGED <<botScript, updates, chatMap, created, gatewaySide>>

-----------------------------------------------------------------------------
(* handle_message and handle_command.                                       *)

\* SenderAuthPolicy: senders that are not registered are logged and ignored.
Authorized(u) == updates[u].what # "stranger"

\* extract_media_attachments: a medium that is too large or that cannot be
\* downloaded is left out; without text nothing is left.
HasContent(u) == IF updates[u].what = "media" THEN BOOLEAN ELSE {TRUE}

\* handle_command: the commands that only report change nothing here.
AfterCommand(what) ==
    IF what = "new" THEN "create" ELSE IF what \in {"switch", "cancel", "cancelall"} THEN what ELSE "done"

HandleMessage(u) ==
    /\ tasks[u].step = "handle"
    /\ \E content \in HasContent(u) :
         To(u, IF ~Authorized(u) \/ ~content THEN "done"
               ELSE IF updates[u].what \in {"text", "media"} THEN "resolve" ELSE AfterCommand(updates[u].what))
    /\ UNCHANGED <<botScript, updates, offset, chatMap, created, gatewaySide>>

\* subscribe_events, before the turn is submitted.
SubscribeChat(t) == [t EXCEPT !.step = "submit", !.next = Len(frames[t.session]) + 1]

\* resolve_session: the mapped session, if the gateway still gives it.
ResolveChatSession(u) ==
    /\ tasks[u].step = "resolve"
    /\ \/ /\ chatMap[ChatOf(u)] # 0
          /\ Set(u, SubscribeChat([tasks[u] EXCEPT !.session = chatMap[ChatOf(u)]]))
       \/ To(u, "create")
    /\ UNCHANGED <<botScript, updates, offset, chatMap, created, gatewaySide>>

\* create_or_get_session without an id, for a message or for /new.
CreateChatSession(u) ==
    /\ tasks[u].step = "create"
    /\ IF created < botScript.limit
       THEN /\ created' = created + 1
            /\ Set(u, [tasks[u] EXCEPT !.step = "map", !.session = created + 1])
       ELSE To(u, "done") /\ UNCHANGED created
    /\ UNCHANGED <<botScript, updates, offset, chatMap, gatewaySide>>

\* resolve_session_id_by_prefix: an id or a prefix that names one session;
\* 0 where it names none or several.
NamedSessions == 0..created

SwitchChat(u) ==
    /\ tasks[u].step = "switch"
    /\ \E s \in NamedSessions :
         IF s = 0 THEN To(u, "done") ELSE Set(u, [tasks[u] EXCEPT !.step = "map", !.session = s])
    /\ UNCHANGED <<botScript, updates, offset, chatMap, created, gatewaySide>>

\* set_session_id; an error is logged and the session used all the same.
MapChat(u) ==
    /\ tasks[u].step = "map"
    /\ chatMap' \in {chatMap, [chatMap EXCEPT ![ChatOf(u)] = tasks[u].session]}
    /\ IF updates[u].what \in {"text", "media"} THEN Set(u, SubscribeChat(tasks[u])) ELSE To(u, "done")
    /\ UNCHANGED <<botScript, updates, offset, created, gatewaySide>>

Cancelled(victims) ==
    turns' = [v \in UpdateNrs |-> IF v \in victims THEN [turns[v] EXCEPT !.cancelled = TRUE] ELSE turns[v]]

\* /cancel reads the mapping, then asks the gateway for the session.
CancelChat(u) ==
    /\ tasks[u].step = "cancel"
    /\ IF chatMap[ChatOf(u)] = 0 THEN To(u, "done")
       ELSE Set(u, [tasks[u] EXCEPT !.step = "cancelling", !.session = chatMap[ChatOf(u)]])
    /\ UNCHANGED <<botScript, updates, offset, chatMap, created, gatewaySide>>

CancelSessionTurn(u) ==
    /\ tasks[u].step = "cancelling"
    /\ Cancelled({active[tasks[u].session]}) /\ To(u, "done")
    /\ UNCHANGED <<botScript, updates, offset, chatMap, created, active, frames>>

\* /cancelall: whatever the user runs, from whichever chat.
CancelAllTurns(u) ==
    /\ tasks[u].step = "cancelall"
    /\ Cancelled({active[s] : s \in ChatSessions}) /\ To(u, "done")
    /\ UNCHANGED <<botScript, updates, offset, chatMap, created, active, frames>>

\* submit_turn_from_channel: refused while a turn is active.
SubmitFromChat(u) ==
    LET s == tasks[u].session IN
    /\ tasks[u].step = "submit"
    /\ IF active[s] # 0
       THEN To(u, "done") /\ UNCHANGED <<active, turns>>
       ELSE /\ active' = [active EXCEPT ![s] = u]
            /\ turns' = [turns EXCEPT ![u].state = "running"]
            /\ To(u, "placeholder")
    /\ UNCHANGED <<botScript, updates, offset, chatMap, created, frames>>

-----------------------------------------------------------------------------
(* The gateway's side of a turn.                                            *)

TurnSession(u) == tasks[u].session
PublishTo(s, f) == frames' = [frames EXCEPT ![s] = Append(@, f)]

TurnDelta(u) ==
    /\ turns[u].state = "running" /\ turns[u].parts < 2 * MaxDeltas
    /\ turns' = [turns EXCEPT ![u].parts = @ + 2]
    /\ PublishTo(TurnSession(u), Frame("delta", u, <<turns[u].parts + 1, turns[u].parts + 2>>))
    /\ UNCHANGED <<botScript, updates, offset, tasks, chatMap, created, active>>

\* The turn is over: the answer is the text of the last reply, the deltas
\* of the replies before it having been text too.  active_turn is cleared.
\* (A turn that fails after it was cancelled is one that failed before.)
TurnEndsAs(u, outcome, final) ==
    /\ turns[u].state = "running"
    /\ turns' = [turns EXCEPT ![u].state = "cleared", ![u].outcome = outcome,
                              ![u].final = final]
    /\ active' = [active EXCEPT ![TurnSession(u)] = 0]
    /\ UNCHANGED <<botScript, updates, offset, tasks, chatMap, created, frames>>

\* ... and then its last frame is published.
TurnPublishesEnd(u) ==
    /\ turns[u].state = "cleared"
    /\ turns' = [turns EXCEPT ![u].state = "over"]
    /\ PublishTo(TurnSession(u), Frame(turns[u].outcome, u, turns[u].final))
    /\ UNCHANGED <<botScript, updates, offset, tasks, chatMap, created, active>>

-----------------------------------------------------------------------------
(* stream_response and the ResponseStreamer.  `shown` are the messages of   *)
(* the task in the chat, `at` the one it edits, 0 for none; a request that  *)
(* Telegram refuses is noted.                                               *)

\* send_placeholder.
Placed(t, ok) ==
    IF ok THEN [t EXCEPT !.shown = Append(@, <<>>), !.at = Len(t.shown) + 1]
    ELSE [t EXCEPT !.at = 0, !.refused = TRUE]

\* force_edit: the interim text, progress lines left out.
Edited(t, ok) ==
    IF t.at = 0 THEN t
    ELSE IF ok THEN [t EXCEPT !.shown[t.at] = t.acc] ELSE [t EXCEPT !.refused = TRUE]

\* append_text: a text that grows too long goes on in a new message.  The
\* edits made every 1.5 seconds before that show less of the same text.
AppendText(t, body, ok) ==
    LET longer == [t EXCEPT !.acc = @ \o body] IN
    IF Len(longer.acc) > SplitAt
    THEN Placed([Edited(longer, ok) EXCEPT !.acc = <<>>], ok) ELSE longer

\* What split_message returns, where it returns (SplitFails, MessageSplit).
Pieces(final) ==
    [i \in 1..((Len(final) + MaxPerMessage - 1) \div MaxPerMessage) |->
        SubSeq(final, (i - 1) * MaxPerMessage + 1,
               IF i * MaxPerMessage < Len(final) THEN i * MaxPerMessage ELSE Len(final))]

\* finalize: an empty answer leaves what is there; without a message to edit
\* the answer is sent unsplit, which Telegram refuses when it is too long;
\* else the message gets the first piece and new messages the others.
Finalize(t, final) ==
    IF final = <<>> THEN t
    ELSE IF t.at = 0 THEN (IF Len(final) <= MaxPerMessage THEN [t EXCEPT !.shown = Append(@, final)]
                           ELSE [t EXCEPT !.refused = TRUE])
    ELSE [t EXCEPT !.shown = SubSeq(@, 1, t.at - 1) \o Pieces(final)]

\* Mutant: the subscription is made when the answer begins to be streamed.
SendPlaceholderSubscribes(u) ==
    /\ tasks[u].step = "placeholder"
    /\ \E ok \in BOOLEAN :
         Set(u, [Placed(tasks[u], ok) EXCEPT !.step = "stream", !.next = Len(frames[tasks[u].session]) + 1])
    /\ UNCHANGED <<botScript, updates, offset, chatMap, created, gatewaySide>>

SendPlaceholder(u) ==
    /\ tasks[u].step = "placeholder"
    /\ \E ok \in BOOLEAN : Set(u, [Placed(tasks[u], ok) EXCEPT !.step = "stream"])
    /\ UNCHANGED <<botScript, updates, offset, chatMap, created, gatewaySide>>

OldestKept(s) == IF Len(frames[s]) > EventCapacity THEN Len(frames[s]) - EventCapacity + 1 ELSE 1

\* RecvError::Lagged: frames overwritten before they were read are skipped.
LagBehind(u) ==
    LET t == tasks[u] IN
    /\ t.step = "stream" /\ t.next < OldestKept(t.session)
    /\ Set(u, [t EXCEPT !.next = OldestKept(t.session), !.lagged = TRUE])
    /\ UNCHANGED <<botScript, updates, offset, chatMap, created, gatewaySide>>

\* TurnCompleted, TurnCancelled or Error, whosever turn it was.
EndsStream(kind) == kind \in {"completed", "cancelled", "failed"}

\* What a last frame is told as: the answer, or one line, which is part 0.
FinalText(f) == IF f.kind = "completed" THEN f.body ELSE <<0>>

ReadFrame(u) ==
    LET t == tasks[u]
        f == frames[t.session][t.next]
        own == f.kind = "delta" /\ f.turn = u
        read == [t EXCEPT !.next = @ + 1, !.got = IF own THEN @ \o f.body ELSE @] IN
    /\ t.step = "stream" /\ t.next \in OldestKept(t.session)..Len(frames[t.session])
    /\ IF EndsStream(f.kind)
       THEN Set(u, [Finalize(read, FinalText(f)) EXCEPT
                      !.step = "done", !.ended = f.kind, !.final = f.body,
                      !.own = (f.turn = u), !.acc = <<>>, !.at = 0, !.next = 0])
       ELSE IF f.kind = "delta"
       THEN \E ok \in BOOLEAN : Set(u, AppendText(read, f.body, ok))
       ELSE Set(u, read)
    /\ UNCHANGED <<botScript, updates, offset, chatMap, created, gatewaySide>>

\* split_message, on a text that does not fit in one message, panics inside a
\* character or never leaves its loop: the task dies or spins in finalize
\* before anything of the answer is sent.
SplitFails(u) ==
    LET t == tasks[u]
        f == frames[t.session][t.next] IN
    /\ t.step = "stream" /\ t.next \in OldestKept(t.session)..Len(frames[t.session])
    /\ f.kind = "completed" /\ t.at # 0 /\ Len(f.body) > MaxPerMessage
    /\ \E step \in {"died", "spinning"} : Set(u, [t EXCEPT !.step = step, !.final = f.body])
    /\ UNCHANGED <<botScript, updates, offset, chatMap, created, gatewaySide>>

TaskStep(u) ==
    \/ HandleMessage(u) \/ ResolveChatSession(u) \/ CreateChatSession(u) \/ SwitchChat(u)
    \/ MapChat(u) \/ CancelChat(u) \/ CancelSessionTurn(u) \/ CancelAllTurns(u)
    \/ SubmitFromChat(u) \/ SendPlaceholder(u) \/ LagBehind(u) \/ ReadFrame(u) \/ SplitFails(u)

TurnEndStep(u) ==
    \/ \E n \in {0, turns[u].parts} :
         TurnEndsAs(u, "completed", [i \in 1..n |-> turns[u].parts - n + i])
    \/ TurnEndsAs(u, IF turns[u].cancelled THEN "cancelled" ELSE "failed", <<>>)
    \/ TurnPublishesEnd(u)

TelegramNext ==
    \/ SendToBot \/ Poll
    \/ \E u \in UpdateNrs : TaskStep(u) \/ TurnDelta(u) \/ TurnEndStep(u)

\* Tasks are polled, the Bot API answers or times out, and turns end.
TelegramFairness ==
    \A u \in UpdateNrs : WF_telegramVars(TaskStep(u)) /\ WF_telegramVars(TurnEndStep(u))
TelegramSpec == TelegramInit /\ [][TelegramNext]_telegramVars /\ TelegramFairness

-----------------------------------------------------------------------------
(* Properties.                                                              *)

\* A message is handed to one task, however the polls and the messages that
\* arrive between them fall.
UpdatesHandledOnce == \A u \in UpdateNrs : tasks[u].spawned <= 1

EndedByOwnTurn(u) == tasks[u].step = "done" /\ tasks[u].own

\* A task that never lagged and was ended by the last frame of its turn has
\* seen all the turn's deltas, those published before it began to stream too.
EveryDeltaSeen ==
    \A u \in UpdateNrs :
        EndedByOwnTurn(u) /\ ~tasks[u].lagged
        => tasks[u].got = [i \in 1..turns[u].parts |-> i]

\* Messages first to last are pieces of the text that follow one another from
\* its beginning to its end.
ReadsAs(messages, first, text) ==
    \E cut \in [first..(Len(messages) + 1) -> 0..Len(text)] :
        /\ cut[first] = 0 /\ cut[Len(messages) + 1] = Len(text)
        /\ \A i \in first..Len(messages) :
              cut[i] <= cut[i + 1] /\ messages[i] = SubSeq(text, cut[i] + 1, cut[i + 1])

\* When no request was refused and the task ended, the chat's last messages
\* read as the answer, whole and in order, however often the text went on in a
\* new message.
ShownWhole(t) ==
    t.step = "done" /\ t.own /\ t.ended = "completed" /\ ~t.refused /\ t.final # <<>>
    => \E first \in DOMAIN t.shown : ReadsAs(t.shown, first, t.final)
AnswerShownWhole == \A u \in UpdateNrs : ShownWhole(tasks[u])

\* Every task ends, though frames may be overwritten before it reads them (a
\* last frame that is lost was followed by those of another turn), but for one
\* whose answer is longer than a message: split_message may not return.
SplitStuck(t) == t.step \in {"died", "spinning"} /\ Len(t.final) > MaxPerMessage
TasksEnd ==
    \A u \in UpdateNrs : tasks[u].step = "handle" ~> tasks[u].step = "done" \/ SplitStuck(tasks[u])

\* The reply to a message is the answer of its own turn.
AnswerIsOwn ==
    \A u \in UpdateNrs : tasks[u].step = "done" /\ tasks[u].ended # "none" => EndedByOwnTurn(u)

\* Every message to the bot is taken up once at most, a task that its own turn
\* ended and that did not lag has seen every delta, and an answer of which no
\* message was refused, and which split_message could cut, is shown whole.
ChatsAnswered == UpdatesHandledOnce /\ EveryDeltaSeen /\ AnswerShownWhole

-----------------------------------------------------------------------------
(* The inductive invariant of ChatsAnswered.                                *)

TurnRecs ==
    [state : {"none", "running", "cleared", "over"}, parts : Nat, cancelled : BOOLEAN,
     outcome : {"none", "completed", "cancelled", "failed"}, final : Seq(Nat)]
FrameRecs ==
    [kind : {"delta", "completed", "cancelled", "failed"}, turn : UpdateNrs, body : Seq(Nat)]
TaskSteps ==
    {"none", "handle", "resolve", "create", "switch", "cancel", "cancelall", "map", "cancelling",
     "submit", "placeholder", "stream", "done", "died", "spinning"}
BotTasks ==
    [step : TaskSteps, spawned : 0..1, session : 0..MaxChatSessions, next : Nat,
     lagged : BOOLEAN, refused : BOOLEAN, own : BOOLEAN, got : Seq(Nat), acc : Seq(Nat), at : Nat,
     shown : Seq(Seq(Nat)), ended : {"none", "completed", "cancelled", "failed"}, final : Seq(Nat)]

BotTypes ==
    /\ botScript \in BotScripts /\ updates \in Seq([chat : ChatsOf(botScript), what : STRING])
    /\ Len(updates) <= Len(botScript.messages) /\ offset \in 1..(Len(updates) + 1)
    /\ created \in 0..MaxChatSessions /\ chatMap \in [ChatsOf(botScript) -> 0..MaxChatSessions]
    /\ tasks \in [UpdateNrs -> BotTasks] /\ turns \in [UpdateNrs -> TurnRecs]
    /\ frames \in [ChatSessions -> Seq(FrameRecs)]

\* Updates that were not fetched have no task.
NotFetched == \A u \in UpdateNrs : u >= offset => tasks[u] = Unspawned

CountTo(n) == [i \in 1..n |-> i]
IsDelta(u, f) == f.kind = "delta" /\ f.turn = u

\* The frames that turn u has published among those of its session.
FramesInOrder(u, turn, fs) ==
    /\ \A i \in 1..Len(fs) : IsDelta(u, fs[i]) =>
         /\ fs[i].body[1] \in Nat /\ fs[i].body = <<fs[i].body[1], fs[i].body[1] + 1>>
         /\ fs[i].body[1] + 1 <= turn.parts
         /\ fs[i].body[1] + 1 = turn.parts
            \/ \E j \in 1..Len(fs) : IsDelta(u, fs[j]) /\ fs[j].body[1] = fs[i].body[1] + 2
    /\ \A i, j \in 1..Len(fs) :
         i < j /\ IsDelta(u, fs[i]) /\ IsDelta(u, fs[j]) => fs[i].body[1] + 2 <= fs[j].body[1]
    /\ \A i \in 1..Len(fs) : fs[i].turn = u /\ fs[i].kind # "delta" =>
         turn.state = "over" /\ \A j \in 1..Len(fs) : IsDelta(u, fs[j]) => j < i

\* A task has read the first m parts, and the deltas ahead go on from there.
CaughtUp(u, m, next, turn, fs) ==
    /\ \A i \in 1..Len(fs) : i >= next /\ IsDelta(u, fs[i]) => fs[i].body[1] > m
    /\ m = turn.parts
       \/ \E i \in 1..Len(fs) : i >= next /\ IsDelta(u, fs[i]) /\ fs[i].body[1] = m + 1

TaskSound(u, t, turn, fs) ==
    /\ turn.state # "none" => t.step \in {"placeholder", "stream", "done", "died", "spinning"} /\ t.session # 0
    /\ t.step \in {"placeholder", "stream"} => turn.state # "none"
    /\ t.step \in {"map", "submit"} => t.session # 0
    /\ t.step \notin {"stream", "done", "died", "spinning"} => t.got = <<>> /\ ~t.own
    /\ t.step \in {"submit", "placeholder", "stream"} => t.next <= Len(fs) + 1
    /\ t.step \in {"placeholder", "stream"} /\ ~t.lagged =>
         t.got = CountTo(Len(t.got)) /\ CaughtUp(u, Len(t.got), t.next, turn, fs)
    /\ t.step = "done" /\ t.own =>
         turn.state = "over" /\ (~t.lagged => t.got = CountTo(turn.parts))
    /\ t.step = "stream" => t.at <= Len(t.shown) /\ (t.at = 0 => t.refused)

TurnSound(turn) ==
    /\ turn.state = "none" => turn.parts = 0
    /\ turn.state = "cleared" => turn.outcome # "none"

\* The frames of a task's session, none before it has one.
Seen(s) == IF s = 0 THEN <<>> ELSE frames[s]
TaskInOrder(u) ==
    /\ TaskSound(u, tasks[u], turns[u], Seen(tasks[u].session))
    /\ FramesInOrder(u, turns[u], Seen(tasks[u].session))
    /\ TurnSound(turns[u])

\* A turn that was not submitted has published nothing, the others only on
\* the session of their task.
PublishedBy(f, s) == turns[f.turn].state # "none" /\ tasks[f.turn].session = s

TelegramInv ==
    /\ BotTypes /\ NotFetched
    /\ \A u \in UpdateNrs : TaskInOrder(u)
    /\ \A s \in ChatSessions : \A i \in 1..Len(frames[s]) : PublishedBy(frames[s][i], s)
    /\ AnswerShownWhole
=============================================================================
