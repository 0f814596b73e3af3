-------------------------- MODULE ProactiveDelivery --------------------------
(***************************************************************************)
(* Delivery of what scheduled runs have to say: notify_user of the gateway *)
(* (crates/gateway/src/lib.rs), the TelegramProactiveSender                *)
(* (crates/channels/src/telegram.rs), one task a notification, and the     *)
(* delivery streak of a schedule's row                                     *)
(* (crates/memory/src/scheduler_store.rs).                                 *)
(*                                                                         *)
(* A schedule's route is a topic of a forum or, after enough deliveries    *)
(* that did not find the topic, the forum's main chat.  Topics are deleted *)
(* at any moment and never come back.                                      *)
(***************************************************************************)
EXTENDS Naturals, Sequences

CONSTANTS
    Notices,        \* the notifications of one schedule
    ChunksOf,       \* notification -> the chunks of its text
    RemapThreshold, \* ROUTE_NOT_FOUND_REMAP_THRESHOLD
    MediaRetries    \* MEDIA_UPLOAD_MAX_RETRIES

ASSUME DeliveryBounds ==
    ChunksOf \in [Notices -> Nat \ {0}] /\ RemapThreshold \in Nat \ {0} /\ MediaRetries \in Nat

VARIABLES
    topicAlive, \* the schedule's topic exists
    row,        \* the schedule's [route, streak, channel]
    notices,    \* notice -> its delivery
    screens,    \* TUI session -> [top, connected, seen]
    notFound    \* ghost: deliveries that did not find the topic

deliveryVars == <<topicAlive, row, notices, screens, notFound>>

TuiSessions == {"origin", "other"}
Unsent == [step |-> "none", what |-> "none", route |-> "none", target |-> "none", chunk |-> 0,
           of |-> 0, switched |-> FALSE, failed |-> FALSE, tries |-> 0, outcome |-> "none",
           deadAtStart |-> FALSE, mainRefused |-> FALSE, main |-> <<>>, watched |-> {}]

DeliveryInit ==
    /\ topicAlive = TRUE
    /\ row \in [route : {"topic"}, streak : {0}, channel : {"tui", "telegram", "none"}]
    /\ notices = [n \in Notices |-> Unsent]
    /\ screens \in [TuiSessions -> [held : BOOLEAN, top : BOOLEAN, connected : {FALSE}, seen : {{}}]]
    /\ row.channel = "telegram" => \A s \in TuiSessions : ~screens[s].held /\ ~screens[s].top
    /\ notFound = 0

PutNotice(n, d) == notices' = [notices EXCEPT ![n] = d]
\* A task that ends leaves what it did.
Ended(d) == [Unsent EXCEPT !.step = "done", !.of = d.of, !.deadAtStart = d.deadAtStart,
                           !.mainRefused = d.mainRefused, !.main = d.main]

\* The environment: topics go, terminals come and go.
DeleteTopic == /\ topicAlive /\ row.channel = "telegram" /\ topicAlive' = FALSE /\ UNCHANGED <<row, notices, screens, notFound>>
ConnectScreen(s) ==
    /\ row.channel # "telegram" /\ screens[s].held
    /\ screens' = [screens EXCEPT ![s].connected = ~@]
    /\ UNCHANGED <<topicAlive, row, notices, notFound>>

-----------------------------------------------------------------------------
(* notify_user.                                                             *)

ShownOn(n, shown) ==
    screens' = [s \in TuiSessions |-> IF s \in shown THEN [screens[s] EXCEPT !.seen = @ \union {n}] ELSE screens[s]]

Connected == {s \in TuiSessions : screens[s].held /\ screens[s].connected}

\* try_publish to the origin session, or else to every connected top-level
\* session; to none, and the notification is dropped.
TuiTargets == IF "origin" \in Connected THEN {"origin"} ELSE {s \in Connected : screens[s].top}

\* A schedule without a channel is an old one: all sessions are told.
NotifyTui(n) ==
    /\ notices[n].step = "none" /\ row.channel # "telegram"
    /\ ShownOn(n, IF row.channel = "none" THEN Connected ELSE TuiTargets)
    /\ PutNotice(n, [Unsent EXCEPT !.step = "done", !.watched = Connected])
    /\ UNCHANGED <<topicAlive, row, notFound>>

\* send_proactive: a task of its own, for the route the schedule had when
\* its run was started.  A text is split into chunks.
NotifyTelegram(n) ==
    /\ notices[n].step = "none" /\ row.channel = "telegram"
    /\ \E what \in {"text", "media"} :
         PutNotice(n, [Unsent EXCEPT !.step = "send", !.what = what, !.route = row.route, !.target = row.route,
                         !.of = IF what = "text" THEN ChunksOf[n] ELSE 1,
                         !.deadAtStart = (row.route = "topic" /\ ~topicAlive)])
    /\ UNCHANGED <<topicAlive, row, screens, notFound>>

-----------------------------------------------------------------------------
(* send_text_batch.                                                         *)

\* What the Bot API answers: a deleted topic is not found, other errors any
\* time.
Answers(target) == IF target = "topic" /\ ~topicAlive THEN {"not found"} ELSE {"ok", "error"}

Sent(d) == IF d.target = "main" THEN [d EXCEPT !.main = Append(@, d.chunk + 1)] ELSE d
Refused(d) == IF d.target = "main" THEN [d EXCEPT !.mainRefused = TRUE] ELSE d
NextChunkOf(d) ==
    IF d.chunk + 1 < d.of THEN [d EXCEPT !.chunk = @ + 1, !.step = "send"]
    ELSE [d EXCEPT !.chunk = @ + 1, !.step = "report",
                   !.outcome = IF ~d.switched THEN "primary"
                               ELSE IF d.failed THEN "fallback failed" ELSE "fallback"]

\* A chunk as HTML.  A topic that is not found by the first chunk is given
\* up for the whole batch; other errors have the chunk sent as plain text.
SendHtml(n) ==
    LET d == notices[n] IN
    /\ d.step = "send" /\ d.what = "text"
    /\ \E answer \in Answers(d.target) :
         PutNotice(n, IF answer = "ok" THEN NextChunkOf(Sent(d))
                      ELSE IF answer = "not found" /\ d.chunk = 0 /\ d.target = "topic"
                      THEN [d EXCEPT !.target = "main", !.switched = TRUE]
                      ELSE [Refused(d) EXCEPT !.step = "plain"])
    /\ UNCHANGED <<topicAlive, row, screens, notFound>>

\* The plain text is the last attempt.  Only a first chunk that failed in
\* the main chat after the switch is remembered as failed.
SendPlain(n) ==
    LET d == notices[n] IN
    /\ d.step = "plain"
    /\ \E answer \in Answers(d.target) :
         PutNotice(n, NextChunkOf(IF answer = "ok" THEN Sent(d)
                                  ELSE [Refused(d) EXCEPT !.failed = @ \/ (d.switched /\ d.chunk = 0)]))
    /\ UNCHANGED <<topicAlive, row, screens, notFound>>

-----------------------------------------------------------------------------
(* send_media_proactive.                                                    *)

\* upload_media_with_retries: other errors are tried again, a topic that is
\* not found gives way to the main chat with retries of its own.  A file
\* that cannot be written ends it; retries used up lead to a notice.
AfterUpload(d, answer) ==
    IF answer = "ok" THEN Ended(Sent(d))
    ELSE IF answer = "io" THEN (IF d.switched THEN [d EXCEPT !.step = "notice"] ELSE Ended(d))
    ELSE IF answer = "not found" THEN [d EXCEPT !.target = "main", !.switched = TRUE, !.tries = 0]
    ELSE IF d.tries < MediaRetries THEN [Refused(d) EXCEPT !.tries = @ + 1]
    ELSE [Refused(d) EXCEPT !.step = "notice"]

UploadMedia(n) ==
    LET d == notices[n] IN
    /\ d.step = "send" /\ d.what = "media"
    /\ \E answer \in Answers(d.target) \union {"io"} :
         PutNotice(n, IF answer = "io" THEN [AfterUpload(d, answer) EXCEPT !.mainRefused = TRUE]
                      ELSE AfterUpload(d, answer))
    /\ UNCHANGED <<topicAlive, row, screens, notFound>>

\* MEDIA_FALLBACK_NOTICE, as plain text, whether it arrives or not.
SendFallbackNotice(n) ==
    /\ notices[n].step = "notice"
    /\ PutNotice(n, Ended(notices[n]))
    /\ UNCHANGED <<topicAlive, row, screens, notFound>>

-----------------------------------------------------------------------------
(* report_outcome: statements guarded by the route the task used.  Only     *)
(* texts are reported.                                                      *)

ReportSuccess(n) ==
    /\ notices[n].step = "report" /\ notices[n].outcome = "primary"
    /\ row' = IF row.route = notices[n].route THEN [row EXCEPT !.streak = 0] ELSE row
    /\ PutNotice(n, Ended(notices[n]))
    /\ UNCHANGED <<topicAlive, screens, notFound>>

\* Mutant: the streak is counted for the schedule, whatever its route.
CountNotFoundAnyRoute(n) ==
    LET d == notices[n] IN
    /\ d.step = "report" /\ d.outcome \in {"fallback", "fallback failed"}
    /\ row' = [row EXCEPT !.streak = @ + 1]
    /\ notFound' = notFound + 1
    /\ PutNotice(n, IF d.outcome = "fallback" /\ row.streak + 1 >= RemapThreshold
                    THEN [d EXCEPT !.step = "remap"] ELSE Ended(d))
    /\ UNCHANGED <<topicAlive, screens>>

\* The increment returns the new streak, which decides on the remap.
CountNotFound(n) ==
    LET d == notices[n] IN
    /\ d.step = "report" /\ d.outcome \in {"fallback", "fallback failed"}
    /\ IF row.route # d.route
       THEN /\ PutNotice(n, Ended(d)) /\ UNCHANGED <<row, notFound>>
       ELSE /\ row' = [row EXCEPT !.streak = @ + 1] /\ notFound' = notFound + 1
            /\ PutNotice(n, IF d.outcome = "fallback" /\ row.streak + 1 >= RemapThreshold
                            THEN [d EXCEPT !.step = "remap"] ELSE Ended(d))
    /\ UNCHANGED <<topicAlive, screens>>

\* The second statement, guarded by the route again.
RemapRoute(n) ==
    /\ notices[n].step = "remap"
    /\ row' = IF row.route = notices[n].route THEN [row EXCEPT !.route = "main", !.streak = 0] ELSE row
    /\ PutNotice(n, Ended(notices[n]))
    /\ UNCHANGED <<topicAlive, screens, notFound>>

DeliveryNext ==
    \/ DeleteTopic \/ \E s \in TuiSessions : ConnectScreen(s)
    \/ \E n \in Notices :
         \/ NotifyTui(n) \/ NotifyTelegram(n) \/ SendHtml(n) \/ SendPlain(n) \/ UploadMedia(n)
         \/ SendFallbackNotice(n) \/ ReportSuccess(n) \/ CountNotFound(n) \/ RemapRoute(n)

DeliverySpec == DeliveryInit /\ [][DeliveryNext]_deliveryVars

-----------------------------------------------------------------------------
(* Properties.                                                              *)

\* A notification whose topic was gone when its task began reaches the main
\* chat whole, in order and once, as long as the main chat takes what it is
\* sent: every chunk of a text, the attachment of a medium.
DeadTopicReachesMainChat ==
    \A n \in Notices :
        LET d == notices[n] IN
        d.step \in {"report", "remap", "done"} /\ d.deadAtStart /\ ~d.mainRefused
        => d.main = [i \in 1..d.of |-> i]

\* A route is given up only for a topic that is gone, after RemapThreshold
\* deliveries that did not find it, and what late tasks of the old route
\* report does not count against the main chat.
RouteLeftForCause ==
    row.route = "main" => ~topicAlive /\ notFound >= RemapThreshold /\ row.streak = 0

\* A notification for the terminal reaches somebody if a top-level session
\* is connected, though its own session may be gone or unwatched.
TerminalNotified ==
    \A n \in Notices :
        row.channel = "tui" /\ (\E s \in notices[n].watched : screens[s].top)
        => \E s \in TuiSessions : n \in screens[s].seen

\* A scheduler's notification reaches its user, by its own route or by another
\* one, and a route is changed only for cause.
NotificationsDelivered == DeadTopicReachesMainChat /\ RouteLeftForCause /\ TerminalNotified
\* The inductive invariant behind it.  A delivery is switched only from a
\* topic that is gone; one that was gone at the start has nothing sent before
\* the switch and, while the main chat takes everything, all chunks so far
\* after it.
Routes == {"none", "topic", "main"}
Deliveries ==
    [step : {"none", "send", "plain", "notice", "report", "remap", "done"},
     what : {"none", "text", "media"}, route : Routes, target : Routes, chunk : Nat, of : Nat,
     switched : BOOLEAN, failed : BOOLEAN, tries : Nat,
     outcome : {"none", "primary", "fallback", "fallback failed"},
     deadAtStart : BOOLEAN, mainRefused : BOOLEAN, main : Seq(Nat), watched : SUBSET TuiSessions]
CountedTo(k) == [i \in 1..k |-> i]
Sending(d) == d.step \in {"send", "plain"}

DeadTopicOK(d) ==
    /\ Sending(d) /\ d.target = "topic" => d.step = "send" /\ d.chunk = 0 /\ d.main = <<>>
    /\ Sending(d) /\ d.target = "main" /\ ~d.mainRefused => d.main = CountedTo(d.chunk)
    /\ d.step = "notice" => d.mainRefused
    /\ d.step \in {"report", "remap", "done"} /\ ~d.mainRefused => d.main = CountedTo(d.of)

NoticeOK(d, alive, lost) ==
    /\ Sending(d) => d.target \in {"topic", "main"} /\ d.chunk < d.of
    /\ Sending(d) /\ d.what = "media" => d.of = 1 /\ d.chunk = 0
    /\ d.step = "plain" => d.what = "text" /\ (d.target = "main" => d.mainRefused)
    /\ d.target = "topic" => d.route = "topic"
    /\ d.switched => ~alive /\ d.route = "topic"
    /\ d.outcome \in {"fallback", "fallback failed"} => d.switched
    /\ d.step = "remap" => ~alive /\ lost >= RemapThreshold
    /\ d.deadAtStart => ~alive /\ DeadTopicOK(d)

Channels == {"tui", "telegram", "none"}
DeliveryTypeOK ==
    /\ topicAlive \in BOOLEAN /\ notFound \in Nat
    /\ row \in [route : {"topic", "main"}, streak : Nat, channel : Channels]
    /\ notices \in [Notices -> Deliveries]
    /\ screens \in [TuiSessions -> [held : BOOLEAN, top : BOOLEAN, connected : BOOLEAN, seen : SUBSET Notices]]

DeliveryInv ==
    /\ DeliveryTypeOK /\ RouteLeftForCause /\ TerminalNotified
    /\ row.streak <= notFound
    /\ \A n \in Notices : NoticeOK(notices[n], topicAlive, notFound)
    /\ row.channel # "telegram" => \A n \in Notices : notices[n].step \in {"none", "done"}
=============================================================================
