----------------------------- MODULE TurnStream -----------------------------
(***************************************************************************)
(* How the stream items of one running turn reach the session's channel:   *)
(* the runtime and its tools write to an unbounded channel, run_turn       *)
(* forwards from it to a second one, the gateway's turn task publishes     *)
(* what comes out (crates/runtime/src/lib.rs, crates/gateway/src/          *)
(* turn_runner.rs and lib.rs).  Where paths are scrubbed, what tools send  *)
(* goes through a task of its own first.                                   *)
(*                                                                         *)
(* Both loops are select!s that return as soon as the inner future is      *)
(* ready, whatever is still in their channel.  An item is its kind and its *)
(* number in the order in which it was sent.                               *)
(***************************************************************************)
EXTENDS Naturals, Sequences

CONSTANTS
    MaxItems,  \* bound: items sent in the turn
    Scrubbing  \* path_scrub_mappings is not empty

ASSUME MaxItemsType == MaxItems \in Nat
ASSUME ScrubbingType == Scrubbing \in BOOLEAN

VARIABLES
    sentItems, \* items sent so far, in order
    scrub,     \* the channel into the scrubbing task
    stream,    \* stream_events
    delta,     \* the channel from run_turn to the turn task
    runtime,   \* "running", or "ready" when its future has completed
    runner,    \* run_turn: "forwarding", "draining", "returned"
    gateway,   \* the turn task: "publishing" or "ended"
    published  \* items broadcast as frames

flowVars == <<sentItems, scrub, stream, delta, runtime, runner, gateway, published>>

\* text      deltas and progress, sent by the runtime itself
\* media     attachments, sent by a tool
\* internal  everything run_turn does not pass on (tool-call deltas, usage,
\*           finish reasons, policy events)
ItemKinds == {"text", "media", "internal"}
StreamItems == [kind : ItemKinds, nr : 1..MaxItems]

\* Of the items in channel s, those of a kind, by number.
Numbers(kind, s) == {s[i].nr : i \in {j \in DOMAIN s : s[j].kind = kind}}

FlowTypeOK ==
    /\ {sentItems, scrub, stream, delta, published} \subseteq Seq(StreamItems)
    /\ runtime \in {"running", "ready"}
    /\ runner \in {"forwarding", "draining", "returned"}
    /\ gateway \in {"publishing", "ended"}

NothingSent ==
    /\ sentItems = <<>> /\ scrub = <<>> /\ stream = <<>> /\ delta = <<>>
    /\ published = <<>>
    /\ runtime = "running" /\ runner = "forwarding"

FlowInit == NothingSent /\ gateway = "publishing"

-----------------------------------------------------------------------------
\* The runtime, or a tool through its ToolExecutionContext, sends an item.
SendItem(kind) ==
    /\ runtime = "running" /\ Len(sentItems) < MaxItems
    /\ LET item == [kind |-> kind, nr |-> Len(sentItems) + 1] IN
       /\ sentItems' = Append(sentItems, item)
       /\ IF Scrubbing /\ kind = "media"
          THEN scrub' = Append(scrub, item) /\ UNCHANGED stream
          ELSE stream' = Append(stream, item) /\ UNCHANGED scrub
    /\ UNCHANGED <<delta, runtime, runner, gateway, published>>

\* run_session_internal returns, with a response or an error.
RuntimeReturns ==
    /\ runtime = "running"
    /\ runtime' = "ready"
    /\ UNCHANGED <<sentItems, scrub, stream, delta, runner, gateway, published>>

\* The scrubbing task passes an item on; once the stream is closed the send
\* fails, and the task ends with what it has.
Scrub ==
    /\ scrub # <<>>
    /\ IF runner = "forwarding"
       THEN scrub' = Tail(scrub) /\ stream' = Append(stream, Head(scrub))
       ELSE scrub' = <<>> /\ UNCHANGED stream
    /\ UNCHANGED <<sentItems, delta, runtime, runner, gateway, published>>

\* run_turn's select!: an item is ready.
Forward ==
    /\ runner = "forwarding" /\ stream # <<>>
    /\ stream' = Tail(stream)
    /\ delta' = IF Head(stream).kind = "internal" THEN delta
                ELSE Append(delta, Head(stream))
    /\ UNCHANGED <<sentItems, scrub, runtime, runner, gateway, published>>

\* ... or the runtime is: leave the loop and close the stream.
LeaveLoop ==
    /\ runner = "forwarding" /\ runtime = "ready"
    /\ runner' = "draining"
    /\ UNCHANGED <<sentItems, scrub, stream, delta, runtime, gateway, published>>

\* The rest of the stream is drained, an item at a time, for media; when
\* try_recv has no item left run_turn returns.
DrainItem ==
    /\ runner = "draining" /\ stream # <<>>
    /\ stream' = Tail(stream)
    /\ delta' = IF Head(stream).kind = "media" THEN Append(delta, Head(stream)) ELSE delta
    /\ UNCHANGED <<sentItems, scrub, runtime, runner, gateway, published>>

\* Mutant: after the drain the loop is polled again.
DrainedResumesLoop ==
    /\ runner = "draining" /\ stream = <<>>
    /\ runner' = "forwarding"
    /\ UNCHANGED <<sentItems, scrub, stream, delta, runtime, gateway, published>>

Drained ==
    /\ runner = "draining" /\ stream = <<>>
    /\ runner' = "returned"
    /\ UNCHANGED <<sentItems, scrub, stream, delta, runtime, gateway, published>>

Drain == DrainItem \/ Drained

\* The turn task's select!: an item is ready.
Publish ==
    /\ gateway = "publishing" /\ delta # <<>>
    /\ delta' = Tail(delta)
    /\ published' = Append(published, Head(delta))
    /\ UNCHANGED <<sentItems, scrub, stream, runtime, runner, gateway>>

\* ... or run_turn is: the loop returns its result.
EndPublishing ==
    /\ gateway = "publishing" /\ runner = "returned"
    /\ gateway' = "ended"
    /\ UNCHANGED <<sentItems, scrub, stream, delta, runtime, runner, published>>

FlowNext ==
    \/ \E kind \in ItemKinds : SendItem(kind)
    \/ RuntimeReturns \/ Scrub \/ Forward \/ LeaveLoop \/ Drain \/ Publish \/ EndPublishing

\* The tasks are polled while they are ready.
FlowSpec ==
    /\ FlowInit /\ [][FlowNext]_flowVars
    /\ WF_flowVars(Scrub) /\ WF_flowVars(Forward) /\ WF_flowVars(LeaveLoop) /\ WF_flowVars(Drain)
    /\ WF_flowVars(Publish) /\ WF_flowVars(EndPublishing)

-----------------------------------------------------------------------------
\* A has the first so many of the numbers in B.
FirstOf(A, B) == A \subseteq B /\ \A m \in A, n \in B : n <= m => n \in A

\* Channel s holds the items of the kind in the order they were sent in.
InOrder(kind, s) ==
    \A i, j \in DOMAIN s :
        (i < j /\ s[i].kind = kind /\ s[j].kind = kind) => s[i].nr < s[j].nr

\* A subscriber never sees a gap in the text, nor in the media: what is
\* published of either kind is, in order, what was sent of it first, up to
\* the end of the turn, although the two kinds may overtake each other and
\* the drain skips what it does not forward.
NoGaps ==
    \A kind \in {"text", "media"} :
        InOrder(kind, published) /\ FirstOf(Numbers(kind, published), Numbers(kind, sentItems))

\* A turn whose runtime has returned is ended, whatever is left in the
\* channels.
TurnEnds == (runtime = "ready") ~> (gateway = "ended")

\* "This prevents media items from being silently lost": without a scrubbing
\* task, all media that were sent are published when the turn ends.
MediaDelivered ==
    (gateway = "ended" /\ ~Scrubbing)
        => Numbers("media", published) = Numbers("media", sentItems)

-----------------------------------------------------------------------------
(* One run started through the SDK (crates/sdk/src/client.rs): stream()     *)
(* spawns a task that awaits run_turn and a task that turns stream items    *)
(* and the run's outcome into RunEvents; one_shot() throws the items away.  *)
(* The items come out of run_turn's channel `delta`, which the gateway's    *)
(* turn task does not read here.                                            *)

VARIABLES
    returned,  \* what the runtime returned, NotReturned before
    internal,  \* the channel of InternalRunEvents
    runTask,   \* the task that awaits run_turn: "running" or "ended"
    converter, \* the converting task: "looping" or "ended"
    events     \* the RunEvents sent to the caller

sdkVars == <<returned, internal, runTask, converter, events>>

\* What run_turn returns: a response whose turn ended by itself, at the
\* model's token limit or after a reply that used up the policy's budget; or
\* an error.
RunOutcomes ==
    {"reply", "cut_reply", "reply_over_budget", "Cancelled", "BudgetExceeded",
     "TurnLimitExceeded", "DeadlineExceeded", "other"}
NotReturned == "none"

RunEvent(type, reason, nr) == [type |-> type, reason |-> reason, nr |-> nr]

\* classify_stream_error, on the text of the error.
ClassifyStreamError(error) ==
    CASE error = "Cancelled"         -> "Cancelled"
      [] error = "BudgetExceeded"    -> "MaxBudgetExceeded"
      [] error = "TurnLimitExceeded" -> "MaxTurns"
      [] error = "DeadlineExceeded"  -> "MaxRuntimeExceeded"
      [] OTHER                       -> "Error"

\* determine_stop_reason looks at the provider's finish reason only.
DetermineStopReason(reply) == IF reply = "cut_reply" THEN "MaxTurns" ELSE "Completed"

\* The last event of a streamed run: completed, or stopped by an error.
StreamOutcome(outcome) ==
    CASE outcome \in {"reply", "cut_reply", "reply_over_budget"} ->
            RunEvent("Completed", DetermineStopReason(outcome), 0)
      [] outcome = "TurnLimitExceeded" -> RunEvent("Completed", "MaxTurns", 0)
      [] outcome = "DeadlineExceeded"  -> RunEvent("Completed", "MaxRuntimeExceeded", 0)
      [] OTHER -> RunEvent("PolicyStop", ClassifyStreamError(outcome), 0)

\* What one_shot returns for the same outcome.
OneShotOutcome(outcome) ==
    CASE outcome \in {"reply", "cut_reply", "reply_over_budget"} ->
            [ok |-> TRUE, reason |-> DetermineStopReason(outcome)]
      [] outcome = "TurnLimitExceeded" -> [ok |-> TRUE, reason |-> "MaxTurns"]
      [] outcome = "DeadlineExceeded"  -> [ok |-> TRUE, reason |-> "MaxRuntimeExceeded"]
      [] OTHER -> [ok |-> FALSE, reason |-> ClassifyStreamError(outcome)]

NoEvents == returned = NotReturned /\ internal = <<>> /\ events = <<>>
\* A turn that the SDK has not started.
NoSdkRun == NoEvents /\ runTask = "ended" /\ converter = "ended"

SdkInit ==
    /\ NothingSent /\ gateway = "ended"
    /\ NoEvents /\ runTask = "running" /\ converter = "looping"

-----------------------------------------------------------------------------
\* The items of the run, up to run_turn's return.
SdkItems ==
    \/ \E kind \in ItemKinds : SendItem(kind)
    \/ Scrub \/ Forward \/ LeaveLoop \/ Drain

\* The runtime's future completes.
SdkReturns(outcome) ==
    /\ RuntimeReturns
    /\ returned' = outcome
    /\ UNCHANGED <<internal, runTask, converter, events>>

\* The spawned task has run_turn's result and reports it.
ReportOutcome ==
    /\ runTask = "running" /\ runner = "returned"
    /\ runTask' = "ended"
    /\ internal' = Append(internal, StreamOutcome(returned))
    /\ UNCHANGED <<flowVars, returned, converter, events>>

\* The spawned task panics inside run_turn: both of its senders are dropped.
RunPanics ==
    /\ runTask = "running" /\ runner = "forwarding"
    /\ runTask' = "ended" /\ runner' = "returned"
    /\ stream' = <<>> /\ scrub' = <<>>
    /\ runtime' = "ready"
    /\ UNCHANGED <<sentItems, delta, gateway, published, returned, internal, converter, events>>

\* The converter's select!: an item is ready.  Of what run_turn passes on,
\* text becomes an event; media and progress do not.
ConvertItem ==
    /\ converter = "looping" /\ delta # <<>>
    /\ delta' = Tail(delta)
    /\ events' = IF Head(delta).kind = "text"
                 THEN Append(events, RunEvent("Text", "none", Head(delta).nr)) ELSE events
    /\ UNCHANGED <<sentItems, scrub, stream, runtime, runner, gateway, published,
                   returned, internal, runTask, converter>>

\* Mutant: the loop goes on to drain the items after the outcome.
ConvertOutcomeDrains ==
    /\ converter = "looping" /\ internal # <<>>
    /\ internal' = Tail(internal)
    /\ events' = Append(events, Head(internal))
    /\ UNCHANGED <<flowVars, returned, runTask, converter>>

\* ... or the outcome is: send it and stop, whatever is left of the items.
ConvertOutcome ==
    /\ converter = "looping" /\ internal # <<>>
    /\ internal' = Tail(internal)
    /\ events' = Append(events, Head(internal))
    /\ converter' = "ended"
    /\ UNCHANGED <<flowVars, returned, runTask>>

\* Both channels are closed and empty: select! has no branch left and panics.
ConverterDies ==
    /\ converter = "looping" /\ runTask = "ended"
    /\ delta = <<>> /\ internal = <<>>
    /\ converter' = "ended"
    /\ UNCHANGED <<flowVars, returned, internal, runTask, events>>

SdkNext ==
    \/ SdkItems /\ runTask = "running" /\ UNCHANGED sdkVars
    \/ \E outcome \in RunOutcomes : SdkReturns(outcome)
    \/ ReportOutcome \/ RunPanics \/ ConvertItem \/ ConvertOutcome \/ ConverterDies

\* Tasks are polled while they are ready.
SdkSpec ==
    /\ SdkInit /\ [][SdkNext]_<<flowVars, sdkVars>>
    /\ WF_<<flowVars, sdkVars>>(ReportOutcome)
    /\ WF_<<flowVars, sdkVars>>(ConvertOutcome \/ ConverterDies \/ ConvertItem)

-----------------------------------------------------------------------------
IsText(i) == events[i].type = "Text"
\* The text that the caller was told, by number.
TextTold == {events[i].nr : i \in {j \in DOMAIN events : IsText(j)}}

\* What a caller of stream() reads is the text sent, without a gap, and after
\* it at most one outcome, which agrees with what one_shot would have
\* returned of this run; the random choices of both select!s and a panic
\* included.
CallerReadsOneOutcome ==
    /\ FirstOf(TextTold, Numbers("text", sentItems))
    /\ \A i, j \in DOMAIN events : (i < j /\ IsText(i) /\ IsText(j)) => events[i].nr < events[j].nr
    /\ \A i \in DOMAIN events : ~IsText(i) =>
         /\ i = Len(events)
         /\ events[i].reason = OneShotOutcome(returned).reason
         /\ (events[i].type = "Completed") = OneShotOutcome(returned).ok

\* The caller's stream ends once the run has: with an outcome or, after a
\* panic, without one.
CallerStreamEnds == (runTask = "ended") ~> (converter = "ended")

\* "Policy limit violations (turn limit, deadline, budget) are returned as
\* part of the stop_reason": a run that its budget stopped says so.
BudgetStopTold ==
    \A i \in DOMAIN events :
        (events[i].type = "Completed" /\ returned = "reply_over_budget")
            => events[i].reason = "MaxBudgetExceeded"

\* The reader of a run's stream sees its items in order and without gaps, and
\* one outcome after them.
CallerReadsWholeRun == FlowTypeOK /\ NoGaps /\ CallerReadsOneOutcome
-----------------------------------------------------------------------------
(* The inductive invariants.  The items of a kind lie, in the order in which  *)
(* they were sent, in what is already out, then in delta, the stream and the  *)
(* scrubbing task; while run_turn forwards none is missing, afterwards only   *)
(* items behind all that can still come out.                                  *)

Precede(A, B) == \A a \in A, b \in B : a < b

\* out, d, e, w: the numbers of the items of the kind that the reader has and
\* that are in delta, the stream and the scrubbing task; of those sent.  The
\* drain takes media only.
Lined(kind, out, d, e, w, sent, forwarding) ==
    /\ out \cup d \cup e \cup w \subseteq sent
    /\ Precede(out, d \cup e \cup w) /\ Precede(d, e \cup w) /\ Precede(e, w)
    /\ ~(Scrubbing /\ kind = "media") => w = {}
    /\ forwarding => sent \subseteq out \cup d \cup e \cup w
    /\ ~forwarding => FirstOf(out \cup d \cup (IF kind = "media" THEN e ELSE {}), sent)

\* The same of the channels themselves.
InLine(kind, out, d, e, w, sent, state) ==
    /\ InOrder(kind, d) /\ InOrder(kind, e) /\ InOrder(kind, w)
    /\ Lined(kind, out, Numbers(kind, d), Numbers(kind, e), Numbers(kind, w),
             Numbers(kind, sent), state = "forwarding")

FlowBasics ==
    /\ FlowTypeOK
    /\ \A i \in DOMAIN sentItems : sentItems[i].nr = i
    /\ runner # "forwarding" => runtime = "ready"

FlowInv ==
    /\ FlowBasics
    /\ \A kind \in {"text", "media"} :
         /\ InOrder(kind, published)
         /\ InLine(kind, Numbers(kind, published), delta, stream, scrub, sentItems, runner)

\* The run's outcome is in one place: not yet reported, on its way to the
\* converter, or the caller's last event.
OutcomeOnce ==
    /\ returned \in RunOutcomes \cup {NotReturned}
    /\ runtime = "running" => returned = NotReturned
    /\ (runtime = "ready" /\ runTask = "running") => returned \in RunOutcomes
    /\ runTask = "running" => internal = <<>> /\ \A i \in DOMAIN events : IsText(i)
    /\ runTask = "ended" => runtime = "ready"
    /\ internal # <<>> =>
         /\ internal = <<StreamOutcome(returned)>> /\ returned \in RunOutcomes
         /\ \A i \in DOMAIN events : IsText(i)
    /\ converter = "looping" => \A i \in DOMAIN events : IsText(i)
    /\ \A i \in DOMAIN events : ~IsText(i) =>
         i = Len(events) /\ events[i] = StreamOutcome(returned) /\ returned \in RunOutcomes

RunEvents ==
    [type : {"Text", "Completed", "PolicyStop"}, nr : Nat,
     reason : {"none", "Cancelled", "MaxBudgetExceeded", "MaxTurns", "MaxRuntimeExceeded",
               "Error", "Completed"}]

SdkInv ==
    /\ FlowBasics
    /\ published = <<>>
    /\ InLine("text", TextTold, delta, stream, scrub, sentItems, runner)
    /\ events \in Seq(RunEvents) /\ internal \in Seq(RunEvents)
    /\ runTask \in {"running", "ended"} /\ converter \in {"looping", "ended"}
    /\ \A i, j \in DOMAIN events : (i < j /\ IsText(i) /\ IsText(j)) => events[i].nr < events[j].nr
    /\ OutcomeOnce
=============================================================================
