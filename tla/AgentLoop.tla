----------------------------- MODULE AgentLoop ------------------------------
(***************************************************************************)
(* The turn loop of the agent runtime for one session, over several user   *)
(* turns: run_turn's copy and roll-back of the session's context           *)
(* (crates/gateway/src/turn_runner.rs), run_session_internal's provider    *)
(* and tool loop with its limits (crates/runtime/src/lib.rs), and the      *)
(* write-through to the conversation memory (crates/runtime/src/memory.rs, *)
(* budget.rs).                                                             *)
(*                                                                         *)
(* A step ends at an await of the code, so that cancellation, the eviction *)
(* of the context by the cleanup task and a crash fall between any two.    *)
(* A message keeps its role and, for an assistant message, the safety      *)
(* tiers of its tool calls; what the provider answers is nondeterministic. *)
(***************************************************************************)
EXTENDS Naturals, Sequences, FiniteSets

CONSTANTS
    MaxUserTurns, \* bound: user turns of a behaviour
    MaxTurns,     \* max_turns, of the limits or of the policy
    MaxCalls,     \* bound: provider calls of a run in a mode that never stops
    Replies,      \* tool calls a reply may carry: sequences of tiers
    Costs,        \* what a reply may cost
    Budget,       \* max_cost, or the policy's remaining_budget_microusd
    Modes,        \* "none" for no policy, else the policy's rollout_mode
    MinTurns,     \* summarization.min_turns
    MinUnsummarized \* messages a rolling summary leaves alone (2 in the code)

Tiers == {"readOnly", "other"}

\* The smallest Replies with a tool call.
OneCallReplies == {<<>>, <<"readOnly">>}

ASSUME BoundsType ==
    /\ MaxUserTurns \in Nat /\ MaxTurns \in Nat \ {0} /\ MaxCalls \in Nat
    /\ Costs \subseteq Nat /\ Budget \in Nat
    /\ MinTurns \in Nat /\ MinUnsummarized \in Nat
ASSUME RepliesType == Replies \subseteq Seq(Tiers)
ASSUME ModesType == Modes \subseteq {"none", "enforce", "softFail", "observeOnly"}

VARIABLES
    history,   \* contexts[session_id].messages, <<>> when there is no entry
    mem,       \* conversation_events, by sequence number
    upper,     \* upper_sequence of the stored summary, 0 without one
    sent,      \* user turns submitted so far
    pc,        \* where the run is
    mode,      \* the policy of the session's runs: none when they come through
               \* the gateway, Enforce for a schedule's
    ctx,       \* run_context.messages
    pre,       \* pre_turn_message_count
    turn,      \* provider turns of this run
    remaining, \* what is left of the budget
    reply,     \* the tool calls of the reply being handled
    running,   \* calls under way
    finished,  \* calls of the batch that have a result, not yet pushed
    aborted,   \* calls of the batch that returned Err(Cancelled)
    answered,  \* calls of the reply whose result is pushed
    cancelled  \* the turn's CancellationToken

store == <<mem, upper>>
batch == <<running, finished, aborted>>
vars == <<history, store, sent, pc, mode, ctx, pre, turn, remaining, reply, batch,
          answered, cancelled>>

System == [role |-> "system"]
User(n) == [role |-> "user", nr |-> n]
Assistant(calls) == [role |-> "assistant", calls |-> calls]
Result(i) == [role |-> "tool", of |-> i]
CallNrs == UNION {DOMAIN calls : calls \in Replies}
Messages == {System} \cup {User(n) : n \in 1..MaxUserTurns}
            \cup {Assistant(calls) : calls \in Replies} \cup {Result(i) : i \in CallNrs}

TypeOK ==
    /\ history \in Seq(Messages) /\ mem \in Seq(Messages) /\ ctx \in Seq(Messages)
    /\ upper \in Nat /\ sent \in 0..MaxUserTurns
    /\ pc \in {"idle", "recall", "tail", "top", "prepare", "provider", "tools", "finish"}
    /\ mode \in Modes /\ pre \in Nat /\ turn \in Nat /\ remaining \in Nat
    /\ reply \in Replies \cup {<<>>} /\ answered \in 0..Len(reply)
    /\ running \cup finished \cup aborted \subseteq 1..Len(reply)
    /\ cancelled \in BOOLEAN

Init ==
    /\ history = <<>> /\ mem = <<>> /\ upper = 0 /\ sent = 0
    /\ pc = "idle" /\ mode \in Modes /\ ctx = <<>> /\ pre = 0
    /\ turn = 0 /\ remaining = 0 /\ reply = <<>> /\ answered = 0
    /\ running = {} /\ finished = {} /\ aborted = {} /\ cancelled = FALSE

-----------------------------------------------------------------------------
(* Ends of a run.                                                           *)

\* What is left of a run that is over.
Idle ==
    /\ pc' = "idle" /\ ctx' = <<>> /\ pre' = 0 /\ turn' = 0 /\ remaining' = 0
    /\ reply' = <<>> /\ answered' = 0 /\ cancelled' = FALSE
    /\ running' = {} /\ finished' = {} /\ aborted' = {}

\* Mutant: the roll-back keeps the user message.
FailKeepsUserMessage ==
    /\ history' = SubSeq(ctx, 1, pre + 1)
    /\ Idle
    /\ UNCHANGED <<store, sent, mode>>

\* Err: truncate to the messages before the turn and store the context, also
\* when the entry has been dropped meanwhile.
Fail ==
    /\ history' = SubSeq(ctx, 1, pre)
    /\ Idle
    /\ UNCHANGED <<store, sent, mode>>

\* Ok: store the context.
Finish ==
    /\ pc = "finish"
    /\ history' = ctx
    /\ Idle
    /\ UNCHANGED <<store, sent, mode>>

\* A panic unwinds through run_turn, which stores nothing.
Panic ==
    /\ pc \in {"provider", "tools"}
    /\ Idle
    /\ UNCHANGED <<history, store, sent, mode>>

-----------------------------------------------------------------------------
(* Starting a run.                                                          *)

HasSystem(s) == \E i \in DOMAIN s : s[i].role = "system"

\* Copy the context, push the user message, insert the system prompt.
BeginTurn ==
    /\ pc = "idle" /\ sent < MaxUserTurns
    /\ sent' = sent + 1
    /\ pre' = Len(history)
    /\ LET asked == Append(history, User(sent + 1)) IN
       ctx' = IF HasSystem(asked) THEN asked ELSE <<System>> \o asked
    /\ remaining' = Budget
    /\ pc' = "recall"
    /\ UNCHANGED <<history, store, mode, turn, reply, batch, answered, cancelled>>

\* next_memory_sequence.
Recall ==
    /\ pc = "recall"
    /\ pc' = "tail"
    /\ UNCHANGED <<history, store, sent, mode, ctx, pre, turn, remaining, reply,
                   batch, answered, cancelled>>

\* persist_context_tail_if_needed: what lies beyond the number of messages
\* stored is taken to be new, one store call each.
PersistTail ==
    /\ pc = "tail"
    /\ \/ /\ Len(mem) < Len(ctx)
          /\ mem' = Append(mem, ctx[Len(mem) + 1])
          /\ UNCHANGED pc
       \/ /\ Len(mem) >= Len(ctx)
          /\ pc' = "top"
          /\ UNCHANGED mem
    /\ UNCHANGED <<history, upper, sent, mode, ctx, pre, turn, remaining, reply,
                   batch, answered, cancelled>>

-----------------------------------------------------------------------------
(* One iteration of the loop.                                               *)

Strict == mode \in {"none", "enforce"}

\* Cancellation, then the turn limit, then the deadline, which may have
\* passed whenever there is a policy.  Only Enforce, or no policy, stops.
Top ==
    /\ pc = "top"
    /\ \/ /\ cancelled \/ (Strict /\ turn >= MaxTurns) \/ mode = "enforce"
          /\ Fail
       \/ /\ ~cancelled /\ ~(Strict /\ turn >= MaxTurns)
          /\ turn' = turn + 1
          /\ pc' = "prepare"
          /\ UNCHANGED <<history, store, sent, mode, ctx, pre, remaining, reply,
                         batch, answered, cancelled>>

\* Positions of ctx that are neither system messages nor covered by the
\* stored summary: what the provider may be sent as history.
Unsummarized == {i \in DOMAIN ctx : ctx[i].role # "system" /\ i > upper}

\* maybe_trigger_rolling_summary: with enough messages, and too many tokens,
\* the oldest ones go into the summary, MinUnsummarized at least do not.
Prepare ==
    /\ pc = "prepare"
    /\ pc' = "provider"
    /\ \/ upper' = upper
       \/ /\ Cardinality(Unsummarized) >= MinTurns
          /\ upper' \in Unsummarized
          /\ Cardinality({i \in Unsummarized : i > upper'}) >= MinUnsummarized
    /\ UNCHANGED <<history, mem, sent, mode, ctx, pre, turn, remaining, reply,
                   batch, answered, cancelled>>

Monus(a, b) == IF a > b THEN a - b ELSE 0

\* Reservation and settlement of the provider call, seen from the ledger of
\* this run; without a policy an excess has failed the run before.
Settle(cost) == remaining' = Monus(remaining, cost)

\* Push the assistant message and store it.
Accept(calls) ==
    /\ ctx' = Append(ctx, Assistant(calls))
    /\ mem' = Append(mem, Assistant(calls))

\* The provider answers within the budget: yield, or go on to the tools.  A
\* policy that enforces its budget returns the reply that exhausts it as the
\* result, tool calls and all.
Reply(calls, cost) ==
    /\ pc = "provider"
    /\ calls # <<>> => turn < MaxCalls
    /\ mode = "none" => cost <= remaining
    /\ Settle(cost)
    /\ Accept(calls)
    /\ LET stop == mode = "enforce" /\ remaining' = 0 IN
       /\ pc' = IF calls = <<>> \/ stop THEN "finish" ELSE "tools"
       /\ reply' = calls
    /\ answered' = 0
    /\ UNCHANGED <<history, upper, sent, mode, pre, turn, batch, cancelled>>

\* The run fails in a memory call, in preparing the context, in the provider
\* call (error, timeout, cancellation) or at the cost limit.
FailHere ==
    /\ pc \in {"recall", "tail", "prepare", "provider"}
    /\ Fail

-----------------------------------------------------------------------------
(* Tool calls of the reply.                                                 *)

NextCall == answered + 1
BatchDone == running = {} /\ finished = {} /\ aborted = {}
\* The contiguous read-only calls from i on.
ReadOnlyRun(i) ==
    {j \in i..Len(reply) : \A k \in i..j : reply[k] = "readOnly"}

ToolsDone ==
    /\ pc = "tools" /\ BatchDone /\ NextCall > Len(reply)
    /\ pc' = "top"
    /\ UNCHANGED <<history, store, sent, mode, ctx, pre, turn, remaining, reply,
                   batch, answered, cancelled>>

\* join_all over a read-only batch.
StartBatch ==
    /\ pc = "tools" /\ BatchDone /\ NextCall <= Len(reply)
    /\ reply[NextCall] = "readOnly"
    /\ running' = ReadOnlyRun(NextCall)
    /\ UNCHANGED <<history, store, sent, pc, mode, ctx, pre, turn, remaining, reply,
                   finished, aborted, answered, cancelled>>

\* Any other tool runs alone, and not when the turn has been cancelled.
StartAlone ==
    /\ pc = "tools" /\ BatchDone /\ NextCall <= Len(reply)
    /\ reply[NextCall] = "other"
    /\ \/ cancelled /\ Fail
       \/ /\ ~cancelled
          /\ running' = {NextCall}
          /\ UNCHANGED <<history, store, sent, pc, mode, ctx, pre, turn, remaining,
                         reply, finished, aborted, answered, cancelled>>

\* execute_tool_and_format: output, an error or the timeout as a message for
\* the model, or Err(Cancelled).
FinishTool(i) ==
    /\ i \in running
    /\ running' = running \ {i}
    /\ \/ finished' = finished \cup {i} /\ UNCHANGED aborted
       \/ cancelled /\ aborted' = aborted \cup {i} /\ UNCHANGED finished
    /\ UNCHANGED <<history, store, sent, pc, mode, ctx, pre, turn, remaining, reply,
                   answered, cancelled>>

\* The whole batch is back: push and store the results in call order...
PushResult ==
    /\ pc = "tools" /\ running = {} /\ NextCall \in finished
    /\ ctx' = Append(ctx, Result(NextCall))
    /\ mem' = Append(mem, Result(NextCall))
    /\ answered' = NextCall
    /\ finished' = finished \ {NextCall}
    /\ UNCHANGED <<history, upper, sent, pc, mode, pre, turn, remaining, reply,
                   running, aborted, cancelled>>

\* Mutant: an error in the batch is skipped and the loop goes on.
AbortBatchGoesOn ==
    /\ pc = "tools" /\ running = {}
    /\ NextCall \in finished \cup aborted
    /\ pc' = "top" /\ finished' = {} /\ aborted' = {}
    /\ UNCHANGED <<history, store, sent, mode, ctx, pre, turn, remaining, reply,
                   running, answered, cancelled>>

\* ... up to the first error, or until storing one fails.
AbortBatch ==
    /\ pc = "tools" /\ running = {}
    /\ NextCall \in finished \cup aborted
    /\ Fail

-----------------------------------------------------------------------------
(* The environment of the run.                                              *)

Cancel ==
    /\ pc # "idle" /\ ~cancelled
    /\ cancelled' = TRUE
    /\ UNCHANGED <<history, store, sent, pc, mode, ctx, pre, turn, remaining, reply,
                   batch, answered>>

\* drop_session_context, by the cleanup of an idle session.
DropSessionContext ==
    /\ history # <<>>
    /\ history' = <<>>
    /\ UNCHANGED <<store, sent, pc, mode, ctx, pre, turn, remaining, reply, batch,
                   answered, cancelled>>

\* The process ends; the memory database survives.
Crash ==
    /\ history' = <<>>
    /\ Idle
    /\ UNCHANGED <<store, sent, mode>>

RunStep ==
    \/ Recall \/ PersistTail \/ Top \/ Prepare
    \/ \E calls \in Replies, cost \in Costs : Reply(calls, cost)
    \/ FailHere \/ ToolsDone \/ StartBatch \/ StartAlone
    \/ \E i \in 1..Len(reply) : FinishTool(i)
    \/ PushResult \/ AbortBatch \/ Finish

Next == BeginTurn \/ RunStep \/ Panic \/ Cancel \/ DropSessionContext \/ Crash

Spec == Init /\ [][Next]_vars
\* The run is polled while it can go on; every provider and tool call is
\* under a timeout, so it comes back.  Nobody has to panic, cancel or crash.
FairSpec == Spec /\ WF_vars(RunStep)

-----------------------------------------------------------------------------
(* Properties.                                                              *)

\* Every tool call of s is answered, in order, right after the message that
\* made it, and no result stands anywhere else.
Answered(s) ==
    /\ \A i \in DOMAIN s : s[i].role = "assistant" =>
          \A k \in 1..Len(s[i].calls) : i + k \in DOMAIN s /\ s[i + k] = Result(k)
    /\ \A i \in DOMAIN s : s[i].role = "tool" =>
          /\ i > s[i].of
          /\ s[i - s[i].of].role = "assistant"
          /\ s[i].of <= Len(s[i - s[i].of].calls)

\* Neither the provider nor a later turn meets a dangling tool call, however
\* the run was cancelled, failed, panicked or crashed in between, unless its
\* policy enforces a budget: the reply that exhausts it is the result of the
\* run and is stored with its tool calls unanswered.
NoDanglingCalls ==
    mode # "enforce" =>
        /\ Answered(history)
        /\ pc \in {"top", "prepare", "provider"} => Answered(ctx)

\* A tool with side effects starts when every earlier call of the reply is
\* answered and stored, and runs alone, so that it sees their effects and
\* nothing runs beside it.
SideEffectsInOrder ==
    \A i \in running :
        reply[i] = "other" => running = {i} /\ answered = i - 1

\* What the run has generated is in memory, in order and with nothing in
\* between, whenever the provider is called or a tool runs.
LastUser == CHOOSE i \in DOMAIN ctx :
                ctx[i].role = "user" /\ \A j \in DOMAIN ctx : ctx[j].role = "user" => j <= i
GeneratedIsStored ==
    pc \in {"top", "prepare", "provider", "tools", "finish"} =>
        LET made == Len(ctx) - LastUser IN
        /\ Len(mem) >= made
        /\ SubSeq(mem, Len(mem) - made + 1, Len(mem))
              = SubSeq(ctx, LastUser + 1, Len(ctx))

\* A turn that does not finish leaves the history as it was before the turn,
\* also when the run had inserted the system prompt in front of it: a crash
\* empties it, and one that was evicted during the turn comes back without
\* anything of the turn.
FailedTurnKeepsHistory ==
    [][(pc \notin {"idle", "finish"} /\ pc' = "idle")
          => \/ history' \in {history, <<>>}
             \/ history = <<>> /\ \A i \in DOMAIN history' : history'[i] # User(sent)]_vars

\* Runs without a policy, and with one that enforces, make at most MaxTurns
\* provider calls, of which the last needs no tool results.
ProviderCallsBounded == Strict => turn <= MaxTurns

\* Every run ends, although the model may ask for tools for ever; where the
\* policy only observes, nothing in the loop stops it, and nothing is said.
RunEnds == (pc # "idle" /\ Strict) ~> (pc = "idle")

\* The history of a session can be sent to any provider at any time: calls are
\* answered, in the order of their side effects, everything generated is
\* stored, and the loop stops at its limit.
HistoryUsable ==
    /\ TypeOK /\ NoDanglingCalls /\ SideEffectsInOrder
    /\ GeneratedIsStored /\ ProviderCallsBounded

-----------------------------------------------------------------------------
(* The inductive invariant behind HistoryUsable and FailedTurnKeepsHistory.  *)

\* Up to position m every tool call is answered, within those positions.
AnsweredUpTo(s, m) ==
    \A i \in 1..m : s[i].role = "assistant" =>
        \A k \in 1..Len(s[i].calls) : i + k <= m /\ s[i + k] = Result(k)

\* Every result belongs to a call made by the message before the results.
ResultsPlaced(s) ==
    \A i \in 1..Len(s) : s[i].role = "tool" =>
        /\ i > s[i].of
        /\ s[i - s[i].of].role = "assistant"
        /\ s[i].of <= Len(s[i - s[i].of].calls)

\* Where this turn's message stands: after the messages before the turn, of
\* which there were none when the system prompt was inserted.
UserAt == IF pre = 0 THEN 2 ELSE pre + 1

\* The reply being handled ends the context, with the results pushed so far.
ReplyOpen ==
    LET at == Len(ctx) - answered IN
    /\ at > UserAt
    /\ ctx[at] = Assistant(reply)
    /\ \A k \in 1..answered : ctx[at + k] = Result(k)
    /\ mode # "enforce" => AnsweredUpTo(ctx, at - 1)

\* What follows the user's message is the end of the memory.
TailStored ==
    LET made == Len(ctx) - UserAt IN
    /\ made <= Len(mem)
    /\ \A k \in 1..made : mem[Len(mem) - made + k] = ctx[UserAt + k]

\* The context of a run: the history of before, the user's message, and what
\* this run has generated.
ContextOK ==
    /\ UserAt <= Len(ctx) /\ ctx[1] = System /\ ctx[UserAt] = User(sent)
    /\ \A i \in 1..Len(ctx) : ctx[i].role = "user" => i <= UserAt /\ ctx[i].nr <= sent
    /\ \A i \in 1..pre : ctx[i] # User(sent)
    /\ history = <<>> \/ history = SubSeq(ctx, 1, pre)
    /\ ResultsPlaced(ctx)
    /\ mode # "enforce" => AnsweredUpTo(ctx, pre)

\* What depends on where the run is.
PhaseOK ==
    /\ pc \in {"recall", "tail"} => Len(ctx) = UserAt
    /\ pc = "tools" => ReplyOpen
    /\ (pc # "tools" /\ mode # "enforce") => AnsweredUpTo(ctx, Len(ctx))
    /\ TailStored

\* What history a session may have: it begins with the system prompt and
\* holds no later turn.
Past(h) ==
    /\ h # <<>> => h[1] = System
    /\ \A i \in 1..Len(h) : h[i].role = "user" => h[i].nr <= sent
    /\ ResultsPlaced(h)
    /\ mode # "enforce" => AnsweredUpTo(h, Len(h))

LoopInv ==
    /\ TypeOK /\ SideEffectsInOrder /\ ProviderCallsBounded
    /\ pc # "tools" => BatchDone
    /\ Past(history)
    /\ pc # "idle" => ContextOK /\ PhaseOK

-----------------------------------------------------------------------------
(* Documented promises the code does not keep.                              *)

\* "Every message (user, assistant, tool result) is ... stored immediately
\* after it is generated": the user's message is stored when it is sent on.
UserMessageStored ==
    pc = "provider" => \E i \in DOMAIN mem : mem[i] = User(sent)

\* "Latest user message guarantee": the user's message is part of the
\* history the provider is given.
LatestUserMessageSent ==
    pc = "provider" => LastUser \in Unsummarized
=============================================================================
