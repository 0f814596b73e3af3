--------------------------- MODULE ContextBudget ----------------------------
(***************************************************************************)
(* What the runtime sends the model of a conversation that outgrows the    *)
(* model's window (crates/runtime/src/budget.rs): before every provider    *)
(* call the rolling summary is extended, then the request is put together  *)
(* from system messages, retrieved memory and as much history as fits.     *)
(*                                                                         *)
(* A message keeps its role, its size in tokens and the length of its text *)
(* in units of the three characters the rough estimate takes for a token;  *)
(* two messages with the same fields are equal, as Message's PartialEq     *)
(* finds them.  A conversation is followed up to its first refusal: the    *)
(* roll-back that follows one is in AgentLoop.                             *)
(***************************************************************************)
EXTENDS Naturals, SequencesExt, FiniteSetsExt

CONSTANTS
    Window,          \* max_context_tokens
    SafetyBuffer,    \* safety_buffer_tokens
    SchemaTokens,    \* tokens of the tools' schemas
    Sizes,           \* what a message may take
    RetrievedSizes,  \* what the retrieved snippets may take, 0 for none
    TriggerTokens,   \* trigger_ratio of the window
    TargetTokens,    \* target_ratio of the window
    SummaryMinTurns, \* summarization.min_turns
    MaxEntries,      \* messages one write adds to the summary (24 in the code)
    MaxDigest,       \* bound: entries that fit the summary's 4000 characters
    MaxConvo         \* bound: messages of a conversation

ASSUME WindowType ==
    /\ {Window, SafetyBuffer, SchemaTokens, TriggerTokens, TargetTokens,
        SummaryMinTurns, MaxConvo} \subseteq Nat
    /\ Sizes \subseteq Nat \ {0} /\ RetrievedSizes \subseteq Nat
    /\ MaxEntries \in 1..MaxDigest

VARIABLES
    convo,     \* context.messages; the first is the system prompt
    remembers, \* memory_retrieval is set
    covered,   \* upper_sequence of the stored summary, 0 without one
    digest,    \* the messages the summary's text names
    stage,     \* what the run does next
    sentView   \* the history positions and retrieved tokens of the last request

windowVars == <<convo, remembers, covered, digest, stage, sentView>>

KeepUnsummarized == 2 \* minimum_unsummarized_messages

Said(role, size) == [role |-> role, size |-> size, text |-> size]

\* A reply that only calls tools has no content; its arguments are its size.
CallingTools(size) == [role |-> "assistant", size |-> size, text |-> 0]

Total(sizes) == FoldLeft(LAMBDA a, b : a + b, 0, sizes)
Static == SchemaTokens + SafetyBuffer

\* The positions of the messages the summary does not stand for.
LeftHistory ==
    SelectSeq([i \in DOMAIN convo |-> i],
              LAMBDA i : convo[i].role # "system" /\ i > covered)
HistorySizes == [k \in DOMAIN LeftHistory |-> convo[LeftHistory[k]].size]

\* The system messages, the summary last.
SystemSizes == <<1>> \o (IF digest = <<>> THEN <<>> ELSE <<1>>)

Retrievable == IF remembers THEN RetrievedSizes ELSE {0}

-----------------------------------------------------------------------------
\* maybe_trigger_rolling_summary: how many of the oldest messages left go into
\* the summary so that the request comes down to the target.
SummarizeCount(total) ==
    LET Rest(n) == total - Total(SubSeq(HistorySizes, 1, n))
        enough == {n \in 0..Len(LeftHistory) :
                     Rest(n) <= TargetTokens \/ Len(LeftHistory) - n <= KeepUnsummarized}
    IN Min(enough)

\* compose_rolling_summary: the text so far, then the first messages of the
\* batch, the whole cut at its end.
ComposeSummary(earlier, batchOf) ==
    LET added == SubSeq(batchOf, 1, Min({MaxEntries, Len(batchOf)}))
        whole == earlier \o added
    IN SubSeq(whole, 1, Min({MaxDigest, Len(whole)}))

Summarize(retrieved) ==
    LET total == Total(SystemSizes) + Total(HistorySizes) + retrieved + Static
        n == SummarizeCount(total)
    IN /\ stage = "summarize"
       /\ stage' = "prepare"
       /\ IF /\ remembers /\ Len(convo) >= SummaryMinTurns
             /\ Len(LeftHistory) >= SummaryMinTurns
             /\ total > TriggerTokens /\ n > 0
          THEN /\ covered' = LeftHistory[n]
               /\ digest' = ComposeSummary(digest, SubSeq(LeftHistory, 1, n))
          ELSE UNCHANGED <<covered, digest>>
       /\ UNCHANGED <<convo, remembers, sentView>>

-----------------------------------------------------------------------------
TokensOf(sizes, chosen) == MapThenSumSet(LAMBDA k : sizes[k], chosen)

\* Mutant: the walk starts at the oldest message.
SelectOldestFirst(sizes, budget, used) ==
    IF used >= budget THEN {}
    ELSE CHOOSE chosen \in SUBSET DOMAIN sizes :
           \A k \in DOMAIN sizes :
             k \in chosen <=> used + TokensOf(sizes, chosen \cap 1..k-1) + sizes[k] <= budget

\* select_messages_within_budget: from the newest to the oldest, every message
\* that still fits with the newer ones chosen; one that does not is passed over.
SelectWithin(sizes, budget, used) ==
    IF used >= budget THEN {}
    ELSE CHOOSE chosen \in SUBSET DOMAIN sizes :
           \A k \in DOMAIN sizes :
             k \in chosen <=>
               used + TokensOf(sizes, chosen \cap k+1..Len(sizes)) + sizes[k] <= budget

\* Retrieved memory is added before the history is chosen, if it fits alone.
Added(retrieved) == IF Static + retrieved <= Window THEN retrieved ELSE 0

SystemChosen(retrieved) ==
    SelectWithin(SystemSizes, Window - Static - Added(retrieved), 0)
HistoryChosen(retrieved) ==
    SelectWithin(HistorySizes, Window - Static - Added(retrieved),
                 TokensOf(SystemSizes, SystemChosen(retrieved)))
KeptPositions(retrieved) ==
    {LeftHistory[k] : k \in HistoryChosen(retrieved)}

UsersLeft == {i \in Range(LeftHistory) : convo[i].role = "user"}

\* The latest user message is looked for among the chosen by equality.
LatestUserChosen(retrieved) ==
    UsersLeft # {} =>
        \E i \in KeptPositions(retrieved) : convo[i] = convo[Max(UsersLeft)]

Overfull(retrieved) ==
    Static + Added(retrieved) + TokensOf(SystemSizes, SystemChosen(retrieved))
        + TokensOf(HistorySizes, HistoryChosen(retrieved)) > Window

\* is_obviously_within_budget: three characters of text for a token, which
\* leaves out the arguments of tool calls.
ObviouslyWithin ==
    /\ Window > SafetyBuffer
    /\ Total([i \in DOMAIN convo |-> convo[i].text]) + SchemaTokens <= Window - SafetyBuffer

SendWhole ==
    /\ stage = "prepare" /\ ~remembers /\ ObviouslyWithin
    /\ sentView' = [kept |-> Range(LeftHistory), added |-> 0]
    /\ stage' = "provider"
    /\ UNCHANGED <<convo, remembers, covered, digest>>

SendSelected(retrieved) ==
    /\ stage = "prepare" /\ ~(~remembers /\ ObviouslyWithin)
    /\ Static <= Window /\ LatestUserChosen(retrieved) /\ ~Overfull(retrieved)
    /\ sentView' = [kept |-> KeptPositions(retrieved), added |-> Added(retrieved)]
    /\ stage' = "provider"
    /\ UNCHANGED <<convo, remembers, covered, digest>>

\* RuntimeError::BudgetExceeded
RefuseRequest(retrieved) ==
    /\ stage = "prepare" /\ ~(~remembers /\ ObviouslyWithin)
    /\ Static > Window \/ ~LatestUserChosen(retrieved) \/ Overfull(retrieved)
    /\ sentView' = [kept |-> {}, added |-> Added(retrieved)]
    /\ stage' = "refused"
    /\ UNCHANGED <<convo, remembers, covered, digest>>

-----------------------------------------------------------------------------
\* The loop around it: prompts, replies with or without calls, results.
Grow(m, next) ==
    /\ Len(convo) < MaxConvo
    /\ convo' = Append(convo, m) /\ stage' = next
    /\ UNCHANGED <<remembers, covered, digest, sentView>>

UserPrompts(size) == stage = "user" /\ Grow(Said("user", size), "summarize")
ModelAnswers(size) == stage = "provider" /\ Grow(Said("assistant", size), "user")
ModelCalls(size) == stage = "provider" /\ Grow(CallingTools(size), "tool")
ToolReturns(size) == stage = "tool" /\ Grow(Said("tool", size), "summarize")

WindowInit ==
    /\ convo = <<Said("system", 1)>> /\ remembers \in BOOLEAN
    /\ covered = 0 /\ digest = <<>> /\ stage = "user"
    /\ sentView = [kept |-> {}, added |-> 0]

WindowNext ==
    \/ \E size \in Sizes :
         UserPrompts(size) \/ ModelAnswers(size) \/ ModelCalls(size) \/ ToolReturns(size)
    \/ \E r \in Retrievable : Summarize(r) \/ SendSelected(r) \/ RefuseRequest(r)
    \/ SendWhole

WindowSpec == WindowInit /\ [][WindowNext]_windowVars

-----------------------------------------------------------------------------
\* A request that is sent holds the latest user message the summary does not
\* stand for: the newest of several equal ones, although the code compares
\* messages by their contents and passes over those that do not fit.
LatestPromptKept ==
    stage = "provider" /\ UsersLeft # {} => Max(UsersLeft) \in sentView.kept

\* A turn is refused for its size only when the system messages, the memory
\* added and the whole history left really exceed the window: a conversation
\* that fits is never refused, whatever the order messages are chosen in.
RefusedForCause ==
    stage = "refused" =>
        Static + sentView.added + Total(SystemSizes) + Total(HistorySizes) > Window

\* A message the summary stands for is named in it, until the summary's
\* limits (messages of a write, length of the text) are reached: extending the
\* summary never loses what an earlier one said.
ForgottenOnlyAtLimit ==
    {i \in 1..covered : convo[i].role # "system"} \subseteq Range(digest)
    \/ Len(digest) >= MaxEntries

\* What the context window cannot hold is dropped from its old end: the
\* prompt stays, a refusal has a cause, and what is forgotten was summarised
\* as far as a summary goes.
WindowKeepsPrompt == LatestPromptKept /\ RefusedForCause /\ ForgottenOnlyAtLimit
=============================================================================
