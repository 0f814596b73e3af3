----------------------------- MODULE Delegation -----------------------------
(***************************************************************************)
(* A run under its policy and the runs it delegates to: admission of a     *)
(* session's or a schedule's run, the limits checked around each provider  *)
(* call (crates/runtime/src/lib.rs), the policy and permission checks of a *)
(* tool call (crates/tools/src/registry.rs), and delegate_to_agent, which  *)
(* runs another agent inside the call (tools/src/delegation_tools.rs,      *)
(* runtime/src/delegation.rs).                                             *)
(*                                                                         *)
(* The effective policy of a run comes first: validation and               *)
(* strictest-wins merge of the global, agent and per-run layers            *)
(* (crates/types/src/policy_merge.rs, runtime/src/policy_guard.rs), the    *)
(* policy of a schedule (scheduler_executor.rs) and the one a delegated    *)
(* run inherits.  Costs are in micro-USD.                                  *)
(*                                                                         *)
(* delegate_to_agent is not read-only, so a run waits for its one child:   *)
(* the runs under way form a stack.                                        *)
(***************************************************************************)
EXTENDS Integers, Sequences

CONSTANTS
    Unset,    \* an Option that is None
    RunTools, \* names of the registered tools
    MaxWord   \* u32::MAX, u64::MAX: what a negative number has become

ASSUME PolicyConstants == Unset \notin Int /\ MaxWord \in Nat

\* RuntimeConfig, AgentDefinition, RunPolicyInput, as far as they limit a run.
GlobalLayer(turns, cost, timeout) == [turns |-> turns, cost |-> cost, timeout |-> timeout]
AgentLayer(tools, turns, cost) == [tools |-> tools, turns |-> turns, cost |-> cost]
DefaultAgent == AgentLayer(Unset, Unset, Unset)
RunLayer(turns, budget, secs, toolset, disallowed, auto) ==
    [turns |-> turns, budget |-> budget, runtime |-> secs,
     toolset |-> toolset, disallowed |-> disallowed, auto |-> auto]

Stricter(a, b) ==
    CASE a = Unset -> b
      [] b = Unset -> a
      [] OTHER -> IF a < b THEN a ELSE b
Given(s) == IF s = Unset THEN {} ELSE s

MergeMaxTurns(global, agent, run) ==
    Stricter(Stricter(global.turns, agent.turns), run.turns)

\* Without any limit the budget is zero.
MergeMaxBudget(global, agent, run) ==
    LET least == Stricter(Stricter(global.cost, agent.cost), run.budget) IN
    IF least = Unset THEN 0 ELSE least

MergeDeadline(global, run, turns, now) ==
    LET secs == Stricter(global.timeout * turns, run.runtime) IN
    IF secs > 0 THEN now + secs ELSE Unset

\* An absent or empty list allows everything.
AllowedBy(list) == IF Given(list) = {} THEN RunTools ELSE list

MergeToolPolicies(agent, run) ==
    LET allowed == RunTools \cap AllowedBy(agent.tools) \cap AllowedBy(run.toolset)
        tools == allowed \ Given(run.disallowed) IN
    [tools |-> tools, disallowed |-> Given(run.disallowed),
     auto |-> Given(run.auto) \cap tools]

\* EffectiveRunPolicy; rollout_mode is Enforce in every policy made here.
MergePolicy(global, agent, run, now) ==
    LET turns == MergeMaxTurns(global, agent, run)
        tools == MergeToolPolicies(agent, run) IN
    [turns |-> turns, budget |-> MergeMaxBudget(global, agent, run),
     deadline |-> MergeDeadline(global, run, turns, now), started |-> now,
     tools |-> tools.tools, disallowed |-> tools.disallowed, auto |-> tools.auto]

\* What a negative number would have become, and an explicit zero budget.
PerRunConstraintsValid(run) ==
    /\ run.turns # MaxWord
    /\ run.budget # Unset => run.budget # 0 /\ run.budget <= MaxWord \div 2
    /\ run.runtime # Unset => run.runtime <= MaxWord \div 2

\* Disallowed tools may be unknown ones.
ToolReferencesValid(run) == Given(run.toolset) \cup Given(run.auto) \subseteq RunTools

EffectiveValid(p) ==
    /\ p.tools # {}
    /\ p.deadline # Unset => p.deadline > p.started

Invalid == [error |-> TRUE]
ResolvePolicy(global, agent, run, now) ==
    LET merged == MergePolicy(global, agent, run, now) IN
    IF PerRunConstraintsValid(run) /\ ToolReferencesValid(run) /\ EffectiveValid(merged)
    THEN merged ELSE Invalid

\* resolve_schedule_policy: config's limits, the schedule's where they are
\* stricter, and config's alone when the schedule's policy is not valid.
\* Without a valid policy at all (no tools) the turn runs without one.
ScheduleGlobal(config) == GlobalLayer(config.turns, config.cost, 60)
ConfigBudget(config) == IF config.cost > 0 THEN config.cost ELSE Unset
ScheduleInput(config, run) ==
    [run EXCEPT !.turns = Stricter(@, config.turns),
                !.budget = IF @ = Unset THEN ConfigBudget(config) ELSE @]
ScheduleFallback(config) ==
    RunLayer(config.turns, ConfigBudget(config), Unset, Unset, Unset, Unset)
ResolveSchedulePolicy(config, run, now) ==
    LET own == ResolvePolicy(ScheduleGlobal(config), DefaultAgent,
                             ScheduleInput(config, run), now) IN
    IF own # Invalid THEN own
    ELSE ResolvePolicy(ScheduleGlobal(config), DefaultAgent, ScheduleFallback(config), now)

\* narrow_child_policy.  parent is the copy of the policy made when the
\* parent's run started, its remaining budget still the initial one.
NarrowChildPolicy(parent, agent, request, now) ==
    LET tools == IF agent.tools = Unset THEN parent.tools ELSE parent.tools \cap agent.tools IN
    [turns |-> Stricter(Stricter(parent.turns, agent.turns), request.turns),
     budget |-> Stricter(Stricter(agent.cost, request.cost), parent.budget),
     deadline |-> parent.deadline, started |-> now,
     tools |-> tools, disallowed |-> parent.disallowed, auto |-> parent.auto \cap tools]

\* p allows nothing that q does not allow, for no longer and for no more.
AtMost(a, b) == b # Unset => a # Unset /\ a <= b
AsStrictAs(p, q) ==
    /\ p.tools \subseteq q.tools /\ p.auto \subseteq q.auto
    /\ q.disallowed \subseteq p.disallowed
    /\ AtMost(p.turns, q.turns) /\ AtMost(p.deadline, q.deadline)
    /\ p.budget <= q.budget

-----------------------------------------------------------------------------
CONSTANTS
    GlobalLayers,   \* RuntimeConfigs
    AgentLayers,    \* AgentDefinitions
    RunLayers,      \* RunPolicyInputs of sessions and schedules
    ScheduleConfigs, \* SchedulerConfigs: turns and cost
    Requests,       \* limits of a delegate_to_agent call: turns and cost
    RunCosts,       \* what a provider call may cost
    MaxDelegationDepth, \* 5 in the code
    MaxClock        \* bound: seconds

ASSUME DelegationBounds ==
    /\ MaxDelegationDepth \in Nat /\ MaxClock \in Nat /\ RunCosts \subseteq Nat

\* The types of the configuration: limits are unsigned, and optional except
\* where the file's defaults fill them in.
Option(S) == S \cup {Unset}
ASSUME LayerTypes ==
    /\ \A g \in GlobalLayers : g.turns \in Nat /\ g.cost \in Option(Nat) /\ g.timeout \in Nat
    /\ \A a \in AgentLayers : a.turns \in Option(Nat) /\ a.cost \in Option(Nat)
    /\ \A r \in RunLayers :
         /\ r = RunLayer(r.turns, r.budget, r.runtime, r.toolset, r.disallowed, r.auto)
         /\ r.turns \in Option(Nat) /\ r.budget \in Option(Nat) /\ r.runtime \in Option(Nat)
    /\ \A c \in ScheduleConfigs : c.turns \in Nat /\ c.cost \in Nat
    /\ \A q \in Requests : q.turns \in Option(Nat) /\ q.cost \in Option(Nat)

Delegate == "delegate_to_agent"
ASSUME DelegateIsATool == Delegate \in RunTools

VARIABLES
    runs,     \* the stack of runs: policy, tools offered, turns, money spent
    layers,   \* what the root policy was made from
    asks,     \* the runtime has a permission handler
    executed, \* [tool, asked] of the tools executed under the root run
    clock

delegationVars == <<runs, layers, asks, executed, clock>>

NoLayers == [kind |-> "none"]

DelegationInit ==
    runs = <<>> /\ layers = NoLayers /\ asks = FALSE /\ executed = {} /\ clock = 0

Depth == Len(runs)
Current == runs[Depth]

\* filtered_schemas over the policy's toolset.
FilteredSchemas(p) == (RunTools \cap p.tools) \ p.disallowed

NewRun(p) == [policy |-> p, offered |-> FilteredSchemas(p), turn |-> 0,
              spent |-> 0, at |-> "top", call |-> Unset]

\* A run is admitted when its policy is valid.
Admit(p, from) ==
    /\ Depth = 0 /\ p # Invalid
    /\ runs' = <<NewRun(p)>> /\ layers' = from
    /\ asks' \in BOOLEAN /\ executed' = {}
    /\ UNCHANGED clock

\* run_turn with a policy: resolve_session_policy.
AdmitSession(global, agent, run) ==
    Admit(ResolvePolicy(global, agent, run, clock),
          [kind |-> "session", global |-> global, agent |-> agent, run |-> run])

AdmitSchedule(config, run) ==
    Admit(ResolveSchedulePolicy(config, run, clock),
          [kind |-> "schedule", config |-> config, run |-> run])

\* The current run is over, with a response or an error: a result for its
\* parent, whose tool call it was.
Pop ==
    /\ runs' = IF Depth <= 1 THEN <<>>
               ELSE [SubSeq(runs, 1, Depth - 1) EXCEPT ![Depth - 1].at = "top"]
    /\ UNCHANGED <<layers, asks, executed, clock>>

Update(run) ==
    /\ runs' = [runs EXCEPT ![Depth] = run]
    /\ UNCHANGED <<layers, asks, clock>>

Exhausted(run) == run.spent >= run.policy.budget
Expired(run) == run.policy.deadline # Unset /\ clock >= run.policy.deadline

\* The top of the loop: turn limit, then deadline.
StopAtTop ==
    /\ Depth > 0 /\ Current.at = "top"
    /\ Current.turn >= Current.policy.turns \/ Expired(Current)
    /\ Pop

\* Mutant: the deadline is not looked at again after admission.
CallProviderUntimed ==
    /\ Depth > 0 /\ Current.at = "top" /\ Current.turn < Current.policy.turns
    /\ Update([Current EXCEPT !.turn = @ + 1, !.at = "provider"]) /\ UNCHANGED executed

CallProvider ==
    /\ Depth > 0 /\ Current.at = "top"
    /\ Current.turn < Current.policy.turns /\ ~Expired(Current)
    /\ Update([Current EXCEPT !.turn = @ + 1, !.at = "provider"]) /\ UNCHANGED executed

\* The reply is settled whatever it cost.  One that exhausts the budget, or
\* asks for no tool, is the result; the model may name any tool.
SettleReply(cost) ==
    /\ Depth > 0 /\ Current.at = "provider"
    /\ LET paid == [Current EXCEPT !.spent = @ + cost] IN
       \/ Pop
       \/ /\ ~Exhausted(paid)
          /\ \E tool \in RunTools : Update([paid EXCEPT !.at = "tool", !.call = tool])
          /\ UNCHANGED executed

\* Disallowed by the policy, denied by the handler, or an error of the tool:
\* a message for the model.
ToolRefused ==
    /\ Depth > 0 /\ Current.at = "tool"
    /\ \/ Current.call \in Current.policy.disallowed
       \/ asks /\ Current.call \notin Current.policy.auto
       \/ Current.call = Delegate
    /\ Update([Current EXCEPT !.at = "top"]) /\ UNCHANGED executed

\* Past disallowed_tools and, unless auto-approved, the permission handler.
Permitted(run) == run.call \notin run.policy.disallowed
AskedFor(run) == asks /\ run.call \notin run.policy.auto

\* execute_with_policy_and_context.  The toolset is not looked at again.
ExecuteTool ==
    /\ Depth > 0 /\ Current.at = "tool" /\ Current.call # Delegate
    /\ Permitted(Current)
    /\ executed' = executed \cup {[tool |-> Current.call, asked |-> AskedFor(Current)]}
    /\ Update([Current EXCEPT !.at = "top"])

\* delegate, for a known agent and below the depth limit (counted in the
\* session id: one prefix for each ancestor).
DelegateRun(agent, request) ==
    /\ Depth > 0 /\ Current.at = "tool" /\ Current.call = Delegate
    /\ Permitted(Current)
    /\ Depth - 1 < MaxDelegationDepth
    /\ runs' = Append([runs EXCEPT ![Depth].at = "delegated"],
                      NewRun(NarrowChildPolicy(Current.policy, agent, request, clock)))
    /\ UNCHANGED <<layers, asks, executed, clock>>

\* The tool's timeout, or the turn timeout, of run i drops what it waits for.
TimeOutDelegate(i) ==
    /\ i < Depth
    /\ runs' = [SubSeq(runs, 1, i) EXCEPT ![i].at = "top"]
    /\ UNCHANGED <<layers, asks, executed, clock>>

\* The root's token is the parent of every token below, and the provider of
\* any run may fail: the error of the root ends everything.
CancelRuns ==
    /\ Depth > 0 /\ runs' = <<>>
    /\ UNCHANGED <<layers, asks, executed, clock>>

PassSecond ==
    /\ clock < MaxClock /\ clock' = clock + 1
    /\ UNCHANGED <<runs, layers, asks, executed>>

RunsStep ==
    \/ StopAtTop \/ CallProvider \/ ToolRefused \/ ExecuteTool
    \/ \E cost \in RunCosts : SettleReply(cost)
    \/ \E agent \in AgentLayers, request \in Requests : DelegateRun(agent, request)

DelegationNext ==
    \/ \E run \in RunLayers :
         \/ \E global \in GlobalLayers, agent \in AgentLayers : AdmitSession(global, agent, run)
         \/ \E config \in ScheduleConfigs : AdmitSchedule(config, run)
    \/ RunsStep \/ CancelRuns \/ PassSecond
    \/ \E i \in 1..Depth : TimeOutDelegate(i)

\* Provider and tool calls are under timeouts: a run that can go on does.
DelegationSpec ==
    DelegationInit /\ [][DelegationNext]_delegationVars /\ WF_delegationVars(RunsStep)

-----------------------------------------------------------------------------
(* Properties.                                                              *)

\* A delegated run may do nothing its ancestors may not: no more tools, no
\* more auto-approval, no tool given back, no later deadline, not more turns,
\* not a larger budget, at any depth and whatever agents are on the way.
DelegationNarrows ==
    \A i \in 1..Depth, j \in 1..Depth :
        i < j => AsStrictAs(runs[j].policy, runs[i].policy)

\* The tree of runs is never deeper than the limit.
DelegationDepthBounded == Depth <= MaxDelegationDepth + 1

\* No tool the root's policy disallows is executed anywhere in the tree, and
\* with a permission handler only what the root auto-approves goes unasked.
ToolsWithinRootPolicy ==
    Depth > 0 =>
        \A e \in executed :
            /\ e.tool \notin runs[1].policy.disallowed
            /\ asks /\ ~e.asked => e.tool \in runs[1].policy.auto

\* A run makes no call to the provider after its deadline or its turns, nor,
\* beyond the first, with its budget spent.
ProviderCallsWithinLimits ==
    [][\A i \in 1..Len(runs) :
         (i <= Len(runs') /\ runs'[i].turn = runs[i].turn + 1) =>
            /\ runs[i].turn < runs[i].policy.turns
            /\ runs[i].policy.deadline # Unset => clock < runs[i].policy.deadline
            /\ runs[i].turn > 0 => runs[i].spent < runs[i].policy.budget]_delegationVars

\* The root's policy against the layers it was made from: no layer that says
\* something is exceeded, and a schedule never exceeds the scheduler's limits,
\* its own ones being dropped when they are not valid.
RootWithinLayers ==
    Depth > 0 =>
        LET p == runs[1].policy IN
        /\ layers.kind = "session" =>
             /\ AtMost(p.turns, layers.global.turns) /\ AtMost(p.turns, layers.agent.turns)
             /\ AtMost(p.turns, layers.run.turns)
             /\ AtMost(p.budget, layers.global.cost) /\ AtMost(p.budget, layers.agent.cost)
             /\ AtMost(p.budget, layers.run.budget)
             /\ p.tools # {} /\ p.auto \subseteq p.tools
             /\ p.tools \cap Given(layers.run.disallowed) = {}
             /\ \A list \in {layers.agent.tools, layers.run.toolset} :
                  Given(list) # {} => p.tools \subseteq list
        /\ layers.kind = "schedule" =>
             AtMost(p.turns, layers.config.turns) /\ AtMost(p.budget, layers.config.cost)

\* Every tree of runs comes to an end, although each run may delegate again
\* in every turn.
RunsEnd == (runs # <<>>) ~> (runs = <<>>)

\* Each run of a tree, taken alone, has no wider limits than its root, whose
\* limits are within every layer they were merged from, and keeps them: turns,
\* deadline, budget, disallowed and auto-approved tools; and the tree is no
\* deeper than it may be.  What the runs of a tree spend together, and the
\* tools the root was not offered, are not limited: see the two definitions
\* below.
DelegationConfined ==
    /\ [](DelegationNarrows /\ DelegationDepthBounded /\ ToolsWithinRootPolicy /\ RootWithinLayers)
    /\ ProviderCallsWithinLimits

\* "Budget cascading is strict: the sum of all subagent budgets cannot exceed
\* the parent's remaining budget".  A child gets the parent's whole budget,
\* and what it spends is not deducted.
BudgetCascades ==
    \A i \in 1..(Depth - 1) :
        runs[i + 1].policy.budget <= (runs[i].policy.budget - runs[i].spent)

\* "Subagent tool registries are always subsets of the parent's tools".  The
\* toolset decides what is offered, and a tool that was not is executed.
ToolsWithinToolset == Depth > 0 => \A e \in executed : e.tool \in runs[1].policy.tools

-----------------------------------------------------------------------------
(* The inductive invariant behind DelegationConfined.                       *)

Policies == [turns : Nat, budget : Nat, deadline : Option(Nat), started : Nat,
             tools : SUBSET RunTools, auto : SUBSET RunTools,
             disallowed : {Given(r.disallowed) : r \in RunLayers} \cup {{}}]
Runs == [policy : Policies, offered : SUBSET RunTools, turn : Nat, spent : Nat,
         at : {"top", "provider", "tool", "delegated"}, call : RunTools \cup {Unset}]

\* A run has money left wherever it may go on from, except before its first
\* turn; what waits for a child is everything below the top of the stack.
RunOK(r) ==
    \/ r.at = "provider"
    \/ r.at = "top" /\ r.turn = 0
    \/ r.spent < r.policy.budget
StackOK(q) ==
    /\ q \in Seq(Runs) /\ Len(q) <= MaxDelegationDepth + 1
    /\ \A i \in 1..Len(q) : RunOK(q[i]) /\ (q[i].at = "delegated" <=> i < Len(q))
    /\ \A i, j \in 1..Len(q) : i < j => AsStrictAs(q[j].policy, q[i].policy)

DelegationInv ==
    /\ StackOK(runs) /\ asks \in BOOLEAN /\ clock \in Nat
    /\ ToolsWithinRootPolicy /\ RootWithinLayers
=============================================================================
