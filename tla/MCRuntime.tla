------------------------------ MODULE MCRuntime ------------------------------
\* The components of the runtime and the providers that do not share state,
\* in one model: `part` says which of them runs.
EXTENDS AgentLoop, BudgetLedger, Delegation, ProviderStream, ProviderRequest, TurnStream,
        ContextBudget

VARIABLE part

MCGlobalLayers == {GlobalLayer(2, Unset, 1)}
MCAgentLayers == {DefaultAgent, AgentLayer({"a", Delegate}, 1, 1)}
MCRunLayers ==
    {RunLayer(1, 3, Unset, {"a"}, Unset, {"a", "b"}),
     RunLayer(Unset, Unset, Unset, Unset, Unset, Unset),
     RunLayer(Unset, 1, 1, Unset, {"b"}, {"a"}),
     RunLayer(4, 1, Unset, {"a", Delegate}, {"b"}, Unset)}
MCScheduleConfigs == {[turns |-> 2, cost |-> 1]}
MCRequests == {[turns |-> Unset, cost |-> 1], [turns |-> 1, cost |-> Unset]}
MCAnswers == {<<"text", "a", "b">>, <<"a", "text", "text">>}

ReadThenWrite == <<"readOnly", "readOnly", "other">>
WriteThenRead == <<"other", "readOnly">>
MCReplies == {<<>>, ReadThenWrite, WriteThenRead}

MCVars == <<vars, ledgerVars, delegationVars, streamVars, requestVars, flowVars, sdkVars,
            windowVars, part>>

\* The parts that do not run are in one of their initial states.
MCInit ==
    /\ part \in {"loop", "ledger", "delegation", "stream", "request", "flow", "sdk", "window"}
    /\ LedgerInit /\ DelegationInit /\ StreamInit /\ RequestInit
    /\ WindowInit /\ (part # "window" => remembers)
    /\ Init /\ (part # "loop" => mode = "none")
    /\ \/ part # "sdk" /\ FlowInit /\ NoSdkRun
       \/ part = "sdk" /\ SdkInit

MCNext ==
    /\ UNCHANGED part
    /\ \/ part = "loop" /\ Next
       \/ part # "loop" /\ UNCHANGED vars
    /\ \/ part = "ledger" /\ LedgerNext
       \/ part # "ledger" /\ UNCHANGED ledgerVars
    /\ \/ part = "delegation" /\ DelegationNext
       \/ part # "delegation" /\ UNCHANGED delegationVars
    /\ \/ part = "stream" /\ StreamNext
       \/ part # "stream" /\ UNCHANGED streamVars
    /\ \/ part = "request" /\ RequestNext
       \/ part # "request" /\ UNCHANGED requestVars
    /\ \/ part = "window" /\ WindowNext
       \/ part # "window" /\ UNCHANGED windowVars
    /\ \/ part = "flow" /\ FlowNext /\ UNCHANGED sdkVars
       \/ part = "sdk" /\ SdkNext
       \/ part \notin {"flow", "sdk"} /\ UNCHANGED <<flowVars, sdkVars>>

\* The fairness of the parts' own specifications, each where its part runs.
MCSpec ==
    /\ MCInit /\ [][MCNext]_MCVars
    /\ WF_vars(part = "loop" /\ RunStep)
    /\ WF_delegationVars(part = "delegation" /\ RunsStep)
    /\ WF_flowVars(part = "flow" /\ Scrub)
    /\ WF_flowVars(part = "flow" /\ Forward) /\ WF_flowVars(part = "flow" /\ LeaveLoop)
    /\ WF_flowVars(part = "flow" /\ Drain) /\ WF_flowVars(part = "flow" /\ Publish)
    /\ WF_flowVars(part = "flow" /\ EndPublishing)
    /\ WF_<<flowVars, sdkVars>>(part = "sdk" /\ ReportOutcome)
    /\ WF_<<flowVars, sdkVars>>(part = "sdk" /\ (ConvertOutcome \/ ConverterDies \/ ConvertItem))

\* Everything that is started ends: a run of the loop, a tree of delegated
\* runs, a turn's stream and the stream a caller of the SDK reads.
RuntimeCallsEnd == RunEnds /\ RunsEnd /\ TurnEnds /\ CallerStreamEnds
=============================================================================
