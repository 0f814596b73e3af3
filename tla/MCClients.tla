----------------------------- MODULE MCClients ------------------------------
\* Clients that wait for answers, by parts that share no state, in one model:
\* `part` says which of them runs.
EXTENDS Telegram, Tui, WebApp, ShellSession

VARIABLE part

Chat(what) == [chat |-> 1, what |-> what]
MCScripts ==
    {[messages |-> <<Chat("text"), Chat("text")>>, limit |-> 1],
     [messages |-> <<Chat("text"), Chat("cancel")>>, limit |-> 1],
     [messages |-> <<Chat("new"), Chat("switch"), Chat("cancelall")>>, limit |-> 2],
     [messages |-> <<Chat("media"), Chat("stranger"), Chat("help")>>, limit |-> 1]}
MCBudgets == {[page |-> 2, wizard |-> 0], [page |-> 0, wizard |-> 7]}

MCVars == <<telegramVars, tuiVars, webAppVars, shellVars, part>>

\* The parts that do not run are in one of their initial states.
MCInit ==
    /\ part \in {"telegram", "tui", "web", "shell"}
    /\ TelegramInit /\ (part # "telegram" => botScript.messages[1].what = "new")
    /\ TuiInit /\ ShellInit
    /\ WebAppInit /\ (part # "web" => clicks.page = 0)

\* The parts that do not run.
MCRest ==
    /\ UNCHANGED part
    /\ IF part = "telegram" THEN TRUE ELSE UNCHANGED telegramVars
    /\ IF part = "tui" THEN TRUE ELSE UNCHANGED tuiVars
    /\ IF part = "web" THEN TRUE ELSE UNCHANGED webAppVars
    /\ IF part = "shell" THEN TRUE ELSE UNCHANGED shellVars

MCNext ==
    /\ MCRest
    /\ \/ part = "telegram" /\ TelegramNext
       \/ part = "tui" /\ TuiNext
       \/ part = "web" /\ WebAppNext
       \/ part = "shell" /\ ShellNext

\* The fairness of the parts' own specifications, each where its part runs.
MCSpec ==
    /\ MCInit /\ [][MCNext]_MCVars
    /\ \A u \in UpdateNrs : /\ WF_telegramVars(part = "telegram" /\ TaskStep(u))
                            /\ WF_telegramVars(part = "telegram" /\ TurnEndStep(u))
    /\ WF_tuiVars(part = "tui" /\ (TryReconnect \/ ReadBeforeAck \/ ReadGatewayFrame \/ NoticeLoss))
    /\ WF_tuiVars(part = "tui" /\ GatewayHello) /\ WF_tuiVars(part = "tui" /\ ForwardEvent)
    /\ \A t \in TurnIds : WF_tuiVars(part = "tui" /\ TurnStep(t))
    /\ WF_shellVars(part = "shell" /\ ShellToolStep)
    /\ \A k \in 1..MaxSockets : WF_shellVars(part = "shell" /\ ShellDaemonStep(k))

\* A client that waits is answered: the bot's tasks end where split_message
\* returns, the terminal takes input again and calls of the shell return.
ClientsUnblocked == TasksEnd /\ InputUnblocked /\ ShellCallsReturn
=============================================================================
