------------------------------ MODULE MCRunner ------------------------------
\* The runner daemon and the configuration, which share no state, in one
\* model: `part` says which of them runs.
EXTENDS RunnerLifecycle, ConfigEditor, ConfigFiles, GuestBootstrap, LogFollow

VARIABLE part

MCVars == <<lifecycleVars, editorVars, confVars, bootVars, catalogVars, logVars, part>>

\* The parts that do not run are in one of their initial states.
MCInit ==
    /\ part \in {"daemon", "editor", "files", "boot", "layers", "catalog", "logs"}
    /\ LifecycleInit /\ sidecarAsked /\ (part # "daemon" => tier = "process")
    /\ (part # "daemon" \/ tier = "linux" => sock = 0)
    /\ (tier = "container" /\ sock # 0 => \E c \in Commanders : commands[c].pid = sock)
    /\ EditorInit /\ (part # "editor" => kind = "agent")
    /\ ConfInit /\ (part # "files" => userFiles["p"] /\ conf.users["u"] = "p" /\ conf.version = "1.0.1")
    /\ BootInit /\ ~catalogCache
    /\ (part # "layers" => hostEnv = NotSet /\ cliEnv = NotSet /\ \A f \in CfgFiles : vmFiles[f] = NoFile)
    /\ CatalogInit
    /\ (part # "catalog" => /\ \A f \in DOMAIN cacheFile : cacheFile[f] = Nothing
                            /\ \A p \in Processes : proc[p] = Fresh("start"))
    /\ LogInit /\ (part # "logs" => /\ \A f \in DOMAIN logFiles : logFiles[f] = <<>>
                                    /\ logRequest.streams = Streams /\ logRequest.since)

\* The parts that do not run.
MCRest ==
    /\ UNCHANGED part
    /\ IF part = "daemon" THEN TRUE ELSE UNCHANGED lifecycleVars
    /\ IF part = "editor" THEN TRUE ELSE UNCHANGED editorVars
    /\ IF part = "files" THEN TRUE ELSE UNCHANGED confVars
    /\ IF part \in {"boot", "layers"} THEN TRUE ELSE UNCHANGED bootVars
    /\ IF part = "catalog" THEN TRUE ELSE UNCHANGED catalogVars
    /\ IF part = "logs" THEN TRUE ELSE UNCHANGED logVars

\* Where the configuration comes from is looked at in guests that ask for nothing,
\* up to their reading it.
LayersNext ==
    /\ BootNext
    /\ boot'.at \in {"idle", "copied", "prepared", "launched", "loaded"}
    /\ boot'.at = "prepared" => boot'.envelope.asked = {} /\ boot'.shellEnv = {} /\ "TZ" \notin boot'.runtimeEnv

MCNext ==
    /\ MCRest
    /\ \/ part = "daemon" /\ LifecycleNext
       \/ part = "editor" /\ EditorNext
       \/ part = "files" /\ ConfNext
       \/ part = "boot" /\ BootNext /\ edits' = 0
       \/ part = "layers" /\ LayersNext
       \/ part = "catalog" /\ CatalogNext
       \/ part = "logs" /\ LogNext

\* The fairness of LifecycleSpec, where the daemon runs.
MCSpec ==
    /\ MCInit /\ [][MCNext]_MCVars
    /\ \A r \in Pids : WF_lifecycleVars(part = "daemon" /\ RunnerStep(r))
    /\ \A c \in Commanders : SF_lifecycleVars(part = "daemon" /\ CommandStep(c))

\* What is stored survives: no mask takes the place of a secret in the runner's and
\* the agents' files, in whatever order pages are saved; what a request that is alone
\* replaces is in a backup; and registered users have their files after it, unless
\* the pruning or the moving back of a file failed.
ConfigKept ==
    [](SecretsSurviveEditing /\ RegisteredUsersHaveFiles) /\ ReplacedConfigBackedUp

\* A guest runs with the configuration that the order of layers and profiles picks,
\* has the tools that its notes and agents name, and says if the shell or the browser
\* it was asked for is missing; it takes the catalogue that was fetched last, if one
\* process at a time wrote it.
GuestAsConfigured ==
    /\ [](GuestHasNearestConfig /\ NamedToolsRegistered /\ LostCapabilitiesReported)
    /\ LastFetchServes
=============================================================================
