---------------------------- MODULE GuestBootstrap ----------------------------
(***************************************************************************)
(* From the host's configuration to a serving guest: the layered agent     *)
(* configuration and its copy into the user's workspace                    *)
(* (crates/runner/src/bootstrap.rs, lib.rs), the environment the guest is  *)
(* given, and the guest's bootstrap: provider and model catalog, memory,   *)
(* tools and their availability, scheduler, agents, sessions and channels  *)
(* (bootstrap.rs, crates/tools/src/registry.rs, bin/oxydra-vm.rs).         *)
(*                                                                         *)
(* The configuration is one value that every layer may set, a file at its  *)
(* top, in its [global] table, or to no effect beside the table of a       *)
(* profile; files change between the runner's reading them and the guest's. *)
(* The tier is one that has sidecars: a guest of the process tier reads the *)
(* host's files itself.                                                    *)
(***************************************************************************)
EXTENDS Naturals, Sequences, SequencesExt, TLC

CONSTANT MaxEdits   \* edits of the host's files

VARIABLES
    hostFiles,    \* <<directory, file>> -> what it sets, on the host
    vmFiles,      \* file -> what it sets, in the workspace's .oxydra
    hostEnv,      \* value of the OXYDRA__ variables on the host
    cliEnv,       \* value of the OXYDRA__ variables given with -e
    edits,
    catalogCache, \* there is a cached model catalog
    boot          \* the start under way

bootVars == <<hostFiles, vmFiles, hostEnv, cliEnv, edits, catalogCache, boot>>

NotSet == "not set"
Default == "default"
Dirs == <<"system", "user", "home", "workspace">>
CfgFiles == {"agent", "providers"}
CfgFile(place, value) == [place |-> place, value |-> value]
NoFile == CfgFile("default", NotSet)

BootInit ==
    /\ hostFiles = [f \in ToSet(Dirs) \X CfgFiles |-> NoFile]
    /\ vmFiles \in [CfgFiles -> {NoFile, CfgFile("global", "left")}]
    /\ hostEnv \in {NotSet, "host"} /\ cliEnv \in {NotSet, "cli"}
    /\ edits = 0
    /\ catalogCache \in BOOLEAN
    /\ boot = [at |-> "idle"]

\* Every edit writes another value.
EditHostFile ==
    /\ edits < MaxEdits /\ boot.at \in {"idle", "copied"}
    /\ edits' = edits + 1
    /\ \E f \in DOMAIN hostFiles, place \in {"default", "global", "beside"} :
         hostFiles' = [hostFiles EXCEPT ![f] = CfgFile(place, ToString(edits'))]
    /\ UNCHANGED <<vmFiles, hostEnv, cliEnv, catalogCache, boot>>

-----------------------------------------------------------------------------
\* A layer that sets the value wins over those before it.
Over(value, layer) == IF layer = NotSet THEN value ELSE layer

\* A file's value at one of the two places that count.
At(file, place) == IF file.place = place THEN file.value ELSE NotSet

\* merge_directory: agent.toml, then providers.toml, into the default profile or,
\* where file_uses_profiles, into the profiles its tables name.
MergeFile(profiles, file) == [place \in DOMAIN profiles |-> Over(profiles[place], At(file, place))]
MergeDirectory(profiles, agent, providers) == MergeFile(MergeFile(profiles, agent), providers)

\* Figment's merge of the environment, which goes into the default profile, and
\* its select("default").extract(), where the global profile wins.
Defaults == [default |-> Default, global |-> NotSet]
Extract(profiles, env) == Over(Over(profiles.default, env), profiles.global)

\* load_agent_config_with_paths on the host: system, user, home, workspace,
\* then the environment.
HostConfig ==
    Extract(FoldLeft(LAMBDA p, d : MergeDirectory(p, hostFiles[<<d, "agent">>], hostFiles[<<d, "providers">>]),
                     Defaults, Dirs),
            hostEnv)

\* The files as they are now, the nearest last.
HostLayers ==
    FlattenSeq([i \in DOMAIN Dirs |-> <<hostFiles[<<Dirs[i], "agent">>], hostFiles[<<Dirs[i], "providers">>]>>])

\* copy_agent_config_to_workspace_with_paths: the merged value as the only file.
CopyConfig ==
    /\ boot.at = "idle"
    /\ vmFiles' = [agent |-> CfgFile("default", HostConfig), providers |-> NoFile]
    /\ boot' = [at |-> "copied", layers |-> HostLayers]
    /\ UNCHANGED <<hostFiles, hostEnv, cliEnv, edits, catalogCache>>

Go(next) == boot' = next
StopBoot == Go([at |-> "failed"])

-----------------------------------------------------------------------------
\* resolve_requested_capabilities: what the configuration enables and the
\* user's overrides do not disable.
Requested(enabled, allowed) == enabled \cap allowed

\* find_available_port: the first of the range that can be bound, if any.
Ports == {"none", "free"}

\* split_cli_container_env: SHELL_X goes to the shell's guest as X, the rest to
\* the runtime's, TZ to both.
CliRuntimeEnv(cli) == {e.name : e \in {x \in cli : ~x.shell}}
CliShellEnv(cli) == {e.name : e \in {x \in cli : x.shell \/ x.name = "TZ"}}

\* ensure_timezone_env: the user's time zone, if any, where no other was given.
WithTimezone(env, timezone) == IF timezone THEN env \cup {"TZ"} ELSE env

\* The variables that are set for the runner.
RunnerVars == {"API_KEY", "BOT_TOKEN", "SHARED"}

\* collect_channel_bot_token_env_vars: the token, unless -e gives it.
BotTokenEnv(cli) == ({"BOT_TOKEN"} \ CliRuntimeEnv(cli)) \cap RunnerVars

\* collect_shell_config_env_keys: the variables env_keys names that are set.
ShellKeysEnv(keys) == keys \cap RunnerVars

\* build_browser_env: for the shell's guest, and what the runtime's is told of it.
BrowserEnv(asked, port) ==
    IF "browser" \in asked /\ port = "free" THEN {"BROWSER_ENABLED", "BRIDGE_TOKEN"} ELSE {}
PinchtabEnv(browser) == IF browser = {} THEN {} ELSE {"PINCHTAB_URL", "BRIDGE_TOKEN"}

\* write_shell_overlay and apply_browser_shell_overlay: the commands the
\* browser's tool runs are allowed in the copied configuration.
ShellAllows(asked, port) == IF BrowserEnv(asked, port) = {} THEN {} ELSE {"curl"}

\* build_startup_status_report in a tier that has sidecars.
RunnerStatus(asked, sidecar) ==
    [available |-> IF sidecar THEN asked ELSE {}, degraded |-> asked # {} /\ ~sidecar]

\* write_bootstrap_file: what the guest is told, before the sidecar is launched.
Envelope(asked, port) ==
    [asked |-> asked, port |-> port, allows |-> ShellAllows(asked, port),
     status |-> RunnerStatus(asked, asked # {})]

CliEnvs == {{}, {[shell |-> FALSE, name |-> "BOT_TOKEN"], [shell |-> FALSE, name |-> "TZ"]},
            {[shell |-> TRUE, name |-> "SHARED"]}}

\* start_user_for_host from the copy to the launch: environments, browser and
\* the envelope, which says that the sidecar will be there.
PrepareLaunch ==
    /\ boot.at = "copied"
    /\ \E enabled, allowed \in SUBSET {"shell", "browser"}, port \in Ports,
           cli \in CliEnvs, keys \in {{}, {"SHARED", "UNSET"}}, timezone \in BOOLEAN :
         LET asked == Requested(enabled, allowed)
             browser == BrowserEnv(asked, port)
         IN /\ "browser" \notin asked => port = "none"
            /\ Go([at |-> "prepared", layers |-> boot.layers,
                   envelope |-> Envelope(asked, port),
                   runtimeEnv |-> WithTimezone({"API_KEY"} \cup BotTokenEnv(cli) \cup CliRuntimeEnv(cli), timezone)
                                  \cup PinchtabEnv(browser),
                   shellEnv |-> WithTimezone(ShellKeysEnv(keys) \cup CliShellEnv(cli), timezone) \cup browser])
    /\ UNCHANGED <<hostFiles, vmFiles, hostEnv, cliEnv, edits, catalogCache>>

\* The launch: a sidecar that does not start only degrades it.
LaunchGuests ==
    /\ boot.at = "prepared"
    /\ \E sidecar \in BOOLEAN :
         /\ sidecar => boot.envelope.asked # {}
         /\ Go([at |-> "launched", layers |-> boot.layers, envelope |-> boot.envelope,
                reported |-> RunnerStatus(boot.envelope.asked, sidecar), sidecar |-> sidecar,
                pinchtab |-> "PINCHTAB_URL" \in boot.runtimeEnv,
                token |-> "BRIDGE_TOKEN" \in boot.runtimeEnv \cap boot.shellEnv])
    /\ UNCHANGED <<hostFiles, vmFiles, hostEnv, cliEnv, edits, catalogCache>>

\* The guest loads its files, and the variables of its own environment.
LoadConfig ==
    /\ boot.at = "launched"
    /\ Go([boot EXCEPT !.at = "loaded"]
          @@ [config |-> Extract(MergeDirectory(Defaults, vmFiles["agent"], vmFiles["providers"]), cliEnv)])
    /\ UNCHANGED <<hostFiles, vmFiles, hostEnv, cliEnv, edits, catalogCache>>

\* resolve_model_catalog: the cache, else a fetch that is kept, else the
\* catalog that is compiled in.
ResolveCatalog ==
    /\ boot.at = "loaded"
    /\ \E fetched \in BOOLEAN : catalogCache' = (catalogCache \/ fetched)
    /\ Go([boot EXCEPT !.at = "catalog"])
    /\ UNCHANGED <<hostFiles, vmFiles, hostEnv, cliEnv, edits>>

\* build_reliable_provider_for_selection: an unknown model is an error unless
\* validation is skipped, when a descriptor is made up.
BuildProvider ==
    /\ boot.at = "catalog"
    /\ \E listed, skips \in BOOLEAN :
         IF listed \/ skips THEN Go([boot EXCEPT !.at = "provider"]) ELSE StopBoot
    /\ UNCHANGED <<hostFiles, vmFiles, hostEnv, cliEnv, edits, catalogCache>>

\* build_memory_backend: none, one, or an error.
BuildMemory ==
    /\ boot.at = "provider"
    /\ \E memory \in {"off", "on", "error"} :
         IF memory = "error" THEN StopBoot
         ELSE Go([at |-> "memory", memory |-> memory = "on", envelope |-> boot.envelope,
                  reported |-> boot.reported, sidecar |-> boot.sidecar, pinchtab |-> boot.pinchtab,
                  token |-> boot.token])
    /\ UNCHANGED <<hostFiles, vmFiles, hostEnv, cliEnv, edits, catalogCache>>

\* ToolAvailability::startup_status: a capability is there if it was announced
\* and the session is; each one that is not is a reason for being degraded.
GuestStatus(announced, connected) ==
    LET there == IF connected THEN announced ELSE {}
    IN [available |-> there, degraded |-> there # {"shell", "browser"}]

\* bootstrap_runtime_tools: the shell tool if the runner announced it before
\* launching the sidecar, the browser if the sidecar was reached as well.
BootstrapTools ==
    /\ boot.at = "memory"
    /\ \E connected \in BOOLEAN :
         /\ connected => boot.sidecar
         /\ LET announced == boot.envelope.status.available
            IN Go([at |-> "tools", memory |-> boot.memory, reported |-> boot.reported,
                   envelope |-> boot.envelope, session |-> connected, pinchtab |-> boot.pinchtab, token |-> boot.token,
                   status |-> GuestStatus(announced, connected),
                   tools |-> {"file_read", "skill_create"}
                       \cup {t \in {"shell_exec"} : "shell" \in announced}
                       \cup {t \in {"browser"} : /\ "browser" \in announced
                                                 /\ boot.envelope.port = "free" /\ connected}
                       \cup {t \in {"memory_search"} : boot.memory}])
    /\ UNCHANGED <<hostFiles, vmFiles, hostEnv, cliEnv, edits, catalogCache>>

\* The scheduler needs memory, and a connection of its own.
BuildScheduler ==
    /\ boot.at = "tools"
    /\ \E enabled, connected \in BOOLEAN :
         LET store == enabled /\ boot.memory /\ connected
         IN Go([boot EXCEPT !.at = "scheduler", !.tools = @ \cup {t \in {"schedule_create"} : store}]
               @@ [store |-> store])
    /\ UNCHANGED <<hostFiles, vmFiles, hostEnv, cliEnv, edits, catalogCache>>

\* The tools of an agent's definition are registered, delegation not yet.
AgentToolsKnown(wanted) == wanted \subseteq boot.tools

ValidateAgents ==
    /\ boot.at = "scheduler"
    /\ \E wanted \in {{}, {"memory_search"}, {"schedule_create"}, {"delegate_to_agent"}} :
         IF AgentToolsKnown(wanted)
         THEN Go([boot EXCEPT !.at = "agents", !.tools = @ \cup {"delegate_to_agent"}] @@ [named |-> wanted])
         ELSE StopBoot
    /\ UNCHANGED <<hostFiles, vmFiles, hostEnv, cliEnv, edits, catalogCache>>

\* load_and_render_skills: the built-in skill, if the shell is ready and the
\* variable it asks for is set, tells how to use the browser's tool and curl.
ActiveSkills == {t \in {"browser", "shell_exec"} : "shell" \in boot.status.available /\ boot.pinchtab}

\* The tools build_system_prompt describes.
PromptNotes ==
    {t \in {"memory_search"} : boot.memory} \cup {t \in {"schedule_create"} : boot.store} \cup ActiveSkills

\* The prompt, and the session store on a connection of its own.
BuildPrompt ==
    /\ boot.at = "agents"
    /\ \E connected \in BOOLEAN :
         Go([boot EXCEPT !.at = "prompt", !.named = @ \cup PromptNotes]
            @@ [sessions |-> boot.memory /\ connected, sender |-> FALSE, adapter |-> FALSE, executor |-> FALSE])
    /\ UNCHANGED <<hostFiles, vmFiles, hostEnv, cliEnv, edits, catalogCache>>

\* The Telegram sender if there is a token, the adapter if sessions are kept.
StartChannels ==
    /\ boot.at = "prompt"
    /\ \E enabled, token \in BOOLEAN :
         Go([boot EXCEPT !.at = "channels", !.sender = enabled /\ token,
                         !.adapter = enabled /\ token /\ boot.sessions])
    /\ UNCHANGED <<hostFiles, vmFiles, hostEnv, cliEnv, edits, catalogCache>>

\* The scheduler's executor, then the gateway's listener and its marker.
Serve ==
    /\ boot.at = "channels"
    /\ Go([boot EXCEPT !.at = "serving", !.executor = boot.store])
    /\ UNCHANGED <<hostFiles, vmFiles, hostEnv, cliEnv, edits, catalogCache>>

\* The guest ends; the next start finds the files it left.
EndGuest ==
    /\ boot.at \in {"serving", "failed"}
    /\ Go([at |-> "idle"])
    /\ UNCHANGED <<hostFiles, vmFiles, hostEnv, cliEnv, edits, catalogCache>>

BootNext ==
    \/ EditHostFile \/ CopyConfig \/ PrepareLaunch \/ LaunchGuests \/ LoadConfig \/ ResolveCatalog \/ BuildProvider \/ BuildMemory
    \/ BootstrapTools \/ BuildScheduler \/ ValidateAgents \/ BuildPrompt \/ StartChannels \/ Serve \/ EndGuest

BootSpec == BootInit /\ [][BootNext]_bootVars

-----------------------------------------------------------------------------
\* The last of a sequence of values that is set.
LastSet(values) ==
    LET set == {i \in DOMAIN values : values[i] # NotSet}
    IN values[CHOOSE i \in set : \A j \in set : j <= i]

\* A guest runs with what -e says, else with the [global] table of the nearest
\* file that has one, else with the host's environment, else with the nearest file
\* (workspace, home, user, system; providers.toml before agent.toml), as they were
\* when the runner read them and whatever an earlier start left.
GuestHasNearestConfig ==
    boot.at = "loaded" =>
        LET InFiles(place) == [i \in DOMAIN boot.layers |-> At(boot.layers[i], place)]
        IN boot.config =
             LastSet(<<Default>> \o InFiles("default") \o <<hostEnv>> \o InFiles("global") \o <<cliEnv>>)

\* What docs/COMPARISON.md says: the layers one over the other, the environment
\* over every file.
LayersByPrecedence ==
    boot.at = "loaded" =>
        LET InFile(f) == IF f.place = "beside" THEN NotSet ELSE f.value
        IN boot.config =
             LastSet(<<Default>> \o [i \in DOMAIN boot.layers |-> InFile(boot.layers[i])] \o <<hostEnv, cliEnv>>)

\* The notes of a serving guest's prompt, its agents and the built-in skill name
\* only tools it has registered, whichever of memory, scheduler, sidecar and
\* browser could not be had.
NamedToolsRegistered ==
    boot.at = "serving" => boot.named \subseteq boot.tools

\* A serving guest without the shell or the browser that was asked for says so, the
\* daemon too if the sidecar did not start, and a tool that works is not reported as
\* missing: the envelope's status, written before the launch, is corrected.  A
\* browser that works has its token on both sides and its commands allowed.  The
\* exception is a browser for which no port was free; of that, and of a scheduler
\* or a session store that could not be built, only the log tells.
LostCapabilitiesReported ==
    boot.at = "serving" =>
        LET works == {c \in {"shell"} : "shell_exec" \in boot.tools /\ boot.session}
                     \cup ({"browser"} \cap boot.tools)
            portless == {c \in {"browser"} : boot.envelope.port = "none"}
        IN /\ boot.envelope.asked \ portless \subseteq works \/ boot.status.degraded
           /\ works \subseteq boot.status.available
           /\ works \subseteq boot.reported.available
           /\ boot.reported.available # boot.envelope.asked => boot.reported.degraded /\ boot.status.degraded
           /\ "browser" \in works => "curl" \in boot.envelope.allows /\ boot.token

-----------------------------------------------------------------------------
(***************************************************************************)
(* The model catalog that the guest resolves on its way: the cache files   *)
(* and the snapshot that is compiled in (crates/types/src/model.rs), the   *)
(* processes that look it up when they start (bootstrap.rs), and what      *)
(* refreshes it: the command line (crates/runner/src/catalog.rs) and the   *)
(* web configurator (crates/runner/src/web/catalog_api.rs).  They share    *)
(* the cache of the user and write it in place.                            *)
(*                                                                         *)
(* A catalog is the version of models.dev it was fetched from, 1 for the   *)
(* snapshot, and as long as its number.  0 is no version: a file that is   *)
(* missing or that does not parse.                                         *)
(***************************************************************************)
CONSTANTS
    Processes,   \* starting guests and refreshing commands
    Upstream     \* the versions of models.dev, 1 is the snapshot's

ASSUME UpstreamVersions == Upstream \subseteq Nat \ {0} /\ 1 \in Upstream

VARIABLES
    cacheFile,  \* "user", "workspace" -> [version, size]
    proc,       \* process -> [at, role, catalog]
    overlap,    \* the user's cache was opened while another process had it open
    settled     \* what was written last to it, by a process that had it alone, or 0

catalogVars == <<cacheFile, proc, overlap, settled>>

Nothing == [version |-> 0, size |-> 0]
WholeFile(v) == [version |-> v, size |-> v]
Fresh(role) == [at |-> "idle", role |-> role, catalog |-> 1]

CatalogInit ==
    /\ cacheFile \in [{"user", "workspace"} -> {Nothing, WholeFile(1)}]
    /\ proc \in [Processes -> {Fresh("start"), Fresh("refresh")}]
    /\ overlap = FALSE /\ settled = cacheFile["user"].version

-----------------------------------------------------------------------------
\* from_file: what does not parse is passed over.
Parses(f) == f.version # 0

\* load_from_cache: the user's cache, then the workspace's.
Cached == {c \in {"user", "workspace"} : Parses(cacheFile[c])}
FromCache == cacheFile[IF "user" \in Cached THEN "user" ELSE "workspace"]

ProcStep(p, next) == proc' = [proc EXCEPT ![p] = next]
ReadStep(p, next) == ProcStep(p, next) /\ UNCHANGED <<cacheFile, overlap, settled>>

\* resolve_model_catalog: the cache, ...
LookUp(p) ==
    /\ proc[p].at = "idle" /\ proc[p].role = "start"
    /\ ReadStep(p, IF Cached # {} THEN [proc[p] EXCEPT !.at = "resolved", !.catalog = FromCache.version]
                   ELSE [proc[p] EXCEPT !.at = "fetch"])

BeginRefresh(p) ==
    /\ proc[p].at = "idle" /\ proc[p].role = "refresh"
    /\ ReadStep(p, [proc[p] EXCEPT !.at = "fetch"])

\* ... else models.dev, whose answer must parse: a starting process falls
\* back to the snapshot, a refresh fails.
Fetch(p) ==
    /\ proc[p].at = "fetch"
    /\ \/ \E v \in Upstream : ReadStep(p, [proc[p] EXCEPT !.at = "open", !.catalog = v])
       \/ ReadStep(p, [proc[p] EXCEPT !.at = IF proc[p].role = "start" THEN "resolved" ELSE "failed",
                                      !.catalog = 1])

\* fs::write opens the file, which truncates it, ...
Opened(p) == overlap' = (\E q \in Processes \ {p} : proc[q].at = "write") /\ settled' = 0
\* Mutant: what is longer than the new contents stays.
OpenCacheUncut(p) ==
    /\ proc[p].at = "open" /\ UNCHANGED cacheFile
    /\ Opened(p) /\ ProcStep(p, [proc[p] EXCEPT !.at = "write"])
OpenCache(p) ==
    /\ proc[p].at = "open" /\ cacheFile' = [cacheFile EXCEPT !["user"] = Nothing]
    /\ Opened(p) /\ ProcStep(p, [proc[p] EXCEPT !.at = "write"])

\* ... and writes from its beginning: of what another process has written since,
\* the rest stays.
Written(f, v) == IF f.size > v THEN [version |-> 0, size |-> f.size] ELSE WholeFile(v)
FillCache(p) ==
    /\ proc[p].at = "write"
    /\ cacheFile' = [cacheFile EXCEPT !["user"] = Written(@, proc[p].catalog)]
    /\ settled' = IF overlap THEN 0 ELSE proc[p].catalog
    /\ ProcStep(p, [proc[p] EXCEPT !.at = IF proc[p].role = "start" THEN "resolved" ELSE "report"])
    /\ UNCHANGED overlap

\* It fails, which a starting process only logs, or the process is killed at it;
\* some of it may have been written.
PartlyWritten(f, size) == IF size = 0 THEN f ELSE [version |-> 0, size |-> IF f.size > size THEN f.size ELSE size]
WriteFails(p) ==
    /\ proc[p].at \in {"open", "write"}
    /\ \E size \in 0..(proc[p].catalog - 1), end \in {"resolved", "failed"} :
         /\ proc[p].at = "open" => size = 0
         /\ proc[p].role = "refresh" => end = "failed"
         /\ cacheFile' = [cacheFile EXCEPT !["user"] = PartlyWritten(@, size)]
         /\ ProcStep(p, [proc[p] EXCEPT !.at = end])
    /\ UNCHANGED <<overlap, settled>>

\* refresh_catalog loads the catalog once more for its summary, as run_verify
\* and run_show do for theirs.
ReportRefresh(p) ==
    /\ proc[p].at = "report"
    /\ ReadStep(p, [proc[p] EXCEPT !.at = "reported", !.catalog = IF Cached # {} THEN FromCache.version ELSE 1])

\* build_reliable_provider_for_selection: a model that is not listed needs the
\* option skip_catalog_validation.
BuildFromCatalog(p) ==
    /\ proc[p].at = "resolved"
    /\ \E listed, skips \in BOOLEAN :
         ReadStep(p, [proc[p] EXCEPT !.at = IF listed \/ skips THEN "running" ELSE "failed"])

CatalogStep(p) ==
    \/ LookUp(p) \/ BeginRefresh(p) \/ Fetch(p) \/ OpenCache(p) \/ FillCache(p) \/ WriteFails(p)
    \/ ReportRefresh(p) \/ BuildFromCatalog(p)
CatalogNext == \E p \in Processes : CatalogStep(p)
CatalogSpec == CatalogInit /\ [][CatalogNext]_catalogVars

-----------------------------------------------------------------------------
(* Properties.                                                              *)

\* Whoever wrote the user's cache last, if no other process had it open at the same
\* time: a guest that starts then takes that version, without fetching, and a
\* refresh reports it, whatever the workspace's cache holds and however long the
\* file was before.  Two that write at once may leave a file that does not parse,
\* which the next start writes anew.
LastFetchServes ==
    [][\A p \in Processes :
          (settled # 0 /\ proc'[p].at # proc[p].at
             /\ (proc[p].at = "report" \/ (proc[p].at = "idle" /\ proc[p].role = "start")))
          => proc'[p].at \in {"resolved", "reported"} /\ proc'[p].catalog = settled]_catalogVars

\* The inductive invariant of LastFetchServes.
ProcRecs ==
    [at : {"idle", "resolved", "fetch", "open", "write", "report", "reported", "running", "failed"},
     role : {"start", "refresh"}, catalog : Upstream]
CatalogTypes ==
    /\ cacheFile \in [{"user", "workspace"} -> [version : Upstream \cup {0}, size : Nat]]
    /\ proc \in [Processes -> ProcRecs]
    /\ overlap \in BOOLEAN /\ settled \in Upstream \cup {0}
WriteAlone ==
    /\ settled # 0 => /\ cacheFile["user"] = WholeFile(settled)
                      /\ \A p \in Processes : proc[p].at # "write"
    /\ ~overlap => \A p \in Processes : proc[p].at = "write" =>
                     cacheFile["user"] = Nothing /\ \A q \in Processes \ {p} : proc[q].at # "write"
CatalogInv == CatalogTypes /\ WriteAlone
===============================================================================
