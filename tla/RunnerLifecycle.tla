---------------------------- MODULE RunnerLifecycle ---------------------------
(***************************************************************************)
(* One user's guests and the runner processes that start, serve and stop   *)
(* them: launching by sandbox tier (crates/runner/src/backend.rs), the     *)
(* daemon's control socket, shutdown and Ctrl+C (lib.rs, main.rs), the     *)
(* commands `oxydra start`, `stop`, `restart` and `tui`, and the           *)
(* counterparts of the first three in the web configurator                 *)
(* (web/control.rs).                                                       *)
(*                                                                         *)
(* Nothing but the control socket keeps two runners of a user apart: a     *)
(* start does not ask whether a daemon is running, the web start asks and  *)
(* then spawns.  Stopping a guest may fail; a client may vanish.  A runner *)
(* that ends between the first guest it launches and the Ctrl+C handler it *)
(* installs last stops none of them: `why` says how it ended.              *)
(***************************************************************************)
EXTENDS Naturals, Sequences

CONSTANTS
    Tiers,        \* subset of {"process", "container", "linux", "macos"}
    MaxRunners,   \* runner processes
    Commanders,   \* subset of {"cli", "web"}
    MaxCommands   \* commands given

ASSUME RunnersAssumption == MaxRunners \in Nat \ {0}
ASSUME TiersAssumption == Tiers \subseteq {"process", "container", "linux", "macos"}

VARIABLES
    tier,         \* sandbox tier of the user's configuration
    sidecarAsked, \* shell or browser is enabled
    runners,      \* pid -> runner process
    running,      \* <<role, pid>>: guests running, with the runner that started them
    leaked,       \* <<role, pid>>: guests whose stopping failed or was cut short
    sock,         \* pid whose socket the control socket file is; 0: no file
    marker,       \* directory -> pid of the guest whose endpoint is there; 0: no file
    commands,     \* commander -> its command
    given         \* commands given so far

lifecycleVars == <<tier, sidecarAsked, runners, running, leaked, sock, marker, commands, given>>

Pids == 1..MaxRunners
Named == tier \in {"container", "macos"}   \* guests are Docker containers with fixed names

Roles == {"runtime", "sidecar", "scope"}

\* The order in which the guests of a tier are launched.
Sidecar == IF sidecarAsked THEN <<"sidecar">> ELSE <<>>
ProcessGuests == <<"runtime">>
LinuxGuests == <<"runtime">> \o Sidecar
ContainerGuests == Sidecar \o <<"runtime">>
MacosGuests == <<"scope">> \o Sidecar \o <<"runtime">>

LaunchOrder ==
    CASE tier = "process" -> ProcessGuests
      [] tier = "linux" -> LinuxGuests
      [] tier = "container" -> ContainerGuests
      [] tier = "macos" -> MacosGuests

\* The order in which a launch's guests are stopped.
ShutdownOrder(has) ==
    LET ifLaunched(role) == IF role \in has THEN <<role>> ELSE <<>>
    IN ifLaunched("sidecar") \o ifLaunched("runtime") \o ifLaunched("scope")

NotStarted == [at |-> "off", has |-> {}, todo |-> <<>>, by |-> "nobody", failed |-> FALSE, why |-> "none"]

NoCommand(pid) == [at |-> "idle", op |-> "none", pid |-> pid]

NothingRuns ==
    /\ runners = [r \in Pids |-> NotStarted]
    /\ running = {}
    /\ sock = 0
    /\ marker = [dir \in {"ipc", "tmp"} |-> 0]
    /\ commands = [c \in Commanders |-> NoCommand(0)]

\* A daemon that an earlier command started serves the user; the web remembers
\* the one it started.
DaemonRuns ==
    LET has == {LaunchOrder[i] : i \in DOMAIN LaunchOrder}
    IN /\ runners = [r \in Pids |-> IF r = 1 THEN [NotStarted EXCEPT !.at = "serving", !.has = has] ELSE NotStarted]
       /\ running = has \X {1}
       /\ sock = 1
       /\ marker = [dir \in {"ipc", "tmp"} |-> IF dir = "ipc" THEN 1 ELSE 0]
       /\ \E pid \in {0, 1} : commands = [c \in Commanders |-> NoCommand(IF c = "web" THEN pid ELSE 0)]

LifecycleInit ==
    /\ tier \in Tiers /\ sidecarAsked \in BOOLEAN
    /\ leaked = {} /\ given = 0
    /\ NothingRuns \/ DaemonRuns

Alive(r) == runners[r].at \notin {"off", "exited"}
Serving == sock # 0 /\ runners[sock].at = "serving"
Refused == sock # 0 /\ ~Alive(sock)   \* a socket file nobody listens on

\* The process ends, and with it what it knew of its guests.
Exit(why) == [NotStarted EXCEPT !.at = "exited", !.why = why]

-----------------------------------------------------------------------------
\* start_user_for_host up to the launch: an old endpoint marker is removed.
StartRunner(r) ==
    /\ runners[r].at = "off"
    /\ \A q \in 1..(r - 1) : runners[q].at # "off"
    /\ runners' = [runners EXCEPT ![r].at = "launch", ![r].todo = LaunchOrder]
    /\ marker' = [marker EXCEPT !["ipc"] = 0]

\* Guests with the name of one that is started or removed.
SameName(role, r) ==
    IF Named THEN {g \in running : g[1] = role} ELSE {<<role, r>>}

\* The guests that go when one is stopped or replaced: with the sandbox VM all in it.
GoneWith(role, r) == IF role = "scope" THEN running ELSE SameName(role, r)

\* What a launch that fails leaves running: its predecessor or none, and the
\* sandbox VM that create_docker_sandbox_vm made but that names no Docker socket.
FailedLaunches(role, r) ==
    LET gone == running \ GoneWith(role, r)
    IN {running, gone} \cup (IF role = "scope" THEN {gone \cup {<<role, r>>}} ELSE {})

\* Mutant: the sidecar of a launch that fails is left.
LaunchFailsLeaving(r) == Exit("launch failed")

\* What was launched is stopped before a failed launch returns its error.
LaunchFails(r) == [runners[r] EXCEPT !.at = "clean up", !.todo = ShutdownOrder(runners[r].has)]

\* One guest of the launch; a missing sidecar only degrades it, a macOS
\* sandbox that names no Docker socket is forgotten.
LaunchGuest(r) ==
    LET role == Head(runners[r].todo)
        rest == Tail(runners[r].todo)
    IN /\ runners[r].at = "launch" /\ runners[r].todo # <<>>
       /\ \/ /\ running' = (running \ GoneWith(role, r)) \cup {<<role, r>>}
             /\ runners' = [runners EXCEPT ![r].has = @ \cup {role}, ![r].todo = rest]
          \/ /\ running' \in FailedLaunches(role, r)
             /\ runners' = [runners EXCEPT ![r] =
                    IF role = "sidecar" THEN [@ EXCEPT !.todo = rest] ELSE LaunchFails(r)]
       /\ UNCHANGED <<tier, sidecarAsked, leaked, sock, marker, commands>>

\* The launch is complete.  A process guest is sent its bootstrap, and start_user
\* returns the error of a write that fails; the others read theirs from a file.
Launched(r) ==
    /\ runners[r].at = "launch" /\ runners[r].todo = <<>>
    /\ \/ runners' = [runners EXCEPT ![r].at = "wait"]
       \/ tier = "process" /\ runners' = [runners EXCEPT ![r] = Exit("no bootstrap")]
    /\ UNCHANGED <<tier, sidecarAsked, running, leaked, sock, marker, commands>>

\* write_gateway_endpoint_marker, by the guest.
PublishEndpoint(r) ==
    /\ <<"runtime", r>> \in running /\ marker["ipc"] # r
    /\ marker' = [marker EXCEPT !["ipc"] = r]
    /\ UNCHANGED <<tier, sidecarAsked, runners, running, leaked, sock, commands>>

\* wait_for_gateway_endpoint, found or not, then run_daemon removes the socket
\* file, whosever it is.
RemoveStale(r) ==
    /\ runners[r].at = "wait"
    /\ sock' = 0
    /\ runners' = [runners EXCEPT ![r].at = "bind"]
    /\ UNCHANGED <<tier, sidecarAsked, running, leaked, marker, commands>>

\* UnixListener::bind fails where there is a file, another runner's since the
\* removal, or for a reason of its own.
BindControl(r) ==
    /\ runners[r].at = "bind"
    /\ \/ /\ sock = 0
          /\ sock' = r
          /\ runners' = [runners EXCEPT ![r].at = "serving"]
       \/ /\ runners' = [runners EXCEPT ![r] = Exit("not bound")]
          /\ UNCHANGED sock
    /\ UNCHANGED <<tier, sidecarAsked, running, leaked, marker, commands>>

-----------------------------------------------------------------------------
\* Mutant: a shutdown that failed is not answered.
AnsweredIfGood(c, good) == IF good THEN [commands EXCEPT ![c].at = "removal"] ELSE commands

\* The pid of the daemon it started last, which only the web remembers.
Remembered(c) == IF c = "web" THEN commands[c].pid ELSE 0

\* A command goes on to its next step; at its end another may be given.
Ended == {"idle", "no endpoint"}
GoesTo(c, step) ==
    IF step \in Ended THEN [NoCommand(Remembered(c)) EXCEPT !.at = step] ELSE [commands[c] EXCEPT !.at = step]

\* What the command line does next: server_stop only prints the answer,
\* server_restart goes on whatever it was.
CliHears(op) == IF op = "restart" THEN "removal" ELSE "idle"

\* stop_user_daemon_inner: an error ends a stop and a restart.
WebHears(good) == IF good THEN "removal" ELSE "idle"

\* Who waits for the daemon's answer to a shutdown request hears of it.
Answered(c, good) ==
    [commands EXCEPT ![c] = GoesTo(c, IF c = "cli" THEN CliHears(@.op) ELSE WebHears(good))]

\* The handle of a guest is given up before it is stopped; an error is kept
\* and the others are stopped all the same.
AfterStop(r, role, good) ==
    [runners[r] EXCEPT !.has = IF role = "scope" /\ ~good THEN @ ELSE @ \ {role},
                       !.todo = Tail(@), !.failed = @ \/ ~good]

\* One guest of RunnerLaunchHandle::shutdown_async or of a failed launch.
StopGuest(r) ==
    LET role == Head(runners[r].todo)
    IN /\ runners[r].at \in {"stopping", "clean up"} /\ runners[r].todo # <<>>
       /\ \E good \in BOOLEAN :
            /\ running' = IF good THEN running \ GoneWith(role, r) ELSE running
            /\ leaked' = IF good THEN leaked ELSE leaked \cup {<<role, r>>}
            /\ runners' = [runners EXCEPT ![r] = AfterStop(r, role, good)]
       /\ UNCHANGED <<tier, sidecarAsked, sock, marker, commands>>

CleanedUp(r) ==
    /\ runners[r].at = "clean up" /\ runners[r].todo = <<>>
    /\ runners' = [runners EXCEPT ![r] = Exit("launch failed")]
    /\ UNCHANGED <<tier, sidecarAsked, running, leaked, sock, marker, commands>>

\* The end of a shutdown: complete, or an error after which the daemon goes
\* on serving, or exits if it was interrupted.
EndShutdown(r) ==
    /\ runners[r].at = "stopping" /\ runners[r].todo = <<>>
    /\ LET good == ~runners[r].failed
           by == runners[r].by
       IN /\ runners' = [runners EXCEPT ![r] =
                CASE good -> [@ EXCEPT !.at = "closing"]
                  [] ~good /\ by = "signal" -> Exit("signal")
                  [] OTHER -> [@ EXCEPT !.at = "serving", !.by = "nobody", !.failed = FALSE]]
          /\ marker' = IF good THEN [marker EXCEPT !["ipc"] = 0] ELSE marker
          /\ commands' = IF by \in Commanders THEN Answered(by, good) ELSE commands
    /\ UNCHANGED <<tier, sidecarAsked, running, leaked, sock>>

\* A daemon that is done removes the socket file, whosever it is.
RemoveSocket(r) ==
    /\ runners[r].at = "closing"
    /\ sock' = 0
    /\ runners' = [runners EXCEPT ![r] = Exit("shut down")]
    /\ UNCHANGED <<tier, sidecarAsked, running, leaked, marker, commands>>

\* Guests that are child processes may get the Ctrl+C of the terminal as well.
SignalLeaves(r) == IF Named THEN {running} ELSE {running, running \ (Roles \X {r})}

\* Ctrl+C before run_daemon waits for it: the signal ends the process.
InterruptEarly(r) ==
    /\ runners[r].at \in {"launch", "clean up", "wait", "bind"}
    /\ runners' = [runners EXCEPT ![r] = Exit("interrupted early")]
    /\ running' \in SignalLeaves(r)
    /\ UNCHANGED <<tier, sidecarAsked, leaked, sock, marker, commands>>

\* Ctrl+C: the control loop is dropped where it waits, the guest it was
\* stopping is forgotten, and shutdown begins again.
Interrupt(r) ==
    /\ runners[r].at = "serving" \/ (runners[r].at = "stopping" /\ runners[r].by # "signal" /\ Named)
    /\ LET cut == IF runners[r].todo = <<>> THEN {} ELSE {Head(runners[r].todo)} \ {"scope"}
           has == runners[r].has \ cut
       IN /\ runners' = [runners EXCEPT ![r] = [@ EXCEPT !.at = "stopping", !.by = "signal", !.failed = FALSE,
                                                         !.has = has, !.todo = ShutdownOrder(has)]]
          /\ leaked' = leaked \cup {<<role, r>> : role \in cut}
    /\ commands' = IF runners[r].at = "stopping" THEN Answered(runners[r].by, FALSE) ELSE commands
    /\ UNCHANGED <<tier, sidecarAsked, running, sock, marker>>

\* serve_control_unix_listener returns when a client vanishes in the middle
\* of a frame: the daemon exits and leaves its guests and the socket file.
ClientVanishes(r) ==
    /\ runners[r].at = "serving" /\ sock = r
    /\ runners' = [runners EXCEPT ![r] = Exit("client error")]
    /\ UNCHANGED <<tier, sidecarAsked, running, leaked, sock, marker, commands>>

-----------------------------------------------------------------------------
\* The first step of a command; only the web asks whether a daemon is running.
CliFirst(op) == IF op = "start" THEN "spawn" ELSE "shut down"
WebFirst(op) == IF op = "stop" THEN "shut down" ELSE "probe"

\* A commander gives one command after the other.
BeginCommand(c) ==
    /\ commands[c].at \in Ended /\ given < MaxCommands
    /\ given' = given + 1
    /\ \E op \in {"start", "stop", "restart"} :
         commands' = [commands EXCEPT ![c] =
             [at |-> IF c = "cli" THEN CliFirst(op) ELSE WebFirst(op), op |-> op, pid |-> @.pid]]
    /\ UNCHANGED <<tier, sidecarAsked, runners, running, leaked, sock, marker>>

\* probe_health_status of a web start or restart; no answer removes the file,
\* and a restart goes on as a start.
ProbeHealth(c) ==
    /\ commands[c].at = "probe"
    /\ \/ /\ Serving
          /\ commands' = [commands EXCEPT ![c] = GoesTo(c, IF @.op = "start" THEN "idle" ELSE "shut down")]
          /\ UNCHANGED sock
       \/ /\ sock = 0 \/ Refused
          /\ commands' = [commands EXCEPT ![c].at = IF commands[c].op = "start" THEN "spawn" ELSE "probe",
                                          ![c].op = "start"]
          /\ sock' = 0
    /\ UNCHANGED <<tier, sidecarAsked, runners, running, leaked, marker>>

\* `oxydra start`, or the web's spawn_detached_daemon and its record of the pid.
SpawnRunner(c) ==
    /\ commands[c].at = "spawn"
    /\ \E r \in Pids :
         /\ StartRunner(r)
         /\ commands' = [commands EXCEPT ![c] =
                IF c = "web" THEN [@ EXCEPT !.at = "health", !.pid = r] ELSE GoesTo(c, "idle")]
    /\ UNCHANGED <<tier, sidecarAsked, running, leaked, sock>>

\* The bound on runners: a start that would need one more is not followed.
SpawnBeyondBound(c) ==
    /\ commands[c].at = "spawn"
    /\ \A r \in Pids : runners[r].at # "off"
    /\ commands' = [commands EXCEPT ![c] = GoesTo(c, "idle")]
    /\ UNCHANGED <<tier, sidecarAsked, runners, running, leaked, sock, marker>>

\* ShutdownUser: the daemon that listens begins to stop its guests.
RequestShutdown(c) ==
    /\ commands[c].at = "shut down"
    /\ \/ /\ Serving
          /\ runners' = [runners EXCEPT ![sock].at = "stopping", ![sock].by = c, ![sock].failed = FALSE,
                                        ![sock].todo = ShutdownOrder(runners[sock].has)]
          /\ commands' = [commands EXCEPT ![c].at = "answer"]
       \/ /\ sock = 0 \/ Refused
          /\ commands' = [commands EXCEPT ![c] = GoesTo(c,
                 CASE commands[c].op = "restart" /\ c = "cli" -> IF sock = 0 THEN "spawn" ELSE "removal"
                   [] OTHER -> "idle")]
          /\ UNCHANGED runners
    /\ UNCHANGED <<tier, sidecarAsked, running, leaked, sock, marker>>

\* try_force_kill_pid: the daemon the web remembers dies at once.
Killed(pid) ==
    [r \in Pids |-> IF r = pid /\ Alive(r) THEN Exit("killed") ELSE runners[r]]

\* Who waits for the answer of a daemon that is killed loses the connection.
Bereft(pid) ==
    {c \in Commanders : commands[c].at = "answer" /\ pid \in Pids /\ runners[pid].by = c}

\* wait_for_socket_removal: gone, or after ten seconds the command line
\* removes the file and the web kills its daemon.  The start of a web restart
\* asks again whether a daemon is running.
AwaitRemoval(c) ==
    LET next == CASE commands[c].op # "restart" -> "idle"
                  [] commands[c].op = "restart" -> IF c = "cli" THEN "spawn" ELSE "probe"
    IN /\ commands[c].at = "removal"
       /\ \/ /\ sock = 0
             /\ commands' = [commands EXCEPT ![c] =
                    IF next = "idle" THEN NoCommand(0) ELSE [at |-> next, op |-> "start", pid |-> 0]]
             /\ UNCHANGED <<runners, sock>>
          \/ /\ sock # 0 /\ c = "cli"
             /\ sock' = 0
             /\ commands' = [commands EXCEPT ![c] = GoesTo(c, next)]
             /\ UNCHANGED runners
          \/ /\ sock # 0 /\ c = "web"
             /\ runners' = Killed(commands[c].pid)
             /\ commands' = [[d \in Commanders |-> IF d \in Bereft(commands[c].pid) THEN Answered(d, FALSE)[d] ELSE commands[d]]
                                 EXCEPT ![c] = NoCommand(0)]
             /\ UNCHANGED sock
       /\ UNCHANGED <<tier, sidecarAsked, running, leaked, marker>>

\* wait_for_daemon_health, and its timeout.
AwaitHealth(c) ==
    /\ commands[c].at = "health"
    /\ \/ Serving /\ commands' = [commands EXCEPT ![c].at = "marker"]
       \/ ~Serving /\ commands' = [commands EXCEPT ![c] = GoesTo(c, "idle")]
    /\ UNCHANGED <<tier, sidecarAsked, runners, running, leaked, sock, marker>>

\* The directory the web start looks in.
WebMarkerDir == "tmp"

\* wait_for_gateway_endpoint of the web: the file is read before the clock, and
\* without it the start ends with an error.
AwaitEndpoint(c) ==
    /\ commands[c].at = "marker"
    /\ commands' = [commands EXCEPT ![c] = GoesTo(c, IF marker[WebMarkerDir] # 0 THEN "idle" ELSE "no endpoint")]
    /\ UNCHANGED <<tier, sidecarAsked, runners, running, leaked, sock, marker>>

\* connect_tui, before anything is asked of the guest.
ConnectTui(c) ==
    /\ commands[c].at \in Ended /\ c = "cli" /\ given < MaxCommands
    /\ given' = given + 1
    /\ commands' = [commands EXCEPT ![c].at = "endpoint", ![c].op = "tui"]
    /\ UNCHANGED <<tier, sidecarAsked, runners, running, leaked, sock, marker>>

\* read_gateway_endpoint_marker: without a marker no guest is running, as far
\* as the error says, which quotes the guest's last words.
ReadEndpoint(c) ==
    /\ commands[c].at = "endpoint"
    /\ commands' = [commands EXCEPT ![c] =
           IF marker["ipc"] = 0 THEN NoCommand(0) ELSE [@ EXCEPT !.at = "hello", !.pid = marker["ipc"]]]
    /\ UNCHANGED <<tier, sidecarAsked, runners, running, leaked, sock, marker>>

\* A frame is sent and one received: only a guest that runs answers, and one
\* that ends closes the connection.
GatewayAnswers(pid) == <<"runtime", pid>> \in running

\* probe_gateway_health: hello, then health; a refusal, an unhealthy guest or a
\* closed connection ends it with a stale endpoint.
ProbeGateway(c) ==
    /\ commands[c].at \in {"hello", "health probe"}
    /\ \E answered \in BOOLEAN :
         /\ answered => GatewayAnswers(commands[c].pid)
         /\ commands' = [commands EXCEPT ![c] =
                GoesTo(c, IF answered /\ @.at = "hello" THEN "health probe" ELSE "idle")]
    /\ UNCHANGED <<tier, sidecarAsked, runners, running, leaked, sock, marker>>

RunnerStep(r) ==
    /\ \/ LaunchGuest(r) \/ Launched(r) \/ RemoveStale(r) \/ BindControl(r)
       \/ StopGuest(r) \/ CleanedUp(r) \/ EndShutdown(r) \/ RemoveSocket(r)
    /\ UNCHANGED given

CommandStep(c) ==
    /\ \/ ProbeHealth(c) \/ SpawnRunner(c) \/ SpawnBeyondBound(c) \/ RequestShutdown(c)
       \/ AwaitRemoval(c) \/ AwaitHealth(c) \/ AwaitEndpoint(c)
       \/ ReadEndpoint(c) \/ ProbeGateway(c)
    /\ UNCHANGED given

\* Guests, signals and clients.
OutsideStep(r) ==
    /\ PublishEndpoint(r) \/ Interrupt(r) \/ InterruptEarly(r) \/ ClientVanishes(r)
    /\ UNCHANGED given

LifecycleNext ==
    \/ \E r \in Pids : RunnerStep(r) \/ OutsideStep(r)
    \/ \E c \in Commanders : BeginCommand(c) \/ ConnectTui(c) \/ CommandStep(c)

\* Processes run, and a daemon accepts connections in the order they come in;
\* nobody has to press Ctrl+C, to vanish or to give another command.
LifecycleFairness ==
    /\ \A r \in Pids : WF_lifecycleVars(RunnerStep(r))
    /\ \A c \in Commanders : SF_lifecycleVars(CommandStep(c))

LifecycleSpec == LifecycleInit /\ [][LifecycleNext]_lifecycleVars /\ LifecycleFairness

-----------------------------------------------------------------------------
EndedWhys == {"launch failed", "shut down", "signal"}
AbruptWhys == {"no bootstrap", "not bound", "interrupted early", "client error", "killed"}

RunnerStates ==
    [at : {"off", "launch", "wait", "bind", "serving", "stopping", "clean up", "closing", "exited"},
     has : SUBSET Roles, todo : Seq(Roles), by : {"nobody", "signal"} \cup Commanders,
     failed : BOOLEAN, why : {"none"} \cup AbruptWhys \cup EndedWhys]

LifecycleTypeOK ==
    /\ tier \in Tiers
    /\ runners \in [Pids -> RunnerStates]
    /\ running \subseteq Roles \X Pids /\ leaked \subseteq Roles \X Pids
    /\ sock \in 0..MaxRunners

\* The guests a runner holds; the sandbox VM is not one of them.
HasInHand(r) == runners[r].has \ {"scope"}

\* A guest of a runner that did not end abruptly is held by it, or its stopping failed.
HeldOrLeaked(r) ==
    runners[r].why \notin AbruptWhys =>
    \A role \in {"runtime", "sidecar"} : <<role, r>> \in running => role \in HasInHand(r) \/ <<role, r>> \in leaked

\* While a runner stops its guests, those it holds are still to be stopped.
StillToStop(r) ==
    runners[r].at \in {"stopping", "clean up"} =>
        \A role \in HasInHand(r) : \E i \in DOMAIN runners[r].todo : runners[r].todo[i] = role

\* A runner that has come to its end in order holds none.
HoldsNoneAtEnd(r) ==
    /\ runners[r].at = "closing" \/ runners[r].why \in EndedWhys => HasInHand(r) = {}
    /\ runners[r].why # "none" <=> runners[r].at = "exited"

GuestsHeld(r) == HeldOrLeaked(r) /\ StillToStop(r) /\ HoldsNoneAtEnd(r)

\* The inductive invariant behind EndedRunnersLeaveNothing.
LifecycleInv == LifecycleTypeOK /\ \A r \in Pids : GuestsHeld(r)

\* A runner whose launch failed, that was shut down, or interrupted once it served,
\* leaves no runtime and no sidecar of its own running but those whose stopping
\* failed or was cut short: one failure does not spare the other guests.  The
\* other ends leave the guests they find: a bootstrap that could not be sent, a
\* socket that could not be bound, Ctrl+C before it is waited for, a client that
\* vanishes, and a kill.
EndedRunnersLeaveNothing ==
    \A r \in Pids : runners[r].why \in {"launch failed", "shut down", "signal"} =>
        \A role \in {"runtime", "sidecar"} : <<role, r>> \in running => <<role, r>> \in leaked

\* Every command comes to an end, whatever commands the other commander gives the
\* same daemon and wherever the daemon is interrupted, killed or fails.
CommandsEnd ==
    \A c \in Commanders : (commands[c].at \notin Ended) ~> (commands[c].at \in Ended)

\* A web start of a daemon whose guest has published its endpoint does not
\* answer that there is none.
WebStartFindsEndpoint ==
    [][\A c \in Commanders :
        (commands[c].at = "marker" /\ commands'[c].at = "no endpoint") => marker["ipc"] = 0]_lifecycleVars
=============================================================================
