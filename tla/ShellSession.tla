---------------------------- MODULE ShellSession -----------------------------
(***************************************************************************)
(* The shell tool and its sidecar: BashTool and                            *)
(* execute_with_shell_session (crates/tools/src/lib.rs), the RPC client    *)
(* VsockShellSession and the local session                                 *)
(* (crates/tools/src/sandbox/mod.rs), and the daemon at the other end of   *)
(* the socket (crates/oxydra-shelld/src/lib.rs).                           *)
(*                                                                         *)
(* The tool calls of all turns share one session behind a mutex, so they   *)
(* follow each other; a call is dropped where it waits when its tool or    *)
(* its turn times out.  Answers carry no reference to their request that   *)
(* anybody compares.  A byte of output is <<command, stream, position>>,   *)
(* position 0 the character that stands for a byte that is not valid text. *)
(***************************************************************************)
EXTENDS Naturals, Sequences, FiniteSets

CONSTANTS
    ShellCalls,   \* number of tool calls, call n runs command n
    OutBytes,     \* bytes every command writes to stdout
    ErrBytes,     \* and to stderr
    WideAt,       \* positions where a character of two bytes begins
    SessionBytes, \* max_session_output_bytes
    ChunkBytes,   \* max_stream_chunk_bytes
    MaxDrops,     \* bound: calls dropped by a timeout or a cancellation
    MaxSockets    \* bound: connections opened

ASSUME ShellBounds ==
    /\ {ShellCalls, OutBytes, ErrBytes, SessionBytes, MaxDrops} \subseteq Nat
    /\ {ChunkBytes, MaxSockets} \subseteq Nat \ {0}
    /\ WideAt \subseteq Nat \ {0} /\ \A i \in WideAt : i + 1 \notin WideAt

VARIABLES
    backend,  \* "starting", "sidecar", "local" or "disabled"
    client,   \* the client's connection and daemon session, 0: none
    sockets,  \* connection -> [requests, answers, busy, open, and the history
              \*  lost: calls dropped while they waited on it]
    outputs,  \* daemon session -> output of its last command, not yet streamed
    shell,    \* the call that holds the mutex: its number, step and attempt
    collected, \* stdout and stderr it has collected
    results,  \* call -> what it returned, and lost of its connection then
    shellRuns, \* history: call -> times its command was started
    drops

shellVars == <<backend, client, sockets, outputs, shell, collected, results, shellRuns, drops>>

CommandIds == 1..ShellCalls
NoSocket == [requests |-> <<>>, answers |-> <<>>, busy |-> 0, open |-> FALSE, lost |-> 0]
FreshSocket == [NoSocket EXCEPT !.open = TRUE]
NothingRead == [out |-> <<>>, err |-> <<>>]
NoResultYet == [text |-> NothingRead, ended |-> "no", lost |-> 0]

ShellInit ==
    /\ backend = "starting"
    /\ client = 0
    /\ sockets = [k \in 1..MaxSockets |-> NoSocket]
    /\ outputs = [k \in 0..MaxSockets |-> <<>>]
    /\ shell = [call |-> 1, at |-> "idle", attempt |-> 1]
    /\ collected = NothingRead
    /\ results = [c \in CommandIds |-> NoResultYet]
    /\ shellRuns = [c \in CommandIds |-> 0]
    /\ drops = 0

\* Bytes from + 1 to `to` of what a command writes.
Bytes(c, stream, from, to) == [i \in 1..(to - from) |-> <<c, stream, from + i>>]
Piece(stream, data) == [stream |-> stream, data |-> data]
Least(a, b) == IF a < b THEN a ELSE b

\* push_bounded_chunk: nothing when there is no room left or no data.
PushBounded(queue, c, stream, size, room) ==
    IF room = 0 \/ size = 0 THEN queue
    ELSE Append(queue, Piece(stream, Bytes(c, stream, 0, Least(size, room))))

\* build_output_queue: stdout, then what room it left to stderr.
RoomForErr == SessionBytes - Least(OutBytes, SessionBytes)
OutputOf(c) ==
    PushBounded(PushBounded(<<>>, c, "out", OutBytes, SessionBytes), c, "err", ErrBytes, RoomForErr)

\* from_utf8_lossy of one chunk: half a character at either end is replaced.
Lossy(data) ==
    [i \in DOMAIN data |->
        IF \/ data[i][3] \in WideAt /\ i = Len(data)
           \/ data[i][3] - 1 \in WideAt /\ i = 1
        THEN <<data[i][1], data[i][2], 0>> ELSE data[i]]

\* Mutant: eof as soon as the last chunk has been touched.
NextChunkEarly(queue) ==
    IF queue = <<>> THEN [piece |-> Piece("out", <<>>), eof |-> TRUE, rest |-> <<>>]
    ELSE LET whole == Head(queue).data
             cut == Least(Len(whole), ChunkBytes)
             rest == IF cut = Len(whole) THEN Tail(queue)
                     ELSE <<Piece(Head(queue).stream, SubSeq(whole, cut + 1, Len(whole)))>> \o Tail(queue)
         IN [piece |-> Piece(Head(queue).stream, Lossy(SubSeq(whole, 1, cut))),
             eof |-> Len(queue) = 1, rest |-> rest]

\* next_stream_chunk: as much as fits of the first chunk, the rest is put back;
\* stream_output makes text of it.
NextChunk(queue) ==
    IF queue = <<>> THEN [piece |-> Piece("out", <<>>), eof |-> TRUE, rest |-> <<>>]
    ELSE LET whole == Head(queue).data
             cut == Least(Len(whole), ChunkBytes)
             rest == IF cut = Len(whole) THEN Tail(queue)
                     ELSE <<Piece(Head(queue).stream, SubSeq(whole, cut + 1, Len(whole)))>> \o Tail(queue)
         IN [piece |-> Piece(Head(queue).stream, Lossy(SubSeq(whole, 1, cut))),
             eof |-> rest = <<>>, rest |-> rest]

-----------------------------------------------------------------------------
\* The daemon.

Answer(k, kind, chunk) ==
    IF sockets[k].open
    THEN [sockets[k] EXCEPT !.answers = Append(@, [kind |-> kind, chunk |-> chunk]), !.busy = 0]
    ELSE NoSocket   \* send_response fails, serve_stream returns

NoChunk == [piece |-> Piece("out", <<>>), eof |-> FALSE, rest |-> <<>>]

\* serve_stream: requests of a connection one after the other.
NextRequest(k) ==
    /\ sockets[k].busy = 0 /\ sockets[k].requests # <<>>

\* SpawnSession: a session without output.
DaemonSpawns(k) ==
    /\ NextRequest(k) /\ sockets[k].requests[1].kind = "spawn"
    /\ outputs' = [outputs EXCEPT ![k] = <<>>]
    /\ sockets' = [sockets EXCEPT ![k] =
          [Answer(k, "spawned", NoChunk) EXCEPT !.requests = Tail(sockets[k].requests)]]
    /\ UNCHANGED <<backend, client, shell, collected, results, shellRuns, drops>>

\* StreamOutput.
DaemonStreams(k) ==
    /\ NextRequest(k) /\ sockets[k].requests[1].kind = "stream"
    /\ LET chunk == NextChunk(outputs[k])
       IN /\ outputs' = [outputs EXCEPT ![k] = chunk.rest]
          /\ sockets' = [sockets EXCEPT ![k] =
                [Answer(k, "chunk", chunk) EXCEPT !.requests = Tail(sockets[k].requests)]]
    /\ UNCHANGED <<backend, client, shell, collected, results, shellRuns, drops>>

\* ExecCommand, to the start of the command: the lock is not held while it runs.
DaemonStarts(k) ==
    /\ NextRequest(k) /\ sockets[k].requests[1].kind = "exec"
    /\ LET c == sockets[k].requests[1].call
       IN /\ shellRuns' = [shellRuns EXCEPT ![c] = @ + 1]
          /\ sockets' = [sockets EXCEPT ![k].busy = c, ![k].requests = Tail(@)]
    /\ UNCHANGED <<backend, client, outputs, shell, collected, results, drops>>

\* ExecCommand, the end: the output replaces that of the command before.
DaemonFinishes(k) ==
    /\ sockets[k].busy # 0
    /\ outputs' = [outputs EXCEPT ![k] = OutputOf(sockets[k].busy)]
    /\ sockets' = [sockets EXCEPT ![k] = Answer(k, "ack", NoChunk)]
    /\ UNCHANGED <<backend, client, shell, collected, results, shellRuns, drops>>

\* Mutant: a command that times out is not answered.
DaemonTimesOutSilently(k) ==
    /\ sockets[k].busy # 0
    /\ sockets' = [sockets EXCEPT ![k].busy = 0]
    /\ UNCHANGED <<backend, client, outputs, shell, collected, results, shellRuns, drops>>

\* run_shell_command: the command takes longer than timeout_secs.
DaemonTimesOut(k) ==
    /\ sockets[k].busy # 0
    /\ sockets' = [sockets EXCEPT ![k] = Answer(k, "error", NoChunk)]
    /\ UNCHANGED <<backend, client, outputs, shell, collected, results, shellRuns, drops>>

\* The peer is gone: serve_stream reads the end of the stream.
DaemonHangsUp(k) ==
    /\ sockets[k] # NoSocket /\ ~sockets[k].open /\ sockets[k].busy = 0
    /\ sockets[k].requests = <<>>
    /\ sockets' = [sockets EXCEPT ![k] = NoSocket]
    /\ UNCHANGED <<backend, client, outputs, shell, collected, results, shellRuns, drops>>

-----------------------------------------------------------------------------
\* The tool.

Unused == {k \in 1..MaxSockets : outputs[k] = <<>> /\ sockets[k] = NoSocket
                                 /\ \A j \in k..MaxSockets : sockets[j] = NoSocket}

\* bootstrap_bash_tool: no sidecar, no shell; otherwise a connection and a
\* session are set up, or the deadline passes.
Bootstrap ==
    /\ backend = "starting"
    /\ \/ backend' = "disabled" /\ UNCHANGED <<client, sockets>>
       \/ backend' = "local" /\ UNCHANGED <<client, sockets>>
       \/ /\ backend' = "sidecar"
          /\ client' = 1 /\ sockets' = [sockets EXCEPT ![1] = FreshSocket]
    /\ UNCHANGED <<outputs, shell, collected, results, shellRuns, drops>>

Send(k, kind, c) ==
    [sockets EXCEPT ![k].requests = Append(@, [kind |-> kind, call |-> c])]

\* The call is over and the mutex free.
Return(how, text) ==
    /\ results' = [results EXCEPT ![shell.call] =
          [text |-> text, ended |-> how, lost |-> IF client = 0 THEN 0 ELSE sockets[client].lost]]
    /\ shell' = [call |-> shell.call + 1, at |-> "idle", attempt |-> 1]
    /\ collected' = NothingRead

\* execute: the lock is taken and the command sent, if there is a session.
StartCommand ==
    /\ shell.at = "idle" /\ shell.call \in CommandIds
    /\ \/ /\ backend = "disabled" \/ (backend = "sidecar" /\ client = 0)
          /\ Return("failed", NothingRead) /\ UNCHANGED sockets
       \/ /\ backend = "sidecar" /\ client # 0
          /\ sockets' = Send(client, "exec", shell.call)
          /\ shell' = [shell EXCEPT !.at = "exec"]
          /\ UNCHANGED <<collected, results>>
    /\ UNCHANGED <<backend, client, outputs, shellRuns, drops>>

\* LocalProcessShellSession::exec_command: the command runs under the mutex
\* and is killed when the call is dropped.
RunLocally(ends) ==
    /\ backend = "local" /\ shell.at = "idle" /\ shell.call \in CommandIds
    /\ shellRuns' = [shellRuns EXCEPT ![shell.call] = @ + 1]
    /\ \/ /\ ends = "output"
          /\ outputs' = [outputs EXCEPT ![0] = OutputOf(shell.call)]
          /\ shell' = [shell EXCEPT !.at = "local"] /\ UNCHANGED <<collected, results>>
       \/ ends = "timeout" /\ Return("failed", NothingRead) /\ UNCHANGED outputs
    /\ UNCHANGED <<backend, client, sockets, drops>>

\* What has been read, with one more chunk.
Collected(text, piece) ==
    [out |-> IF piece.stream = "out" THEN text.out \o piece.data ELSE text.out,
     err |-> IF piece.stream = "err" THEN text.err \o piece.data ELSE text.err]

\* The loop of execute_with_shell_session over the local queue.
ReadLocally ==
    /\ shell.at = "local"
    /\ LET chunk == NextChunk(outputs[0])
       IN /\ outputs' = [outputs EXCEPT ![0] = chunk.rest]
          /\ IF chunk.eof THEN Return("ok", Collected(collected, chunk.piece))
             ELSE collected' = Collected(collected, chunk.piece) /\ UNCHANGED <<shell, results>>
    /\ UNCHANGED <<backend, client, sockets, shellRuns, drops>>

HasFrame == client # 0 /\ sockets[client].answers # <<>>
First == sockets[client].answers[1]
Received == [sockets EXCEPT ![client].answers = Tail(@)]

\* ExecCommandAck: go on with the output.
ReadAck ==
    /\ shell.at = "exec" /\ HasFrame /\ First.kind = "ack"
    /\ sockets' = [Received EXCEPT ![client].requests =
                      Append(@, [kind |-> "stream", call |-> shell.call])]
    /\ shell' = [shell EXCEPT !.at = "stream"]
    /\ UNCHANGED <<backend, client, outputs, collected, results, shellRuns, drops>>

\* A chunk of output; the last one ends the call.
ReadChunk ==
    /\ shell.at = "stream" /\ HasFrame /\ First.kind = "chunk"
    /\ IF First.chunk.eof
       THEN Return("ok", Collected(collected, First.chunk.piece)) /\ sockets' = Received
       ELSE /\ collected' = Collected(collected, First.chunk.piece)
            /\ sockets' = [Received EXCEPT ![client].requests =
                              Append(@, [kind |-> "stream", call |-> shell.call])]
            /\ UNCHANGED <<shell, results>>
    /\ UNCHANGED <<backend, client, outputs, shellRuns, drops>>

Expected == [exec |-> "ack", stream |-> "chunk", spawn |-> "spawned"]

\* is_recoverable_desync and reconnect: an error or the answer to another
\* request on the first attempt drops the connection and opens another.
Reconnect ==
    /\ shell.at \in {"exec", "stream"} /\ HasFrame /\ First.kind # Expected[shell.at]
    /\ shell.attempt = 1 \/ shell.at = "stream"
    /\ \E k \in Unused :
         /\ client' = 0
         /\ sockets' = [Received EXCEPT ![client].open = FALSE, ![k] =
               [FreshSocket EXCEPT !.requests = <<[kind |-> "spawn", call |-> shell.call]>>]]
         /\ shell' = [shell EXCEPT !.at = IF @ = "exec" THEN "spawn" ELSE "respawn"]
    /\ UNCHANGED <<backend, outputs, collected, results, shellRuns, drops>>

\* reconnect: the socket cannot be opened; the old connection is dropped
\* already, and nothing opens one again.
ReconnectRefused ==
    /\ shell.at \in {"exec", "stream"} /\ HasFrame /\ First.kind # Expected[shell.at]
    /\ shell.attempt = 1 \/ shell.at = "stream"
    /\ client' = 0 /\ sockets' = [Received EXCEPT ![client].open = FALSE]
    /\ Return("failed", NothingRead)
    /\ UNCHANGED <<backend, outputs, shellRuns, drops>>

\* exec_command, the second attempt: its error is returned.
FailAgain ==
    /\ shell.at = "exec" /\ HasFrame /\ First.kind # "ack" /\ shell.attempt = 2
    /\ sockets' = Received /\ Return("failed", NothingRead)
    /\ UNCHANGED <<backend, client, outputs, shellRuns, drops>>

\* reconnect, the end: exec_command sends its command again, stream_output
\* reports that the output is lost.
Reconnected(k) ==
    /\ shell.at \in {"spawn", "respawn"}
    /\ sockets[k].open /\ sockets[k].answers # <<>> /\ client = 0
    /\ client' = k
    /\ IF shell.at = "spawn"
       THEN /\ sockets' = [sockets EXCEPT ![k].answers = <<>>,
                  ![k].requests = <<[kind |-> "exec", call |-> shell.call]>>]
            /\ shell' = [shell EXCEPT !.at = "exec", !.attempt = 2]
            /\ UNCHANGED <<collected, results>>
       ELSE /\ sockets' = [sockets EXCEPT ![k].answers = <<>>]
            /\ Return("failed", NothingRead)
    /\ UNCHANGED <<backend, outputs, shellRuns, drops>>

\* The timeout of the tool or of the turn, or a cancellation, drops the
\* call where it waits: what it asked for stays asked, and a connection
\* half set up is gone with the old one.
DropCommand ==
    /\ drops < MaxDrops /\ shell.at # "idle"
    /\ drops' = drops + 1
    /\ Return("dropped", NothingRead)
    /\ sockets' = CASE shell.at \in {"spawn", "respawn"} ->
                       [k \in DOMAIN sockets |-> [sockets[k] EXCEPT !.open = FALSE]]
                    [] shell.at \in {"exec", "stream"} -> [sockets EXCEPT ![client].lost = @ + 1]
                    [] OTHER -> sockets
    /\ UNCHANGED <<backend, client, outputs, shellRuns>>

ShellDaemonStep(k) ==
    \/ DaemonSpawns(k) \/ DaemonStreams(k) \/ DaemonStarts(k)
    \/ DaemonFinishes(k) \/ DaemonTimesOut(k) \/ DaemonHangsUp(k)

ShellToolStep ==
    \/ Bootstrap \/ StartCommand \/ ReadLocally \/ ReadAck \/ ReadChunk
    \/ Reconnect \/ ReconnectRefused \/ FailAgain
    \/ \E ends \in {"output", "timeout"} : RunLocally(ends)
    \/ \E k \in 1..MaxSockets : Reconnected(k)

ShellNext ==
    \/ ShellToolStep
    \/ DropCommand
    \/ \E k \in 1..MaxSockets : ShellDaemonStep(k)

\* Commands end by their timeout, and both ends keep reading.
ShellFairness ==
    /\ WF_shellVars(ShellToolStep)
    /\ \A k \in 1..MaxSockets : WF_shellVars(ShellDaemonStep(k))

ShellSpec == ShellInit /\ [][ShellNext]_shellVars /\ ShellFairness

-----------------------------------------------------------------------------
\* A chunk may end here.
ChunkEdge(i) == \E k \in 0..i : i = k * ChunkBytes

\* The byte belongs to a character that the edge of a chunk or the end of what
\* the session keeps cuts in two.
CharCut(i, size) ==
    \/ i \in WideAt /\ (ChunkEdge(i) \/ i = size)
    \/ i - 1 \in WideAt /\ ChunkEdge(i - 1)

\* The first n bytes a command wrote to a stream, in order, each as it was
\* written or, where its character is cut, replaced.
ReadOf(text, c, stream, n, size) ==
    /\ text \in Seq({c} \X {stream} \X Nat) /\ Len(text) = n
    /\ \A i \in 1..n :
         text[i] = <<c, stream, i>> \/ (text[i] = <<c, stream, 0>> /\ CharCut(i, size))

\* What a call should return: its own output, up to the limit.
OutSize == Least(OutBytes, SessionBytes)
ErrSize == Least(ErrBytes, RoomForErr)
IsOwnOutput(text, c) ==
    ReadOf(text.out, c, "out", OutSize, OutSize) /\ ReadOf(text.err, c, "err", ErrSize, ErrSize)

\* A call that returns output returns the output of its own command, byte for
\* byte up to the session's limit but for characters that the edge of a chunk
\* cuts, also when it is the first after a call that was dropped and left its
\* answers on the connection: one call out of step is noticed by the kind of
\* an answer, and the connection replaced.
OutputOwnAfterDrop ==
    \A c \in CommandIds :
        results[c].ended = "ok" /\ results[c].lost <= 1 => IsOwnOutput(results[c].text, c)

\* The same, however many calls were dropped (VsockShellSession::reconnect:
\* "This recovers from protocol desync caused by client-side timeout
\* cancellation leaving stale response frames in the socket buffer").
OutputIsOwn ==
    \A c \in CommandIds : results[c].ended = "ok" => IsOwnOutput(results[c].text, c)

\* However calls are dropped, commands time out and connections are
\* replaced, the command of one call is started at most twice.
CommandRunsAtMostTwice == \A c \in CommandIds : shellRuns[c] <= 2

\* Every tool call of a started guest ends, so that the next gets the mutex:
\* no order of dropped calls, timeouts and reconnects leaves one waiting for
\* an answer that nobody will send.
ShellCallsReturn == (backend # "starting") ~> (shell.call > ShellCalls)

\* Output belongs to the command whose result it is in, as long as the
\* connection is not two calls out of step, and no command is run more often
\* than the single retry allows.
ShellAnswersSound == OutputOwnAfterDrop /\ CommandRunsAtMostTwice
-----------------------------------------------------------------------------
(* The inductive invariant of ShellAnswersSound.  What a connection still    *)
(* owes its client, in order: answers that were sent, the answer of the      *)
(* command that runs, the answers of the requests that wait.                 *)

\* The kind of request that an answer is for; only commands end in errors.
AnswersTo(kind) ==
    CASE kind = "spawned" -> "spawn" [] kind = "chunk" -> "stream" [] OTHER -> "exec"

Busy(s) == IF s.busy = 0 THEN 0 ELSE 1
Owed(s) == Len(s.answers) + Busy(s) + Len(s.requests)
OwedKind(s, i) ==
    IF i <= Len(s.answers) THEN AnswersTo(s.answers[i].kind)
    ELSE IF i = Len(s.answers) + Busy(s) THEN "exec"
    ELSE s.requests[i - Len(s.answers) - Busy(s)].kind

PieceOrNone(c, stream, from, to) ==
    IF from = to THEN <<>> ELSE <<Piece(stream, Bytes(c, stream, from, to))>>

\* m bytes of stdout and n of stderr of command c are read, the queue has the
\* others.
ReadUpTo(c, m, n, text, queue) ==
    /\ m < OutSize => n = 0 /\ ChunkEdge(m)
    /\ n < ErrSize => ChunkEdge(n)
    /\ ReadOf(text.out, c, "out", m, OutSize) /\ ReadOf(text.err, c, "err", n, ErrSize)
    /\ queue = PieceOrNone(c, "out", m, OutSize) \o PieceOrNone(c, "err", n, ErrSize)
InReading(c, text, queue) ==
    \E m \in 0..OutSize, n \in 0..ErrSize : ReadUpTo(c, m, n, text, queue)

\* A connection that lost no call is in step with its client: it owes what the
\* call that waits has asked for.
InStep(s, queue, sh, text) ==
    CASE sh.at = "exec" ->
           /\ Owed(s) = 1 /\ OwedKind(s, 1) = "exec"
           /\ s.busy # 0 => s.busy = sh.call
           /\ s.requests # <<>> => s.requests[1].call = sh.call
           /\ (s.answers # <<>> /\ s.answers[1].kind = "ack") => queue = OutputOf(sh.call)
      [] sh.at = "stream" ->
           /\ Owed(s) = 1 /\ OwedKind(s, 1) = "stream"
           /\ s.answers = <<>> => InReading(sh.call, text, queue)
           /\ s.answers # <<>> =>
                /\ InReading(sh.call, Collected(text, s.answers[1].chunk.piece), queue)
                /\ s.answers[1].chunk.eof = (queue = <<>>)
      [] OTHER -> Owed(s) = 0

\* One that lost a call owes an answer more, and the next answer is never the
\* output of the call that waits for output.
OneBehind(s, sh) ==
    CASE sh.at = "exec" -> Owed(s) = 2 /\ OwedKind(s, 2) = "exec"
      [] sh.at = "stream" ->
           Owed(s) = 2 /\ OwedKind(s, 1) = "exec" /\ OwedKind(s, 2) = "stream"
      [] OTHER -> Owed(s) = 1

\* The connection in use.
ClientSound(s, queue, sh, text) ==
    /\ s.open /\ sh.at \in {"idle", "exec", "stream"}
    /\ s.lost = 0 => InStep(s, queue, sh, text)
    /\ s.lost = 1 => OneBehind(s, sh)

\* One that is being set up.
SetUp(s, sh) ==
    sh.at \in {"spawn", "respawn"} /\ s.lost = 0 /\ Owed(s) = 1 /\ OwedKind(s, 1) = "spawn"

\* A client has at most one open connection.
Connected ==
    /\ client # 0 => ClientSound(sockets[client], outputs[client], shell, collected)
    /\ \A k \in 1..MaxSockets : sockets[k].open /\ k # client => SetUp(sockets[k], shell)
    /\ \A j, k \in 1..MaxSockets : sockets[j].open /\ sockets[k].open => j = k

\* Where a call may be.
CallPlaced ==
    /\ shell.at \in {"exec", "stream"} => client # 0
    /\ shell.at \in {"spawn", "respawn"} => backend = "sidecar" /\ client = 0
    /\ shell.at = "local" =>
         backend = "local" /\ InReading(shell.call, collected, outputs[0])
    /\ shell.at # "idle" => shell.call \in CommandIds
    /\ backend # "sidecar" => client = 0
    /\ backend \in {"starting", "disabled"} => shell.at = "idle"
    /\ shell.at \in {"idle", "exec", "spawn"} => collected = NothingRead

IsExec(c, r) == r.kind = "exec" /\ r.call = c
Awaits(c, requests) == \E i \in DOMAIN requests : IsExec(c, requests[i])
\* The connections on which a start of command c still waits.
AwaitingStart(c) == {k \in 1..MaxSockets : Awaits(c, sockets[k].requests)}
\* How often the command of a call may have been sent so far.
SentUpTo(c, sh) ==
    IF c < sh.call THEN 2
    ELSE IF c > sh.call \/ sh.at = "idle" THEN 0
    ELSE IF sh.at \in {"local", "spawn"} THEN 1 ELSE sh.attempt
AskedOnce(requests) ==
    \A c \in CommandIds : \A i, j \in DOMAIN requests :
        IsExec(c, requests[i]) /\ IsExec(c, requests[j]) => i = j

StartsCounted ==
    /\ \A c \in CommandIds : Cardinality(AwaitingStart(c)) + shellRuns[c] <= SentUpTo(c, shell)
    /\ \A k \in 1..MaxSockets : AskedOnce(sockets[k].requests)

OutputPieces == [stream : {"out", "err"}, data : Seq(CommandIds \X {"out", "err"} \X Nat)]
Chunks == [piece : OutputPieces, eof : BOOLEAN, rest : Seq(OutputPieces)]
ShellRequests == [kind : {"spawn", "exec", "stream"}, call : CommandIds]
ShellAnswers ==
    [kind : {"spawned", "ack", "error", "chunk"}, chunk : Chunks]
ShellSockets ==
    [requests : Seq(ShellRequests), answers : Seq(ShellAnswers), busy : {0} \cup CommandIds,
     open : BOOLEAN, lost : Nat]
ShellPlaces ==
    [call : 1..(ShellCalls + 1), attempt : 1..2,
     at : {"idle", "exec", "stream", "spawn", "respawn", "local"}]

ShellTypes ==
    /\ backend \in {"starting", "sidecar", "local", "disabled"}
    /\ client \in 0..MaxSockets
    /\ sockets \in [1..MaxSockets -> ShellSockets]
    /\ outputs \in [0..MaxSockets -> Seq(OutputPieces)]
    /\ shell \in ShellPlaces
    /\ results = [c \in CommandIds |-> results[c]]
    /\ shellRuns \in [CommandIds -> Nat]

ShellInv == ShellTypes /\ Connected /\ CallPlaced /\ StartsCounted /\ OutputOwnAfterDrop
=============================================================================
