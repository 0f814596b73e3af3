----------------------------- MODULE LogFollow ------------------------------
(***************************************************************************)
(* Reading a guest's logs: the daemon's bounded snapshot of the log files  *)
(* (crates/runner/src/lib.rs), `oxydra logs` and its --follow loop, which  *)
(* takes a snapshot every two seconds and prints what it has not printed   *)
(* yet (main.rs), and the configurator's reading of the same files when no *)
(* daemon answers (web/logs.rs).                                           *)
(*                                                                         *)
(* One guest with two streams.  A line keeps its text, which is as long as *)
(* its number, and whether its time stamp is before the --since threshold; *)
(* equal lines have equal hashes.                                          *)
(***************************************************************************)
EXTENDS Naturals, Sequences, FiniteSets, SequencesExt

CONSTANTS
    Texts,      \* what a line may say, and its length
    FirstTails, \* values of --tail
    PollTail,   \* the tail of a poll (100 in the code)
    Payload,    \* length of an answer (120 KiB in the code)
    SeenLimit,  \* hashes kept before they are forgotten (10 000 in the code)
    MaxLines    \* bound: lines of both files

ASSUME LogBounds ==
    /\ Texts \subseteq Nat \ {0} /\ FirstTails \subseteq Nat
    /\ {PollTail, Payload, SeenLimit, MaxLines} \subseteq Nat

Streams == <<"stdout", "stderr">>

VARIABLES
    logFiles,    \* the lines of each log file
    logRequest,  \* the request: streams in order, tail, since
    answer,      \* the last snapshot anyone was given, and whether a notice of its cut was
    daemonUp,    \* the control socket answers
    follower,    \* where the --follow loop is
    shown,       \* the entries it printed, whatever their order
    seen,        \* the hashes of those it remembers
    unpolled     \* history: lines of each file since its last snapshot

followVars == <<logRequest, follower, shown, seen, unpolled>>
logVars == <<logFiles, answer, daemonUp, followVars>>

Line(text, old) == [text |-> text, old |-> old]

-----------------------------------------------------------------------------
\* The last n of a sequence.
Newest(n, s) == SubSeq(s, IF Len(s) > n THEN Len(s) - n + 1 ELSE 1, Len(s))

\* read_log_file_tail, without the tail: the lines --since lets through.
Recent(stream, since) == SelectSeq(logFiles[stream], LAMBDA l : ~(since /\ l.old))

LogEntries(stream, lines) == [i \in DOMAIN lines |-> [stream |-> stream, line |-> lines[i]]]

\* What a request asks for, if nothing bounded the answer.
AllEntries(streams, since) ==
    FlattenSeq([k \in DOMAIN streams |-> LogEntries(streams[k], Recent(streams[k], since))])

\* The tail of each file, one file after the other, and the tail of the whole.
TailEntries(streams, tail, since) ==
    Newest(tail, FlattenSeq([k \in DOMAIN streams |->
        LogEntries(streams[k], Newest(tail, Recent(streams[k], since)))]))

\* A file longer than the tail, or all of them together.
CutByTail(streams, tail, since) == Len(AllEntries(streams, since)) > tail

Answer(entries, truncated) == [entries |-> entries, truncated |-> truncated, notice |-> FALSE]
WithNotice(a) == [a EXCEPT !.notice = a.truncated]

\* The payload: entries up to the first that would make it too long.
Keep(entries) ==
    LET Length(n) == FoldLeft(LAMBDA sum, e : sum + e.line.text, 0, SubSeq(entries, 1, n))
    IN CHOOSE n \in 0..Len(entries) :
         Length(n) <= Payload /\ (n = Len(entries) \/ Length(n + 1) > Payload)

\* Mutant: the payload's cut is not told.
SnapshotFileCutOnly(streams, tail, since) ==
    LET entries == TailEntries(streams, tail, since)
    IN Answer(SubSeq(entries, 1, Keep(entries)), CutByTail(streams, tail, since))

\* collect_logs_snapshot: a payload that is too long loses its end.
Snapshot(streams, tail, since) ==
    LET entries == TailEntries(streams, tail, since)
    IN Answer(SubSeq(entries, 1, Keep(entries)),
              CutByTail(streams, tail, since) \/ Keep(entries) < Len(entries))

\* collect_logs_from_workspace: the same files without the bound of a frame.
WorkspaceSnapshot(streams, tail, since) ==
    Answer(TailEntries(streams, tail, since), CutByTail(streams, tail, since))

-----------------------------------------------------------------------------
\* pump_pipe_to_file, or the Docker capture, appends a line the guest wrote to
\* the file of its stream; one that could not start or broke off appends none.
WriteLine(stream, text) ==
    /\ Len(logFiles["stdout"]) + Len(logFiles["stderr"]) < MaxLines
    /\ logFiles' = [logFiles EXCEPT ![stream] = Append(@, Line(text, FALSE))]
    /\ unpolled' = IF follower = "polling" THEN [unpolled EXCEPT ![stream] = @ + 1] ELSE unpolled
    /\ UNCHANGED <<answer, daemonUp, logRequest, follower, shown, seen>>

DaemonExits ==
    /\ daemonUp /\ daemonUp' = FALSE
    /\ UNCHANGED <<logFiles, answer, followVars>>

\* server_logs, and get_logs while the daemon answers: both say if it was cut.
ShowLogs ==
    /\ daemonUp
    /\ answer' = WithNotice(Snapshot(logRequest.streams, logRequest.tail, logRequest.since))
    /\ UNCHANGED <<logFiles, daemonUp, followVars>>

\* get_logs when the connection is refused or there is no socket.
ShowWorkspaceLogs ==
    /\ ~daemonUp
    /\ answer' = WithNotice(WorkspaceSnapshot(logRequest.streams, logRequest.tail, logRequest.since))
    /\ UNCHANGED <<logFiles, daemonUp, followVars>>

\* The entries of an answer that are not remembered are printed; a full set
\* is emptied afterwards.
PrintUnseen(entries) ==
    LET after == seen \cup Range(entries)
    IN /\ shown' = shown \cup (Range(entries) \ seen)
       /\ seen' = IF Cardinality(after) > SeenLimit THEN {} ELSE after

\* server_logs_follow, before its loop: everything is printed and remembered, and
\* nothing said of a cut.
StartFollowing ==
    /\ follower = "start" /\ daemonUp
    /\ answer' = Snapshot(logRequest.streams, logRequest.tail, logRequest.since)
    /\ shown' = Range(answer'.entries)
    /\ seen' = Range(answer'.entries)
    /\ follower' = "polling"
    /\ UNCHANGED <<logFiles, daemonUp, logRequest, unpolled>>

\* A poll: the newest lines whatever --tail and --since said.
PollLogs ==
    /\ follower = "polling" /\ daemonUp
    /\ answer' = Snapshot(logRequest.streams, PollTail, FALSE)
    /\ PrintUnseen(answer'.entries)
    /\ unpolled' = [s \in DOMAIN logFiles |-> 0]
    /\ UNCHANGED <<logFiles, daemonUp, logRequest, follower>>

\* The socket is gone or refuses: the loop ends.  Any other failed poll only
\* waits for the next one and changes nothing.
StopFollowing ==
    /\ follower \in {"start", "polling"} /\ ~daemonUp
    /\ follower' = "ended"
    /\ UNCHANGED <<logFiles, answer, daemonUp, logRequest, shown, seen, unpolled>>

LogInit ==
    /\ \E t \in Texts :
         logFiles \in [{"stdout", "stderr"} -> {<<>>, <<Line(t, TRUE)>>}]
    /\ logRequest \in [streams : {<<"stdout">>, Streams}, tail : FirstTails, since : BOOLEAN]
    /\ answer = Answer(<<>>, FALSE) /\ daemonUp = TRUE
    /\ follower = "start" /\ shown = {} /\ seen = {}
    /\ unpolled = [s \in DOMAIN logFiles |-> 0]

LogNext ==
    \/ \E s \in Range(Streams), t \in Texts : WriteLine(s, t)
    \/ DaemonExits \/ ShowLogs \/ ShowWorkspaceLogs
    \/ StartFollowing \/ PollLogs \/ StopFollowing

LogSpec == LogInit /\ [][LogNext]_logVars

-----------------------------------------------------------------------------
\* The lines of a stream since the last poll, as entries.
New(s) == Range(LogEntries(s, Newest(unpolled[s], logFiles[s])))
Polled == follower = "polling" /\ logFiles' = logFiles /\ unpolled' # unpolled

\* There is no room for the new lines of a stream in the answer to a poll.  The
\* streams asked for after it come first in the tail, with all of their last lines,
\* old or new; a payload that is too long loses its end.
Crowded(s) ==
    LET streams == logRequest.streams
        after == SelectSeq(streams, LAMBDA r : r # s /\ s = "stdout")
        entries == TailEntries(streams, PollTail, FALSE)
    IN \/ unpolled[s] + Len(TailEntries(after, PollTail, FALSE)) > PollTail
       \/ \E i \in Keep(entries) + 1 .. Len(entries) : entries[i].stream = s

\* A poll prints every new line of a stream for which the answer has room, whatever
\* was printed, remembered and forgotten before.  Where there is none the follower is
\* not told, and a line longer than an answer is never printed.
FollowMissesNothing ==
    [][\A s \in Range(logRequest.streams) : Polled /\ ~Crowded(s) => New(s) \subseteq shown']_logVars

\* What the guidebook's chapter 8 says of follow mode: polls bring the new entries.
\* That many of them fit into a poll is not enough if one stream hides the other.
FollowShowsNew ==
    [][Polled /\ Cardinality(New("stdout") \cup New("stderr")) <= PollTail
         /\ Keep(TailEntries(logRequest.streams, PollTail, FALSE)) = Len(TailEntries(logRequest.streams, PollTail, FALSE))
       => \A s \in Range(logRequest.streams) : New(s) \subseteq shown']_logVars

\* What the same chapter says of truncation: a notice is printed.
CutIsNoticed == answer.truncated => answer.notice

\* An answer that leaves out a line of what was asked for says that it is
\* truncated, whichever of the four bounds cut it; the follow loop, which asks for
\* PollTail lines whatever --tail said, prints no notice of it.
CutLogsTold ==
    [][answer' # answer /\ ~answer'.truncated =>
         Range(AllEntries(logRequest.streams, logRequest.since)) \subseteq Range(answer'.entries)]_logVars

\* A follower misses no line the answers have room for, and an answer that was cut
\* has its flag set.
LogsComplete == FollowMissesNothing /\ CutLogsTold
=============================================================================
