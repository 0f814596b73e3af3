----------------------------- MODULE Scheduler ------------------------------
(***************************************************************************)
(* Scheduled tasks of one user: the polling executor                       *)
(* (crates/runtime/src/scheduler_executor.rs), the schedules and           *)
(* schedule_runs tables (crates/memory/src/scheduler_store.rs, cadence.rs) *)
(* and the tools by which turns create, edit and delete schedules          *)
(* (crates/tools/src/scheduler_tools.rs) while runs are under way.         *)
(*                                                                         *)
(* A step ends at a call of the store or at the end of the scheduled turn. *)
(* The executor works on the copy of the schedule that due_schedules gave  *)
(* it, an edit on the copy that get_schedule gave it.  A transaction of    *)
(* the store is one step.  A cron expression is an interval here: it has a *)
(* next time for ever.                                                     *)
(***************************************************************************)
EXTENDS Naturals, Sequences, FiniteSets, FiniteSetsExt

CONSTANTS
    Ids,           \* schedule ids that may be drawn
    Editors,       \* turns that may use the schedule tools concurrently
    MaxConcurrent, \* max_concurrent
    MaxSchedules,  \* max_schedules_per_user
    DisableAfter,  \* auto_disable_after_failures
    MaxHistory,    \* max_run_history
    Period,        \* every_secs of an interval
    OnceTimes,     \* times for which one-shots are asked
    MaxTime,       \* bound: clock
    MaxFailures,   \* bound: consecutive failures
    MaxFaults,     \* bound: crashes, panics and failures of the store
    None,          \* NULL, no run, no id drawn yet
    Gone           \* a deleted schedule; ids are never drawn twice

ASSUME SetsFinite == IsFiniteSet(Ids) /\ IsFiniteSet(Editors)
ASSUME LimitsType ==
    /\ {MaxConcurrent, MaxSchedules, DisableAfter, MaxHistory, Period} \subseteq Nat \ {0}
    /\ {MaxTime, MaxFailures, MaxFaults} \subseteq Nat /\ OnceTimes \subseteq 1..MaxTime

VARIABLES
    now,      \* Utc::now
    sched,    \* schedules, by id
    rows,     \* schedule_runs of each schedule, oldest first: their statuses
    run,      \* id -> its execute_schedule
    editor,   \* editor -> the tool call it is in the middle of
    executor, \* "up", "stopping" once cancelled, "ended", or "died" of a panic
    faults    \* crashes, panics and store failures so far

vars == <<now, sched, rows, run, editor, executor, faults>>

Interval == [kind |-> "interval"]
Once(t) == [kind |-> "once", at |-> t]
Cadences == {Interval} \cup {Once(t) : t \in OnceTimes}
Statuses == {"active", "paused", "completed", "disabled"}
Outcomes == {"success", "failed", "cancelled"}
Times == 0..(MaxTime + Period)
Schedules == [cadence : Cadences, status : Statuses, next : Times \cup {None},
              failures : Nat]
Runs == [phase : {"turn"}, cadence : Cadences, failures : Nat]
        \cup [phase : {"record"}, outcome : Outcomes, next : Times \cup {None},
              status : {"completed", "disabled", None}]
        \cup [phase : {"prune"}]
Idle == [op |-> "idle"]
Calls == {Idle, [op |-> "create"]}
         \cup [op : {"edit"}, id : Ids, cadence : Cadences, status : Statuses]

\* NULL and a row that is gone are no values of the columns.
ASSUME MarkersAssumption ==
    /\ None # Gone /\ None \notin Schedules \cup Runs \cup Statuses \cup Cadences \cup Times
    /\ Gone \notin Schedules

Known == {id \in Ids : sched[id] \notin {None, Gone}}

TypeOK ==
    /\ now \in 0..MaxTime
    /\ \A id \in Ids : sched[id] \in Schedules \cup {None, Gone}
    /\ \A id \in Ids : rows[id] \in Seq(Outcomes)
    /\ \A id \in Ids : run[id] \in Runs \cup {None}
    /\ editor \in [Editors -> Calls]
    /\ executor \in {"up", "stopping", "ended", "died"}
    /\ faults \in 0..MaxFaults

Init ==
    /\ now = 0
    /\ sched = [id \in Ids |-> None]
    /\ rows = [id \in Ids |-> <<>>]
    /\ run = [id \in Ids |-> None]
    /\ editor = [e \in Editors |-> Idle]
    /\ executor = "up"
    /\ faults = 0

\* next_run_for_cadence.
NextRun(cadence) ==
    IF cadence.kind = "interval" THEN now + Period
    ELSE IF cadence.at > now THEN cadence.at ELSE None

-----------------------------------------------------------------------------
(* The executor.                                                            *)

Due == {id \in Known : /\ sched[id].status = "active"
                       /\ sched[id].next # None
                       /\ sched[id].next <= now}

\* tick: run the MaxConcurrent longest overdue schedules; join_all lets no
\* other tick begin before they have all been recorded and pruned.  The
\* select! may choose the interval although the token is cancelled too.
Tick ==
    /\ executor \in {"up", "stopping"}
    /\ \A id \in Ids : run[id] = None
    /\ \E batch \in SUBSET Due :
         /\ batch # {}
         /\ Cardinality(batch) = Min({MaxConcurrent, Cardinality(Due)})
         /\ \A a \in batch, b \in Due \ batch : sched[a].next <= sched[b].next
         /\ run' = [id \in Ids |->
                      IF id \in batch
                      THEN [phase |-> "turn", cadence |-> sched[id].cadence,
                            failures |-> sched[id].failures]
                      ELSE None]
    /\ UNCHANGED <<now, sched, rows, editor, executor, faults>>

\* compute_reschedule, on the copy: anything but success is a failure, and a
\* one-shot whose time has come is completed whatever became of it.
Plan(copy, outcome) ==
    LET failures == IF outcome = "success" THEN 0 ELSE copy.failures + 1
        next == NextRun(copy.cadence) IN
    IF copy.cadence.kind = "once" /\ outcome = "success"
    THEN [next |-> None, status |-> "completed"]
    ELSE IF failures >= DisableAfter THEN [next |-> None, status |-> "disabled"]
    ELSE IF next = None THEN [next |-> None, status |-> "completed"]
    ELSE [next |-> next, status |-> None]

\* run_scheduled_turn returns, the text is shortened for the run's row and, of
\* a failed one, for its notification, the user is notified, the reschedule
\* computed.
EndTurn(id, outcome) ==
    /\ run[id] # None /\ run[id].phase = "turn"
    /\ outcome = "cancelled" => executor = "stopping"
    /\ outcome = "failed" => run[id].failures < MaxFailures
    /\ LET plan == Plan(run[id], outcome) IN
       run' = [run EXCEPT ![id] = [phase |-> "record", outcome |-> outcome,
                                   next |-> plan.next, status |-> plan.status]]
    /\ UNCHANGED <<now, sched, rows, editor, executor, faults>>

\* The text is shortened by bytes: where it is longer than 500, or 200 for an
\* error, and has a character across the cut, the slice panics.  The runs of a
\* batch are polled by the executor's own task, which nobody restarts: it ends,
\* with all of them.
TurnPanics(id) ==
    /\ run[id] # None /\ run[id].phase = "turn"
    /\ faults < MaxFaults /\ faults' = faults + 1
    /\ executor' = "died"
    /\ run' = [i \in Ids |-> None]
    /\ UNCHANGED <<now, sched, rows, editor>>

\* Mutant: every run that does not succeed counts as a failure.
RecordedCountsCancelled(def, r) ==
    [def EXCEPT !.failures = IF r.outcome = "success" THEN 0 ELSE @ + 1,
                !.next = r.next,
                !.status = IF r.status = None THEN @ ELSE r.status]

\* Mutant: a run that changes no status records the one it was started with.
RecordedActive(def, r) ==
    [def EXCEPT !.failures = IF r.outcome = "failed" THEN @ + 1 ELSE 0,
                !.next = r.next,
                !.status = IF r.status = None THEN "active" ELSE r.status]

\* The UPDATE of record_run_and_reschedule, on the row as it is by now.
Recorded(def, r) ==
    [def EXCEPT !.failures = IF r.outcome = "failed" THEN @ + 1 ELSE 0,
                !.next = r.next,
                !.status = IF r.status = None THEN @ ELSE r.status]

\* Mutant: a record that the store refuses is tried again until it succeeds.
RecordRetried(id) ==
    /\ run[id] # None /\ run[id].phase = "record"
    /\ id \in Known
    /\ rows' = [rows EXCEPT ![id] = Append(@, run[id].outcome)]
    /\ sched' = [sched EXCEPT ![id] = Recorded(@, run[id])]
    /\ run' = [run EXCEPT ![id] = [phase |-> "prune"]]
    /\ UNCHANGED <<now, editor, executor, faults>>

\* record_run_and_reschedule: both tables or neither.  The row of a deleted
\* schedule violates the foreign key; a failure is logged.
Record(id) ==
    /\ run[id] # None /\ run[id].phase = "record"
    /\ \/ /\ id \in Known
          /\ rows' = [rows EXCEPT ![id] = Append(@, run[id].outcome)]
          /\ sched' = [sched EXCEPT ![id] = Recorded(@, run[id])]
          /\ UNCHANGED faults
       \/ /\ id \notin Known
          /\ UNCHANGED <<rows, sched, faults>>
       \/ /\ faults < MaxFaults
          /\ faults' = faults + 1
          /\ UNCHANGED <<rows, sched>>
    /\ run' = [run EXCEPT ![id] = [phase |-> "prune"]]
    /\ UNCHANGED <<now, editor, executor>>

Newest(s, n) == SubSeq(s, IF Len(s) > n THEN Len(s) - n + 1 ELSE 1, Len(s))

\* prune_run_history; a failure is logged.
Prune(id) ==
    /\ run[id] # None /\ run[id].phase = "prune"
    /\ \/ /\ rows' = [rows EXCEPT ![id] = Newest(@, MaxHistory)]
          /\ UNCHANGED faults
       \/ /\ faults < MaxFaults
          /\ faults' = faults + 1
          /\ UNCHANGED rows
    /\ run' = [run EXCEPT ![id] = None]
    /\ UNCHANGED <<now, sched, editor, executor>>

\* ctrl_c cancels the executor's token, of which every run has a child.
Shutdown ==
    /\ executor = "up"
    /\ executor' = "stopping"
    /\ UNCHANGED <<now, sched, rows, run, editor, faults>>

StopLoop ==
    /\ executor = "stopping" /\ \A id \in Ids : run[id] = None
    /\ executor' = "ended"
    /\ UNCHANGED <<now, sched, rows, run, editor, faults>>

\* The process ends, cleanly or not, and is started again: only the
\* database survives.
Restart ==
    /\ faults < MaxFaults
    /\ faults' = faults + 1
    /\ executor' = "up"
    /\ run' = [id \in Ids |-> None]
    /\ editor' = [e \in Editors |-> Idle]
    /\ UNCHANGED <<now, sched, rows>>

-----------------------------------------------------------------------------
(* The tools.                                                               *)

\* validate_cadence: a one-shot lies in the future.
Valid(cadence) == cadence.kind = "once" => cadence.at > now

\* schedule_create: count, then insert.
StartCreate(e) ==
    /\ editor[e] = Idle
    /\ Cardinality(Known) < MaxSchedules
    /\ editor' = [editor EXCEPT ![e] = [op |-> "create"]]
    /\ UNCHANGED <<now, sched, rows, run, executor, faults>>

NewSchedule(cadence) ==
    [cadence |-> cadence, status |-> "active", next |-> NextRun(cadence), failures |-> 0]

Create(e, id, cadence) ==
    /\ editor[e].op = "create"
    /\ sched[id] = None /\ Valid(cadence)
    /\ sched' = [sched EXCEPT ![id] = NewSchedule(cadence)]
    /\ editor' = [editor EXCEPT ![e] = Idle]
    /\ UNCHANGED <<now, rows, run, executor, faults>>

\* schedule_edit: get_schedule ...
ReadForEdit(e, id) ==
    /\ editor[e] = Idle /\ id \in Known
    /\ editor' = [editor EXCEPT ![e] =
                    [op |-> "edit", id |-> id, cadence |-> sched[id].cadence,
                     status |-> sched[id].status]]
    /\ UNCHANGED <<now, sched, rows, run, executor, faults>>

\* The UPDATE of update_schedule: fields that are not given keep the value
\* they have by now.
Patched(def, status, cadence, next) ==
    [def EXCEPT !.cadence = IF cadence = None THEN @ ELSE cadence,
                !.status = IF status = None THEN @ ELSE status,
                !.next = next]

\* ... then update_schedule with the fields that are given.  Whether, and
\* from which cadence, next_run_at is computed depends on what was read.
Edit(e, status, cadence) ==
    /\ editor[e].op = "edit"
    /\ cadence # None => Valid(cadence)
    /\ LET id == editor[e].id
           from == IF cadence = None THEN editor[e].cadence ELSE cadence
           effective == IF status = None THEN editor[e].status ELSE status
           next == IF effective = "paused" THEN None
                   ELSE IF effective = "active" /\ (status # None \/ cadence # None)
                   THEN NextRun(from)
                   ELSE sched[id].next IN
       IF id \in Known
       THEN sched' = [sched EXCEPT ![id] = Patched(@, status, cadence, next)]
       ELSE UNCHANGED sched
    /\ editor' = [editor EXCEPT ![e] = Idle]
    /\ UNCHANGED <<now, rows, run, executor, faults>>

\* schedule_delete: the runs go with the schedule.
Delete(e, id) ==
    /\ editor[e] = Idle /\ id \in Known
    /\ sched' = [sched EXCEPT ![id] = Gone]
    /\ rows' = [rows EXCEPT ![id] = <<>>]
    /\ UNCHANGED <<now, run, editor, executor, faults>>

-----------------------------------------------------------------------------
Advance ==
    /\ now < MaxTime
    /\ now' = now + 1
    /\ UNCHANGED <<sched, rows, run, editor, executor, faults>>

RunStep(id) ==
    \/ \E outcome \in Outcomes : EndTurn(id, outcome)
    \/ TurnPanics(id) \/ Record(id) \/ Prune(id)
Tool(e) ==
    \/ StartCreate(e)
    \/ \E id \in Ids, cadence \in Cadences : Create(e, id, cadence)
    \/ \E id \in Ids : ReadForEdit(e, id) \/ Delete(e, id)
    \/ \E status \in {None, "active", "paused"}, cadence \in Cadences \cup {None} :
          Edit(e, status, cadence)

Next ==
    \/ Tick \/ Shutdown \/ StopLoop \/ Restart \/ Advance
    \/ \E id \in Ids : RunStep(id)
    \/ \E e \in Editors : Tool(e)

Spec == Init /\ [][Next]_vars
\* The interval keeps firing and the runs keep being polled; a turn comes to
\* an end by the limits of its policy.
Fairness == WF_vars(Tick) /\ \A id \in Ids : WF_vars(RunStep(id))
FairSpec == Spec /\ Fairness

-----------------------------------------------------------------------------
(* Properties.                                                              *)

Trailing(s) ==
    Max({k \in 0..Len(s) : \A i \in (Len(s) - k + 1)..Len(s) : s[i] = "failed"})

\* consecutive_failures is what it says: the number of failed runs at the
\* end of the history, as far as pruning has left the history, whatever
\* edits, cancelled runs, crashes and lost records came in between.
CounterMatchesHistory ==
    \A id \in Known :
        LET k == Trailing(rows[id]) IN
        IF k < MaxHistory THEN sched[id].failures = k ELSE sched[id].failures >= k

\* The executor never sets a schedule going again that was paused, disabled
\* or completed while its run was under way; only schedule_edit does.
OnlyEditsResume ==
    \A id \in Known :
        (sched[id].status # "active" /\ sched'[id] # Gone /\ sched'[id].status = "active")
            => \E e \in Editors : editor[e] # editor'[e]
ExecutorNeverResumes == [][OnlyEditsResume]_vars

\* A schedule is disabled for its last run, by which the limit was reached:
\* a failed one, or one that the shutdown cancelled, which counts like one
\* although the counter is reset for it.
DisabledForCause ==
    \A id \in Known :
        sched[id].status = "disabled" =>
            /\ rows[id] # <<>>
            /\ \/ rows[id][Len(rows[id])] = "cancelled"
               \/ sched[id].failures >= DisableAfter

\* No schedule starves: one that is due is run, or stopped or moved by its
\* owner, although others are due as well and each tick takes only
\* MaxConcurrent of them, unless the executor is told to stop or has died of
\* an answer it could not shorten.
DueIsRun ==
    \A id \in Ids :
        (id \in Due) ~> (id \notin Due \/ run[id] # None \/ executor # "up")

\* What the store says of a schedule is what happened to it.
SchedulesExact == TypeOK /\ CounterMatchesHistory /\ DisabledForCause

-----------------------------------------------------------------------------
(* The inductive invariant of SchedulesExact.                               *)

\* k failed runs end the history, and no more.
TrailingIs(s, k) ==
    /\ k \in 0..Len(s) /\ \A i \in (Len(s) - k + 1)..Len(s) : s[i] = "failed"
    /\ k < Len(s) => s[Len(s) - k] # "failed"
Counted(s, failures) ==
    \E k \in 0..Len(s) : TrailingIs(s, k) /\ IF k < MaxHistory THEN failures = k ELSE failures >= k

SchedulerMaps ==
    /\ sched = [id \in Ids |-> sched[id]] /\ rows = [id \in Ids |-> rows[id]]
    /\ run = [id \in Ids |-> run[id]]

\* An id that was not drawn yet has neither runs nor a history.
FreshIds == \A id \in Ids : sched[id] = None => run[id] = None /\ rows[id] = <<>>

\* A run works on a copy whose counter is still that of the schedule: a
\* schedule has one run at a time, and edits leave the counter alone.
CopiesCurrent ==
    \A id \in Known : run[id] # None =>
        /\ run[id].phase = "turn" => run[id].failures = sched[id].failures
        /\ run[id].phase \in {"turn", "record"} => sched[id].status # "disabled"
        /\ run[id].phase = "record" /\ run[id].status = "disabled" =>
             \/ run[id].outcome = "cancelled"
             \/ run[id].outcome = "failed" /\ sched[id].failures + 1 >= DisableAfter

SchedulerInv ==
    /\ TypeOK /\ SchedulerMaps /\ FreshIds /\ CopiesCurrent /\ DisabledForCause
    /\ \A id \in Known : Counted(rows[id], sched[id].failures)

-----------------------------------------------------------------------------
(* Documented promises the code does not keep.                              *)

\* guidebook 05:330, the executor "polls the `SchedulerStore` for due schedules
\* and dispatches them": not after an answer it could not shorten.
ExecutorServes ==
    \A id \in Ids :
        (id \in Due) ~> (id \notin Due \/ run[id] # None \/ executor \in {"stopping", "ended"})

\* guidebook 05:406, "Auto-disable - disables schedules that exceed
\* `auto_disable_after_failures` consecutive failures": a cancelled run disables
\* one, too, while the counter is reset for it.
DisabledForFailures ==
    \A id \in Known : sched[id].status = "disabled" => sched[id].failures >= DisableAfter

\* "One-shot completion - marks `Once` cadence schedules as `Completed`":
\* when a run is recorded, what becomes completed is a one-shot.
CompletedIsOneShot ==
    [][\A id \in Known :
         (sched[id].status # "completed" /\ sched'[id] # Gone
             /\ sched'[id].status = "completed")
            => sched[id].cadence.kind = "once"]_vars
=============================================================================
