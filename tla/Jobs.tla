-------------------------------- MODULE Jobs --------------------------------
(***************************************************************************)
(* internal/jobs/jobs.go as the API server drives it                       *)
(* (internal/server/server.go): jobs are submitted, run on request, and    *)
(* run by the scheduler, each run a goroutine of its own.  A run launches  *)
(* the cluster job-<name>, runs the task on it, retries, and records the   *)
(* outcome in the job's record through Store.UpdateJob.                    *)
(*                                                                         *)
(* Jobs are never deleted, so a *state.Job is named by the job's name.     *)
(* Time is abstracted to whether NextRun has arrived.                      *)
(***************************************************************************)
EXTENDS Naturals

CONSTANTS
    Names,        \* job names
    Submissions,  \* submit requests, each sent once
    ApiRuns,      \* goroutines started by requests
    SchedRuns,    \* goroutines started by the scheduler
    None,         \* "no job"
    Retries,      \* Job.Retries of every job
    MaxFaults,    \* bound: failed saves
    MaxCrashes    \* bound: crashes of the server

ASSUME JobsAssumption ==
    /\ None \notin Names
    /\ \A j \in [from : Submissions, schedule : {"none", "every", "cron", "never"},
                 status : {"registered", "queued", "running", "done", "failed",
                           "stopped"},
                 next : {"zero", "future", "past"}] : None # j
    /\ ApiRuns \cap SchedRuns = {}
    /\ {Retries, MaxFaults, MaxCrashes} \subseteq Nat

VARIABLES
    job,      \* Store.jobs
    disk,     \* the jobs collection of the backend
    cluster,  \* does the record of cluster job-<name> exist?
    run,      \* the RunNow goroutines
    due,      \* the jobs Due returned, not yet spawned
    acked,    \* submissions answered with 200, and the name they were for
    faults,
    crashes

vars == <<job, disk, cluster, run, due, acked, faults, crashes>>

-----------------------------------------------------------------------------
(* Values *)

Runs == ApiRuns \cup SchedRuns

(* "none" runs on demand only; "every" is an @every duration; "cron" a cron
   expression, "never" one that matches no minute of the next year. *)
Schedule == {"none", "every", "cron", "never"}

JobStatus == {"registered", "queued", "running", "done", "failed", "stopped"}

Job == [from     : Submissions,      \* the submission it was built from
        schedule : Schedule,
        status   : JobStatus,
        next     : {"zero", "future", "past"}]

Run == [pc      : {"idle", "start", "launch", "task", "success", "failure",
                   "giveUp", "reschedule"},
        job     : Names \cup {None},
        attempt : 0..Retries,
        err     : {"none", "launch", "exists", "task"}]  \* lastErr

TypeOK ==
    /\ job \in [Names -> Job \cup {None}]
    /\ disk \in [Names -> Job \cup {None}]
    /\ cluster \in [Names -> BOOLEAN]
    /\ run \in [Runs -> Run]
    /\ due \subseteq Names
    /\ acked \subseteq Submissions \X Names
    /\ faults \in 0..MaxFaults
    /\ crashes \in 0..MaxCrashes

NoRun == [pc |-> "idle", job |-> None, attempt |-> 0, err |-> "none"]

Init ==
    /\ job = [n \in Names |-> None]
    /\ disk = job
    /\ cluster = [n \in Names |-> FALSE]
    /\ run = [r \in Runs |-> NoRun]
    /\ due = {}
    /\ acked = {}
    /\ faults = 0
    /\ crashes = 0

-----------------------------------------------------------------------------
(* Helpers *)

(* Store.save after a change of the jobs; every caller drops its error. *)
Save ==
    \/ disk' = job' /\ UNCHANGED faults
    \/ faults < MaxFaults /\ faults' = faults + 1 /\ UNCHANGED disk

(* A new goroutine calls RunNow(n). *)
Spawn(r, n) ==
    /\ run[r].pc = "idle"
    /\ run' = [run EXCEPT ![r] = [NoRun EXCEPT !.pc = "start", !.job = n]]

(* RunNow returned: the scheduler's goroutine goes on to Reschedule. *)
Return(r) ==
    IF r \in SchedRuns THEN [run[r] EXCEPT !.pc = "reschedule"] ELSE NoRun

(* Store.UpdateJob on the job of run r. *)
Update(r, fields) ==
    /\ job' = [job EXCEPT ![run[r].job] = fields]
    /\ Save

-----------------------------------------------------------------------------
(* Mutant: a second submission replaces the job. *)
SubmitOverwrites(n, s, sc) ==
    /\ job' = [job EXCEPT ![n] =
                 [from |-> s, schedule |-> sc,
                  status |-> IF sc = "none" THEN "queued" ELSE "registered",
                  next |-> CASE sc = "none" -> "zero"
                             [] sc = "every" -> "future"
                             [] OTHER -> "past"]]
    /\ Save

(* Manager.Submit: AddJob refuses a name that is taken, and Submit drops its
   error.  NextRun is now for a cron expression, later for @every. *)
Submit(n, s, sc) ==
    \/ /\ job[n] = None
       /\ job' = [job EXCEPT ![n] =
                    [from |-> s, schedule |-> sc,
                     status |-> IF sc = "none" THEN "queued" ELSE "registered",
                     next |-> CASE sc = "none" -> "zero"
                                [] sc = "every" -> "future"
                                [] OTHER -> "past"]]
       /\ Save
    \/ /\ job[n] # None
       /\ UNCHANGED <<job, disk, faults>>

(* handleSubmitJob, without and with run_now. *)
HandleSubmit(n, s, sc) ==
    /\ \A a \in acked : a[1] # s
    /\ Submit(n, s, sc)
    /\ acked' = acked \cup {<<s, n>>}
    /\ \/ UNCHANGED run
       \/ \E r \in ApiRuns : Spawn(r, n)
    /\ UNCHANGED <<cluster, due, crashes>>

(* handleRunJob: refused while the status is running. *)
HandleRun(n) ==
    /\ job[n] # None
    /\ job[n].status # "running"
    /\ \E r \in ApiRuns : Spawn(r, n)
    /\ UNCHANGED <<job, disk, cluster, due, acked, faults, crashes>>

(* Mutant: a failed job is not due again. *)
DueNotFailed(n) ==
    /\ job[n] # None
    /\ job[n].schedule # "none"
    /\ job[n].status \notin {"running", "queued", "failed"}
    /\ job[n].next = "past"

(* Manager.Due. *)
Due(n) ==
    /\ job[n] # None
    /\ job[n].schedule # "none"
    /\ job[n].status \notin {"running", "queued"}
    /\ job[n].next = "past"

(* scheduler: at a tick, Due; then one goroutine per due job. *)
Tick ==
    /\ due = {}
    /\ due' = {n \in Names : Due(n)}
    /\ due' # {}
    /\ UNCHANGED <<job, disk, cluster, run, acked, faults, crashes>>

SpawnDue ==
    /\ \E n \in due, r \in SchedRuns : due' = due \ {n} /\ Spawn(r, n)
    /\ UNCHANGED <<job, disk, cluster, acked, faults, crashes>>

(* RunNow: GetJob, task.Load, then status running. *)
Begin(r) ==
    LET n == run[r].job
    IN  /\ run[r].pc = "start"
        /\ \/ /\ run' = [run EXCEPT ![r] = Return(r)]
              /\ UNCHANGED <<job, disk, faults>>
           \/ /\ job[n] # None
              /\ Update(r, [job[n] EXCEPT !.status = "running"])
              /\ run' = [run EXCEPT ![r].pc = "launch"]
        /\ UNCHANGED <<cluster, due, acked, crashes>>

(* runOnce: the placement and Prov.Launch.  Launch refuses a cluster that is
   recorded, fails before or after it recorded the cluster, or succeeds. *)
Launch(r) ==
    LET n == run[r].job
        Failed(e) == [run EXCEPT ![r].pc = "failure", ![r].err = e]
    IN  /\ run[r].pc = "launch"
        /\ \/ /\ run' = Failed("launch")
              /\ UNCHANGED cluster
           \/ /\ cluster[n]
              /\ run' = Failed("exists")
              /\ UNCHANGED cluster
           \/ /\ ~cluster[n]
              /\ cluster' = [cluster EXCEPT ![n] = TRUE]
              /\ run' \in {Failed("launch"), [run EXCEPT ![r].pc = "task"]}
        /\ UNCHANGED <<job, disk, due, acked, faults, crashes>>

(* runOnce: Prov.RunTask.  A command that exits non-zero is no error, and
   the exit code is dropped: it is a success like any other. *)
RunTask(r) ==
    LET n == run[r].job
    IN  /\ run[r].pc = "task"
        /\ \/ run' = [run EXCEPT ![r].pc = "failure", ![r].err = "task"]
           \/ cluster[n] /\ run' = [run EXCEPT ![r].pc = "success"]
        /\ UNCHANGED <<job, disk, cluster, due, acked, faults, crashes>>

(* RunNow: the attempt succeeded. *)
Success(r) ==
    /\ run[r].pc = "success"
    /\ Update(r, [job[run[r].job] EXCEPT !.status = "done"])
    /\ run' = [run EXCEPT ![r] = Return(r)]
    /\ UNCHANGED <<cluster, due, acked, crashes>>

(* Mutant: one retry too many. *)
FailureExtraRetry(r) ==
    /\ run[r].pc = "failure"
    /\ Update(r, job[run[r].job])
    /\ IF run[r].attempt <= Retries
       THEN run' = [run EXCEPT ![r].pc = "launch", ![r].attempt = @ + 1,
                               ![r].err = "none"]
       ELSE run' = [run EXCEPT ![r].pc = "giveUp"]
    /\ UNCHANGED <<cluster, due, acked, crashes>>

(* RunNow: the attempt failed; the counters and the error are recorded, and
   the loop goes on while there are retries left. *)
Failure(r) ==
    /\ run[r].pc = "failure"
    /\ Update(r, job[run[r].job])
    /\ IF run[r].attempt < Retries
       THEN run' = [run EXCEPT ![r].pc = "launch", ![r].attempt = @ + 1,
                               ![r].err = "none"]
       ELSE run' = [run EXCEPT ![r].pc = "giveUp"]
    /\ UNCHANGED <<cluster, due, acked, crashes>>

(* Mutant: the error is returned without the final status. *)
GiveUpSilently(r) ==
    /\ run[r].pc = "giveUp"
    /\ run' = [run EXCEPT ![r] = Return(r)]
    /\ UNCHANGED <<job, disk, faults, cluster, due, acked, crashes>>

(* RunNow: out of retries. *)
GiveUp(r) ==
    /\ run[r].pc = "giveUp"
    /\ Update(r, [job[run[r].job] EXCEPT !.status = "failed"])
    /\ run' = [run EXCEPT ![r] = Return(r)]
    /\ UNCHANGED <<cluster, due, acked, crashes>>

(* Reschedule: the job the scheduler holds, by name. *)
Reschedule(r) ==
    LET n == run[r].job
    IN  /\ run[r].pc = "reschedule"
        /\ IF job[n] = None THEN UNCHANGED <<job, disk, faults>>
           ELSE Update(r, IF job[n].schedule = "never"
                          THEN [job[n] EXCEPT !.status = "stopped",
                                              !.next = "zero"]
                          ELSE [job[n] EXCEPT !.status = "registered",
                                              !.next = "future"])
        /\ run' = [run EXCEPT ![r] = NoRun]
        /\ UNCHANGED <<cluster, due, acked, crashes>>

-----------------------------------------------------------------------------
(* NextRun arrives, and it may be the NextRun that was saved. *)
Elapse(n) ==
    /\ job[n] # None
    /\ job[n].next = "future"
    /\ job' = [job EXCEPT ![n].next = "past"]
    /\ \/ UNCHANGED disk
       \/ /\ disk[n] # None
          /\ disk[n].next = "future"
          /\ disk' = [disk EXCEPT ![n].next = "past"]
    /\ UNCHANGED <<cluster, run, due, acked, faults, crashes>>

(* The user tears the job's cluster down. *)
DownCluster(n) ==
    /\ cluster[n]
    /\ cluster' = [cluster EXCEPT ![n] = FALSE]
    /\ UNCHANGED <<job, disk, run, due, acked, faults, crashes>>

(* The server dies and starts again on what the backend holds. *)
Crash ==
    /\ crashes < MaxCrashes
    /\ crashes' = crashes + 1
    /\ job' = disk
    /\ run' = [r \in Runs |-> NoRun]
    /\ due' = {}
    /\ UNCHANGED <<disk, cluster, acked, faults>>

-----------------------------------------------------------------------------
(* One step of RunNow, or of the scheduler's goroutine around it. *)
Step(r) ==
    \/ Begin(r)
    \/ Launch(r)
    \/ RunTask(r)
    \/ Success(r)
    \/ Failure(r)
    \/ GiveUp(r)
    \/ Reschedule(r)

Next ==
    \/ \E n \in Names, s \in Submissions, sc \in Schedule : HandleSubmit(n, s, sc)
    \/ \E n \in Names : HandleRun(n)
    \/ Tick
    \/ SpawnDue
    \/ \E r \in Runs : Step(r)
    \/ \E n \in Names : Elapse(n)
    \/ \E n \in Names : DownCluster(n)
    \/ Crash

Spec == Init /\ [][Next]_vars

(* The ticker fires every ten seconds, goroutines are scheduled and their
   calls return, and time passes.  Requests and crashes need not happen. *)
FairSpec ==
    /\ Spec
    /\ WF_vars(Tick)
    /\ WF_vars(SpawnDue)
    /\ \A r \in Runs : WF_vars(Step(r))
    /\ \A n \in Names : WF_vars(Elapse(n))

-----------------------------------------------------------------------------
(* Correctness *)

(* Run r is one of job n, past the point where it wrote status running. *)
Running(r, n) ==
    run[r].job = n /\ run[r].pc \in {"launch", "task", "success", "failure",
                                     "giveUp"}

(* The status running, for which handleRunJob and Due refuse a job, is not
   stale while the server lives: some run of the job is really on its way, so
   the job is not barred for ever.  (A crash in a run leaves it stale.) *)
RunningIsTrue ==
    crashes = 0 =>
        \A n \in Names : (job[n] # None /\ job[n].status = "running") =>
            \E r \in Runs : Running(r, n)

(* A saved job is never replaced or lost, by later submissions of its name,
   failed saves or crashes. *)
FirstSubmissionWins ==
    [][\A n \in Names : disk[n] # None =>
         /\ disk'[n] # None /\ disk'[n].from = disk[n].from
         /\ job'[n] # None /\ job'[n].from = disk[n].from]_vars

(* A job with a schedule is run again and again, whatever its runs come to,
   whatever requests run it in between and whichever saves fail, as long as the
   server lives (a crash in a run leaves the job running for ever). *)
ScheduledJobsRecur ==
    \A n \in Names :
        []<>(\/ job[n] = None
             \/ crashes > 0
             \/ job[n].schedule \in {"none", "never"}
             \/ \E r \in Runs : run[r].job = n /\ run[r].pc = "start")
=============================================================================
