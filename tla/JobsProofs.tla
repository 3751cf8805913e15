----------------------------- MODULE JobsProofs -----------------------------
(***************************************************************************)
(* Proofs about Jobs, for every number of jobs, submissions, goroutines,   *)
(* retries, faults and crashes.                                            *)
(***************************************************************************)
EXTENDS Jobs, TLAPS

(* A run that has begun, and a due job, has a record. *)
HasJob ==
    /\ \A r \in Runs : run[r].pc # "idle" =>
         run[r].job \in Names /\ job[run[r].job] # None
    /\ \A n \in due : job[n] # None

(* What is saved is still in memory. *)
DiskInMemory ==
    \A n \in Names : disk[n] # None =>
        job[n] # None /\ job[n].from = disk[n].from

LEMMA NoRunType == NoRun \in Run
BY JobsAssumption DEF NoRun, Run

LEMMA SpawnType ==
    ASSUME TypeOK, NEW r \in Runs, NEW n \in Names, Spawn(r, n)
    PROVE  /\ run' \in [Runs -> Run]
           /\ run[r].pc = "idle" /\ run'[r].pc = "start" /\ run'[r].job = n
           /\ \A q \in Runs : q # r => run'[q] = run[q]
<1>1. [NoRun EXCEPT !.pc = "start", !.job = n] \in Run
  BY NoRunType DEF Run
<1>2. run' = [run EXCEPT ![r] = [NoRun EXCEPT !.pc = "start", !.job = n]]
  BY DEF Spawn
<1>3. [NoRun EXCEPT !.pc = "start", !.job = n].pc = "start"
      /\ [NoRun EXCEPT !.pc = "start", !.job = n].job = n
  BY DEF NoRun
<1>4. run'[r] = [NoRun EXCEPT !.pc = "start", !.job = n]
  BY <1>2 DEF TypeOK
<1> QED BY <1>1, <1>2, <1>3, <1>4 DEF TypeOK, Spawn

LEMMA ReturnType ==
    ASSUME TypeOK, NEW r \in Runs
    PROVE  /\ Return(r) \in Run
           /\ Return(r).pc \in {"idle", "reschedule"}
           /\ Return(r).pc # "idle" => Return(r).job = run[r].job
<1>1. CASE r \in SchedRuns
  <2>1. Return(r) = [run[r] EXCEPT !.pc = "reschedule"]
    BY <1>1 DEF Return
  <2> QED BY <2>1 DEF TypeOK, Run
<1>2. CASE r \notin SchedRuns
  BY <1>2, NoRunType DEF Return, NoRun
<1> QED BY <1>1, <1>2

LEMMA SaveType ==
    ASSUME TypeOK, Save, job' \in [Names -> Job \cup {None}]
    PROVE  disk' \in [Names -> Job \cup {None}] /\ faults' \in 0..MaxFaults
BY JobsAssumption DEF Save, TypeOK

(* The fields UpdateJob may write. *)
LEMMA JobFields ==
    ASSUME NEW j \in Job,
           NEW st \in {"registered", "queued", "running", "done", "failed", "stopped"},
           NEW nx \in {"zero", "future", "past"}
    PROVE  /\ [j EXCEPT !.status = st] \in Job
           /\ [j EXCEPT !.status = st].status = st
           /\ [j EXCEPT !.status = st].from = j.from
           /\ [j EXCEPT !.status = st, !.next = nx] \in Job
           /\ [j EXCEPT !.status = st, !.next = nx].status = st
           /\ [j EXCEPT !.status = st, !.next = nx].from = j.from
           /\ [j EXCEPT !.next = nx] \in Job
           /\ [j EXCEPT !.next = nx].status = j.status
           /\ [j EXCEPT !.next = nx].from = j.from
BY DEF Job, JobStatus

LEMMA UpdateType ==
    ASSUME TypeOK, NEW r \in Runs, run[r].job \in Names, NEW f \in Job,
           Update(r, f)
    PROVE  /\ job' \in [Names -> Job \cup {None}]
           /\ job'[run[r].job] = f
           /\ \A n \in Names : n # run[r].job => job'[n] = job[n]
           /\ disk' \in [Names -> Job \cup {None}]
           /\ faults' \in 0..MaxFaults
           /\ disk' \in {disk, job'}
<1>1. job' = [job EXCEPT ![run[r].job] = f]
  BY DEF Update
<1>2. job' \in [Names -> Job \cup {None}]
  BY <1>1 DEF TypeOK
<1> QED BY <1>1, <1>2, SaveType DEF Update, TypeOK, Save

(* What a step of run r does, in the terms the invariants use: the status and
   the origin of a job, the position and the job of a run. *)
Midway == {"launch", "task", "success", "failure", "giveUp"}

StepShape(r) ==
    /\ run' \in [Runs -> Run]
    /\ \A q \in Runs : q # r => run'[q] = run[q]
    /\ run'[r].pc # "idle" => run'[r].job = run[r].job
    /\ job' \in [Names -> Job \cup {None}]
    /\ disk' \in [Names -> Job \cup {None}]
    /\ faults' \in 0..MaxFaults
    /\ cluster' \in [Names -> BOOLEAN]
    /\ UNCHANGED <<due, acked, crashes>>
    /\ disk' \in {disk, job'}
    /\ \A m \in Names : m # run[r].job => job'[m] = job[m]
    /\ job'[run[r].job] # None
    /\ job'[run[r].job].from = job[run[r].job].from
    /\ \/ job' = job /\ run[r].pc \notin Midway
       \/ job' = job /\ run'[r].pc \in Midway
       \/ job'[run[r].job].status # "running"
       \/ run'[r].pc \in Midway

LEMMA StepKeeps ==
    ASSUME TypeOK, HasJob, NEW r \in Runs, Step(r)
    PROVE  run[r].pc # "idle" /\ StepShape(r)
<1> DEFINE n == run[r].job
<1>0. run[r].pc # "idle" /\ UNCHANGED <<due, acked, crashes>>
  BY DEF Step, Begin, Launch, RunTask, Success, Failure, GiveUp, Reschedule
<1>1. n \in Names /\ job[n] # None /\ job[n] \in Job
  BY <1>0 DEF HasJob, TypeOK
<1>2. ASSUME NEW v \in Run, run' = [run EXCEPT ![r] = v]
      PROVE  /\ run' \in [Runs -> Run] /\ run'[r] = v
             /\ \A q \in Runs : q # r => run'[q] = run[q]
  BY <1>2 DEF TypeOK
<1>3. ASSUME NEW f \in Job, f.from = job[n].from, Update(r, f)
      PROVE  /\ job' \in [Names -> Job \cup {None}]
             /\ disk' \in [Names -> Job \cup {None}]
             /\ faults' \in 0..MaxFaults
             /\ disk' \in {disk, job'}
             /\ \A m \in Names : m # n => job'[m] = job[m]
             /\ job'[n] = f /\ job'[n] # None /\ job'[n].from = job[n].from
  <2>1. f # None
    BY JobsAssumption DEF Job, Schedule, JobStatus
  <2> QED BY <1>1, <1>3, <2>1, UpdateType
<1>4. ASSUME NEW v \in Run, v.pc # "idle" => v.job = n,
             run' = [run EXCEPT ![r] = v],
             UNCHANGED <<job, disk, faults>>, cluster' \in [Names -> BOOLEAN],
             run[r].pc \notin Midway \/ v.pc \in Midway
      PROVE  StepShape(r)
  <2>1. /\ run' \in [Runs -> Run] /\ run'[r] = v
        /\ \A q \in Runs : q # r => run'[q] = run[q]
    BY <1>2, <1>4
  <2> QED BY <1>0, <1>1, <1>4, <2>1 DEF StepShape, TypeOK
<1>5. ASSUME NEW v \in Run, v.pc # "idle" => v.job = n,
             run' = [run EXCEPT ![r] = v],
             NEW f \in Job, f.from = job[n].from, Update(r, f),
             UNCHANGED cluster,
             f.status # "running" \/ v.pc \in Midway
      PROVE  StepShape(r)
  <2>1. /\ run' \in [Runs -> Run] /\ run'[r] = v
        /\ \A q \in Runs : q # r => run'[q] = run[q]
    BY <1>2, <1>5
  <2>2. cluster' \in [Names -> BOOLEAN]
    BY <1>5 DEF TypeOK
  <2> QED BY <1>0, <1>3, <1>5, <2>1, <2>2 DEF StepShape
<1>6. Return(r) \in Run /\ Return(r).pc \in {"idle", "reschedule"}
      /\ (Return(r).pc # "idle" => Return(r).job = n)
  BY ReturnType
<1>7. ASSUME NEW l \in {"launch", "task", "giveUp"}
      PROVE  LET v == [run[r] EXCEPT !.pc = l]
             IN  v \in Run /\ v.pc = l /\ v.job = n
  BY DEF TypeOK, Run
<1>8. CASE Begin(r)
  <2>1. CASE run' = [run EXCEPT ![r] = Return(r)] /\ UNCHANGED <<job, disk, faults>>
    <3>1. run[r].pc \notin Midway /\ cluster' \in [Names -> BOOLEAN]
      BY <1>8 DEF Begin, Midway, TypeOK
    <3> QED BY <1>0, <1>4, <1>6, <2>1, <3>1
  <2>2. CASE Update(r, [job[n] EXCEPT !.status = "running"])
             /\ run' = [run EXCEPT ![r].pc = "launch"]
    <3> DEFINE v == [run[r] EXCEPT !.pc = "launch"]
               f == [job[n] EXCEPT !.status = "running"]
    <3>1. v \in Run /\ v.pc = "launch" /\ v.job = n
      BY <1>7
    <3>2. f \in Job /\ f.from = job[n].from
      BY <1>1, JobFields
    <3>3. run' = [run EXCEPT ![r] = v] /\ UNCHANGED cluster
      BY <1>8, <2>2 DEF Begin, TypeOK
    <3>4. v.pc \in Midway
      BY <3>1 DEF Midway
    <3> HIDE DEF v
    <3> QED BY <1>0, <1>5, <2>2, <3>1, <3>2, <3>3, <3>4
  <2> QED BY <1>8, <2>1, <2>2 DEF Begin
<1>9. CASE Launch(r)
  <2>1. PICK v \in Run : /\ v.job = n /\ v.pc \in Midway
                         /\ run' = [run EXCEPT ![r] = v]
    <3> DEFINE t == [run[r] EXCEPT !.pc = "task"]
               x(e) == [run[r] EXCEPT !.pc = "failure", !.err = e]
    <3>1. t \in Run /\ t.pc \in Midway /\ t.job = n
      BY <1>7 DEF Midway
    <3>2. \A e \in {"launch", "exists"} :
            x(e) \in Run /\ x(e).pc \in Midway /\ x(e).job = n
      BY DEF TypeOK, Run, Midway
    <3>3. run' \in {[run EXCEPT ![r] = t], [run EXCEPT ![r] = x("launch")],
                    [run EXCEPT ![r] = x("exists")]}
      BY <1>9 DEF Launch, TypeOK
    <3> HIDE DEF t, x
    <3> QED BY <3>1, <3>2, <3>3
  <2>2. UNCHANGED <<job, disk, faults>> /\ cluster' \in [Names -> BOOLEAN]
    BY <1>9 DEF Launch, TypeOK
  <2> QED BY <1>0, <1>4, <2>1, <2>2
<1>10. CASE RunTask(r)
  <2>1. PICK v \in Run : /\ v.job = n /\ v.pc \in Midway
                         /\ run' = [run EXCEPT ![r] = v]
    <3> DEFINE t == [run[r] EXCEPT !.pc = "success"]
               x == [run[r] EXCEPT !.pc = "failure", !.err = "task"]
    <3>1. t \in Run /\ t.pc \in Midway /\ t.job = n
      BY DEF TypeOK, Run, Midway
    <3>2. x \in Run /\ x.pc \in Midway /\ x.job = n
      BY DEF TypeOK, Run, Midway
    <3>3. run' \in {[run EXCEPT ![r] = t], [run EXCEPT ![r] = x]}
      BY <1>10 DEF RunTask, TypeOK
    <3> HIDE DEF t, x
    <3> QED BY <3>1, <3>2, <3>3
  <2>2. UNCHANGED <<job, disk, faults>> /\ cluster' \in [Names -> BOOLEAN]
    BY <1>10 DEF RunTask, TypeOK
  <2> QED BY <1>0, <1>4, <2>1, <2>2
<1>11. CASE Success(r)
  <2> DEFINE f == [job[n] EXCEPT !.status = "done"]
  <2>1. f \in Job /\ f.from = job[n].from /\ f.status # "running"
    BY <1>1, JobFields
  <2>2. run' = [run EXCEPT ![r] = Return(r)] /\ Update(r, f) /\ UNCHANGED cluster
    BY <1>11 DEF Success
  <2> HIDE DEF f
  <2> QED BY <1>0, <1>5, <1>6, <2>1, <2>2
<1>12. CASE GiveUp(r)
  <2> DEFINE f == [job[n] EXCEPT !.status = "failed"]
  <2>1. f \in Job /\ f.from = job[n].from /\ f.status # "running"
    BY <1>1, JobFields
  <2>2. run' = [run EXCEPT ![r] = Return(r)] /\ Update(r, f) /\ UNCHANGED cluster
    BY <1>12 DEF GiveUp
  <2> HIDE DEF f
  <2> QED BY <1>0, <1>5, <1>6, <2>1, <2>2
<1>13. CASE Failure(r)
  <2>1. PICK v \in Run : /\ v.job = n /\ v.pc \in Midway
                         /\ run' = [run EXCEPT ![r] = v]
    <3>1. CASE run[r].attempt < Retries
      <4> DEFINE v == [run[r] EXCEPT !.pc = "launch", !.attempt = @ + 1,
                                     !.err = "none"]
      <4>1. run[r].attempt + 1 \in 0..Retries
        BY <3>1, JobsAssumption DEF TypeOK, Run
      <4>2. v \in Run /\ v.pc \in Midway /\ v.job = n
        BY <4>1 DEF TypeOK, Run, Midway
      <4>3. run' = [run EXCEPT ![r] = v]
        BY <1>13, <3>1 DEF Failure, TypeOK
      <4> HIDE DEF v
      <4> QED BY <4>2, <4>3
    <3>2. CASE ~(run[r].attempt < Retries)
      <4> DEFINE v == [run[r] EXCEPT !.pc = "giveUp"]
      <4>1. v \in Run /\ v.pc \in Midway /\ v.job = n
        BY <1>7 DEF Midway
      <4>2. run' = [run EXCEPT ![r] = v]
        BY <1>13, <3>2 DEF Failure, TypeOK
      <4> HIDE DEF v
      <4> QED BY <4>1, <4>2
    <3> QED BY <3>1, <3>2
  <2>2. Update(r, job[n]) /\ UNCHANGED cluster
    BY <1>13 DEF Failure
  <2> QED BY <1>0, <1>1, <1>5, <2>1, <2>2
<1>14. CASE Reschedule(r)
  <2> DEFINE f == IF job[n].schedule = "never"
                  THEN [job[n] EXCEPT !.status = "stopped", !.next = "zero"]
                  ELSE [job[n] EXCEPT !.status = "registered", !.next = "future"]
  <2>1. f \in Job /\ f.from = job[n].from /\ f.status # "running"
    BY <1>1, JobFields
  <2>2. run' = [run EXCEPT ![r] = NoRun] /\ Update(r, f) /\ UNCHANGED cluster
    BY <1>1, <1>14 DEF Reschedule
  <2>3. NoRun \in Run /\ NoRun.pc = "idle"
    BY NoRunType DEF NoRun
  <2> HIDE DEF f
  <2> QED BY <1>0, <1>5, <2>1, <2>2, <2>3
<1> QED
  BY <1>8, <1>9, <1>10, <1>11, <1>12, <1>13, <1>14 DEF Step

(* What a submission does to the jobs. *)
LEMMA SubmitKeeps ==
    ASSUME TypeOK, NEW n \in Names, NEW s \in Submissions, NEW sc \in Schedule,
           Submit(n, s, sc)
    PROVE  /\ job' \in [Names -> Job \cup {None}]
           /\ disk' \in [Names -> Job \cup {None}]
           /\ faults' \in 0..MaxFaults
           /\ disk' \in {disk, job'}
           /\ job'[n] # None
           /\ \A m \in Names : job[m] # None => job'[m] = job[m]
           /\ \A m \in Names : job'[m] # None /\ job'[m].status = "running" =>
                job'[m] = job[m]
<1>1. CASE job[n] # None
  BY <1>1 DEF Submit, TypeOK
<1>2. CASE job[n] = None
  <2> DEFINE st == IF sc = "none" THEN "queued" ELSE "registered"
             nx == CASE sc = "none" -> "zero" [] sc = "every" -> "future"
                     [] OTHER -> "past"
             f == [from |-> s, schedule |-> sc, status |-> st, next |-> nx]
  <2>1. st \in JobStatus /\ st # "running"
    BY DEF JobStatus
  <2>2. nx \in {"zero", "future", "past"}
    BY DEF Schedule
  <2> HIDE DEF st, nx
  <2>3. f \in Job /\ f.status # "running"
    BY <2>1, <2>2 DEF Job
  <2>4. f # None
    BY <2>3, JobsAssumption DEF Job, Schedule, JobStatus
  <2>5. job' = [job EXCEPT ![n] = f] /\ Save
    BY <1>2 DEF Submit, st, nx
  <2> HIDE DEF f
  <2>6. job' \in [Names -> Job \cup {None}]
    BY <2>3, <2>5 DEF TypeOK
  <2>7. job'[n] = f /\ \A m \in Names : m # n => job'[m] = job[m]
    BY <2>5 DEF TypeOK
  <2> QED BY <1>2, <2>3, <2>4, <2>5, <2>6, <2>7, SaveType DEF Save
<1> QED BY <1>1, <1>2

(* The inductive invariant behind both theorems. *)
JobsInv == TypeOK /\ HasJob /\ DiskInMemory

(* Every action keeps it, and keeps a saved job. *)
Kept ==
    \A n \in Names : disk[n] # None =>
        /\ disk'[n] # None /\ disk'[n].from = disk[n].from
        /\ job'[n] # None /\ job'[n].from = disk[n].from

LEMMA InvStep ==
    ASSUME JobsInv, [Next]_vars
    PROVE  JobsInv' /\ Kept
<1> USE DEF JobsInv
<1>1. ASSUME NEW r \in Runs, Step(r)
      PROVE  JobsInv' /\ Kept
  <2>1. run[r].pc # "idle" /\ StepShape(r)
    BY <1>1, StepKeeps
  <2>2. run[r].job \in Names /\ job[run[r].job] # None
    BY <2>1 DEF HasJob
  <2>3. \A m \in Names : job[m] # None =>
          job'[m] # None /\ job'[m].from = job[m].from
    BY <2>1, <2>2 DEF StepShape
  <2>4. TypeOK'
    BY <2>1 DEF StepShape, TypeOK
  <2>5. HasJob'
    <3>1. \A q \in Runs : run'[q].pc # "idle" =>
            run'[q].job \in Names /\ job'[run'[q].job] # None
      BY <2>1, <2>2, <2>3 DEF StepShape, HasJob
    <3>2. \A m \in due' : job'[m] # None
      BY <2>1, <2>3 DEF StepShape, HasJob, TypeOK
    <3> QED BY <3>1, <3>2 DEF HasJob
  <2>6. disk' \in {disk, job'}
    BY <2>1 DEF StepShape
  <2> QED BY <2>3, <2>4, <2>5, <2>6 DEF DiskInMemory, Kept
<1>2. ASSUME NEW n \in Names, NEW s \in Submissions, NEW sc \in Schedule,
             HandleSubmit(n, s, sc)
      PROVE  JobsInv' /\ Kept
  <2>1. Submit(n, s, sc) /\ acked' = acked \cup {<<s, n>>}
        /\ UNCHANGED <<cluster, due, crashes>>
    BY <1>2 DEF HandleSubmit
  <2>2. /\ job' \in [Names -> Job \cup {None}]
        /\ disk' \in [Names -> Job \cup {None}]
        /\ faults' \in 0..MaxFaults
        /\ disk' \in {disk, job'}
        /\ job'[n] # None
        /\ \A m \in Names : job[m] # None => job'[m] = job[m]
    BY <2>1, SubmitKeeps
  <2>3. /\ run' \in [Runs -> Run]
        /\ \A q \in Runs : \/ run'[q] = run[q]
                           \/ run'[q].job = n
    <3>1. CASE UNCHANGED run
      BY <3>1 DEF TypeOK
    <3>2. ASSUME NEW r \in ApiRuns, Spawn(r, n)
          PROVE  /\ run' \in [Runs -> Run]
                 /\ \A q \in Runs : run'[q] = run[q] \/ run'[q].job = n
      <4>1. r \in Runs
        BY DEF Runs
      <4> QED BY <3>2, <4>1, SpawnType
    <3> QED BY <1>2, <3>1, <3>2 DEF HandleSubmit
  <2>4. TypeOK'
    <3>1. acked' \subseteq Submissions \X Names
      BY <2>1 DEF TypeOK
    <3> QED BY <2>1, <2>2, <2>3, <3>1 DEF TypeOK
  <2>5. HasJob'
    <3>1. \A q \in Runs : run'[q].pc # "idle" =>
            run'[q].job \in Names /\ job'[run'[q].job] # None
      BY <2>2, <2>3 DEF HasJob
    <3>2. \A m \in due' : job'[m] # None
      BY <2>1, <2>2 DEF HasJob, TypeOK
    <3> QED BY <3>1, <3>2 DEF HasJob
  <2> QED BY <2>2, <2>4, <2>5 DEF DiskInMemory, Kept
<1>3. ASSUME NEW n \in Names, HandleRun(n)
      PROVE  JobsInv' /\ Kept
  <2>1. PICK r \in ApiRuns : Spawn(r, n)
    BY <1>3 DEF HandleRun
  <2>2. r \in Runs
    BY DEF Runs
  <2>3. /\ run' \in [Runs -> Run] /\ run'[r].job = n
        /\ \A q \in Runs : q # r => run'[q] = run[q]
    BY <2>1, <2>2, SpawnType
  <2>4. job[n] # None /\ UNCHANGED <<job, disk, cluster, due, acked, faults, crashes>>
    BY <1>3 DEF HandleRun
  <2> QED BY <2>2, <2>3, <2>4 DEF TypeOK, HasJob, DiskInMemory, Kept
<1>4. CASE SpawnDue
  <2>1. PICK n \in due, r \in SchedRuns : due' = due \ {n} /\ Spawn(r, n)
    BY <1>4 DEF SpawnDue
  <2>2. r \in Runs /\ n \in Names /\ job[n] # None
    BY DEF Runs, TypeOK, HasJob
  <2>3. /\ run' \in [Runs -> Run] /\ run'[r].job = n
        /\ \A q \in Runs : q # r => run'[q] = run[q]
    BY <2>1, <2>2, SpawnType
  <2>4. UNCHANGED <<job, disk, cluster, acked, faults, crashes>>
    BY <1>4 DEF SpawnDue
  <2> QED BY <2>1, <2>2, <2>3, <2>4 DEF TypeOK, HasJob, DiskInMemory, Kept
<1>5. CASE Tick
  BY <1>5 DEF Tick, Due, TypeOK, HasJob, DiskInMemory, Kept
<1>6. ASSUME NEW n \in Names, Elapse(n)
      PROVE  JobsInv' /\ Kept
  <2> DEFINE f == [job[n] EXCEPT !.next = "past"]
             g == [disk[n] EXCEPT !.next = "past"]
  <2>1. job[n] \in Job /\ f \in Job /\ f.from = job[n].from /\ f # None
    <3>1. job[n] \in Job
      BY <1>6 DEF Elapse, TypeOK
    <3>2. f \in Job /\ f.from = job[n].from
      BY <3>1, JobFields
    <3> QED BY <3>1, <3>2, JobsAssumption DEF Job, Schedule, JobStatus
  <2>2. disk[n] # None => g \in Job /\ g.from = disk[n].from /\ g # None
    <3> SUFFICES ASSUME disk[n] # None
                 PROVE  g \in Job /\ g.from = disk[n].from /\ g # None
      OBVIOUS
    <3>1. disk[n] \in Job
      BY DEF TypeOK
    <3>2. g \in Job /\ g.from = disk[n].from
      BY <3>1, JobFields
    <3> QED BY <3>2, JobsAssumption DEF Job, Schedule, JobStatus
  <2>3. /\ job' = [job EXCEPT ![n] = f]
        /\ disk' = disk \/ (disk[n] # None /\ disk' = [disk EXCEPT ![n] = g])
        /\ UNCHANGED <<cluster, run, due, acked, faults, crashes>>
    BY <1>6 DEF Elapse, TypeOK
  <2> HIDE DEF f, g
  <2>4. job' \in [Names -> Job \cup {None}]
        /\ \A m \in Names : job[m] # None =>
             job'[m] # None /\ job'[m].from = job[m].from
    BY <2>1, <2>3 DEF TypeOK
  <2>5. /\ disk' \in [Names -> Job \cup {None}]
        /\ \A m \in Names : disk[m] # None =>
             disk'[m] # None /\ disk'[m].from = disk[m].from
        /\ \A m \in Names : disk'[m] # None =>
             disk[m] # None /\ disk'[m].from = disk[m].from
    BY <2>2, <2>3 DEF TypeOK
  <2>6. TypeOK'
    BY <2>3, <2>4, <2>5 DEF TypeOK
  <2>7. HasJob'
    BY <2>3, <2>4 DEF HasJob, TypeOK
  <2>8. \A m \in Names : disk[m] # None =>
          job'[m] # None /\ job'[m].from = disk[m].from
    BY <2>4 DEF DiskInMemory
  <2>9. DiskInMemory'
    BY <2>5, <2>8 DEF DiskInMemory
  <2> QED BY <2>5, <2>6, <2>7, <2>8, <2>9 DEF Kept
<1>7. ASSUME NEW n \in Names, DownCluster(n)
      PROVE  JobsInv' /\ Kept
  BY <1>7 DEF DownCluster, TypeOK, HasJob, DiskInMemory, Kept
<1>8. CASE Crash
  <2>1. crashes' \in 0..MaxCrashes
    BY <1>8, JobsAssumption DEF Crash, TypeOK
  <2>2. TypeOK'
    BY <1>8, <2>1, NoRunType DEF Crash, TypeOK
  <2>3. HasJob'
    BY <1>8 DEF Crash, HasJob, NoRun
  <2> QED BY <1>8, <2>2, <2>3 DEF Crash, DiskInMemory, Kept
<1>9. CASE UNCHANGED vars
  BY <1>9 DEF vars, TypeOK, HasJob, DiskInMemory, Kept
<1> QED
  BY <1>1, <1>2, <1>3, <1>4, <1>5, <1>6, <1>7, <1>8, <1>9 DEF Next

LEMMA InitInv ==
    ASSUME Init
    PROVE  JobsInv
<1>1. 0 \in 0..MaxFaults /\ 0 \in 0..MaxCrashes
  BY JobsAssumption
<1>2. TypeOK
  BY <1>1, NoRunType DEF Init, TypeOK
<1>3. HasJob
  BY DEF Init, HasJob, NoRun
<1> QED BY <1>2, <1>3 DEF Init, DiskInMemory, JobsInv

(* The state of the job manager and the scheduler is well-typed. *)
THEOREM JobsTypeCorrect == Spec => []TypeOK
<1>1. Init => JobsInv
  BY InitInv
<1>2. JobsInv /\ [Next]_vars => JobsInv'
  BY InvStep
<1>3. JobsInv => TypeOK
  BY DEF JobsInv
<1> QED BY <1>1, <1>2, <1>3, PTL DEF Spec

(* A saved job is never replaced or lost, whatever submissions, failed saves
   and crashes happen. *)
THEOREM SavedJobsStay == Spec => FirstSubmissionWins
<1>1. Init => JobsInv
  BY InitInv
<1>2. JobsInv /\ [Next]_vars => JobsInv'
  BY InvStep
<1>3. JobsInv /\ [Next]_vars => [Kept]_vars
  BY InvStep
<1>4. Spec => [][Kept]_vars
  BY <1>1, <1>2, <1>3, PTL DEF Spec
<1> QED BY <1>4 DEF FirstSubmissionWins, Kept

(* Without a crash the status running is never stale: the lock-free check of
   handleRunJob and of Due can bar a job only while it really runs. *)
THEOREM RunningStatusIsTrue == Spec => []RunningIsTrue
<1>1. Init => JobsInv /\ RunningIsTrue
  <2>1. Init => RunningIsTrue
    BY DEF Init, RunningIsTrue
  <2> QED BY <2>1, InitInv
<1>2. JobsInv /\ RunningIsTrue /\ [Next]_vars => (JobsInv /\ RunningIsTrue)'
  <2> SUFFICES ASSUME JobsInv, RunningIsTrue, [Next]_vars
               PROVE  RunningIsTrue'
    BY InvStep
  <2> SUFFICES ASSUME crashes' = 0, NEW n \in Names,
                      job'[n] # None, job'[n].status = "running"
               PROVE  \E q \in Runs : run'[q].job = n /\ run'[q].pc \in Midway
    BY DEF RunningIsTrue, Running, Midway
  <2> USE DEF JobsInv
  <2>0. ~Crash /\ crashes = 0
    <3>1. crashes \in Nat
      BY JobsAssumption DEF TypeOK
    <3>2. ~Crash
      BY <3>1 DEF Crash
    <3>3. UNCHANGED crashes
      BY <3>2 DEF Next, HandleSubmit, HandleRun, Tick, SpawnDue, Step, Begin,
                  Launch, RunTask, Success, Failure, GiveUp, Reschedule, Elapse,
                  DownCluster, vars
    <3> QED BY <3>2, <3>3
  <2>1. job[n] # None /\ job[n].status = "running" =>
          \E q \in Runs : run[q].job = n /\ run[q].pc \in Midway
    BY <2>0 DEF RunningIsTrue, Running, Midway
  <2>2. ASSUME NEW r \in Runs, Step(r)
        PROVE  \E q \in Runs : run'[q].job = n /\ run'[q].pc \in Midway
    <3>1. run[r].pc # "idle" /\ StepShape(r)
      BY <2>2, StepKeeps
    <3>2. CASE run[r].job = n /\ run'[r].pc \in Midway
      <4>1. run'[r].pc # "idle"
        BY <3>2 DEF Midway
      <4> QED BY <3>1, <3>2, <4>1 DEF StepShape
    <3>3. CASE ~(run[r].job = n /\ run'[r].pc \in Midway)
      <4>1. job'[n] = job[n] /\ ~(run[r].job = n /\ run[r].pc \in Midway)
        BY <3>1, <3>3 DEF StepShape
      <4>2. PICK q \in Runs : run[q].job = n /\ run[q].pc \in Midway
        BY <2>1, <4>1
      <4>3. run'[q] = run[q]
        BY <3>1, <4>1, <4>2 DEF StepShape
      <4> QED BY <4>2, <4>3
    <3> QED BY <3>2, <3>3
  <2>3. ASSUME job'[n] = job[n],
               \A q \in Runs : run[q].pc # "idle" => run'[q] = run[q]
        PROVE  \E q \in Runs : run'[q].job = n /\ run'[q].pc \in Midway
    <3>1. PICK q \in Runs : run[q].job = n /\ run[q].pc \in Midway
      BY <2>1, <2>3
    <3>2. run[q].pc # "idle"
      BY <3>1 DEF Midway
    <3> QED BY <2>3, <3>1, <3>2
  <2>4. ASSUME NEW r \in Runs, NEW m \in Names, Spawn(r, m)
        PROVE  \A q \in Runs : run[q].pc # "idle" => run'[q] = run[q]
    BY <2>4, SpawnType
  <2>5. ASSUME NEW m \in Names, NEW s \in Submissions, NEW sc \in Schedule,
               HandleSubmit(m, s, sc)
        PROVE  \E q \in Runs : run'[q].job = n /\ run'[q].pc \in Midway
    <3>1. job'[n] = job[n]
      <4>1. Submit(m, s, sc)
        BY <2>5 DEF HandleSubmit
      <4> QED BY <4>1, SubmitKeeps
    <3> QED BY <2>3, <2>4, <2>5, <3>1 DEF HandleSubmit, Runs
  <2>6. ASSUME NEW m \in Names, HandleRun(m)
        PROVE  \E q \in Runs : run'[q].job = n /\ run'[q].pc \in Midway
    BY <2>3, <2>4, <2>6 DEF HandleRun, Runs
  <2>7. CASE SpawnDue
    <3>1. PICK m \in due, r \in SchedRuns : Spawn(r, m)
      BY <2>7 DEF SpawnDue
    <3>2. m \in Names /\ r \in Runs
      BY DEF TypeOK, Runs
    <3>3. UNCHANGED job
      BY <2>7 DEF SpawnDue
    <3> QED BY <2>3, <2>4, <3>1, <3>2, <3>3
  <2>8. ASSUME NEW m \in Names, Elapse(m)
        PROVE  \E q \in Runs : run'[q].job = n /\ run'[q].pc \in Midway
    <3>1. UNCHANGED run
      BY <2>8 DEF Elapse
    <3>2. job[n] # None /\ job[n].status = "running"
      <4>1. CASE n # m
        BY <2>8, <4>1 DEF Elapse, TypeOK
      <4>2. CASE n = m
        <5>1. job[n] \in Job
          BY <2>8, <4>2 DEF Elapse, TypeOK
        <5>2. job'[n] = [job[n] EXCEPT !.next = "past"]
          BY <2>8, <4>2 DEF Elapse, TypeOK
        <5>3. job'[n].status = job[n].status
          BY <5>1, <5>2 DEF Job
        <5> QED BY <2>8, <4>2, <5>3 DEF Elapse
      <4> QED BY <4>1, <4>2
    <3> QED BY <2>1, <3>1, <3>2
  <2>9. CASE UNCHANGED <<job, run>>
    BY <2>3, <2>9
  <2> QED
    BY <2>0, <2>2, <2>5, <2>6, <2>7, <2>8, <2>9
       DEF Next, Tick, DownCluster, vars
<1> QED BY <1>1, <1>2, PTL DEF Spec
=============================================================================
