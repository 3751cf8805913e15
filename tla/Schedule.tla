------------------------------ MODULE Schedule ------------------------------
(***************************************************************************)
(* Schedules of jobs (internal/jobs/cron.go): parsing a cron expression,   *)
(* the next minute it matches, and the runs of one scheduled job as the    *)
(* clock goes on.  What a run does, and jobs next to each other, is in     *)
(* Jobs.                                                                   *)
(*                                                                         *)
(* A cron field is a sequence of parts [ok, star, lo, hi, step]: the part  *)
(* "lo-hi/step", where star stands for "*", a single value has lo = hi,    *)
(* step is NoStep when there is none and 0 when it is not a number, and ok *)
(* says that lo and hi are numbers.  Time counts minutes.                  *)
(***************************************************************************)
EXTENDS Integers, Sequences, FiniteSetsExt

CONSTANTS
    Radix,       \* minutes of an hour, hours of a day, days of a month, ...
    Specs,       \* schedules that may be submitted
    Horizon,     \* minutes that next looks ahead: five years
    MaxMinute    \* bound: the clock

NoStep == -1

(* The upper end of "1--5" is negative; no lower end is. *)
Parts == [ok : BOOLEAN, star : BOOLEAN, lo : Nat, hi : Int, step : Nat \cup {NoStep}]

(* A star with a step is good for every field that starts at 0: an hour has the
   most minutes. *)
ASSUME ScheduleAssumption ==
    /\ \A unit \in {"minute", "hour", "day", "month", "weekday"} : Radix[unit] \in Nat \ {0}
    /\ Radix.hour <= Radix.minute /\ Radix.weekday <= Radix.minute
    /\ \A spec \in Specs :
         /\ spec.kind \in {"cron", "named", "every"}
         /\ spec.kind = "cron" => spec.fields \in Seq(Seq(Parts))
         /\ spec.kind = "named" =>
              spec.name \in {"minutely", "hourly", "daily", "midnight", "weekly", "monthly"}
    /\ Horizon \in Nat /\ MaxMinute \in Nat

VARIABLES
    minute,      \* the clock
    job,         \* the job: its schedule, Status and NextRun
    planned      \* ghost: when NextRun was computed, -1 before the first time

schedVars == <<minute, job, planned>>

NoJob == [spec |-> [kind |-> "none"], status |-> "none", next |-> 0]

-----------------------------------------------------------------------------
(* Parsing *)

(* minuteRange .. dowRange; the fields are minute, hour, day, month, weekday. *)
FieldRange(i) ==
    CASE i = 1 -> 0..(Radix.minute - 1)
      [] i = 2 -> 0..(Radix.hour - 1)
      [] i = 3 -> 1..Radix.day
      [] i = 4 -> 1..Radix.month
      [] i = 5 -> 0..(Radix.weekday - 1)

Step(part) == IF part.step = NoStep THEN 1 ELSE part.step

(* Mutant: the end of a range does not belong to it. *)
PartValuesOpen(part) ==
    LET start == IF part.star THEN 0 ELSE part.lo
        end == IF part.star THEN Radix.minute - 1 ELSE part.hi
    IN  {v \in start..end : (v - start) % Step(part) = 0 /\ (v < end \/ start = end)}

(* for v := start; v <= end; v += step.  "*" stands for the minutes 0 .. 59,
   whatever the field is. *)
PartValues(part) ==
    LET start == IF part.star THEN 0 ELSE part.lo
        end == IF part.star THEN Radix.minute - 1 ELSE part.hi
    IN  {v \in start..end : (v - start) % Step(part) = 0}

(* The field is "*" alone: nil, which matches everything. *)
IsStar(field) == Len(field) = 1 /\ field[1].star /\ field[1].step = NoStep

parseField(i, field) ==
    LET parts == {field[k] : k \in DOMAIN field}
        bad == \E p \in parts :
                 ~p.ok \/ Step(p) < 1 \/ ~(PartValues(p) \subseteq FieldRange(i))
    IN  CASE IsStar(field) -> [err |-> FALSE, any |-> TRUE, vals |-> {}]
          [] ~IsStar(field) /\ bad -> [err |-> TRUE, any |-> FALSE, vals |-> {}]
          [] OTHER -> [err |-> FALSE, any |-> FALSE, vals |-> UNION {PartValues(p) : p \in parts}]

Star == <<[ok |-> TRUE, star |-> TRUE, lo |-> 0, hi |-> 0, step |-> NoStep]>>

Only(v) == <<[ok |-> TRUE, star |-> FALSE, lo |-> v, hi |-> v, step |-> NoStep]>>

(* The names parseSchedule knows. *)
Named ==
    [minutely |-> <<Star, Star, Star, Star, Star>>,
     hourly   |-> <<Only(0), Star, Star, Star, Star>>,
     daily    |-> <<Only(0), Only(0), Star, Star, Star>>,
     midnight |-> <<Only(0), Only(0), Star, Star, Star>>,
     weekly   |-> <<Only(0), Only(0), Star, Star, Only(0)>>,
     monthly  |-> <<Only(0), Only(0), Only(1), Star, Star>>]

Fields(spec) == IF spec.kind = "named" THEN Named[spec.name] ELSE spec.fields

IsCron(spec) == spec.kind \in {"cron", "named"}

(* An error; a duration ("@every"), and no schedule; or the five fields. *)
parseSchedule(spec) ==
    LET fs == [i \in 1..5 |-> parseField(i, Fields(spec)[i])]
    IN  CASE spec.kind = "every" -> [err |-> FALSE, dur |-> spec.dur, sched |-> <<>>]
          [] IsCron(spec) /\ Len(Fields(spec)) = 5 ->
               [err |-> \E i \in 1..5 : fs[i].err, dur |-> 0, sched |-> fs]
          [] OTHER -> [err |-> TRUE, dur |-> 0, sched |-> <<>>]

-----------------------------------------------------------------------------
(* The next run *)

(* What time.Time says of a minute; the months of the model have one length. *)
Clock(t) ==
    LET days == t \div (Radix.minute * Radix.hour)
    IN  <<t % Radix.minute,
          (t \div Radix.minute) % Radix.hour,
          1 + (days % Radix.day),
          1 + ((days \div Radix.day) % Radix.month),
          days % Radix.weekday>>

contains(f, v) == f.any \/ v \in f.vals

match(sched, t) == \A i \in 1..5 : contains(sched[i], Clock(t)[i])

(* The first matching minute after this one; the zero time, here 0, when there
   is none within the horizon. *)
next(sched, from) ==
    LET hits == {t \in (from + 1)..(from + Horizon) : match(sched, t)}
    IN  IF hits = {} THEN 0 ELSE Min(hits)

-----------------------------------------------------------------------------
SchedInit ==
    /\ minute = 1
    /\ job = NoJob
    /\ planned = -1

(* The NextRun of a new job: a cron job is due at once. *)
Submit(spec) ==
    LET p == parseSchedule(spec)
    IN  /\ job = NoJob
        /\ ~p.err
        /\ job' = [spec |-> spec, status |-> "registered",
                   next |-> IF p.dur > 0 THEN minute + p.dur ELSE minute]
        /\ UNCHANGED <<minute, planned>>

(* The scheduler's tick finds the job due and runs it. *)
Due ==
    /\ job.status \notin {"none", "running", "queued", "panic"}
    /\ job.next > 0 /\ minute >= job.next
    /\ job' = [job EXCEPT !.status = "running"]
    /\ UNCHANGED <<minute, planned>>

(* Reschedule with computeNext, when the run has ended.  A duration that is not
   positive has no schedule to ask: a nil pointer. *)
Reschedule ==
    LET p == parseSchedule(job.spec)
        t == IF p.dur > 0 THEN minute + p.dur ELSE next(p.sched, minute)
    IN  /\ job.status = "running"
        /\ job' = CASE p.dur <= 0 /\ p.sched = <<>> -> [job EXCEPT !.status = "panic"]
                    [] t = 0 -> [job EXCEPT !.status = "stopped", !.next = 0]
                    [] OTHER -> [job EXCEPT !.status = "registered", !.next = t]
        /\ planned' = minute
        /\ UNCHANGED minute

NextMinute ==
    /\ minute < MaxMinute
    /\ minute' = minute + 1
    /\ UNCHANGED <<job, planned>>

SchedNext ==
    \/ \E spec \in Specs : Submit(spec)
    \/ Due
    \/ Reschedule
    \/ NextMinute

SchedSpec == SchedInit /\ [][SchedNext]_schedVars

-----------------------------------------------------------------------------
(* Correctness *)

SchedTypeOK ==
    /\ minute \in 1..MaxMinute
    /\ job.status \in {"none", "registered", "running", "stopped", "panic"}
    /\ job.next \in 0..(MaxMinute + Horizon)
    /\ planned \in -1..MaxMinute

(* What a part of field i means: every value of the field, or lo, lo + step, ...
   up to hi. *)
Denoted(i, part) ==
    IF part.star
    THEN {v \in FieldRange(i) : (v - Min(FieldRange(i))) % Step(part) = 0}
    ELSE {v \in FieldRange(i) : \E k \in 0..part.hi : v = part.lo + k * Step(part) /\ v <= part.hi}

Means(spec, t) ==
    \A i \in 1..5 : \E k \in DOMAIN Fields(spec)[i] : Clock(t)[i] \in Denoted(i, Fields(spec)[i][k])

(* NextRun of a rescheduled cron job is the first minute after the end of its run
   that its expression means, and the job stops only when the horizon holds
   none: "the next trigger time" of docs/en/gpi-architecture.md. *)
NextIsEarliest ==
    (IsCron(job.spec) /\ planned >= 0 /\ job.status \in {"registered", "stopped"}) =>
        LET hits == {t \in (planned + 1)..(planned + Horizon) : Means(job.spec, t)}
        IN  job.next = IF hits = {} THEN 0 ELSE Min(hits)
=============================================================================
