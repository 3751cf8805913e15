------------------------------ MODULE MCTasks ------------------------------
(***************************************************************************)
(* The path of a task in one run: its schedule (Schedule), its placement   *)
(* (Placement) and its execution (Execution).  A behaviour is one of one   *)
(* of the three modules, which share no variable; `part' says of which,    *)
(* and the variables of the other two stay as they are at the start.       *)
(***************************************************************************)
EXTENDS MCExecution, Schedule, Placement

VARIABLE part   \* whose behaviour it is

allVars == <<vars, part, schedVars, placeVars>>

-----------------------------------------------------------------------------
(* Schedule: an hour of 3 minutes, a day of 2 hours, months of 2 days, years of 2
   months and weeks of 3 days; a horizon of more than a year. *)

Part(lo, hi, step) == [ok |-> TRUE, star |-> FALSE, lo |-> lo, hi |-> hi, step |-> step]
StarPart(step) == [Part(0, 0, step) EXCEPT !.star = TRUE]
One(v) == <<Part(v, v, NoStep)>>

(* Values, a range, steps and a list; a value, a step and a number that are
   refused; an empty range. *)
MinuteFields ==
    {Star, One(2), <<Part(1, 2, NoStep)>>, <<StarPart(2)>>, One(0) \o One(2),
     One(3), <<Part(1, 2, 0)>>, <<[Part(0, 0, NoStep) EXCEPT !.ok = FALSE]>>, <<Part(2, 1, NoStep)>>}

SpecSet ==
    LET Cron(F) == {[kind |-> "cron", fields |-> f] : f \in F}
    IN  UNION {
          Cron(MinuteFields \X {Star, One(1)} \X {Star} \X {Star} \X {Star}),
          Cron({One(1)} \X {Star, <<StarPart(2)>>, <<StarPart(3)>>} \X {Star, <<Part(1, 2, 2)>>}
                 \X {Star, One(2)} \X {Star, One(0), One(1) \o One(2)}),
          Cron({<<Star, Star>>}),
          {[kind |-> "every", dur |-> d] : d \in {-1, 0, 2}},
          {[kind |-> "named", name |-> n] :
              n \in {"minutely", "hourly", "daily", "midnight", "weekly", "monthly"}}}

SmallRadix == [minute |-> 3, hour |-> 2, day |-> 2, month |-> 2, weekday |-> 3]

-----------------------------------------------------------------------------
(* Placement: two clouds with two regions between them. *)

InstType(cloud, region, itype, vcpus, memory, disk, accel) ==
    [cloud |-> cloud, region |-> region, itype |-> itype, vcpus |-> vcpus,
     memory |-> memory, disk |-> disk, accel |-> accel]

NoGpu == [a \in {} |-> 0]

CatalogSeq ==
    <<InstType("aliyun", "r1", "small", 2, 2, 2, NoGpu),
      InstType("aws", "r1", "large", 4, 8, 4, NoGpu),
      InstType("aws", "r2", "gpu", 4, 4, 4, [gpu |-> 2])>>

Prices(od1, spot1, od2, spot2, od3, spot3) ==
    [small |-> [od |-> od1, spot |-> spot1],
     large |-> [od |-> od2, spot |-> spot2],
     gpu   |-> [od |-> od3, spot |-> spot3]]

Tables ==
    {Prices(1, 0, 2, 1, 4, 2), Prices(2, 1, 2, 0, 0, 0), Prices(0, 0, 4, 1, 4, 0),
     Prices(0, 1, 3, 0, 3, 1)}

Unset == [cloud |-> {}, region |-> {}, itype |-> {}, cpus |-> {}, memory |-> {}, disk |-> {},
          accel |-> {}, spot |-> {}, time |-> {}]

(* "4", "4+", "-3", "2-4"; "-2-4", "2-4+" and "-2+", which the docs do not have; and
   a range that is no range. *)
Ranges == {<<4>>, <<4, Plus>>, <<Dash, 3>>, <<2, Dash, 4>>,
           <<Dash, 2, Dash, 4>>, <<2, Dash, 4, Plus>>, <<Dash, 2, Plus>>, <<Plus>>}

Gpu(shape, n) == [form |-> shape, items |-> <<[name |-> "GPU", n |-> n]>>]

Outer ==
    {Unset} \cup {[Unset EXCEPT !.cpus = {r}] : r \in Ranges}
      \cup {[Unset EXCEPT !.disk = {<<3, Plus>>}], [Unset EXCEPT !.itype = {"small"}],
            [Unset EXCEPT !.region = {"r1"}], [Unset EXCEPT !.cloud = {"aws"}],
            [Unset EXCEPT !.memory = {<<Dash, 4>>}], [Unset EXCEPT !.accel = {Gpu("list", 0)}],
            [Unset EXCEPT !.accel = {Gpu("map", 2)}], [Unset EXCEPT !.spot = {FALSE}],
            [Unset EXCEPT !.time = {60}], [Unset EXCEPT !.accel = {Gpu("list", 3)}]}

Entries == {<<>>, <<[Unset EXCEPT !.cpus = {<<4, Plus>>}]>>,
            <<[Unset EXCEPT !.disk = {<<2, Dash, 3>>}, !.accel = {Gpu("list", 2)}]>>}

ATask == [backend |-> "", nodes |-> 0, ssh |-> FALSE, docker |-> FALSE, run |-> TRUE,
          cloudName |-> TRUE, service |-> {}, credentials |-> {}]

Request(entry, t, outer, ordered) ==
    [entry |-> entry, task |-> t, resources |-> [outer |-> outer, ordered |-> ordered],
     nodes |-> 0, clouds |-> {}, cfgClouds |-> {}, region |-> {}, cfgRegion |-> {},
     spot |-> FALSE, cfgSpot |-> FALSE, optimizer |-> <<>>, dry |-> FALSE]

(* Resources of every kind; tasks of every kind; flags, configuration and
   optimizers of every kind. *)
RequestSet ==
    LET entry == {"cli", "yaml", "json", "job"}
        tasks == {[ATask EXCEPT !.backend = b, !.nodes = n, !.ssh = c, !.docker = c] :
                     b \in {"", "existing", "docker", "local", "other"}, n \in {-1, 0, 2}, c \in BOOLEAN}
                   \cup {[ATask EXCEPT !.service = {[ports |-> p, run |-> ~r]}, !.run = r] :
                           p \in BOOLEAN, r \in BOOLEAN}
                   \cup {[ATask EXCEPT !.service = {[ports |-> TRUE, run |-> FALSE]}, !.run = FALSE],
                         [ATask EXCEPT !.credentials = {[id |-> TRUE, secret |-> FALSE]}],
                         [ATask EXCEPT !.cloudName = FALSE]}
        base(e) == Request(e, ATask, Unset, <<>>)
    IN  UNION {
          {Request(e, ATask, o, r) : e \in {"yaml", "json"}, o \in Outer, r \in Entries},
          {[Request(e, t, [Unset EXCEPT !.itype = {"small"}], <<>>) EXCEPT !.nodes = n, !.dry = TRUE] :
              e \in entry, t \in tasks, n \in {-1, 0, 3}},
          {[Request("cli", ATask, o, <<>>) EXCEPT !.clouds = c, !.cfgClouds = d, !.region = r,
                                                   !.cfgRegion = s] :
              o \in {[Unset EXCEPT !.cloud = {"aws"}], [Unset EXCEPT !.region = {"r2"}]},
              c \in {{}, {"aws"}}, d \in {{}, {"aliyun"}}, r \in {{}, {"r2"}}, s \in {{}, {"r1"}}},
          {[base(e) EXCEPT !.clouds = c, !.cfgRegion = r, !.optimizer = m, !.cfgSpot = b, !.dry = d] :
              e \in {"cli", "job"}, c \in {{}, {"aws"}}, r \in {{}, {"r1"}}, b \in BOOLEAN,
              d \in BOOLEAN,
              m \in {<<>>, <<"time">>, <<"time", "cost">>, <<"cost", "", "time">>, <<"cost", "x">>}}}

-----------------------------------------------------------------------------
(* The three specifications side by side *)

SchedStands == minute = 1 /\ job = NoJob /\ planned = -1

PlaceStands == req = Request("cli", ATask, Unset, <<>>) /\ PlaceStart

ExecStands ==
    /\ cfg = [backend |-> "local", nodes |-> 1, setup |-> FALSE, run |-> TRUE,
              workdir |-> FALSE, text |-> <<"x", "x", "nl">>, client |-> "cli"]
    /\ ExecStart

InitTasks ==
    \/ part = "execution" /\ Init /\ SchedStands /\ PlaceStands
    \/ part = "schedule" /\ SchedInit /\ ExecStands /\ PlaceStands
    \/ part = "placement" /\ PlaceInit /\ ExecStands /\ SchedStands

Executes(A) == part = "execution" /\ A /\ UNCHANGED <<part, schedVars, placeVars>>

NextTasks ==
    \/ Executes(Next)
    \/ part = "schedule" /\ SchedNext /\ UNCHANGED <<part, vars, placeVars>>
    \/ part = "placement" /\ PlaceNext /\ UNCHANGED <<part, vars, schedVars>>

(* The fairness of Execution!FairSpec. *)
SpecTasks ==
    /\ InitTasks /\ [][NextTasks]_allVars
    /\ WF_allVars(Executes(RunTask))
    /\ \A n \in 1..2 : WF_allVars(Executes(n \in 1..cfg.nodes /\ Script(n)))

-----------------------------------------------------------------------------
(* Execution: RunTask returns; waitSSH gives up on a node that never answers. *)
TasksReturn == <>(part = "execution" => pc = "returned")
=============================================================================
