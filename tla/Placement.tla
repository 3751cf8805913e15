----------------------------- MODULE Placement -----------------------------
(***************************************************************************)
(* From a task to the placement that is launched: the entry points (launch *)
(* and optimize commands, the two launch handlers of the API server, a     *)
(* job), the optimizer (internal/optimizer) and the live price of the      *)
(* launch command.  One request is followed to its launch.                 *)
(***************************************************************************)
EXTENDS Task, FiniteSets, Sorting

CONSTANTS
    Catalog,         \* the instance types of all clouds and regions, a sequence
    Requests,        \* requests: entry point, task, flags and configuration
    PriceTables,     \* hourly prices of the instance types; 0 is none
    MaxPriced,       \* maxPricedCandidates
    MaxCandidates    \* Options.MaxCandidates

(* The accelerators of an instance. *)
Gpus(inst) == MapThenSumSet(LAMBDA a : inst.accel[a], DOMAIN inst.accel)

(* Instance types have numbers of vcpus, GiB of memory and disk, and accelerators,
   whose names do not differ in case alone, and prices that are not negative; an
   optimizer is given as a list of names. *)
ASSUME PlacementAssumption ==
    /\ Catalog \in Seq({Catalog[k] : k \in DOMAIN Catalog})
    /\ \A k \in DOMAIN Catalog :
         /\ {Catalog[k].vcpus, Catalog[k].memory, Catalog[k].disk} \subseteq Nat
         /\ \A a \in DOMAIN Catalog[k].accel : Catalog[k].accel[a] \in Nat
         /\ Gpus(Catalog[k]) \in Nat
         /\ ~({"GPU", "gpu"} \subseteq DOMAIN Catalog[k].accel)
         /\ \A price \in PriceTables : price[Catalog[k].itype] \in [od : Nat, spot : Nat]
    /\ MaxPriced \in Nat \ {0} /\ MaxCandidates \in Nat \ {0}
    /\ \A r \in Requests :
         /\ r.optimizer \in Seq(STRING)
         /\ r.resources \in [outer : RawEntry, ordered : Seq(RawEntry)]
         /\ r.task \in RawTask /\ r.nodes \in Int

VARIABLES
    req,             \* the request
    stage,           \* where it is
    task,            \* the task after defaults and flags
    groups,          \* its resource groups, parsed; the outer one first
    strategy,        \* the metrics of the optimizer
    group,           \* the resource group that is collected next
    cands,           \* candidates collected and priced so far
    plan,            \* the plan, best first
    launch           \* the launch that is provisioned, none or one

placeVars == <<req, stage, task, groups, strategy, group, cands, plan, launch>>

NoTask == [backend |-> "", nodes |-> 0]

PlaceStart ==
    /\ stage = "load"
    /\ task = NoTask
    /\ groups = <<>>
    /\ strategy = <<>>
    /\ group = 1
    /\ cands = <<>>
    /\ plan = <<>>
    /\ launch = {}

PlaceInit == req \in Requests /\ PlaceStart

-----------------------------------------------------------------------------
(* Entry points *)

(* The flag wins over the configuration; the server has no configuration. *)
Flag(flag, default) == IF flag = {} /\ req.entry = "cli" THEN default ELSE flag

cloudFilter == IF req.entry = "job" THEN {} ELSE Flag(req.clouds, req.cfgClouds)

regionOption == IF req.entry = "job" THEN {} ELSE Flag(req.region, req.cfgRegion)

(* numNodes > 0 overrides the task. *)
Override(t) == IF req.nodes > 0 THEN [t EXCEPT !.nodes = req.nodes] ELSE t

form == IF req.entry = "json" THEN "json" ELSE "yaml"

(* task.Load and task.Parse set the defaults before the override; the handler of
   JSON bodies after it.  A job has no override. *)
Loaded ==
    CASE req.entry = "json" -> SetDefaults(Override(req.task))
      [] req.entry = "job" -> SetDefaults(req.task)
      [] OTHER -> LET d == SetDefaults(req.task) IN [d EXCEPT !.task = Override(@)]

(* Resolve, Get and ParseStrategy: the default, a registered optimizer, or a
   list of metrics in which empty names are skipped.  <<>> is an error. *)
Resolve(names) ==
    LET metrics == ElementsAt(names, {k \in DOMAIN names : names[k] # ""})
        known == \A k \in DOMAIN metrics : metrics[k] \in {"cost", "time"}
    IN  CASE names = <<>> -> <<"cost">>
          [] names # <<>> /\ known -> metrics
          [] OTHER -> <<>>

Error ==
    /\ stage' = "error"
    /\ UNCHANGED <<req, task, groups, strategy, group, cands, plan, launch>>

(* Another backend needs no placement. *)
Load ==
    /\ stage = "load"
    /\ \E loaded \in {Loaded}, gs \in {Groups(form, req.resources)} :
         LET ok == ~loaded.err /\ \A k \in DOMAIN gs : FieldsOK(gs[k])
         IN  \/ ~ok /\ Error
             \/ /\ ok
                /\ task' = loaded.task
                /\ groups' = gs
                /\ IF loaded.task.backend = "cloud"
                   THEN stage' = "resolve" /\ UNCHANGED launch
                   ELSE stage' = "launched" /\ launch' = {[cloud |-> loaded.task.backend,
                                                          nodes |-> loaded.task.nodes]}
                /\ UNCHANGED <<req, strategy, group, cands, plan>>

selectOptimizer ==
    /\ stage = "resolve"
    /\ \E metrics \in {Resolve(req.optimizer)} :
         \/ metrics = <<>> /\ Error
         \/ /\ metrics # <<>>
            /\ strategy' = metrics
            /\ stage' = "collect"
            /\ UNCHANGED <<req, task, groups, group, cands, plan, launch>>

-----------------------------------------------------------------------------
(* The optimizer *)

Lower(name) == IF name = "GPU" THEN "gpu" ELSE name

(* The accelerators of an instance have lower case names or the requested one. *)
Has(inst, name, n) ==
    LET key == IF Lower(name) \in DOMAIN inst.accel THEN Lower(name) ELSE name
    IN  key \in DOMAIN inst.accel /\ inst.accel[key] >= n

(* Of a disk range, the lower bound counts, or the upper one alone. *)
matchesResources(inst, rs) ==
    /\ \A t \in rs.itype : inst.itype = t
    /\ \A r \in rs.cpus : Matches(r, inst.vcpus)
    /\ \A r \in rs.memory : Matches(r, inst.memory)
    /\ \A r \in rs.disk : \A m \in (IF r.min # {} THEN r.min ELSE r.max) : inst.disk >= m
    /\ \A a \in rs.accel : \A name \in DOMAIN a : Has(inst, name, a[name])

(* The region of the options wins over the one of the resources; the cloud of the
   resources is not looked at. *)
regionFilter(rs) == IF regionOption # {} THEN regionOption ELSE rs.region

Collects(inst, rs) ==
    /\ cloudFilter # {} => inst.cloud \in cloudFilter
    /\ \A r \in regionFilter(rs) : inst.region = r
    /\ matchesResources(inst, rs)

Collected(rs) == ElementsAt(Catalog, {k \in DOMAIN Catalog : Collects(Catalog[k], rs)})

(* The fewest vcpus first. *)
Fewer(insts) ==
    {p \in (DOMAIN insts) \X (DOMAIN insts) :
       \/ insts[p[1]].vcpus < insts[p[2]].vcpus
       \/ insts[p[1]].vcpus = insts[p[2]].vcpus /\ p[1] < p[2]}

(* Beyond the budget, the machines with the fewest vcpus are priced. *)
Budget(insts) ==
    LET order == Sorted(DOMAIN insts, Fewer(insts))
    IN  IF Len(insts) <= MaxPriced THEN insts
        ELSE [k \in 1..MaxPriced |-> insts[order[k]]]

(* The prices of the fetch; a place whose fetch failed has none. *)
attachPrices(insts, failed, price) ==
    [k \in DOMAIN insts |->
        LET p == IF insts[k].region \in failed THEN [od |-> 0, spot |-> 0]
                 ELSE price[insts[k].itype]
        IN  [inst |-> insts[k], group |-> group, od |-> p.od, spot |-> p.spot]]

(* The metadata of a cloud or region cannot be read. *)
MetaFails == stage = "collect" /\ group <= Len(groups) /\ Error

(* One resource group: collectCandidates, the budget, attachPrices. *)
collectAndPrice(failed, price) ==
    /\ stage = "collect" /\ group <= Len(groups)
    /\ cands' = cands \o attachPrices(Budget(Collected(groups[group])), failed, price)
    /\ group' = group + 1
    /\ UNCHANGED <<req, stage, task, groups, strategy, plan, launch>>

useSpot == IF groups[1].spot # {} THEN CHOOSE b \in groups[1].spot : TRUE
           ELSE req.entry # "job" /\ (req.spot \/ (req.entry = "cli" /\ req.cfgSpot))

(* In tenths: a missing price is estimated from the other one. *)
CostPerHour(c) ==
    CASE useSpot /\ c.spot > 0 -> 10 * c.spot
      [] useSpot /\ c.spot = 0 -> 3 * c.od
      [] ~useSpot /\ c.od > 0 -> 10 * c.od
      [] OTHER -> 30 * c.spot

Priced(c) == c.od > 0 \/ c.spot > 0

Vcpus(inst) == IF inst.vcpus > 0 THEN inst.vcpus ELSE 4

(* The runtime falls as the compute capacity grows, so minus the capacity ranks
   alike; an estimate of the task is the same for all. *)
estimateRuntime(c) ==
    IF \E t \in groups[1].time : t > 0 THEN 0 ELSE -(Vcpus(c.inst) + 16 * Gpus(c.inst))

Rank(metric, c) == IF metric = "cost" THEN CostPerHour(c) ELSE estimateRuntime(c)

(* Mutant: only the first metric counts. *)
LessFirstMetric(c, d) ==
    \/ c.group < d.group
    \/ c.group = d.group /\ Priced(c) /\ ~Priced(d)
    \/ /\ c.group = d.group /\ Priced(c) = Priced(d)
       /\ Rank(strategy[1], c) < Rank(strategy[1], d)

(* The order of rankPlan: group, priced first, then the metrics one by one. *)
Less(c, d) ==
    \/ c.group < d.group
    \/ c.group = d.group /\ Priced(c) /\ ~Priced(d)
    \/ /\ c.group = d.group /\ Priced(c) = Priced(d)
       /\ \E k \in DOMAIN strategy :
            /\ Rank(strategy[k], c) < Rank(strategy[k], d)
            /\ \A j \in 1..(k - 1) : Rank(strategy[j], c) = Rank(strategy[j], d)

(* The best first, and of two that are alike the one collected first. *)
Better ==
    {p \in (DOMAIN cands) \X (DOMAIN cands) :
       \/ Less(cands[p[1]], cands[p[2]])
       \/ ~Less(cands[p[2]], cands[p[1]]) /\ p[1] < p[2]}

(* A stable sort, cut to MaxCandidates. *)
rankPlan ==
    LET order == Sorted(DOMAIN cands, Better)
        n == IF Len(cands) > MaxCandidates THEN MaxCandidates ELSE Len(cands)
    IN  [k \in 1..n |-> cands[order[k]]]

(* The end of Optimize. *)
Optimize ==
    /\ stage = "collect" /\ group > Len(groups)
    /\ \/ cands = <<>> /\ Error
       \/ /\ cands # <<>>
          /\ plan' = rankPlan
          /\ stage' = "planned"
          /\ UNCHANGED <<req, task, groups, strategy, group, cands, launch>>

-----------------------------------------------------------------------------
(* After the plan *)

Picked(c) == [cloud |-> c.inst.cloud, region |-> c.inst.region, itype |-> c.inst.itype,
              nodes |-> task.nodes, od |-> c.od, spot |-> c.spot]

(* --dry-run, dryRun and the optimize command. *)
DryRun ==
    /\ stage = "planned" /\ req.dry
    /\ stage' = "shown"
    /\ UNCHANGED <<req, task, groups, strategy, group, cands, plan, launch>>

(* The handlers and the job launch the first of the plan. *)
LaunchFirst ==
    /\ stage = "planned" /\ ~req.dry /\ req.entry # "cli"
    /\ launch' = {Picked(plan[1])}
    /\ stage' = "launched"
    /\ UNCHANGED <<req, task, groups, strategy, group, cands, plan>>

Or(new, old) == IF new > 0 THEN new ELSE old

(* The launch command reads the live price of the first of the plan, if it can,
   and asks. *)
refreshLaunchPrice(live) ==
    LET first == plan[1]
        p == [first EXCEPT !.od = Or(live.od, @), !.spot = Or(live.spot, @)]
    IN  /\ stage = "planned" /\ ~req.dry /\ req.entry = "cli"
        /\ plan' = [plan EXCEPT ![1] = p]
        /\ \/ stage' = "launched" /\ launch' = {Picked(p)}
           \/ stage' = "aborted" /\ UNCHANGED launch
        /\ UNCHANGED <<req, task, groups, strategy, group, cands>>

LivePrices == UNION {{t[i] : i \in DOMAIN t} : t \in PriceTables}

Regions == {Catalog[k].region : k \in DOMAIN Catalog}

PlaceNext ==
    \/ Load
    \/ selectOptimizer
    \/ MetaFails
    \/ \E failed \in SUBSET Regions, price \in PriceTables : collectAndPrice(failed, price)
    \/ Optimize
    \/ DryRun
    \/ LaunchFirst
    \/ \E live \in LivePrices : refreshLaunchPrice(live)

PlaceSpec == PlaceInit /\ [][PlaceNext]_placeVars

-----------------------------------------------------------------------------
(* Correctness *)

PlaceTypeOK ==
    /\ stage \in {"load", "resolve", "collect", "planned", "shown", "launched", "aborted", "error"}
    /\ group \in 1..(Len(req.resources.ordered) + 2)
    /\ Len(cands) <= MaxPriced * (Len(req.resources.ordered) + 1)
    /\ Len(plan) <= MaxCandidates
    /\ Cardinality(launch) <= 1

(* The range expressions of the docs: "8", "8+", "-8" and "4-8"; of a disk they say
   a lower bound. *)
Plain(s) ==
    \/ Len(s) = 1 /\ s[1] >= 0
    \/ Len(s) = 2 /\ s[1] >= 0 /\ s[2] = Plus
    \/ Len(s) = 2 /\ s[1] = Dash /\ s[2] >= 0
    \/ Len(s) = 3 /\ s[1] >= 0 /\ s[2] = Dash /\ s[3] >= 0

PlainDisk(s) == Plain(s) /\ s[1] # Dash /\ (Len(s) = 3 => s[1] <= s[3])

(* Every name once, and a map with its counts. *)
PlainAccel(a) ==
    /\ \A i, j \in DOMAIN a.items : a.items[i].name = a.items[j].name => i = j
    /\ a.form = "map" => \A i \in DOMAIN a.items : a.items[i].n > 0

PlainEntry(rs) ==
    /\ \A s \in rs.cpus \cup rs.memory : Plain(s)
    /\ \A s \in rs.disk : PlainDisk(s)
    /\ \A a \in rs.accel : PlainAccel(a)

PlainYAML ==
    /\ form = "yaml"
    /\ PlainEntry(req.resources.outer)
    /\ \A k \in DOMAIN req.resources.ordered : PlainEntry(req.resources.ordered[k])

Says(s, v) ==
    CASE Len(s) = 1 -> v = s[1]
      [] Len(s) = 2 /\ s[2] = Plus -> v >= s[1]
      [] Len(s) = 2 /\ s[1] = Dash -> v <= s[2]
      [] OTHER -> s[1] <= v /\ v <= s[3]

(* A field of the k-th resource group as the task says it: the entry's own, or
   the one of the outer resources. *)
Said(k, f) ==
    LET outer == req.resources.outer[f]
    IN  IF k = 1 THEN outer
        ELSE LET own == req.resources.ordered[k - 1][f] IN IF own = {} THEN outer ELSE own

Fits(inst, k) ==
    /\ \A s \in Said(k, "cpus") : Says(s, inst.vcpus)
    /\ \A s \in Said(k, "memory") : Says(s, inst.memory)
    /\ \A s \in Said(k, "disk") : \E d \in 0..inst.disk : Says(s, d)
    /\ \A t \in Said(k, "itype") : inst.itype = t
    /\ \A a \in Said(k, "accel") : \A i \in DOMAIN a.items :
         \E name \in {a.items[i].name, Lower(a.items[i].name)} :
            name \in DOMAIN inst.accel /\ inst.accel[name] >= Count(a.items[i])

Flagged(flag) == IF req.entry = "job" THEN {} ELSE flag

Configured(default) == IF req.entry = "cli" THEN default ELSE {}

(* "CLI flag > task YAML > config file" *)
Priority(flag, said, default) ==
    IF Flagged(flag) # {} THEN flag ELSE IF said # {} THEN said ELSE Configured(default)

CloudKept(inst, k) ==
    LET asked == Priority(req.clouds, Said(k, "cloud"), req.cfgClouds)
    IN  asked # {} => inst.cloud \in asked

RegionKept(inst, k) ==
    \A r \in Priority(req.region, Said(k, "region"), req.cfgRegion) : inst.region = r

(* Where the code does not follow that priority: it never reads a task's cloud, and
   takes the region of the configuration for the task's. *)
CloudIsLost(k) == Said(k, "cloud") # {} /\ Flagged(req.clouds) = {}

RegionIsLost(k) ==
    Said(k, "region") # {} /\ Flagged(req.region) = {} /\ Configured(req.cfgRegion) # {}

(* "cloud/region pinning": every placement of the plan of a YAML task is in the cloud
   and the region that are asked for: by a flag, else by the task, else by the
   configuration. *)
PinsAreKept ==
    form = "yaml" =>
        \A k \in DOMAIN plan :
            CloudKept(plan[k].inst, plan[k].group) /\ RegionKept(plan[k].inst, plan[k].group)

(* Every placement of the plan of a YAML task has what its resource group says, in
   the words of the task: the vcpus, the memory, the disk, the type and the
   accelerators, an ordered entry's own or the outer ones; and it is in the cloud and
   region asked for, except where these are lost. *)
PlanIsFeasible ==
    PlainYAML =>
        \A k \in DOMAIN plan :
            LET inst == plan[k].inst
                g == plan[k].group
            IN  /\ Fits(inst, g)
                /\ ~CloudIsLost(g) => CloudKept(inst, g)
                /\ ~RegionIsLost(g) => RegionKept(inst, g)

(* When Optimize has no plan for a YAML task although all metadata was read, no
   instance type of the clouds and regions asked for fits any resource group. *)
NoPlanOnlyIfNoneFits ==
    (PlainYAML /\ stage = "error" /\ group > Len(groups)) =>
        ~ \E i \in DOMAIN Catalog, k \in DOMAIN groups :
            /\ ~CloudIsLost(k) /\ ~RegionIsLost(k)
            /\ Fits(Catalog[i], k) /\ CloudKept(Catalog[i], k) /\ RegionKept(Catalog[i], k)

(* "the primary metric decides, ties fall to the next metric", for the plan as it
   was ranked: the first placement is not beaten by any candidate of its group,
   priced or cut off; a candidate with a price beats one without. *)
BestFirst ==
    stage = "planned" =>
        \A i \in DOMAIN cands :
            LET best == plan[1]
                c == cands[i]
                ties(k) == \A j \in 1..k : Rank(strategy[j], c) = Rank(strategy[j], best)
            IN  /\ best.group <= c.group
                /\ (best.group = c.group /\ Priced(c)) =>
                     /\ Priced(best)
                     /\ \A k \in DOMAIN strategy :
                          ties(k - 1) => Rank(strategy[k], best) <= Rank(strategy[k], c)

(* Whatever the entry point, what is launched has at least one node and a backend
   that is configured. *)
LaunchIsSound ==
    \A l \in launch :
        /\ l.nodes >= 1
        /\ task.backend \in ValidBackends
        /\ task.backend = "existing" => task.ssh
        /\ task.backend = "docker" => task.docker

(* "JSON bodies stay human-friendly and round-trip cleanly": a range of numbers that
   are not negative matches the same values when it is written and read again. *)
RangesRoundTrip ==
    \A k \in DOMAIN groups : \A r \in groups[k].cpus \cup groups[k].memory \cup groups[k].disk :
        (~r.err /\ \A m \in r.min \cup r.max : m >= 0) =>
                  LET again == ParseRange(RangeString(r))
                  IN  ~again.err /\ \A v \in 0..9 : Matches(again, v) = Matches(r, v)

(* What is planned and launched is what the task says, but for the pins that are lost. *)
PlanMeetsTask == PlanIsFeasible /\ NoPlanOnlyIfNoneFits /\ LaunchIsSound /\ RangesRoundTrip
=============================================================================
