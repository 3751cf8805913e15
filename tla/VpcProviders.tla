---------------------------- MODULE VpcProviders ----------------------------
(***************************************************************************)
(* RunInstances of internal/cloud/aws and internal/cloud/aliyun: the nodes *)
(* of the cluster that exist are reused or resumed; otherwise a VPC, a     *)
(* security group and subnets (vswitches) are found or made, and one call  *)
(* creates all nodes, on the first subnet whose zone has capacity.         *)
(*                                                                         *)
(* A step is one call of the cloud's API that changes something; the reads *)
(* that lead up to a decision are one step.  A VPC is the default one, the *)
(* one the configuration names, or <<p, k>>, the k-th that call p made; a  *)
(* subnet is <<VPC, zone>>, at most one per zone and VPC.                  *)
(***************************************************************************)
EXTENDS Naturals, Sequences, SequencesExt

CONSTANTS
    Names,      \* cluster names
    Calls,      \* calls of RunInstances, each run once
    None,       \* no VPC, no group, no zone
    Clouds,     \* a subset of {"aws", "aliyun"}
    NumZones,   \* zones of the region, in the order the API lists them
    NumNodes,   \* LaunchSpec.NumNodes
    Old,        \* nodes of a cluster that may exist before the calls
    MaxFaults   \* bound: calls of the API that fail

ASSUME VpcProvidersAssumption ==
    /\ Clouds \subseteq {"aws", "aliyun"}
    /\ {NumZones, NumNodes} \subseteq Nat \ {0}
    /\ {Old, MaxFaults} \subseteq Nat

VARIABLES
    acct,    \* the account, the configuration and the launch's zone
    net,     \* the VPCs that exist
    inst,    \* the instances that exist
    launch,  \* the calls
    faults   \* failed API calls so far

vars == <<acct, net, inst, launch, faults>>

Zones == 1..NumZones

Account ==
    [cloud   : Clouds,
     default : BOOLEAN,                        \* is there a default VPC?
     vpc     : {"none", "empty", "full"},      \* the configured VPC
     group   : {"none", "known", "unknown"},   \* the configured group
     subs    : {{}, {1}},                      \* zones of configured subnets
     zone    : {None, NumZones},               \* LaunchSpec.Zone
     stock   : {{}, {1}, {NumZones}, Zones},   \* zones with capacity
     slow    : BOOLEAN]                        \* is a new subnet pending for long?

Default == <<"default", 0>>
User == <<"user", 0>>

Part == {"igw", "attached", "table", "route", "assoc", "gpi-sg"}

(* A VPC that is set up, the default one or one the user made; an earlier launch
   may have left its security group there. *)
Made(zones, used) == [parts |-> IF used THEN Part ELSE Part \ {"gpi-sg"}, subs |-> zones]

NoLaunch ==
    [pc |-> "idle", name |-> None, vpc |-> None, group |-> None, subs |-> <<>>, k |-> 1,
     step |-> 1, nets |-> 0, then |-> "none", todo |-> {}, ids |-> {}, res |-> "none"]

Vpc == {Default, User} \cup (Calls \X {1, 2})

Subnet == Vpc \X Zones

Group == [vpc : Vpc \cup {None}, rules : 0..2]

(* Old nodes, and those that attempt k of a call made. *)
Node == ({"old"} \X Nat) \cup (Calls \X Nat \X Nat)

Instance ==
    [name   : Names,
     state  : {"running", "stopped"},
     subnet : Subnet \cup {None},
     group  : Group \cup {None},
     by     : Calls \cup {None}]        \* the call that made it

Launch ==
    [pc    : {"idle", "list", "resume", "vpc", "net", "group", "rule", "subnets",
              "mkvpc", "mkswitch", "run", "done"},
     name  : Names \cup {None},
     vpc   : Vpc \cup {None},
     group : Group \cup {None},
     subs  : Seq(Subnet),               \* the subnets it tries
     k     : Nat \ {0},                 \* the one it is at
     step  : 1..7,                      \* of createVpcNetwork
     nets  : 0..2,                      \* networks it began to make
     then  : {"none", "group", "run"},  \* where createVpcNetwork returns to
     todo  : SUBSET Node,               \* nodes to start
     ids   : SUBSET Node,               \* nodes it returns
     res   : {"none", "ok", "error", "panic"}]

ASSUME NamesAreApart ==
    /\ Calls \cap {"default", "user", "old"} = {}
    /\ None \notin Calls \cup Vpc \cup Subnet \cup Group \cup Zones

TypeOK ==
    /\ acct \in Account
    /\ DOMAIN net \subseteq Vpc
    /\ \A v \in DOMAIN net : net[v] \in [parts : SUBSET Part, subs : SUBSET Zones]
    /\ DOMAIN inst \subseteq Node /\ IsFiniteSet(DOMAIN inst)
    /\ \A i \in DOMAIN inst : inst[i] \in Instance
    /\ launch \in [Calls -> Launch]
    /\ faults \in 0..MaxFaults

(* The nodes of one cluster that are there already: r running ones, and s that
   are stopped. *)
OldNodes(n, r, s) ==
    [i \in {<<"old", j>> : j \in 1..(r + s)} |->
       [name |-> n, state |-> IF i[2] <= r THEN "running" ELSE "stopped",
        subnet |-> None, group |-> None, by |-> None]]

(* A configured group belongs to the configured VPC; only aws looks it up, and
   may not find it. *)
Init ==
    /\ acct \in Account
    /\ acct.group = "unknown" => acct.cloud = "aws"
    /\ acct.group = "known" => acct.vpc # "none"
    /\ acct.slow => acct.cloud = "aws" /\ ~acct.default /\ acct.vpc = "none"
                    /\ acct.stock = Zones /\ acct.zone = None
    /\ acct.subs # {} => acct.vpc = "full"
    /\ \E used \in {FALSE, acct.cloud = "aws" /\ acct.group # "known"} :
         net = [v \in (IF acct.default THEN {Default} ELSE {}) \cup
                      (IF acct.vpc = "none" THEN {} ELSE {User}) |->
                  Made(IF v = User /\ acct.vpc = "empty" THEN {} ELSE Zones, used)]
    /\ \E n \in Names, r, s \in 0..Old : r + s <= Old /\ inst = OldNodes(n, r, s)
    /\ launch = [p \in Calls |-> NoLaunch]
    /\ faults = 0

-----------------------------------------------------------------------------
Is(p, cloud, label) == acct.cloud = cloud /\ launch[p].pc = label

Return(p, r) == launch' = [launch EXCEPT ![p].pc = "done", ![p].res = r]

(* A call of the API fails: RunInstances returns the error, and leaves what
   was made so far. *)
Fail(p) ==
    /\ faults < MaxFaults
    /\ faults' = faults + 1
    /\ Return(p, "error")

Begin(p, n) ==
    /\ launch[p].pc = "idle"
    /\ launch' = [launch EXCEPT ![p].pc = "list", ![p].name = n]
    /\ UNCHANGED <<acct, net, inst, faults>>

(* Mutant: the filter on the name is a prefix that other names match too. *)
ListInstancesByPrefix(n) == DOMAIN inst

(* ListInstances, all pages of it: the instances with exactly this name. *)
ListInstances(n) == {i \in DOMAIN inst : inst[i].name = n}

(* RunInstances: reuse enough running nodes, else resume stopped ones, else
   create.  The lists are in the API's order, which is any order. *)
ListExisting(p) ==
    LET mine    == ListInstances(launch[p].name)
        running == {i \in mine : inst[i].state = "running"}
        stopped == mine \ running
        short   == NumNodes - Cardinality(running)
        need    == IF Cardinality(stopped) > short THEN short ELSE Cardinality(stopped)
    IN  /\ launch[p].pc = "list"
        /\ \/ Fail(p)
           \/ /\ Cardinality(running) >= NumNodes
              /\ \E r \in kSubset(NumNodes, running) :
                   launch' = [launch EXCEPT ![p].pc = "done", ![p].res = "ok", ![p].ids = r]
              /\ UNCHANGED faults
           \/ /\ Cardinality(running) < NumNodes
              /\ stopped # {}
              /\ \E s \in kSubset(need, stopped) :
                   launch' = [launch EXCEPT ![p].pc = "resume", ![p].todo = s,
                                            ![p].ids = running \cup s]
              /\ UNCHANGED faults
           \/ /\ Cardinality(running) < NumNodes
              /\ stopped = {}
              /\ launch' = [launch EXCEPT ![p].pc = "vpc"]
              /\ UNCHANGED faults
        /\ UNCHANGED <<acct, net, inst>>

(* StartInstances: one call per node; the first error ends the launch. *)
StartInstances(p) ==
    /\ launch[p].pc = "resume"
    /\ \E i \in launch[p].todo :
         \/ Fail(p) /\ UNCHANGED inst
         \/ /\ inst' = [inst EXCEPT ![i].state = "running"]
            /\ launch' = [launch EXCEPT ![p].todo = @ \ {i}]
            /\ UNCHANGED faults
    /\ UNCHANGED <<acct, net>>

(* The nodes are started; all[:spec.NumNodes] panics when they are too few. *)
Resumed(p) ==
    /\ launch[p].pc = "resume"
    /\ launch[p].todo = {}
    /\ Return(p, IF Cardinality(launch[p].ids) >= NumNodes THEN "ok" ELSE "panic")
    /\ UNCHANGED <<acct, net, inst, faults>>

-----------------------------------------------------------------------------
(* The network calls of both clients *)

(* DescribeVpcs, asked for the default VPC. *)
DescribeVpcs == IF acct.default THEN Default ELSE None

CreateVpc(v) ==
    [u \in DOMAIN net \cup {v} |-> IF u = v THEN [parts |-> {}, subs |-> {}] ELSE net[u]]

(* CreateInternetGateway, AttachInternetGateway, CreateRouteTable, CreateRoute,
   AssociateRouteTable. *)
CreatePart(v, part) == [net EXCEPT ![v].parts = @ \cup {part}]

(* CreateSubnet, CreateVSwitch. *)
CreateVSwitch(v, z) == [net EXCEPT ![v].subs = @ \cup {z}]

ListVSwitches(v) == IF v = None THEN {} ELSE net[v].subs

(* Mutant: the request does not name the VPC. *)
CreateSecurityGroupNoVpc(v) == [vpc |-> Default, rules |-> 0]

(* CreateSecurityGroup: the new group allows nothing. *)
CreateSecurityGroup(v) == [vpc |-> v, rules |-> 0]

-----------------------------------------------------------------------------
(* aws: the network *)

(* Where createVpcNetwork returns to: vpcFor keeps the VPC, subnetsFor has
   its one candidate. *)
NetworkDone(p, v, z) ==
    IF launch[p].then = "group" THEN [launch[p] EXCEPT !.pc = "group", !.vpc = v]
    ELSE [launch[p] EXCEPT !.pc = "run", !.subs = << <<v, z>> >>]

MakeNetwork(c, then) == [c EXCEPT !.pc = "net", !.step = 1, !.nets = @ + 1, !.then = then]

(* vpcFor: the VPC of the configuration, the default one, or a new one. *)
AwsVpcFor(p) ==
    /\ Is(p, "aws", "vpc")
    /\ \/ Fail(p)
       \/ /\ launch' = [launch EXCEPT ![p] =
               IF acct.vpc # "none" THEN [@ EXCEPT !.vpc = User, !.pc = "group"]
               ELSE IF DescribeVpcs # None THEN [@ EXCEPT !.vpc = DescribeVpcs, !.pc = "group"]
               ELSE MakeNetwork(@, "group")]
          /\ UNCHANGED faults
    /\ UNCHANGED <<acct, net, inst>>

(* The calls of createVpcNetwork that change the account. *)
NetworkSteps == <<"vpc", "igw", "attached", "table", "route", "subnet", "assoc">>

(* DescribeZones: the zone in the middle of the list, when none is asked for. *)
PickZone(z) == IF z = None THEN NumZones \div 2 + 1 ELSE z

(* createVpcNetwork: a VPC, a gateway, a route table with a route to the
   gateway, a subnet that uses it.  Nothing is undone when a call fails. *)
AwsCreateVpcNetwork(p) ==
    LET v == <<p, launch[p].nets>>
        z == PickZone(IF launch[p].then = "group" THEN None ELSE acct.zone)
        s == NetworkSteps[launch[p].step]
    IN  /\ Is(p, "aws", "net")
        /\ \/ Fail(p) /\ UNCHANGED net
           \/ /\ net' =
                   CASE s = "vpc" -> CreateVpc(v)
                     [] s = "subnet" -> CreateVSwitch(v, z)
                     [] OTHER -> CreatePart(v, s)
              /\ launch' = [launch EXCEPT ![p] =
                   IF @.step < Len(NetworkSteps) THEN [@ EXCEPT !.step = launch[p].step + 1]
                   ELSE NetworkDone(p, v, z)]
              /\ UNCHANGED faults
        /\ UNCHANGED <<acct, inst>>

(* securityGroupFor: the group of the configuration if it exists, else a new
   one, in the launch's VPC, that allows nothing yet.  Its name is always gpi-sg,
   and aws refuses a second group of that name in a VPC. *)
AwsSecurityGroupFor(p) ==
    LET v == launch[p].vpc
    IN  /\ Is(p, "aws", "group")
        /\ \/ Fail(p) /\ UNCHANGED net
           \/ /\ acct.group = "known"
              /\ launch' = [launch EXCEPT ![p].group = [vpc |-> User, rules |-> 2],
                                          ![p].pc = "subnets"]
              /\ UNCHANGED <<net, faults>>
           \/ /\ acct.group # "known" /\ "gpi-sg" \notin net[v].parts
              /\ net' = CreatePart(v, "gpi-sg")
              /\ launch' = [launch EXCEPT ![p].group = CreateSecurityGroup(v), ![p].pc = "rule"]
              /\ UNCHANGED faults
           \/ /\ acct.group # "known" /\ "gpi-sg" \in net[v].parts
              /\ Return(p, "error")
              /\ UNCHANGED <<net, faults>>
        /\ UNCHANGED <<acct, inst>>

(* The subnets of VPC v in the zones Z, in the API's order. *)
InZones(v, Z) == SetToSeq({<<v, z>> : z \in Z})

(* DescribeSubnets of aws: the subnets of the VPC whose state is "available". *)
DescribeSubnets(v) ==
    IF v # None /\ acct.slow /\ v \notin {Default, User} THEN {} ELSE ListVSwitches(v)

(* subnetsFor: the subnets the configuration names; else those in the zone
   asked for; else all of the VPC. *)
AwsCandidates(v) ==
    LET there == DescribeSubnets(v)
        zoned == there \cap {acct.zone}
    IN  IF there \cap acct.subs # {} THEN InZones(v, there \cap acct.subs)
        ELSE InZones(v, IF zoned # {} THEN zoned ELSE there)

(* subnetsFor: without a VPC the default one is looked up; a VPC without
   subnets is left for a network of its own. *)
AwsSubnetsFor(p) ==
    LET v == IF launch[p].vpc = None THEN DescribeVpcs ELSE launch[p].vpc
        found == AwsCandidates(v)
    IN  /\ Is(p, "aws", "subnets")
        /\ \/ Fail(p)
           \/ /\ launch' = [launch EXCEPT ![p] =
                   IF found # <<>> THEN [@ EXCEPT !.subs = found, !.pc = "run"]
                   ELSE MakeNetwork(@, "run")]
              /\ UNCHANGED faults
        /\ UNCHANGED <<acct, net, inst>>

-----------------------------------------------------------------------------
(* aliyun: the network *)

(* RunInstances resolves the VPC up-front: the configured one, the default
   one, or none. *)
AliyunVpc(p) ==
    /\ Is(p, "aliyun", "vpc")
    /\ \/ acct.vpc = "none" /\ Fail(p)
       \/ /\ launch' = [launch EXCEPT
               ![p].pc = "group",
               ![p].vpc = IF acct.vpc # "none" THEN User ELSE DescribeVpcs]
          /\ UNCHANGED faults
    /\ UNCHANGED <<acct, net, inst>>

(* RunInstances: the configured group, which is not looked up, or a new one. *)
AliyunGroup(p) ==
    /\ Is(p, "aliyun", "group")
    /\ \/ acct.group = "none" /\ Fail(p)
       \/ /\ launch' = [launch EXCEPT ![p] =
               IF acct.group # "none"
               THEN [@ EXCEPT !.group = [vpc |-> User, rules |-> 2], !.pc = "subnets"]
               ELSE [@ EXCEPT !.group = CreateSecurityGroup(launch[p].vpc), !.pc = "rule"]]
          /\ UNCHANGED faults
    /\ UNCHANGED <<acct, net, inst>>

(* ensureSecurityGroup, and the end of securityGroupFor: ports 22 and then
   1024 to 65535 are allowed, one call each. *)
AuthorizeSecurityGroup(p) ==
    /\ launch[p].pc = "rule"
    /\ \/ Fail(p)
       \/ /\ launch' = [launch EXCEPT
               ![p].group.rules = @ + 1,
               ![p].pc = IF launch[p].group.rules = 1 THEN "subnets" ELSE "rule"]
          /\ UNCHANGED faults
    /\ UNCHANGED <<acct, net, inst>>

(* vswitchesFor: the configured vswitches that the VPC has, else all it has,
   else one is made, in a VPC made for it when there is none. *)
AliyunVSwitchesFor(p) ==
    LET v == IF launch[p].vpc = None THEN DescribeVpcs ELSE launch[p].vpc
        there == ListVSwitches(v)
        wanted == there \cap acct.subs
    IN  /\ Is(p, "aliyun", "subnets")
        /\ \/ Fail(p)
           \/ /\ launch' = [launch EXCEPT ![p] =
                   IF there # {}
                   THEN [@ EXCEPT !.pc = "run",
                            !.subs = InZones(v, IF wanted # {} THEN wanted ELSE there)]
                   ELSE [@ EXCEPT !.pc = IF v = None THEN "mkvpc" ELSE "mkswitch",
                                  !.vpc = v]]
              /\ UNCHANGED faults
        /\ UNCHANGED <<acct, net, inst>>

(* vswitchesFor: CreateVpc, then CreateVSwitch. *)
AliyunCreateNetwork(p) ==
    LET v == <<p, 1>>
        z == PickZone(acct.zone)
    IN  /\ acct.cloud = "aliyun"
        /\ \/ /\ launch[p].pc \in {"mkvpc", "mkswitch"}
              /\ Fail(p)
              /\ UNCHANGED net
           \/ /\ launch[p].pc = "mkvpc"
              /\ net' = CreateVpc(v)
              /\ launch' = [launch EXCEPT ![p].vpc = v, ![p].nets = 1, ![p].pc = "mkswitch"]
              /\ UNCHANGED faults
           \/ /\ launch[p].pc = "mkswitch"
              /\ net' = CreateVSwitch(launch[p].vpc, z)
              /\ launch' = [launch EXCEPT ![p].subs = << <<launch[p].vpc, z>> >>, ![p].pc = "run"]
              /\ UNCHANGED faults
        /\ UNCHANGED <<acct, inst>>

-----------------------------------------------------------------------------
(* The call that creates the nodes *)

(* Client.RunInstances of aws sends the group only when there is no subnet; the
   zone is the subnet's. *)
AwsRequest(p, s) ==
    IF s # None THEN [subnet |-> s, group |-> None, zone |-> s[2]]
    ELSE [subnet |-> None, group |-> launch[p].group, zone |-> None]

(* Client.RunInstances of aliyun sends both, and the zone that was asked for also
   with a vswitch of another zone. *)
AliyunRequest(p, s) ==
    [subnet |-> s, group |-> launch[p].group,
     zone |-> IF acct.zone # None THEN acct.zone ELSE s[2]]

Request(p, s) == IF acct.cloud = "aws" THEN AwsRequest(p, s) ELSE AliyunRequest(p, s)

(* Mutants: every error is worth another try; none is. *)
RetryAll(e) == TRUE
RetryNone(e) == FALSE

(* awsRetryable, isRetryableLaunchError: the error is on the list, which has those
   that tell of the zone's capacity and some refusals (InvalidParameterValue,
   IncorrectVpcState, InvalidVSwitch and others); other refusals, and an answer
   that did not arrive, are not. *)
Retryable(e) == e \in {"capacity", "listed"}

(* RunInstances: the next subnet after an error that is worth it. *)
AfterError(c, e) ==
    IF Retryable(e) /\ c.k < Len(c.subs) THEN [c EXCEPT !.k = @ + 1]
    ELSE [c EXCEPT !.pc = "done", !.res = "error"]

(* The nodes one call of the API makes: all of them or none. *)
NewNodes(p) == {<<p, launch[p].k, j>> : j \in 1..NumNodes}

Created(p) ==
    [i \in DOMAIN inst \cup NewNodes(p) |->
       IF i \in DOMAIN inst THEN inst[i]
       ELSE LET r == Request(p, launch[p].subs[launch[p].k])
            IN  [name |-> launch[p].name, state |-> "running", subnet |-> r.subnet,
                 group |-> r.group, by |-> p]]

(* RunInstances: an attempt on subnet k.  It succeeds, finds the zone without
   capacity, is refused (also because its zone is not the subnet's), or its answer
   is lost after the nodes were made. *)
RunOnSubnet(p) ==
    LET s     == launch[p].subs[launch[p].k]
        suits == Request(p, s).zone = s[2]
        stock == s[2] \in acct.stock
    IN  /\ launch[p].pc = "run"
        /\ \/ /\ suits /\ stock
              /\ inst' = Created(p)
              /\ launch' = [launch EXCEPT ![p].pc = "done", ![p].res = "ok",
                                          ![p].ids = NewNodes(p)]
              /\ UNCHANGED faults
           \/ /\ suits /\ ~stock
              /\ launch' = [launch EXCEPT ![p] = AfterError(@, "capacity")]
              /\ UNCHANGED <<inst, faults>>
           \/ /\ ~suits
              /\ \E e \in {"listed", "refused"} :
                   launch' = [launch EXCEPT ![p] = AfterError(@, e)]
              /\ UNCHANGED <<inst, faults>>
           \/ /\ faults < MaxFaults
              /\ faults' = faults + 1
              /\ \/ /\ \E e \in {"listed", "refused"} :
                         launch' = [launch EXCEPT ![p] = AfterError(@, e)]
                    /\ UNCHANGED inst
                 \/ /\ suits /\ stock
                    /\ inst' = Created(p)
                    /\ launch' = [launch EXCEPT ![p] = AfterError(@, "lost")]
        /\ UNCHANGED <<acct, net>>

Step(p) ==
    \/ ListExisting(p)
    \/ StartInstances(p)
    \/ Resumed(p)
    \/ AwsVpcFor(p)
    \/ AwsCreateVpcNetwork(p)
    \/ AwsSecurityGroupFor(p)
    \/ AwsSubnetsFor(p)
    \/ AliyunVpc(p)
    \/ AliyunGroup(p)
    \/ AuthorizeSecurityGroup(p)
    \/ AliyunVSwitchesFor(p)
    \/ AliyunCreateNetwork(p)
    \/ RunOnSubnet(p)

Next ==
    \/ \E p \in Calls, n \in Names : Begin(p, n)
    \/ \E p \in Calls : Step(p)

Spec == Init /\ [][Next]_vars

-----------------------------------------------------------------------------
(* Correctness *)

MadeBy(p) == {i \in DOMAIN inst : inst[i].by = p}

(* RunInstances creates at most one batch of nodes, also when it goes on to
   another subnet and when the answer of the cloud is lost. *)
OneBatch == \A p \in Calls : Cardinality(MadeBy(p)) <= NumNodes

(* The VPC that launches use when it is there. *)
Home == IF acct.vpc # "none" THEN User ELSE Default

(* The VPCs that a launch may put its nodes in: that one, and those it made. *)
VpcsOf(p) == {v \in DOMAIN net : v[1] = p \/ v = Home}

(* The zones in which the VPC has a subnet: a configured one, if it has any. *)
ZonesOf(v) ==
    IF net[v].subs \cap acct.subs # {} THEN net[v].subs \cap acct.subs ELSE net[v].subs

(* A launch got its security group, met no fault, and gave up although a zone that
   it could have launched in has capacity. *)
GaveUp(p) ==
    /\ launch[p].res = "error" /\ faults = 0 /\ launch[p].group # None
    /\ \E v \in VpcsOf(p) : ZonesOf(v) \cap acct.stock # {}

(* "Try each in turn; some AZs may lack capacity": when no zone is asked for, a
   launch gives up only when no zone has capacity in which its VPC has a subnet. *)
TriesEveryZone == acct.zone = None => \A p \in Calls : ~GaveUp(p)

(* "Prefer the requested zone, then return all as fallbacks": on aws, a launch that
   asks for a zone goes on to the others before it gives up. *)
OtherZonesAreFallbacks == acct.cloud = "aws" => \A p \in Calls : ~GaveUp(p)

(* The nodes of a launch are in a network that is finished: a VPC that was made
   for them on aws has its gateway, its route and the subnet's association;
   a group sent to the cloud has all of its rules. *)
NetworkIsFinished ==
    \A i \in DOMAIN inst : inst[i].by # None =>
        /\ acct.cloud = "aws" =>
             {"attached", "route", "assoc"} \subseteq net[inst[i].subnet[1]].parts
        /\ inst[i].group # None => inst[i].group.rules = 2

(* "so both the security group and vswitch reuse the account's existing
   network": on aliyun the group made for a launch is in the VPC of the vswitch,
   whenever the account or the configuration has a VPC. *)
GroupMatchesVSwitch ==
    (acct.cloud = "aliyun" /\ acct.group = "none" /\ (acct.default \/ acct.vpc # "none")) =>
        \A i \in DOMAIN inst : inst[i].by # None => inst[i].group.vpc = inst[i].subnet[1]

(* A launch makes one network at most: subnetsFor finds the subnet that vpcFor
   made.  (Not so when that subnet is still pending, which DescribeSubnets
   leaves out.) *)
OneNetwork ==
    ~acct.slow => \A p \in Calls : Cardinality({v \in DOMAIN net : v[1] = p}) <= 1

(* RunInstances returns NumNodes running nodes of the cluster it was asked for,
   whichever way it got them. *)
ReturnsOwnNodes ==
    \A p \in Calls : launch[p].res = "ok" =>
        /\ Cardinality(launch[p].ids) = NumNodes
        /\ \A i \in launch[p].ids : inst[i].name = launch[p].name /\ inst[i].state = "running"

(* The network that nodes are launched in is one, is finished, and is the one of
   their security group. *)
NetworkIsSound == NetworkIsFinished /\ OneNetwork /\ GroupMatchesVSwitch
=============================================================================
