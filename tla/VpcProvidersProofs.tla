------------------------- MODULE VpcProvidersProofs -------------------------
(***************************************************************************)
(* Proofs about VpcProviders: one batch of nodes for each call, every zone *)
(* tried, a network that is finished, and nodes that are the caller's, for *)
(* every number of names, calls, zones, nodes and faults.                  *)
(***************************************************************************)
EXTENDS VpcProviders, FiniteSetTheorems, TLAPS

(* Before the network of a call is looked for. *)
Early == {"idle", "list", "resume", "vpc"}

(* A VPC whose subnets reach the internet. *)
Finished(v) == v \in DOMAIN net /\ {"attached", "route", "assoc"} \subseteq net[v].parts

(* The VPCs that the account has from the start. *)
AcctOK ==
    /\ acct.default => Finished(Default)
    /\ acct.vpc # "none" => Finished(User)

(* The group of a launch on aliyun is made in the VPC of the account. *)
OwnGroup == acct.cloud = "aliyun" /\ acct.group = "none" /\ (acct.default \/ acct.vpc # "none")

(* What NetworkIsSound says of a node. *)
NodeOK(i) ==
    /\ inst[i].by = None => i[1] = "old"
    /\ inst[i].by # None =>
         /\ i[1] = inst[i].by
         /\ acct.cloud = "aws" => Finished(inst[i].subnet[1])
         /\ inst[i].group # None => inst[i].group.rules = 2
         /\ OwnGroup => inst[i].group.vpc = inst[i].subnet[1]

InstOK == \A i \in DOMAIN inst : NodeOK(i)

(* A call has made nodes on the subnet it is at, and is done then. *)
BatchOK(p) ==
    /\ MadeBy(p) \subseteq NewNodes(p)
    /\ launch[p].pc # "done" => MadeBy(p) = {} /\ launch[p].res = "none"

(* A call that tries subnets is at one of them. *)
TriesOK(p) ==
    LET c == launch[p]
    IN  /\ c.pc \notin {"run", "done"} => c.k = 1
        /\ c.pc = "run" => c.k <= Len(c.subs)

(* The nodes a call is about to return, and those it returned. *)
NodesOK(p) ==
    LET c == launch[p]
    IN  /\ c.pc # "idle" => c.name \in Names
        /\ (c.pc = "resume" \/ c.res = "ok") =>
             \A i \in c.ids : i \in DOMAIN inst /\ inst[i].name = c.name
        /\ c.pc = "resume" =>
             /\ Cardinality(c.ids) <= NumNodes
             /\ c.todo \subseteq c.ids
             /\ \A i \in c.ids : inst[i].state = "running" \/ i \in c.todo
        /\ c.res = "ok" =>
             /\ Cardinality(c.ids) = NumNodes
             /\ \A i \in c.ids : inst[i].state = "running"

(* How far createVpcNetwork is with the VPC that it makes. *)
HalfMade(p) ==
    LET c == launch[p]
        v == <<p, c.nets>>
    IN  /\ c.nets \in 1..2
        /\ c.then \in {"group", "run"}
        /\ c.then = "group" => c.nets = 1
        /\ c.step = 1 => v \notin DOMAIN net
        /\ c.step > 1 => v \in DOMAIN net
        /\ c.step > 3 => "attached" \in net[v].parts
        /\ c.step > 5 => "route" \in net[v].parts
        /\ c.step > 6 => net[v].subs # {}

(* The VPCs that a call has made. *)
OwnVpcs(p) ==
    LET c == launch[p]
    IN  /\ \A v \in DOMAIN net : v[1] = p => v[2] \in 1..c.nets
        /\ acct.slow \/ c.nets <= 1
        /\ c.pc \in Early => c.nets = 0

(* The VPC that a launch uses on aws. *)
ReadyVpc(p, v) ==
    /\ Finished(v)
    /\ \/ v \in {Default, User} /\ launch[p].nets = 0
       \/ v = <<p, 1>> /\ launch[p].nets = 1 /\ net[v].subs # {}

AwsOK(p) ==
    LET c == launch[p]
    IN  /\ c.pc \notin {"mkvpc", "mkswitch"}
        /\ c.pc \in {"group", "rule", "subnets"} => ReadyVpc(p, c.vpc)
        /\ c.pc = "net" => HalfMade(p)
        /\ c.pc = "run" => \A j \in 1..Len(c.subs) : Finished(c.subs[j][1])

AliyunOK(p) ==
    LET c == launch[p]
    IN  /\ c.pc # "net"
        /\ c.pc \in {"group", "rule", "subnets", "mkvpc"} =>
             c.nets = 0 /\ (c.vpc # None => c.vpc \in DOMAIN net)
        /\ c.pc = "mkswitch" => c.vpc \in DOMAIN net

NetworksOK(p) ==
    /\ OwnVpcs(p)
    /\ acct.cloud = "aws" => AwsOK(p)
    /\ acct.cloud = "aliyun" => AliyunOK(p)

(* The group that a launch's nodes are put into. *)
GroupOK(p) ==
    LET c == launch[p]
    IN  /\ c.pc = "rule" => c.group # None /\ c.group.rules \in 0..1
        /\ (acct.cloud = "aliyun" /\ c.pc \in {"subnets", "mkvpc", "mkswitch", "run"}) =>
             c.group # None /\ c.group.rules = 2
        /\ OwnGroup =>
             /\ c.pc # "mkvpc"
             /\ c.pc \in {"group", "rule", "subnets"} => c.vpc # None
             /\ c.pc \in {"rule", "subnets", "mkswitch"} => c.group.vpc = c.vpc
             /\ c.pc = "run" => \A j \in 1..Len(c.subs) : c.subs[j][1] = c.group.vpc

CallOK(p) == BatchOK(p) /\ TriesOK(p) /\ NodesOK(p) /\ NetworksOK(p) /\ GroupOK(p)

VpcInv == AcctOK /\ InstOK /\ \A p \in Calls : CallOK(p)

-----------------------------------------------------------------------------
(* Sets and sequences *)

(* A sequence of a finite set exists, and has the elements of the set. *)
LEMMA SetToSeqFacts ==
    ASSUME NEW S, IsFiniteSet(S)
    PROVE  /\ SetToSeq(S) \in Seq(S)
           /\ Len(SetToSeq(S)) = Cardinality(S) /\ Cardinality(S) \in Nat
           /\ SetToSeq(S) = <<>> <=> S = {}
<1>1. Cardinality(S) \in Nat /\ ExistsBijection(1..Cardinality(S), S)
  BY FS_CardinalityType
<1>2. PICK f \in [1..Cardinality(S) -> S] : IsInjective(f)
  BY <1>1 DEF ExistsBijection, Bijection, Injection, IsInjective
<1>3. SetToSeq(S) \in [1..Cardinality(S) -> S]
  BY <1>2 DEF SetToSeq
<1>4. SetToSeq(S) \in Seq(S) /\ Len(SetToSeq(S)) = Cardinality(S)
  BY <1>1, <1>3
<1>5. Cardinality(S) = 0 <=> S = {}
  BY FS_EmptySet
<1>6. SetToSeq(S) = <<>> <=> Cardinality(S) = 0
  BY <1>1, <1>4
<1> QED BY <1>1, <1>4, <1>5, <1>6

LEMMA ZonesFinite == IsFiniteSet(Zones) /\ NumZones \in Nat \ {0} /\ NumNodes \in Nat \ {0}
<1>1. NumZones \in Nat \ {0} /\ NumNodes \in Nat \ {0}
  BY VpcProvidersAssumption
<1>2. IsFiniteSet(1..NumZones)
  BY <1>1, FS_Interval
<1> QED BY <1>1, <1>2 DEF Zones

(* The subnets of a VPC in some zones, as a list. *)
LEMMA InZonesFacts ==
    ASSUME NEW v \in Vpc, NEW Z \in SUBSET Zones
    PROVE  /\ InZones(v, Z) \in Seq(Subnet)
           /\ InZones(v, Z) = <<>> <=> Z = {}
           /\ \A j \in 1..Len(InZones(v, Z)) : InZones(v, Z)[j][1] = v
           /\ Len(InZones(v, Z)) \in Nat
<1> DEFINE S == {<<v, z>> : z \in Z}
<1>1. IsFiniteSet(Z)
  BY ZonesFinite, FS_Subset
<1>2. IsFiniteSet(S)
  <2> DEFINE f == [z \in Z |-> <<v, z>>]
  <2>1. f \in Surjection(Z, S)
    BY DEF Surjection
  <2> QED BY <1>1, <2>1, FS_Surjection
<1>3. S \subseteq Subnet /\ (S = {} <=> Z = {}) /\ \A s \in S : s[1] = v
  <2>1. \A z \in Z : <<v, z>> \in S /\ <<v, z>> \in Subnet /\ <<v, z>>[1] = v
    BY DEF Subnet
  <2>2. \A s \in S : \E z \in Z : s = <<v, z>>
    OBVIOUS
  <2> HIDE DEF S
  <2> QED BY <2>1, <2>2
<1> DEFINE q == InZones(v, Z)
<1>4. q = SetToSeq(S)
  BY DEF InZones
<1> HIDE DEF S, q
<1>5. q \in Seq(S) /\ (q = <<>> <=> S = {}) /\ Len(q) \in Nat
  BY <1>2, <1>4, SetToSeqFacts
<1>6. q \in Seq(Subnet) /\ \A j \in 1..Len(q) : q[j] \in S
  BY <1>3, <1>5
<1> QED BY <1>3, <1>5, <1>6 DEF q

(* The nodes one call of the API makes. *)
LEMMA NewNodesFacts ==
    ASSUME NEW p \in Calls, NEW k \in Nat,
           NEW S, S = {<<p, k, j>> : j \in 1..NumNodes}
    PROVE  IsFiniteSet(S) /\ Cardinality(S) = NumNodes /\ S \subseteq Node
<1> DEFINE f == [j \in 1..NumNodes |-> <<p, k, j>>]
<1>1. NumNodes \in Nat
  BY ZonesFinite
<1>2. f \in Bijection(1..NumNodes, S)
  <2>1. f \in Surjection(1..NumNodes, S)
    BY DEF Surjection
  <2>2. f \in Injection(1..NumNodes, S)
    BY DEF Injection, IsInjective
  <2> QED BY <2>1, <2>2 DEF Bijection
<1>3. IsFiniteSet(1..NumNodes) /\ Cardinality(1..NumNodes) = NumNodes
  BY <1>1, FS_Interval
<1>4. ExistsBijection(1..NumNodes, S)
  BY <1>2 DEF ExistsBijection
<1>5. IsFiniteSet(S) /\ Cardinality(S) = NumNodes
  BY <1>3, <1>4, FS_Bijection
<1> QED BY <1>1, <1>5 DEF Node

-----------------------------------------------------------------------------
(* What a step of call p leaves alone *)

SetsCall(p, d) == launch' = [launch EXCEPT ![p] = d]

LEMMA CallSet ==
    ASSUME TypeOK, NEW p \in Calls, NEW d \in Launch, SetsCall(p, d)
    PROVE  /\ launch' \in [Calls -> Launch] /\ launch'[p] = d
           /\ \A q \in Calls : q # p => launch'[q] = launch[q]
BY DEF SetsCall, TypeOK

(* Networks grow; the new VPCs are the launch's. *)
NetStep(p) ==
    /\ \A v \in DOMAIN net : /\ v \in DOMAIN net'
                             /\ net[v].parts \subseteq net'[v].parts
                             /\ net[v].subs \subseteq net'[v].subs
    /\ \A v \in DOMAIN net' : v \in DOMAIN net \/ v[1] = p

(* Nodes stay what they are, and running; the new ones are the launch's. *)
InstStep(p) ==
    /\ \A i \in DOMAIN inst :
         /\ i \in DOMAIN inst'
         /\ inst'[i].name = inst[i].name /\ inst'[i].by = inst[i].by
         /\ inst'[i].subnet = inst[i].subnet /\ inst'[i].group = inst[i].group
         /\ inst[i].state = "running" => inst'[i].state = "running"
    /\ \A i \in DOMAIN inst' : i \in DOMAIN inst \/ inst'[i].by = p

Frame(p) ==
    /\ UNCHANGED acct /\ (faults' = 0 => faults = 0) /\ faults' \in 0..MaxFaults
    /\ \A q \in Calls : q # p => launch'[q] = launch[q]
    /\ NetStep(p)
    /\ InstStep(p)

LEMMA FinishedStays ==
    ASSUME NEW p, NetStep(p)
    PROVE  \A v : Finished(v) => Finished(v)'
BY DEF NetStep, Finished

LEMMA OthersStay ==
    ASSUME TypeOK, VpcInv, NEW p \in Calls, Frame(p), NEW q \in Calls, q # p
    PROVE  CallOK(q)'
<1>1. CallOK(q)
  BY DEF VpcInv
<1>2. launch'[q] = launch[q] /\ acct' = acct /\ (faults' = 0 => faults = 0)
  BY DEF Frame
<1>3. MadeBy(q)' = MadeBy(q)
  BY DEF MadeBy, Frame, InstStep
<1>4. BatchOK(q)'
  BY <1>1, <1>2, <1>3 DEF CallOK, BatchOK, NewNodes
<1>5. TriesOK(q)'
  BY <1>1, <1>2 DEF CallOK, TriesOK
<1>6. NodesOK(q)'
  <2> DEFINE c == launch[q]
  <2>1. \A i \in DOMAIN inst : i \in DOMAIN inst' /\ inst'[i].name = inst[i].name
          /\ (inst[i].state = "running" => inst'[i].state = "running")
    BY DEF Frame, InstStep
  <2> QED BY <1>1, <1>2, <2>1 DEF CallOK, NodesOK
<1>7. NetworksOK(q)'
  <2>1. /\ \A v : Finished(v) => Finished(v)'
        /\ \A v \in DOMAIN net : v \in DOMAIN net' /\ net[v].parts \subseteq net'[v].parts
                                /\ net[v].subs \subseteq net'[v].subs
        /\ \A v \in DOMAIN net' : v[1] = q => v \in DOMAIN net
    BY FinishedStays DEF Frame, NetStep
  <2>2. HalfMade(q) => HalfMade(q)'
    <3>1. PICK v : v = <<q, launch[q].nets>>
      OBVIOUS
    <3>2. v[1] = q /\ launch[q].step \in 1..7 /\ v = <<q, launch[q].nets>>' /\ v = <<q, launch'[q].nets>>
      BY <1>2, <3>1 DEF TypeOK, Launch
    <3>3. v \in DOMAIN net' <=> v \in DOMAIN net
      BY <2>1, <3>2
    <3> QED BY <1>2, <2>1, <3>1, <3>2, <3>3 DEF HalfMade
  <2>3. OwnVpcs(q)'
    BY <1>1, <1>2, <2>1 DEF CallOK, NetworksOK, OwnVpcs
  <2>4. \A v : ReadyVpc(q, v) => ReadyVpc(q, v)'
    BY <1>2, <2>1 DEF ReadyVpc, Finished
  <2>5. AwsOK(q) => AwsOK(q)'
    BY <1>2, <2>1, <2>2, <2>4 DEF AwsOK
  <2>6. AliyunOK(q) => AliyunOK(q)'
    BY <1>2, <2>1 DEF AliyunOK
  <2> QED BY <1>1, <1>2, <2>3, <2>5, <2>6 DEF CallOK, NetworksOK
<1>8. GroupOK(q)'
  BY <1>1, <1>2 DEF CallOK, GroupOK, OwnGroup
<1> QED BY <1>4, <1>5, <1>6, <1>7, <1>8 DEF CallOK

FaultStep == faults' = faults \/ (faults < MaxFaults /\ faults' = faults + 1)

LEMMA FaultType ==
    ASSUME TypeOK, FaultStep
    PROVE  faults' \in 0..MaxFaults /\ (faults' = 0 => faults' = faults)
BY VpcProvidersAssumption DEF TypeOK, FaultStep

(* A step that changes nothing but the call. *)
LEMMA CallStep ==
    ASSUME TypeOK, VpcInv, NEW p \in Calls, NEW d \in Launch, SetsCall(p, d),
           UNCHANGED <<acct, net, inst>>, FaultStep, CallOK(p)'
    PROVE  TypeOK' /\ VpcInv'
<1>1. launch' \in [Calls -> Launch] /\ launch'[p] = d /\ \A q \in Calls : q # p => launch'[q] = launch[q]
  BY CallSet
<1>2. faults' \in 0..MaxFaults /\ (faults' = 0 => faults' = faults)
  BY FaultType
<1>3. TypeOK'
  BY <1>1, <1>2 DEF TypeOK
<1>4. Frame(p)
  BY <1>1, <1>2 DEF Frame, NetStep, InstStep
<1>5. \A q \in Calls : CallOK(q)'
  BY <1>4, OthersStay
<1>6. AcctOK' /\ InstOK'
  BY DEF VpcInv, AcctOK, InstOK, NodeOK, Finished, OwnGroup
<1> QED BY <1>3, <1>5, <1>6 DEF VpcInv

(* The parts of a call that do not tell where it is. *)
SameNet(d, c) ==
    /\ d.vpc = c.vpc /\ d.group = c.group /\ d.subs = c.subs /\ d.k = c.k
    /\ d.step = c.step /\ d.nets = c.nets /\ d.then = c.then

SameIds(d, c) == d.name = c.name /\ d.todo = c.todo /\ d.ids = c.ids

LEMMA CallType == TypeOK => \A p \in Calls : launch[p] \in Launch
BY DEF TypeOK

LEMMA ReturnFields ==
    ASSUME TypeOK, NEW p \in Calls, NEW r \in {"ok", "error", "panic"}, Return(p, r)
    PROVE  \E d \in Launch : /\ SetsCall(p, d) /\ d.pc = "done" /\ d.res = r
                          /\ SameNet(d, launch[p]) /\ SameIds(d, launch[p])
<1> DEFINE c == launch[p]
           d == [c EXCEPT !.pc = "done", !.res = r]
<1>1. c \in Launch
  BY CallType
<1>2. d \in Launch /\ d.pc = "done" /\ d.res = r /\ SameNet(d, c) /\ SameIds(d, c)
  BY <1>1 DEF Launch, SameNet, SameIds
<1>3. SetsCall(p, d)
  BY DEF Return, SetsCall
<1> QED BY <1>2, <1>3

(* An operation that ends with an error, and changes nothing else. *)
LEMMA ReturnInv ==
    ASSUME TypeOK, VpcInv, NEW p \in Calls, Return(p, "error"), UNCHANGED <<acct, net, inst>>,
           FaultStep, launch[p].pc # "idle"
    PROVE  TypeOK' /\ VpcInv'
<1> DEFINE c == launch[p]
<1>1. PICK d \in Launch : /\ SetsCall(p, d) /\ d.pc = "done" /\ d.res = "error"
                        /\ SameNet(d, c) /\ SameIds(d, c)
  BY ReturnFields
<1>2. launch'[p] = d
  BY <1>1, CallSet
<1>4. CallOK(p)
  BY DEF VpcInv
<1>5. BatchOK(p)'
  BY <1>1, <1>2, <1>4 DEF CallOK, BatchOK, MadeBy, NewNodes, SameNet
<1>6. TriesOK(p)'
  BY <1>1, <1>2 DEF TriesOK
<1>7. NodesOK(p)'
  BY <1>1, <1>2, <1>4 DEF CallOK, NodesOK, SameIds, TypeOK, Launch
<1>8. NetworksOK(p)'
  BY <1>1, <1>2, <1>4 DEF CallOK, NetworksOK, OwnVpcs, AwsOK, AliyunOK, SameNet, Early
<1>9. GroupOK(p)'
  BY <1>1, <1>2 DEF GroupOK
<1>10. CallOK(p)'
  BY <1>5, <1>6, <1>7, <1>8, <1>9 DEF CallOK
<1> QED BY <1>1, <1>10, CallStep

LEMMA FailInv ==
    ASSUME TypeOK, VpcInv, NEW p \in Calls, Fail(p), UNCHANGED <<acct, net, inst>>,
           launch[p].pc # "idle"
    PROVE  TypeOK' /\ VpcInv'
BY ReturnInv DEF Fail, FaultStep

LEMMA BeginInv ==
    ASSUME TypeOK, VpcInv, NEW p \in Calls, NEW n \in Names, Begin(p, n)
    PROVE  TypeOK' /\ VpcInv'
<1> DEFINE c == launch[p]
           d == [c EXCEPT !.pc = "list", !.name = n]
<1>1. c \in Launch /\ c.pc = "idle" /\ CallOK(p) /\ UNCHANGED <<acct, net, inst, faults>>
  BY CallType DEF VpcInv, Begin
<1>2. /\ d \in Launch /\ d.pc = "list" /\ d.name = n /\ d.res = c.res
      /\ SameNet(d, c)
  BY <1>1 DEF Launch, SameNet
<1>3. SetsCall(p, d)
  BY DEF Begin, SetsCall
<1> HIDE DEF d
<1>4. launch'[p] = d
  BY <1>2, <1>3, CallSet
<1>5. BatchOK(p)' /\ TriesOK(p)'
  BY <1>1, <1>2, <1>4 DEF CallOK, BatchOK, TriesOK, MadeBy, NewNodes, SameNet
<1>6. NodesOK(p)'
  BY <1>1, <1>2, <1>4 DEF CallOK, BatchOK, NodesOK
<1>7. NetworksOK(p)' /\ GroupOK(p)'
  BY <1>1, <1>2, <1>4
     DEF CallOK, NetworksOK, OwnVpcs, AwsOK, AliyunOK, GroupOK, SameNet, Early
<1>8. CallOK(p)'
  BY <1>5, <1>6, <1>7 DEF CallOK
<1> QED BY <1>1, <1>2, <1>3, <1>8, CallStep DEF FaultStep

(* Reuse: the running nodes are enough.  Resume: no more than are missing. *)
LEMMA ListExistingInv ==
    ASSUME TypeOK, VpcInv, NEW p \in Calls, ListExisting(p)
    PROVE  TypeOK' /\ VpcInv'
<1> DEFINE c == launch[p]
           mine    == ListInstances(c.name)
           running == {i \in mine : inst[i].state = "running"}
           stopped == mine \ running
           short   == NumNodes - Cardinality(running)
           need    == IF Cardinality(stopped) > short THEN short ELSE Cardinality(stopped)
<1>1. c \in Launch /\ c.pc = "list" /\ CallOK(p) /\ UNCHANGED <<acct, net, inst>>
  BY CallType DEF VpcInv, ListExisting
<1>2. /\ IsFiniteSet(DOMAIN inst) /\ DOMAIN inst \subseteq Node
      /\ running \subseteq DOMAIN inst /\ stopped \subseteq DOMAIN inst
      /\ running \cap stopped = {}
      /\ \A i \in running \cup stopped : inst[i].name = c.name
      /\ \A i \in running : inst[i].state = "running"
  BY DEF TypeOK, ListInstances
<1>3. /\ IsFiniteSet(running) /\ Cardinality(running) \in Nat
      /\ IsFiniteSet(stopped) /\ Cardinality(stopped) \in Nat
  BY <1>2, FS_Subset, FS_CardinalityType
<1>4. \/ Fail(p)
      \/ /\ \E r \in kSubset(NumNodes, running) :
               launch' = [launch EXCEPT ![p].pc = "done", ![p].res = "ok", ![p].ids = r]
         /\ UNCHANGED faults
      \/ /\ Cardinality(running) < NumNodes
         /\ \E s \in kSubset(need, stopped) :
               launch' = [launch EXCEPT ![p].pc = "resume", ![p].todo = s, ![p].ids = running \cup s]
         /\ UNCHANGED faults
      \/ launch' = [launch EXCEPT ![p].pc = "vpc"] /\ UNCHANGED faults
  BY DEF ListExisting
<1> HIDE DEF mine, running, stopped, short, need
<1>5. CASE Fail(p)
  BY <1>1, <1>5, FailInv
<1>6. ASSUME NEW r \in kSubset(NumNodes, running), UNCHANGED faults,
             launch' = [launch EXCEPT ![p].pc = "done", ![p].res = "ok", ![p].ids = r]
      PROVE  TypeOK' /\ VpcInv'
  <2> DEFINE d == [c EXCEPT !.pc = "done", !.res = "ok", !.ids = r]
  <2>1. r \subseteq running /\ Cardinality(r) = NumNodes /\ r \subseteq Node
    BY <1>2 DEF kSubset
  <2>2. /\ d \in Launch /\ d.pc = "done" /\ d.ids = r /\ d.res = "ok" /\ d.name = c.name
        /\ SameNet(d, c)
    BY <1>1, <2>1 DEF Launch, SameNet
  <2>3. SetsCall(p, d)
    BY <1>6 DEF SetsCall
  <2> HIDE DEF d
  <2>4. launch'[p] = d
    BY <2>2, <2>3, CallSet
  <2>5. BatchOK(p)' /\ TriesOK(p)'
    BY <1>1, <2>2, <2>4 DEF CallOK, BatchOK, TriesOK, MadeBy, NewNodes, SameNet
  <2>6. NodesOK(p)'
    BY <1>1, <1>2, <2>1, <2>2, <2>4 DEF CallOK, NodesOK
  <2>7. NetworksOK(p)' /\ GroupOK(p)'
    BY <1>1, <2>2, <2>4
       DEF CallOK, NetworksOK, OwnVpcs, AwsOK, AliyunOK, GroupOK, SameNet, Early
  <2>8. CallOK(p)'
    BY <2>5, <2>6, <2>7 DEF CallOK
  <2> QED BY <1>1, <1>6, <2>2, <2>3, <2>8, CallStep DEF FaultStep
<1>7. ASSUME NEW s \in kSubset(need, stopped), UNCHANGED faults,
             Cardinality(running) < NumNodes,
             launch' = [launch EXCEPT ![p].pc = "resume", ![p].todo = s, ![p].ids = running \cup s]
      PROVE  TypeOK' /\ VpcInv'
  <2> DEFINE ids == running \cup s
             d == [c EXCEPT !.pc = "resume", !.todo = s, !.ids = ids]
  <2>1. s \subseteq stopped /\ Cardinality(s) = need
    BY DEF kSubset
  <2>2. ids \subseteq Node /\ s \subseteq Node
    BY <1>2, <2>1
  <2>3. Cardinality(ids) <= NumNodes
    <3>1. need <= NumNodes - Cardinality(running)
      BY <1>3, ZonesFinite DEF need, short
    <3>2. IsFiniteSet(s) /\ Cardinality(s) \in Nat /\ running \cap s = {}
      BY <1>2, <1>3, <2>1, FS_Subset, FS_CardinalityType
    <3>3. Cardinality(ids) = Cardinality(running) + Cardinality(s) - Cardinality(running \cap s)
      BY <1>3, <3>2, FS_Union
    <3>4. Cardinality(running \cap s) = 0
      BY <3>2, FS_EmptySet
    <3> HIDE DEF ids
    <3> QED BY <1>3, <2>1, <3>1, <3>2, <3>3, <3>4, ZonesFinite
  <2>4. SetsCall(p, d)
    BY <1>7 DEF SetsCall
  <2>5. \A i \in ids : i \in running \/ i \in s
    OBVIOUS
  <2>6. s \subseteq ids
    OBVIOUS
  <2> HIDE DEF ids
  <2>7. /\ d \in Launch /\ d.pc = "resume" /\ d.ids = ids /\ d.todo = s /\ d.res = c.res
        /\ d.name = c.name /\ SameNet(d, c)
    BY <1>1, <2>2 DEF Launch, SameNet
  <2> HIDE DEF d
  <2>8. launch'[p] = d
    BY <2>4, <2>7, CallSet
  <2>9. BatchOK(p)' /\ TriesOK(p)'
    BY <1>1, <2>7, <2>8 DEF CallOK, BatchOK, TriesOK, MadeBy, NewNodes, SameNet
  <2>10. NodesOK(p)'
    <3>1. d.res = "none" /\ d.name \in Names
      BY <1>1, <2>7 DEF CallOK, BatchOK, NodesOK
    <3>2. \A i \in ids : i \in DOMAIN inst /\ inst[i].name = c.name
                       /\ (inst[i].state = "running" \/ i \in s)
      BY <1>2, <2>1, <2>5
    <3> QED BY <1>1, <2>3, <2>6, <2>7, <2>8, <3>1, <3>2 DEF NodesOK
  <2>11. NetworksOK(p)' /\ GroupOK(p)'
    BY <1>1, <2>7, <2>8
       DEF CallOK, NetworksOK, OwnVpcs, AwsOK, AliyunOK, GroupOK, SameNet, Early
  <2>12. CallOK(p)'
    BY <2>9, <2>10, <2>11 DEF CallOK
  <2> QED BY <1>1, <1>7, <2>4, <2>7, <2>12, CallStep DEF FaultStep
<1>8. CASE launch' = [launch EXCEPT ![p].pc = "vpc"] /\ UNCHANGED faults
  <2> DEFINE d == [c EXCEPT !.pc = "vpc"]
  <2>1. d \in Launch /\ d.pc = "vpc" /\ d.res = c.res /\ SameNet(d, c) /\ SameIds(d, c)
    BY <1>1 DEF Launch, SameNet, SameIds
  <2>2. SetsCall(p, d)
    BY <1>8 DEF SetsCall
  <2> HIDE DEF d
  <2>3. launch'[p] = d
    BY <2>1, <2>2, CallSet
  <2>4. BatchOK(p)' /\ TriesOK(p)'
    BY <1>1, <2>1, <2>3 DEF CallOK, BatchOK, TriesOK, MadeBy, NewNodes, SameNet
  <2>5. NodesOK(p)'
    BY <1>1, <2>1, <2>3 DEF CallOK, BatchOK, NodesOK, SameIds
  <2>6. NetworksOK(p)' /\ GroupOK(p)'
    BY <1>1, <2>1, <2>3
       DEF CallOK, NetworksOK, OwnVpcs, AwsOK, AliyunOK, GroupOK, SameNet, Early
  <2>7. CallOK(p)'
    BY <2>4, <2>5, <2>6 DEF CallOK
  <2> QED BY <1>1, <1>8, <2>1, <2>2, <2>7, CallStep DEF FaultStep
<1> QED BY <1>4, <1>5, <1>6, <1>7, <1>8

(* The nodes and VPCs that were there stay as they should be. *)
LEMMA NodesStay ==
    ASSUME TypeOK, VpcInv, NEW p \in Calls, Frame(p)
    PROVE  AcctOK' /\ \A i \in DOMAIN inst : NodeOK(i)'
<1>1. (\A v : Finished(v) => Finished(v)') /\ acct' = acct
  BY FinishedStays DEF Frame
<1>2. AcctOK'
  BY <1>1 DEF VpcInv, AcctOK
<1>3. ASSUME NEW i \in DOMAIN inst
      PROVE  NodeOK(i)'
  <2>1. NodeOK(i)
    BY DEF VpcInv, InstOK
  <2>2. inst'[i].by = inst[i].by /\ inst'[i].subnet = inst[i].subnet
        /\ inst'[i].group = inst[i].group
    BY DEF Frame, InstStep
  <2> QED BY <1>1, <2>1, <2>2 DEF NodeOK, OwnGroup
<1> QED BY <1>2, <1>3

LEMMA StartInstancesInv ==
    ASSUME TypeOK, VpcInv, NEW p \in Calls, StartInstances(p)
    PROVE  TypeOK' /\ VpcInv'
<1> DEFINE c == launch[p]
<1>1. c \in Launch /\ c.pc = "resume" /\ CallOK(p) /\ UNCHANGED <<acct, net>>
  BY CallType DEF VpcInv, StartInstances
<1>2. PICK i \in c.todo :
         \/ Fail(p) /\ UNCHANGED inst
         \/ /\ inst' = [inst EXCEPT ![i].state = "running"]
            /\ launch' = [launch EXCEPT ![p].todo = @ \ {i}]
            /\ UNCHANGED faults
  BY DEF StartInstances
<1>3. CASE Fail(p) /\ UNCHANGED inst
  BY <1>1, <1>3, FailInv
<1>4. CASE /\ inst' = [inst EXCEPT ![i].state = "running"]
           /\ launch' = [launch EXCEPT ![p].todo = @ \ {i}]
           /\ UNCHANGED faults
  <2> DEFINE t == c.todo \ {i}
             d == [c EXCEPT !.todo = t]
             n == [inst[i] EXCEPT !.state = "running"]
  <2>1. i \in DOMAIN inst /\ i \in c.ids /\ c.todo \subseteq c.ids
    BY <1>1, <1>2 DEF CallOK, NodesOK
  <2>2. inst[i] \in Instance
    BY <2>1 DEF TypeOK
  <2>3. /\ n \in Instance /\ n.state = "running" /\ n.name = inst[i].name
        /\ n.by = inst[i].by /\ n.subnet = inst[i].subnet /\ n.group = inst[i].group
    BY <2>2 DEF Instance
  <2>4. inst' = [inst EXCEPT ![i] = n]
    BY <1>4
  <2>5. t \subseteq Node /\ t \subseteq c.ids /\ \A j \in c.todo : j = i \/ j \in t
    BY <1>1, <2>1 DEF Launch
  <2>6. SetsCall(p, d)
    BY <1>4 DEF SetsCall
  <2> HIDE DEF n, t
  <2>7. /\ d \in Launch /\ d.pc = "resume" /\ d.ids = c.ids /\ d.todo = t /\ d.res = c.res
        /\ d.name = c.name /\ SameNet(d, c)
    BY <1>1, <2>5 DEF Launch, SameNet
  <2> HIDE DEF d
  <2>8. launch' \in [Calls -> Launch] /\ launch'[p] = d /\ \A q \in Calls : q # p => launch'[q] = launch[q]
    BY <2>6, <2>7, CallSet
  <2>9. DOMAIN inst' = DOMAIN inst /\ inst'[i] = n
        /\ \A j \in DOMAIN inst : j # i => inst'[j] = inst[j]
    BY <2>1, <2>4
  <2>10. InstStep(p)
    BY <2>3, <2>9 DEF InstStep
  <2>11. faults' \in 0..MaxFaults /\ faults' = faults
    BY <1>4 DEF TypeOK
  <2>12. TypeOK'
    BY <1>1, <2>3, <2>8, <2>9, <2>11 DEF TypeOK
  <2>13. Frame(p)
    BY <1>1, <2>8, <2>10, <2>11 DEF Frame, NetStep
  <2>14. AcctOK' /\ InstOK'
    BY <2>9, <2>13, NodesStay DEF InstOK
  <2>15. BatchOK(p)' /\ TriesOK(p)'
    <3>1. MadeBy(p)' = MadeBy(p)
      BY <2>10, <2>9 DEF MadeBy, InstStep
    <3> QED BY <1>1, <2>7, <2>8, <3>1 DEF CallOK, BatchOK, TriesOK, NewNodes, SameNet
  <2>16. NodesOK(p)'
    <3>1. d.res = "none" /\ d.name \in Names
      BY <1>1, <2>7 DEF CallOK, BatchOK, NodesOK
    <3>2. \A j \in c.ids : j \in DOMAIN inst' /\ inst'[j].name = c.name
                       /\ (inst'[j].state = "running" \/ j \in t)
      BY <1>1, <2>3, <2>5, <2>9 DEF CallOK, NodesOK
    <3>3. Cardinality(c.ids) <= NumNodes
      BY <1>1 DEF CallOK, NodesOK
    <3> QED BY <2>5, <2>7, <2>8, <3>1, <3>2, <3>3 DEF NodesOK
  <2>17. NetworksOK(p)' /\ GroupOK(p)'
    BY <1>1, <2>7, <2>8
       DEF CallOK, NetworksOK, OwnVpcs, AwsOK, AliyunOK, GroupOK, SameNet, Early
  <2>18. \A q \in Calls : CallOK(q)'
    BY <2>13, <2>15, <2>16, <2>17, OthersStay DEF CallOK
  <2> QED BY <2>12, <2>14, <2>18 DEF VpcInv
<1> QED BY <1>2, <1>3, <1>4

LEMMA ResumedInv ==
    ASSUME TypeOK, VpcInv, NEW p \in Calls, Resumed(p)
    PROVE  TypeOK' /\ VpcInv'
<1> DEFINE c == launch[p]
<1>1. /\ c \in Launch /\ c.pc = "resume" /\ c.todo = {} /\ CallOK(p)
      /\ UNCHANGED <<acct, net, inst, faults>>
  BY CallType DEF VpcInv, Resumed
<1>2. PICK r \in {"ok", "panic"} :
        Return(p, r) /\ (r = "ok" => Cardinality(c.ids) >= NumNodes)
  BY DEF Resumed
<1>3. PICK d \in Launch : /\ SetsCall(p, d) /\ d.pc = "done" /\ d.res = r
                        /\ SameNet(d, c) /\ SameIds(d, c)
  BY <1>2, ReturnFields
<1>4. launch'[p] = d
  BY <1>3, CallSet
<1>5. BatchOK(p)' /\ TriesOK(p)'
  BY <1>1, <1>2, <1>3, <1>4 DEF CallOK, BatchOK, TriesOK, MadeBy, NewNodes, SameNet
<1>6. NodesOK(p)'
  <2>1. /\ c.name \in Names /\ Cardinality(c.ids) <= NumNodes
        /\ \A i \in c.ids : i \in DOMAIN inst /\ inst[i].name = c.name /\ inst[i].state = "running"
    BY <1>1 DEF CallOK, NodesOK
  <2>2. r = "ok" => Cardinality(c.ids) = NumNodes
    <3>1. c.ids \subseteq DOMAIN inst /\ IsFiniteSet(DOMAIN inst)
      BY <2>1 DEF TypeOK
    <3>2. Cardinality(c.ids) \in Nat
      BY <3>1, FS_Subset, FS_CardinalityType
    <3> QED BY <1>2, <2>1, <3>2, ZonesFinite
  <2> QED BY <1>1, <1>3, <1>4, <2>1, <2>2 DEF NodesOK, SameIds
<1>7. NetworksOK(p)' /\ GroupOK(p)'
  BY <1>1, <1>3, <1>4
     DEF CallOK, NetworksOK, OwnVpcs, AwsOK, AliyunOK, GroupOK, SameNet, Early
<1>8. CallOK(p)'
  BY <1>5, <1>6, <1>7 DEF CallOK
<1> QED BY <1>1, <1>3, <1>8, CallStep DEF FaultStep

-----------------------------------------------------------------------------
(* Steps of the network *)

(* The steps from the first look for a VPC to the last before the launch. *)
Building == {"vpc", "net", "group", "rule", "subnets", "mkvpc", "mkswitch"}

(* A step of the network leaves the nodes, and where the call is with them. *)
LEMMA MoveOn ==
    ASSUME TypeOK, VpcInv, NEW p \in Calls, NEW d \in Launch, launch'[p] = d,
           UNCHANGED <<acct, inst>>, faults' = 0 => faults = 0,
           launch[p].pc \in Building, d.pc \in Building \cup {"run"},
           d.pc = "run" => d.subs # <<>>,
           SameIds(d, launch[p]), d.res = launch[p].res, d.k = launch[p].k
    PROVE  BatchOK(p)' /\ TriesOK(p)' /\ NodesOK(p)'
<1> DEFINE c == launch[p]
<1>1. CallOK(p) /\ d.res = "none" /\ d.k = 1 /\ c.name \in Names
  BY DEF VpcInv, CallOK, BatchOK, TriesOK, NodesOK, Building
<1>2. BatchOK(p)'
  BY <1>1 DEF CallOK, BatchOK, MadeBy, NewNodes, Building
<1>3. TriesOK(p)'
  <2>1. d.pc = "run" => 1 <= Len(d.subs)
    <3>1. d.subs \in Seq(Subnet)
      BY DEF Launch
    <3> QED BY <3>1
  <2> QED BY <1>1, <2>1 DEF TriesOK, Building
<1>4. NodesOK(p)'
  BY <1>1 DEF NodesOK, SameIds, Building
<1> QED BY <1>2, <1>3, <1>4

LEMMA BuildStep ==
    ASSUME TypeOK, VpcInv, NEW p \in Calls, NEW d \in Launch, SetsCall(p, d),
           UNCHANGED <<acct, net, inst, faults>>,
           launch[p].pc \in Building, d.pc \in Building \cup {"run"},
           d.pc = "run" => d.subs # <<>>,
           SameIds(d, launch[p]), d.res = launch[p].res, d.k = launch[p].k,
           NetworksOK(p)', GroupOK(p)'
    PROVE  TypeOK' /\ VpcInv'
<1>1. launch'[p] = d
  BY CallSet
<1>2. CallOK(p)'
  BY <1>1, MoveOn DEF CallOK
<1> QED BY <1>2, CallStep DEF FaultStep

LEMMA StepType ==
    \A c \in Launch : [c EXCEPT !.pc = "net"] \in Launch /\ [c EXCEPT !.step = 1] \in Launch
BY DEF Launch

LEMMA NetsType == \A c \in Launch, n \in 0..2 : [c EXCEPT !.nets = n] \in Launch
BY DEF Launch

LEMMA ThenType == \A c \in Launch, then \in {"group", "run"} : [c EXCEPT !.then = then] \in Launch
BY DEF Launch

LEMMA NewNetworkType ==
    ASSUME NEW c \in Launch, NEW n \in 0..2, NEW then \in {"group", "run"}
    PROVE  [c EXCEPT !.pc = "net", !.step = 1, !.nets = n, !.then = then] \in Launch
<1> DEFINE e1 == [c EXCEPT !.pc = "net"]
           e2 == [e1 EXCEPT !.step = 1]
           e3 == [e2 EXCEPT !.nets = n]
           e4 == [e3 EXCEPT !.then = then]
<1>1. e1 \in Launch
  BY StepType
<1>2. e2 \in Launch
  BY <1>1, StepType
<1>3. e3 \in Launch
  BY <1>2, NetsType
<1>4. e4 \in Launch
  BY <1>3, ThenType
<1> QED BY <1>4 DEF Launch

(* MakeNetwork starts createVpcNetwork with a VPC that is not there yet. *)
LEMMA MakeNetworkFields ==
    ASSUME NEW c \in Launch, c.nets \in 0..1, NEW then \in {"group", "run"}
    PROVE  LET d == MakeNetwork(c, then)
           IN  /\ d \in Launch /\ d.pc = "net" /\ d.step = 1 /\ d.nets = c.nets + 1 /\ d.then = then
               /\ d.vpc = c.vpc /\ d.group = c.group /\ d.subs = c.subs /\ d.k = c.k
               /\ d.res = c.res /\ SameIds(d, c)
<1> DEFINE n == c.nets + 1
           d == [c EXCEPT !.pc = "net", !.step = 1, !.nets = n, !.then = then]
<1>1. n \in 0..2
  OBVIOUS
<1>2. MakeNetwork(c, then) = d
  BY DEF MakeNetwork
<1> HIDE DEF n
<1>3. d \in Launch
  BY <1>1, NewNetworkType
<1>4. d.pc = "net" /\ d.step = 1 /\ d.nets = n /\ d.then = then
  BY DEF Launch
<1>5. /\ d.vpc = c.vpc /\ d.group = c.group /\ d.subs = c.subs /\ d.k = c.k
      /\ d.res = c.res /\ SameIds(d, c)
  BY DEF Launch, SameIds
<1> QED BY <1>2, <1>3, <1>4, <1>5 DEF n

LEMMA MakeNetworkInv ==
    ASSUME TypeOK, VpcInv, NEW p \in Calls, NEW then \in {"group", "run"},
           SetsCall(p, MakeNetwork(launch[p], then)), UNCHANGED <<acct, net, inst, faults>>,
           acct.cloud = "aws", launch[p].pc \in Building, launch[p].nets \in 0..1,
           (then = "group" \/ ~acct.slow) => launch[p].nets = 0
    PROVE  TypeOK' /\ VpcInv'
<1> DEFINE c == launch[p]
<1>1. c \in Launch /\ CallOK(p)
  BY CallType DEF VpcInv
<1>2. PICK d : d = MakeNetwork(c, then)
  OBVIOUS
<1>3. /\ d \in Launch /\ d.pc = "net" /\ d.step = 1 /\ d.nets = c.nets + 1 /\ d.then = then
      /\ d.vpc = c.vpc /\ d.group = c.group /\ d.subs = c.subs /\ d.k = c.k
      /\ d.res = c.res /\ SameIds(d, c)
  BY <1>1, <1>2, MakeNetworkFields
<1>4. SetsCall(p, d)
  BY <1>2
<1>5. launch'[p] = d
  BY <1>3, <1>4, CallSet
<1>6. \A v \in DOMAIN net : v[1] = p => v[2] \in 1..c.nets
  BY <1>1 DEF CallOK, NetworksOK, OwnVpcs
<1>7. <<p, c.nets + 1>> \notin DOMAIN net
  <2>1. <<p, c.nets + 1>>[1] = p /\ <<p, c.nets + 1>>[2] = c.nets + 1
    OBVIOUS
  <2>2. c.nets + 1 \notin 1..c.nets
    OBVIOUS
  <2> QED BY <1>6, <2>1, <2>2
<1>8. OwnVpcs(p)'
  <2>1. \A k \in 1..c.nets : k \in 1..(c.nets + 1)
    OBVIOUS
  <2>2. \A v \in DOMAIN net' : v[1] = p => v[2] \in 1..(c.nets + 1)
    BY <1>6, <2>1
  <2>3. acct.slow \/ c.nets + 1 <= 1
    OBVIOUS
  <2> QED BY <1>3, <1>5, <2>2, <2>3 DEF OwnVpcs, Early
<1>9. HalfMade(p)'
  <2>1. c.nets + 1 \in 1..2 /\ (then = "group" => c.nets + 1 = 1)
    OBVIOUS
  <2> QED BY <1>3, <1>5, <1>7, <2>1 DEF HalfMade
<1>10. NetworksOK(p)'
  BY <1>3, <1>5, <1>8, <1>9 DEF NetworksOK, AwsOK
<1>11. GroupOK(p)'
  BY <1>3, <1>5 DEF GroupOK, OwnGroup
<1> QED BY <1>3, <1>4, <1>10, <1>11, BuildStep DEF Building

LEMMA AwsVpcForInv ==
    ASSUME TypeOK, VpcInv, NEW p \in Calls, AwsVpcFor(p)
    PROVE  TypeOK' /\ VpcInv'
<1> DEFINE c == launch[p]
<1>1. /\ c \in Launch /\ acct.cloud = "aws" /\ c.pc = "vpc" /\ CallOK(p) /\ AcctOK
      /\ UNCHANGED <<acct, net, inst>>
  BY CallType DEF VpcInv, AwsVpcFor, Is
<1>2. c.nets = 0 /\ OwnVpcs(p)
  BY <1>1 DEF CallOK, NetworksOK, OwnVpcs, Early
<1>3. \/ Fail(p)
      \/ /\ UNCHANGED faults
         /\ \/ SetsCall(p, MakeNetwork(c, "group"))
            \/ \E v \in {Default, User} : Finished(v) /\ SetsCall(p, [c EXCEPT !.vpc = v, !.pc = "group"])
  <2>1. CASE acct.vpc # "none" /\ UNCHANGED faults
             /\ launch' = [launch EXCEPT ![p] = [c EXCEPT !.vpc = User, !.pc = "group"]]
    BY <1>1, <2>1 DEF AcctOK, SetsCall
  <2>2. CASE DescribeVpcs # None /\ UNCHANGED faults
             /\ launch' = [launch EXCEPT ![p] = [c EXCEPT !.vpc = DescribeVpcs, !.pc = "group"]]
    BY <1>1, <2>2 DEF AcctOK, SetsCall, DescribeVpcs
  <2>3. CASE UNCHANGED faults /\ launch' = [launch EXCEPT ![p] = MakeNetwork(c, "group")]
    BY <2>3 DEF SetsCall
  <2> QED BY <2>1, <2>2, <2>3 DEF AwsVpcFor
<1>4. CASE Fail(p)
  BY <1>1, <1>4, FailInv
<1>5. CASE SetsCall(p, MakeNetwork(c, "group")) /\ UNCHANGED faults
  BY <1>1, <1>2, <1>5, MakeNetworkInv DEF Building
<1>6. ASSUME NEW v \in {Default, User}, Finished(v), UNCHANGED faults,
             SetsCall(p, [c EXCEPT !.vpc = v, !.pc = "group"])
      PROVE  TypeOK' /\ VpcInv'
  <2>1. PICK d : d = [c EXCEPT !.vpc = v, !.pc = "group"]
    OBVIOUS
  <2>2. v \in Vpc
    BY DEF Vpc
  <2>3. /\ d \in Launch /\ d.pc = "group" /\ d.vpc = v /\ d.nets = c.nets /\ d.res = c.res
        /\ d.k = c.k /\ SameIds(d, c)
    BY <1>1, <2>1, <2>2 DEF Launch, SameIds
  <2>4. SetsCall(p, d)
    BY <1>6, <2>1
  <2>5. launch'[p] = d
    BY <2>3, <2>4, CallSet
  <2>6. NetworksOK(p)'
    BY <1>1, <1>2, <1>6, <2>3, <2>5 DEF NetworksOK, OwnVpcs, AwsOK, ReadyVpc, Finished, Early
  <2>7. GroupOK(p)'
    BY <1>1, <2>3, <2>5 DEF GroupOK, OwnGroup
  <2> QED BY <1>1, <1>6, <2>3, <2>4, <2>6, <2>7, BuildStep DEF Building
<1> QED BY <1>3, <1>4, <1>5, <1>6

(* Updates of one part of a call, and of two. *)
LEMMA PcType == \A c \in Launch, x \in Building \cup {"run", "done"} : [c EXCEPT !.pc = x] \in Launch
BY DEF Launch, Building

LEMMA GroupType == \A c \in Launch, g \in Group : [c EXCEPT !.group = g] \in Launch
BY DEF Launch

LEMMA VpcType == \A c \in Launch, v \in Vpc \cup {None} : [c EXCEPT !.vpc = v] \in Launch
BY DEF Launch

LEMMA SubsType == \A c \in Launch, s \in Seq(Subnet) : [c EXCEPT !.subs = s] \in Launch
BY DEF Launch

TakesGroup(d, c, g, x) == d = [c EXCEPT !.group = g, !.pc = x]
TakesSubs(d, c, s) == d = [c EXCEPT !.subs = s, !.pc = "run"]
TakesVpc(d, c, v, x) == d = [c EXCEPT !.pc = x, !.vpc = v]

LEMMA GroupUpdate ==
    ASSUME NEW c \in Launch, NEW g \in Group, NEW x \in {"rule", "subnets"},
           NEW d, TakesGroup(d, c, g, x)
    PROVE  /\ d \in Launch /\ d.group = g /\ d.pc = x /\ d.vpc = c.vpc /\ d.nets = c.nets
           /\ d.res = c.res /\ d.k = c.k /\ SameIds(d, c)
<1>1. PICK e : e = [c EXCEPT !.group = g]
  OBVIOUS
<1>2. e \in Launch
  BY <1>1, GroupType
<1>3. [e EXCEPT !.pc = x] \in Launch
  BY <1>2, PcType DEF Building
<1>4. d = [e EXCEPT !.pc = x]
  BY <1>1 DEF Launch, TakesGroup
<1>5. /\ d.group = g /\ d.pc = x /\ d.vpc = c.vpc /\ d.nets = c.nets
      /\ d.res = c.res /\ d.k = c.k /\ SameIds(d, c)
  BY DEF Launch, SameIds, TakesGroup
<1> QED BY <1>3, <1>4, <1>5

LEMMA SubsUpdate ==
    ASSUME NEW c \in Launch, NEW s \in Seq(Subnet), NEW d, TakesSubs(d, c, s)
    PROVE  /\ d \in Launch /\ d.subs = s /\ d.pc = "run" /\ d.group = c.group /\ d.nets = c.nets
           /\ d.res = c.res /\ d.k = c.k /\ SameIds(d, c)
<1>1. PICK e : e = [c EXCEPT !.subs = s]
  OBVIOUS
<1>2. e \in Launch
  BY <1>1, SubsType
<1>3. [e EXCEPT !.pc = "run"] \in Launch
  BY <1>2, PcType
<1>4. d = [e EXCEPT !.pc = "run"]
  BY <1>1 DEF Launch, TakesSubs
<1>5. /\ d.subs = s /\ d.pc = "run" /\ d.group = c.group /\ d.nets = c.nets
      /\ d.res = c.res /\ d.k = c.k /\ SameIds(d, c)
  BY DEF Launch, SameIds, TakesSubs
<1> QED BY <1>3, <1>4, <1>5

LEMMA VpcUpdate ==
    ASSUME NEW c \in Launch, NEW v \in Vpc \cup {None}, NEW x \in Building,
           NEW d, TakesVpc(d, c, v, x)
    PROVE  /\ d \in Launch /\ d.vpc = v /\ d.pc = x /\ d.group = c.group /\ d.nets = c.nets
           /\ d.res = c.res /\ d.k = c.k /\ SameIds(d, c)
<1>1. PICK e : e = [c EXCEPT !.pc = x]
  OBVIOUS
<1>2. e \in Launch
  BY <1>1, PcType
<1>3. [e EXCEPT !.vpc = v] \in Launch
  BY <1>2, VpcType
<1>4. d = [e EXCEPT !.vpc = v]
  BY <1>1 DEF Launch, TakesVpc
<1>5. /\ d.vpc = v /\ d.pc = x /\ d.group = c.group /\ d.nets = c.nets
      /\ d.res = c.res /\ d.k = c.k /\ SameIds(d, c)
  BY DEF Launch, SameIds, TakesVpc, Building
<1> QED BY <1>3, <1>4, <1>5

(* Steps that change a VPC *)

NetTyped ==
    /\ DOMAIN net \subseteq Vpc
    /\ \A v \in DOMAIN net : net[v] \in [parts : SUBSET Part, subs : SUBSET Zones]

LEMMA CreateVpcFacts ==
    ASSUME TypeOK, NEW p \in Calls, NEW v \in Vpc, v[1] = p, v \notin DOMAIN net,
           net' = CreateVpc(v)
    PROVE  NetTyped' /\ NetStep(p) /\ DOMAIN net' = DOMAIN net \cup {v}
<1>1. /\ DOMAIN net' = DOMAIN net \cup {v} /\ net'[v] = [parts |-> {}, subs |-> {}]
      /\ \A u \in DOMAIN net : net'[u] = net[u]
  BY DEF CreateVpc
<1>2. [parts |-> {}, subs |-> {}] \in [parts : SUBSET Part, subs : SUBSET Zones]
  OBVIOUS
<1>3. NetTyped'
  BY <1>1, <1>2 DEF NetTyped, TypeOK
<1>4. NetStep(p)
  BY <1>1 DEF NetStep
<1> QED BY <1>1, <1>3, <1>4

LEMMA CreatePartFacts ==
    ASSUME TypeOK, NEW p \in Calls, NEW v \in DOMAIN net, NEW part \in Part,
           net' = CreatePart(v, part)
    PROVE  NetTyped' /\ NetStep(p) /\ DOMAIN net' = DOMAIN net /\ part \in net'[v].parts
<1>1. PICK n : n = [net[v] EXCEPT !.parts = net[v].parts \cup {part}]
  OBVIOUS
<1>2. net[v] \in [parts : SUBSET Part, subs : SUBSET Zones]
  BY DEF TypeOK
<1>3. /\ n \in [parts : SUBSET Part, subs : SUBSET Zones]
      /\ n.parts = net[v].parts \cup {part} /\ n.subs = net[v].subs
  BY <1>1, <1>2
<1>4. net' = [net EXCEPT ![v] = n]
  BY <1>1 DEF CreatePart
<1>5. DOMAIN net' = DOMAIN net /\ net'[v] = n /\ \A u \in DOMAIN net : u # v => net'[u] = net[u]
  BY <1>4
<1>6. NetTyped'
  BY <1>3, <1>5 DEF NetTyped, TypeOK
<1>7. NetStep(p)
  BY <1>3, <1>5 DEF NetStep
<1> QED BY <1>3, <1>5, <1>6, <1>7

LEMMA CreateVSwitchFacts ==
    ASSUME TypeOK, NEW p \in Calls, NEW v \in DOMAIN net, NEW z \in Zones,
           net' = CreateVSwitch(v, z)
    PROVE  NetTyped' /\ NetStep(p) /\ DOMAIN net' = DOMAIN net /\ z \in net'[v].subs
<1>1. PICK n : n = [net[v] EXCEPT !.subs = net[v].subs \cup {z}]
  OBVIOUS
<1>2. net[v] \in [parts : SUBSET Part, subs : SUBSET Zones]
  BY DEF TypeOK
<1>3. /\ n \in [parts : SUBSET Part, subs : SUBSET Zones]
      /\ n.subs = net[v].subs \cup {z} /\ n.parts = net[v].parts
  BY <1>1, <1>2
<1>4. net' = [net EXCEPT ![v] = n]
  BY <1>1 DEF CreateVSwitch
<1>5. DOMAIN net' = DOMAIN net /\ net'[v] = n /\ \A u \in DOMAIN net : u # v => net'[u] = net[u]
  BY <1>4
<1>6. NetTyped'
  BY <1>3, <1>5 DEF NetTyped, TypeOK
<1>7. NetStep(p)
  BY <1>3, <1>5 DEF NetStep
<1> QED BY <1>3, <1>5, <1>6, <1>7

(* A step that changes the network of a call, and where the call is. *)
LEMMA NetworkStep ==
    ASSUME TypeOK, VpcInv, NEW p \in Calls, NEW d \in Launch, SetsCall(p, d),
           UNCHANGED <<acct, inst, faults>>, NetTyped', NetStep(p),
           launch[p].pc \in Building, d.pc \in Building \cup {"run"},
           d.pc = "run" => d.subs # <<>>,
           SameIds(d, launch[p]), d.res = launch[p].res, d.k = launch[p].k,
           NetworksOK(p)', GroupOK(p)'
    PROVE  TypeOK' /\ VpcInv'
<1>1. launch' \in [Calls -> Launch] /\ launch'[p] = d /\ \A q \in Calls : q # p => launch'[q] = launch[q]
  BY CallSet
<1>2. CallOK(p)'
  BY <1>1, MoveOn DEF CallOK
<1>3. TypeOK'
  BY <1>1 DEF TypeOK, NetTyped
<1>4. Frame(p)
  BY <1>1 DEF Frame, InstStep, TypeOK
<1>5. \A q \in Calls : CallOK(q)'
  BY <1>2, <1>4, OthersStay
<1>6. AcctOK' /\ InstOK'
  BY <1>4, NodesStay DEF InstOK
<1> QED BY <1>3, <1>5, <1>6 DEF VpcInv

LEMMA GroupsThere ==
    /\ [vpc |-> User, rules |-> 2] \in Group
    /\ \A v \in Vpc \cup {None} : CreateSecurityGroup(v) \in Group
                                /\ CreateSecurityGroup(v).vpc = v /\ CreateSecurityGroup(v).rules = 0
BY DEF Group, Vpc, CreateSecurityGroup

(* securityGroupFor and the group of RunInstances: the one of the
   configuration, which is complete, or a new one without rules. *)
LEMMA GroupInv ==
    ASSUME TypeOK, VpcInv, NEW p \in Calls, launch[p].pc = "group",
           UNCHANGED <<acct, inst, faults>>, NetTyped', NetStep(p), DOMAIN net' = DOMAIN net,
           \/ acct.group # "none"
              /\ SetsCall(p, [launch[p] EXCEPT !.group = [vpc |-> User, rules |-> 2], !.pc = "subnets"])
           \/ SetsCall(p, [launch[p] EXCEPT !.group = CreateSecurityGroup(launch[p].vpc), !.pc = "rule"])
    PROVE  TypeOK' /\ VpcInv'
<1> DEFINE c == launch[p]
<1>1. c \in Launch /\ CallOK(p) /\ c.vpc \in Vpc \cup {None}
  BY CallType DEF VpcInv, Launch
<1>2. PICK g \in Group, x \in {"rule", "subnets"} :
         /\ SetsCall(p, [c EXCEPT !.group = g, !.pc = x])
         /\ x = "subnets" => acct.group # "none" /\ g.rules = 2
         /\ x = "rule" => g.rules = 0 /\ g.vpc = c.vpc
  <2>1. CASE acct.group # "none"
             /\ SetsCall(p, [c EXCEPT !.group = [vpc |-> User, rules |-> 2], !.pc = "subnets"])
    <3>1. PICK g \in Group : g = [vpc |-> User, rules |-> 2]
      BY GroupsThere
    <3>2. g.rules = 2 /\ SetsCall(p, [c EXCEPT !.group = g, !.pc = "subnets"])
      BY <2>1, <3>1
    <3> QED BY <2>1, <3>2
  <2>2. CASE SetsCall(p, [c EXCEPT !.group = CreateSecurityGroup(c.vpc), !.pc = "rule"])
    <3>1. PICK g \in Group : g = CreateSecurityGroup(c.vpc) /\ g.vpc = c.vpc /\ g.rules = 0
      BY <1>1, GroupsThere
    <3>2. SetsCall(p, [c EXCEPT !.group = g, !.pc = "rule"])
      BY <2>2, <3>1
    <3> QED BY <3>1, <3>2
  <2> QED BY <2>1, <2>2
<1>3. PICK d : d = [c EXCEPT !.group = g, !.pc = x]
  OBVIOUS
<1>4. /\ d \in Launch /\ d.group = g /\ d.pc = x /\ d.vpc = c.vpc /\ d.nets = c.nets
      /\ d.res = c.res /\ d.k = c.k /\ SameIds(d, c)
  <2>1. TakesGroup(d, c, g, x)
    BY <1>3 DEF TakesGroup
  <2> QED BY <1>1, <1>2, <2>1, GroupUpdate
<1>5. SetsCall(p, d)
  BY <1>2, <1>3
<1>6. launch'[p] = d
  BY <1>4, <1>5, CallSet
<1>7. NetworksOK(p)'
  <2>1. OwnVpcs(p)'
    BY <1>1, <1>2, <1>4, <1>6 DEF CallOK, NetworksOK, OwnVpcs, Early
  <2>2. AwsOK(p) => AwsOK(p)'
    <3>1. \A v : ReadyVpc(p, v) => ReadyVpc(p, v)'
      BY <1>4, <1>6, FinishedStays DEF ReadyVpc, NetStep, Finished
    <3> QED BY <1>2, <1>4, <1>6, <3>1 DEF AwsOK
  <2>3. AliyunOK(p) => AliyunOK(p)'
    BY <1>2, <1>4, <1>6 DEF AliyunOK
  <2> QED BY <1>1, <2>1, <2>2, <2>3 DEF CallOK, NetworksOK
<1>8. GroupOK(p)'
  <2>1. g # None
    BY <1>2, NamesAreApart
  <2> QED BY <1>1, <1>2, <1>4, <1>6, <2>1 DEF CallOK, GroupOK, OwnGroup
<1> QED BY <1>2, <1>4, <1>5, <1>7, <1>8, NetworkStep DEF Building

LEMMA AwsSecurityGroupForInv ==
    ASSUME TypeOK, VpcInv, NEW p \in Calls, AwsSecurityGroupFor(p)
    PROVE  TypeOK' /\ VpcInv'
<1> DEFINE c == launch[p]
<1>1. c.pc = "group" /\ UNCHANGED <<acct, inst>> /\ acct.cloud = "aws" /\ CallOK(p)
  BY DEF AwsSecurityGroupFor, Is, VpcInv
<1>2. CASE Fail(p) /\ UNCHANGED net
  BY <1>1, <1>2, FailInv
<1>3. CASE /\ acct.group = "known" /\ UNCHANGED <<net, faults>>
           /\ launch' = [launch EXCEPT ![p].group = [vpc |-> User, rules |-> 2],
                                      ![p].pc = "subnets"]
  <2>1. SetsCall(p, [c EXCEPT !.group = [vpc |-> User, rules |-> 2], !.pc = "subnets"])
    BY <1>3 DEF SetsCall
  <2>2. NetTyped' /\ NetStep(p) /\ DOMAIN net' = DOMAIN net
    BY <1>3 DEF NetTyped, NetStep, TypeOK
  <2> QED BY <1>1, <1>3, <2>1, <2>2, GroupInv
<1>4. CASE /\ net' = CreatePart(c.vpc, "gpi-sg") /\ UNCHANGED faults
           /\ launch' = [launch EXCEPT ![p].group = CreateSecurityGroup(c.vpc), ![p].pc = "rule"]
  <2>1. SetsCall(p, [c EXCEPT !.group = CreateSecurityGroup(c.vpc), !.pc = "rule"])
    BY <1>4 DEF SetsCall
  <2>2. c.vpc \in DOMAIN net /\ "gpi-sg" \in Part
    BY <1>1 DEF CallOK, NetworksOK, AwsOK, ReadyVpc, Finished, Part
  <2>3. NetTyped' /\ NetStep(p) /\ DOMAIN net' = DOMAIN net
    BY <1>4, <2>2, CreatePartFacts
  <2> QED BY <1>1, <1>4, <2>1, <2>3, GroupInv
<1>5. CASE Return(p, "error") /\ UNCHANGED <<net, faults>>
  BY <1>1, <1>5, ReturnInv DEF FaultStep
<1> QED BY <1>2, <1>3, <1>4, <1>5 DEF AwsSecurityGroupFor

LEMMA AliyunGroupInv ==
    ASSUME TypeOK, VpcInv, NEW p \in Calls, AliyunGroup(p)
    PROVE  TypeOK' /\ VpcInv'
<1>1. launch[p].pc = "group" /\ UNCHANGED <<acct, net, inst>>
  BY DEF AliyunGroup, Is
<1>2. CASE Fail(p)
  BY <1>1, <1>2, FailInv
<1>3. CASE ~Fail(p)
  <2>1. /\ UNCHANGED faults
        /\ launch' = [launch EXCEPT ![p] =
             IF acct.group # "none"
             THEN [launch[p] EXCEPT !.group = [vpc |-> User, rules |-> 2], !.pc = "subnets"]
             ELSE [launch[p] EXCEPT !.group = CreateSecurityGroup(launch[p].vpc), !.pc = "rule"]]
    BY <1>3 DEF AliyunGroup
  <2>2. \/ acct.group # "none"
           /\ SetsCall(p, [launch[p] EXCEPT !.group = [vpc |-> User, rules |-> 2], !.pc = "subnets"])
        \/ SetsCall(p, [launch[p] EXCEPT !.group = CreateSecurityGroup(launch[p].vpc), !.pc = "rule"])
    BY <2>1 DEF SetsCall
  <2>3. NetTyped' /\ NetStep(p) /\ DOMAIN net' = DOMAIN net
    BY <1>1 DEF NetTyped, NetStep, TypeOK
  <2> QED BY <1>1, <2>1, <2>2, <2>3, GroupInv
<1> QED BY <1>2, <1>3

LEMMA AuthorizeSecurityGroupInv ==
    ASSUME TypeOK, VpcInv, NEW p \in Calls, AuthorizeSecurityGroup(p)
    PROVE  TypeOK' /\ VpcInv'
<1> DEFINE c == launch[p]
<1>1. c \in Launch /\ c.pc = "rule" /\ CallOK(p) /\ UNCHANGED <<acct, net, inst>>
  BY CallType DEF VpcInv, AuthorizeSecurityGroup
<1>2. CASE Fail(p)
  BY <1>1, <1>2, FailInv
<1>3. CASE ~Fail(p)
  <2>1. c.group \in Group /\ c.group.rules \in 0..1
    BY <1>1 DEF CallOK, GroupOK, Launch
  <2>2. PICK g : g = [c.group EXCEPT !.rules = c.group.rules + 1]
    OBVIOUS
  <2>3. PICK n : n = c.group.rules + 1
    OBVIOUS
  <2>4. n \in 0..2
    BY <2>1, <2>3
  <2>5. g \in Group /\ g.vpc = c.group.vpc /\ g.rules = n
    BY <2>1, <2>2, <2>3, <2>4 DEF Group
  <2>6. PICK x \in {"rule", "subnets"} : x = IF c.group.rules = 1 THEN "subnets" ELSE "rule"
    OBVIOUS
  <2>7. UNCHANGED faults /\ SetsCall(p, [c EXCEPT !.group = g, !.pc = x])
    BY <1>3, <2>2, <2>6 DEF AuthorizeSecurityGroup, SetsCall
  <2>8. PICK d : d = [c EXCEPT !.group = g, !.pc = x]
    OBVIOUS
  <2>9. /\ d \in Launch /\ d.group = g /\ d.pc = x /\ d.vpc = c.vpc /\ d.nets = c.nets
        /\ d.res = c.res /\ d.k = c.k /\ SameIds(d, c)
    <3>1. TakesGroup(d, c, g, x)
      BY <2>8 DEF TakesGroup
    <3> QED BY <1>1, <2>5, <2>6, <3>1, GroupUpdate
  <2>10. SetsCall(p, d)
    BY <2>7, <2>8
  <2>11. launch'[p] = d
    BY <2>9, <2>10, CallSet
  <2>12. NetworksOK(p)'
    <3>1. OwnVpcs(p)'
      BY <1>1, <2>6, <2>9, <2>11 DEF CallOK, NetworksOK, OwnVpcs, Early
    <3>2. AwsOK(p) => AwsOK(p)'
      BY <1>1, <2>6, <2>9, <2>11 DEF AwsOK, ReadyVpc, Finished
    <3>3. AliyunOK(p) => AliyunOK(p)'
      BY <1>1, <2>6, <2>9, <2>11 DEF AliyunOK
    <3> QED BY <1>1, <3>1, <3>2, <3>3 DEF CallOK, NetworksOK
  <2>13. GroupOK(p)'
    <3>1. g # None
      BY <2>5, NamesAreApart
    <3>2. (x = "subnets" => g.rules = 2) /\ (x = "rule" => g.rules \in 0..1)
      BY <2>1, <2>3, <2>5, <2>6
    <3> QED BY <1>1, <2>5, <2>6, <2>9, <2>11, <3>1, <3>2 DEF CallOK, GroupOK, OwnGroup
  <2> QED BY <1>1, <2>6, <2>7, <2>9, <2>10, <2>12, <2>13, BuildStep DEF Building
<1> QED BY <1>2, <1>3

(* subnetsFor has found subnets: all are of one VPC, and there is one. *)
LEMMA SubnetsInv ==
    ASSUME TypeOK, VpcInv, NEW p \in Calls, launch[p].pc = "subnets",
           UNCHANGED <<acct, net, inst, faults>>,
           NEW v \in Vpc, NEW Z \in SUBSET Zones, Z # {}, NEW s, s = InZones(v, Z),
           acct.cloud = "aws" => Finished(v),
           OwnGroup => launch[p].group.vpc = v,
           SetsCall(p, [launch[p] EXCEPT !.subs = s, !.pc = "run"])
    PROVE  TypeOK' /\ VpcInv'
<1> DEFINE c == launch[p]
<1>1. c \in Launch /\ CallOK(p)
  BY CallType DEF VpcInv
<1>2. s \in Seq(Subnet) /\ s # <<>> /\ \A j \in 1..Len(s) : s[j][1] = v
  BY InZonesFacts
<1>3. PICK d : d = [c EXCEPT !.subs = s, !.pc = "run"]
  OBVIOUS
<1>4. /\ d \in Launch /\ d.subs = s /\ d.pc = "run" /\ d.group = c.group /\ d.nets = c.nets
      /\ d.res = c.res /\ d.k = c.k /\ SameIds(d, c)
  <2>1. TakesSubs(d, c, s)
    BY <1>3 DEF TakesSubs
  <2> QED BY <1>1, <1>2, <2>1, SubsUpdate
<1>5. SetsCall(p, d)
  BY <1>3
<1>6. launch'[p] = d
  BY <1>4, <1>5, CallSet
<1>7. NetworksOK(p)'
  <2>1. OwnVpcs(p)'
    BY <1>1, <1>4, <1>6 DEF CallOK, NetworksOK, OwnVpcs, Early
  <2>2. acct.cloud = "aws" => AwsOK(p)'
    BY <1>2, <1>4, <1>6 DEF AwsOK, Finished
  <2>3. AliyunOK(p)'
    BY <1>4, <1>6 DEF AliyunOK
  <2> QED BY <2>1, <2>2, <2>3 DEF NetworksOK
<1>8. GroupOK(p)'
  BY <1>1, <1>2, <1>4, <1>6 DEF CallOK, GroupOK, OwnGroup
<1> QED BY <1>2, <1>4, <1>5, <1>7, <1>8, BuildStep DEF Building

(* The zones in which subnetsFor finds subnets of a VPC on aws. *)
LEMMA CandidatesFacts ==
    ASSUME TypeOK, NEW v \in Vpc, Finished(v)
    PROVE  /\ DescribeSubnets(v) = {} => AwsCandidates(v) = <<>>
           /\ DescribeSubnets(v) # {} =>
                \E Z \in SUBSET Zones : Z # {} /\ AwsCandidates(v) = InZones(v, Z)
           /\ DescribeSubnets(v) = net[v].subs \/ (acct.slow /\ v \notin {Default, User})
<1>1. net[v].subs \subseteq Zones /\ v # None
  BY NamesAreApart DEF TypeOK, Finished
<1>2. DescribeSubnets(v) = {} \/ DescribeSubnets(v) = net[v].subs
  BY <1>1 DEF DescribeSubnets, ListVSwitches
<1>3. DescribeSubnets(v) = net[v].subs \/ (acct.slow /\ v \notin {Default, User})
  BY <1>1 DEF DescribeSubnets, ListVSwitches
<1>4. PICK there : there = DescribeSubnets(v)
  OBVIOUS
<1>5. PICK Z : Z = IF there \cap acct.subs # {} THEN there \cap acct.subs
                   ELSE IF there \cap {acct.zone} # {} THEN there \cap {acct.zone} ELSE there
  OBVIOUS
<1>6. AwsCandidates(v) = InZones(v, Z)
  BY <1>4, <1>5 DEF AwsCandidates
<1>7. Z \in SUBSET Zones /\ (Z = {} <=> there = {})
  BY <1>1, <1>2, <1>4, <1>5
<1>8. InZones(v, Z) = <<>> <=> Z = {}
  BY <1>7, InZonesFacts
<1> QED BY <1>3, <1>4, <1>6, <1>7, <1>8

LEMMA AwsSubnetsForInv ==
    ASSUME TypeOK, VpcInv, NEW p \in Calls, AwsSubnetsFor(p)
    PROVE  TypeOK' /\ VpcInv'
<1> DEFINE c == launch[p]
<1>1. /\ c \in Launch /\ acct.cloud = "aws" /\ c.pc = "subnets" /\ CallOK(p)
      /\ UNCHANGED <<acct, net, inst>>
  BY CallType DEF VpcInv, AwsSubnetsFor, Is
<1>2. PICK v : v = c.vpc
  OBVIOUS
<1>3. ReadyVpc(p, v)
  BY <1>1, <1>2 DEF CallOK, NetworksOK, AwsOK
<1>4. v \in Vpc /\ v # None /\ Finished(v)
  BY <1>3, NamesAreApart DEF ReadyVpc, Finished, TypeOK
<1>5. \/ Fail(p)
      \/ /\ UNCHANGED faults
         /\ launch' = [launch EXCEPT ![p] =
              IF AwsCandidates(v) # <<>>
              THEN [c EXCEPT !.subs = AwsCandidates(v), !.pc = "run"]
              ELSE MakeNetwork(c, "run")]
  BY <1>2, <1>4 DEF AwsSubnetsFor
<1>6. CASE Fail(p)
  BY <1>1, <1>6, FailInv
<1>7. CASE /\ UNCHANGED faults /\ DescribeSubnets(v) = {}
           /\ SetsCall(p, MakeNetwork(c, "run"))
  <2>1. c.nets \in 0..1 /\ (~acct.slow => c.nets = 0)
    BY <1>3, <1>4, <1>7, CandidatesFacts DEF ReadyVpc
  <2> QED BY <1>1, <1>7, <2>1, MakeNetworkInv DEF Building
<1>8. ASSUME NEW s, SetsCall(p, [c EXCEPT !.subs = s, !.pc = "run"]), UNCHANGED faults,
             NEW Z \in SUBSET Zones, Z # {}, s = InZones(v, Z)
      PROVE  TypeOK' /\ VpcInv'
  BY <1>1, <1>4, <1>8, SubnetsInv DEF OwnGroup
<1>9. CASE UNCHANGED faults /\ ~Fail(p)
  <2>1. CASE DescribeSubnets(v) = {}
    <3>1. AwsCandidates(v) = <<>>
      BY <1>4, <2>1, CandidatesFacts
    <3> QED BY <1>5, <1>7, <1>9, <2>1, <3>1 DEF SetsCall
  <2>2. CASE DescribeSubnets(v) # {}
    <3>1. PICK Z \in SUBSET Zones : Z # {} /\ AwsCandidates(v) = InZones(v, Z)
      BY <1>4, <2>2, CandidatesFacts
    <3>2. PICK s : s = AwsCandidates(v)
      OBVIOUS
    <3>3. s # <<>>
      BY <1>4, <3>1, <3>2, InZonesFacts
    <3>4. SetsCall(p, [c EXCEPT !.subs = s, !.pc = "run"])
      BY <1>5, <1>9, <3>2, <3>3 DEF SetsCall
    <3> QED BY <1>8, <1>9, <3>1, <3>2, <3>4
  <2> QED BY <2>1, <2>2
<1> QED BY <1>5, <1>6, <1>9

LEMMA AliyunVpcInv ==
    ASSUME TypeOK, VpcInv, NEW p \in Calls, AliyunVpc(p)
    PROVE  TypeOK' /\ VpcInv'
<1> DEFINE c == launch[p]
<1>1. /\ c \in Launch /\ acct.cloud = "aliyun" /\ c.pc = "vpc" /\ CallOK(p) /\ AcctOK
      /\ UNCHANGED <<acct, net, inst>>
  BY CallType DEF VpcInv, AliyunVpc, Is
<1>2. CASE Fail(p)
  BY <1>1, <1>2, FailInv
<1>3. CASE ~Fail(p)
  <2>1. PICK v : v = IF acct.vpc # "none" THEN User ELSE DescribeVpcs
    OBVIOUS
  <2>2. UNCHANGED faults /\ SetsCall(p, [c EXCEPT !.pc = "group", !.vpc = v])
    BY <1>3, <2>1 DEF AliyunVpc, SetsCall
  <2>3. /\ v \in Vpc \cup {None} /\ (v # None => v \in DOMAIN net)
        /\ acct.default \/ acct.vpc # "none" => v # None
    BY <1>1, <2>1, NamesAreApart DEF DescribeVpcs, AcctOK, Finished, Vpc
  <2>4. PICK d : d = [c EXCEPT !.pc = "group", !.vpc = v]
    OBVIOUS
  <2>5. /\ d \in Launch /\ d.vpc = v /\ d.pc = "group" /\ d.group = c.group /\ d.nets = c.nets
        /\ d.res = c.res /\ d.k = c.k /\ SameIds(d, c)
    <3>1. TakesVpc(d, c, v, "group")
      BY <2>4 DEF TakesVpc
    <3> QED BY <1>1, <2>3, <3>1, VpcUpdate DEF Building
  <2>6. SetsCall(p, d)
    BY <2>2, <2>4
  <2>7. launch'[p] = d
    BY <2>5, <2>6, CallSet
  <2>8. NetworksOK(p)'
    BY <1>1, <2>3, <2>5, <2>7 DEF CallOK, NetworksOK, OwnVpcs, AliyunOK, Early
  <2>9. GroupOK(p)'
    BY <1>1, <2>3, <2>5, <2>7 DEF GroupOK, OwnGroup
  <2> QED BY <1>1, <2>2, <2>5, <2>6, <2>8, <2>9, BuildStep DEF Building
<1> QED BY <1>2, <1>3

LEMMA AliyunVSwitchesForInv ==
    ASSUME TypeOK, VpcInv, NEW p \in Calls, AliyunVSwitchesFor(p)
    PROVE  TypeOK' /\ VpcInv'
<1> DEFINE c == launch[p]
<1>1. /\ c \in Launch /\ acct.cloud = "aliyun" /\ c.pc = "subnets" /\ CallOK(p) /\ AcctOK
      /\ UNCHANGED <<acct, net, inst>>
  BY CallType DEF VpcInv, AliyunVSwitchesFor, Is
<1>2. PICK v : v = IF c.vpc = None THEN DescribeVpcs ELSE c.vpc
  OBVIOUS
<1>3. /\ v # None => v \in DOMAIN net /\ v \in Vpc
      /\ v \in Vpc \cup {None}
      /\ OwnGroup => v # None /\ c.group.vpc = v
  BY <1>1, <1>2, NamesAreApart
     DEF CallOK, NetworksOK, AliyunOK, GroupOK, DescribeVpcs, AcctOK, Finished, TypeOK
<1>4. PICK there : there = ListVSwitches(v)
  OBVIOUS
<1>5. PICK Z : Z = IF there \cap acct.subs # {} THEN there \cap acct.subs ELSE there
  OBVIOUS
<1>6. there \subseteq Zones /\ (v = None => there = {}) /\ Z \subseteq Zones /\ (there # {} => Z # {})
  BY <1>3, <1>4, <1>5 DEF ListVSwitches, TypeOK
<1>7. PICK s : s = InZones(v, Z)
  OBVIOUS
<1>8. CASE Fail(p)
  BY <1>1, <1>8, FailInv
<1>9. CASE ~Fail(p) /\ there # {}
  <2>1. UNCHANGED faults /\ SetsCall(p, [c EXCEPT !.pc = "run", !.subs = s])
    BY <1>2, <1>4, <1>5, <1>7, <1>9 DEF AliyunVSwitchesFor, SetsCall
  <2>2. [c EXCEPT !.pc = "run", !.subs = s] = [c EXCEPT !.subs = s, !.pc = "run"]
    BY <1>1 DEF Launch
  <2>3. SetsCall(p, [c EXCEPT !.subs = s, !.pc = "run"])
    BY <2>1, <2>2
  <2>4. v \in Vpc /\ Z \in SUBSET Zones /\ Z # {}
    BY <1>3, <1>6, <1>9
  <2> QED BY <1>1, <1>3, <1>7, <2>1, <2>3, <2>4, SubnetsInv
<1>10. CASE ~Fail(p) /\ there = {}
  <2>1. PICK x \in {"mkvpc", "mkswitch"} : x = IF v = None THEN "mkvpc" ELSE "mkswitch"
    OBVIOUS
  <2>2. UNCHANGED faults /\ SetsCall(p, [c EXCEPT !.pc = x, !.vpc = v])
    BY <1>2, <1>4, <1>10, <2>1 DEF AliyunVSwitchesFor, SetsCall
  <2>3. PICK d : d = [c EXCEPT !.pc = x, !.vpc = v]
    OBVIOUS
  <2>4. /\ d \in Launch /\ d.vpc = v /\ d.pc = x /\ d.group = c.group /\ d.nets = c.nets
        /\ d.res = c.res /\ d.k = c.k /\ SameIds(d, c)
    <3>1. TakesVpc(d, c, v, x)
      BY <2>3 DEF TakesVpc
    <3>2. x \in Building
      BY <2>1 DEF Building
    <3> QED BY <1>1, <1>3, <3>1, <3>2, VpcUpdate
  <2>5. SetsCall(p, d)
    BY <2>2, <2>3
  <2>6. launch'[p] = d
    BY <2>4, <2>5, CallSet
  <2>7. NetworksOK(p)'
    BY <1>1, <1>3, <2>1, <2>4, <2>6 DEF CallOK, NetworksOK, OwnVpcs, AliyunOK, Early
  <2>8. GroupOK(p)'
    BY <1>1, <1>3, <2>1, <2>4, <2>6 DEF CallOK, GroupOK, OwnGroup
  <2> QED BY <1>1, <2>1, <2>2, <2>4, <2>5, <2>7, <2>8, BuildStep DEF Building
<1> QED BY <1>8, <1>9, <1>10

-----------------------------------------------------------------------------
(* Networks that are made *)

LEMMA PickZoneType == \A z \in {None, NumZones} : PickZone(z) \in Zones
<1>1. NumZones \in Nat \ {0}
  BY ZonesFinite
<1>2. NumZones \div 2 + 1 \in 1..NumZones
  BY <1>1
<1> QED BY <1>1, <1>2 DEF PickZone, Zones
LEMMA AliyunCreateNetworkInv ==
    ASSUME TypeOK, VpcInv, NEW p \in Calls, AliyunCreateNetwork(p)
    PROVE  TypeOK' /\ VpcInv'
<1> DEFINE c == launch[p]
<1>1. /\ c \in Launch /\ acct.cloud = "aliyun" /\ c.pc \in {"mkvpc", "mkswitch"} /\ CallOK(p)
      /\ UNCHANGED <<acct, inst>>
  BY CallType DEF VpcInv, AliyunCreateNetwork
<1>2. CASE Fail(p) /\ UNCHANGED net
  BY <1>1, <1>2, FailInv
<1>3. CASE /\ c.pc = "mkvpc" /\ net' = CreateVpc(<<p, 1>>) /\ UNCHANGED faults
           /\ launch' = [launch EXCEPT ![p].vpc = <<p, 1>>, ![p].nets = 1, ![p].pc = "mkswitch"]
  <2>1. PICK v : v = <<p, 1>>
    OBVIOUS
  <2>2. v \in Vpc /\ v[1] = p /\ v[2] = 1
    BY <2>1 DEF Vpc
  <2>3. c.nets = 0 /\ \A u \in DOMAIN net : u[1] = p => u[2] \in 1..c.nets
    BY <1>1, <1>3 DEF CallOK, NetworksOK, OwnVpcs, AliyunOK
  <2>4. v \notin DOMAIN net
    BY <2>2, <2>3
  <2>5. NetTyped' /\ NetStep(p) /\ DOMAIN net' = DOMAIN net \cup {v}
    BY <1>3, <2>1, <2>2, <2>4, CreateVpcFacts
  <2>6. PICK d : d = [c EXCEPT !.vpc = v, !.nets = 1, !.pc = "mkswitch"]
    OBVIOUS
  <2>7. d \in Launch
    <3>1. PICK e : e = [c EXCEPT !.vpc = v]
      OBVIOUS
    <3>2. e \in Launch
      BY <1>1, <2>2, <3>1, VpcType
    <3>3. PICK f : f = [e EXCEPT !.nets = 1]
      OBVIOUS
    <3>4. f \in Launch
      <4>1. \A n \in 0..2 : n = 1 => f = [e EXCEPT !.nets = n]
        BY <3>3
      <4>2. PICK n \in 0..2 : n = 1
        OBVIOUS
      <4>3. f = [e EXCEPT !.nets = n]
        BY <4>1, <4>2
      <4> QED BY <3>2, <4>2, <4>3, NetsType
    <3>5. [f EXCEPT !.pc = "mkswitch"] \in Launch
      BY <3>4, PcType DEF Building
    <3>6. d = [f EXCEPT !.pc = "mkswitch"]
      BY <1>1, <2>6, <3>1, <3>3 DEF Launch
    <3> QED BY <3>5, <3>6
  <2>8. /\ d.vpc = v /\ d.pc = "mkswitch" /\ d.group = c.group /\ d.nets = 1
        /\ d.res = c.res /\ d.k = c.k /\ SameIds(d, c)
    BY <1>1, <2>6 DEF Launch, SameIds
  <2>9. SetsCall(p, d)
    BY <1>3, <2>1, <2>6 DEF SetsCall
  <2>10. launch'[p] = d
    BY <2>7, <2>9, CallSet
  <2>11. OwnVpcs(p)'
    <3>1. \A u \in DOMAIN net' : u[1] = p => u[2] \in 1..1
      BY <2>2, <2>3, <2>5
    <3> QED BY <2>8, <2>10, <3>1 DEF OwnVpcs, Early
  <2>12. NetworksOK(p)'
    BY <1>1, <2>5, <2>8, <2>10, <2>11 DEF NetworksOK, AliyunOK
  <2>13. GroupOK(p)'
    BY <1>1, <1>3, <2>8, <2>10 DEF CallOK, GroupOK, OwnGroup
  <2> QED BY <1>1, <1>3, <2>5, <2>7, <2>8, <2>9, <2>12, <2>13, NetworkStep DEF Building
<1>4. CASE /\ c.pc = "mkswitch" /\ net' = CreateVSwitch(c.vpc, PickZone(acct.zone)) /\ UNCHANGED faults
           /\ launch' = [launch EXCEPT ![p].subs = << <<c.vpc, PickZone(acct.zone)>> >>, ![p].pc = "run"]
  <2>1. PICK v, z : v = c.vpc /\ z = PickZone(acct.zone)
    OBVIOUS
  <2>2. v \in DOMAIN net /\ v \in Vpc
    BY <1>1, <1>4, <2>1 DEF CallOK, NetworksOK, AliyunOK, TypeOK
  <2>3. z \in Zones
    BY <2>1, PickZoneType DEF TypeOK, Account
  <2>4. NetTyped' /\ NetStep(p) /\ DOMAIN net' = DOMAIN net
    BY <1>4, <2>1, <2>2, <2>3, CreateVSwitchFacts
  <2>5. PICK s : s = << <<v, z>> >>
    OBVIOUS
  <2>6. s \in Seq(Subnet) /\ s # <<>> /\ \A j \in 1..Len(s) : s[j][1] = v
    BY <2>2, <2>3, <2>5 DEF Subnet
  <2>7. PICK d : d = [c EXCEPT !.subs = s, !.pc = "run"]
    OBVIOUS
  <2>8. /\ d \in Launch /\ d.subs = s /\ d.pc = "run" /\ d.group = c.group /\ d.nets = c.nets
        /\ d.res = c.res /\ d.k = c.k /\ SameIds(d, c)
    <3>1. TakesSubs(d, c, s)
      BY <2>7 DEF TakesSubs
    <3> QED BY <1>1, <2>6, <3>1, SubsUpdate
  <2>9. SetsCall(p, d)
    BY <1>4, <2>1, <2>5, <2>7 DEF SetsCall
  <2>10. launch'[p] = d
    BY <2>8, <2>9, CallSet
  <2>11. NetworksOK(p)'
    BY <1>1, <2>4, <2>8, <2>10 DEF CallOK, NetworksOK, OwnVpcs, AliyunOK, Early
  <2>12. GroupOK(p)'
    BY <1>1, <1>4, <2>1, <2>6, <2>8, <2>10 DEF CallOK, GroupOK, OwnGroup
  <2> QED BY <1>1, <1>4, <2>4, <2>6, <2>8, <2>9, <2>11, <2>12, NetworkStep DEF Building
<1> QED BY <1>2, <1>3, <1>4 DEF AliyunCreateNetwork

(* The calls of createVpcNetwork, in their order. *)
LEMMA NetworkStepsFacts ==
    /\ Len(NetworkSteps) = 7
    /\ \A k \in 1..7 : /\ NetworkSteps[k] = "vpc" <=> k = 1
                       /\ NetworkSteps[k] = "subnet" <=> k = 6
                       /\ k \notin {1, 6} => NetworkSteps[k] \in Part
                       /\ k = 3 => NetworkSteps[k] = "attached"
                       /\ k = 5 => NetworkSteps[k] = "route"
                       /\ k = 7 => NetworkSteps[k] = "assoc"
BY DEF NetworkSteps, Part

(* What a call of createVpcNetwork leaves of the VPC that it makes. *)
LEMMA VpcPart ==
    ASSUME TypeOK, NEW p \in Calls, HalfMade(p), NEW v, v = <<p, launch[p].nets>>,
           NEW z \in Zones, NEW s, s = NetworkSteps[launch[p].step],
           net' = CASE s = "vpc" -> CreateVpc(v)
                    [] s = "subnet" -> CreateVSwitch(v, z)
                    [] OTHER -> CreatePart(v, s)
    PROVE  /\ NetTyped' /\ NetStep(p) /\ DOMAIN net' = DOMAIN net \cup {v}
           /\ launch[p].step > 2 => "attached" \in net'[v].parts
           /\ launch[p].step > 4 => "route" \in net'[v].parts
           /\ launch[p].step > 5 => net'[v].subs # {}
           /\ launch[p].step > 6 => "assoc" \in net'[v].parts
<1> DEFINE c == launch[p]
<1>1. c.step \in 1..7 /\ c.nets \in 1..2
  BY CallType DEF Launch, HalfMade
<1>2. v \in Vpc /\ v[1] = p
  BY <1>1 DEF Vpc
<1>3. /\ s = "vpc" <=> c.step = 1
      /\ s = "subnet" <=> c.step = 6
      /\ c.step \notin {1, 6} => s \in Part
      /\ (c.step = 3 => s = "attached") /\ (c.step = 5 => s = "route") /\ (c.step = 7 => s = "assoc")
  BY <1>1, NetworkStepsFacts
<1>4. /\ c.step = 1 => v \notin DOMAIN net
      /\ c.step > 1 => v \in DOMAIN net
      /\ c.step > 3 => "attached" \in net[v].parts
      /\ c.step > 5 => "route" \in net[v].parts
      /\ c.step > 6 => net[v].subs # {}
  BY DEF HalfMade
<1>5. CASE c.step = 1
  <2>1. NetTyped' /\ NetStep(p) /\ DOMAIN net' = DOMAIN net \cup {v}
    BY <1>2, <1>3, <1>4, <1>5, CreateVpcFacts
  <2> QED BY <1>5, <2>1
<1>6. CASE c.step = 6
  <2>1. NetTyped' /\ NetStep(p) /\ DOMAIN net' = DOMAIN net /\ z \in net'[v].subs
    BY <1>3, <1>4, <1>6, CreateVSwitchFacts
  <2> QED BY <1>4, <1>6, <2>1 DEF NetStep
<1>7. CASE c.step \notin {1, 6}
  <2>1. v \in DOMAIN net /\ s \in Part
    BY <1>1, <1>3, <1>4, <1>7
  <2>2. net' = CreatePart(v, s)
    BY <1>3, <1>7
  <2>3. NetTyped' /\ NetStep(p) /\ DOMAIN net' = DOMAIN net /\ s \in net'[v].parts
    BY <2>1, <2>2, CreatePartFacts
  <2>4. net[v].parts \subseteq net'[v].parts /\ net[v].subs \subseteq net'[v].subs
    BY <2>1, <2>3 DEF NetStep
  <2>5. \/ c.step \in {2, 3} \/ c.step = 4 \/ c.step = 5 \/ c.step = 7
    BY <1>1, <1>7
  <2>6. c.step > 2 => "attached" \in net'[v].parts
    BY <1>3, <1>4, <2>3, <2>4, <2>5
  <2>7. c.step > 4 => "route" \in net'[v].parts
    BY <1>3, <1>4, <2>3, <2>4, <2>5
  <2>8. c.step > 5 => net'[v].subs # {} /\ "assoc" \in net'[v].parts
    <3>1. c.step > 5 => c.step = 7
      BY <2>5
    <3>2. c.step = 7 => s = "assoc" /\ net[v].subs # {}
      BY <1>3, <1>4
    <3> QED BY <2>3, <2>4, <3>1, <3>2
  <2>9. c.step > 6 => c.step > 5
    BY <1>1
  <2>10. DOMAIN net' = DOMAIN net \cup {v}
    BY <2>1, <2>3
  <2> QED BY <2>3, <2>6, <2>7, <2>8, <2>9, <2>10
<1> QED BY <1>5, <1>6, <1>7
LEMMA NextStepType == \A c \in Launch, k \in 1..7 : [c EXCEPT !.step = k] \in Launch
BY DEF Launch

LEMMA AwsCreateVpcNetworkInv ==
    ASSUME TypeOK, VpcInv, NEW p \in Calls, AwsCreateVpcNetwork(p)
    PROVE  TypeOK' /\ VpcInv'
<1> DEFINE c == launch[p]
<1>1. /\ c \in Launch /\ acct.cloud = "aws" /\ c.pc = "net" /\ CallOK(p) /\ HalfMade(p)
      /\ OwnVpcs(p) /\ UNCHANGED <<acct, inst>>
  BY CallType DEF VpcInv, AwsCreateVpcNetwork, Is, CallOK, NetworksOK, AwsOK
<1>2. PICK v : v = <<p, c.nets>>
  OBVIOUS
<1>3. PICK z : z = PickZone(IF c.then = "group" THEN None ELSE acct.zone)
  OBVIOUS
<1>4. z \in Zones
  BY <1>3, PickZoneType DEF TypeOK, Account
<1>5. CASE Fail(p) /\ UNCHANGED net
  BY <1>1, <1>5, FailInv
<1>6. CASE ~(Fail(p) /\ UNCHANGED net)
  <2>1. PICK s : s = NetworkSteps[c.step]
    OBVIOUS
  <2>2. /\ net' = CASE s = "vpc" -> CreateVpc(v)
                     [] s = "subnet" -> CreateVSwitch(v, z)
                     [] OTHER -> CreatePart(v, s)
        /\ launch' = [launch EXCEPT ![p] =
             IF c.step < Len(NetworkSteps) THEN [c EXCEPT !.step = c.step + 1]
             ELSE NetworkDone(p, v, z)]
        /\ UNCHANGED faults
    BY <1>2, <1>3, <1>6, <2>1 DEF AwsCreateVpcNetwork
  <2>3. /\ NetTyped' /\ NetStep(p) /\ DOMAIN net' = DOMAIN net \cup {v}
        /\ c.step > 2 => "attached" \in net'[v].parts
        /\ c.step > 4 => "route" \in net'[v].parts
        /\ c.step > 5 => net'[v].subs # {}
        /\ c.step > 6 => "assoc" \in net'[v].parts
    BY <1>1, <1>2, <1>4, <2>1, <2>2, VpcPart
  <2>4. /\ c.step \in 1..7 /\ c.nets \in 1..2 /\ c.then \in {"group", "run"}
        /\ c.then = "group" => c.nets = 1
        /\ v \in Vpc /\ v[1] = p /\ v[2] = c.nets
    BY <1>1, <1>2 DEF Launch, HalfMade, Vpc
  <2>5. \A u \in DOMAIN net' : u[1] = p => u[2] \in 1..c.nets
    BY <1>1, <2>3, <2>4 DEF OwnVpcs
  <2>6. acct.slow \/ c.nets <= 1
    BY <1>1 DEF OwnVpcs
  <2>7. CASE c.step < 7
    <3>1. PICK k : k = c.step + 1
      OBVIOUS
    <3>2. k \in 1..7 /\ k > 1
      BY <2>4, <2>7, <3>1
    <3>3. PICK d : d = [c EXCEPT !.step = k]
      OBVIOUS
    <3>4. d \in Launch
      BY <1>1, <3>2, <3>3, NextStepType
    <3>5. /\ d.pc = "net" /\ d.step = k /\ d.nets = c.nets /\ d.then = c.then
          /\ d.res = c.res /\ d.k = c.k /\ SameIds(d, c)
      BY <1>1, <3>3 DEF Launch, SameIds
    <3>6. SetsCall(p, d)
      BY <2>2, <2>7, <3>1, <3>3, NetworkStepsFacts DEF SetsCall
    <3>7. launch'[p] = d
      BY <3>4, <3>6, CallSet
    <3>8. OwnVpcs(p)'
      BY <1>1, <2>5, <2>6, <3>5, <3>7 DEF OwnVpcs, Early
    <3>9. HalfMade(p)'
      <4>1. /\ v \in DOMAIN net'
            /\ k > 3 => "attached" \in net'[v].parts
            /\ k > 5 => "route" \in net'[v].parts
            /\ k > 6 => net'[v].subs # {}
        BY <2>3, <2>4, <3>1
      <4>2. v = <<p, d.nets>>
        BY <1>2, <3>5
      <4> QED BY <2>4, <3>2, <3>5, <3>7, <4>1, <4>2 DEF HalfMade
    <3>10. NetworksOK(p)'
      BY <1>1, <3>5, <3>7, <3>8, <3>9 DEF NetworksOK, AwsOK
    <3>11. GroupOK(p)'
      BY <1>1, <3>5, <3>7 DEF GroupOK, OwnGroup
    <3> QED BY <1>1, <2>2, <2>3, <3>4, <3>5, <3>6, <3>10, <3>11, NetworkStep DEF Building
  <2>8. CASE c.step = 7
    <3>1. SetsCall(p, NetworkDone(p, v, z))
      BY <2>2, <2>8, NetworkStepsFacts DEF SetsCall
    <3>2. Finished(v)' /\ net'[v].subs # {}
      BY <2>3, <2>8 DEF Finished
    <3>3. CASE c.then = "group"
      <4>1. PICK d : d = [c EXCEPT !.pc = "group", !.vpc = v]
        OBVIOUS
      <4>2. /\ d \in Launch /\ d.vpc = v /\ d.pc = "group" /\ d.group = c.group
            /\ d.nets = c.nets /\ d.res = c.res /\ d.k = c.k /\ SameIds(d, c)
        <5>1. TakesVpc(d, c, v, "group")
          BY <4>1 DEF TakesVpc
        <5> QED BY <1>1, <2>4, <5>1, VpcUpdate DEF Building
      <4>3. SetsCall(p, d)
        BY <3>1, <3>3, <4>1 DEF NetworkDone
      <4>4. launch'[p] = d
        BY <4>2, <4>3, CallSet
      <4>5. OwnVpcs(p)'
        BY <1>1, <2>5, <2>6, <4>2, <4>4 DEF OwnVpcs, Early
      <4>6. ReadyVpc(p, v)'
        <5>1. v = <<p, 1>> /\ d.nets = 1
          BY <1>2, <2>4, <3>3, <4>2
        <5> QED BY <3>2, <4>4, <5>1 DEF ReadyVpc
      <4>7. NetworksOK(p)'
        BY <1>1, <4>2, <4>4, <4>5, <4>6 DEF NetworksOK, AwsOK
      <4>8. GroupOK(p)'
        BY <1>1, <4>2, <4>4 DEF GroupOK, OwnGroup
      <4> QED BY <1>1, <2>2, <2>3, <4>2, <4>3, <4>7, <4>8, NetworkStep DEF Building
    <3>4. CASE c.then # "group"
      <4>1. PICK l : l = << <<v, z>> >>
        OBVIOUS
      <4>2. l \in Seq(Subnet) /\ l # <<>> /\ \A j \in 1..Len(l) : l[j][1] = v
        BY <1>4, <2>4, <4>1 DEF Subnet
      <4>3. PICK d : d = [c EXCEPT !.subs = l, !.pc = "run"]
        OBVIOUS
      <4>4. /\ d \in Launch /\ d.subs = l /\ d.pc = "run" /\ d.group = c.group
            /\ d.nets = c.nets /\ d.res = c.res /\ d.k = c.k /\ SameIds(d, c)
        <5>1. TakesSubs(d, c, l)
          BY <4>3 DEF TakesSubs
        <5> QED BY <1>1, <4>2, <5>1, SubsUpdate
      <4>5. NetworkDone(p, v, z) = d
        BY <1>1, <3>4, <4>1, <4>3 DEF NetworkDone, Launch
      <4>6. SetsCall(p, d)
        BY <3>1, <4>5
      <4>7. launch'[p] = d
        BY <4>4, <4>6, CallSet
      <4>8. OwnVpcs(p)'
        BY <1>1, <2>5, <2>6, <4>4, <4>7 DEF OwnVpcs, Early
      <4>9. NetworksOK(p)'
        BY <1>1, <3>2, <4>2, <4>4, <4>7, <4>8 DEF NetworksOK, AwsOK
      <4>10. GroupOK(p)'
        BY <1>1, <4>4, <4>7 DEF GroupOK, OwnGroup
      <4> QED BY <1>1, <2>2, <2>3, <4>2, <4>4, <4>6, <4>9, <4>10, NetworkStep DEF Building
    <3> QED BY <3>3, <3>4
  <2> QED BY <2>4, <2>7, <2>8
<1> QED BY <1>5, <1>6
-----------------------------------------------------------------------------
(* The launch *)

(* One call of the API makes all nodes, none of which was there. *)
LEMMA CreatedFacts ==
    ASSUME TypeOK, VpcInv, NEW p \in Calls, launch[p].pc = "run", UNCHANGED <<acct, net>>,
           inst' = Created(p)
    PROVE  /\ DOMAIN inst' \subseteq Node /\ IsFiniteSet(DOMAIN inst')
           /\ \A i \in DOMAIN inst' : inst'[i] \in Instance
           /\ InstStep(p) /\ MadeBy(p)' = NewNodes(p)
           /\ \A i \in NewNodes(p) : /\ i \in DOMAIN inst' /\ NodeOK(i)'
                                     /\ inst'[i].name = launch[p].name
                                     /\ inst'[i].state = "running"
<1> DEFINE c == launch[p]
<1>1. c \in Launch /\ CallOK(p)
  BY CallType DEF VpcInv
<1>2. PICK s : s = c.subs[c.k]
  OBVIOUS
<1>3. /\ c.k \in Nat \ {0} /\ c.k <= Len(c.subs) /\ c.subs \in Seq(Subnet) /\ c.name \in Names
      /\ MadeBy(p) = {}
  BY <1>1 DEF CallOK, BatchOK, TriesOK, NodesOK, Launch
<1>4. c.k \in 1..Len(c.subs)
  BY <1>3
<1>5. s \in Subnet /\ s # None
  BY <1>2, <1>3, <1>4, NamesAreApart
<1>6. PICK S : S = NewNodes(p)
  OBVIOUS
<1>7. IsFiniteSet(S) /\ S \subseteq Node /\ \A i \in S : i[1] = p
  <2>1. S = {<<p, c.k, j>> : j \in 1..NumNodes} /\ c.k \in Nat
    BY <1>3, <1>6 DEF NewNodes
  <2> QED BY <2>1, NewNodesFacts
<1>8. S \cap DOMAIN inst = {}
  <2>1. \A i \in DOMAIN inst : NodeOK(i)
    BY DEF VpcInv, InstOK
  <2> QED BY <1>3, <1>7, <2>1, NamesAreApart DEF NodeOK, MadeBy
<1>9. PICK r : r = Request(p, s)
  OBVIOUS
<1>10. PICK n : n = [name |-> c.name, state |-> "running", subnet |-> r.subnet,
                     group |-> r.group, by |-> p]
  OBVIOUS
<1>11. inst' = [i \in DOMAIN inst \cup S |-> IF i \in DOMAIN inst THEN inst[i] ELSE n]
  BY <1>2, <1>6, <1>9, <1>10 DEF Created
<1>12. /\ DOMAIN inst' = DOMAIN inst \cup S
       /\ \A i \in DOMAIN inst : inst'[i] = inst[i]
       /\ \A i \in S : inst'[i] = n
  BY <1>8, <1>11
<1>13. /\ r.subnet = s /\ r.group \in Group \cup {None}
       /\ acct.cloud = "aws" => r.group = None
       /\ acct.cloud # "aws" => r.group = c.group
  BY <1>1, <1>5, <1>9 DEF Request, AwsRequest, AliyunRequest, Launch
<1>14. /\ n \in Instance /\ n.name = c.name /\ n.state = "running" /\ n.by = p
       /\ n.subnet = s /\ n.group = r.group
  BY <1>3, <1>5, <1>10, <1>13 DEF Instance
<1>15. DOMAIN inst' \subseteq Node /\ IsFiniteSet(DOMAIN inst')
  <2>1. IsFiniteSet(DOMAIN inst) /\ DOMAIN inst \subseteq Node
    BY DEF TypeOK
  <2>2. IsFiniteSet(DOMAIN inst \cup S)
    BY <1>7, <2>1, FS_Union
  <2> QED BY <1>7, <1>12, <2>1, <2>2
<1>16. \A i \in DOMAIN inst' : inst'[i] \in Instance
  BY <1>12, <1>14 DEF TypeOK
<1>17. InstStep(p)
  BY <1>12, <1>14 DEF InstStep
<1>18. MadeBy(p)' = S
  BY <1>3, <1>12, <1>14 DEF MadeBy
<1>19. /\ acct.cloud \in {"aws", "aliyun"}
       /\ acct.cloud = "aws" => Finished(s[1])
       /\ acct.cloud = "aliyun" => c.group # None /\ c.group.rules = 2
       /\ OwnGroup => c.group.vpc = s[1]
  BY <1>1, <1>2, <1>4, VpcProvidersAssumption
     DEF CallOK, NetworksOK, AwsOK, GroupOK, OwnGroup, TypeOK, Account
<1>20. ASSUME NEW i \in S
       PROVE  NodeOK(i)'
  <2>1. inst'[i] = n /\ i[1] = p /\ p # None
    BY <1>7, <1>12, NamesAreApart
  <2> QED BY <1>13, <1>14, <1>19, <2>1 DEF NodeOK, Finished, OwnGroup
<1> QED BY <1>6, <1>12, <1>14, <1>15, <1>16, <1>17, <1>18, <1>20
(* The nodes are made; the call is answered with them, or not at all. *)
LEMMA LaunchedInv ==
    ASSUME TypeOK, VpcInv, NEW p \in Calls, launch[p].pc = "run", UNCHANGED <<acct, net>>,
           inst' = Created(p), NEW d \in Launch, SetsCall(p, d), d.pc = "done",
           SameNet(d, launch[p]), d.name = launch[p].name, FaultStep,
           \/ d.res = "ok" /\ d.ids = NewNodes(p)
           \/ d.res = "error"
    PROVE  TypeOK' /\ VpcInv'
<1> DEFINE c == launch[p]
<1>1. c \in Launch /\ CallOK(p)
  BY CallType DEF VpcInv
<1>2. launch' \in [Calls -> Launch] /\ launch'[p] = d /\ \A q \in Calls : q # p => launch'[q] = launch[q]
  BY CallSet
<1>3. faults' \in 0..MaxFaults /\ (faults' = 0 => faults' = faults)
  BY FaultType
<1>4. /\ DOMAIN inst' \subseteq Node /\ IsFiniteSet(DOMAIN inst')
      /\ \A i \in DOMAIN inst' : inst'[i] \in Instance
      /\ InstStep(p) /\ MadeBy(p)' = NewNodes(p)
      /\ \A i \in NewNodes(p) : /\ i \in DOMAIN inst' /\ NodeOK(i)'
                                /\ inst'[i].name = c.name
                                /\ inst'[i].state = "running"
  BY CreatedFacts
<1>5. TypeOK'
  BY <1>2, <1>3, <1>4 DEF TypeOK
<1>6. Frame(p)
  BY <1>2, <1>3, <1>4 DEF Frame, NetStep
<1>7. AcctOK' /\ \A i \in DOMAIN inst : NodeOK(i)'
  BY <1>6, NodesStay
<1>8. InstOK'
  <2>1. \A i \in DOMAIN inst' : i \in DOMAIN inst \/ i \in NewNodes(p)
    BY <1>4 DEF InstStep, MadeBy
  <2> QED BY <1>4, <1>7, <2>1 DEF InstOK
<1>9. BatchOK(p)' /\ TriesOK(p)'
  <2>1. NewNodes(p)' = NewNodes(p)
    BY <1>2 DEF NewNodes, SameNet
  <2>2. BatchOK(p)'
    BY <1>2, <1>4, <2>1 DEF BatchOK
  <2>3. TriesOK(p)'
    BY <1>2 DEF TriesOK
  <2> QED BY <2>2, <2>3
<1>10. NodesOK(p)'
  <2>1. c.name \in Names
    BY <1>1 DEF CallOK, NodesOK
  <2>2. Cardinality(NewNodes(p)) = NumNodes
    <3>1. c.k \in Nat
      BY <1>1 DEF Launch
    <3>2. PICK S : S = NewNodes(p)
      OBVIOUS
    <3>3. S = {<<p, c.k, j>> : j \in 1..NumNodes}
      BY <3>2 DEF NewNodes
    <3>4. Cardinality(S) = NumNodes
      BY <3>1, <3>3, NewNodesFacts
    <3> QED BY <3>2, <3>4
  <2>3. PICK S : S = NewNodes(p)
    OBVIOUS
  <2> QED BY <1>2, <1>4, <2>1, <2>2, <2>3 DEF NodesOK
<1>11. NetworksOK(p)' /\ GroupOK(p)'
  <2>1. OwnVpcs(p)'
    BY <1>1, <1>2 DEF CallOK, NetworksOK, OwnVpcs, Early, SameNet
  <2> QED BY <1>2, <2>1 DEF NetworksOK, AwsOK, AliyunOK, GroupOK
<1>12. \A q \in Calls : CallOK(q)'
  BY <1>6, <1>9, <1>10, <1>11, OthersStay DEF CallOK
<1> QED BY <1>5, <1>7, <1>8, <1>12 DEF VpcInv

LEMMA KType == \A c \in Launch, k \in Nat \ {0} : [c EXCEPT !.k = k] \in Launch
BY DEF Launch

(* An attempt that made no node: the next subnet, or the end. *)
LEMMA NoNodesInv ==
    ASSUME TypeOK, VpcInv, NEW p \in Calls, launch[p].pc = "run",
           UNCHANGED <<acct, net, inst>>, FaultStep, NEW e,
           SetsCall(p, AfterError(launch[p], e))
    PROVE  TypeOK' /\ VpcInv'
<1> DEFINE c == launch[p]
<1>1. c \in Launch /\ CallOK(p)
  BY CallType DEF VpcInv
<1>2. /\ c.k \in Nat \ {0} /\ Len(c.subs) \in Nat /\ c.k <= Len(c.subs)
      /\ c.res = "none" /\ MadeBy(p) = {} /\ c.name \in Names
  BY <1>1 DEF CallOK, BatchOK, TriesOK, NodesOK, Launch
<1>3. AfterError(c, e) \in {[c EXCEPT !.k = c.k + 1], [c EXCEPT !.pc = "done", !.res = "error"]}
  BY DEF AfterError
<1>4. CASE AfterError(c, e) = [c EXCEPT !.k = c.k + 1] /\ c.k < Len(c.subs)
  <2>1. PICK k : k = c.k + 1
    OBVIOUS
  <2>2. k \in Nat \ {0} /\ k <= Len(c.subs) /\ k - 1 = c.k
    BY <1>2, <1>4, <2>1
  <2>3. PICK d : d = [c EXCEPT !.k = k]
    OBVIOUS
  <2>4. d \in Launch
    BY <1>1, <2>2, <2>3, KType
  <2>5. /\ d.pc = "run" /\ d.k = k /\ d.subs = c.subs /\ d.group = c.group /\ d.nets = c.nets
        /\ d.res = c.res /\ SameIds(d, c)
    BY <1>1, <2>3 DEF Launch, SameIds
  <2>6. SetsCall(p, d)
    BY <1>4, <2>1, <2>3
  <2>7. launch'[p] = d
    BY <2>4, <2>6, CallSet
  <2>8. BatchOK(p)'
    BY <1>2, <2>5, <2>7 DEF BatchOK, MadeBy
  <2>9. TriesOK(p)'
    BY <2>2, <2>5, <2>7 DEF TriesOK
  <2>10. NodesOK(p)'
    BY <1>2, <2>5, <2>7 DEF NodesOK, SameIds
  <2>11. NetworksOK(p)'
    BY <1>1, <2>5, <2>7
       DEF CallOK, NetworksOK, OwnVpcs, AwsOK, AliyunOK, Early, Finished
  <2>12. GroupOK(p)'
    BY <1>1, <2>5, <2>7 DEF CallOK, GroupOK, OwnGroup
  <2>13. CallOK(p)'
    BY <2>8, <2>9, <2>10, <2>11, <2>12 DEF CallOK
  <2> QED BY <2>4, <2>6, <2>13, CallStep
<1>5. CASE AfterError(c, e) = [c EXCEPT !.pc = "done", !.res = "error"]
  <2>1. PICK d : d = [c EXCEPT !.pc = "done", !.res = "error"]
    OBVIOUS
  <2>2. d \in Launch /\ d.pc = "done" /\ d.res = "error" /\ SameNet(d, c) /\ SameIds(d, c)
    BY <1>1, <2>1 DEF Launch, SameNet, SameIds
  <2>3. SetsCall(p, d)
    BY <1>5, <2>1
  <2>4. launch'[p] = d
    BY <2>2, <2>3, CallSet
  <2>5. BatchOK(p)'
    BY <1>2, <2>2, <2>4 DEF BatchOK, MadeBy
  <2>6. TriesOK(p)'
    BY <2>2, <2>4 DEF TriesOK
  <2>7. NodesOK(p)'
    BY <1>2, <2>2, <2>4 DEF NodesOK, SameIds
  <2>8. NetworksOK(p)' /\ GroupOK(p)'
    BY <1>1, <2>2, <2>4
       DEF CallOK, NetworksOK, OwnVpcs, AwsOK, AliyunOK, GroupOK, Early, SameNet
  <2>9. CallOK(p)'
    BY <2>5, <2>6, <2>7, <2>8 DEF CallOK
  <2> QED BY <2>2, <2>3, <2>9, CallStep
<1> QED BY <1>3, <1>4, <1>5 DEF AfterError

LEMMA RunOnSubnetInv ==
    ASSUME TypeOK, VpcInv, NEW p \in Calls, RunOnSubnet(p)
    PROVE  TypeOK' /\ VpcInv'
<1> DEFINE c == launch[p]
<1>1. c \in Launch /\ c.pc = "run" /\ UNCHANGED <<acct, net>>
  BY CallType DEF RunOnSubnet
<1>2. \/ /\ inst' = Created(p) /\ UNCHANGED faults
         /\ launch' = [launch EXCEPT ![p].pc = "done", ![p].res = "ok", ![p].ids = NewNodes(p)]
      \/ /\ UNCHANGED inst /\ FaultStep
         /\ \E e \in {"capacity", "listed", "refused"} : SetsCall(p, AfterError(c, e))
      \/ /\ inst' = Created(p) /\ FaultStep
         /\ SetsCall(p, AfterError(c, "lost"))
  BY DEF RunOnSubnet, SetsCall, FaultStep
<1>4. CASE /\ inst' = Created(p) /\ UNCHANGED faults
           /\ launch' = [launch EXCEPT ![p].pc = "done", ![p].res = "ok", ![p].ids = NewNodes(p)]
  <2>1. PICK S : S = NewNodes(p)
    OBVIOUS
  <2>2. S \subseteq Node
    <3>1. S = {<<p, c.k, j>> : j \in 1..NumNodes} /\ c.k \in Nat
      BY <1>1, <2>1 DEF NewNodes, Launch
    <3> QED BY <3>1, NewNodesFacts
  <2>3. PICK d : d = [c EXCEPT !.pc = "done", !.res = "ok", !.ids = S]
    OBVIOUS
  <2>4. /\ d \in Launch /\ d.pc = "done" /\ d.res = "ok" /\ d.ids = S /\ d.name = c.name
        /\ SameNet(d, c)
    BY <1>1, <2>2, <2>3 DEF Launch, SameNet
  <2>5. SetsCall(p, d)
    BY <1>4, <2>1, <2>3 DEF SetsCall
  <2> QED BY <1>1, <1>4, <2>1, <2>4, <2>5, LaunchedInv DEF FaultStep
<1>5. ASSUME UNCHANGED inst, FaultStep, NEW e, SetsCall(p, AfterError(c, e))
      PROVE  TypeOK' /\ VpcInv'
  BY <1>1, <1>5, NoNodesInv
<1>6. CASE inst' = Created(p) /\ FaultStep /\ SetsCall(p, AfterError(c, "lost"))
  <2>1. PICK d : d = [c EXCEPT !.pc = "done", !.res = "error"]
    OBVIOUS
  <2>2. d \in Launch /\ d.pc = "done" /\ d.res = "error" /\ SameNet(d, c) /\ SameIds(d, c)
    BY <1>1, <2>1 DEF Launch, SameNet, SameIds
  <2>3. SetsCall(p, d)
    BY <1>6, <2>1 DEF AfterError, Retryable
  <2> QED BY <1>1, <1>6, <2>2, <2>3, LaunchedInv DEF SameIds
<1> QED BY <1>2, <1>4, <1>5, <1>6
-----------------------------------------------------------------------------
(* Every state *)

LEMMA VpcInit ==
    ASSUME Init
    PROVE  TypeOK /\ VpcInv
<1>1. acct \in Account /\ launch = [p \in Calls |-> NoLaunch] /\ faults = 0
  BY DEF Init
<1>2. PICK D : D = (IF acct.default THEN {Default} ELSE {}) \cup
                  (IF acct.vpc = "none" THEN {} ELSE {User})
  OBVIOUS
<1>3. /\ D \subseteq {Default, User} /\ D \subseteq Vpc
      /\ acct.default => Default \in D
      /\ acct.vpc # "none" => User \in D
  BY <1>2 DEF Vpc
<1>4. PICK used : net = [v \in D |-> Made(IF v = User /\ acct.vpc = "empty" THEN {} ELSE Zones, used)]
  BY <1>2 DEF Init
<1>5. \A Z \in SUBSET Zones :
        /\ Made(Z, used) \in [parts : SUBSET Part, subs : SUBSET Zones]
        /\ {"attached", "route", "assoc"} \subseteq Made(Z, used).parts
  BY DEF Made, Part
<1>6. DOMAIN net = D /\ \A v \in D : /\ net[v] \in [parts : SUBSET Part, subs : SUBSET Zones]
                                     /\ {"attached", "route", "assoc"} \subseteq net[v].parts
  BY <1>4, <1>5
<1>7. PICK n \in Names, r \in 0..Old, s \in 0..Old : inst = OldNodes(n, r, s)
  BY DEF Init
<1>8. PICK m \in Nat : m = r + s
  BY VpcProvidersAssumption
<1>9. PICK S : S = {<<"old", j>> : j \in 1..m}
  OBVIOUS
<1>10. /\ DOMAIN inst = S
       /\ \A i \in S : inst[i] = [name |-> n, state |-> IF i[2] <= r THEN "running" ELSE "stopped",
                                 subnet |-> None, group |-> None, by |-> None]
  BY <1>7, <1>8, <1>9 DEF OldNodes
<1>11. \A i \in S : inst[i] \in Instance /\ inst[i].by = None /\ i[1] = "old"
  <2>1. \A x \in {"running", "stopped"} :
           LET o == [name |-> n, state |-> x, subnet |-> None, group |-> None, by |-> None]
           IN  o \in Instance /\ o.by = None
    BY <1>7 DEF Instance
  <2>2. \A i \in S : i[1] = "old" /\ (IF i[2] <= r THEN "running" ELSE "stopped") \in {"running", "stopped"}
    BY <1>9
  <2> QED BY <1>10, <2>1, <2>2
<1>12. S \subseteq Node /\ IsFiniteSet(S)
  <2> DEFINE f == [j \in 1..m |-> <<"old", j>>]
  <2>1. f \in Surjection(1..m, S)
    BY <1>9 DEF Surjection
  <2>2. IsFiniteSet(1..m)
    BY FS_Interval
  <2>3. IsFiniteSet(S)
    BY <2>1, <2>2, FS_Surjection
  <2>4. S \subseteq Node
    BY <1>9 DEF Node
  <2> QED BY <2>3, <2>4
<1>13. NoLaunch \in Launch
  <2>1. <<>> \in Seq(Subnet)
    OBVIOUS
  <2> QED BY <2>1 DEF NoLaunch, Launch
<1>14. TypeOK
  BY <1>1, <1>3, <1>6, <1>10, <1>11, <1>12, <1>13, VpcProvidersAssumption DEF TypeOK
<1>15. AcctOK
  BY <1>3, <1>6 DEF AcctOK, Finished
<1>16. InstOK
  BY <1>10, <1>11 DEF InstOK, NodeOK
<1>17. ASSUME NEW p \in Calls
       PROVE  CallOK(p)
  <2>1. /\ launch[p].pc = "idle" /\ launch[p].res = "none" /\ launch[p].k = 1 /\ launch[p].nets = 0
    BY <1>1 DEF NoLaunch
  <2>2. MadeBy(p) = {}
    BY <1>10, <1>11, NamesAreApart DEF MadeBy
  <2>3. \A v \in DOMAIN net : v[1] # p
    BY <1>3, <1>6, NamesAreApart DEF Default, User
  <2>4. BatchOK(p) /\ TriesOK(p) /\ NodesOK(p)
    BY <2>1, <2>2 DEF BatchOK, TriesOK, NodesOK
  <2>5. NetworksOK(p)
    BY <2>1, <2>3 DEF NetworksOK, OwnVpcs, AwsOK, AliyunOK
  <2>6. GroupOK(p)
    BY <2>1 DEF GroupOK
  <2> QED BY <2>4, <2>5, <2>6 DEF CallOK
<1> QED BY <1>14, <1>15, <1>16, <1>17 DEF VpcInv

LEMMA VpcStep ==
    ASSUME TypeOK, VpcInv, Next
    PROVE  TypeOK' /\ VpcInv'
<1>1. ASSUME NEW p \in Calls, NEW n \in Names, Begin(p, n)
      PROVE  TypeOK' /\ VpcInv'
  BY <1>1, BeginInv
<1>2. ASSUME NEW p \in Calls, Step(p)
      PROVE  TypeOK' /\ VpcInv'
  <2>1. CASE ListExisting(p)             BY <2>1, ListExistingInv
  <2>2. CASE StartInstances(p)           BY <2>2, StartInstancesInv
  <2>3. CASE Resumed(p)                  BY <2>3, ResumedInv
  <2>4. CASE AwsVpcFor(p)                BY <2>4, AwsVpcForInv
  <2>5. CASE AwsCreateVpcNetwork(p)      BY <2>5, AwsCreateVpcNetworkInv
  <2>6. CASE AwsSecurityGroupFor(p)      BY <2>6, AwsSecurityGroupForInv
  <2>7. CASE AwsSubnetsFor(p)            BY <2>7, AwsSubnetsForInv
  <2>8. CASE AliyunVpc(p)                BY <2>8, AliyunVpcInv
  <2>9. CASE AliyunGroup(p)              BY <2>9, AliyunGroupInv
  <2>10. CASE AuthorizeSecurityGroup(p)  BY <2>10, AuthorizeSecurityGroupInv
  <2>11. CASE AliyunVSwitchesFor(p)      BY <2>11, AliyunVSwitchesForInv
  <2>12. CASE AliyunCreateNetwork(p)     BY <2>12, AliyunCreateNetworkInv
  <2>13. CASE RunOnSubnet(p)             BY <2>13, RunOnSubnetInv
  <2> QED BY <1>2, <2>1, <2>2, <2>3, <2>4, <2>5, <2>6, <2>7, <2>8, <2>9, <2>10, <2>11,
             <2>12, <2>13 DEF Step
<1> QED BY <1>1, <1>2 DEF Next

LEMMA VpcStutter ==
    ASSUME TypeOK, VpcInv, UNCHANGED vars
    PROVE  TypeOK' /\ VpcInv'
<1>1. /\ acct' = acct /\ net' = net /\ inst' = inst /\ launch' = launch /\ faults' = faults
  BY DEF vars
<1>2. TypeOK'
  BY <1>1 DEF TypeOK
<1>3. AcctOK' /\ InstOK'
  BY <1>1 DEF VpcInv, AcctOK, InstOK, NodeOK, Finished, OwnGroup
<1>4. ASSUME NEW p \in Calls
      PROVE  CallOK(p)'
  <2>1. CallOK(p) /\ MadeBy(p)' = MadeBy(p) /\ NewNodes(p)' = NewNodes(p)
    BY <1>1 DEF VpcInv, MadeBy, NewNodes
  <2>2. BatchOK(p)' /\ TriesOK(p)' /\ NodesOK(p)'
    BY <1>1, <2>1 DEF CallOK, BatchOK, TriesOK, NodesOK
  <2>3. NetworksOK(p)' /\ GroupOK(p)'
    BY <1>1, <2>1 DEF CallOK, NetworksOK, OwnVpcs, AwsOK, AliyunOK, HalfMade, ReadyVpc,
                      Finished, GroupOK, OwnGroup
  <2> QED BY <2>2, <2>3 DEF CallOK
<1> QED BY <1>2, <1>3, <1>4 DEF VpcInv

(* The state of every account and launch has its types, and the inductive
   invariant: where each call is, and what it has made so far, agree. *)
THEOREM VpcProvidersInv == Spec => [](TypeOK /\ VpcInv)
<1>1. Init => TypeOK /\ VpcInv
  BY VpcInit
<1>2. TypeOK /\ VpcInv /\ [Next]_vars => (TypeOK /\ VpcInv)'
  BY VpcStep, VpcStutter
<1> QED BY <1>1, <1>2, PTL DEF Spec

(* OneBatch: a call that tries the next subnet, or whose answer is lost, never
   makes a second batch of nodes (aws and aliyun RunInstances). *)
THEOREM LaunchesOnce == Spec => []OneBatch
<1>1. TypeOK /\ VpcInv => OneBatch
  <2> SUFFICES ASSUME TypeOK, VpcInv, NEW p \in Calls
               PROVE  Cardinality(MadeBy(p)) <= NumNodes
    BY DEF OneBatch
  <2>1. PICK S : S = NewNodes(p)
    OBVIOUS
  <2>2. S = {<<p, launch[p].k, j>> : j \in 1..NumNodes} /\ launch[p].k \in Nat
    BY <2>1, CallType DEF NewNodes, Launch
  <2>3. IsFiniteSet(S) /\ Cardinality(S) = NumNodes
    BY <2>2, NewNodesFacts
  <2>4. MadeBy(p) \subseteq S
    BY <2>1 DEF VpcInv, CallOK, BatchOK
  <2> QED BY <2>3, <2>4, FS_Subset
<1> QED BY <1>1, VpcProvidersInv, PTL

-----------------------------------------------------------------------------
(* Every zone is tried: what holds while no call of the API failed, of launches
   that ask for no zone *)

(* The zone that a network is made in. *)
Middle == PickZone(None)

(* The zones of the subnets that a call tries. *)
Tried(p) == {launch[p].subs[j][2] : j \in 1..Len(launch[p].subs)}

(* The account's VPC had no subnet, and gets one in the middle at most. *)
HomeEmpty == Home \in DOMAIN net => net[Home].subs \subseteq {Middle}

NetZones ==
    \A v \in DOMAIN net :
      /\ net[v].subs \subseteq {Middle} \/ (v \in {Default, User} /\ net[v].subs = Zones)
      /\ v = User => acct.vpc # "none"
      /\ v = Default => acct.default

(* What a call tries is all there is in the VPC, or can be later. *)
Covered(p, v) ==
    \/ net[v].subs = Zones /\ ZonesOf(v) \subseteq Tried(p)
    \/ net[v].subs \subseteq {Middle} /\ Middle \in Tried(p)

(* Where a call is, the VPC that it looks in, and the zones it has tried. *)
ReachOK(p) ==
    LET c == launch[p]
        first == c.pc = "net" /\ c.then = "group"
        again == c.pc = "net" /\ c.then = "run"
    IN  /\ (c.pc \in Early \cup {"group"} \/ first) => c.group = None
        /\ first => Home \notin DOMAIN net
        /\ c.pc \in {"group", "rule", "subnets"} =>
             IF Home \in DOMAIN net THEN c.vpc = Home ELSE c.vpc \in {None, <<p, 1>>}
        /\ (c.pc \in {"mkvpc", "mkswitch"} \/ again) => HomeEmpty
        /\ (c.pc = "run" \/ (c.res = "error" /\ c.group # None)) =>
             \A v \in VpcsOf(p) : Covered(p, v)
        /\ c.pc = "run" => \A j \in 1..(c.k - 1) : c.subs[j][2] \notin acct.stock
        /\ (c.res = "error" /\ c.group # None) =>
             \A j \in 1..Len(c.subs) : c.subs[j][2] \notin acct.stock

Quiet == acct.zone = None /\ faults = 0

ZoneInv == Quiet => NetZones /\ \A p \in Calls : ReachOK(p)

(* VPCs get subnets in the middle only; new ones are the call's. *)
NetZoneStep(p) ==
    /\ DOMAIN net \subseteq DOMAIN net'
    /\ \A v \in DOMAIN net' :
         \/ v \in DOMAIN net /\ net'[v].subs \in {net[v].subs, net[v].subs \cup {Middle}}
         \/ v \notin DOMAIN net /\ v[1] = p /\ net'[v].subs = {}

(* The list of subnets in some zones has them all. *)
LEMMA AllInZones ==
    ASSUME NEW v \in Vpc, NEW Z \in SUBSET Zones
    PROVE  {InZones(v, Z)[j][2] : j \in 1..Len(InZones(v, Z))} = Z
<1> DEFINE S == {<<v, z>> : z \in Z}
           q == InZones(v, Z)
           n == Cardinality(S)
<1>1. IsFiniteSet(S)
  <2> DEFINE f == [z \in Z |-> <<v, z>>]
  <2>1. f \in Surjection(Z, S)
    BY DEF Surjection
  <2>2. IsFiniteSet(Z)
    BY ZonesFinite, FS_Subset
  <2> QED BY <2>1, <2>2, FS_Surjection
<1>2. (\A s \in S : s[2] \in Z) /\ \A z \in Z : \E s \in S : s[2] = z
  <2>1. \A z \in Z : <<v, z>> \in S /\ <<v, z>>[2] = z
    OBVIOUS
  <2>2. \A s \in S : \E z \in Z : s = <<v, z>>
    OBVIOUS
  <2> HIDE DEF S
  <2> QED BY <2>1, <2>2
<1>3. q = SetToSeq(S)
  BY DEF InZones
<1> HIDE DEF S, q
<1>4. n \in Nat /\ ExistsBijection(1..n, S)
  BY <1>1, FS_CardinalityType
<1>5. PICK f \in [1..n -> S] : IsInjective(f)
  BY <1>4 DEF ExistsBijection, Bijection, Injection, IsInjective
<1>6. q \in [1..n -> S] /\ IsInjective(q)
  BY <1>3, <1>5 DEF SetToSeq
<1>7. q \in Injection(1..n, S)
  BY <1>6 DEF Injection, IsInjective
<1>8. Cardinality(1..n) = n
  BY <1>4, FS_Interval
<1>9. q \in Surjection(1..n, S)
  BY <1>1, <1>7, <1>8, FS_Injection
<1>10. \A s \in S : \E j \in 1..n : q[j] = s
  BY <1>9 DEF Surjection
<1> HIDE DEF n
<1>11. Len(q) = n /\ \A j \in 1..n : q[j] \in S
  BY <1>4, <1>6
<1> QED BY <1>2, <1>10, <1>11 DEF q

LEMMA MiddleIsZone == Middle \in Zones
BY PickZoneType DEF Middle

LEMMA HomeIsNoCall == \A p \in Calls : Home[1] # p /\ Default[1] # p /\ User[1] # p
BY NamesAreApart DEF Home, Default, User

(* A step leaves the zones of the network, and of the calls that it is not of. *)
LEMMA ZonesStay ==
    ASSUME NetZones, NEW p \in Calls, NetZoneStep(p), UNCHANGED acct
    PROVE  /\ NetZones'
           /\ Home' = Home /\ (Home \in DOMAIN net' <=> Home \in DOMAIN net)
           /\ HomeEmpty => HomeEmpty'
<1>1. Home' = Home
  BY DEF Home
<1>2. Home \in DOMAIN net' <=> Home \in DOMAIN net
  BY HomeIsNoCall DEF NetZoneStep
<1>3. HomeEmpty => HomeEmpty'
  BY <1>1, <1>2 DEF HomeEmpty, NetZoneStep
<1>4. ASSUME NEW v \in DOMAIN net'
      PROVE  /\ net'[v].subs \subseteq {Middle} \/ (v \in {Default, User} /\ net'[v].subs = Zones)
             /\ v = User => acct.vpc # "none"
             /\ v = Default => acct.default
  <2>1. CASE v \in DOMAIN net /\ net'[v].subs \in {net[v].subs, net[v].subs \cup {Middle}}
    BY <2>1, MiddleIsZone DEF NetZones
  <2>2. CASE v \notin DOMAIN net /\ v[1] = p /\ net'[v].subs = {}
    BY <2>2, HomeIsNoCall
  <2> QED BY <2>1, <2>2 DEF NetZoneStep
<1>5. NetZones'
  BY <1>4 DEF NetZones
<1> QED BY <1>1, <1>2, <1>3, <1>5

LEMMA CoveredStays ==
    ASSUME NEW p \in Calls, NetZoneStep(p), UNCHANGED acct, NEW q, NEW v \in DOMAIN net,
           Covered(q, v), Tried(q)' = Tried(q)
    PROVE  Covered(q, v)'
<1>1. v \in DOMAIN net' /\ net'[v].subs \in {net[v].subs, net[v].subs \cup {Middle}}
  BY DEF NetZoneStep
<1>2. CASE net[v].subs = Zones /\ ZonesOf(v) \subseteq Tried(q)
  <2>1. net'[v].subs = net[v].subs
    BY <1>1, <1>2, MiddleIsZone
  <2> QED BY <1>2, <2>1 DEF Covered, ZonesOf
<1>3. CASE net[v].subs \subseteq {Middle} /\ Middle \in Tried(q)
  BY <1>1, <1>3 DEF Covered
<1> QED BY <1>2, <1>3 DEF Covered

LEMMA OthersReach ==
    ASSUME NetZones, NEW p \in Calls, NetZoneStep(p), UNCHANGED acct,
           NEW q \in Calls, q # p, launch'[q] = launch[q], ReachOK(q)
    PROVE  ReachOK(q)'
<1>1. /\ Home' = Home /\ (Home \in DOMAIN net' <=> Home \in DOMAIN net)
      /\ HomeEmpty => HomeEmpty'
  BY ZonesStay
<1>2. Tried(q)' = Tried(q)
  BY DEF Tried
<1>3. VpcsOf(q)' = VpcsOf(q)
  BY <1>1, HomeIsNoCall DEF VpcsOf, NetZoneStep
<1>4. (\A v \in VpcsOf(q) : Covered(q, v)) => (\A v \in VpcsOf(q) : Covered(q, v))'
  <2> SUFFICES ASSUME \A v \in VpcsOf(q) : Covered(q, v), NEW v \in VpcsOf(q)
               PROVE  Covered(q, v)'
    BY <1>3
  <2> QED BY <1>2, CoveredStays DEF VpcsOf
<1> HIDE DEF Home, HomeEmpty, VpcsOf, Covered
<1> QED BY <1>1, <1>4 DEF ReachOK

(* A step of one call keeps the invariant, if it does of that call. *)
LEMMA ZoneStep ==
    ASSUME ZoneInv, NEW p \in Calls, UNCHANGED acct, faults' = 0 => faults = 0,
           \A q \in Calls : q # p => launch'[q] = launch[q],
           (Quiet /\ Quiet') => NetZoneStep(p) /\ ReachOK(p)'
    PROVE  ZoneInv'
<1> SUFFICES ASSUME Quiet'
             PROVE  (NetZones /\ \A q \in Calls : ReachOK(q))'
  BY DEF ZoneInv
<1>1. Quiet /\ NetZones /\ (\A q \in Calls : ReachOK(q)) /\ NetZoneStep(p) /\ ReachOK(p)'
  BY DEF ZoneInv, Quiet
<1>2. NetZones'
  BY <1>1, ZonesStay
<1>3. ASSUME NEW q \in Calls
      PROVE  ReachOK(q)'
  <2>1. CASE q = p
    BY <1>1, <2>1
  <2>2. CASE q # p
    BY <1>1, <2>2, OthersReach
  <2> QED BY <2>1, <2>2
<1> QED BY <1>2, <1>3

(* A step that leaves the networks. *)
LEMMA QuietStep ==
    ASSUME TypeOK, ZoneInv, NEW p \in Calls, NEW d, SetsCall(p, d), UNCHANGED <<acct, net>>,
           faults' = 0 => faults = 0,
           (Quiet /\ Quiet') => ReachOK(p)'
    PROVE  ZoneInv'
<1>1. \A q \in Calls : q # p => launch'[q] = launch[q]
  BY DEF SetsCall, TypeOK
<1>2. NetZoneStep(p)
  BY DEF NetZoneStep
<1> QED BY <1>1, <1>2, ZoneStep

(* A call that fails says nothing of the zones. *)
LEMMA FailZones ==
    ASSUME TypeOK, NEW p \in Calls, Fail(p)
    PROVE  ZoneInv'
BY VpcProvidersAssumption DEF Fail, ZoneInv, Quiet, TypeOK

(* What a call does before it looks for a VPC: there is no group yet. *)
LEMMA EarlyStep ==
    ASSUME TypeOK, VpcInv, ZoneInv, NEW p \in Calls, launch[p].pc \in Early,
           UNCHANGED <<acct, net, faults>>, NEW d, SetsCall(p, d),
           d.pc \in Early \cup {"done"}, d.group = launch[p].group, d.res # "error"
    PROVE  ZoneInv'
<1>1. launch'[p] = d
  BY DEF SetsCall, TypeOK
<1>2. Quiet => launch[p].group = None
  BY DEF ZoneInv, ReachOK
<1>3. Quiet => ReachOK(p)'
  BY <1>1, <1>2 DEF ReachOK, Early
<1> QED BY <1>3, QuietStep

LEMMA ListExistingZones ==
    ASSUME TypeOK, VpcInv, ZoneInv, NEW p \in Calls, ListExisting(p)
    PROVE  ZoneInv'
<1> DEFINE c == launch[p]
           mine    == ListInstances(c.name)
           running == {i \in mine : inst[i].state = "running"}
           stopped == mine \ running
           short   == NumNodes - Cardinality(running)
           need    == IF Cardinality(stopped) > short THEN short ELSE Cardinality(stopped)
<1>1. c \in Launch /\ c.pc = "list" /\ UNCHANGED <<acct, net>> /\ c.res = "none"
  <2>1. c.pc = "list" /\ UNCHANGED <<acct, net>>
    BY DEF ListExisting
  <2> QED BY <2>1, CallType DEF VpcInv, CallOK, BatchOK
<1>2. \/ Fail(p)
      \/ /\ \E r \in kSubset(NumNodes, running) :
               launch' = [launch EXCEPT ![p].pc = "done", ![p].res = "ok", ![p].ids = r]
         /\ UNCHANGED faults
      \/ /\ Cardinality(running) < NumNodes
         /\ \E s \in kSubset(need, stopped) :
               launch' = [launch EXCEPT ![p].pc = "resume", ![p].todo = s, ![p].ids = running \cup s]
         /\ UNCHANGED faults
      \/ launch' = [launch EXCEPT ![p].pc = "vpc"] /\ UNCHANGED faults
  BY DEF ListExisting
<1> HIDE DEF mine, running, stopped, short, need
<1>3. CASE Fail(p)
  BY <1>3, FailZones
<1>4. ASSUME NEW r, UNCHANGED faults,
             launch' = [launch EXCEPT ![p].pc = "done", ![p].res = "ok", ![p].ids = r]
      PROVE  ZoneInv'
  <2>1. PICK d : d = [c EXCEPT !.pc = "done", !.res = "ok", !.ids = r]
    OBVIOUS
  <2>2. SetsCall(p, d)
    BY <1>4, <2>1 DEF SetsCall
  <2>3. d.pc = "done" /\ d.group = c.group /\ d.res = "ok"
    BY <1>1, <2>1 DEF Launch
  <2> QED BY <1>1, <1>4, <2>2, <2>3, EarlyStep DEF Early
<1>5. ASSUME NEW s, UNCHANGED faults,
             launch' = [launch EXCEPT ![p].pc = "resume", ![p].todo = s, ![p].ids = running \cup s]
      PROVE  ZoneInv'
  <2>1. PICK d : d = [c EXCEPT !.pc = "resume", !.todo = s, !.ids = running \cup s]
    OBVIOUS
  <2>2. SetsCall(p, d)
    BY <1>5, <2>1 DEF SetsCall
  <2>3. d.pc = "resume" /\ d.group = c.group /\ d.res = "none"
    BY <1>1, <2>1 DEF Launch
  <2> QED BY <1>1, <1>5, <2>2, <2>3, EarlyStep DEF Early
<1>6. CASE launch' = [launch EXCEPT ![p].pc = "vpc"] /\ UNCHANGED faults
  <2>1. PICK d : d = [c EXCEPT !.pc = "vpc"]
    OBVIOUS
  <2>2. SetsCall(p, d)
    BY <1>6, <2>1 DEF SetsCall
  <2>3. d.pc = "vpc" /\ d.group = c.group /\ d.res = "none"
    BY <1>1, <2>1 DEF Launch
  <2> QED BY <1>1, <1>6, <2>2, <2>3, EarlyStep DEF Early
<1> QED BY <1>2, <1>3, <1>4, <1>5, <1>6

LEMMA EarlyZones ==
    ASSUME TypeOK, VpcInv, ZoneInv, NEW p \in Calls,
           (\E n \in Names : Begin(p, n)) \/ StartInstances(p) \/ Resumed(p)
    PROVE  ZoneInv'
<1> DEFINE c == launch[p]
<1>1. c \in Launch /\ c.pc \in Early /\ UNCHANGED <<acct, net>> /\ c.res = "none"
  <2>1. c.pc \in Early /\ UNCHANGED <<acct, net>>
    BY DEF Begin, StartInstances, Resumed, Early
  <2>2. BatchOK(p) /\ c.pc # "done"
    BY <2>1 DEF VpcInv, CallOK, Early
  <2> QED BY <2>1, <2>2, CallType DEF BatchOK
<1>2. ASSUME NEW n \in Names, Begin(p, n)
      PROVE  ZoneInv'
  <2>1. PICK d : d = [c EXCEPT !.pc = "list", !.name = n]
    OBVIOUS
  <2>2. SetsCall(p, d) /\ UNCHANGED faults
    BY <1>2, <2>1 DEF Begin, SetsCall
  <2>3. d.pc = "list" /\ d.group = c.group /\ d.res = "none"
    BY <1>1, <2>1 DEF Launch
  <2> QED BY <1>1, <2>2, <2>3, EarlyStep DEF Early
<1>3. CASE StartInstances(p)
  <2>1. CASE Fail(p)
    BY <2>1, FailZones
  <2>2. CASE ~Fail(p)
    <3>1. PICK i : launch' = [launch EXCEPT ![p].todo = c.todo \ {i}] /\ UNCHANGED faults
      BY <1>3, <2>2 DEF StartInstances
    <3>2. PICK d : d = [c EXCEPT !.todo = c.todo \ {i}]
      OBVIOUS
    <3>3. SetsCall(p, d)
      BY <3>1, <3>2 DEF SetsCall
    <3>4. d.pc = c.pc /\ d.group = c.group /\ d.res = "none"
      BY <1>1, <3>2 DEF Launch
    <3> QED BY <1>1, <3>1, <3>3, <3>4, EarlyStep
  <2> QED BY <2>1, <2>2
<1>4. CASE Resumed(p)
  <2>1. PICK r \in {"ok", "panic"} : Return(p, r) /\ UNCHANGED faults
    BY <1>4 DEF Resumed
  <2>2. PICK d : d = [c EXCEPT !.pc = "done", !.res = r]
    OBVIOUS
  <2>3. SetsCall(p, d)
    BY <2>1, <2>2 DEF Return, SetsCall
  <2>4. d.pc = "done" /\ d.group = c.group /\ d.res # "error"
    BY <1>1, <2>2 DEF Launch
  <2> QED BY <1>1, <2>1, <2>3, <2>4, EarlyStep
<1> QED BY <1>2, <1>3, <1>4

LEMMA AwsVpcForZones ==
    ASSUME TypeOK, VpcInv, ZoneInv, NEW p \in Calls, AwsVpcFor(p)
    PROVE  ZoneInv'
<1> DEFINE c == launch[p]
<1>1. /\ c \in Launch /\ c.pc = "vpc" /\ UNCHANGED <<acct, net>> /\ AcctOK /\ c.res = "none"
      /\ c.nets = 0
  BY CallType DEF AwsVpcFor, Is, VpcInv, CallOK, NetworksOK, OwnVpcs, Early, BatchOK
<1>2. Default \in Vpc /\ Default # None
  BY NamesAreApart DEF Vpc
<1>3. CASE Fail(p)
  BY <1>3, FailZones
<1>4. CASE ~Fail(p)
  <2>1. PICK d : /\ SetsCall(p, d) /\ UNCHANGED faults
                 /\ d = IF acct.vpc # "none" THEN [c EXCEPT !.vpc = User, !.pc = "group"]
                        ELSE IF DescribeVpcs # None THEN [c EXCEPT !.vpc = DescribeVpcs, !.pc = "group"]
                        ELSE MakeNetwork(c, "group")
    BY <1>4 DEF AwsVpcFor, SetsCall
  <2>2. launch'[p] = d
    BY <2>1 DEF SetsCall, TypeOK
  <2>3. ASSUME Quiet
        PROVE  ReachOK(p)'
    <3>1. ReachOK(p) /\ NetZones
      BY <2>3 DEF ZoneInv
    <3>2. c.group = None
      BY <1>1, <3>1 DEF ReachOK, Early
    <3>3. CASE acct.vpc # "none"
      <4>1. d.pc = "group" /\ d.vpc = User /\ d.group = None /\ d.res = "none"
        BY <1>1, <2>1, <3>2, <3>3 DEF Launch
      <4>2. Home' = User /\ User \in DOMAIN net'
        BY <1>1, <3>3 DEF Home, AcctOK, Finished
      <4> QED BY <2>2, <4>1, <4>2 DEF ReachOK, Early
    <3>4. CASE acct.vpc = "none" /\ acct.default
      <4>1. d.pc = "group" /\ d.vpc = Default /\ d.group = None /\ d.res = "none"
        BY <1>1, <1>2, <2>1, <3>2, <3>4 DEF Launch, DescribeVpcs
      <4>2. Home' = Default /\ Default \in DOMAIN net'
        BY <1>1, <3>4 DEF Home, AcctOK, Finished
      <4> QED BY <2>2, <4>1, <4>2 DEF ReachOK, Early
    <3>5. CASE acct.vpc = "none" /\ ~acct.default
      <4>1. d = MakeNetwork(c, "group")
        BY <2>1, <3>5 DEF DescribeVpcs
      <4>2. d.pc = "net" /\ d.then = "group" /\ d.group = None /\ d.res = "none"
        BY <1>1, <3>2, <4>1, MakeNetworkFields
      <4>3. Home' = Default /\ Default \notin DOMAIN net'
        BY <1>1, <3>1, <3>5 DEF Home, NetZones
      <4> QED BY <2>2, <4>2, <4>3 DEF ReachOK
    <3> QED BY <3>3, <3>4, <3>5
  <2> QED BY <1>1, <2>1, <2>3, QuietStep
<1> QED BY <1>3, <1>4

LEMMA AliyunVpcZones ==
    ASSUME TypeOK, VpcInv, ZoneInv, NEW p \in Calls, AliyunVpc(p)
    PROVE  ZoneInv'
<1> DEFINE c == launch[p]
<1>1. /\ c \in Launch /\ c.pc = "vpc" /\ UNCHANGED <<acct, net>> /\ AcctOK /\ c.res = "none"
  BY CallType DEF AliyunVpc, Is, VpcInv, CallOK, BatchOK
<1>2. CASE Fail(p)
  BY <1>2, FailZones
<1>3. CASE ~Fail(p)
  <2>1. PICK v : v = IF acct.vpc # "none" THEN User ELSE DescribeVpcs
    OBVIOUS
  <2>2. UNCHANGED faults /\ SetsCall(p, [c EXCEPT !.pc = "group", !.vpc = v])
    BY <1>3, <2>1 DEF AliyunVpc, SetsCall
  <2>3. PICK d : d = [c EXCEPT !.pc = "group", !.vpc = v]
    OBVIOUS
  <2>4. d.pc = "group" /\ d.vpc = v /\ d.group = c.group /\ d.res = "none"
    BY <1>1, <2>3 DEF Launch
  <2>5. SetsCall(p, d) /\ launch'[p] = d
    BY <2>2, <2>3 DEF SetsCall, TypeOK
  <2>6. ASSUME Quiet
        PROVE  ReachOK(p)'
    <3>1. ReachOK(p) /\ NetZones
      BY <2>6 DEF ZoneInv
    <3>2. c.group = None
      BY <1>1, <3>1 DEF ReachOK, Early
    <3>3. IF Home \in DOMAIN net THEN v = Home ELSE v = None
      BY <1>1, <2>1, <3>1 DEF Home, DescribeVpcs, AcctOK, Finished, NetZones
    <3>4. Home' = Home
      BY <1>1 DEF Home
    <3> HIDE DEF Home
    <3> QED BY <1>1, <2>4, <2>5, <3>2, <3>3, <3>4 DEF ReachOK, Early
  <2> QED BY <1>1, <2>2, <2>5, <2>6, QuietStep
<1> QED BY <1>2, <1>3

(* A group is found, made or gets a rule: the call stays with its VPC. *)
LEMMA GroupZones ==
    ASSUME TypeOK, VpcInv, ZoneInv, NEW p \in Calls, launch[p].pc \in {"group", "rule"},
           UNCHANGED <<acct, faults>>,
           DOMAIN net' = DOMAIN net, \A v \in DOMAIN net : net'[v].subs = net[v].subs,
           NEW d, SetsCall(p, d), d.pc \in {"rule", "subnets"}, d.vpc = launch[p].vpc,
           d.res = launch[p].res
    PROVE  ZoneInv'
<1>1. launch'[p] = d /\ \A q \in Calls : q # p => launch'[q] = launch[q]
  BY DEF SetsCall, TypeOK
<1>2. launch[p].res = "none"
  BY DEF VpcInv, CallOK, BatchOK
<1>3. Quiet => ReachOK(p)
  BY DEF ZoneInv
<1>4. Home' = Home
  BY DEF Home
<1>5. Quiet => ReachOK(p)'
  <2> HIDE DEF Home
  <2> QED BY <1>1, <1>2, <1>3, <1>4 DEF ReachOK, Early
<1>6. NetZoneStep(p)
  BY DEF NetZoneStep
<1> QED BY <1>1, <1>5, <1>6, ZoneStep

LEMMA AwsSecurityGroupForZones ==
    ASSUME TypeOK, VpcInv, ZoneInv, NEW p \in Calls, AwsSecurityGroupFor(p)
    PROVE  ZoneInv'
<1> DEFINE c == launch[p]
<1>1. c \in Launch /\ c.pc = "group" /\ UNCHANGED acct
  BY CallType DEF AwsSecurityGroupFor, Is
<1>2. CASE Fail(p)
  BY <1>2, FailZones
<1>3. ASSUME NEW g, NEW x \in {"rule", "subnets"}, UNCHANGED faults,
             net' = net \/ net' = CreatePart(c.vpc, "gpi-sg"),
             launch' = [launch EXCEPT ![p].group = g, ![p].pc = x]
      PROVE  ZoneInv'
  <2>1. PICK d : d = [c EXCEPT !.group = g, !.pc = x]
    OBVIOUS
  <2>2. SetsCall(p, d)
    BY <1>3, <2>1 DEF SetsCall
  <2>3. d.pc = x /\ d.vpc = c.vpc /\ d.res = c.res
    BY <1>1, <2>1 DEF Launch
  <2>4. DOMAIN net' = DOMAIN net /\ \A v \in DOMAIN net : net'[v].subs = net[v].subs
    <3>1. CASE net' = net
      BY <3>1
    <3>2. CASE net' = CreatePart(c.vpc, "gpi-sg")
      <4>1. \A v \in DOMAIN net : net[v] \in [parts : SUBSET Part, subs : SUBSET Zones]
        BY DEF TypeOK
      <4> QED BY <3>2, <4>1 DEF CreatePart
    <3> QED BY <1>3, <3>1, <3>2
  <2> QED BY <1>1, <1>3, <2>2, <2>3, <2>4, GroupZones
<1>4. CASE Return(p, "error") /\ UNCHANGED <<net, faults>>
  <2>1. PICK d : d = [c EXCEPT !.pc = "done", !.res = "error"]
    OBVIOUS
  <2>2. SetsCall(p, d) /\ launch'[p] = d
    BY <1>4, <2>1 DEF Return, SetsCall, TypeOK
  <2>3. d.pc = "done" /\ d.group = c.group
    BY <1>1, <2>1 DEF Launch
  <2>4. Quiet => c.group = None
    BY <1>1 DEF ZoneInv, ReachOK
  <2>5. Quiet => ReachOK(p)'
    BY <2>2, <2>3, <2>4 DEF ReachOK, Early
  <2> QED BY <1>1, <1>4, <2>2, <2>5, QuietStep
<1> QED BY <1>2, <1>3, <1>4 DEF AwsSecurityGroupFor

LEMMA AliyunGroupZones ==
    ASSUME TypeOK, VpcInv, ZoneInv, NEW p \in Calls, AliyunGroup(p) \/ AuthorizeSecurityGroup(p)
    PROVE  ZoneInv'
<1> DEFINE c == launch[p]
<1>1. c \in Launch /\ c.pc \in {"group", "rule"} /\ UNCHANGED <<acct, net>>
  BY CallType DEF AliyunGroup, AuthorizeSecurityGroup, Is
<1>2. CASE Fail(p)
  BY <1>2, FailZones
<1>3. ASSUME NEW g, NEW x \in {"rule", "subnets"}, UNCHANGED faults,
             SetsCall(p, [c EXCEPT !.group = g, !.pc = x])
      PROVE  ZoneInv'
  <2>1. PICK d : d = [c EXCEPT !.group = g, !.pc = x]
    OBVIOUS
  <2>2. SetsCall(p, d)
    BY <1>3, <2>1
  <2>3. d.pc = x /\ d.vpc = c.vpc /\ d.res = c.res
    BY <1>1, <2>1 DEF Launch
  <2> QED BY <1>1, <1>3, <2>2, <2>3, GroupZones
<1>4. CASE ~Fail(p) /\ AliyunGroup(p)
  <2>1. CASE acct.group # "none"
    <3>1. PICK g : g = [vpc |-> User, rules |-> 2]
      OBVIOUS
    <3>2. UNCHANGED faults /\ SetsCall(p, [c EXCEPT !.group = g, !.pc = "subnets"])
      BY <1>4, <2>1, <3>1 DEF AliyunGroup, SetsCall
    <3> QED BY <1>3, <3>2
  <2>2. CASE acct.group = "none"
    <3>1. PICK g : g = CreateSecurityGroup(c.vpc)
      OBVIOUS
    <3>2. UNCHANGED faults /\ SetsCall(p, [c EXCEPT !.group = g, !.pc = "rule"])
      BY <1>4, <2>2, <3>1 DEF AliyunGroup, SetsCall
    <3> QED BY <1>3, <3>2
  <2> QED BY <2>1, <2>2
<1>5. CASE ~Fail(p) /\ AuthorizeSecurityGroup(p)
  <2>1. PICK g : g = [c.group EXCEPT !.rules = c.group.rules + 1]
    OBVIOUS
  <2>2. PICK x \in {"rule", "subnets"} : x = IF c.group.rules = 1 THEN "subnets" ELSE "rule"
    OBVIOUS
  <2>3. UNCHANGED faults /\ SetsCall(p, [c EXCEPT !.group = g, !.pc = x])
    BY <1>5, <2>1, <2>2 DEF AuthorizeSecurityGroup, SetsCall
  <2> QED BY <1>3, <2>3
<1> QED BY <1>2, <1>4, <1>5

(* subnetsFor, vswitchesFor have found subnets of the account's VPC, or of the one
   that the call made: they are in every zone that can be reached. *)
LEMMA FoundZones ==
    ASSUME TypeOK, VpcInv, NetZones, NEW p \in Calls, NEW d, d.pc = "run", d.k = 1, d.res = "none",
           UNCHANGED <<acct, net>>, launch'[p] = d,
           NEW v \in DOMAIN net, v \in Vpc, d.subs = InZones(v, ZonesOf(v)), ZonesOf(v) # {},
           \A u \in VpcsOf(p) : u = v
    PROVE  ReachOK(p)'
<1>1. ZonesOf(v) \subseteq Zones /\ ZonesOf(v) \subseteq net[v].subs
  BY DEF TypeOK, ZonesOf
<1>2. PICK Z \in SUBSET Zones : Z = ZonesOf(v)
  BY <1>1
<1>3. Tried(p)' = Z
  BY <1>2, AllInZones DEF Tried
<1>4. VpcsOf(p)' = VpcsOf(p) /\ ZonesOf(v)' = ZonesOf(v)
  BY DEF VpcsOf, Home, ZonesOf
<1>5. Covered(p, v)'
  <2>1. CASE net[v].subs = Zones
    BY <1>2, <1>3, <1>4, <2>1 DEF Covered
  <2>2. CASE net[v].subs \subseteq {Middle}
    <3>1. Middle \in Z
      BY <1>1, <1>2, <2>2
    <3> QED BY <1>3, <2>2, <3>1 DEF Covered
  <2> QED BY <2>1, <2>2 DEF NetZones
<1>6. \A j \in 1..(d.k - 1) : FALSE
  OBVIOUS
<1>7. (\A u \in VpcsOf(p) : Covered(p, u))'
  BY <1>4, <1>5
<1> HIDE DEF Covered, VpcsOf
<1> QED BY <1>6, <1>7 DEF ReachOK, Early

LEMMA AwsSubnetsForZones ==
    ASSUME TypeOK, VpcInv, ZoneInv, NEW p \in Calls, AwsSubnetsFor(p)
    PROVE  ZoneInv'
<1> DEFINE c == launch[p]
<1>1. /\ c \in Launch /\ acct.cloud = "aws" /\ c.pc = "subnets" /\ CallOK(p) /\ c.res = "none"
      /\ UNCHANGED <<acct, net>>
  <2>1. acct.cloud = "aws" /\ c.pc = "subnets" /\ UNCHANGED <<acct, net>> /\ CallOK(p)
    BY DEF VpcInv, AwsSubnetsFor, Is
  <2> QED BY <2>1, CallType DEF CallOK, BatchOK
<1>2. PICK v : v = c.vpc
  OBVIOUS
<1>3. ReadyVpc(p, v) /\ OwnVpcs(p) /\ c.k = 1
  BY <1>1, <1>2 DEF CallOK, NetworksOK, AwsOK, TriesOK
<1>4. v \in DOMAIN net /\ v \in Vpc /\ v # None /\ Finished(v)
  BY <1>3, NamesAreApart DEF ReadyVpc, Finished, TypeOK
<1>5. \/ Fail(p)
      \/ /\ UNCHANGED faults
         /\ launch' = [launch EXCEPT ![p] =
              IF AwsCandidates(v) # <<>>
              THEN [c EXCEPT !.subs = AwsCandidates(v), !.pc = "run"]
              ELSE MakeNetwork(c, "run")]
  BY <1>2, <1>4 DEF AwsSubnetsFor
<1>6. CASE Fail(p)
  BY <1>6, FailZones
<1>7. ASSUME Quiet
      PROVE  (\A u \in VpcsOf(p) : u = v) /\ (v = Home \/ Home \notin DOMAIN net)
  <2>1. IF Home \in DOMAIN net THEN v = Home ELSE v \in {None, <<p, 1>>}
    BY <1>1, <1>2, <1>7 DEF ZoneInv, ReachOK
  <2>2. \A u \in DOMAIN net : u[1] = p => u[2] \in 1..c.nets /\ u \in Vpc
    BY <1>3 DEF OwnVpcs, TypeOK
  <2>3. CASE v \in {Default, User} /\ c.nets = 0
    <3>1. \A u \in DOMAIN net : u[1] # p
      BY <2>2, <2>3
    <3>2. v # <<p, 1>>
      BY <2>3, HomeIsNoCall
    <3>3. v = Home
      BY <1>4, <2>1, <3>2
    <3> HIDE DEF Home
    <3> QED BY <3>1, <3>3 DEF VpcsOf
  <2>4. CASE v = <<p, 1>> /\ c.nets = 1
    <3>1. Home \notin DOMAIN net
      BY <2>1, <2>4, HomeIsNoCall
    <3>2. \A u \in DOMAIN net : u[1] = p => u = <<p, 1>>
      <4>1. \A u \in Vpc : u[1] = p /\ u[2] \in 1..1 => u = <<p, 1>>
        BY HomeIsNoCall DEF Vpc
      <4> QED BY <2>2, <2>4, <4>1
    <3> HIDE DEF Home
    <3> QED BY <2>4, <3>1, <3>2 DEF VpcsOf
  <2> QED BY <1>3, <2>3, <2>4 DEF ReadyVpc
<1>8. CASE ~Fail(p) /\ DescribeSubnets(v) = {}
  <2>1. UNCHANGED faults /\ launch' = [launch EXCEPT ![p] = MakeNetwork(c, "run")]
    BY <1>4, <1>5, <1>8, CandidatesFacts
  <2>2. PICK d : d = MakeNetwork(c, "run")
    OBVIOUS
  <2>3. d.pc = "net" /\ d.then = "run" /\ d.res = "none"
    BY <1>1, <2>2 DEF MakeNetwork, Launch
  <2>4. SetsCall(p, d)
    BY <2>1, <2>2 DEF SetsCall
  <2>5. launch'[p] = d
    BY <2>4 DEF SetsCall, TypeOK
  <2>6. ASSUME Quiet
        PROVE  ReachOK(p)'
    <3>1. Home \in DOMAIN net => net[Home].subs = {}
      <4>1. Home \in {Default, User}
        BY DEF Home
      <4> HIDE DEF Home
      <4> QED BY <1>4, <1>7, <1>8, <2>6, <4>1, CandidatesFacts
    <3>2. HomeEmpty'
      BY <1>1, <3>1 DEF HomeEmpty, Home
    <3> HIDE DEF HomeEmpty
    <3> QED BY <2>3, <2>5, <3>2 DEF ReachOK, Early
  <2> QED BY <1>1, <2>1, <2>4, <2>6, QuietStep
<1>9. CASE ~Fail(p) /\ DescribeSubnets(v) # {}
  <2>1. PICK Z \in SUBSET Zones : Z # {} /\ AwsCandidates(v) = InZones(v, Z)
    BY <1>4, <1>9, CandidatesFacts
  <2>2. PICK s : s = AwsCandidates(v)
    OBVIOUS
  <2>3. s # <<>>
    BY <1>4, <2>1, <2>2, InZonesFacts
  <2>4. PICK d : d = [c EXCEPT !.subs = s, !.pc = "run"]
    OBVIOUS
  <2>5. UNCHANGED faults /\ SetsCall(p, d)
    BY <1>5, <1>9, <2>2, <2>3, <2>4 DEF SetsCall
  <2>6. launch'[p] = d
    BY <2>5 DEF SetsCall, TypeOK
  <2>7. d.pc = "run" /\ d.k = 1 /\ d.res = "none" /\ d.subs = s
    BY <1>1, <1>3, <2>4 DEF Launch
  <2>8. ASSUME Quiet
        PROVE  ReachOK(p)'
    <3>1. DescribeSubnets(v) = net[v].subs
      BY <1>4, <1>9 DEF DescribeSubnets, ListVSwitches
    <3>2. net[v].subs \cap {acct.zone} = {}
      BY <1>4, <2>8, NamesAreApart DEF Quiet, TypeOK
    <3>3. s = InZones(v, ZonesOf(v)) /\ ZonesOf(v) # {}
      BY <1>9, <2>2, <3>1, <3>2 DEF AwsCandidates, ZonesOf
    <3>4. NetZones
      BY <2>8 DEF ZoneInv
    <3> QED BY <1>1, <1>4, <1>7, <2>6, <2>7, <2>8, <3>3, <3>4, FoundZones
  <2> QED BY <1>1, <2>5, <2>8, QuietStep
<1> QED BY <1>6, <1>8, <1>9

LEMMA AliyunVSwitchesForZones ==
    ASSUME TypeOK, VpcInv, ZoneInv, NEW p \in Calls, AliyunVSwitchesFor(p)
    PROVE  ZoneInv'
<1> DEFINE c == launch[p]
<1>1. /\ c \in Launch /\ acct.cloud = "aliyun" /\ c.pc = "subnets" /\ CallOK(p) /\ c.res = "none"
      /\ UNCHANGED <<acct, net>> /\ AcctOK
  <2>1. acct.cloud = "aliyun" /\ c.pc = "subnets" /\ UNCHANGED <<acct, net>> /\ CallOK(p) /\ AcctOK
    BY DEF VpcInv, AliyunVSwitchesFor, Is
  <2> QED BY <2>1, CallType DEF CallOK, BatchOK
<1>2. PICK v : v = IF c.vpc = None THEN DescribeVpcs ELSE c.vpc
  OBVIOUS
<1>3. OwnVpcs(p) /\ AliyunOK(p) /\ c.k = 1 /\ c.nets = 0
  BY <1>1 DEF CallOK, NetworksOK, AliyunOK, TriesOK
<1>4. \A u \in DOMAIN net : u[1] # p
  BY <1>3 DEF OwnVpcs
<1>5. CASE Fail(p)
  BY <1>5, FailZones
<1>6. ASSUME Quiet
      PROVE  IF Home \in DOMAIN net THEN v = Home ELSE v = None
  <2>1. IF Home \in DOMAIN net THEN c.vpc = Home ELSE c.vpc \in {None, <<p, 1>>}
    BY <1>1, <1>6 DEF ZoneInv, ReachOK
  <2>2. Home \in Vpc /\ Home # None
    BY NamesAreApart DEF Home, Vpc
  <2>3. CASE Home \in DOMAIN net
    BY <1>2, <2>1, <2>2, <2>3
  <2>4. CASE Home \notin DOMAIN net
    <3>1. c.vpc # <<p, 1>>
      <4>1. <<p, 1>> # None /\ <<p, 1>>[1] = p
        BY NamesAreApart DEF Vpc
      <4>2. c.vpc # None => c.vpc \in DOMAIN net
        BY <1>1, <1>3 DEF AliyunOK
      <4> QED BY <1>4, <4>1, <4>2
    <3>2. c.vpc = None /\ v = DescribeVpcs
      BY <1>2, <2>1, <2>4, <3>1
    <3>3. DescribeVpcs = None
      BY <1>1, <2>4 DEF DescribeVpcs, AcctOK, Finished, Home
    <3> QED BY <2>4, <3>2, <3>3
  <2> QED BY <2>3, <2>4
<1>7. CASE ~Fail(p) /\ ListVSwitches(v) # {}
  <2>1. PICK Z : Z = IF ListVSwitches(v) \cap acct.subs # {} THEN ListVSwitches(v) \cap acct.subs
                     ELSE ListVSwitches(v)
    OBVIOUS
  <2>2. PICK s : s = InZones(v, Z)
    OBVIOUS
  <2>3. PICK d : d = [c EXCEPT !.pc = "run", !.subs = s]
    OBVIOUS
  <2>4. UNCHANGED faults /\ SetsCall(p, d)
    BY <1>2, <1>7, <2>1, <2>2, <2>3 DEF AliyunVSwitchesFor, SetsCall
  <2>5. launch'[p] = d
    BY <2>4 DEF SetsCall, TypeOK
  <2>6. d.pc = "run" /\ d.k = 1 /\ d.res = "none" /\ d.subs = s
    BY <1>1, <1>3, <2>3 DEF Launch
  <2>7. ASSUME Quiet
        PROVE  ReachOK(p)'
    <3>1. v # None
      BY <1>7 DEF ListVSwitches
    <3>2. v = Home /\ Home \in DOMAIN net
      BY <1>6, <2>7, <3>1
    <3>3. v \in DOMAIN net /\ v \in Vpc
      BY <3>2 DEF TypeOK
    <3>4. s = InZones(v, ZonesOf(v)) /\ ZonesOf(v) # {}
      BY <1>7, <2>1, <2>2, <3>1 DEF ListVSwitches, ZonesOf
    <3>5. \A u \in VpcsOf(p) : u = v
      <4> HIDE DEF Home
      <4> QED BY <1>4, <3>2 DEF VpcsOf
    <3>6. NetZones
      BY <2>7 DEF ZoneInv
    <3> QED BY <1>1, <2>5, <2>6, <3>3, <3>4, <3>5, <3>6, FoundZones
  <2> QED BY <1>1, <2>4, <2>7, QuietStep
<1>8. CASE ~Fail(p) /\ ListVSwitches(v) = {}
  <2>1. PICK x \in {"mkvpc", "mkswitch"} : x = IF v = None THEN "mkvpc" ELSE "mkswitch"
    OBVIOUS
  <2>2. PICK d : d = [c EXCEPT !.pc = x, !.vpc = v]
    OBVIOUS
  <2>3. UNCHANGED faults /\ SetsCall(p, d)
    BY <1>2, <1>8, <2>1, <2>2 DEF AliyunVSwitchesFor, SetsCall
  <2>4. launch'[p] = d
    BY <2>3 DEF SetsCall, TypeOK
  <2>5. d.pc = x /\ d.res = "none"
    BY <1>1, <2>2 DEF Launch
  <2>6. ASSUME Quiet
        PROVE  ReachOK(p)'
    <3>1. Home \in DOMAIN net => net[Home].subs = {}
      <4>1. Home # None
        BY NamesAreApart DEF Home, Vpc
      <4> HIDE DEF Home
      <4> QED BY <1>6, <1>8, <2>6, <4>1 DEF ListVSwitches
    <3>2. HomeEmpty'
      BY <1>1, <3>1 DEF HomeEmpty, Home
    <3> HIDE DEF HomeEmpty
    <3> QED BY <2>1, <2>4, <2>5, <3>2 DEF ReachOK, Early
  <2> QED BY <1>1, <2>3, <2>6, QuietStep
<1> QED BY <1>5, <1>7, <1>8

(* Steps that make networks leave subnets in the middle only. *)
LEMMA NetZoneVpc ==
    ASSUME NEW p \in Calls, NEW v, v[1] = p, v \notin DOMAIN net, net' = CreateVpc(v)
    PROVE  NetZoneStep(p)
BY DEF CreateVpc, NetZoneStep

LEMMA NetZonePart ==
    ASSUME TypeOK, NEW p \in Calls, NEW v \in DOMAIN net, NEW part, net' = CreatePart(v, part)
    PROVE  NetZoneStep(p)
<1>1. \A u \in DOMAIN net : net[u] \in [parts : SUBSET Part, subs : SUBSET Zones]
  BY DEF TypeOK
<1>2. DOMAIN net' = DOMAIN net /\ \A u \in DOMAIN net : net'[u].subs = net[u].subs
  BY <1>1 DEF CreatePart
<1> QED BY <1>2 DEF NetZoneStep

LEMMA NetZoneSwitch ==
    ASSUME TypeOK, NEW p \in Calls, NEW v \in DOMAIN net, net' = CreateVSwitch(v, Middle)
    PROVE  NetZoneStep(p)
<1>1. \A u \in DOMAIN net : net[u] \in [parts : SUBSET Part, subs : SUBSET Zones]
  BY DEF TypeOK
<1>2. /\ DOMAIN net' = DOMAIN net
      /\ \A u \in DOMAIN net : net'[u].subs \in {net[u].subs, net[u].subs \cup {Middle}}
  BY <1>1 DEF CreateVSwitch
<1> QED BY <1>2 DEF NetZoneStep

(* A subnet was made in the middle, and is all that the call tries. *)
LEMMA MadeZones ==
    ASSUME NetZones, HomeEmpty, NEW p \in Calls, NetZoneStep(p), UNCHANGED acct,
           NEW d, launch'[p] = d, d.pc = "run", d.k = 1, d.res = "none",
           NEW v, d.subs = << <<v, Middle>> >>
    PROVE  ReachOK(p)'
<1>1. NetZones' /\ HomeEmpty' /\ Home' = Home
  BY ZonesStay
<1>2. Middle' = Middle
  BY DEF Middle, PickZone
<1>3. Middle \in Tried(p)'
  <2>1. Len(d.subs) = 1 /\ d.subs[1] = <<v, Middle>>
    OBVIOUS
  <2>2. d.subs[1][2] = Middle /\ 1 \in 1..Len(d.subs)
    BY <2>1
  <2> QED BY <2>2 DEF Tried
<1>4. ASSUME NEW u \in VpcsOf(p)'
      PROVE  net'[u].subs \subseteq {Middle}
  <2>1. u \in DOMAIN net' /\ (u[1] = p \/ u = Home)
    BY <1>1 DEF VpcsOf
  <2>2. CASE u = Home
    BY <1>1, <2>1, <2>2 DEF HomeEmpty
  <2>3. CASE u[1] = p
    BY <1>1, <2>1, <2>3, HomeIsNoCall DEF NetZones
  <2> QED BY <2>1, <2>2, <2>3
<1>5. (\A u \in VpcsOf(p) : Covered(p, u))'
  BY <1>2, <1>3, <1>4 DEF Covered
<1>6. \A j \in 1..(d.k - 1) : FALSE
  OBVIOUS
<1> HIDE DEF Covered, VpcsOf
<1> QED BY <1>5, <1>6 DEF ReachOK, Early

LEMMA AliyunCreateNetworkZones ==
    ASSUME TypeOK, VpcInv, ZoneInv, NEW p \in Calls, AliyunCreateNetwork(p)
    PROVE  ZoneInv'
<1> DEFINE c == launch[p]
<1>1. /\ c \in Launch /\ acct.cloud = "aliyun" /\ c.pc \in {"mkvpc", "mkswitch"} /\ CallOK(p)
      /\ UNCHANGED acct
  BY CallType DEF VpcInv, AliyunCreateNetwork
<1>2. c.res = "none" /\ AliyunOK(p) /\ OwnVpcs(p) /\ c.k = 1
  BY <1>1 DEF CallOK, BatchOK, TriesOK, NetworksOK
<1>3. Quiet => NetZones /\ HomeEmpty
  BY <1>1 DEF ZoneInv, ReachOK
<1>4. CASE Fail(p)
  BY <1>4, FailZones
<1>5. CASE /\ c.pc = "mkvpc" /\ net' = CreateVpc(<<p, 1>>) /\ UNCHANGED faults
           /\ launch' = [launch EXCEPT ![p].vpc = <<p, 1>>, ![p].nets = 1, ![p].pc = "mkswitch"]
  <2>1. PICK v : v = <<p, 1>>
    OBVIOUS
  <2>2. v[1] = p /\ v[2] = 1 /\ v \notin DOMAIN net
    <3>1. c.nets = 0
      BY <1>2, <1>5 DEF AliyunOK
    <3> QED BY <1>2, <2>1, <3>1 DEF OwnVpcs
  <2>3. NetZoneStep(p)
    BY <1>5, <2>1, <2>2, NetZoneVpc
  <2>4. PICK d : d = [c EXCEPT !.vpc = v, !.nets = 1, !.pc = "mkswitch"]
    OBVIOUS
  <2>5. SetsCall(p, d)
    BY <1>5, <2>1, <2>4 DEF SetsCall
  <2>6. launch'[p] = d /\ \A q \in Calls : q # p => launch'[q] = launch[q]
    BY <2>5 DEF SetsCall, TypeOK
  <2>7. d.pc = "mkswitch" /\ d.res = "none"
    BY <1>1, <1>2, <2>4 DEF Launch
  <2>8. Quiet => ReachOK(p)'
    <3>1. Quiet => HomeEmpty'
      BY <1>1, <1>3, <2>3, ZonesStay
    <3> HIDE DEF HomeEmpty
    <3> QED BY <2>6, <2>7, <3>1 DEF ReachOK, Early
  <2> QED BY <1>1, <1>5, <2>3, <2>6, <2>8, ZoneStep
<1>6. CASE /\ c.pc = "mkswitch" /\ net' = CreateVSwitch(c.vpc, PickZone(acct.zone)) /\ UNCHANGED faults
           /\ launch' = [launch EXCEPT ![p].subs = << <<c.vpc, PickZone(acct.zone)>> >>, ![p].pc = "run"]
  <2>1. PICK v, z : v = c.vpc /\ z = PickZone(acct.zone)
    OBVIOUS
  <2>2. v \in DOMAIN net
    BY <1>1, <1>2, <1>6, <2>1 DEF AliyunOK
  <2>3. PICK d : d = [c EXCEPT !.subs = << <<v, z>> >>, !.pc = "run"]
    OBVIOUS
  <2>4. SetsCall(p, d)
    BY <1>6, <2>1, <2>3 DEF SetsCall
  <2>5. launch'[p] = d /\ \A q \in Calls : q # p => launch'[q] = launch[q]
    BY <2>4 DEF SetsCall, TypeOK
  <2>6. d.pc = "run" /\ d.k = 1 /\ d.res = "none" /\ d.subs = << <<v, z>> >>
    BY <1>1, <1>2, <2>3 DEF Launch
  <2>7. ASSUME Quiet
        PROVE  NetZoneStep(p) /\ ReachOK(p)'
    <3>1. z = Middle
      BY <2>1, <2>7 DEF Quiet, Middle
    <3>2. NetZoneStep(p)
      BY <1>6, <2>1, <2>2, <3>1, NetZoneSwitch
    <3> QED BY <1>1, <1>3, <2>5, <2>6, <2>7, <3>1, <3>2, MadeZones
  <2> QED BY <1>1, <1>6, <2>5, <2>7, ZoneStep
<1> QED BY <1>4, <1>5, <1>6 DEF AliyunCreateNetwork

LEMMA AwsCreateVpcNetworkZones ==
    ASSUME TypeOK, VpcInv, ZoneInv, NEW p \in Calls, AwsCreateVpcNetwork(p)
    PROVE  ZoneInv'
<1> DEFINE c == launch[p]
<1>1. /\ c \in Launch /\ acct.cloud = "aws" /\ c.pc = "net" /\ CallOK(p) /\ UNCHANGED acct
  BY CallType DEF VpcInv, AwsCreateVpcNetwork, Is
<1>2. HalfMade(p) /\ c.res = "none" /\ c.k = 1 /\ c.step \in 1..7
  BY <1>1 DEF CallOK, NetworksOK, AwsOK, BatchOK, TriesOK, Launch
<1>3. PICK v : v = <<p, c.nets>>
  OBVIOUS
<1>4. PICK z : z = PickZone(IF c.then = "group" THEN None ELSE acct.zone)
  OBVIOUS
<1>5. CASE Fail(p)
  BY <1>5, FailZones
<1>6. CASE ~Fail(p)
  <2>1. PICK s : s = NetworkSteps[c.step]
    OBVIOUS
  <2>2. /\ net' = CASE s = "vpc" -> CreateVpc(v)
                     [] s = "subnet" -> CreateVSwitch(v, z)
                     [] OTHER -> CreatePart(v, s)
        /\ launch' = [launch EXCEPT ![p] =
             IF c.step < Len(NetworkSteps) THEN [c EXCEPT !.step = c.step + 1]
             ELSE NetworkDone(p, v, z)]
        /\ UNCHANGED faults
    BY <1>3, <1>4, <1>6, <2>1 DEF AwsCreateVpcNetwork
  <2>3. v[1] = p /\ (c.step = 1 => v \notin DOMAIN net) /\ (c.step > 1 => v \in DOMAIN net)
    BY <1>2, <1>3 DEF HalfMade
  <2>4. (s = "vpc" <=> c.step = 1) /\ (s = "subnet" <=> c.step = 6)
    BY <1>2, <2>1, NetworkStepsFacts
  <2>5. Quiet => z = Middle
    BY <1>4 DEF Quiet, Middle
  <2>6. Quiet => NetZoneStep(p)
    <3>1. CASE c.step = 1
      <4>1. net' = CreateVpc(v)
        BY <2>2, <2>4, <3>1
      <4> QED BY <2>3, <3>1, <4>1, NetZoneVpc
    <3>2. CASE c.step = 6
      <4>1. net' = CreateVSwitch(v, z)
        BY <2>2, <2>4, <3>2
      <4> QED BY <2>3, <2>5, <3>2, <4>1, NetZoneSwitch
    <3>3. CASE c.step \notin {1, 6}
      <4>1. net' = CreatePart(v, s)
        BY <2>2, <2>4, <3>3
      <4>2. c.step > 1
        BY <1>2, <3>3
      <4> QED BY <2>3, <4>1, <4>2, NetZonePart
    <3> QED BY <3>1, <3>2, <3>3
  <2>7. c.then \in {"group", "run"} /\ (c.then = "group" => c.nets = 1)
    BY <1>2 DEF HalfMade
  <2>8. ASSUME Quiet
        PROVE  /\ NetZones /\ Home' = Home
               /\ c.then = "group" => c.group = None /\ Home \notin DOMAIN net'
               /\ c.then = "run" => HomeEmpty /\ HomeEmpty'
    <3>1. NetZones /\ ReachOK(p)
      BY <2>8 DEF ZoneInv
    <3>2. /\ Home' = Home /\ (Home \in DOMAIN net' <=> Home \in DOMAIN net)
          /\ HomeEmpty => HomeEmpty'
      BY <1>1, <2>6, <2>8, <3>1, ZonesStay
    <3>3. c.then = "group" => c.group = None /\ Home \notin DOMAIN net
      BY <1>1, <3>1 DEF ReachOK
    <3>4. c.then = "run" => HomeEmpty
      BY <1>1, <3>1 DEF ReachOK
    <3> QED BY <3>1, <3>2, <3>3, <3>4
  <2>9. CASE c.step < 7
    <3>1. PICK k : k = c.step + 1
      OBVIOUS
    <3>2. PICK d : d = [c EXCEPT !.step = k]
      OBVIOUS
    <3>3. SetsCall(p, d)
      BY <2>2, <2>9, <3>1, <3>2, NetworkStepsFacts DEF SetsCall
    <3>4. launch'[p] = d /\ \A q \in Calls : q # p => launch'[q] = launch[q]
      BY <3>3 DEF SetsCall, TypeOK
    <3>5. d.pc = "net" /\ d.then = c.then /\ d.res = "none" /\ d.group = c.group
      BY <1>1, <1>2, <3>2 DEF Launch
    <3>6. Quiet => ReachOK(p)'
      <4> HIDE DEF HomeEmpty, Home
      <4> QED BY <2>7, <2>8, <3>4, <3>5 DEF ReachOK, Early
    <3> QED BY <1>1, <2>2, <2>6, <3>4, <3>6, ZoneStep
  <2>10. CASE c.step = 7
    <3>1. SetsCall(p, NetworkDone(p, v, z))
      BY <2>2, <2>10, NetworkStepsFacts DEF SetsCall
    <3>2. PICK d : d = NetworkDone(p, v, z)
      OBVIOUS
    <3>3. launch'[p] = d /\ \A q \in Calls : q # p => launch'[q] = launch[q]
      BY <3>1, <3>2 DEF SetsCall, TypeOK
    <3>4. CASE c.then = "group"
      <4>1. d = [c EXCEPT !.pc = "group", !.vpc = v]
        BY <3>2, <3>4 DEF NetworkDone
      <4>2. d.pc = "group" /\ d.vpc = v /\ d.res = "none" /\ d.group = c.group
        BY <1>1, <1>2, <4>1 DEF Launch
      <4>3. v = <<p, 1>>
        BY <1>3, <2>7, <3>4
      <4>4. Quiet => ReachOK(p)'
        <5> HIDE DEF HomeEmpty, Home
        <5> QED BY <2>8, <3>3, <3>4, <4>2, <4>3 DEF ReachOK, Early
      <4> QED BY <1>1, <2>2, <2>6, <3>3, <4>4, ZoneStep
    <3>5. CASE c.then = "run"
      <4>1. d = [c EXCEPT !.pc = "run", !.subs = << <<v, z>> >>]
        BY <3>2, <3>5 DEF NetworkDone
      <4>2. d.pc = "run" /\ d.k = 1 /\ d.res = "none" /\ d.subs = << <<v, z>> >>
        BY <1>1, <1>2, <4>1 DEF Launch
      <4>3. Quiet => ReachOK(p)'
        BY <1>1, <2>5, <2>6, <2>8, <3>3, <3>5, <4>2, MadeZones
      <4> QED BY <1>1, <2>2, <2>6, <3>3, <4>3, ZoneStep
    <3> QED BY <2>7, <3>4, <3>5
  <2> QED BY <1>2, <2>9, <2>10
<1> QED BY <1>5, <1>6

(* The attempts: while nothing fails, a zone that was tried has no capacity. *)
LEMMA RunOnSubnetZones ==
    ASSUME TypeOK, VpcInv, ZoneInv, NEW p \in Calls, RunOnSubnet(p)
    PROVE  ZoneInv'
<1> DEFINE c == launch[p]
<1>1. c \in Launch /\ c.pc = "run" /\ UNCHANGED <<acct, net>> /\ CallOK(p)
  BY CallType DEF RunOnSubnet, VpcInv
<1>2. c.k \in Nat \ {0} /\ Len(c.subs) \in Nat /\ c.k <= Len(c.subs) /\ c.res = "none"
      /\ c.subs \in Seq(Subnet)
  BY <1>1 DEF CallOK, BatchOK, TriesOK, Launch
<1> SUFFICES ASSUME Quiet'
             PROVE  (NetZones /\ \A q \in Calls : ReachOK(q))'
  BY DEF ZoneInv
<1>3. acct.zone = None /\ faults' = 0 /\ faults \in Nat
  BY <1>1, VpcProvidersAssumption DEF Quiet, TypeOK
<1>4. ~(faults < MaxFaults /\ faults' = faults + 1)
  BY <1>3
<1>5. PICK s : s = c.subs[c.k]
  OBVIOUS
<1>6. s \in Subnet /\ s # None
  <2>1. s \in Subnet
    BY <1>2, <1>5
  <2> QED BY <2>1, NamesAreApart
<1>7. Request(p, s).zone = s[2]
  BY <1>3, <1>6 DEF Request, AwsRequest, AliyunRequest
<1>8. \/ /\ UNCHANGED faults
         /\ launch' = [launch EXCEPT ![p].pc = "done", ![p].res = "ok", ![p].ids = NewNodes(p)]
      \/ /\ UNCHANGED faults /\ s[2] \notin acct.stock
         /\ launch' = [launch EXCEPT ![p] = AfterError(c, "capacity")]
  <2>1. PICK r : r = Request(p, s).zone
    OBVIOUS
  <2>2. r = s[2]
    BY <1>7, <2>1
  <2> QED BY <1>4, <1>5, <2>1, <2>2 DEF RunOnSubnet
<1>9. Quiet /\ UNCHANGED faults
  BY <1>3, <1>8 DEF Quiet
<1>10. NetZones /\ ReachOK(p)
  BY <1>9 DEF ZoneInv
<1>11. /\ \A v \in VpcsOf(p) : Covered(p, v)
       /\ \A j \in 1..(c.k - 1) : c.subs[j][2] \notin acct.stock
  BY <1>1, <1>10 DEF ReachOK
<1>12. ASSUME NEW d, SetsCall(p, d), ReachOK(p)'
       PROVE  (NetZones /\ \A q \in Calls : ReachOK(q))'
  <2>1. ZoneInv'
    BY <1>1, <1>9, <1>12, QuietStep
  <2> QED BY <2>1 DEF ZoneInv
<1>13. CASE launch' = [launch EXCEPT ![p].pc = "done", ![p].res = "ok", ![p].ids = NewNodes(p)]
  <2>1. PICK S : S = NewNodes(p)
    OBVIOUS
  <2>2. PICK d : d = [c EXCEPT !.pc = "done", !.res = "ok", !.ids = S]
    OBVIOUS
  <2>3. SetsCall(p, d)
    BY <1>13, <2>1, <2>2 DEF SetsCall
  <2>4. launch'[p] = d
    BY <2>3 DEF SetsCall, TypeOK
  <2>5. d.pc = "done" /\ d.res = "ok"
    BY <1>1, <2>2 DEF Launch
  <2>6. ReachOK(p)'
    BY <2>4, <2>5 DEF ReachOK, Early
  <2> QED BY <1>12, <2>3, <2>6
<1>14. ASSUME NEW d, SetsCall(p, d), d.subs = c.subs
       PROVE  launch'[p] = d /\ (\A v \in VpcsOf(p) : Covered(p, v))'
  <2>1. launch'[p] = d
    BY <1>14 DEF SetsCall, TypeOK
  <2>2. Tried(p)' = Tried(p)
    BY <1>14, <2>1 DEF Tried
  <2>3. VpcsOf(p)' = VpcsOf(p) /\ \A v : Covered(p, v) => Covered(p, v)'
    BY <1>1, <2>2 DEF VpcsOf, Home, Covered, ZonesOf
  <2> HIDE DEF VpcsOf, Covered
  <2> QED BY <1>11, <2>1, <2>3
<1>15. CASE s[2] \notin acct.stock /\ launch' = [launch EXCEPT ![p] = AfterError(c, "capacity")]
  <2>1. Retryable("capacity")
    BY DEF Retryable
  <2>2. CASE c.k < Len(c.subs)
    <3>1. PICK k : k = c.k + 1
      OBVIOUS
    <3>2. PICK d : d = [c EXCEPT !.k = k]
      OBVIOUS
    <3>3. SetsCall(p, d)
      BY <1>15, <2>1, <2>2, <3>1, <3>2 DEF AfterError, SetsCall
    <3>4. d.pc = "run" /\ d.k = k /\ d.res = "none" /\ d.subs = c.subs
      BY <1>1, <1>2, <3>2 DEF Launch
    <3>5. \A j \in 1..(k - 1) : c.subs[j][2] \notin acct.stock
      <4>1. \A j \in 1..(k - 1) : j \in 1..(c.k - 1) \/ j = c.k
        BY <1>2, <3>1
      <4> QED BY <1>5, <1>11, <1>15, <4>1
    <3>6. ReachOK(p)'
      <4> HIDE DEF Covered, VpcsOf
      <4> QED BY <1>1, <1>14, <3>3, <3>4, <3>5 DEF ReachOK, Early
    <3> QED BY <1>12, <3>3, <3>6
  <2>3. CASE ~(c.k < Len(c.subs))
    <3>1. PICK d : d = [c EXCEPT !.pc = "done", !.res = "error"]
      OBVIOUS
    <3>2. SetsCall(p, d)
      BY <1>15, <2>3, <3>1 DEF AfterError, SetsCall
    <3>3. d.pc = "done" /\ d.res = "error" /\ d.subs = c.subs
      BY <1>1, <3>1 DEF Launch
    <3>4. \A j \in 1..Len(c.subs) : c.subs[j][2] \notin acct.stock
      <4>1. \A j \in 1..Len(c.subs) : j \in 1..(c.k - 1) \/ j = c.k
        BY <1>2, <2>3
      <4> QED BY <1>5, <1>11, <1>15, <4>1
    <3>5. ReachOK(p)'
      <4> HIDE DEF Covered, VpcsOf
      <4> QED BY <1>1, <1>14, <3>2, <3>3, <3>4 DEF ReachOK, Early
    <3> QED BY <1>12, <3>2, <3>5
  <2> QED BY <2>2, <2>3
<1> QED BY <1>8, <1>13, <1>15

LEMMA ZoneInit ==
    ASSUME Init
    PROVE  ZoneInv
<1>1. PICK D : D = (IF acct.default THEN {Default} ELSE {}) \cup
                  (IF acct.vpc = "none" THEN {} ELSE {User})
  OBVIOUS
<1>2. PICK used : net = [v \in D |-> Made(IF v = User /\ acct.vpc = "empty" THEN {} ELSE Zones, used)]
  BY <1>1 DEF Init
<1>3. \A Z : Made(Z, used).subs = Z
  BY DEF Made
<1>4. DOMAIN net = D /\ \A v \in D : net[v].subs \in {{}, Zones}
  BY <1>2, <1>3
<1>5. Default # User
  BY DEF Default, User
<1>6. NetZones
  BY <1>1, <1>4, <1>5 DEF NetZones
<1>7. ASSUME NEW p \in Calls
      PROVE  ReachOK(p)
  <2>1. launch[p].pc = "idle" /\ launch[p].res = "none" /\ launch[p].group = None
    BY DEF Init, NoLaunch
  <2> QED BY <2>1 DEF ReachOK, Early
<1> QED BY <1>6, <1>7 DEF ZoneInv

LEMMA ZonesNext ==
    ASSUME TypeOK, VpcInv, ZoneInv, Next
    PROVE  ZoneInv'
<1>1. ASSUME NEW p \in Calls, NEW n \in Names, Begin(p, n)
      PROVE  ZoneInv'
  BY <1>1, EarlyZones
<1>2. ASSUME NEW p \in Calls, Step(p)
      PROVE  ZoneInv'
  <2>1. CASE ListExisting(p)             BY <2>1, ListExistingZones
  <2>2. CASE StartInstances(p) \/ Resumed(p)
    BY <2>2, EarlyZones
  <2>4. CASE AwsVpcFor(p)                BY <2>4, AwsVpcForZones
  <2>5. CASE AwsCreateVpcNetwork(p)      BY <2>5, AwsCreateVpcNetworkZones
  <2>6. CASE AwsSecurityGroupFor(p)      BY <2>6, AwsSecurityGroupForZones
  <2>7. CASE AwsSubnetsFor(p)            BY <2>7, AwsSubnetsForZones
  <2>8. CASE AliyunVpc(p)                BY <2>8, AliyunVpcZones
  <2>9. CASE AliyunGroup(p) \/ AuthorizeSecurityGroup(p)
    BY <2>9, AliyunGroupZones
  <2>11. CASE AliyunVSwitchesFor(p)      BY <2>11, AliyunVSwitchesForZones
  <2>12. CASE AliyunCreateNetwork(p)     BY <2>12, AliyunCreateNetworkZones
  <2>13. CASE RunOnSubnet(p)             BY <2>13, RunOnSubnetZones
  <2> QED BY <1>2, <2>1, <2>2, <2>4, <2>5, <2>6, <2>7, <2>8, <2>9, <2>11, <2>12, <2>13 DEF Step
<1> QED BY <1>1, <1>2 DEF Next

LEMMA ZonesStutter ==
    ASSUME ZoneInv, UNCHANGED vars
    PROVE  ZoneInv'
<1>1. acct' = acct /\ net' = net /\ launch' = launch /\ faults' = faults
  BY DEF vars
<1>2. Quiet' = Quiet /\ NetZones' = NetZones
  BY <1>1 DEF Quiet, NetZones, Middle, PickZone
<1>3. ASSUME NEW p \in Calls, ReachOK(p)
      PROVE  ReachOK(p)'
  BY <1>1, <1>3 DEF ReachOK, Home, HomeEmpty, VpcsOf, Covered, ZonesOf, Tried, Early
<1> QED BY <1>2, <1>3 DEF ZoneInv

(* TriesEveryZone: a launch that asks for no zone, and meets no fault, gives up only
   when no zone of its VPC has capacity: what subnetsFor and vswitchesFor find is all
   there is, or was made for it, and RunInstances goes on after every zone that lacks
   capacity. *)
THEOREM EveryZoneIsTried == Spec => []TriesEveryZone
<1>1. Init => ZoneInv
  BY ZoneInit
<1>2. TypeOK /\ VpcInv /\ ZoneInv /\ [Next]_vars => ZoneInv'
  BY ZonesNext, ZonesStutter
<1>3. TypeOK /\ ZoneInv => TriesEveryZone
  <2> SUFFICES ASSUME TypeOK, ZoneInv, acct.zone = None, NEW p \in Calls, GaveUp(p)
               PROVE  FALSE
    BY DEF TriesEveryZone
  <2>1. Quiet /\ launch[p].res = "error" /\ launch[p].group # None
    BY DEF GaveUp, Quiet
  <2>2. PICK v \in VpcsOf(p) : ZonesOf(v) \cap acct.stock # {}
    BY DEF GaveUp
  <2>3. ReachOK(p)
    BY <2>1 DEF ZoneInv
  <2>4. Covered(p, v) /\ \A j \in 1..Len(launch[p].subs) : launch[p].subs[j][2] \notin acct.stock
    BY <2>1, <2>3 DEF ReachOK
  <2>5. \A z \in Tried(p) : z \notin acct.stock
    BY <2>4 DEF Tried
  <2>6. ZonesOf(v) \subseteq net[v].subs
    BY DEF ZonesOf
  <2> QED BY <2>2, <2>4, <2>5, <2>6 DEF Covered
<1> QED BY <1>1, <1>2, <1>3, VpcProvidersInv, PTL DEF Spec

(* NetworkIsSound: the network of the nodes of a launch is one, finished, and
   that of their security group (createVpcNetwork, vswitchesFor). *)
THEOREM LaunchesAreConnected == Spec => []NetworkIsSound
<1>1. TypeOK /\ VpcInv => NetworkIsSound
  <2> SUFFICES ASSUME TypeOK, VpcInv
               PROVE  NetworkIsSound
    OBVIOUS
  <2>1. NetworkIsFinished
    BY DEF VpcInv, InstOK, NodeOK, NetworkIsFinished, Finished
  <2>2. GroupMatchesVSwitch
    BY DEF VpcInv, InstOK, NodeOK, GroupMatchesVSwitch, OwnGroup
  <2>3. ASSUME ~acct.slow, NEW p \in Calls
        PROVE  Cardinality({v \in DOMAIN net : v[1] = p}) <= 1
    <3> DEFINE S == {v \in DOMAIN net : v[1] = p}
               one == <<p, 1>>
    <3>1. launch[p].nets \in 0..1 /\ \A v \in DOMAIN net : v[1] = p => v[2] \in 1..launch[p].nets
      BY <2>3, CallType DEF VpcInv, CallOK, NetworksOK, OwnVpcs, Launch
    <3>2. \A v \in S : v = one
      <4>1. \A v \in DOMAIN net : v \in {Default, User} \/ v \in Calls \X {1, 2}
        BY DEF TypeOK, Vpc
      <4>2. \A v \in DOMAIN net : v[1] = p => v \in Calls \X {1, 2}
        BY <4>1, NamesAreApart DEF Default, User
      <4>3. \A v \in DOMAIN net : v[1] = p => v[2] = 1
        BY <3>1
      <4> QED BY <4>2, <4>3
    <3> HIDE DEF S, one
    <3>3. S \subseteq {one}
      BY <3>2
    <3>4. IsFiniteSet({one}) /\ Cardinality({one}) = 1
      BY FS_Singleton
    <3>5. Cardinality(S) <= 1
      BY <3>3, <3>4, FS_Subset
    <3> QED BY <3>5 DEF S
  <2>4. OneNetwork
    BY <2>3 DEF OneNetwork
  <2> QED BY <2>1, <2>2, <2>4 DEF NetworkIsSound
<1> QED BY <1>1, VpcProvidersInv, PTL

(* ReturnsOwnNodes: a launch that succeeds returns NumNodes running nodes of
   its own cluster, reused, resumed or created (RunInstances). *)
THEOREM LaunchesAnswerTheirOwn == Spec => []ReturnsOwnNodes
<1>1. TypeOK /\ VpcInv => ReturnsOwnNodes
  BY DEF VpcInv, CallOK, NodesOK, ReturnsOwnNodes
<1> QED BY <1>1, VpcProvidersInv, PTL
=============================================================================
