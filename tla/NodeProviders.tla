--------------------------- MODULE NodeProviders ---------------------------
(***************************************************************************)
(* The providers that create the nodes of a cluster one call at a time:    *)
(* internal/cloud/kubernetes (pods), internal/cloud/gcp and                *)
(* internal/cloud/azure (virtual machines).  Unlike aws and aliyun they    *)
(* neither look for instances of the cluster first nor get all nodes from  *)
(* one atomic call, so a launch can stop half way.                         *)
(*                                                                         *)
(* A step is one call of the cloud's API.  Names are put together as in the *)
(* code: a name is a sequence of pieces, and a node's is that of its cluster *)
(* and, in a cluster of several nodes, one piece more for the role.  The   *)
(* head of `train' is thus called like the one node of `train-head'.  A    *)
(* node is known by the place it is in, its namespace (kubernetes), zone   *)
(* (gcp) or resource group (azure), and its name there.                    *)
(***************************************************************************)
EXTENDS Naturals, Sequences, FiniteSets, Functions

CONSTANTS
    Names,      \* cluster names (LaunchSpec.NamePrefix), sequences of pieces
    Calls,      \* calls of the Provider interface, each run once
    None,       \* no record
    Kinds,      \* the providers: a subset of {"kubernetes", "gcp", "azure"}
    Sizes,      \* values of LaunchSpec.NumNodes
    Aways,      \* may the launch name its own namespace or zone?
    Retries,    \* EffectivePodWaitRetries
    MaxFaults   \* bound: failed API calls and failed pods

ASSUME NodeProvidersAssumption ==
    /\ Names \subseteq Seq(STRING \X Nat)
    /\ None \notin Calls
    /\ Kinds \subseteq {"kubernetes", "gcp", "azure"}
    /\ Sizes \subseteq Nat \ {0}
    /\ Aways \subseteq BOOLEAN
    /\ Retries \in Nat \ {0}
    /\ MaxFaults \in Nat

VARIABLES
    cfg,    \* the provider, the configured place, long names?
    vm,     \* the nodes that exist, by place and name
    rec,    \* the launch whose instances the caller has on record, per name
    call,   \* the calls
    faults  \* faults so far

vars == <<cfg, vm, rec, call, faults>>

Op == {"launch", "stop", "start", "terminate"}

(* The name all names share once truncated: two names longer than
   maxClusterNameLen may have the same first 42 characters. *)
Truncated == CHOOSE n \in Names : TRUE

(* truncateName(spec.NamePrefix, maxClusterNameLen). *)
truncateName(n) == IF cfg.long THEN Truncated ELSE n

HasPrefix(name, prefix) ==
    /\ Len(prefix) <= Len(name)
    /\ \A k \in 1..Len(prefix) : name[k] = prefix[k]

(* What the role of node i of num adds to the name; workers are told apart by w. *)
Suffix(num, i, w) ==
    IF num = 1 THEN <<>>
    ELSE IF i = 0 THEN << <<"-head", 0>> >> ELSE << <<"-worker", w>> >>

(* Mutant: pods are named after a prefix that clusters share. *)
PodNameShared(n, num, i) == Truncated \o Suffix(num, i, i)

(* kubernetes RunInstances: the name of the pod of node i. *)
PodName(n, num, i) == truncateName(n) \o Suffix(num, i, i)

(* gcp and azure RunInstances: every worker has the same name. *)
VmName(n, num, i) == n \o Suffix(num, i, 0)

NodeName(n, num, i) ==
    IF cfg.kind = "kubernetes" THEN PodName(n, num, i) ELSE VmName(n, num, i)

(* Where the nodes of a cluster are put: the configured namespace, LaunchSpec.Zone,
   the resource group <prefix>-rg. *)
LaunchPlace(n) ==
    IF cfg.kind = "azure" THEN n ELSE IF cfg.away THEN "away" ELSE "home"

(* Where every other operation looks for a name: in namespace "default", in zone
   <region>-a, in the resource group <id>-rg. *)
Found(name) == <<IF cfg.kind = "azure" THEN name ELSE "home", name>>

Sees(name) == Found(name) \in DOMAIN vm

(* podToInstance: a pod that ended shows as terminated.  A pod that is being
   deleted is still in phase Running. *)
podToInstance(s) ==
    CASE s = "pending" -> "pending"
      [] s \in {"running", "deleting"} -> "running"
      [] s = "failed" -> "terminated"

(* What Compute Engine reports: a machine that was stopped is TERMINATED. *)
GcpReports(s) ==
    CASE s = "pending" -> "staging" [] s = "running" -> "running" [] s = "stopped" -> "terminated"

gcpStatusToCloud(s) ==
    CASE s = "running" -> "running"
      [] s \in {"stopped", "suspended"} -> "stopped"
      [] s = "stopping" -> "stopping"
      [] s \in {"provisioning", "staging", "repairing"} -> "pending"
      [] s \in {"terminated", "terminating"} -> "terminated"
      [] OTHER -> "unknown"

(* What Azure reports: the provisioning state, which powerOff does not change. *)
AzureReports(s) ==
    CASE s = "pending" -> "creating" [] s \in {"running", "stopped"} -> "succeeded"

azureStatusToCloud(s) ==
    CASE s \in {"succeeded", "running"} -> "running"
      [] s = "stopped" -> "stopped"
      [] s \in {"deallocating", "stopping"} -> "stopping"
      [] s \in {"creating", "updating", "provisioning"} -> "pending"
      [] s = "failed" -> "terminated"
      [] OTHER -> "unknown"

(* DescribeInstances: an id that is not found is left out, without an error. *)
PodDescribe(ids) ==
    {<<id, podToInstance(vm[id].state)>> : id \in {Found(j) : j \in ids} \cap DOMAIN vm}

GcpDescribe(ids) ==
    {<<id, gcpStatusToCloud(GcpReports(vm[id].state))>> :
        id \in {Found(j) : j \in ids} \cap DOMAIN vm}

(* The resource groups "default", where no launch puts anything, and <id>-rg are
   tried. *)
AzureDescribe(ids) ==
    {<<id, azureStatusToCloud(AzureReports(vm[id].state))>> :
        id \in {Found(j) : j \in ids} \cap DOMAIN vm}

DescribeInstances(ids) ==
    CASE cfg.kind = "kubernetes" -> PodDescribe(ids)
      [] cfg.kind = "gcp" -> GcpDescribe(ids)
      [] cfg.kind = "azure" -> AzureDescribe(ids)

(* ListInstances: kubernetes selects by the cluster label, which holds the full
   name; gcp by the prefix of the machine's name, in one zone; azure by the
   prefix, in all resource groups. *)
PodList(n) == {id \in DOMAIN vm : id = Found(id[2]) /\ call[vm[id].by].name = n}

GcpList(n) == {id \in DOMAIN vm : id = Found(id[2]) /\ HasPrefix(id[2], n)}

AzureList(n) == {id \in DOMAIN vm : HasPrefix(id[2], n)}

ListInstances(n) ==
    CASE cfg.kind = "kubernetes" -> PodList(n)
      [] cfg.kind = "gcp" -> GcpList(n)
      [] cfg.kind = "azure" -> AzureList(n)

-----------------------------------------------------------------------------
NoCall == [op |-> "none", name |-> None, num |-> 0, pc |-> "idle", i |-> 0, try |-> 0,
           head |-> FALSE, ids |-> <<>>, of |-> None, res |-> "none"]

TypeOK ==
    /\ cfg \in [kind : Kinds, away : Aways, long : BOOLEAN]
    /\ \A id \in DOMAIN vm :
          vm[id] \in [state : {"pending", "running", "stopped", "failed", "deleting"},
                      by : Calls, head : BOOLEAN]
    /\ rec \in [Names -> Calls \cup {None}]
    /\ \A p \in Calls :
          /\ call[p].op \in Op \cup {"none"}
          /\ call[p].pc \in {"idle", "stale", "create", "wait", "ip", "cleanup",
                             "each", "done"}
          /\ call[p].num \in Sizes \cup {0}
          /\ call[p].i \in 0..call[p].num
          /\ call[p].try \in 0..Retries
          /\ call[p].res \in {"none", "ok", "error", "timeout"}
    /\ faults \in 0..MaxFaults

(* Only kubernetes truncates names; azure has no place to configure. *)
Init ==
    /\ cfg \in [kind : Kinds, away : Aways, long : BOOLEAN]
    /\ cfg.long => cfg.kind = "kubernetes"
    /\ cfg.away => cfg.kind # "azure"
    /\ vm = <<>>
    /\ rec = [n \in Names |-> None]
    /\ call = [p \in Calls |-> NoCall]
    /\ faults = 0

Fault ==
    /\ faults < MaxFaults
    /\ faults' = faults + 1

Put(id, v) == [j \in DOMAIN vm \cup {id} |-> IF j = id THEN v ELSE vm[j]]

Drop(id) == Restrict(vm, DOMAIN vm \ {id})

Return(p, r) == [call EXCEPT ![p].pc = "done", ![p].res = r]

(* The caller: a launch of num nodes. *)
BeginLaunch(p, n, num) ==
    /\ call[p].pc = "idle"
    /\ call' = [call EXCEPT ![p] =
          [NoCall EXCEPT !.op = "launch", !.name = n, !.num = num,
                         !.pc = IF cfg.kind = "kubernetes" THEN "stale" ELSE "create"]]
    /\ UNCHANGED <<cfg, vm, rec, faults>>

(* The caller: an operation on the instances it has on record.  Stop and start
   are refused at once on kubernetes. *)
Begin(p, o, n) ==
    /\ call[p].pc = "idle"
    /\ o # "launch" /\ rec[n] # None
    /\ LET c == [NoCall EXCEPT !.op = o, !.name = n]
       IN  call' = [call EXCEPT ![p] =
             IF cfg.kind = "kubernetes" /\ o \in {"stop", "start"}
             THEN [c EXCEPT !.pc = "done", !.res = "error"]
             ELSE [c EXCEPT !.pc = "each", !.of = rec[n], !.ids = call[rec[n]].ids]]
    /\ UNCHANGED <<cfg, vm, rec, faults>>

(* Node i is there, and in the list: the next one, or the launch is done and its
   instances go on record. *)
Advance(p, name) ==
    LET ids == IF cfg.kind = "kubernetes" THEN call[p].ids ELSE Append(call[p].ids, name)
        next == IF cfg.kind = "kubernetes" THEN "stale" ELSE "create"
    IN  IF call[p].i + 1 < call[p].num
        THEN /\ call' = [call EXCEPT ![p].i = @ + 1, ![p].try = 0, ![p].pc = next,
                                     ![p].ids = ids]
             /\ UNCHANGED rec
        ELSE /\ call' = [call EXCEPT ![p].pc = "done", ![p].res = "ok", ![p].ids = ids]
             /\ rec' = [rec EXCEPT ![call[p].name] = p]

(* The name and the place of node i. *)
Name(p) == NodeName(call[p].name, call[p].num, call[p].i)

Id(p) == <<LaunchPlace(call[p].name), Name(p)>>

(* kubernetes RunInstances: whatever pod has that name is deleted, with the
   default grace period and without a look at the error. *)
DeleteStale(p) ==
    LET id == Id(p)
    IN  /\ call[p].pc = "stale"
        /\ \/ /\ vm' = IF id \in DOMAIN vm THEN [vm EXCEPT ![id].state = "deleting"]
                                           ELSE vm
              /\ UNCHANGED faults
           \/ Fault /\ UNCHANGED vm
        /\ call' = [call EXCEPT ![p].pc = "create"]
        /\ UNCHANGED <<cfg, rec>>

(* podStartupCommand: the head starts Ray; a worker retries to join the address
   in its environment for ever. *)
podStartupCommand(p) == IF call[p].i = 0 THEN "start" ELSE "join"

(* buildPod: the pod of node i; a worker's has the address of the head, if it is
   known, in its environment. *)
buildPod(p) ==
    [state |-> "pending", by |-> p,
     head |-> podStartupCommand(p) = "join" => call[p].head]

(* The call that creates node i.  A name that is taken is refused; an error
   returns at once and leaves the nodes made so far. *)
CreateFails(p) ==
    /\ \/ Id(p) \in DOMAIN vm /\ UNCHANGED faults
       \/ Fault
    /\ call' = Return(p, "error")
    /\ UNCHANGED <<vm, rec>>

(* kubernetes RunInstances: the pod is created, and waited for. *)
CreatePod(p) ==
    /\ call[p].pc = "create" /\ cfg.kind = "kubernetes"
    /\ \/ CreateFails(p)
       \/ /\ Id(p) \notin DOMAIN vm
          /\ vm' = Put(Id(p), buildPod(p))
          /\ call' = [call EXCEPT ![p].ids = Append(@, Name(p)), ![p].pc = "wait"]
          /\ UNCHANGED <<rec, faults>>
    /\ UNCHANGED cfg

NewVm(p) == [state |-> "pending", by |-> p, head |-> TRUE]

(* gcp RunInstances: the machine is returned as pending, without a wait. *)
GcpCreate(p) ==
    /\ call[p].pc = "create" /\ cfg.kind = "gcp"
    /\ \/ CreateFails(p)
       \/ /\ Id(p) \notin DOMAIN vm
          /\ vm' = Put(Id(p), NewVm(p))
          /\ Advance(p, Name(p))
          /\ UNCHANGED faults
    /\ UNCHANGED cfg

(* azure RunInstances: the same, in the resource group of the launch. *)
AzureCreate(p) ==
    /\ call[p].pc = "create" /\ cfg.kind = "azure"
    /\ \/ CreateFails(p)
       \/ /\ Id(p) \notin DOMAIN vm
          /\ vm' = Put(Id(p), NewVm(p))
          /\ Advance(p, Name(p))
          /\ UNCHANGED faults
    /\ UNCHANGED cfg

PodRuns(p) == Id(p) \in DOMAIN vm /\ vm[Id(p)].state \in {"running", "deleting"}

(* waitPodReady: the pod runs; the head's address is asked for next. *)
PodReady(p) ==
    /\ call[p].pc = "wait"
    /\ PodRuns(p)
    /\ IF call[p].i = 0 /\ call[p].num > 1
       THEN call' = [call EXCEPT ![p].pc = "ip"] /\ UNCHANGED rec
       ELSE Advance(p, Name(p))
    /\ UNCHANGED <<cfg, vm, faults>>

(* Mutant: the attempts are not counted. *)
PodWaitForever(p) ==
    /\ call[p].pc = "wait"
    /\ ~PodRuns(p)
    /\ UNCHANGED vars

(* waitPodReady: an attempt of waitPodRunning times out; after the last one
   the launch cleans up. *)
PodWaitTimeout(p) ==
    /\ call[p].pc = "wait"
    /\ ~PodRuns(p)
    /\ call' = [call EXCEPT
          ![p].try = @ + 1,
          ![p].pc = IF call[p].try + 1 = Retries THEN "cleanup" ELSE "wait"]
    /\ UNCHANGED <<cfg, vm, rec, faults>>

(* waitPodIP: the pod of that name has an address, whatever its phase, or shows
   none within the timeout; one that runs has one. *)
PodIP(p) ==
    /\ call[p].pc = "ip"
    /\ \/ /\ Id(p) \in DOMAIN vm
          /\ call' = [call EXCEPT ![p].head = TRUE, ![p].i = @ + 1, ![p].try = 0,
                                  ![p].pc = "stale"]
       \/ /\ ~PodRuns(p)
          /\ call' = [call EXCEPT ![p].pc = "cleanup"]
    /\ UNCHANGED <<cfg, vm, rec, faults>>

(* Deletes the pod that the first id of the list names, where the launch puts its
   pods. *)
DropPod(p) == Drop(<<LaunchPlace(call[p].name), Head(call[p].ids)>>)

(* Mutant: the pod that did not get ready is not in the list. *)
CleanupSkipsLast(p) ==
    /\ call[p].pc = "cleanup"
    /\ \/ /\ Len(call[p].ids) <= 1
          /\ call' = Return(p, "timeout")
          /\ UNCHANGED <<vm, faults>>
       \/ /\ Len(call[p].ids) > 1
          /\ vm' = DropPod(p)
          /\ call' = [call EXCEPT ![p].ids = Tail(@)]
          /\ UNCHANGED faults
    /\ UNCHANGED <<cfg, rec>>

(* cleanupPods: the pods created so far are deleted, without a grace period;
   a delete that fails is skipped. *)
Cleanup(p) ==
    /\ call[p].pc = "cleanup"
    /\ \/ /\ call[p].ids = <<>>
          /\ call' = Return(p, "timeout")
          /\ UNCHANGED <<vm, faults>>
       \/ /\ call[p].ids # <<>>
          /\ \/ vm' = DropPod(p) /\ UNCHANGED faults
             \/ Fault /\ UNCHANGED vm
          /\ call' = [call EXCEPT ![p].ids = Tail(@)]
    /\ UNCHANGED <<cfg, rec>>

(* Mutant: an instance that cannot be deleted is skipped. *)
EachIgnoresErrors(p, o, changed) ==
    /\ call[p].pc = "each" /\ call[p].op = o /\ call[p].ids # <<>>
    /\ \/ Sees(Head(call[p].ids)) /\ vm' = changed /\ UNCHANGED faults
       \/ ~Sees(Head(call[p].ids)) /\ UNCHANGED <<vm, faults>>
       \/ Fault /\ UNCHANGED vm
    /\ call' = [call EXCEPT ![p].ids = Tail(@)]
    /\ UNCHANGED <<cfg, rec>>

(* One call per id; the first error ends the operation.  Only for a pod is "not
   found" no error. *)
Each(p, o, changed) ==
    LET next == [call EXCEPT ![p].ids = Tail(@)]
    IN  /\ call[p].pc = "each" /\ call[p].op = o /\ call[p].ids # <<>>
        /\ \/ /\ Sees(Head(call[p].ids))
              /\ vm' = changed
              /\ call' = next
              /\ UNCHANGED faults
           \/ /\ ~Sees(Head(call[p].ids))
              /\ call' = IF cfg.kind = "kubernetes" THEN next ELSE Return(p, "error")
              /\ UNCHANGED <<vm, faults>>
           \/ /\ Fault
              /\ call' = Return(p, "error")
              /\ UNCHANGED vm
        /\ UNCHANGED <<cfg, rec>>

Become(p, s) == [vm EXCEPT ![Found(Head(call[p].ids))].state = s]

GoAway(p) == Drop(Found(Head(call[p].ids)))

(* TerminateInstances, StopInstances, StartInstances of each provider. *)
PodTerminate(p) == cfg.kind = "kubernetes" /\ Each(p, "terminate", GoAway(p))

GcpStop(p) == cfg.kind = "gcp" /\ Each(p, "stop", Become(p, "stopped"))

GcpStart(p) == cfg.kind = "gcp" /\ Each(p, "start", Become(p, "pending"))

GcpTerminate(p) == cfg.kind = "gcp" /\ Each(p, "terminate", GoAway(p))

AzureStop(p) == cfg.kind = "azure" /\ Each(p, "stop", Become(p, "stopped"))

AzureStart(p) == cfg.kind = "azure" /\ Each(p, "start", Become(p, "pending"))

AzureTerminate(p) == cfg.kind = "azure" /\ Each(p, "terminate", GoAway(p))

(* All ids are done; after a terminate the caller forgets the record. *)
EachDone(p) ==
    /\ call[p].pc = "each"
    /\ call[p].ids = <<>>
    /\ call' = Return(p, "ok")
    /\ rec' = IF call[p].op = "terminate" /\ rec[call[p].name] = call[p].of
              THEN [rec EXCEPT ![call[p].name] = None] ELSE rec
    /\ UNCHANGED <<cfg, vm, faults>>

-----------------------------------------------------------------------------
(* The cloud: a node comes up, a graceful deletion ends, a pod fails. *)
Boot(id) ==
    /\ vm[id].state = "pending"
    /\ vm' = [vm EXCEPT ![id].state = "running"]
    /\ UNCHANGED <<cfg, rec, call, faults>>

Gone(id) ==
    /\ vm[id].state = "deleting"
    /\ vm' = Drop(id)
    /\ UNCHANGED <<cfg, rec, call, faults>>

PodFails(id) ==
    /\ cfg.kind = "kubernetes"
    /\ vm[id].state \in {"pending", "running"}
    /\ Fault
    /\ vm' = [vm EXCEPT ![id].state = "failed"]
    /\ UNCHANGED <<cfg, rec, call>>

Step(p) ==
    \/ DeleteStale(p)
    \/ CreatePod(p)
    \/ GcpCreate(p)
    \/ AzureCreate(p)
    \/ PodReady(p)
    \/ PodWaitTimeout(p)
    \/ PodIP(p)
    \/ Cleanup(p)
    \/ PodTerminate(p)
    \/ GcpStop(p)
    \/ GcpStart(p)
    \/ GcpTerminate(p)
    \/ AzureStop(p)
    \/ AzureStart(p)
    \/ AzureTerminate(p)
    \/ EachDone(p)

Next ==
    \/ \E p \in Calls, n \in Names, num \in Sizes : BeginLaunch(p, n, num)
    \/ \E p \in Calls, o \in Op, n \in Names : Begin(p, o, n)
    \/ \E p \in Calls : Step(p)
    \/ \E id \in DOMAIN vm : Boot(id)
    \/ \E id \in DOMAIN vm : Gone(id)
    \/ \E id \in DOMAIN vm : PodFails(id)

Spec == Init /\ [][Next]_vars

(* Calls of the API return, and the goroutine that made them goes on. *)
FairSpec == Spec /\ \A p \in Calls : WF_vars(Step(p))

-----------------------------------------------------------------------------
(* Correctness *)

(* The label gpi.dev/cluster-name, or the prefix a node was created for. *)
Cluster(id) == call[vm[id].by].name

(* A kubernetes launch that gave up on a pod leaves none of the pods it made,
   the ones of other nodes included, when its deletes go through. *)
CleanupIsComplete ==
    faults = 0 => \A p \in Calls : call[p].res = "timeout" =>
        \A id \in DOMAIN vm : vm[id].by # p

NoTerminate == \A p \in Calls : call[p].op # "terminate"

(* A launch that returns its instances made each of NumNodes different nodes
   itself, and each worker was told where the head is; on gcp and azure, where a
   second worker gets the name of the first, as long as nothing was terminated
   under it. *)
LaunchReturnsAllNodes ==
    \A p \in Calls : (call[p].op = "launch" /\ call[p].res = "ok") =>
        /\ (cfg.kind = "kubernetes" \/ NoTerminate) =>
             Cardinality({call[p].ids[i] : i \in DOMAIN call[p].ids}) = call[p].num
        /\ \A id \in DOMAIN vm :
             (vm[id].by = p /\ cfg.kind = "kubernetes") => vm[id].head

(* One of two different names is the other and one piece more: it may be the name
   of a node of the other's cluster. *)
NamesMeet(n, m) ==
    \/ HasPrefix(n, m) /\ Len(n) = Len(m) + 1
    \/ HasPrefix(m, n) /\ Len(m) = Len(n) + 1

(* No step of a call on one cluster deletes, stops or starts a node of another
   cluster, as long as the names of the two do not meet and survive truncateName:
   a launch of `train' does delete the node of `train-head'. *)
OtherClustersUntouched ==
    [][~cfg.long => \A p \in Calls : call'[p] # call[p] =>
         \A id \in DOMAIN vm :
            LET n == call'[p].name
                m == Cluster(id)
            IN  n = m \/ NamesMeet(n, m) \/ (id \in DOMAIN vm' /\ vm'[id] = vm[id])]_vars

(* The nodes of launch p are where the other operations look for their names: not
   in a configured namespace or zone, nor in the resource group of an azure
   cluster of several nodes. *)
InReach(p) == IF cfg.kind = "azure" THEN call[p].num = 1 ELSE ~cfg.away

(* "TerminateInstances deletes pods by name": a terminate that returns no error
   has deleted every node of the launch on record, as long as they are in reach: a
   pod in another namespace than "default" is not found, and taken for deleted. *)
TerminatedAreGone ==
    \A p \in Calls : (call[p].op = "terminate" /\ call[p].res = "ok"
                         /\ (cfg.kind # "gcp" => InReach(call[p].of))) =>
        \A id \in DOMAIN vm : vm[id].by # call[p].of

(* The instances on record that still exist are found by DescribeInstances and
   by ListInstances: the node is where these calls look. *)
RecordedAreFound ==
    \A n \in Names : (rec[n] # None /\ InReach(rec[n])) =>
        \A id \in DOMAIN vm : vm[id].by = rec[n] =>
            /\ id \in ListInstances(n)
            /\ \E s \in {"pending", "running", "terminated"} :
                  <<id, s>> \in DescribeInstances({id[2]})

(* A launch returns all of its nodes, or gives up and leaves none of its pods. *)
LaunchesAreWhole == LaunchReturnsAllNodes /\ CleanupIsComplete

(* What is on record is there and is found, and what was terminated is gone. *)
RecordsAreTrue == RecordedAreFound /\ TerminatedAreGone

(* Every call returns: RunInstances gives up on a pod that never runs. *)
CallsReturn ==
    \A p \in Calls : call[p].pc # "idle" ~> call[p].pc = "done"
=============================================================================
