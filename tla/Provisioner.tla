----------------------------- MODULE Provisioner -----------------------------
(***************************************************************************)
(* internal/provisioner/provisioner.go: the operations Launch, Stop, Start *)
(* and Down on clusters of cloud instances, run by concurrent goroutines   *)
(* of one process over the shared state.Store, against the reuse-resume-   *)
(* create RunInstances of the aws and aliyun providers.                    *)
(*                                                                         *)
(* A step of an operation is what happens between two points where another *)
(* goroutine can run: one cloud API call, or one critical section of the   *)
(* store.  The store's maps hold POINTERS: GetCluster returns the live     *)
(* object, and an operation keeps it after the record of that name was     *)
(* removed or replaced.  An object is named by the Launch that made it.    *)
(***************************************************************************)
EXTENDS Naturals, FiniteSets, FiniteSetsExt

CONSTANTS
    Names,       \* cluster names
    Ops,         \* operations (goroutines), each run once
    Instances,   \* identifiers of cloud instances
    None,        \* "no record", "no object"
    NumNodes,    \* nodes of every launch (LaunchSpec.NumNodes)
    Concurrent,  \* may two operations be in flight at once?
    MaxPolls,    \* bound: polls of one waitReady
    MaxFaults,   \* bound: failed calls and saves, spot reclaims
    MaxCrashes   \* bound: crashes of the process

ASSUME ProvisionerAssumption ==
    /\ None \notin Ops \cup Names
    /\ \A r \in [insts : SUBSET Instances,
                 status : {"provisioning", "up", "stopped", "error"}] : None # r
    /\ \A r \in [ref : Ops, insts : SUBSET Instances,
                 status : {"provisioning", "up", "stopped", "error"}] : None # r
    /\ NumNodes \in Nat \ {0}
    /\ Concurrent \in BOOLEAN
    /\ {MaxPolls, MaxFaults, MaxCrashes} \subseteq Nat

VARIABLES
    cloud,    \* state of each instance, as mapStatus classifies it
    tag,      \* the name an instance was created for (tag Name)
    store,    \* Store.clusters: the object recorded under each name
    obj,      \* the heap of Cluster objects
    disk,     \* the collections the backend holds
    events,   \* Store.clusterEvents, as a set
    op,       \* the operations
    faults,   \* faults so far
    crashes   \* crashes so far

vars == <<cloud, tag, store, obj, disk, events, op, faults, crashes>>

-----------------------------------------------------------------------------
(* Values *)

InstanceState == {"free", "pending", "running", "stopped", "terminated"}

Status == {"provisioning", "up", "stopped", "error"}

Kind == {"launch", "stop", "start", "down"}

Label == {"idle", "prepare", "list", "resume", "create", "add", "describe",
          "refresh", "settle", "bootstrap", "fail", "failEvent",
          "get", "calls", "commit", "done"}

Result == {"none", "ok", "err", "exists", "notfound", "panic", "crash"}

Cluster == [insts : SUBSET Instances, status : Status]

Operation ==
    [pc     : Label,
     kind   : Kind,
     name   : Names \cup {None},
     ref    : Ops \cup {None},      \* the *state.Cluster it holds
     ids    : SUBSET Instances,     \* its slice of instance ids
     todo   : SUBSET Instances,     \* ids not yet passed to the cloud
     seen   : BOOLEAN,              \* allRunning of the last poll
     polls  : 0..MaxPolls,
     how    : {"none", "reuse", "resume", "create"},  \* branch of RunInstances
     res    : Result]

Event == [op : Ops, name : Names, from : Status,
          to : Status \cup {"down"}, ids : SUBSET Instances]

SavedCluster == [ref : Ops, insts : SUBSET Instances, status : Status]

Disk == [clusters : [Names -> SavedCluster \cup {None}], events : SUBSET Event]

TypeOK ==
    /\ cloud \in [Instances -> InstanceState]
    /\ tag \in [Instances -> Names \cup {None}]
    /\ store \in [Names -> Ops \cup {None}]
    /\ obj \in [Ops -> Cluster]
    /\ disk \in Disk
    /\ events \subseteq Event
    /\ op \in [Ops -> Operation]
    /\ faults \in 0..MaxFaults
    /\ crashes \in 0..MaxCrashes

Init ==
    /\ cloud = [i \in Instances |-> "free"]
    /\ tag = [i \in Instances |-> None]
    /\ store = [n \in Names |-> None]
    /\ obj = [o \in Ops |-> [insts |-> {}, status |-> "provisioning"]]
    /\ disk = [clusters |-> [n \in Names |-> None], events |-> {}]
    /\ events = {}
    /\ op = [o \in Ops |->
               [pc |-> "idle", kind |-> "launch", name |-> None, ref |-> None,
                ids |-> {}, todo |-> {}, seen |-> FALSE, polls |-> 0,
                how |-> "none", res |-> "none"]]
    /\ faults = 0
    /\ crashes = 0

-----------------------------------------------------------------------------
(* Helpers *)

Active(o) == op[o].pc \notin {"idle", "done"}

(* Mutants: listing without the name filter; not counting starting nodes. *)
TaggedAnyName(n, S) == {i \in Instances : cloud[i] \in S}
TaggedStarted(n, S) == {i \in Instances : tag[i] = n /\ cloud[i] \in S \ {"pending"}}

(* The instances of cluster n in one of the states S: ListInstances filters
   on the exact Name tag. *)
Tagged(n, S) == {i \in Instances : tag[i] = n /\ cloud[i] \in S}

Goto(o, label) == op' = [op EXCEPT ![o].pc = label]

Finish(o, result) == op' = [op EXCEPT ![o].pc = "done", ![o].res = result]

Fault == faults < MaxFaults /\ faults' = faults + 1

(* What SaveClusters writes: every record, copied. *)
Saved(st, ob) ==
    [n \in Names |->
       IF st[n] = None THEN None
       ELSE [ref |-> st[n], insts |-> ob[st[n]].insts,
             status |-> ob[st[n]].status]]

(* Mutant: a failed write is reported as success. *)
SaveSwallowsError(ok) ==
    /\ ok
    /\ \/ /\ disk' = [clusters |-> Saved(store', obj'), events |-> events']
          /\ UNCHANGED faults
       \/ UNCHANGED disk /\ Fault

(* Store.save: the collections are written one after the other, clusters
   before events, and the first failure ends it.  The change in memory is
   kept in either case. *)
Save(ok) ==
    \/ /\ ok
       /\ disk' = [clusters |-> Saved(store', obj'), events |-> events']
       /\ UNCHANGED faults
    \/ /\ ~ok
       /\ Fault
       /\ disk' \in {disk,
                     [disk EXCEPT !.clusters = Saved(store', obj')],
                     [clusters |-> Saved(store', obj'), events |-> events']}

(* Mutant: Stop writes the unused status "terminated". *)
SetStatusTerminated(n, s) ==
    obj' = [obj EXCEPT ![store[n]].status = IF s = "stopped" THEN "terminated" ELSE s]

(* UpdateCluster finds the record by NAME and changes that object. *)
SetStatus(n, s) == obj' = [obj EXCEPT ![store[n]].status = s]

(* recordClusterEvent: its error is dropped. *)
RecordEvent(o, from, to) ==
    /\ events' = events \cup {[op |-> o, name |-> op[o].name, from |-> from,
                               to |-> to, ids |-> op[o].ids]}
    /\ UNCHANGED <<store, obj>>
    /\ \E ok \in BOOLEAN : Save(ok)

-----------------------------------------------------------------------------
(* A request arrives: handler goroutine or CLI command. *)
StartOp(o, k, n) ==
    /\ op[o].pc = "idle"
    /\ Concurrent \/ \A p \in Ops : ~Active(p)
    /\ op' = [op EXCEPT ![o].pc = IF k = "launch" THEN "prepare" ELSE "get",
                        ![o].kind = k, ![o].name = n]
    /\ UNCHANGED <<cloud, tag, store, obj, disk, events, faults, crashes>>

(* Launch: cloud.New, ensureKeyPair, GetImage. *)
Prepare(o) ==
    /\ op[o].pc = "prepare"
    /\ \/ Goto(o, "list") /\ UNCHANGED faults
       \/ Finish(o, "err") /\ Fault
    /\ UNCHANGED <<cloud, tag, store, obj, disk, events, crashes>>

(* RunInstances lists the instances of the cluster and picks a branch:
   enough running ones are reused, else stopped ones are resumed, else
   NumNodes new ones are created. *)
ListInstances(o) ==
    LET running == Tagged(op[o].name, {"pending", "running"})
        stopped == Tagged(op[o].name, {"stopped"})
        need    == NumNodes - Cardinality(running)
        resumed == IF Cardinality(stopped) > need THEN need
                   ELSE Cardinality(stopped)
    IN  /\ op[o].pc = "list"
        /\ \/ /\ Cardinality(running) >= NumNodes
              /\ \E r \in kSubset(NumNodes, running) :
                   op' = [op EXCEPT ![o].pc = "add", ![o].ids = r,
                                    ![o].how = "reuse"]
              /\ UNCHANGED faults
           \/ /\ Cardinality(running) < NumNodes
              /\ stopped # {}
              /\ \E s \in kSubset(resumed, stopped) :
                   op' = [op EXCEPT ![o].pc = "resume", ![o].todo = s,
                                    ![o].ids = running \cup s,
                                    ![o].how = "resume"]
              /\ UNCHANGED faults
           \/ /\ Cardinality(running) < NumNodes
              /\ stopped = {}
              /\ op' = [op EXCEPT ![o].pc = "create", ![o].how = "create"]
              /\ UNCHANGED faults
           \/ Finish(o, "err") /\ Fault
        /\ UNCHANGED <<cloud, tag, store, obj, disk, events, crashes>>

(* The cloud starts instance i, if it still exists. *)
StartInstance(i) ==
    /\ cloud[i] # "terminated"
    /\ cloud' = IF cloud[i] = "stopped" THEN [cloud EXCEPT ![i] = "pending"]
                ELSE cloud

(* RunInstances resumes: StartInstances calls the cloud once per id, and
   its first error is the launch's. *)
Resume(o) ==
    /\ op[o].pc = "resume"
    /\ \E i \in op[o].todo :
         \/ /\ StartInstance(i)
            /\ op' = [op EXCEPT ![o].todo = @ \ {i}]
            /\ UNCHANGED faults
         \/ /\ cloud[i] = "terminated"
            /\ Finish(o, "err")
            /\ UNCHANGED <<cloud, faults>>
         \/ /\ Finish(o, "err")
            /\ Fault
            /\ UNCHANGED cloud
    /\ UNCHANGED <<tag, store, obj, disk, events, crashes>>

(* all[:spec.NumNodes] panics when running and stopped together are fewer
   than NumNodes. *)
Resumed(o) ==
    /\ op[o].pc = "resume"
    /\ op[o].todo = {}
    /\ IF Cardinality(op[o].ids) >= NumNodes THEN Goto(o, "add")
       ELSE Finish(o, "panic")
    /\ UNCHANGED <<cloud, tag, store, obj, disk, events, faults, crashes>>

(* One RunInstances call of the cloud API, all or nothing (MinCount =
   MaxCount); it fails for want of capacity, or by a fault. *)
Create(o) ==
    LET free == {i \in Instances : cloud[i] = "free"}
    IN  /\ op[o].pc = "create"
        /\ \/ \E new \in kSubset(NumNodes, free) :
                /\ cloud' = [i \in Instances |->
                               IF i \in new THEN "pending" ELSE cloud[i]]
                /\ tag' = [i \in Instances |->
                             IF i \in new THEN op[o].name ELSE tag[i]]
                /\ op' = [op EXCEPT ![o].pc = "add", ![o].ids = new]
                /\ UNCHANGED faults
           \/ /\ Cardinality(free) < NumNodes
              /\ Finish(o, "err")
              /\ UNCHANGED <<cloud, tag, faults>>
           \/ /\ Finish(o, "err")
              /\ Fault
              /\ UNCHANGED <<cloud, tag>>
        /\ UNCHANGED <<store, obj, disk, events, crashes>>

(* Store.AddCluster: a second record of the name is refused; the instances
   RunInstances returned stay as they are. *)
AddCluster(o) ==
    LET n == op[o].name
    IN  /\ op[o].pc = "add"
        /\ UNCHANGED <<cloud, tag, events, crashes>>
        /\ \/ /\ store[n] # None
              /\ Finish(o, "exists")
              /\ UNCHANGED <<store, obj, disk, faults>>
           \/ /\ store[n] = None
              /\ store' = [store EXCEPT ![n] = o]
              /\ obj' = [obj EXCEPT ![o] = [insts |-> op[o].ids,
                                            status |-> "provisioning"]]
              /\ \/ /\ Save(TRUE)
                    /\ op' = [op EXCEPT ![o].pc = "describe", ![o].ref = o]
                 \/ /\ Save(FALSE)
                    /\ Finish(o, "err")

(* waitReady failed: Launch records the error, Start just returns it. *)
WaitFailed(o) ==
    IF op[o].kind = "launch" THEN Goto(o, "fail") ELSE Finish(o, "err")

(* Mutant: one running node is enough. *)
DescribeAnyRunning(o) ==
    /\ op[o].pc = "describe"
    /\ op' = [op EXCEPT
         ![o].pc = "refresh",
         ![o].seen = \E i \in obj[op[o].ref].insts : cloud[i] = "running"]
    /\ UNCHANGED <<cloud, tag, store, obj, disk, events, faults, crashes>>

(* waitReady: DescribeInstances of the ids taken on entry.  A terminated
   instance may be answered as such, or make the call fail. *)
Describe(o) ==
    /\ op[o].pc = "describe"
    /\ \/ /\ op' = [op EXCEPT
               ![o].pc = "refresh",
               ![o].seen = \A i \in obj[op[o].ref].insts :
                              i \in op[o].ids /\ cloud[i] = "running"]
          /\ UNCHANGED faults
       \/ /\ \E i \in op[o].ids : cloud[i] = "terminated"
          /\ WaitFailed(o)
          /\ UNCHANGED faults
       \/ WaitFailed(o) /\ Fault
    /\ UNCHANGED <<cloud, tag, store, obj, disk, events, crashes>>

(* UpdateCluster from waitReady: instances of the object held, status s,
   written into whatever object the store now has under that name. *)
Overwrite(o, s) ==
    obj' = [obj EXCEPT ![store[op[o].name]] =
              [insts |-> obj[op[o].ref].insts, status |-> s]]

(* waitReady: the first UpdateCluster, whose error is dropped. *)
Refresh(o) ==
    /\ op[o].pc = "refresh"
    /\ Goto(o, "settle")
    /\ UNCHANGED <<cloud, tag, store, events, crashes>>
    /\ \/ /\ store[op[o].name] = None
          /\ UNCHANGED <<obj, disk, faults>>
       \/ /\ store[op[o].name] # None
          /\ Overwrite(o, "provisioning")
          /\ \E ok \in BOOLEAN : Save(ok)

(* waitReady: all nodes were running, so the cluster is up; the caller goes
   on, unless the record is gone or the save fails. *)
SettleUp(o) ==
    /\ op[o].pc = "settle"
    /\ op[o].seen
    /\ UNCHANGED <<cloud, tag, store, events, crashes>>
    /\ \/ /\ store[op[o].name] = None
          /\ WaitFailed(o)
          /\ UNCHANGED <<obj, disk, faults>>
       \/ /\ store[op[o].name] # None
          /\ Overwrite(o, "up")
          /\ \/ /\ Save(TRUE)
                /\ IF op[o].kind = "launch" THEN Goto(o, "bootstrap")
                   ELSE Finish(o, "ok")
             \/ /\ Save(FALSE)
                /\ WaitFailed(o)

(* Mutant: no deadline. *)
SettleWaitForever(o) ==
    /\ op[o].pc = "settle"
    /\ ~op[o].seen
    /\ Goto(o, "describe")
    /\ UNCHANGED <<cloud, tag, store, obj, disk, events, faults, crashes>>

(* waitReady: not all running; poll again at the next tick, unless the
   deadline passed or the context was cancelled. *)
SettleWait(o) ==
    /\ op[o].pc = "settle"
    /\ ~op[o].seen
    /\ \/ /\ op[o].polls < MaxPolls
          /\ op' = [op EXCEPT ![o].pc = "describe", ![o].polls = @ + 1]
       \/ WaitFailed(o)
    /\ UNCHANGED <<cloud, tag, store, obj, disk, events, faults, crashes>>

(* Launch: bootstrapRay and installGpilet, over SSH. *)
Bootstrap(o) ==
    /\ op[o].pc = "bootstrap"
    /\ \/ Finish(o, "ok") /\ UNCHANGED faults
       \/ Goto(o, "fail") /\ Fault
    /\ UNCHANGED <<cloud, tag, store, obj, disk, events, crashes>>

(* Launch failed after AddCluster: status error, if there is a record... *)
Fail(o) ==
    /\ op[o].pc = "fail"
    /\ Goto(o, "failEvent")
    /\ UNCHANGED <<cloud, tag, store, events, crashes>>
    /\ \/ /\ store[op[o].name] = None
          /\ UNCHANGED <<obj, disk, faults>>
       \/ /\ store[op[o].name] # None
          /\ SetStatus(op[o].name, "error")
          /\ \E ok \in BOOLEAN : Save(ok)

(* ... and an event that always says provisioning -> error. *)
FailEvent(o) ==
    /\ op[o].pc = "failEvent"
    /\ RecordEvent(o, "provisioning", "error")
    /\ Finish(o, "err")
    /\ UNCHANGED <<cloud, tag, crashes>>

(* Stop, Start, Down: GetCluster and providerForCluster. *)
Get(o) ==
    LET r == store[op[o].name]
    IN  /\ op[o].pc = "get"
        /\ \/ r = None /\ Finish(o, "notfound") /\ UNCHANGED faults
           \/ /\ r # None
              /\ op' = [op EXCEPT ![o].pc = "calls", ![o].ref = r,
                                  ![o].ids = obj[r].insts,
                                  ![o].todo = obj[r].insts]
              /\ UNCHANGED faults
           \/ r # None /\ Finish(o, "err") /\ Fault
        /\ UNCHANGED <<cloud, tag, store, obj, disk, events, crashes>>

(* The cloud's answer to Stop and Terminate of instance i. *)
StopInstance(i) ==
    /\ cloud[i] # "terminated"
    /\ cloud' = [cloud EXCEPT ![i] = "stopped"]

TerminateInstance(i) == cloud' = [cloud EXCEPT ![i] = "terminated"]

(* Mutant: the loop goes on after an error. *)
CallSkipsErrors(o) ==
    /\ op[o].pc = "calls"
    /\ \E i \in op[o].todo :
         /\ \/ op[o].kind = "stop"  /\ StopInstance(i) /\ UNCHANGED faults
            \/ op[o].kind = "start" /\ StartInstance(i) /\ UNCHANGED faults
            \/ op[o].kind = "down"  /\ TerminateInstance(i) /\ UNCHANGED faults
            \/ cloud[i] = "terminated" /\ UNCHANGED <<cloud, faults>>
            \/ Fault /\ UNCHANGED cloud
         /\ op' = [op EXCEPT ![o].todo = @ \ {i}]
    /\ UNCHANGED <<tag, store, obj, disk, events, crashes>>

(* Stop/Start/TerminateInstances: one cloud call per id, the first error is
   the operation's; what was done before it stays done. *)
Call(o) ==
    /\ op[o].pc = "calls"
    /\ \E i \in op[o].todo :
         \/ /\ \/ op[o].kind = "stop"  /\ StopInstance(i)
               \/ op[o].kind = "start" /\ StartInstance(i)
               \/ op[o].kind = "down"  /\ TerminateInstance(i)
            /\ op' = [op EXCEPT ![o].todo = @ \ {i}]
            /\ UNCHANGED faults
         \/ /\ cloud[i] = "terminated"
            /\ Finish(o, "err")
            /\ UNCHANGED <<cloud, faults>>
         \/ /\ Finish(o, "err")
            /\ Fault
            /\ UNCHANGED cloud
    /\ UNCHANGED <<tag, store, obj, disk, events, crashes>>

(* The event is recorded when every call succeeded; `from` is read from the
   live object at this point. *)
CallsEvent(o) ==
    /\ op[o].pc = "calls"
    /\ op[o].todo = {}
    /\ RecordEvent(o, obj[op[o].ref].status,
                   CASE op[o].kind = "stop" -> "stopped"
                     [] op[o].kind = "start" -> "provisioning"
                     [] op[o].kind = "down" -> "down")
    /\ Goto(o, "commit")
    /\ UNCHANGED <<cloud, tag, crashes>>

(* Stop and Start: UpdateCluster; Start then waits for the nodes. *)
CommitStatus(o) ==
    LET n == op[o].name
    IN  /\ op[o].pc = "commit"
        /\ op[o].kind \in {"stop", "start"}
        /\ UNCHANGED <<cloud, tag, store, events, crashes>>
        /\ \/ /\ store[n] = None
              /\ Finish(o, "err")
              /\ UNCHANGED <<obj, disk, faults>>
           \/ /\ store[n] # None
              /\ SetStatus(n, IF op[o].kind = "stop" THEN "stopped"
                              ELSE "provisioning")
              /\ \/ /\ Save(TRUE)
                    /\ IF op[o].kind = "stop" THEN Finish(o, "ok")
                       ELSE op' = [op EXCEPT
                              ![o].pc = "describe",
                              ![o].ids = obj[op[o].ref].insts]
                 \/ /\ Save(FALSE)
                    /\ Finish(o, "err")

(* Down: DeleteCluster removes whatever record the name now has. *)
CommitDelete(o) ==
    LET n == op[o].name
    IN  /\ op[o].pc = "commit"
        /\ op[o].kind = "down"
        /\ UNCHANGED <<cloud, tag, obj, events, crashes>>
        /\ \/ /\ store[n] = None
              /\ Finish(o, "err")
              /\ UNCHANGED <<store, disk, faults>>
           \/ /\ store[n] # None
              /\ store' = [store EXCEPT ![n] = None]
              /\ \/ Save(TRUE) /\ Finish(o, "ok")
                 \/ Save(FALSE) /\ Finish(o, "err")

-----------------------------------------------------------------------------
(* The cloud: a started instance comes up; a spot instance is reclaimed. *)
Boot(i) ==
    /\ cloud[i] = "pending"
    /\ cloud' = [cloud EXCEPT ![i] = "running"]
    /\ UNCHANGED <<tag, store, obj, disk, events, op, faults, crashes>>

Reclaim(i) ==
    /\ cloud[i] \in {"pending", "running"}
    /\ cloud' = [cloud EXCEPT ![i] = "terminated"]
    /\ Fault
    /\ UNCHANGED <<tag, store, obj, disk, events, op, crashes>>

(* The process dies and a new one opens the store: its operations are lost,
   and the records are what the backend holds. *)
Crash ==
    /\ crashes < MaxCrashes
    /\ crashes' = crashes + 1
    /\ op' = [o \in Ops |-> IF Active(o)
                THEN [op[o] EXCEPT !.pc = "done", !.res = "crash"]
                ELSE op[o]]
    /\ store' = [n \in Names |-> IF disk.clusters[n] = None THEN None
                                 ELSE disk.clusters[n].ref]
    /\ obj' = [o \in Ops |->
                 IF \E n \in Names : disk.clusters[n] # None
                                     /\ disk.clusters[n].ref = o
                 THEN LET n == CHOOSE m \in Names :
                                 /\ disk.clusters[m] # None
                                 /\ disk.clusters[m].ref = o
                      IN  [insts |-> disk.clusters[n].insts,
                           status |-> disk.clusters[n].status]
                 ELSE obj[o]]
    /\ events' = disk.events
    /\ UNCHANGED <<cloud, tag, disk, faults>>

-----------------------------------------------------------------------------
(* One step of operation o. *)
Step(o) ==
    \/ Prepare(o)
    \/ ListInstances(o)
    \/ Resume(o)
    \/ Resumed(o)
    \/ Create(o)
    \/ AddCluster(o)
    \/ Describe(o)
    \/ Refresh(o)
    \/ SettleUp(o)
    \/ SettleWait(o)
    \/ Bootstrap(o)
    \/ Fail(o)
    \/ FailEvent(o)
    \/ Get(o)
    \/ Call(o)
    \/ CallsEvent(o)
    \/ CommitStatus(o)
    \/ CommitDelete(o)

Next ==
    \/ \E o \in Ops, k \in Kind, n \in Names : StartOp(o, k, n)
    \/ \E o \in Ops : Step(o)
    \/ \E i \in Instances : Boot(i)
    \/ \E i \in Instances : Reclaim(i)
    \/ Crash

Spec == Init /\ [][Next]_vars

(* Goroutines are scheduled, and every call they make returns (the cloud
   clients and waitReady have deadlines).  Nothing is assumed of the cloud. *)
FairSpec == Spec /\ \A o \in Ops : WF_vars(Step(o))

-----------------------------------------------------------------------------
(* Correctness *)

(* Clusters do not touch each other: every instance a record lists, and every
   instance an operation acts on, was created for that cluster's name, whatever
   other launches RunInstances runs against and whatever overwrites a record. *)
Isolation ==
    /\ \A n \in Names : store[n] # None =>
         \A i \in obj[store[n]].insts : tag[i] = n
    /\ \A o \in Ops : \A i \in op[o].ids : tag[i] = op[o].name

(* The event log does not lie about Down: once a "down" event is there, every
   instance the operation read from the record is terminated, for good. *)
DownEventIsTrue ==
    \A e \in events : e.to = "down" =>
        \A i \in e.ids : cloud[i] = "terminated"

(* The instances of cluster n that are not terminated. *)
Live(n) ==
    {i \in Instances : tag[i] = n /\ cloud[i] \in {"pending", "running", "stopped"}}

(* Launch is idempotent on the cloud: relaunching, stopping and starting a
   cluster, one command after the other and without a fault, never leaves it
   with more than NumNodes instances. *)
NoOverProvision ==
    faults = 0 => \A n \in Names : Cardinality(Live(n)) <= NumNodes

(* What `gpi status` says is true when nothing is in flight and no call failed:
   a cluster shown up has all its nodes running, and a name without a record
   has no instance left to pay for. *)
QuiescentTruth ==
    (faults = 0 /\ \A o \in Ops : ~Active(o)) =>
        \A n \in Names :
            IF store[n] = None
            THEN Live(n) = {}
            ELSE obj[store[n]].status = "up" =>
                   \A i \in obj[store[n]].insts : cloud[i] = "running"

(* What an operation reported as done survives a crash: when it returns no
   error, the backend holds the record of its cluster as memory has it. *)
DurableSuccess ==
    [][\A o \in Ops :
         (op[o].res # "ok" /\ op'[o].res = "ok") =>
            disk'.clusters[op[o].name] = Saved(store', obj')[op[o].name]]_vars

(* Every operation returns: waitReady gives up in the end, whatever the cloud
   and the other operations do. *)
OperationsReturn ==
    \A o \in Ops : Active(o) ~> ~Active(o)

-----------------------------------------------------------------------------
(* One command at a time, and no crash: the records are a ClusterRegistry. *)

Registry == INSTANCE ClusterRegistry WITH
    rec  <- [n \in Names |-> IF store[n] = None THEN None ELSE obj[store[n]]],
    gone <- {i \in Instances : cloud[i] = "terminated"}

RegistrySpec == Registry!Spec
=============================================================================
