-------------------------- MODULE ProvisionerProofs --------------------------
(***************************************************************************)
(* Proofs about Provisioner, for every number of clusters, operations,     *)
(* instances, nodes, polls, faults and crashes.                            *)
(*                                                                         *)
(* With any concurrency: types, Isolation, DownEventIsTrue.  With one      *)
(* command at a time: DurableSuccess, also through crashes; without a      *)
(* crash the refinement of ClusterRegistry, NoOverProvision and            *)
(* QuiescentTruth.                                                         *)
(***************************************************************************)
EXTENDS Provisioner, FiniteSetTheorems, TLAPS

-----------------------------------------------------------------------------
(* Type correctness *)

(* kSubset picks subsets. *)
LEMMA KSubset ==
    ASSUME NEW k, NEW S, NEW x \in kSubset(k, S)
    PROVE  x \subseteq S
BY DEF kSubset

(* Store.save leaves a well-typed backend and fault counter. *)
LEMMA SaveType ==
    ASSUME TypeOK, NEW ok \in BOOLEAN, Save(ok),
           store' \in [Names -> Ops \cup {None}], obj' \in [Ops -> Cluster],
           events' \subseteq Event
    PROVE  disk' \in Disk /\ faults' \in 0..MaxFaults
<1>1. Saved(store', obj') \in [Names -> SavedCluster \cup {None}]
  BY DEF Saved, SavedCluster, Cluster
<1>2. disk' \in Disk
  BY <1>1 DEF Save, Disk, TypeOK
<1>3. faults' \in 0..MaxFaults
  BY ProvisionerAssumption DEF Save, Fault, TypeOK
<1> QED BY <1>2, <1>3

(* Members of the enumerations, so that proofs need not expand them. *)
LEMMA Members ==
    /\ \A l \in {"prepare", "list", "resume", "create", "add", "describe",
                 "refresh", "settle", "bootstrap", "fail", "failEvent",
                 "get", "calls", "commit", "done"} : l \in Label
    /\ \A r \in {"ok", "err", "exists", "notfound", "panic", "crash"} :
         r \in Result
    /\ \A s \in {"provisioning", "up", "stopped", "error"} : s \in Status
    /\ \A c \in {"pending", "running", "stopped", "terminated"} :
         c \in InstanceState
BY DEF Label, Result, Status, InstanceState

(* The ways an operation moves on. *)
LEMMA GotoType ==
    ASSUME TypeOK, NEW o \in Ops, NEW l \in Label, Goto(o, l)
    PROVE  op' \in [Ops -> Operation]
BY DEF TypeOK, Goto, Operation

LEMMA FinishType ==
    ASSUME TypeOK, NEW o \in Ops, NEW r \in Result, Finish(o, r)
    PROVE  op' \in [Ops -> Operation]
<1>1. [op[o] EXCEPT !.pc = "done", !.res = r] \in Operation
  BY Members DEF TypeOK, Operation
<1>2. op' = [op EXCEPT ![o] = [op[o] EXCEPT !.pc = "done", !.res = r]]
  BY DEF TypeOK, Finish
<1> QED BY <1>1, <1>2 DEF TypeOK

LEMMA WaitFailedType ==
    ASSUME TypeOK, NEW o \in Ops, WaitFailed(o)
    PROVE  op' \in [Ops -> Operation]
BY GotoType, FinishType, Members DEF WaitFailed

LEMMA FaultType ==
    ASSUME TypeOK, Fault
    PROVE  faults' \in 0..MaxFaults
BY ProvisionerAssumption DEF TypeOK, Fault

(* What an operation knows at each of its steps: a cluster name from the
   start, a cluster object while it waits or acts, and which kinds get there. *)
Placed ==
    \A o \in Ops :
        /\ op[o].pc # "idle" => op[o].name \in Names
        /\ op[o].pc \in {"describe", "refresh", "settle", "calls", "commit"} =>
             op[o].ref \in Ops
        /\ op[o].pc \in {"get", "calls", "commit"} => op[o].kind # "launch"

(* waitReady's write into the store's object is a cluster. *)
LEMMA OverwriteType ==
    ASSUME TypeOK, NEW o \in Ops, op[o].ref \in Ops, NEW s \in Status,
           Overwrite(o, s)
    PROVE  obj' \in [Ops -> Cluster]
BY DEF TypeOK, Overwrite, Cluster

LEMMA SetStatusType ==
    ASSUME TypeOK, NEW n, NEW s \in Status, SetStatus(n, s)
    PROVE  obj' \in [Ops -> Cluster]
BY DEF TypeOK, SetStatus, Cluster

(* Recording an event changes the log and the backend only. *)
LEMMA RecordEventType ==
    ASSUME TypeOK, NEW o \in Ops, op[o].name \in Names, NEW from \in Status,
           NEW to \in Status \cup {"down"}, RecordEvent(o, from, to)
    PROVE  /\ events' \subseteq Event
           /\ disk' \in Disk
           /\ faults' \in 0..MaxFaults
           /\ UNCHANGED <<store, obj>>
<1>1. [op |-> o, name |-> op[o].name, from |-> from, to |-> to,
       ids |-> op[o].ids] \in Event
  BY DEF TypeOK, Operation, Event
<1>2. events' \subseteq Event
  BY <1>1 DEF RecordEvent, TypeOK
<1> QED BY <1>2, SaveType DEF RecordEvent, TypeOK

(* Every action keeps the types. *)
LEMMA TypeStep ==
    ASSUME TypeOK, Placed, [Next]_vars
    PROVE  TypeOK'
<1> USE Members
<1>1. ASSUME NEW o \in Ops, NEW k \in Kind, NEW n \in Names, StartOp(o, k, n)
      PROVE  TypeOK'
  <2>1. [op[o] EXCEPT !.pc = IF k = "launch" THEN "prepare" ELSE "get",
                      !.kind = k, !.name = n] \in Operation
    BY DEF TypeOK, Operation
  <2>2. op' \in [Ops -> Operation]
    BY <1>1, <2>1 DEF TypeOK, StartOp
  <2> QED BY <1>1, <2>2 DEF TypeOK, StartOp
<1>2. ASSUME NEW o \in Ops, Prepare(o)
      PROVE  TypeOK'
  <2>1. op' \in [Ops -> Operation]
    BY <1>2, GotoType, FinishType DEF Prepare
  <2>2. faults' \in 0..MaxFaults
    BY <1>2, FaultType DEF Prepare, TypeOK
  <2> QED BY <1>2, <2>1, <2>2 DEF TypeOK, Prepare
<1>3. ASSUME NEW o \in Ops, ListInstances(o)
      PROVE  TypeOK'
  <2>1. CASE Finish(o, "err") /\ Fault
    BY <1>3, <2>1, FinishType, FaultType DEF TypeOK, ListInstances
  <2>2. CASE UNCHANGED faults /\ \E r \in SUBSET Instances :
               op' = [op EXCEPT ![o].pc = "add", ![o].ids = r,
                                ![o].how = "reuse"]
    <3> PICK r \in SUBSET Instances :
               op' = [op EXCEPT ![o].pc = "add", ![o].ids = r,
                                ![o].how = "reuse"]
      BY <2>2
    <3>1. [op[o] EXCEPT !.pc = "add", !.ids = r, !.how = "reuse"] \in Operation
      BY DEF TypeOK, Operation
    <3>2. op' \in [Ops -> Operation]
      BY <3>1 DEF TypeOK
    <3> QED BY <1>3, <2>2, <3>2 DEF TypeOK, ListInstances
  <2>3. CASE UNCHANGED faults /\ \E s, t \in SUBSET Instances :
               op' = [op EXCEPT ![o].pc = "resume", ![o].todo = s,
                                ![o].ids = t, ![o].how = "resume"]
    <3> PICK s \in SUBSET Instances, t \in SUBSET Instances :
               op' = [op EXCEPT ![o].pc = "resume", ![o].todo = s,
                                ![o].ids = t, ![o].how = "resume"]
      BY <2>3
    <3>1. [op[o] EXCEPT !.pc = "resume", !.todo = s, !.ids = t,
                        !.how = "resume"] \in Operation
      BY DEF TypeOK, Operation
    <3>2. op' \in [Ops -> Operation]
      BY <3>1 DEF TypeOK
    <3> QED BY <1>3, <2>3, <3>2 DEF TypeOK, ListInstances
  <2>4. CASE /\ UNCHANGED faults
             /\ op' = [op EXCEPT ![o].pc = "create", ![o].how = "create"]
    <3>1. [op[o] EXCEPT !.pc = "create", !.how = "create"] \in Operation
      BY DEF TypeOK, Operation
    <3>2. op' \in [Ops -> Operation]
      BY <2>4, <3>1 DEF TypeOK
    <3> QED BY <1>3, <2>4, <3>2 DEF TypeOK, ListInstances
  <2>5. \A S : Tagged(op[o].name, S) \subseteq Instances
    BY DEF Tagged
  <2> QED BY <1>3, <2>1, <2>2, <2>3, <2>4, <2>5, KSubset DEF ListInstances
<1>4. ASSUME NEW o \in Ops, Resume(o)
      PROVE  TypeOK'
  <2> PICK i \in op[o].todo :
         \/ /\ StartInstance(i)
            /\ op' = [op EXCEPT ![o].todo = @ \ {i}]
            /\ UNCHANGED faults
         \/ /\ cloud[i] = "terminated"
            /\ Finish(o, "err")
            /\ UNCHANGED <<cloud, faults>>
         \/ /\ Finish(o, "err")
            /\ Fault
            /\ UNCHANGED cloud
    BY <1>4 DEF Resume
  <2>1. i \in Instances
    BY DEF TypeOK, Operation
  <2>2. CASE StartInstance(i) /\ op' = [op EXCEPT ![o].todo = @ \ {i}]
             /\ UNCHANGED faults
    <3>1. op' \in [Ops -> Operation]
      BY <2>2 DEF TypeOK, Operation
    <3>2. cloud' \in [Instances -> InstanceState]
      BY <2>1, <2>2 DEF TypeOK, StartInstance
    <3> QED BY <1>4, <2>2, <3>1, <3>2 DEF TypeOK, Resume
  <2>3. CASE Finish(o, "err") /\ UNCHANGED cloud /\ (Fault \/ UNCHANGED faults)
    <3>1. faults' \in 0..MaxFaults
      BY <2>3, FaultType DEF TypeOK
    <3> QED BY <1>4, <2>3, <3>1, FinishType DEF TypeOK, Resume
  <2> QED BY <2>2, <2>3
<1>5. ASSUME NEW o \in Ops, Resumed(o)
      PROVE  TypeOK'
  <2>1. op' \in [Ops -> Operation]
    BY <1>5, GotoType, FinishType DEF Resumed
  <2> QED BY <1>5, <2>1 DEF TypeOK, Resumed
<1>6. ASSUME NEW o \in Ops, Create(o)
      PROVE  TypeOK'
  <2>1. CASE \E new \in SUBSET Instances :
               /\ cloud' = [i \in Instances |->
                              IF i \in new THEN "pending" ELSE cloud[i]]
               /\ tag' = [i \in Instances |->
                            IF i \in new THEN op[o].name ELSE tag[i]]
               /\ op' = [op EXCEPT ![o].pc = "add", ![o].ids = new]
               /\ UNCHANGED faults
    <3> PICK new \in SUBSET Instances :
               /\ cloud' = [i \in Instances |->
                              IF i \in new THEN "pending" ELSE cloud[i]]
               /\ tag' = [i \in Instances |->
                            IF i \in new THEN op[o].name ELSE tag[i]]
               /\ op' = [op EXCEPT ![o].pc = "add", ![o].ids = new]
               /\ UNCHANGED faults
      BY <2>1
    <3>1. cloud' \in [Instances -> InstanceState]
      BY DEF TypeOK
    <3>2. tag' \in [Instances -> Names \cup {None}]
      BY DEF TypeOK, Operation
    <3>3. op' \in [Ops -> Operation]
      <4>1. [op[o] EXCEPT !.pc = "add", !.ids = new] \in Operation
        BY DEF TypeOK, Operation
      <4> QED BY <4>1 DEF TypeOK
    <3> QED BY <1>6, <3>1, <3>2, <3>3 DEF TypeOK, Create
  <2>2. CASE /\ Finish(o, "err")
             /\ UNCHANGED <<cloud, tag>>
             /\ Fault \/ UNCHANGED faults
    <3>1. faults' \in 0..MaxFaults
      BY <2>2, FaultType DEF TypeOK
    <3> QED BY <1>6, <2>2, <3>1, FinishType DEF TypeOK, Create
  <2>3. \A k : \A x \in kSubset(k, {i \in Instances : cloud[i] = "free"}) :
          x \in SUBSET Instances
    BY KSubset
  <2> QED BY <1>6, <2>1, <2>2, <2>3 DEF Create
<1>7. ASSUME NEW o \in Ops, AddCluster(o)
      PROVE  TypeOK'
  <2>1. CASE store[op[o].name] # None
    BY <1>7, <2>1, FinishType DEF TypeOK, AddCluster
  <2>2. CASE store[op[o].name] = None
    <3>1. store' \in [Names -> Ops \cup {None}]
      BY <1>7, <2>2 DEF TypeOK, AddCluster
    <3>2. obj' \in [Ops -> Cluster]
      BY <1>7, <2>2 DEF TypeOK, AddCluster, Cluster, Operation
    <3>3. disk' \in Disk /\ faults' \in 0..MaxFaults
      BY <1>7, <2>2, <3>1, <3>2, SaveType DEF TypeOK, AddCluster
    <3>4. op' \in [Ops -> Operation]
      <4>1. [op[o] EXCEPT !.pc = "describe", !.ref = o] \in Operation
        BY DEF TypeOK, Operation
      <4>2. CASE op' = [op EXCEPT ![o].pc = "describe", ![o].ref = o]
        BY <4>1, <4>2 DEF TypeOK
      <4> QED BY <1>7, <2>2, <4>2, FinishType DEF AddCluster
    <3> QED BY <1>7, <3>1, <3>2, <3>3, <3>4 DEF TypeOK, AddCluster
  <2> QED BY <2>1, <2>2
<1>8. ASSUME NEW o \in Ops, Describe(o)
      PROVE  TypeOK'
  <2>1. op' \in [Ops -> Operation]
    <3>1. ASSUME NEW b \in BOOLEAN
          PROVE  [op[o] EXCEPT !.pc = "refresh", !.seen = b] \in Operation
      BY DEF TypeOK, Operation
    <3>2. ASSUME NEW b \in BOOLEAN,
                 op' = [op EXCEPT ![o].pc = "refresh", ![o].seen = b]
          PROVE  op' \in [Ops -> Operation]
      BY <3>1, <3>2 DEF TypeOK
    <3> QED BY <1>8, <3>2, WaitFailedType DEF Describe
  <2>2. faults' \in 0..MaxFaults
    BY <1>8, FaultType DEF Describe, TypeOK
  <2> QED BY <1>8, <2>1, <2>2 DEF TypeOK, Describe
<1>9. ASSUME NEW o \in Ops, Refresh(o)
      PROVE  TypeOK'
  <2>1. op' \in [Ops -> Operation]
    BY <1>9, GotoType DEF Refresh
  <2>2. obj' \in [Ops -> Cluster] /\ disk' \in Disk /\ faults' \in 0..MaxFaults
    <3>1. CASE store[op[o].name] = None
      BY <1>9, <3>1 DEF TypeOK, Refresh
    <3>2. CASE store[op[o].name] # None
      <4>1. obj' \in [Ops -> Cluster]
        BY <1>9, <3>2, OverwriteType DEF Refresh, Placed
      <4> QED BY <1>9, <3>2, <4>1, SaveType DEF TypeOK, Refresh
    <3> QED BY <3>1, <3>2
  <2> QED BY <1>9, <2>1, <2>2 DEF TypeOK, Refresh
<1>10. ASSUME NEW o \in Ops, SettleUp(o)
       PROVE  TypeOK'
  <2>1. op' \in [Ops -> Operation]
    BY <1>10, GotoType, FinishType, WaitFailedType DEF SettleUp
  <2>2. obj' \in [Ops -> Cluster] /\ disk' \in Disk /\ faults' \in 0..MaxFaults
    <3>1. CASE store[op[o].name] = None
      BY <1>10, <3>1 DEF TypeOK, SettleUp
    <3>2. CASE store[op[o].name] # None
      <4>1. obj' \in [Ops -> Cluster]
        BY <1>10, <3>2, OverwriteType DEF SettleUp, Placed
      <4> QED BY <1>10, <3>2, <4>1, SaveType DEF TypeOK, SettleUp
    <3> QED BY <3>1, <3>2
  <2> QED BY <1>10, <2>1, <2>2 DEF TypeOK, SettleUp
<1>11. ASSUME NEW o \in Ops, SettleWait(o)
       PROVE  TypeOK'
  <2>1. CASE /\ op[o].polls < MaxPolls
             /\ op' = [op EXCEPT ![o].pc = "describe", ![o].polls = @ + 1]
    <3>1. op[o].polls + 1 \in 0..MaxPolls
      BY <2>1, ProvisionerAssumption DEF TypeOK, Operation
    <3>2. [op[o] EXCEPT !.pc = "describe", !.polls = op[o].polls + 1]
            \in Operation
      BY <3>1 DEF TypeOK, Operation
    <3>3. op' = [op EXCEPT ![o] = [op[o] EXCEPT !.pc = "describe",
                                     !.polls = op[o].polls + 1]]
      BY <2>1 DEF TypeOK, Operation
    <3> QED BY <1>11, <3>2, <3>3 DEF TypeOK, SettleWait
  <2>2. CASE WaitFailed(o)
    BY <1>11, <2>2, WaitFailedType DEF TypeOK, SettleWait
  <2> QED BY <1>11, <2>1, <2>2 DEF SettleWait
<1>12. ASSUME NEW o \in Ops, Bootstrap(o)
       PROVE  TypeOK'
  <2>1. op' \in [Ops -> Operation]
    BY <1>12, GotoType, FinishType DEF Bootstrap
  <2>2. faults' \in 0..MaxFaults
    BY <1>12, FaultType DEF Bootstrap, TypeOK
  <2> QED BY <1>12, <2>1, <2>2 DEF TypeOK, Bootstrap
<1>13. ASSUME NEW o \in Ops, Fail(o)
       PROVE  TypeOK'
  <2>1. op' \in [Ops -> Operation]
    BY <1>13, GotoType DEF Fail
  <2>2. obj' \in [Ops -> Cluster] /\ disk' \in Disk /\ faults' \in 0..MaxFaults
    <3>1. CASE store[op[o].name] = None
      BY <1>13, <3>1 DEF TypeOK, Fail
    <3>2. CASE store[op[o].name] # None
      <4>1. obj' \in [Ops -> Cluster]
        BY <1>13, <3>2, SetStatusType DEF Fail
      <4> QED BY <1>13, <3>2, <4>1, SaveType DEF TypeOK, Fail
    <3> QED BY <3>1, <3>2
  <2> QED BY <1>13, <2>1, <2>2 DEF TypeOK, Fail
<1>14. ASSUME NEW o \in Ops, FailEvent(o)
       PROVE  TypeOK'
  <2>1. op' \in [Ops -> Operation]
    BY <1>14, FinishType DEF FailEvent
  <2>2. events' \subseteq Event /\ disk' \in Disk /\ faults' \in 0..MaxFaults
        /\ UNCHANGED <<store, obj>>
    BY <1>14, RecordEventType DEF FailEvent, Placed
  <2> QED BY <1>14, <2>1, <2>2 DEF TypeOK, FailEvent
<1>15. ASSUME NEW o \in Ops, Get(o)
       PROVE  TypeOK'
  <2>1. CASE /\ store[op[o].name] # None
             /\ op' = [op EXCEPT ![o].pc = "calls",
                        ![o].ref = store[op[o].name],
                        ![o].ids = obj[store[op[o].name]].insts,
                        ![o].todo = obj[store[op[o].name]].insts]
             /\ UNCHANGED faults
    <3>1. store[op[o].name] \in Ops
      BY <1>15, <2>1 DEF TypeOK, Placed, Get
    <3>2. obj[store[op[o].name]].insts \subseteq Instances
      BY <3>1 DEF TypeOK, Cluster
    <3>3. ASSUME NEW r \in Ops, NEW I \in SUBSET Instances
          PROVE  [op[o] EXCEPT !.pc = "calls", !.ref = r, !.ids = I,
                               !.todo = I] \in Operation
      BY DEF TypeOK, Operation
    <3>4. op' \in [Ops -> Operation]
      BY <2>1, <3>1, <3>2, <3>3 DEF TypeOK
    <3> QED BY <1>15, <2>1, <3>4 DEF TypeOK, Get
  <2>2. CASE (Finish(o, "notfound") \/ Finish(o, "err"))
             /\ (Fault \/ UNCHANGED faults)
    <3>1. faults' \in 0..MaxFaults
      BY <2>2, FaultType DEF TypeOK
    <3> QED BY <1>15, <2>2, <3>1, FinishType DEF TypeOK, Get
  <2> QED BY <1>15, <2>1, <2>2 DEF Get
<1>16. ASSUME NEW o \in Ops, Call(o)
       PROVE  TypeOK'
  <2> PICK i \in op[o].todo :
         \/ /\ \/ op[o].kind = "stop"  /\ StopInstance(i)
               \/ op[o].kind = "start" /\ StartInstance(i)
               \/ op[o].kind = "down"  /\ TerminateInstance(i)
            /\ op' = [op EXCEPT ![o].todo = @ \ {i}]
            /\ UNCHANGED faults
         \/ /\ cloud[i] = "terminated"
            /\ Finish(o, "err")
            /\ UNCHANGED <<cloud, faults>>
         \/ /\ Finish(o, "err")
            /\ Fault
            /\ UNCHANGED cloud
    BY <1>16 DEF Call
  <2>1. i \in Instances
    BY DEF TypeOK, Operation
  <2>2. CASE /\ StopInstance(i) \/ StartInstance(i) \/ TerminateInstance(i)
             /\ op' = [op EXCEPT ![o].todo = @ \ {i}]
             /\ UNCHANGED faults
    <3>1. op' \in [Ops -> Operation]
      BY <2>2 DEF TypeOK, Operation
    <3>2. cloud' \in [Instances -> InstanceState]
      BY <2>1, <2>2 DEF TypeOK, StopInstance, StartInstance, TerminateInstance
    <3> QED BY <1>16, <2>2, <3>1, <3>2 DEF TypeOK, Call
  <2>3. CASE Finish(o, "err") /\ UNCHANGED cloud /\ (Fault \/ UNCHANGED faults)
    <3>1. faults' \in 0..MaxFaults
      BY <2>3, FaultType DEF TypeOK
    <3> QED BY <1>16, <2>3, <3>1, FinishType DEF TypeOK, Call
  <2> QED BY <2>2, <2>3
<1>17. ASSUME NEW o \in Ops, CallsEvent(o)
       PROVE  TypeOK'
  <2> DEFINE to == CASE op[o].kind = "stop" -> "stopped"
                     [] op[o].kind = "start" -> "provisioning"
                     [] op[o].kind = "down" -> "down"
  <2>1. to \in Status \cup {"down"}
    BY <1>17 DEF CallsEvent, Placed, TypeOK, Operation, Kind
  <2>2. obj[op[o].ref].status \in Status
    BY <1>17 DEF CallsEvent, Placed, TypeOK, Cluster
  <2>3. RecordEvent(o, obj[op[o].ref].status, to)
    BY <1>17 DEF CallsEvent
  <2>4. op[o].name \in Names
    BY <1>17 DEF CallsEvent, Placed
  <2> HIDE DEF to
  <2>5. events' \subseteq Event /\ disk' \in Disk /\ faults' \in 0..MaxFaults
        /\ UNCHANGED <<store, obj>>
    BY <2>1, <2>2, <2>3, <2>4, RecordEventType
  <2>6. op' \in [Ops -> Operation]
    BY <1>17, GotoType DEF CallsEvent
  <2> QED BY <1>17, <2>5, <2>6 DEF TypeOK, CallsEvent
<1>18. ASSUME NEW o \in Ops, CommitStatus(o)
       PROVE  TypeOK'
  <2>1. op[o].ref \in Ops
    BY <1>18 DEF CommitStatus, Placed
  <2>2. op' \in [Ops -> Operation]
    <3>1. obj[op[o].ref].insts \subseteq Instances
      BY <2>1 DEF TypeOK, Cluster
    <3>2. [op[o] EXCEPT !.pc = "describe", !.ids = obj[op[o].ref].insts]
            \in Operation
      BY <3>1 DEF TypeOK, Operation
    <3>3. CASE op' = [op EXCEPT ![o].pc = "describe",
                                ![o].ids = obj[op[o].ref].insts]
      BY <3>2, <3>3 DEF TypeOK
    <3> QED BY <1>18, <3>3, FinishType DEF CommitStatus
  <2>3. obj' \in [Ops -> Cluster] /\ disk' \in Disk /\ faults' \in 0..MaxFaults
    <3>1. CASE store[op[o].name] = None
      BY <1>18, <3>1 DEF TypeOK, CommitStatus
    <3>2. CASE store[op[o].name] # None
      <4>1. obj' \in [Ops -> Cluster]
        BY <1>18, <3>2, SetStatusType DEF CommitStatus
      <4> QED BY <1>18, <3>2, <4>1, SaveType DEF TypeOK, CommitStatus
    <3> QED BY <3>1, <3>2
  <2> QED BY <1>18, <2>2, <2>3 DEF TypeOK, CommitStatus
<1>19. ASSUME NEW o \in Ops, CommitDelete(o)
       PROVE  TypeOK'
  <2>1. op' \in [Ops -> Operation]
    BY <1>19, FinishType DEF CommitDelete
  <2>2. CASE store[op[o].name] = None
    BY <1>19, <2>1, <2>2 DEF TypeOK, CommitDelete
  <2>3. CASE store[op[o].name] # None
    <3>1. store' \in [Names -> Ops \cup {None}]
      BY <1>19, <2>3 DEF TypeOK, CommitDelete
    <3>2. disk' \in Disk /\ faults' \in 0..MaxFaults
      BY <1>19, <2>3, <3>1, SaveType DEF TypeOK, CommitDelete
    <3> QED BY <1>19, <2>1, <3>1, <3>2 DEF TypeOK, CommitDelete
  <2> QED BY <2>2, <2>3
<1>20. ASSUME NEW i \in Instances, Boot(i)
       PROVE  TypeOK'
  BY <1>20 DEF TypeOK, Boot
<1>21. ASSUME NEW i \in Instances, Reclaim(i)
       PROVE  TypeOK'
  <2>1. faults' \in 0..MaxFaults
    BY <1>21, FaultType DEF Reclaim
  <2> QED BY <1>21, <2>1 DEF TypeOK, Reclaim
<1>22. ASSUME Crash
       PROVE  TypeOK'
  <2>1. op' \in [Ops -> Operation]
    <3>1. ASSUME NEW p \in Ops
          PROVE  [op[p] EXCEPT !.pc = "done", !.res = "crash"] \in Operation
      BY DEF TypeOK, Operation
    <3> QED BY <1>22, <3>1 DEF TypeOK, Crash
  <2>2. store' \in [Names -> Ops \cup {None}]
    BY <1>22 DEF TypeOK, Crash, Disk, SavedCluster
  <2>3. obj' \in [Ops -> Cluster]
    <3>1. ASSUME NEW m \in Names, disk.clusters[m] # None
          PROVE  [insts |-> disk.clusters[m].insts,
                  status |-> disk.clusters[m].status] \in Cluster
      BY <3>1 DEF TypeOK, Disk, SavedCluster, Cluster
    <3>2. ASSUME NEW p \in Ops,
                 \E m \in Names : disk.clusters[m] # None
                                  /\ disk.clusters[m].ref = p
          PROVE  obj'[p] \in Cluster
      <4> DEFINE n == CHOOSE m \in Names : disk.clusters[m] # None
                                           /\ disk.clusters[m].ref = p
      <4>1. n \in Names /\ disk.clusters[n] # None
        BY <3>2
      <4>2. obj'[p] = [insts |-> disk.clusters[n].insts,
                       status |-> disk.clusters[n].status]
        BY <1>22, <3>2 DEF Crash
      <4> HIDE DEF n
      <4> QED BY <3>1, <4>1, <4>2
    <3>3. ASSUME NEW p \in Ops,
                 ~ \E m \in Names : disk.clusters[m] # None
                                    /\ disk.clusters[m].ref = p
          PROVE  obj'[p] = obj[p]
      BY <1>22, <3>3 DEF Crash
    <3>4. obj' = [p \in Ops |-> obj'[p]]
      BY <1>22 DEF Crash
    <3>5. \A p \in Ops : obj'[p] \in Cluster
      BY <3>2, <3>3 DEF TypeOK
    <3> QED BY <3>4, <3>5
  <2>4. crashes' \in 0..MaxCrashes
    <3>1. crashes < MaxCrashes /\ crashes' = crashes + 1
      BY <1>22 DEF Crash
    <3>2. crashes \in 0..MaxCrashes /\ MaxCrashes \in Nat
      BY ProvisionerAssumption DEF TypeOK
    <3> QED BY <3>1, <3>2
  <2>5. events' \subseteq Event
    BY <1>22 DEF TypeOK, Crash, Disk
  <2> QED BY <1>22, <2>1, <2>2, <2>3, <2>4, <2>5 DEF TypeOK, Crash
<1>23. CASE UNCHANGED vars
  BY <1>23 DEF TypeOK, vars
<1> QED
  BY <1>1, <1>2, <1>3, <1>4, <1>5, <1>6, <1>7, <1>8, <1>9, <1>10, <1>11,
     <1>12, <1>13, <1>14, <1>15, <1>16, <1>17, <1>18, <1>19, <1>20, <1>21,
     <1>22, <1>23 DEF Next, Step

(* A step of operation o leaves the other operations alone, and o's own kind
   and cluster name. *)
Frame(o) ==
    /\ op[o].pc \notin {"idle", "done"}
    /\ op'[o].pc # "idle"
    /\ op'[o].name = op[o].name
    /\ op'[o].kind = op[o].kind
    /\ \A p \in Ops : p # o => op'[p] = op[p]

(* What Placed needs of a step of o. *)
KeepsPlace(o) ==
    /\ Frame(o)
    /\ op'[o].pc \in {"describe", "refresh", "settle", "calls", "commit"} =>
         op'[o].ref \in Ops
    /\ op'[o].pc \in {"get", "calls", "commit"} => op[o].kind # "launch"

LEMMA GotoFrame ==
    ASSUME TypeOK, NEW o \in Ops, NEW l, Goto(o, l)
    PROVE  /\ op'[o].pc = l /\ op'[o].res = op[o].res
           /\ op'[o].name = op[o].name /\ op'[o].kind = op[o].kind
           /\ op'[o].ref = op[o].ref /\ op'[o].ids = op[o].ids
           /\ op'[o].todo = op[o].todo
           /\ \A p \in Ops : p # o => op'[p] = op[p]
BY DEF TypeOK, Goto, Operation

LEMMA FinishFrame ==
    ASSUME TypeOK, NEW o \in Ops, NEW r, Finish(o, r)
    PROVE  /\ op'[o].pc = "done" /\ op'[o].res = r
           /\ op'[o].name = op[o].name /\ op'[o].kind = op[o].kind
           /\ op'[o].ref = op[o].ref /\ op'[o].ids = op[o].ids
           /\ op'[o].todo = op[o].todo
           /\ \A p \in Ops : p # o => op'[p] = op[p]
BY DEF TypeOK, Finish, Operation

LEMMA WaitFailedFrame ==
    ASSUME TypeOK, NEW o \in Ops, WaitFailed(o)
    PROVE  /\ op'[o].pc \in {"fail", "done"}
           /\ op'[o].name = op[o].name /\ op'[o].kind = op[o].kind
           /\ op'[o].ref = op[o].ref /\ op'[o].ids = op[o].ids
           /\ op'[o].todo = op[o].todo
           /\ \A p \in Ops : p # o => op'[p] = op[p]
BY GotoFrame, FinishFrame DEF WaitFailed

(* The branches of the two steps of RunInstances that choose instances. *)
LEMMA ListInstancesMoves ==
    ASSUME TypeOK, NEW o \in Ops, ListInstances(o)
    PROVE  /\ op[o].pc = "list"
           /\ \/ Finish(o, "err")
              \/ /\ op'[o].pc \in {"add", "resume", "create"}
                 /\ op'[o].name = op[o].name /\ op'[o].kind = op[o].kind
                 /\ op'[o].ref = op[o].ref /\ op'[o].res = op[o].res
                 /\ \/ op'[o].ids = op[o].ids
                    \/ op'[o].ids \subseteq {i \in Instances : tag[i] = op[o].name}
                 /\ \A p \in Ops : p # o => op'[p] = op[p]
<1> DEFINE mine == {i \in Instances : tag[i] = op[o].name}
<1>1. CASE Finish(o, "err")
  BY <1>1 DEF ListInstances
<1>2. CASE \E r \in SUBSET mine :
             op' = [op EXCEPT ![o].pc = "add", ![o].ids = r, ![o].how = "reuse"]
  <2> PICK r \in SUBSET mine :
             op' = [op EXCEPT ![o].pc = "add", ![o].ids = r, ![o].how = "reuse"]
    BY <1>2
  <2>1. /\ op'[o].pc = "add" /\ op'[o].ids = r
        /\ op'[o].name = op[o].name /\ op'[o].kind = op[o].kind
        /\ op'[o].ref = op[o].ref /\ op'[o].res = op[o].res
        /\ \A p \in Ops : p # o => op'[p] = op[p]
    BY DEF TypeOK, Operation
  <2>2. op[o].pc = "list"
    BY DEF ListInstances
  <2> QED BY <2>1, <2>2
<1>3. CASE \E s \in SUBSET Instances, t \in SUBSET mine :
             op' = [op EXCEPT ![o].pc = "resume", ![o].todo = s,
                              ![o].ids = t, ![o].how = "resume"]
  <2> PICK s \in SUBSET Instances, t \in SUBSET mine :
             op' = [op EXCEPT ![o].pc = "resume", ![o].todo = s,
                              ![o].ids = t, ![o].how = "resume"]
    BY <1>3
  <2>1. /\ op'[o].pc = "resume" /\ op'[o].ids = t
        /\ op'[o].name = op[o].name /\ op'[o].kind = op[o].kind
        /\ op'[o].ref = op[o].ref /\ op'[o].res = op[o].res
        /\ \A p \in Ops : p # o => op'[p] = op[p]
    BY DEF TypeOK, Operation
  <2>2. op[o].pc = "list"
    BY DEF ListInstances
  <2> QED BY <2>1, <2>2
<1>4. CASE op' = [op EXCEPT ![o].pc = "create", ![o].how = "create"]
  <2>1. /\ op'[o].pc = "create" /\ op'[o].ids = op[o].ids
        /\ op'[o].name = op[o].name /\ op'[o].kind = op[o].kind
        /\ op'[o].ref = op[o].ref /\ op'[o].res = op[o].res
        /\ \A p \in Ops : p # o => op'[p] = op[p]
    BY <1>4 DEF TypeOK, Operation
  <2>2. op[o].pc = "list"
    BY DEF ListInstances
  <2> QED BY <2>1, <2>2
<1>5. \A S : Tagged(op[o].name, S) \subseteq mine
  BY DEF Tagged
<1>6. mine \subseteq Instances
  OBVIOUS
<1> HIDE DEF mine
<1> QED BY <1>1, <1>2, <1>3, <1>4, <1>5, <1>6, KSubset DEF ListInstances

LEMMA CreateMoves ==
    ASSUME TypeOK, NEW o \in Ops, Create(o)
    PROVE  /\ op[o].pc = "create"
           /\ \/ Finish(o, "err") /\ UNCHANGED <<cloud, tag>>
              \/ \E new \in SUBSET {i \in Instances : cloud[i] = "free"} :
                   /\ Cardinality(new) = NumNodes
                   /\ op'[o].pc = "add" /\ op'[o].ids = new
                   /\ op'[o].name = op[o].name /\ op'[o].kind = op[o].kind
                   /\ op'[o].ref = op[o].ref /\ op'[o].res = op[o].res
                   /\ \A p \in Ops : p # o => op'[p] = op[p]
                   /\ \A i \in Instances :
                        /\ cloud'[i] = IF i \in new THEN "pending" ELSE cloud[i]
                        /\ tag'[i] = IF i \in new THEN op[o].name ELSE tag[i]
<1> DEFINE free == {i \in Instances : cloud[i] = "free"}
<1>1. CASE Finish(o, "err") /\ UNCHANGED <<cloud, tag>>
  BY <1>1 DEF Create
<1>2. CASE \E new \in SUBSET free :
             /\ Cardinality(new) = NumNodes
             /\ cloud' = [i \in Instances |->
                            IF i \in new THEN "pending" ELSE cloud[i]]
             /\ tag' = [i \in Instances |->
                          IF i \in new THEN op[o].name ELSE tag[i]]
             /\ op' = [op EXCEPT ![o].pc = "add", ![o].ids = new]
  <2> PICK new \in SUBSET free :
             /\ Cardinality(new) = NumNodes
             /\ cloud' = [i \in Instances |->
                            IF i \in new THEN "pending" ELSE cloud[i]]
             /\ tag' = [i \in Instances |->
                          IF i \in new THEN op[o].name ELSE tag[i]]
             /\ op' = [op EXCEPT ![o].pc = "add", ![o].ids = new]
    BY <1>2
  <2>1. /\ op'[o].pc = "add" /\ op'[o].ids = new
        /\ op'[o].name = op[o].name /\ op'[o].kind = op[o].kind
        /\ op'[o].ref = op[o].ref /\ op'[o].res = op[o].res
        /\ \A p \in Ops : p # o => op'[p] = op[p]
    BY DEF TypeOK, Operation
  <2>2. op[o].pc = "create"
    BY DEF Create
  <2> QED BY <2>1, <2>2
<1> QED BY <1>1, <1>2 DEF Create, kSubset

(* ... and what Placed says of each operation. *)
LEMMA PlaceOfStep ==
    ASSUME TypeOK, Placed, NEW o \in Ops, Step(o)
    PROVE  KeepsPlace(o)
<1> USE DEF KeepsPlace, Frame
<1>1. CASE ListInstances(o)
  BY <1>1, ListInstancesMoves, FinishFrame
<1>2. CASE Create(o)
  BY <1>2, CreateMoves, FinishFrame
<1>3. CASE AddCluster(o)
  <2>1. CASE Finish(o, "err") \/ Finish(o, "exists")
    BY <1>3, <2>1, FinishFrame DEF AddCluster
  <2>2. CASE op' = [op EXCEPT ![o].pc = "describe", ![o].ref = o]
    <3>1. op'[o].pc = "describe" /\ op'[o].ref = o
          /\ op'[o].name = op[o].name /\ op'[o].kind = op[o].kind
          /\ \A p \in Ops : p # o => op'[p] = op[p]
      BY <2>2 DEF TypeOK, Operation
    <3> QED BY <1>3, <3>1 DEF AddCluster
  <2> QED BY <1>3, <2>1, <2>2 DEF AddCluster
<1>4. CASE Describe(o)
  <2>1. CASE WaitFailed(o)
    BY <1>4, <2>1, WaitFailedFrame DEF Describe
  <2>2. CASE ~WaitFailed(o)
    <3> DEFINE b == \A i \in obj[op[o].ref].insts :
                      i \in op[o].ids /\ cloud[i] = "running"
    <3>1. op' = [op EXCEPT ![o].pc = "refresh", ![o].seen = b]
      BY <1>4, <2>2 DEF Describe
    <3> HIDE DEF b
    <3>2. op'[o].pc = "refresh" /\ op'[o].ref = op[o].ref
          /\ op'[o].name = op[o].name /\ op'[o].kind = op[o].kind
          /\ \A p \in Ops : p # o => op'[p] = op[p]
      BY <3>1 DEF TypeOK, Operation
    <3>3. op[o].pc = "describe"
      BY <1>4 DEF Describe
    <3> QED BY <3>2, <3>3 DEF Placed
  <2> QED BY <2>1, <2>2
<1>5. CASE Resume(o)
  <2>1. CASE Finish(o, "err")
    BY <1>5, <2>1, FinishFrame DEF Resume
  <2>2. CASE \E i \in op[o].todo : op' = [op EXCEPT ![o].todo = @ \ {i}]
    BY <1>5, <2>2 DEF Resume, TypeOK, Operation
  <2> QED BY <1>5, <2>1, <2>2 DEF Resume
<1>6. CASE Call(o)
  <2>1. CASE Finish(o, "err")
    BY <1>6, <2>1, FinishFrame DEF Call
  <2>2. CASE \E i \in op[o].todo : op' = [op EXCEPT ![o].todo = @ \ {i}]
    <3>1. op'[o].pc = op[o].pc /\ op'[o].ref = op[o].ref
          /\ op'[o].name = op[o].name /\ op'[o].kind = op[o].kind
          /\ \A p \in Ops : p # o => op'[p] = op[p]
      BY <2>2 DEF TypeOK, Operation
    <3> QED BY <1>6, <3>1 DEF Call, Placed
  <2> QED BY <1>6, <2>1, <2>2 DEF Call
<1>7. CASE SettleWait(o)
  <2>1. CASE WaitFailed(o)
    BY <1>7, <2>1, WaitFailedFrame DEF SettleWait
  <2>2. CASE ~WaitFailed(o)
    <3>1. op'[o].pc = "describe" /\ op'[o].ref = op[o].ref
          /\ op'[o].name = op[o].name /\ op'[o].kind = op[o].kind
          /\ \A p \in Ops : p # o => op'[p] = op[p]
      BY <1>7, <2>2 DEF SettleWait, TypeOK, Operation
    <3> QED BY <1>7, <3>1 DEF SettleWait, Placed
  <2> QED BY <2>1, <2>2
<1>8. CASE Get(o)
  <2>1. CASE Finish(o, "err") \/ Finish(o, "notfound")
    BY <1>8, <2>1, FinishFrame DEF Get
  <2>2. CASE ~(Finish(o, "err") \/ Finish(o, "notfound"))
    <3> DEFINE r == store[op[o].name]
    <3>1. r # None /\ op[o].pc = "get"
          /\ op' = [op EXCEPT ![o].pc = "calls", ![o].ref = r,
                              ![o].ids = obj[r].insts, ![o].todo = obj[r].insts]
      BY <1>8, <2>2 DEF Get
    <3>2. op'[o].pc = "calls" /\ op'[o].ref = r
          /\ op'[o].name = op[o].name /\ op'[o].kind = op[o].kind
          /\ \A p \in Ops : p # o => op'[p] = op[p]
      BY <3>1 DEF TypeOK, Operation
    <3>3. r \in Ops
      BY <3>1 DEF TypeOK, Placed
    <3> QED BY <3>1, <3>2, <3>3 DEF Placed
  <2> QED BY <2>1, <2>2
<1>9. CASE CommitStatus(o)
  <2>1. CASE Finish(o, "err") \/ Finish(o, "ok")
    BY <1>9, <2>1, FinishFrame DEF CommitStatus
  <2>2. CASE op' = [op EXCEPT ![o].pc = "describe",
                              ![o].ids = obj[op[o].ref].insts]
    <3>1. op'[o].pc = "describe" /\ op'[o].ref = op[o].ref
          /\ op'[o].name = op[o].name /\ op'[o].kind = op[o].kind
          /\ \A p \in Ops : p # o => op'[p] = op[p]
      BY <2>2 DEF TypeOK, Operation
    <3> QED BY <1>9, <3>1 DEF CommitStatus, Placed
  <2> QED BY <1>9, <2>1, <2>2 DEF CommitStatus
<1>10. CASE SettleUp(o)
  <2>1. op[o].pc = "settle"
        /\ (Goto(o, "bootstrap") \/ Finish(o, "ok") \/ WaitFailed(o))
    BY <1>10 DEF SettleUp
  <2> QED BY <2>1, GotoFrame, FinishFrame, WaitFailedFrame
<1>11. CASE Prepare(o) \/ Resumed(o) \/ Bootstrap(o)
  BY <1>11, GotoFrame, FinishFrame DEF Prepare, Resumed, Bootstrap
<1>12. CASE Refresh(o) \/ Fail(o)
  BY <1>12, GotoFrame DEF Refresh, Fail, Placed
<1>13. CASE FailEvent(o) \/ CommitDelete(o)
  BY <1>13, FinishFrame DEF FailEvent, CommitDelete
<1>14. CASE CallsEvent(o)
  BY <1>14, GotoFrame DEF CallsEvent, Placed
<1> QED
  BY <1>1, <1>2, <1>3, <1>4, <1>5, <1>6, <1>7, <1>8, <1>9, <1>10, <1>11,
     <1>12, <1>13, <1>14 DEF Step

(* A step outside the operations leaves them alone; a crash ends them. *)
LEMMA CrashFrame ==
    ASSUME TypeOK, Crash, NEW p \in Ops
    PROVE  /\ op'[p].pc = IF op[p].pc = "idle" THEN "idle" ELSE "done"
           /\ op'[p].name = op[p].name /\ op'[p].kind = op[p].kind
           /\ op'[p].ref = op[p].ref /\ op'[p].ids = op[p].ids
<1>1. op'[p] = IF Active(p) THEN [op[p] EXCEPT !.pc = "done", !.res = "crash"]
               ELSE op[p]
  BY DEF Crash
<1>2. CASE Active(p)
  <2>1. op'[p] = [op[p] EXCEPT !.pc = "done", !.res = "crash"]
    BY <1>1, <1>2
  <2> QED BY <1>2, <2>1 DEF TypeOK, Operation, Active
<1>3. CASE ~Active(p)
  BY <1>1, <1>3 DEF Active
<1> QED BY <1>2, <1>3

LEMMA StartFrame ==
    ASSUME TypeOK, NEW o \in Ops, NEW k \in Kind, NEW n \in Names,
           StartOp(o, k, n)
    PROVE  /\ op[o].pc = "idle" /\ op'[o].pc \in {"prepare", "get"}
           /\ op'[o].pc = "get" => k # "launch"
           /\ op'[o].name = n /\ op'[o].kind = k
           /\ op'[o].ref = op[o].ref /\ op'[o].ids = op[o].ids
           /\ \A p \in Ops : p # o => op'[p] = op[p]
BY DEF TypeOK, Operation, StartOp

LEMMA PlacedStep ==
    ASSUME TypeOK, Placed, [Next]_vars
    PROVE  Placed'
<1>1. ASSUME NEW o \in Ops, NEW k \in Kind, NEW n \in Names, StartOp(o, k, n)
      PROVE  Placed'
  BY <1>1, StartFrame DEF Placed
<1>2. ASSUME NEW o \in Ops, Step(o)
      PROVE  Placed'
  BY <1>2, PlaceOfStep DEF KeepsPlace, Frame, Placed
<1>3. CASE Crash
  BY <1>3, CrashFrame DEF Placed
<1>4. CASE UNCHANGED op
  BY <1>4 DEF Placed
<1> QED
  BY <1>1, <1>2, <1>3, <1>4 DEF Next, vars, Boot, Reclaim

(* The first state. *)
LEMMA InitType ==
    ASSUME Init
    PROVE  TypeOK /\ Placed
<1>1. Placed
  BY DEF Init, Placed
<1>2. cloud \in [Instances -> InstanceState] /\ tag \in [Instances -> Names \cup {None}]
      /\ store \in [Names -> Ops \cup {None}] /\ events \subseteq Event
  BY DEF Init, InstanceState
<1>3. obj \in [Ops -> Cluster] /\ disk \in Disk
  BY DEF Init, Cluster, Status, Disk
<1>4. faults \in 0..MaxFaults /\ crashes \in 0..MaxCrashes
  BY ProvisionerAssumption DEF Init
<1>5. op \in [Ops -> Operation]
  <2>1. [pc |-> "idle", kind |-> "launch", name |-> None, ref |-> None,
         ids |-> {}, todo |-> {}, seen |-> FALSE, polls |-> 0,
         how |-> "none", res |-> "none"] \in Operation
    <3>1. "idle" \in Label /\ "launch" \in Kind /\ "none" \in Result
      BY DEF Label, Kind, Result
    <3>2. 0 \in 0..MaxPolls
      BY ProvisionerAssumption
    <3> QED BY <3>1, <3>2 DEF Operation
  <2> QED BY <2>1 DEF Init
<1> QED BY <1>1, <1>2, <1>3, <1>4, <1>5 DEF TypeOK

(* The state of the provisioner is well-typed, whatever the operations, the
   cloud and the crashes do. *)
THEOREM TypeCorrect == Spec => []TypeOK
<1>1. Init => TypeOK /\ Placed
  BY InitType
<1>2. TypeOK /\ Placed /\ [Next]_vars => (TypeOK /\ Placed)'
  BY TypeStep, PlacedStep
<1> QED BY <1>1, <1>2, PTL DEF Spec

-----------------------------------------------------------------------------
(* Isolation *)

(* r is the object of a launch of n that has begun. *)
Owned(r, n) == r \in Ops /\ op[r].pc # "idle" /\ op[r].name = n

(* A free instance carries no tag, so creating it takes it from nobody. *)
Untagged == \A i \in Instances : cloud[i] = "free" => tag[i] = None

(* An operation that has not begun holds nothing. *)
IdleEmpty ==
    \A o \in Ops : op[o].pc = "idle" =>
        op[o].ref = None /\ op[o].ids = {} /\ obj[o].insts = {}

(* Records, held pointers and saved records name objects of their cluster. *)
StoreOwned == \A n \in Names : store[n] # None => Owned(store[n], n)
RefOwned   == \A o \in Ops : op[o].ref # None => Owned(op[o].ref, op[o].name)
DiskOwned  ==
    \A n \in Names : disk.clusters[n] # None =>
        /\ Owned(disk.clusters[n].ref, n)
        /\ \A i \in disk.clusters[n].insts : tag[i] = n

(* Objects, and the ids operations hold, list instances of their cluster. *)
ObjTagged == \A r \in Ops : \A i \in obj[r].insts : tag[i] = op[r].name
IdsTagged == \A o \in Ops : \A i \in op[o].ids : tag[i] = op[o].name

(* Isolation alone is not inductive: an object that no record names may still
   be held by an operation and written back by waitReady, and a saved record
   comes back after a crash, so the tags must agree for these too. *)
IsolationInv ==
    /\ Untagged
    /\ IdleEmpty
    /\ StoreOwned
    /\ RefOwned
    /\ DiskOwned
    /\ ObjTagged
    /\ IdsTagged

(* What a step of o may do to the records, the objects, its own pointer and
   ids, and the backend. *)
StoreEffect(o) ==
    \/ store' = store
    \/ store' = [store EXCEPT ![op[o].name] = o]
    \/ store' = [store EXCEPT ![op[o].name] = None]

ObjEffect(o) ==
    \A r \in Ops :
        \/ obj'[r].insts = obj[r].insts
        \/ r = o /\ obj'[r].insts = op[o].ids
        \/ /\ r = store[op[o].name]
           /\ op[o].ref \in Ops
           /\ obj'[r].insts = obj[op[o].ref].insts

RefEffect(o) == op'[o].ref \in {op[o].ref, o, store[op[o].name]}

IdsEffect(o) ==
    \/ op'[o].ids = op[o].ids
    \/ op'[o].ids \subseteq {i \in Instances : tag'[i] = op[o].name}
    \/ op[o].ref \in Ops /\ op'[o].ids = obj[op[o].ref].insts
    \/ /\ store[op[o].name] \in Ops
       /\ op'[o].ids = obj[store[op[o].name]].insts

DiskEffect == disk'.clusters \in {disk.clusters, Saved(store', obj')}

Effect(o) ==
    /\ StoreEffect(o)
    /\ ObjEffect(o)
    /\ RefEffect(o)
    /\ IdsEffect(o)
    /\ DiskEffect

LEMMA SaveEffect ==
    ASSUME TypeOK, NEW ok, Save(ok)
    PROVE  DiskEffect
<1>1. disk = [clusters |-> disk.clusters, events |-> disk.events]
  BY DEF TypeOK, Disk
<1>2. disk' = [clusters |-> Saved(store', obj'), events |-> events']
      \/ disk' = disk \/ disk' = [disk EXCEPT !.clusters = Saved(store', obj')]
  BY DEF Save
<1> QED BY <1>1, <1>2 DEF DiskEffect

LEMMA SetStatusEffect ==
    ASSUME TypeOK, NEW n, NEW t, SetStatus(n, t), NEW r \in Ops
    PROVE  obj'[r].insts = obj[r].insts
BY DEF TypeOK, SetStatus, Cluster

LEMMA OverwriteEffect ==
    ASSUME TypeOK, NEW o \in Ops, NEW t, op[o].ref \in Ops, Overwrite(o, t)
    PROVE  ObjEffect(o)
BY DEF TypeOK, Overwrite, Cluster, ObjEffect

LEMMA StepEffect ==
    ASSUME TypeOK, Placed, NEW o \in Ops, Step(o)
    PROVE  Effect(o)
<1> USE DEF Effect, StoreEffect, RefEffect
<1>0. UNCHANGED <<store, obj, disk>> => ObjEffect(o) /\ DiskEffect
  BY DEF ObjEffect, DiskEffect
<1>1. CASE ListInstances(o)
  <2>1. UNCHANGED <<tag, store, obj, disk>>
    BY <1>1 DEF ListInstances
  <2>2. RefEffect(o)
    BY <1>1, ListInstancesMoves, FinishFrame
  <2>3. IdsEffect(o)
    BY <1>1, <2>1, ListInstancesMoves, FinishFrame DEF IdsEffect
  <2> QED BY <1>0, <2>1, <2>2, <2>3
<1>2. CASE Create(o)
  <2>1. UNCHANGED <<store, obj, disk>>
    BY <1>2 DEF Create
  <2>2. RefEffect(o)
    BY <1>2, CreateMoves, FinishFrame
  <2>3. IdsEffect(o)
    BY <1>2, CreateMoves, FinishFrame DEF IdsEffect
  <2> QED BY <1>0, <2>1, <2>2, <2>3
<1>3. CASE AddCluster(o)
  <2>1. CASE Finish(o, "exists") /\ UNCHANGED <<store, obj, disk>>
    BY <1>0, <2>1, FinishFrame DEF IdsEffect
  <2>2. CASE /\ store' = [store EXCEPT ![op[o].name] = o]
             /\ obj' = [obj EXCEPT ![o] = [insts |-> op[o].ids,
                                           status |-> "provisioning"]]
             /\ \E ok \in BOOLEAN : Save(ok)
             /\ \/ op' = [op EXCEPT ![o].pc = "describe", ![o].ref = o]
                \/ Finish(o, "err")
    <3>1. DiskEffect
      BY <2>2, SaveEffect
    <3>2. ObjEffect(o)
      BY <2>2 DEF TypeOK, ObjEffect
    <3>3. op'[o].ref \in {op[o].ref, o} /\ op'[o].ids = op[o].ids
      <4>1. CASE Finish(o, "err")
        BY <4>1, FinishFrame
      <4>2. CASE op' = [op EXCEPT ![o].pc = "describe", ![o].ref = o]
        BY <4>2 DEF TypeOK, Operation
      <4> QED BY <2>2, <4>1, <4>2
    <3> QED BY <2>2, <3>1, <3>2, <3>3 DEF IdsEffect
  <2> QED BY <1>3, <2>1, <2>2 DEF AddCluster
<1>4. CASE Describe(o)
  <2>1. UNCHANGED <<store, obj, disk>>
    BY <1>4 DEF Describe
  <2>2. op'[o].ref = op[o].ref /\ op'[o].ids = op[o].ids
    <3>1. CASE WaitFailed(o)
      BY <3>1, WaitFailedFrame
    <3>2. CASE ~WaitFailed(o)
      <4> DEFINE b == \A i \in obj[op[o].ref].insts :
                        i \in op[o].ids /\ cloud[i] = "running"
      <4>1. op' = [op EXCEPT ![o].pc = "refresh", ![o].seen = b]
        BY <1>4, <3>2 DEF Describe
      <4> HIDE DEF b
      <4> QED BY <4>1 DEF TypeOK, Operation
    <3> QED BY <3>1, <3>2
  <2> QED BY <1>0, <2>1, <2>2 DEF IdsEffect
<1>5. CASE Resume(o)
  <2>1. UNCHANGED <<store, obj, disk>>
    BY <1>5 DEF Resume
  <2>2. op'[o].ref = op[o].ref /\ op'[o].ids = op[o].ids
    <3>1. CASE Finish(o, "err")
      BY <3>1, FinishFrame
    <3>2. CASE \E i \in op[o].todo : op' = [op EXCEPT ![o].todo = @ \ {i}]
      BY <3>2 DEF TypeOK, Operation
    <3> QED BY <1>5, <3>1, <3>2 DEF Resume
  <2> QED BY <1>0, <2>1, <2>2 DEF IdsEffect
<1>6. CASE Call(o)
  <2>1. UNCHANGED <<store, obj, disk>>
    BY <1>6 DEF Call
  <2>2. op'[o].ref = op[o].ref /\ op'[o].ids = op[o].ids
    <3>1. CASE Finish(o, "err")
      BY <3>1, FinishFrame
    <3>2. CASE \E i \in op[o].todo : op' = [op EXCEPT ![o].todo = @ \ {i}]
      BY <3>2 DEF TypeOK, Operation
    <3> QED BY <1>6, <3>1, <3>2 DEF Call
  <2> QED BY <1>0, <2>1, <2>2 DEF IdsEffect
<1>7. CASE SettleWait(o)
  <2>1. UNCHANGED <<store, obj, disk>>
    BY <1>7 DEF SettleWait
  <2>2. op'[o].ref = op[o].ref /\ op'[o].ids = op[o].ids
    <3>1. CASE WaitFailed(o)
      BY <3>1, WaitFailedFrame
    <3>2. CASE ~WaitFailed(o)
      BY <1>7, <3>2 DEF SettleWait, TypeOK, Operation
    <3> QED BY <3>1, <3>2
  <2> QED BY <1>0, <2>1, <2>2 DEF IdsEffect
<1>8. CASE Get(o)
  <2>1. UNCHANGED <<store, obj, disk>>
    BY <1>8 DEF Get
  <2>2. CASE Finish(o, "err") \/ Finish(o, "notfound")
    BY <1>0, <2>1, <2>2, FinishFrame DEF IdsEffect
  <2>3. CASE ~(Finish(o, "err") \/ Finish(o, "notfound"))
    <3> DEFINE r == store[op[o].name]
    <3>1. r # None /\ op[o].pc = "get"
          /\ op' = [op EXCEPT ![o].pc = "calls", ![o].ref = r,
                              ![o].ids = obj[r].insts, ![o].todo = obj[r].insts]
      BY <1>8, <2>3 DEF Get
    <3>2. op'[o].ref = r /\ op'[o].ids = obj[r].insts
      BY <3>1 DEF TypeOK, Operation
    <3>3. r \in Ops
      BY <3>1 DEF TypeOK, Placed
    <3> QED BY <1>0, <2>1, <3>2, <3>3 DEF IdsEffect
  <2> QED BY <2>2, <2>3
<1>9. CASE CommitStatus(o)
  <2>1. CASE Finish(o, "err") /\ UNCHANGED <<store, obj, disk>>
    BY <1>0, <2>1, FinishFrame DEF IdsEffect
  <2>2. CASE ~(Finish(o, "err") /\ UNCHANGED <<store, obj, disk>>)
    <3>1. /\ \E t : SetStatus(op[o].name, t)
          /\ \E ok \in BOOLEAN : Save(ok)
          /\ UNCHANGED store
      BY <1>9, <2>2 DEF CommitStatus
    <3>2. ObjEffect(o) /\ DiskEffect
      BY <3>1, SetStatusEffect, SaveEffect DEF ObjEffect
    <3>3. op'[o].ref = op[o].ref
          /\ op'[o].ids \in {op[o].ids, obj[op[o].ref].insts}
      <4>1. CASE Finish(o, "err") \/ Finish(o, "ok")
        BY <4>1, FinishFrame
      <4>2. CASE op' = [op EXCEPT ![o].pc = "describe",
                                  ![o].ids = obj[op[o].ref].insts]
        BY <4>2 DEF TypeOK, Operation
      <4> QED BY <1>9, <2>2, <4>1, <4>2 DEF CommitStatus
    <3>4. op[o].ref \in Ops
      BY <1>9 DEF CommitStatus, Placed
    <3> QED BY <3>1, <3>2, <3>3, <3>4 DEF IdsEffect
  <2> QED BY <2>1, <2>2
<1>10. CASE SettleUp(o)
  <2>1. op'[o].ref = op[o].ref /\ op'[o].ids = op[o].ids
    <3>1. Goto(o, "bootstrap") \/ Finish(o, "ok") \/ WaitFailed(o)
      BY <1>10 DEF SettleUp
    <3> QED BY <3>1, GotoFrame, FinishFrame, WaitFailedFrame
  <2>2. op[o].ref \in Ops /\ UNCHANGED store
    BY <1>10 DEF SettleUp, Placed
  <2>3. CASE UNCHANGED <<obj, disk>>
    BY <1>0, <2>1, <2>2, <2>3 DEF IdsEffect
  <2>4. CASE Overwrite(o, "up") /\ \E ok \in BOOLEAN : Save(ok)
    BY <2>1, <2>2, <2>4, OverwriteEffect, SaveEffect DEF IdsEffect
  <2> QED BY <1>10, <2>3, <2>4 DEF SettleUp
<1>11. CASE Refresh(o)
  <2>1. op'[o].ref = op[o].ref /\ op'[o].ids = op[o].ids
    BY <1>11, GotoFrame DEF Refresh
  <2>2. op[o].ref \in Ops /\ UNCHANGED store
    BY <1>11 DEF Refresh, Placed
  <2>3. CASE UNCHANGED <<obj, disk>>
    BY <1>0, <2>1, <2>2, <2>3 DEF IdsEffect
  <2>4. CASE Overwrite(o, "provisioning") /\ \E ok \in BOOLEAN : Save(ok)
    BY <2>1, <2>2, <2>4, OverwriteEffect, SaveEffect DEF IdsEffect
  <2> QED BY <1>11, <2>3, <2>4 DEF Refresh
<1>12. CASE Fail(o)
  <2>1. op'[o].ref = op[o].ref /\ op'[o].ids = op[o].ids /\ UNCHANGED store
    BY <1>12, GotoFrame DEF Fail
  <2>2. CASE UNCHANGED <<obj, disk>>
    BY <1>0, <2>1, <2>2 DEF IdsEffect
  <2>3. CASE SetStatus(op[o].name, "error") /\ \E ok \in BOOLEAN : Save(ok)
    BY <2>1, <2>3, SetStatusEffect, SaveEffect DEF IdsEffect, ObjEffect
  <2> QED BY <1>12, <2>2, <2>3 DEF Fail
<1>13. CASE Prepare(o) \/ Resumed(o) \/ Bootstrap(o)
  <2>1. UNCHANGED <<store, obj, disk>>
    BY <1>13 DEF Prepare, Resumed, Bootstrap
  <2>2. op'[o].ref = op[o].ref /\ op'[o].ids = op[o].ids
    BY <1>13, GotoFrame, FinishFrame DEF Prepare, Resumed, Bootstrap
  <2> QED BY <1>0, <2>1, <2>2 DEF IdsEffect
<1>14. CASE FailEvent(o) \/ CallsEvent(o)
  <2>1. op'[o].ref = op[o].ref /\ op'[o].ids = op[o].ids
    BY <1>14, GotoFrame, FinishFrame DEF FailEvent, CallsEvent
  <2>2. UNCHANGED <<store, obj>> /\ \E ok \in BOOLEAN : Save(ok)
    BY <1>14 DEF FailEvent, CallsEvent, RecordEvent
  <2> QED BY <2>1, <2>2, SaveEffect DEF IdsEffect, ObjEffect
<1>15. CASE CommitDelete(o)
  <2>1. op'[o].ref = op[o].ref /\ op'[o].ids = op[o].ids /\ UNCHANGED obj
    BY <1>15, FinishFrame DEF CommitDelete
  <2>2. CASE UNCHANGED <<store, disk>>
    BY <1>0, <2>1, <2>2 DEF IdsEffect
  <2>3. CASE /\ store' = [store EXCEPT ![op[o].name] = None]
             /\ \E ok \in BOOLEAN : Save(ok)
    BY <2>1, <2>3, SaveEffect DEF IdsEffect, ObjEffect
  <2> QED BY <1>15, <2>2, <2>3 DEF CommitDelete
<1> QED
  BY <1>1, <1>2, <1>3, <1>4, <1>5, <1>6, <1>7, <1>8, <1>9, <1>10, <1>11,
     <1>12, <1>13, <1>14, <1>15 DEF Step

(* Only Create tags instances, and only free ones. *)
LEMMA StepTags ==
    ASSUME TypeOK, Placed, Untagged, [Next]_vars
    PROVE  /\ \A i \in Instances : tag[i] # None => tag'[i] = tag[i]
           /\ Untagged'
<1>1. CASE \E o \in Ops : Create(o)
  <2> PICK o \in Ops : Create(o)
    BY <1>1
  <2>1. op[o].name \in Names
    BY DEF Create, Placed
  <2>2. CASE UNCHANGED <<cloud, tag>>
    BY <2>2 DEF Untagged
  <2>3. CASE \E new \in SUBSET {i \in Instances : cloud[i] = "free"} :
               \A i \in Instances :
                  /\ cloud'[i] = IF i \in new THEN "pending" ELSE cloud[i]
                  /\ tag'[i] = IF i \in new THEN op[o].name ELSE tag[i]
    BY <2>3 DEF Untagged
  <2> QED BY <2>2, <2>3, CreateMoves
<1>2. CASE UNCHANGED tag /\ \A i \in Instances :
                              cloud'[i] = "free" => cloud[i] = "free"
  BY <1>2 DEF Untagged
<1>3. CASE \E o \in Ops : Resume(o) \/ Call(o)
  <2> PICK o \in Ops : Resume(o) \/ Call(o)
    BY <1>3
  <2>1. UNCHANGED tag
    BY DEF Resume, Call
  <2>2. \/ UNCHANGED cloud
        \/ \E i \in op[o].todo :
             StartInstance(i) \/ StopInstance(i) \/ TerminateInstance(i)
    BY DEF Resume, Call
  <2>3. \A i \in Instances : cloud'[i] = "free" => cloud[i] = "free"
    <3>1. ASSUME NEW i \in op[o].todo, StartInstance(i)
          PROVE  \A j \in Instances : cloud'[j] = "free" => cloud[j] = "free"
      BY <3>1 DEF StartInstance, TypeOK
    <3>2. ASSUME NEW i \in op[o].todo, StopInstance(i)
          PROVE  \A j \in Instances : cloud'[j] = "free" => cloud[j] = "free"
      BY <3>2 DEF StopInstance, TypeOK
    <3>3. ASSUME NEW i \in op[o].todo, TerminateInstance(i)
          PROVE  \A j \in Instances : cloud'[j] = "free" => cloud[j] = "free"
      BY <3>3 DEF TerminateInstance, TypeOK
    <3> QED BY <2>2, <3>1, <3>2, <3>3
  <2> QED BY <1>2, <2>1, <2>3
<1>4. CASE \E i \in Instances : Boot(i) \/ Reclaim(i)
  BY <1>2, <1>4 DEF Boot, Reclaim, TypeOK
<1>5. CASE UNCHANGED <<cloud, tag>>
  BY <1>2, <1>5
<1>6. ASSUME NEW o \in Ops, Step(o), ~Create(o), ~Resume(o), ~Call(o)
      PROVE  UNCHANGED <<cloud, tag>>
  BY <1>6 DEF Step, Prepare, ListInstances, Resumed, AddCluster, Describe,
     Refresh, SettleUp, SettleWait, Bootstrap, Fail, FailEvent, Get,
     CallsEvent, CommitStatus, CommitDelete
<1> QED
  BY <1>1, <1>3, <1>4, <1>5, <1>6 DEF Next, vars, StartOp, Crash

(* Once begun, a launch keeps its name. *)
LEMMA OwnedStable ==
    ASSUME TypeOK, Placed, [Next]_vars, NEW r, NEW n, Owned(r, n)
    PROVE  Owned(r, n)'
<1>1. ASSUME NEW o \in Ops, NEW k \in Kind, NEW m \in Names, StartOp(o, k, m)
      PROVE  Owned(r, n)'
  BY <1>1, StartFrame DEF Owned
<1>2. ASSUME NEW o \in Ops, Step(o)
      PROVE  Owned(r, n)'
  BY <1>2, PlaceOfStep DEF KeepsPlace, Frame, Owned
<1>3. CASE Crash
  BY <1>3, CrashFrame DEF Owned
<1>4. CASE UNCHANGED op
  BY <1>4 DEF Owned
<1> QED
  BY <1>1, <1>2, <1>3, <1>4 DEF Next, vars, Boot, Reclaim

(* An instance with a cluster's tag keeps it. *)
LEMMA TagOfCluster ==
    ASSUME TypeOK, Placed, Untagged, [Next]_vars, NEW i \in Instances,
           NEW n \in Names, tag[i] = n
    PROVE  tag'[i] = n
BY StepTags, ProvisionerAssumption

(* What SaveClusters writes is owned and tagged when the records are. *)
LEMMA SavedOwned ==
    ASSUME TypeOK', StoreOwned', ObjTagged', NEW n \in Names,
           Saved(store', obj')[n] # None
    PROVE  LET c == Saved(store', obj')[n]
           IN  /\ c.ref \in Ops /\ op'[c.ref].pc # "idle" /\ op'[c.ref].name = n
               /\ \A i \in c.insts : tag'[i] = n
<1>1. store'[n] # None
  BY DEF Saved
<1>2. Saved(store', obj')[n] = [ref |-> store'[n],
                                insts |-> obj'[store'[n]].insts,
                                status |-> obj'[store'[n]].status]
  BY <1>1 DEF Saved
<1>3. store'[n] \in Ops /\ op'[store'[n]].pc # "idle" /\ op'[store'[n]].name = n
  BY <1>1 DEF StoreOwned, Owned
<1>4. \A i \in obj'[store'[n]].insts : tag'[i] = n
  BY <1>3 DEF ObjTagged
<1> QED BY <1>2, <1>3, <1>4

(* A step of an operation keeps IsolationInv. *)
LEMMA IsolationOfStep ==
    ASSUME TypeOK, TypeOK', Placed, IsolationInv, NEW o \in Ops, Step(o)
    PROVE  IsolationInv'
<1> DEFINE m == op[o].name
<1>1. Effect(o) /\ KeepsPlace(o) /\ [Next]_vars
  BY StepEffect, PlaceOfStep DEF Next
<1>2. m \in Names /\ Owned(o, m)
  BY <1>1 DEF KeepsPlace, Frame, Placed, Owned
<1>3. /\ Untagged'
      /\ \A i \in Instances, n \in Names : tag[i] = n => tag'[i] = n
  BY <1>1, StepTags, TagOfCluster DEF IsolationInv
<1>4. \A r, n : Owned(r, n) => Owned(r, n)'
  BY <1>1, OwnedStable
<1>5. op'[o].name = m /\ \A p \in Ops : p # o => op'[p] = op[p]
  BY <1>1 DEF KeepsPlace, Frame
<1>6. StoreOwned'
  BY <1>1, <1>2, <1>4 DEF IsolationInv, StoreOwned, Effect, StoreEffect, TypeOK
<1>7. RefOwned'
  <2> SUFFICES ASSUME NEW p \in Ops, op'[p].ref # None
               PROVE  Owned(op[p].ref, op[p].name)'
    BY DEF RefOwned
  <2>1. CASE p # o
    BY <1>4, <1>5, <2>1 DEF IsolationInv, RefOwned, Owned
  <2>2. CASE p = o
    <3>1. op'[o].ref \in {op[o].ref, o, store[m]}
      BY <1>1 DEF Effect, RefEffect
    <3>2. Owned(op'[o].ref, m)
      BY <1>2, <2>2, <3>1 DEF IsolationInv, RefOwned, StoreOwned
    <3> QED BY <1>4, <1>5, <2>2, <3>2 DEF Owned
  <2> QED BY <2>1, <2>2
<1>8. ObjTagged'
  <2> SUFFICES ASSUME NEW r \in Ops, NEW i \in obj'[r].insts
               PROVE  tag'[i] = op'[r].name
    BY DEF ObjTagged
  <2>1. i \in Instances
    BY DEF TypeOK, Cluster
  <2>2. PICK n \in Names : tag[i] = n /\ Owned(r, n)
    <3>1. CASE obj'[r].insts = obj[r].insts
      BY <3>1 DEF IsolationInv, ObjTagged, IdleEmpty, Placed, Owned
    <3>2. CASE r = o /\ obj'[r].insts = op[o].ids
      BY <1>2, <3>2 DEF IsolationInv, IdsTagged
    <3>3. CASE r = store[m] /\ op[o].ref \in Ops
               /\ obj'[r].insts = obj[op[o].ref].insts
      <4>1. tag[i] = op[op[o].ref].name
        BY <3>3 DEF IsolationInv, ObjTagged
      <4>2. Owned(op[o].ref, m)
        BY <3>3, ProvisionerAssumption DEF IsolationInv, RefOwned
      <4>3. Owned(r, m)
        BY <1>2, <3>3, ProvisionerAssumption DEF IsolationInv, StoreOwned
      <4> QED BY <1>2, <4>1, <4>2, <4>3 DEF Owned
    <3> QED BY <1>1, <3>1, <3>2, <3>3 DEF Effect, ObjEffect
  <2> QED BY <1>3, <1>4, <2>1, <2>2 DEF Owned
<1>9. IdsTagged'
  <2> SUFFICES ASSUME NEW p \in Ops, NEW i \in op'[p].ids
               PROVE  tag'[i] = op'[p].name
    BY DEF IdsTagged
  <2>1. i \in Instances
    BY DEF TypeOK, Operation
  <2>2. CASE p # o
    <3>1. tag[i] = op[p].name /\ op'[p].name = op[p].name
      BY <1>5, <2>2 DEF IsolationInv, IdsTagged
    <3>2. op[p].name \in Names
      BY <1>5, <2>2 DEF IsolationInv, IdleEmpty, Placed
    <3> QED BY <1>3, <2>1, <3>1, <3>2
  <2>3. CASE p = o
    <3>1. CASE op'[o].ids = op[o].ids
      BY <1>2, <1>3, <1>5, <2>1, <2>3, <3>1 DEF IsolationInv, IdsTagged
    <3>2. CASE op'[o].ids \subseteq {j \in Instances : tag'[j] = m}
      BY <1>5, <2>3, <3>2
    <3>3. ASSUME NEW r \in Ops, Owned(r, m), op'[o].ids = obj[r].insts
          PROVE  tag'[i] = op'[p].name
      BY <1>2, <1>3, <1>5, <2>1, <2>3, <3>3 DEF IsolationInv, ObjTagged, Owned
    <3>4. op[o].ref \in Ops => Owned(op[o].ref, m)
      BY ProvisionerAssumption DEF IsolationInv, RefOwned
    <3>5. store[m] \in Ops => Owned(store[m], m)
      BY <1>2, ProvisionerAssumption DEF IsolationInv, StoreOwned
    <3> QED BY <1>1, <3>1, <3>2, <3>3, <3>4, <3>5 DEF Effect, IdsEffect
  <2> QED BY <2>2, <2>3
<1>10. DiskOwned'
  <2> SUFFICES ASSUME NEW n \in Names, disk'.clusters[n] # None
               PROVE  LET c == disk'.clusters[n]
                      IN  /\ c.ref \in Ops /\ op'[c.ref].pc # "idle"
                          /\ op'[c.ref].name = n
                          /\ \A i \in c.insts : tag'[i] = n
    BY DEF DiskOwned, Owned
  <2>1. CASE disk'.clusters = Saved(store', obj')
    BY <1>6, <1>8, <2>1, SavedOwned
  <2>2. CASE disk'.clusters = disk.clusters
    <3>1. disk.clusters[n] \in SavedCluster
      BY <2>2 DEF TypeOK, Disk
    <3>2. Owned(disk.clusters[n].ref, n)
          /\ \A i \in disk.clusters[n].insts : tag[i] = n
      BY <2>2 DEF IsolationInv, DiskOwned
    <3>3. Owned(disk.clusters[n].ref, n)
          /\ op'[disk.clusters[n].ref].pc # "idle"
          /\ op'[disk.clusters[n].ref].name = n
      BY <1>4, <3>2 DEF Owned
    <3>4. \A i \in disk.clusters[n].insts : tag'[i] = n
      BY <1>3, <3>1, <3>2 DEF SavedCluster
    <3> QED BY <2>2, <3>3, <3>4 DEF Owned
  <2> QED BY <1>1, <2>1, <2>2 DEF Effect, DiskEffect
<1>11. IdleEmpty'
  <2> SUFFICES ASSUME NEW p \in Ops, op'[p].pc = "idle"
               PROVE  op'[p].ref = None /\ op'[p].ids = {} /\ obj'[p].insts = {}
    BY DEF IdleEmpty
  <2>1. p # o
    BY <1>1 DEF KeepsPlace, Frame
  <2>2. op'[p] = op[p] /\ op[p].pc = "idle"
    BY <1>5, <2>1
  <2>3. p # store[m]
    BY <1>2, <2>2, ProvisionerAssumption DEF IsolationInv, StoreOwned, Owned
  <2>4. obj'[p].insts = obj[p].insts
    BY <1>1, <2>1, <2>3 DEF Effect, ObjEffect
  <2> QED BY <2>2, <2>4 DEF IsolationInv, IdleEmpty
<1> QED BY <1>3, <1>6, <1>7, <1>8, <1>9, <1>10, <1>11 DEF IsolationInv

(* A crash brings back the saved records, which are owned and tagged. *)
LEMMA IsolationOfCrash ==
    ASSUME TypeOK, Placed, IsolationInv, Crash
    PROVE  IsolationInv'
<1> DEFINE Back(n, p) == disk.clusters[n] # None /\ disk.clusters[n].ref = p
<1>1. UNCHANGED <<cloud, tag, disk>> /\ [Next]_vars
  BY DEF Crash, Next
<1>2. \A p \in Ops : /\ op'[p].name = op[p].name
                     /\ op'[p].ref = op[p].ref /\ op'[p].ids = op[p].ids
                     /\ op'[p].pc = "idle" <=> op[p].pc = "idle"
  BY CrashFrame
<1>3. \A r, n : Owned(r, n) => r \in Ops /\ op'[r].pc # "idle" /\ op'[r].name = n
  BY <1>2 DEF Owned
<1>4. \A n \in Names, p \in Ops : Back(n, p) => Owned(p, n)
        /\ \A i \in disk.clusters[n].insts : tag[i] = n
  BY DEF IsolationInv, DiskOwned
<1>5. ASSUME NEW p \in Ops
      PROVE  \/ obj'[p].insts = obj[p].insts
             \/ \E n \in Names : Back(n, p)
                                 /\ obj'[p].insts = disk.clusters[n].insts
  <2>1. CASE \E n \in Names : Back(n, p)
    <3> DEFINE k == CHOOSE j \in Names : /\ disk.clusters[j] # None
                                         /\ disk.clusters[j].ref = p
    <3>1. k \in Names /\ Back(k, p)
      BY <2>1
    <3>2. obj'[p] = [insts |-> disk.clusters[k].insts,
                     status |-> disk.clusters[k].status]
      BY <2>1 DEF Crash
    <3> HIDE DEF k
    <3> QED BY <3>1, <3>2
  <2>2. CASE ~ \E n \in Names : Back(n, p)
    BY <2>2 DEF Crash
  <2> QED BY <2>1, <2>2
<1>6. Untagged' /\ IdsTagged'
  BY <1>1, <1>2 DEF IsolationInv, Untagged, IdsTagged
<1>7. StoreOwned'
  <2> SUFFICES ASSUME NEW n \in Names, store'[n] # None
               PROVE  store'[n] \in Ops /\ op'[store'[n]].pc # "idle"
                      /\ op'[store'[n]].name = n
    BY DEF StoreOwned, Owned
  <2>1. disk.clusters[n] # None /\ store'[n] = disk.clusters[n].ref
    BY DEF Crash
  <2>2. Owned(disk.clusters[n].ref, n)
    BY <2>1 DEF IsolationInv, DiskOwned
  <2> QED BY <1>3, <2>1, <2>2
<1>8. RefOwned'
  BY <1>2, <1>3 DEF IsolationInv, RefOwned, Owned
<1>9. DiskOwned'
  BY <1>1, <1>3 DEF IsolationInv, DiskOwned, Owned
<1>10. ObjTagged'
  <2> SUFFICES ASSUME NEW r \in Ops, NEW i \in obj'[r].insts
               PROVE  tag[i] = op[r].name
    BY <1>1, <1>2 DEF ObjTagged
  <2>1. CASE obj'[r].insts = obj[r].insts
    BY <2>1 DEF IsolationInv, ObjTagged
  <2>2. CASE \E n \in Names : Back(n, r)
                              /\ obj'[r].insts = disk.clusters[n].insts
    BY <1>4, <2>2 DEF Owned
  <2> QED BY <1>5, <2>1, <2>2
<1>11. IdleEmpty'
  <2> SUFFICES ASSUME NEW p \in Ops, op[p].pc = "idle"
               PROVE  obj'[p].insts = {}
    BY <1>2 DEF IsolationInv, IdleEmpty
  <2>1. ~ \E n \in Names : Back(n, p)
    BY <1>4 DEF Owned
  <2> QED BY <1>5, <2>1 DEF IsolationInv, IdleEmpty
<1> QED BY <1>6, <1>7, <1>8, <1>9, <1>10, <1>11 DEF IsolationInv

(* A new operation owns nothing yet. *)
LEMMA IsolationOfStart ==
    ASSUME TypeOK, Placed, IsolationInv,
           NEW o \in Ops, NEW k \in Kind, NEW n \in Names, StartOp(o, k, n)
    PROVE  IsolationInv'
<1>1. UNCHANGED <<cloud, tag, store, obj, disk>>
  BY DEF StartOp
<1>2. /\ op[o].pc = "idle" /\ op'[o].pc # "idle"
      /\ op'[o].ref = op[o].ref /\ op'[o].ids = op[o].ids
      /\ \A p \in Ops : p # o => op'[p] = op[p]
  BY StartFrame
<1>3. op[o].ref = None /\ op[o].ids = {} /\ obj[o].insts = {}
  BY <1>2 DEF IsolationInv, IdleEmpty
<1>4. \A r, m : Owned(r, m) => r \in Ops /\ op'[r].pc # "idle" /\ op'[r].name = m
  BY <1>2 DEF Owned
<1>5. StoreOwned' /\ DiskOwned' /\ Untagged'
  BY <1>1, <1>4 DEF IsolationInv, StoreOwned, DiskOwned, Untagged, Owned
<1>6. RefOwned'
  BY <1>2, <1>3, <1>4 DEF IsolationInv, RefOwned, Owned
<1>7. ObjTagged' /\ IdsTagged' /\ IdleEmpty'
  BY <1>1, <1>2, <1>3 DEF IsolationInv, ObjTagged, IdsTagged, IdleEmpty
<1> QED BY <1>5, <1>6, <1>7 DEF IsolationInv

(* The first state, and every action. *)
LEMMA IsolationInit ==
    ASSUME Init
    PROVE  IsolationInv
BY DEF Init, IsolationInv, Untagged, IdleEmpty, StoreOwned, RefOwned, DiskOwned,
       ObjTagged, IdsTagged

LEMMA IsolationStep ==
    ASSUME TypeOK, Placed, IsolationInv, [Next]_vars
    PROVE  IsolationInv'
<1>1. TypeOK' /\ Placed'
  BY TypeStep, PlacedStep
<1>2. ASSUME NEW o \in Ops, Step(o)
      PROVE  IsolationInv'
  BY <1>1, <1>2, IsolationOfStep
<1>3. ASSUME UNCHANGED <<tag, store, obj, disk, op>>
      PROVE  IsolationInv'
  <2>1. Untagged'
    BY StepTags DEF IsolationInv
  <2>2. IdleEmpty' /\ ObjTagged' /\ IdsTagged'
    BY <1>3 DEF IsolationInv, IdleEmpty, ObjTagged, IdsTagged
  <2>3. StoreOwned' /\ RefOwned' /\ DiskOwned'
    BY <1>3 DEF IsolationInv, StoreOwned, RefOwned, DiskOwned, Owned
  <2> QED BY <2>1, <2>2, <2>3 DEF IsolationInv
<1> QED
  BY <1>2, <1>3, IsolationOfStart, IsolationOfCrash DEF Next, vars, Boot, Reclaim

(* Clusters never touch each other: Isolation holds for every number of
   concurrent operations, faults and crashes. *)
THEOREM ClustersAreIsolated == Spec => []Isolation
<1>1. Init => TypeOK /\ Placed /\ IsolationInv
  BY InitType, IsolationInit
<1>2. TypeOK /\ Placed /\ IsolationInv /\ [Next]_vars
        => (TypeOK /\ Placed /\ IsolationInv)'
  BY TypeStep, PlacedStep, IsolationStep
<1>3. TypeOK /\ IsolationInv => Isolation
  BY DEF IsolationInv, StoreOwned, ObjTagged, IdsTagged, Owned, Isolation
<1> QED BY <1>1, <1>2, <1>3, PTL DEF Spec

-----------------------------------------------------------------------------
(* The event log *)

(* Every down event of the log E tells the truth. *)
TrueLog(E) ==
    \A e \in E : e.to = "down" => \A i \in e.ids : cloud[i] = "terminated"

(* Down has terminated what it has already passed to the cloud. *)
DownProgress ==
    \A o \in Ops : (op[o].pc = "calls" /\ op[o].kind = "down") =>
        \A i \in op[o].ids : i \in op[o].todo \/ cloud[i] = "terminated"

(* DownEventIsTrue alone is not inductive: the event is recorded from what the
   loop over the ids achieved, and a crash brings back the saved log. *)
EventInv ==
    /\ DownProgress
    /\ TrueLog(events)
    /\ TrueLog(disk.events)

(* Nothing brings a terminated instance back. *)
LEMMA TerminatedStable ==
    ASSUME TypeOK, [Next]_vars, NEW i \in Instances, cloud[i] = "terminated"
    PROVE  cloud'[i] = "terminated"
<1>1. CASE \E o \in Ops : Create(o)
  <2> PICK o \in Ops : Create(o)
    BY <1>1
  <2>1. CASE UNCHANGED <<cloud, tag>>
    BY <2>1
  <2>2. CASE \E new \in SUBSET {j \in Instances : cloud[j] = "free"} :
               \A j \in Instances :
                  cloud'[j] = IF j \in new THEN "pending" ELSE cloud[j]
    BY <2>2
  <2> QED BY <2>1, <2>2, CreateMoves
<1>2. CASE \E o \in Ops : Resume(o) \/ Call(o)
  <2> PICK o \in Ops : Resume(o) \/ Call(o)
    BY <1>2
  <2>1. \/ UNCHANGED cloud
        \/ \E j \in op[o].todo :
             StartInstance(j) \/ StopInstance(j) \/ TerminateInstance(j)
    BY DEF Resume, Call
  <2>2. ASSUME NEW j \in op[o].todo, StartInstance(j)
        PROVE  cloud'[i] = "terminated"
    BY <2>2 DEF StartInstance, TypeOK
  <2>3. ASSUME NEW j \in op[o].todo, StopInstance(j)
        PROVE  cloud'[i] = "terminated"
    BY <2>3 DEF StopInstance, TypeOK
  <2>4. ASSUME NEW j \in op[o].todo, TerminateInstance(j)
        PROVE  cloud'[i] = "terminated"
    BY <2>4 DEF TerminateInstance, TypeOK
  <2> QED BY <2>1, <2>2, <2>3, <2>4
<1>3. CASE \E j \in Instances : Boot(j) \/ Reclaim(j)
  BY <1>3 DEF Boot, Reclaim, TypeOK
<1>4. ASSUME NEW o \in Ops, Step(o), ~Create(o), ~Resume(o), ~Call(o)
      PROVE  UNCHANGED cloud
  BY <1>4 DEF Step, Prepare, ListInstances, Resumed, AddCluster, Describe,
     Refresh, SettleUp, SettleWait, Bootstrap, Fail, FailEvent, Get,
     CallsEvent, CommitStatus, CommitDelete
<1> QED
  BY <1>1, <1>2, <1>3, <1>4 DEF Next, vars, StartOp, Crash

(* So a true log stays true. *)
LEMMA TrueLogStable ==
    ASSUME TypeOK, [Next]_vars, NEW E \in SUBSET Event, TrueLog(E)
    PROVE  TrueLog(E)'
<1>1. \A e \in E : e.ids \subseteq Instances
  BY DEF Event
<1> QED BY <1>1, TerminatedStable DEF TrueLog

(* Only Get and Call leave an operation in the loop over the ids. *)
LEMMA IntoCalls ==
    ASSUME TypeOK, NEW o \in Ops, Step(o), op'[o].pc = "calls"
    PROVE  Get(o) \/ Call(o)
<1>1. CASE ListInstances(o)
  BY <1>1, ListInstancesMoves, FinishFrame
<1>2. CASE Create(o)
  BY <1>2, CreateMoves, FinishFrame
<1>3. CASE AddCluster(o)
  <2>1. \/ Finish(o, "err") \/ Finish(o, "exists")
        \/ op' = [op EXCEPT ![o].pc = "describe", ![o].ref = o]
    BY <1>3 DEF AddCluster
  <2>2. op' # [op EXCEPT ![o].pc = "describe", ![o].ref = o]
    BY DEF TypeOK, Operation
  <2> QED BY <2>1, <2>2, FinishFrame
<1>4. CASE Describe(o)
  <2> DEFINE b == \A i \in obj[op[o].ref].insts :
                    i \in op[o].ids /\ cloud[i] = "running"
  <2>1. op' = [op EXCEPT ![o].pc = "refresh", ![o].seen = b] \/ WaitFailed(o)
    BY <1>4 DEF Describe
  <2> HIDE DEF b
  <2>2. op' # [op EXCEPT ![o].pc = "refresh", ![o].seen = b]
    BY DEF TypeOK, Operation
  <2> QED BY <2>1, <2>2, WaitFailedFrame
<1>5. CASE Resume(o)
  <2>1. CASE Finish(o, "err")
    BY <2>1, FinishFrame
  <2>2. CASE \E i \in op[o].todo : op' = [op EXCEPT ![o].todo = @ \ {i}]
    BY <1>5, <2>2 DEF TypeOK, Operation, Resume
  <2> QED BY <1>5, <2>1, <2>2 DEF Resume
<1>6. CASE SettleWait(o)
  <2>1. CASE WaitFailed(o)
    BY <2>1, WaitFailedFrame
  <2>2. CASE ~WaitFailed(o)
    BY <1>6, <2>2 DEF SettleWait, TypeOK, Operation
  <2> QED BY <2>1, <2>2
<1>7. CASE CommitStatus(o)
  <2>1. \/ Finish(o, "err") \/ Finish(o, "ok")
        \/ op' = [op EXCEPT ![o].pc = "describe",
                            ![o].ids = obj[op[o].ref].insts]
    BY <1>7 DEF CommitStatus
  <2>2. op' # [op EXCEPT ![o].pc = "describe",
                         ![o].ids = obj[op[o].ref].insts]
    BY DEF TypeOK, Operation
  <2> QED BY <2>1, <2>2, FinishFrame
<1>8. CASE SettleUp(o)
  <2>1. Goto(o, "bootstrap") \/ Finish(o, "ok") \/ WaitFailed(o)
    BY <1>8 DEF SettleUp
  <2> QED BY <2>1, GotoFrame, FinishFrame, WaitFailedFrame
<1>9. CASE Prepare(o) \/ Resumed(o) \/ Bootstrap(o) \/ Refresh(o) \/ Fail(o)
  <2>1. Goto(o, "list") \/ Goto(o, "add") \/ Goto(o, "settle") \/ Goto(o, "fail")
        \/ Goto(o, "failEvent") \/ \E r \in Result : Finish(o, r)
    BY <1>9, Members DEF Prepare, Resumed, Bootstrap, Refresh, Fail
  <2> QED BY <2>1, GotoFrame, FinishFrame
<1>10. CASE FailEvent(o) \/ CommitDelete(o) \/ CallsEvent(o)
  <2>1. Goto(o, "commit") \/ \E r \in Result : Finish(o, r)
    BY <1>10, Members DEF FailEvent, CommitDelete, CallsEvent
  <2> QED BY <2>1, GotoFrame, FinishFrame
<1> QED
  BY <1>1, <1>2, <1>3, <1>4, <1>5, <1>6, <1>7, <1>8, <1>9, <1>10 DEF Step

(* The loop of Down: an id leaves todo only terminated. *)
LEMMA ProgressOfStep ==
    ASSUME TypeOK, Placed, DownProgress, NEW o \in Ops, Step(o)
    PROVE  DownProgress'
<1> SUFFICES ASSUME NEW p \in Ops, op'[p].pc = "calls", op'[p].kind = "down",
                    NEW i \in op'[p].ids
             PROVE  i \in op'[p].todo \/ cloud'[i] = "terminated"
  BY DEF DownProgress
<1>1. KeepsPlace(o) /\ [Next]_vars
  BY PlaceOfStep DEF Next
<1>2. ASSUME NEW j \in Instances, cloud[j] = "terminated"
      PROVE  cloud'[j] = "terminated"
  BY <1>1, <1>2, TerminatedStable
<1>3. CASE p # o
  <2>1. op'[p] = op[p]
    BY <1>1, <1>3 DEF KeepsPlace, Frame
  <2>2. i \in op[p].todo \/ cloud[i] = "terminated"
    BY <2>1 DEF DownProgress
  <2>3. i \in Instances
    BY <2>1 DEF TypeOK, Operation
  <2> QED BY <1>2, <2>1, <2>2, <2>3
<1>4. CASE p = o /\ Get(o)
  <2>1. ~Finish(o, "err") /\ ~Finish(o, "notfound")
    BY <1>4, FinishFrame
  <2> DEFINE r == store[op[o].name]
  <2>2. op' = [op EXCEPT ![o].pc = "calls", ![o].ref = r,
                         ![o].ids = obj[r].insts, ![o].todo = obj[r].insts]
    BY <1>4, <2>1 DEF Get
  <2>3. op'[o].ids = op'[o].todo
    BY <2>2 DEF TypeOK, Operation
  <2> QED BY <1>4, <2>3
<1>5. CASE p = o /\ Call(o)
  <2>1. ~Finish(o, "err")
    BY <1>5, FinishFrame
  <2>2. op[o].kind = "down" /\ op[o].pc = "calls"
    BY <1>1, <1>5 DEF KeepsPlace, Frame, Call
  <2>3. PICK j \in op[o].todo : TerminateInstance(j)
                                /\ op' = [op EXCEPT ![o].todo = @ \ {j}]
    BY <1>5, <2>1, <2>2 DEF Call
  <2>4. op'[o].ids = op[o].ids /\ op'[o].todo = op[o].todo \ {j}
    BY <2>3 DEF TypeOK, Operation
  <2>5. i \in Instances /\ j \in Instances
    BY <1>5, <2>4 DEF TypeOK, Operation
  <2>6. cloud'[j] = "terminated"
    BY <2>3, <2>5 DEF TerminateInstance, TypeOK
  <2>7. i \in op[o].todo \/ cloud[i] = "terminated"
    BY <1>5, <2>2, <2>4 DEF DownProgress
  <2> QED BY <1>2, <1>5, <2>4, <2>5, <2>6, <2>7
<1> QED BY <1>3, <1>4, <1>5, IntoCalls

(* What Store.save writes to the log. *)
LEMMA SaveLog ==
    ASSUME TypeOK, NEW ok, Save(ok)
    PROVE  disk'.events \in {disk.events, events'}
<1>1. disk = [clusters |-> disk.clusters, events |-> disk.events]
  BY DEF TypeOK, Disk
<1>2. disk' = [clusters |-> Saved(store', obj'), events |-> events']
      \/ disk' = disk \/ disk' = [disk EXCEPT !.clusters = Saved(store', obj')]
  BY DEF Save
<1> QED BY <1>1, <1>2

(* A step appends at most one event, and a down event only when the loop of
   Down is through. *)
LEMMA LogOfStep ==
    ASSUME TypeOK, Placed, NEW o \in Ops, Step(o)
    PROVE  /\ disk'.events \in {disk.events, events'}
           /\ \/ events' = events
              \/ \E e : /\ events' = events \cup {e}
                        /\ e.ids = op[o].ids
                        /\ e.to = "down" => /\ op[o].pc = "calls"
                                            /\ op[o].kind = "down"
                                            /\ op[o].todo = {}
                                            /\ UNCHANGED cloud
<1>1. CASE UNCHANGED <<disk, events>>
  BY <1>1
<1>2. CASE UNCHANGED events /\ \E ok \in BOOLEAN : Save(ok)
  BY <1>2, SaveLog
<1>3. CASE FailEvent(o)
  <2> DEFINE e == [op |-> o, name |-> op[o].name, from |-> "provisioning",
                   to |-> "error", ids |-> op[o].ids]
  <2>1. events' = events \cup {e} /\ \E ok \in BOOLEAN : Save(ok)
    BY <1>3 DEF FailEvent, RecordEvent
  <2>2. e.ids = op[o].ids /\ e.to # "down"
    OBVIOUS
  <2> QED BY <2>1, <2>2, SaveLog
<1>4. CASE CallsEvent(o)
  <2> DEFINE to == CASE op[o].kind = "stop" -> "stopped"
                     [] op[o].kind = "start" -> "provisioning"
                     [] op[o].kind = "down" -> "down"
             e == [op |-> o, name |-> op[o].name,
                   from |-> obj[op[o].ref].status, to |-> to, ids |-> op[o].ids]
  <2>1. events' = events \cup {e} /\ \E ok \in BOOLEAN : Save(ok)
    BY <1>4 DEF CallsEvent, RecordEvent
  <2>2. op[o].pc = "calls" /\ op[o].todo = {} /\ UNCHANGED cloud
    BY <1>4 DEF CallsEvent
  <2>3. op[o].kind \in {"stop", "start", "down"}
    BY <2>2 DEF Placed, TypeOK, Operation, Kind
  <2>4. to = "down" => op[o].kind = "down"
    BY <2>3
  <2>5. e.ids = op[o].ids /\ e.to = to
    OBVIOUS
  <2> HIDE DEF e, to
  <2> QED BY <2>1, <2>2, <2>4, <2>5, SaveLog
<1>5. CASE Prepare(o) \/ ListInstances(o) \/ Resume(o) \/ Resumed(o) \/ Create(o)
           \/ Describe(o) \/ SettleWait(o) \/ Bootstrap(o) \/ Get(o) \/ Call(o)
  BY <1>1, <1>5 DEF Prepare, ListInstances, Resume, Resumed, Create, Describe,
     SettleWait, Bootstrap, Get, Call
<1>6. CASE AddCluster(o) \/ Refresh(o) \/ SettleUp(o) \/ Fail(o)
           \/ CommitStatus(o) \/ CommitDelete(o)
  <2>1. UNCHANGED events /\ (UNCHANGED disk \/ \E ok \in BOOLEAN : Save(ok))
    BY <1>6 DEF AddCluster, Refresh, SettleUp, Fail, CommitStatus, CommitDelete
  <2> QED BY <1>1, <1>2, <2>1
<1> QED BY <1>3, <1>4, <1>5, <1>6 DEF Step

(* The first state, and every action. *)
LEMMA EventInit ==
    ASSUME Init
    PROVE  EventInv
BY DEF Init, EventInv, DownProgress, TrueLog

LEMMA EventStep ==
    ASSUME TypeOK, Placed, EventInv, [Next]_vars
    PROVE  EventInv'
<1>1. TypeOK' /\ Placed'
  BY TypeStep, PlacedStep
<1>2. /\ \A e \in events : e.to = "down" =>
           \A i \in e.ids : cloud'[i] = "terminated"
      /\ \A e \in disk.events : e.to = "down" =>
           \A i \in e.ids : cloud'[i] = "terminated"
  <2>1. events \in SUBSET Event /\ disk.events \in SUBSET Event
    BY DEF TypeOK, Disk
  <2> QED BY <2>1, TrueLogStable DEF EventInv, TrueLog
<1>3. ASSUME NEW o \in Ops, Step(o)
      PROVE  EventInv'
  <2>1. DownProgress'
    BY <1>3, ProgressOfStep DEF EventInv
  <2>2. \A e \in events' : e.to = "down" =>
          \A i \in e.ids : cloud'[i] = "terminated"
    <3>1. CASE events' = events
      BY <1>2, <3>1
    <3>2. CASE events' # events
      <4>1. PICK e : /\ events' = events \cup {e}
                     /\ e.ids = op[o].ids
                     /\ e.to = "down" => /\ op[o].pc = "calls"
                                         /\ op[o].kind = "down"
                                         /\ op[o].todo = {}
                                         /\ UNCHANGED cloud
        BY <1>3, <3>2, LogOfStep
      <4>2. e.to = "down" => \A i \in e.ids : cloud'[i] = "terminated"
        BY <4>1 DEF EventInv, DownProgress
      <4> QED BY <1>2, <4>1, <4>2
    <3> QED BY <3>1, <3>2
  <2>3. disk'.events \in {disk.events, events'}
    BY <1>3, LogOfStep
  <2> QED BY <1>2, <2>1, <2>2, <2>3 DEF EventInv, TrueLog
<1>4. ASSUME NEW o \in Ops, NEW k \in Kind, NEW n \in Names, StartOp(o, k, n)
      PROVE  EventInv'
  <2>1. UNCHANGED <<cloud, events, disk>>
    BY <1>4 DEF StartOp
  <2>2. op'[o].pc # "calls" /\ \A p \in Ops : p # o => op'[p] = op[p]
    BY <1>4, StartFrame
  <2> QED BY <2>1, <2>2 DEF EventInv, DownProgress, TrueLog
<1>5. CASE Crash
  <2>1. \A p \in Ops : op'[p].pc # "calls"
    BY <1>5, CrashFrame
  <2>2. UNCHANGED <<cloud, disk>> /\ events' = disk.events
    BY <1>5 DEF Crash
  <2> QED BY <1>1, <2>1, <2>2 DEF EventInv, DownProgress, TrueLog
<1>6. ASSUME UNCHANGED <<op, events, disk>>
      PROVE  EventInv'
  <2>1. DownProgress'
    <3> SUFFICES ASSUME NEW p \in Ops, op[p].pc = "calls",
                        op[p].kind = "down", NEW i \in op[p].ids
                 PROVE  i \in op[p].todo \/ cloud'[i] = "terminated"
      BY <1>6 DEF DownProgress
    <3>1. i \in Instances
      BY DEF TypeOK, Operation
    <3> QED BY <3>1, TerminatedStable DEF EventInv, DownProgress
  <2> QED BY <1>2, <1>6, <2>1 DEF EventInv, TrueLog
<1> QED
  BY <1>3, <1>4, <1>5, <1>6 DEF Next, vars, Boot, Reclaim

(* The event log does not lie about Down, for every number of concurrent
   operations, faults and crashes. *)
THEOREM DownEventsAreTrue == Spec => []DownEventIsTrue
<1>1. Init => TypeOK /\ Placed /\ EventInv
  BY InitType, EventInit
<1>2. TypeOK /\ Placed /\ EventInv /\ [Next]_vars
        => (TypeOK /\ Placed /\ EventInv)'
  BY TypeStep, PlacedStep, EventStep
<1>3. EventInv => DownEventIsTrue
  BY DEF EventInv, TrueLog, DownEventIsTrue
<1> QED BY <1>1, <1>2, <1>3, PTL DEF Spec

-----------------------------------------------------------------------------
(* One command at a time *)

OneActive == \A o, p \in Ops : Active(o) /\ Active(p) => o = p

(* From AddCluster or GetCluster on an operation holds the object that the
   store has under its name: nobody else removes or replaces it. *)
HoldsRecord(o) ==
    op[o].pc \in {"describe", "refresh", "settle", "bootstrap", "fail",
                  "failEvent", "calls", "commit"} =>
        op[o].ref \in Ops /\ store[op[o].name] = op[o].ref

(* waitReady wrote provisioning before it looks at what it saw, and a launch
   is bootstrapped only when its record, as it is, was saved. *)
WaitsOK(o) ==
    /\ op[o].pc = "settle" => obj[op[o].ref].status = "provisioning"
    /\ op[o].pc = "bootstrap" =>
         disk.clusters[op[o].name] = Saved(store, obj)[op[o].name]

(* The loops over ids: which ids they are, and what Down has done at the end. *)
LoopOK(o) ==
    /\ op[o].pc \in {"calls", "commit"} => op[o].ids = obj[op[o].ref].insts
    /\ op[o].pc \in {"resume", "calls"} => op[o].todo \subseteq op[o].ids
    /\ (op[o].pc = "commit" /\ op[o].kind = "down") =>
         \A i \in op[o].ids : cloud[i] = "terminated"

SoleInv == OneActive /\ \A o \in Ops : HoldsRecord(o) /\ WaitsOK(o) /\ LoopOK(o)

(* What the proofs about single commands start from. *)
SoleState ==
    /\ TypeOK /\ Placed
    /\ IsolationInv
    /\ EventInv
    /\ SoleInv

LEMMA NoneIsNoOp == None \notin Ops
BY ProvisionerAssumption

(* The locals that Goto and Finish leave alone. *)
LEMMA GotoLocals ==
    ASSUME TypeOK, NEW o \in Ops, NEW l, Goto(o, l)
    PROVE  op'[o].seen = op[o].seen
BY DEF TypeOK, Goto, Operation

(* The branches of RunInstances, with what they choose. *)
ListsMore(o) ==
    LET running == Tagged(op[o].name, {"pending", "running"})
        stopped == Tagged(op[o].name, {"stopped"})
        need    == NumNodes - Cardinality(running)
    IN  \/ Fault /\ op'[o].pc = "done"
        \/ UNCHANGED faults /\ op'[o].pc = "add"
           /\ Cardinality(running) >= NumNodes
        \/ UNCHANGED faults /\ op'[o].pc = "create"
           /\ Cardinality(running) < NumNodes /\ stopped = {}
        \/ UNCHANGED faults /\ op'[o].pc = "resume"
           /\ stopped # {} /\ op'[o].todo \subseteq op'[o].ids

LEMMA ListBranches ==
    ASSUME TypeOK, NEW o \in Ops, ListInstances(o)
    PROVE  ListsMore(o)
<1> DEFINE running == Tagged(op[o].name, {"pending", "running"})
           stopped == Tagged(op[o].name, {"stopped"})
           need    == NumNodes - Cardinality(running)
           resumed == IF Cardinality(stopped) > need THEN need ELSE Cardinality(stopped)
<1>1. CASE Finish(o, "err") /\ Fault
  BY <1>1, FinishFrame DEF ListsMore
<1>2. CASE /\ Cardinality(running) >= NumNodes
           /\ \E r \in kSubset(NumNodes, running) :
                op' = [op EXCEPT ![o].pc = "add", ![o].ids = r, ![o].how = "reuse"]
           /\ UNCHANGED faults
  <2>1. op'[o].pc = "add"
    BY <1>2 DEF TypeOK, Operation
  <2> QED BY <1>2, <2>1 DEF ListsMore
<1>3. CASE /\ stopped # {}
           /\ \E s \in kSubset(resumed, stopped) :
                op' = [op EXCEPT ![o].pc = "resume", ![o].todo = s,
                                 ![o].ids = running \cup s, ![o].how = "resume"]
           /\ UNCHANGED faults
  <2> PICK s : op' = [op EXCEPT ![o].pc = "resume", ![o].todo = s,
                                ![o].ids = running \cup s, ![o].how = "resume"]
    BY <1>3
  <2> HIDE DEF running, stopped
  <2>1. op'[o].pc = "resume" /\ op'[o].todo = s /\ op'[o].ids = running \cup s
    BY DEF TypeOK, Operation
  <2> QED BY <1>3, <2>1 DEF ListsMore, stopped
<1>4. CASE /\ Cardinality(running) < NumNodes
           /\ stopped = {}
           /\ op' = [op EXCEPT ![o].pc = "create", ![o].how = "create"]
           /\ UNCHANGED faults
  <2>1. op'[o].pc = "create"
    BY <1>4 DEF TypeOK, Operation
  <2> QED BY <1>4, <2>1 DEF ListsMore
<1> QED BY <1>1, <1>2, <1>3, <1>4 DEF ListInstances

(* What SoleInv says of one operation, beside being the only one. *)
Sound(o) == HoldsRecord(o) /\ WaitsOK(o) /\ LoopOK(o)

LEMMA SoundBefore ==
    ASSUME NEW o \in Ops,
           op'[o].pc \in {"idle", "done", "prepare", "list", "create", "add", "get"}
    PROVE  Sound(o)'
BY DEF Sound, HoldsRecord, WaitsOK, LoopOK

(* The way out of a launch or start that failed, and into the next poll. *)
LEMMA SoundOnward ==
    ASSUME NEW o \in Ops, HoldsRecord(o), UNCHANGED store,
           op[o].pc \in {"describe", "settle", "bootstrap", "fail"},
           op'[o].pc \in {"describe", "refresh", "fail", "failEvent", "done"},
           op'[o].ref = op[o].ref, op'[o].name = op[o].name
    PROVE  Sound(o)'
BY DEF Sound, HoldsRecord, WaitsOK, LoopOK

(* Every step of an operation that is alone keeps what it holds. *)
LEMMA SoundOfStep ==
    ASSUME SoleState, NEW o \in Ops, Step(o)
    PROVE  Sound(o)'
<1> USE DEF SoleState
<1>1. HoldsRecord(o) /\ WaitsOK(o) /\ LoopOK(o)
  BY DEF SoleInv
<1>2. KeepsPlace(o) /\ op'[o].name = op[o].name /\ op'[o].kind = op[o].kind
  BY PlaceOfStep DEF KeepsPlace, Frame
<1>3. CASE Prepare(o) \/ Resumed(o) \/ FailEvent(o) \/ CommitDelete(o)
  <2>1. Goto(o, "list") \/ Goto(o, "add") \/ \E r : Finish(o, r)
    BY <1>3 DEF Prepare, Resumed, FailEvent, CommitDelete
  <2>2. op'[o].pc \in {"list", "add", "done"}
    BY <2>1, GotoFrame, FinishFrame
  <2> QED BY <2>2, SoundBefore
<1>4. CASE ListInstances(o)
  <2>1. CASE op'[o].pc # "resume"
    BY <1>4, <2>1, ListBranches, SoundBefore DEF ListsMore
  <2>2. CASE op'[o].pc = "resume"
    <3>1. op'[o].todo \subseteq op'[o].ids
      BY <1>4, <2>2, ListBranches DEF ListsMore
    <3> QED BY <2>2, <3>1 DEF Sound, HoldsRecord, WaitsOK, LoopOK
  <2> QED BY <2>1, <2>2
<1>5. CASE Resume(o) \/ Call(o)
  <2>1. CASE Finish(o, "err")
    BY <2>1, FinishFrame, SoundBefore
  <2>2. CASE \E i \in op[o].todo : op' = [op EXCEPT ![o].todo = @ \ {i}]
    <3>1. /\ op'[o].pc = op[o].pc /\ op'[o].ref = op[o].ref /\ op'[o].ids = op[o].ids
          /\ op'[o].todo \subseteq op[o].todo
      BY <2>2 DEF TypeOK, Operation
    <3>2. op[o].pc \in {"resume", "calls"} /\ UNCHANGED <<store, obj>>
      BY <1>5 DEF Resume, Call
    <3> QED BY <1>1, <1>2, <3>1, <3>2 DEF Sound, HoldsRecord, WaitsOK, LoopOK
  <2> QED BY <1>5, <2>1, <2>2 DEF Resume, Call
<1>6. CASE Create(o)
  BY <1>6, CreateMoves, FinishFrame, SoundBefore
<1>7. CASE AddCluster(o)
  <2>1. CASE \E r : Finish(o, r)
    BY <2>1, FinishFrame, SoundBefore
  <2>2. CASE /\ op' = [op EXCEPT ![o].pc = "describe", ![o].ref = o]
             /\ store' = [store EXCEPT ![op[o].name] = o]
    <3>1. op'[o].pc = "describe" /\ op'[o].ref = o
      BY <2>2 DEF TypeOK, Operation
    <3>2. store'[op[o].name] = o
      BY <1>7, <2>2 DEF TypeOK, Placed, AddCluster
    <3> QED BY <1>2, <3>1, <3>2 DEF Sound, HoldsRecord, WaitsOK, LoopOK
  <2> QED BY <1>7, <2>1, <2>2 DEF AddCluster
<1>8. CASE Describe(o)
  <2>1. UNCHANGED store /\ op[o].pc = "describe"
    BY <1>8 DEF Describe
  <2>2. op'[o].pc \in {"refresh", "fail", "done"} /\ op'[o].ref = op[o].ref
    <3>1. CASE WaitFailed(o)
      BY <3>1, WaitFailedFrame
    <3>2. CASE ~WaitFailed(o)
      <4> DEFINE b == \A i \in obj[op[o].ref].insts :
                        i \in op[o].ids /\ cloud[i] = "running"
      <4>1. op' = [op EXCEPT ![o].pc = "refresh", ![o].seen = b]
        BY <1>8, <3>2 DEF Describe
      <4> HIDE DEF b
      <4> QED BY <4>1 DEF TypeOK, Operation
    <3> QED BY <3>1, <3>2
  <2> QED BY <1>1, <1>2, <2>1, <2>2, SoundOnward
<1>9. CASE Refresh(o)
  <2>1. op[o].pc = "refresh" /\ UNCHANGED store
        /\ op'[o].pc = "settle" /\ op'[o].ref = op[o].ref
    BY <1>9, GotoFrame DEF Refresh
  <2>2. op[o].ref \in Ops /\ store[op[o].name] = op[o].ref
    BY <1>1, <2>1 DEF HoldsRecord
  <2>3. Overwrite(o, "provisioning")
    BY <1>9, <2>2, NoneIsNoOp DEF Refresh
  <2>4. obj'[op[o].ref].status = "provisioning"
    BY <2>2, <2>3 DEF TypeOK, Overwrite
  <2> QED BY <1>2, <2>1, <2>2, <2>4 DEF Sound, HoldsRecord, WaitsOK, LoopOK
<1>10. CASE SettleUp(o)
  <2>1. op[o].pc = "settle" /\ UNCHANGED store
    BY <1>10 DEF SettleUp
  <2>2. op[o].ref \in Ops /\ store[op[o].name] = op[o].ref
    BY <1>1, <2>1 DEF HoldsRecord
  <2>3. CASE WaitFailed(o)
    BY <1>1, <1>2, <2>1, <2>3, WaitFailedFrame, SoundOnward
  <2>4. CASE Finish(o, "ok")
    BY <2>4, FinishFrame, SoundBefore
  <2>5. CASE Goto(o, "bootstrap") /\ Save(TRUE)
    <3>1. op'[o].pc = "bootstrap" /\ op'[o].ref = op[o].ref
      BY <2>5, GotoFrame
    <3>2. disk'.clusters = Saved(store', obj')
      BY <2>5 DEF Save
    <3> QED BY <1>2, <2>1, <2>2, <3>1, <3>2 DEF Sound, HoldsRecord, WaitsOK, LoopOK
  <2> QED BY <1>10, <2>3, <2>4, <2>5 DEF SettleUp
<1>11. CASE SettleWait(o)
  <2>1. op[o].pc = "settle" /\ UNCHANGED store
    BY <1>11 DEF SettleWait
  <2>2. op'[o].pc \in {"describe", "fail", "done"} /\ op'[o].ref = op[o].ref
    <3>1. CASE WaitFailed(o)
      BY <3>1, WaitFailedFrame
    <3>2. CASE ~WaitFailed(o)
      BY <1>11, <3>2 DEF SettleWait, TypeOK, Operation
    <3> QED BY <3>1, <3>2
  <2> QED BY <1>1, <1>2, <2>1, <2>2, SoundOnward
<1>12. CASE Bootstrap(o) \/ Fail(o)
  <2>1. UNCHANGED store /\ op[o].pc \in {"bootstrap", "fail"}
        /\ op'[o].pc \in {"fail", "failEvent", "done"} /\ op'[o].ref = op[o].ref
    BY <1>12, GotoFrame, FinishFrame DEF Bootstrap, Fail
  <2> QED BY <1>1, <1>2, <2>1, SoundOnward
<1>13. CASE Get(o)
  <2>1. CASE \E r : Finish(o, r)
    BY <2>1, FinishFrame, SoundBefore
  <2>2. CASE ~ \E r : Finish(o, r)
    <3> DEFINE r == store[op[o].name]
    <3>1. r # None /\ op[o].pc = "get" /\ UNCHANGED <<store, obj>>
          /\ op' = [op EXCEPT ![o].pc = "calls", ![o].ref = r,
                              ![o].ids = obj[r].insts, ![o].todo = obj[r].insts]
      BY <1>13, <2>2 DEF Get
    <3>2. op'[o].pc = "calls" /\ op'[o].ref = r
          /\ op'[o].ids = obj[r].insts /\ op'[o].todo = obj[r].insts
      BY <3>1 DEF TypeOK, Operation
    <3>3. r \in Ops
      BY <3>1 DEF TypeOK, Placed
    <3> QED BY <1>2, <3>1, <3>2, <3>3 DEF Sound, HoldsRecord, WaitsOK, LoopOK
  <2> QED BY <2>1, <2>2
<1>14. CASE CallsEvent(o)
  <2>1. /\ op[o].pc = "calls" /\ op[o].todo = {} /\ UNCHANGED <<cloud, store, obj>>
        /\ op'[o].pc = "commit" /\ op'[o].ref = op[o].ref /\ op'[o].ids = op[o].ids
    BY <1>14, GotoFrame DEF CallsEvent, RecordEvent
  <2>2. op[o].kind = "down" => \A i \in op[o].ids : cloud[i] = "terminated"
    BY <2>1 DEF EventInv, DownProgress
  <2> QED BY <1>1, <1>2, <2>1, <2>2 DEF Sound, HoldsRecord, WaitsOK, LoopOK
<1>15. CASE CommitStatus(o)
  <2>1. CASE \E r : Finish(o, r)
    BY <2>1, FinishFrame, SoundBefore
  <2>2. CASE op' = [op EXCEPT ![o].pc = "describe",
                              ![o].ids = obj[op[o].ref].insts]
    <3>1. op'[o].pc = "describe" /\ op'[o].ref = op[o].ref
      BY <2>2 DEF TypeOK, Operation
    <3>2. op[o].pc = "commit" /\ UNCHANGED store
      BY <1>15 DEF CommitStatus
    <3> QED BY <1>1, <1>2, <3>1, <3>2 DEF Sound, HoldsRecord, WaitsOK, LoopOK
  <2> QED BY <1>15, <2>1, <2>2 DEF CommitStatus
<1> QED
  BY <1>3, <1>4, <1>5, <1>6, <1>7, <1>8, <1>9, <1>10, <1>11, <1>12, <1>13,
     <1>14, <1>15 DEF Step

(* An operation that has not begun, or is over, is sound. *)
LEMMA SoundAtRest ==
    ASSUME NEW o \in Ops, ~Active(o)'
    PROVE  Sound(o)'
BY SoundBefore DEF Active

LEMMA SoleStep ==
    ASSUME ~Concurrent, SoleState, [Next]_vars
    PROVE  SoleState'
<1> USE DEF SoleState
<1>1. TypeOK' /\ Placed' /\ IsolationInv' /\ EventInv'
  BY TypeStep, PlacedStep, IsolationStep, EventStep
<1>2. ASSUME NEW o \in Ops, Step(o)
      PROVE  SoleInv'
  <2>1. Active(o) /\ \A p \in Ops : p # o => op'[p] = op[p]
    BY <1>2, PlaceOfStep DEF KeepsPlace, Frame, Active
  <2>2. \A p \in Ops : p # o => ~Active(p)'
    BY <2>1 DEF SoleInv, OneActive, Active
  <2>3. \A p \in Ops : Sound(p)'
    BY <1>2, <2>2, SoundOfStep, SoundAtRest
  <2> QED BY <2>2, <2>3 DEF SoleInv, OneActive, Sound
<1>3. ASSUME NEW o \in Ops, NEW k \in Kind, NEW n \in Names, StartOp(o, k, n)
      PROVE  SoleInv'
  <2>1. op'[o].pc \in {"prepare", "get"} /\ \A p \in Ops : p # o => op'[p] = op[p]
    BY <1>3, StartFrame
  <2>2. \A p \in Ops : ~Active(p)
    BY <1>3 DEF StartOp
  <2>3. \A p \in Ops : p # o => ~Active(p)'
    BY <2>1, <2>2 DEF Active
  <2>4. \A p \in Ops : Sound(p)'
    BY <2>1, <2>3, SoundBefore, SoundAtRest
  <2> QED BY <2>3, <2>4 DEF SoleInv, OneActive, Sound
<1>4. ASSUME Crash
      PROVE  SoleInv'
  <2>1. \A p \in Ops : ~Active(p)'
    BY <1>4, CrashFrame DEF Active
  <2> QED BY <2>1, SoundAtRest DEF SoleInv, OneActive, Sound
<1>5. ASSUME UNCHANGED <<store, obj, disk, op>>
      PROVE  SoleInv'
  <2>1. [Next]_vars
    OBVIOUS
  <2>2. ASSUME NEW o \in Ops
        PROVE  Sound(o)'
    <3>1. op[o].ids \subseteq Instances
      BY DEF TypeOK, Operation
    <3>2. HoldsRecord(o)' /\ WaitsOK(o)'
      BY <1>5 DEF SoleInv, HoldsRecord, WaitsOK
    <3>3. LoopOK(o)'
      BY <1>5, <2>1, <3>1, TerminatedStable DEF SoleInv, LoopOK
    <3> QED BY <3>2, <3>3 DEF Sound
  <2> QED BY <1>5, <2>2 DEF SoleInv, OneActive, Active, Sound
<1>6. SoleInv'
  BY <1>2, <1>3, <1>4, <1>5 DEF Next, vars, Boot, Reclaim
<1> QED BY <1>1, <1>6

LEMMA SoleInit ==
    ASSUME Init
    PROVE  SoleState
<1>1. SoleInv
  BY DEF Init, SoleInv, OneActive, Active, HoldsRecord, WaitsOK, LoopOK
<1> QED BY <1>1, InitType, IsolationInit, EventInit DEF SoleState

(* An operation's result becomes ok in a step that saves the whole state, or
   with the end of the bootstrap. *)
LEMMA OkComesFrom ==
    ASSUME TypeOK, NEW o \in Ops, Step(o), op[o].res # "ok", op'[o].res = "ok"
    PROVE  \/ Save(TRUE)
           \/ op[o].pc = "bootstrap" /\ UNCHANGED <<store, obj, disk>>
<1>1. ASSUME NEW r, Finish(o, r), r # "ok"
      PROVE  FALSE
  BY <1>1, FinishFrame
<1>2. ASSUME NEW l, Goto(o, l)
      PROVE  FALSE
  BY <1>2, GotoFrame
<1>3. ~WaitFailed(o)
  BY <1>1, <1>2 DEF WaitFailed
<1>4. CASE ListInstances(o)
  BY <1>1, <1>4, ListInstancesMoves
<1>5. CASE Resume(o) \/ Call(o)
  <2>1. \E i \in op[o].todo : op' = [op EXCEPT ![o].todo = @ \ {i}]
    BY <1>1, <1>5 DEF Resume, Call
  <2> QED BY <2>1 DEF TypeOK, Operation
<1>6. CASE Create(o)
  BY <1>1, <1>6, CreateMoves
<1>7. CASE AddCluster(o)
  <2>1. op' # [op EXCEPT ![o].pc = "describe", ![o].ref = o]
    BY DEF TypeOK, Operation
  <2> QED BY <1>1, <1>7, <2>1 DEF AddCluster
<1>8. CASE Describe(o)
  <2> DEFINE b == \A i \in obj[op[o].ref].insts : i \in op[o].ids /\ cloud[i] = "running"
  <2>1. op' = [op EXCEPT ![o].pc = "refresh", ![o].seen = b]
    BY <1>3, <1>8 DEF Describe
  <2> HIDE DEF b
  <2> QED BY <2>1 DEF TypeOK, Operation
<1>9. CASE SettleWait(o)
  BY <1>3, <1>9 DEF SettleWait, TypeOK, Operation
<1>10. CASE Get(o)
  <2> DEFINE r == store[op[o].name]
  <2>1. op' = [op EXCEPT ![o].pc = "calls", ![o].ref = r,
                         ![o].ids = obj[r].insts, ![o].todo = obj[r].insts]
    BY <1>1, <1>10 DEF Get
  <2> QED BY <2>1 DEF TypeOK, Operation
<1>11. CASE CommitStatus(o)
  <2>1. op' # [op EXCEPT ![o].pc = "describe", ![o].ids = obj[op[o].ref].insts]
    BY DEF TypeOK, Operation
  <2> QED BY <1>1, <1>11, <2>1 DEF CommitStatus
<1>12. CASE Prepare(o) \/ Resumed(o) \/ Refresh(o) \/ Fail(o) \/ FailEvent(o) \/ CallsEvent(o)
  <2>1. \/ \E l : Goto(o, l)
        \/ Finish(o, "err") \/ Finish(o, "panic")
    BY <1>12 DEF Prepare, Resumed, Refresh, Fail, FailEvent, CallsEvent
  <2> QED BY <1>1, <1>2, <2>1
<1>13. CASE SettleUp(o)
  BY <1>1, <1>2, <1>3, <1>13 DEF SettleUp
<1>14. CASE CommitDelete(o)
  BY <1>1, <1>14 DEF CommitDelete
<1>15. CASE Bootstrap(o)
  BY <1>15 DEF Bootstrap
<1> QED
  BY <1>4, <1>5, <1>6, <1>7, <1>8, <1>9, <1>10, <1>11, <1>12, <1>13, <1>14, <1>15 DEF Step

(* With one command at a time, what an operation reported as done is in the
   backend, for every number of operations, faults and crashes. *)
THEOREM SuccessIsDurable ==
    ASSUME ~Concurrent
    PROVE  Spec => DurableSuccess
<1> DEFINE Durable ==
      \A o \in Ops : (op[o].res # "ok" /\ op'[o].res = "ok") =>
          disk'.clusters[op[o].name] = Saved(store', obj')[op[o].name]
<1>1. SoleState /\ [Next]_vars => SoleState'
  BY SoleStep
<1>2. SoleState /\ [Next]_vars => [Durable]_vars
  <2> SUFFICES ASSUME SoleState, Next, NEW o \in Ops,
                      op[o].res # "ok", op'[o].res = "ok"
               PROVE  disk'.clusters[op[o].name] = Saved(store', obj')[op[o].name]
    BY DEF vars
  <2>1. ASSUME NEW p \in Ops, Step(p)
        PROVE  p = o
    BY <2>1, PlaceOfStep DEF SoleState, KeepsPlace, Frame
  <2>2. ASSUME NEW p \in Ops, NEW k \in Kind, NEW n \in Names, StartOp(p, k, n)
        PROVE  FALSE
    <3>1. PICK l : op' = [op EXCEPT ![p].pc = l, ![p].kind = k, ![p].name = n]
      BY <2>2 DEF StartOp
    <3> QED BY <3>1 DEF SoleState, TypeOK, Operation
  <2>3. ~Crash
    <3>1. ASSUME Crash
          PROVE  op'[o].res \in {op[o].res, "crash"}
      <4>1. op'[o] = IF Active(o) THEN [op[o] EXCEPT !.pc = "done", !.res = "crash"]
                     ELSE op[o]
        BY <3>1 DEF Crash
      <4> QED BY <4>1 DEF SoleState, TypeOK, Operation
    <3> QED BY <3>1
  <2>4. Step(o)
    BY <2>1, <2>2, <2>3 DEF Next, Boot, Reclaim
  <2>5. CASE Save(TRUE)
    BY <2>5 DEF Save
  <2>6. CASE op[o].pc = "bootstrap" /\ UNCHANGED <<store, obj, disk>>
    <3>1. disk.clusters[op[o].name] = Saved(store, obj)[op[o].name]
      BY <2>6 DEF SoleState, SoleInv, WaitsOK
    <3> QED BY <2>6, <3>1
  <2> QED BY <2>4, <2>5, <2>6, OkComesFrom DEF SoleState
<1> QED BY <1>1, <1>2, SoleInit, PTL DEF Spec, DurableSuccess

-----------------------------------------------------------------------------
(* The records as a ClusterRegistry *)

(* The records as ClusterRegistry sees them, and the instances that are gone. *)
Rec == [n \in Names |-> IF store[n] = None THEN None ELSE obj[store[n]]]
Gone == {i \in Instances : cloud[i] = "terminated"}

(* Two names have two objects. *)
LEMMA OwnObjects ==
    ASSUME SoleState, NEW m \in Names, NEW n \in Names, store[m] # None,
           store[m] = store[n]
    PROVE  m = n
BY DEF SoleState, IsolationInv, StoreOwned, Owned

(* A step that leaves the records alone is one of the cloud: what terminates
   stays terminated. *)
LEMMA CloudSteps ==
    ASSUME TypeOK, [Next]_vars, Rec' = Rec
    PROVE  Registry!Next
<1>1. Gone \subseteq Gone'
  BY TerminatedStable DEF Gone
<1>2. Gone' \in SUBSET Instances
  BY DEF Gone
<1>3. Registry!Terminate
  BY <1>1, <1>2 DEF Registry!Terminate, Rec, Gone
<1> QED BY <1>3 DEF Registry!Next

(* A step that changes the status of the record that the operation holds. *)
LEMMA StatusSteps ==
    ASSUME SoleState, NEW o \in Ops, NEW s \in Status, op[o].ref \in Ops,
           op[o].name \in Names, store[op[o].name] = op[o].ref,
           UNCHANGED <<cloud, store>>,
           SetStatus(op[o].name, s) \/ Overwrite(o, s),
           s = "up" => obj[op[o].ref].status = "provisioning"
    PROVE  Registry!Next
<1> DEFINE n == op[o].name
           r == op[o].ref
<1>1. obj' = [obj EXCEPT ![r] = [insts |-> obj[r].insts, status |-> s]]
  <2>1. [obj[r] EXCEPT !.status = s] = [insts |-> obj[r].insts, status |-> s]
    BY DEF SoleState, TypeOK, Cluster
  <2> QED BY <2>1 DEF SetStatus, Overwrite
<1>2. Rec[n] = obj[r] /\ Rec[n] # None
  <2>1. obj[r] # None
    BY ProvisionerAssumption DEF SoleState, TypeOK, Cluster, Status
  <2> QED BY <2>1, NoneIsNoOp DEF Rec
<1>3. Rec' = [Rec EXCEPT ![n] = [insts |-> Rec[n].insts, status |-> s]]
  <2>1. ASSUME NEW m \in Names
        PROVE  Rec'[m] = IF m = n THEN [insts |-> obj[r].insts, status |-> s]
                         ELSE Rec[m]
    <3>1. CASE m = n
      BY <1>1, <3>1, NoneIsNoOp DEF Rec, SoleState, TypeOK
    <3>2. CASE m # n
      <4>1. store[m] # None => store[m] # r
        BY <3>2, OwnObjects
      <4> QED BY <1>1, <3>2, <4>1 DEF Rec, SoleState, TypeOK
    <3> QED BY <3>1, <3>2
  <2> QED BY <1>2, <2>1 DEF Rec
<1>4. UNCHANGED Gone
  BY DEF Gone
<1>5. Registry!SetStatus(n, s)
  BY <1>2, <1>3, <1>4 DEF Registry!SetStatus, Rec, Gone
<1>6. s \in Registry!Status
  BY DEF Status, Registry!Status
<1> QED BY <1>5, <1>6 DEF Registry!Next

(* AddCluster registers, DeleteCluster removes. *)
LEMMA AddSteps ==
    ASSUME SoleState, NEW o \in Ops, AddCluster(o), store[op[o].name] = None
    PROVE  Registry!Next
<1> DEFINE c == [insts |-> op[o].ids, status |-> "provisioning"]
<1>0. PICK n \in Names : n = op[o].name
  BY DEF AddCluster, SoleState, Placed
<1>1. n \in Names /\ UNCHANGED cloud
  BY DEF AddCluster
<1>2. store' = [store EXCEPT ![n] = o] /\ obj' = [obj EXCEPT ![o] = c]
  BY <1>0 DEF AddCluster
<1> HIDE DEF c
<1>3. Rec[n] = None
  BY <1>0, <1>1 DEF Rec
<1>4. Rec' = [Rec EXCEPT ![n] = c]
  <2>1. ASSUME NEW m \in Names
        PROVE  Rec'[m] = IF m = n THEN c ELSE Rec[m]
    <3>1. CASE m = n
      BY <1>2, <3>1, NoneIsNoOp DEF Rec, SoleState, TypeOK
    <3>2. CASE m # n
      <4>1. store[m] # o
        BY <1>0, <3>2, NoneIsNoOp DEF SoleState, IsolationInv, StoreOwned, Owned
      <4> QED BY <1>2, <3>2, <4>1 DEF Rec, SoleState, TypeOK
    <3> QED BY <3>1, <3>2
  <2> QED BY <2>1 DEF Rec
<1>5. op[o].ids \in SUBSET Instances
  BY DEF SoleState, TypeOK, Operation
<1>6. UNCHANGED Gone
  BY <1>1 DEF Gone
<1>7. Registry!Register(n)
  BY <1>3, <1>4, <1>5, <1>6 DEF Registry!Register, Rec, Gone, c
<1> QED BY <1>1, <1>7 DEF Registry!Next

LEMMA DeleteSteps ==
    ASSUME SoleState, NEW o \in Ops, CommitDelete(o)
    PROVE  Registry!Next
<1> DEFINE r == op[o].ref
<1>0. PICK n \in Names : n = op[o].name
  BY DEF CommitDelete, SoleState, Placed
<1>1. /\ n \in Names /\ r \in Ops /\ store[n] = r /\ UNCHANGED <<cloud, obj>>
      /\ op[o].ids = obj[r].insts /\ \A i \in op[o].ids : cloud[i] = "terminated"
  BY <1>0 DEF CommitDelete, SoleState, Placed, SoleInv, HoldsRecord, LoopOK
<1>2. store' = [store EXCEPT ![n] = None]
  BY <1>0, <1>1, NoneIsNoOp DEF CommitDelete
<1>3. Rec[n] = obj[r] /\ Rec[n] # None
  <2>1. obj[r] # None
    BY <1>1, ProvisionerAssumption DEF SoleState, TypeOK, Cluster, Status
  <2> QED BY <1>1, <2>1, NoneIsNoOp DEF Rec
<1>4. Rec' = [Rec EXCEPT ![n] = None]
  BY <1>1, <1>2 DEF Rec, SoleState, TypeOK
<1>5. Rec[n].insts \subseteq Gone
  BY <1>1, <1>3 DEF Gone, SoleState, TypeOK, Operation
<1>6. UNCHANGED Gone
  BY <1>1 DEF Gone
<1>7. Registry!Remove(n)
  BY <1>3, <1>4, <1>5, <1>6 DEF Registry!Remove, Rec, Gone
<1> QED BY <1>1, <1>7 DEF Registry!Next

(* Every step of the operations is one of the registry, or none. *)
LEMMA RegistryStep ==
    ASSUME SoleState, Next, ~Crash
    PROVE  Registry!Next
<1> USE DEF SoleState
<1>1. ASSUME UNCHANGED <<store, obj>>
      PROVE  Registry!Next
  BY <1>1, CloudSteps DEF Rec
<1>2. ASSUME NEW o \in Ops, Step(o)
      PROVE  Registry!Next
  <2>1. HoldsRecord(o) /\ WaitsOK(o) /\ op[o].name \in Names
    BY <1>2, PlaceOfStep DEF SoleInv, KeepsPlace, Frame, Placed
  <2>2. CASE AddCluster(o)
    BY <1>1, <2>2, AddSteps DEF AddCluster
  <2>3. CASE CommitDelete(o)
    BY <2>3, DeleteSteps
  <2>4. ASSUME Refresh(o) \/ SettleUp(o) \/ Fail(o) \/ CommitStatus(o)
        PROVE  Registry!Next
    <3>1. op[o].ref \in Ops /\ store[op[o].name] = op[o].ref
      BY <2>1, <2>4 DEF HoldsRecord, Refresh, SettleUp, Fail, CommitStatus
    <3>2. UNCHANGED <<cloud, store>>
      BY <2>4 DEF Refresh, SettleUp, Fail, CommitStatus
    <3>3. PICK s \in Status : /\ SetStatus(op[o].name, s) \/ Overwrite(o, s)
                              /\ s = "up" => op[o].pc = "settle"
      <4>1. store[op[o].name] # None
        BY <3>1, NoneIsNoOp
      <4>2. CASE Refresh(o)
        BY <4>1, <4>2, Members DEF Refresh
      <4>3. CASE SettleUp(o)
        BY <4>1, <4>3, Members DEF SettleUp
      <4>4. CASE Fail(o)
        BY <4>1, <4>4, Members DEF Fail
      <4>5. CASE CommitStatus(o)
        BY <4>1, <4>5, Members DEF CommitStatus
      <4> QED BY <2>4, <4>2, <4>3, <4>4, <4>5
    <3>4. s = "up" => obj[op[o].ref].status = "provisioning"
      BY <2>1, <3>3 DEF WaitsOK
    <3> QED BY <2>1, <3>1, <3>2, <3>3, <3>4, StatusSteps
  <2>5. ASSUME ~AddCluster(o), ~CommitDelete(o), ~Refresh(o), ~SettleUp(o), ~Fail(o),
               ~CommitStatus(o)
        PROVE  UNCHANGED <<store, obj>>
    BY <1>2, <2>5 DEF Step, Prepare, ListInstances, Resume, Resumed, Create, Describe,
       SettleWait, Bootstrap, FailEvent, RecordEvent, Get, Call, CallsEvent
  <2> QED BY <1>1, <2>2, <2>3, <2>4, <2>5
<1> QED BY <1>1, <1>2 DEF Next, StartOp, Boot, Reclaim

(* With one command at a time and no crash the records of gpi are a
   ClusterRegistry: a record keeps its instances from AddCluster to DeleteCluster,
   is up only after it was provisioning, and goes away only when its instances
   are terminated, for every number of operations, nodes and faults. *)
THEOREM RecordsAreARegistry ==
    ASSUME ~Concurrent, MaxCrashes = 0
    PROVE  Spec => RegistrySpec
<1>1. Init => Registry!Init
  BY DEF Init, Registry!Init
<1>2. SoleState /\ [Next]_vars => SoleState'
  BY SoleStep
<1>3. SoleState /\ [Next]_vars => [Registry!Next]_(Registry!vars)
  <2>1. SoleState => ~Crash
    BY DEF SoleState, TypeOK, Crash
  <2>2. UNCHANGED vars => UNCHANGED Registry!vars
    BY DEF vars, Registry!vars
  <2> QED BY <2>1, <2>2, RegistryStep
<1> QED BY <1>1, <1>2, <1>3, SoleInit, PTL DEF Spec, RegistrySpec, Registry!Spec

-----------------------------------------------------------------------------
(* Without a fault: what the cloud has is what the records say *)

Running(I) == \A i \in I : cloud[i] = "running"

(* The instances that the record of n lists. *)
Nodes(n) == obj[store[n]].insts

(* A record lists NumNodes instances, all that its cluster has; they exist;
   they run when it says up; and a cluster without a record has none. *)
Whole(n)  == store[n] # None =>
               Cardinality(Nodes(n)) = NumNodes /\ Live(n) \subseteq Nodes(n)
Kept(n)   == store[n] # None => Nodes(n) \subseteq Live(n)
UpTrue(n) == (store[n] # None /\ obj[store[n]].status = "up") => Running(Nodes(n))
Bare(n)   == store[n] = None => Live(n) = {}

Settled(n) == Whole(n) /\ Kept(n) /\ UpTrue(n) /\ Bare(n)

(* Operation o is in its calls, or has not yet written what they did. *)
Acting(o, K) == op[o].pc \in {"calls", "commit"} /\ op[o].kind \in K

(* What is left of Settled while o works on cluster n, and what o knows. *)
Claims(o, n) ==
    /\ Whole(n)
    /\ Acting(o, {"down"}) \/ Kept(n)
    /\ Acting(o, {"stop", "down"}) \/ UpTrue(n)
    /\ op[o].pc = "add" \/ Bare(n)
    /\ op[o].pc = "create" => store[n] = None
    /\ op[o].pc = "resume" => store[n] # None
    /\ (op[o].pc = "add" /\ store[n] = None) =>
         op[o].ids = Live(n) /\ Cardinality(op[o].ids) = NumNodes
    /\ (op[o].pc = "calls" /\ op[o].kind = "down") => op[o].todo \subseteq Live(n)
    /\ (op[o].pc \in {"refresh", "settle"} /\ op[o].seen) => Running(Nodes(n))

AllTrue ==
    \A n \in Names :
        /\ \A o \in Ops : (Active(o) /\ op[o].name = n) => Claims(o, n)
        /\ (\A o \in Ops : Active(o) => op[o].name # n) => Settled(n)

(* NoOverProvision and QuiescentTruth say little about a command under way:
   the induction needs what each of its steps still owes. *)
TruthInv == faults = 0 => AllTrue

(* An operation changes no object but its own and the one its name has... *)
LEMMA ObjFrame ==
    ASSUME TypeOK, Placed, NEW o \in Ops, Step(o), NEW r \in Ops, r # o,
           r # store[op[o].name]
    PROVE  obj'[r] = obj[r]
<1>1. CASE UNCHANGED obj
  BY <1>1
<1>2. ASSUME NEW s, SetStatus(op[o].name, s) \/ Overwrite(o, s)
      PROVE  obj'[r] = obj[r]
  BY <1>2 DEF TypeOK, SetStatus, Overwrite
<1>3. CASE AddCluster(o)
  BY <1>3 DEF TypeOK, AddCluster
<1>4. CASE Refresh(o) \/ SettleUp(o) \/ Fail(o) \/ CommitStatus(o)
  BY <1>1, <1>2, <1>4 DEF Refresh, SettleUp, Fail, CommitStatus
<1>5. CASE FailEvent(o) \/ CallsEvent(o)
  BY <1>1, <1>5 DEF FailEvent, CallsEvent, RecordEvent
<1> QED
  BY <1>1, <1>3, <1>4, <1>5 DEF Step, Prepare, ListInstances, Resume, Resumed,
     Create, Describe, SettleWait, Bootstrap, Get, Call, CommitDelete

(* ... and no instance of another cluster. *)
LEMMA CloudFrame ==
    ASSUME SoleState, NEW o \in Ops, Step(o), NEW m \in Names, m # op[o].name,
           NEW i \in Instances
    PROVE  /\ tag'[i] = m <=> tag[i] = m
           /\ tag[i] = m => cloud'[i] = cloud[i]
<1> USE DEF SoleState
<1>1. op[o].name \in Names /\ m # None
  BY PlaceOfStep, ProvisionerAssumption DEF KeepsPlace, Frame, Placed
<1>2. CASE Create(o)
  <2>1. CASE UNCHANGED <<cloud, tag>>
    BY <2>1
  <2>2. CASE \E new \in SUBSET {j \in Instances : cloud[j] = "free"} :
               \A j \in Instances :
                  /\ cloud'[j] = IF j \in new THEN "pending" ELSE cloud[j]
                  /\ tag'[j] = IF j \in new THEN op[o].name ELSE tag[j]
    BY <1>1, <2>2 DEF IsolationInv, Untagged
  <2> QED BY <1>2, <2>1, <2>2, CreateMoves
<1>3. CASE Resume(o) \/ Call(o)
  <2>1. UNCHANGED tag
    BY <1>3 DEF Resume, Call
  <2>2. CASE UNCHANGED cloud
    BY <2>1, <2>2
  <2>3. CASE ~ UNCHANGED cloud
    <3>1. PICK j \in op[o].todo :
            StartInstance(j) \/ StopInstance(j) \/ TerminateInstance(j)
      BY <1>3, <2>3 DEF Resume, Call
    <3>2. j \in op[o].ids
      BY <1>3, <3>1 DEF SoleInv, LoopOK, Resume, Call
    <3>3. tag[j] = op[o].name
      BY <3>2 DEF IsolationInv, IdsTagged
    <3>4. i # j => cloud'[i] = cloud[i]
      BY <3>1 DEF TypeOK, StartInstance, StopInstance, TerminateInstance
    <3> QED BY <2>1, <3>3, <3>4
  <2> QED BY <2>2, <2>3
<1>4. ASSUME ~Create(o), ~Resume(o), ~Call(o)
      PROVE  UNCHANGED <<cloud, tag>>
  BY <1>4 DEF Step, Prepare, ListInstances, Resumed, AddCluster, Describe,
     Refresh, SettleUp, SettleWait, Bootstrap, Fail, FailEvent, Get,
     CallsEvent, CommitStatus, CommitDelete
<1> QED BY <1>2, <1>3, <1>4

(* So the other clusters stay settled. *)
LEMMA OthersSettled ==
    ASSUME SoleState, NEW o \in Ops, Step(o), NEW m \in Names, m # op[o].name,
           Settled(m)
    PROVE  Settled(m)'
<1> USE DEF SoleState
<1>0. PICK n \in Names : n = op[o].name
  BY PlaceOfStep DEF KeepsPlace, Frame, Placed
<1>1. store'[m] = store[m]
  BY <1>0, StepEffect DEF TypeOK, Effect, StoreEffect
<1>2. store[m] # None => obj'[store[m]] = obj[store[m]] /\ store[m] \in Ops
  <2> SUFFICES ASSUME store[m] # None
               PROVE  obj'[store[m]] = obj[store[m]] /\ store[m] \in Ops
    OBVIOUS
  <2>1. store[m] \in Ops /\ store[m] # o
    BY DEF IsolationInv, StoreOwned, Owned
  <2>2. store[m] # store[n]
    BY <1>0, OwnObjects
  <2> QED BY <1>0, <2>1, <2>2, ObjFrame
<1>3. Live(m)' = Live(m)
  BY CloudFrame DEF Live
<1>4. ASSUME store[m] # None
      PROVE  \A i \in Nodes(m) : cloud'[i] = cloud[i]
  <2>1. \A i \in Nodes(m) : i \in Instances /\ tag[i] = m
    BY <1>2, <1>4 DEF IsolationInv, StoreOwned, ObjTagged, Owned, TypeOK, Cluster, Nodes
  <2> QED BY <2>1, CloudFrame
<1>5. Nodes(m)' = Nodes(m) \/ store[m] = None
  BY <1>1, <1>2 DEF Nodes
<1> QED BY <1>1, <1>2, <1>3, <1>4, <1>5 DEF Settled, Whole, Kept, UpTrue, Bare, Running

(* Settled and Claims speak of the same cluster in the same way. *)
LEMMA SettledBefore ==
    ASSUME NEW o, NEW n, Claims(o, n), op[o].pc \notin {"calls", "commit", "add"}
    PROVE  Settled(n)
BY DEF Claims, Settled, Acting

LEMMA SettledAfter ==
    ASSUME NEW o, NEW n, Settled(n)',
           op'[o].pc \in {"prepare", "get", "list", "describe", "bootstrap", "fail",
                          "failEvent", "done"}
    PROVE  Claims(o, n)'
BY DEF Claims, Settled, Acting

(* The cloud starts and boots instances. *)
Gentle ==
    /\ UNCHANGED tag
    /\ \A i \in Instances :
         \/ cloud'[i] = cloud[i]
         \/ cloud[i] = "stopped" /\ cloud'[i] = "pending"
         \/ cloud[i] = "pending" /\ cloud'[i] = "running"

LEMMA GentleKeeps ==
    ASSUME Gentle, NEW n
    PROVE  /\ Live(n)' = Live(n)
           /\ \A I \in SUBSET Instances : Running(I) => \A i \in I : cloud'[i] = "running"
BY DEF Gentle, Live, Running

LEMMA StartIsGentle ==
    ASSUME TypeOK, NEW i \in Instances, StartInstance(i), UNCHANGED tag
    PROVE  Gentle
BY DEF TypeOK, StartInstance, Gentle

(* The instances of a record. *)
LEMMA NodesType ==
    ASSUME TypeOK, NEW n \in Names, store[n] # None
    PROVE  store[n] \in Ops /\ Nodes(n) \in SUBSET Instances
BY DEF TypeOK, Cluster, Nodes

LEMMA SettledGentle ==
    ASSUME TypeOK, NEW n \in Names, Settled(n), Gentle, UNCHANGED <<store, obj>>
    PROVE  Settled(n)'
<1>1. Live(n)' = Live(n)
  BY GentleKeeps
<1>2. CASE store[n] = None
  BY <1>1, <1>2 DEF Settled, Whole, Kept, UpTrue, Bare, Nodes
<1>3. CASE store[n] # None
  <2>1. Nodes(n) \in SUBSET Instances
    BY <1>3, NodesType
  <2>2. Running(Nodes(n)) => \A i \in Nodes(n) : cloud'[i] = "running"
    BY <2>1, GentleKeeps
  <2> QED BY <1>1, <1>3, <2>2 DEF Settled, Whole, Kept, UpTrue, Bare, Nodes, Running
<1> QED BY <1>2, <1>3

LEMMA SettledStays ==
    ASSUME NEW n, Settled(n), UNCHANGED <<cloud, tag, store, obj>>
    PROVE  Settled(n)'
BY DEF Settled, Whole, Kept, UpTrue, Bare, Nodes, Running, Live

(* An object that keeps its instances. *)
LEMMA StatusKeeps ==
    ASSUME SoleState, NEW o \in Ops, NEW n \in Names, n = op[o].name,
           op[o].ref \in Ops, store[n] = op[o].ref, NEW s \in Status,
           SetStatus(n, s) \/ Overwrite(o, s), UNCHANGED <<cloud, tag, store>>
    PROVE  /\ obj'[store[n]] = [insts |-> Nodes(n), status |-> s]
           /\ Nodes(n)' = Nodes(n) /\ Live(n)' = Live(n) /\ store[n] # None
           /\ Running(Nodes(n))' = Running(Nodes(n))
<1>1. [obj[op[o].ref] EXCEPT !.status = s] = [insts |-> Nodes(n), status |-> s]
  BY DEF SoleState, TypeOK, Cluster, Nodes
<1>2. obj'[store[n]] = [insts |-> Nodes(n), status |-> s]
  BY <1>1 DEF SetStatus, Overwrite, SoleState, TypeOK, Nodes
<1>3. Nodes(n)' = Nodes(n) /\ Live(n)' = Live(n) /\ store[n] # None
  BY <1>2, NoneIsNoOp DEF Nodes, Live
<1> QED BY <1>2, <1>3 DEF Running

(* RunInstances finds the running and stopped instances of the cluster. *)
LEMMA ListClaims ==
    ASSUME SoleState, NEW o \in Ops, NEW n \in Names, n = op[o].name,
           Claims(o, n), ListInstances(o)
    PROVE  Claims(o, n)'
<1> USE DEF SoleState
<1> DEFINE running == Tagged(n, {"pending", "running"})
           stopped == Tagged(n, {"stopped"})
<1>1. Settled(n) /\ UNCHANGED <<cloud, tag, store, obj>>
  BY SettledBefore DEF ListInstances
<1>2. Settled(n)'
  BY <1>1, SettledStays
<1>3. Live(n) = running \cup stopped
  BY DEF Live, Tagged
<1>4. NumNodes \in Nat \ {0}
  BY ProvisionerAssumption
<1> HIDE DEF running, stopped
<1>5. CASE op'[o].pc = "done"
  BY <1>2, <1>5, SettledAfter
<1>6. CASE op'[o].pc = "add" /\ Cardinality(running) >= NumNodes
  <2>1. store[n] # None
    <3> SUFFICES ASSUME store[n] = None
                 PROVE  FALSE
      OBVIOUS
    <3>1. running = {}
      BY <1>1, <1>3 DEF Settled, Bare
    <3> QED BY <1>4, <1>6, <3>1, FS_EmptySet
  <2> QED BY <1>1, <1>2, <1>6, <2>1 DEF Claims, Settled, Acting
<1>7. CASE op'[o].pc = "create" /\ Cardinality(running) < NumNodes /\ stopped = {}
  <2>1. store[n] = None
    <3> SUFFICES ASSUME store[n] # None
                 PROVE  FALSE
      OBVIOUS
    <3>1. Nodes(n) = running /\ Cardinality(Nodes(n)) = NumNodes
      BY <1>1, <1>3, <1>7 DEF Settled, Whole, Kept
    <3> QED BY <1>4, <1>7, <3>1
  <2> QED BY <1>1, <1>2, <1>7, <2>1 DEF Claims, Settled, Acting
<1>8. CASE op'[o].pc = "resume" /\ stopped # {}
  <2>1. store[n] # None
    BY <1>1, <1>3, <1>8 DEF Settled, Bare
  <2> QED BY <1>1, <1>2, <1>8, <2>1 DEF Claims, Settled, Acting
<1> QED BY <1>5, <1>6, <1>7, <1>8, ListBranches DEF ListsMore, running, stopped

(* Resumed and created nodes are the record's, or will be. *)
LEMMA ResumeClaims ==
    ASSUME SoleState, NEW o \in Ops, NEW n \in Names, n = op[o].name,
           Claims(o, n), Resume(o) \/ Resumed(o)
    PROVE  Claims(o, n)'
<1> USE DEF SoleState
<1>1. Settled(n) /\ UNCHANGED <<tag, store, obj>> /\ store[n] # None
      /\ op[o].pc = "resume"
  BY SettledBefore DEF Resume, Resumed, Claims
<1>2. CASE UNCHANGED cloud /\ \E r : Finish(o, r)
  <2>1. Settled(n)' /\ op'[o].pc = "done"
    BY <1>1, <1>2, SettledStays, FinishFrame
  <2> QED BY <2>1, SettledAfter
<1>3. CASE UNCHANGED cloud /\ Goto(o, "add")
  <2>1. Settled(n)' /\ op'[o].pc = "add"
    BY <1>1, <1>3, SettledStays, GotoFrame
  <2> QED BY <1>1, <2>1 DEF Claims, Settled, Acting
<1>4. CASE \E i \in op[o].todo : StartInstance(i) /\ op' = [op EXCEPT ![o].todo = @ \ {i}]
  <2>1. op'[o].pc = "resume"
    BY <1>1, <1>4 DEF TypeOK, Operation
  <2>2. op[o].todo \subseteq Instances
    BY DEF TypeOK, Operation
  <2>3. Settled(n)'
    BY <1>1, <1>4, <2>2, StartIsGentle, SettledGentle
  <2> QED BY <1>1, <2>1, <2>3 DEF Claims, Settled, Acting
<1> QED BY <1>2, <1>3, <1>4 DEF Resume, Resumed

LEMMA CreateClaims ==
    ASSUME SoleState, NEW o \in Ops, NEW n \in Names, n = op[o].name,
           Claims(o, n), Create(o)
    PROVE  Claims(o, n)'
<1> USE DEF SoleState
<1>1. Settled(n) /\ UNCHANGED <<store, obj>> /\ store[n] = None
  BY SettledBefore DEF Create, Claims
<1>2. CASE Finish(o, "err") /\ UNCHANGED <<cloud, tag>>
  <2>1. Settled(n)' /\ op'[o].pc = "done"
    BY <1>1, <1>2, SettledStays, FinishFrame
  <2> QED BY <2>1, SettledAfter
<1>3. ASSUME NEW new \in SUBSET {i \in Instances : cloud[i] = "free"},
             Cardinality(new) = NumNodes,
             op'[o].pc = "add", op'[o].ids = new,
             \A i \in Instances :
                /\ cloud'[i] = IF i \in new THEN "pending" ELSE cloud[i]
                /\ tag'[i] = IF i \in new THEN op[o].name ELSE tag[i]
      PROVE  Claims(o, n)'
  <2>1. \A i \in Instances : ~(tag[i] = n /\ cloud[i] \in {"pending", "running", "stopped"})
    BY <1>1 DEF Settled, Bare, Live
  <2>2. \A i \in Instances :
          (tag'[i] = n /\ cloud'[i] \in {"pending", "running", "stopped"}) <=> i \in new
    BY <1>3, <2>1
  <2>3. Live(n)' = new
    BY <2>2 DEF Live
  <2> QED BY <1>1, <1>3, <2>3 DEF Claims, Acting, Whole, Kept, UpTrue
<1> QED BY <1>2, <1>3, CreateMoves

(* AddCluster: the record lists what the cloud has. *)
LEMMA AddClaims ==
    ASSUME SoleState, NEW o \in Ops, NEW n \in Names, n = op[o].name,
           Claims(o, n), AddCluster(o)
    PROVE  Claims(o, n)'
<1> USE DEF SoleState
<1>1. UNCHANGED <<cloud, tag>> /\ op[o].pc = "add"
  BY DEF AddCluster
<1>2. CASE store[n] # None
  <2>1. Finish(o, "exists") /\ UNCHANGED <<store, obj>>
    BY <1>2 DEF AddCluster
  <2>2. Settled(n)
    BY <1>1, <1>2 DEF Claims, Settled, Acting, Bare
  <2>3. Settled(n)' /\ op'[o].pc = "done"
    BY <1>1, <2>1, <2>2, SettledStays, FinishFrame
  <2> QED BY <2>3, SettledAfter
<1>3. CASE store[n] = None
  <2>1. /\ store' = [store EXCEPT ![n] = o]
        /\ obj' = [obj EXCEPT ![o] = [insts |-> op[o].ids, status |-> "provisioning"]]
        /\ op' = [op EXCEPT ![o].pc = "describe", ![o].ref = o] \/ Finish(o, "err")
    BY <1>3 DEF AddCluster
  <2>2. op'[o].pc \in {"describe", "done"}
    <3>1. CASE Finish(o, "err")
      BY <3>1, FinishFrame
    <3>2. CASE op' = [op EXCEPT ![o].pc = "describe", ![o].ref = o]
      BY <3>2 DEF TypeOK, Operation
    <3> QED BY <2>1, <3>1, <3>2
  <2>3. store'[n] = o /\ obj'[o] = [insts |-> op[o].ids, status |-> "provisioning"]
    BY <2>1 DEF TypeOK
  <2>4. op[o].ids = Live(n) /\ Cardinality(op[o].ids) = NumNodes /\ Live(n)' = Live(n)
    BY <1>1, <1>3 DEF Claims, Live
  <2>5. Settled(n)'
    BY <2>3, <2>4, NoneIsNoOp DEF Settled, Whole, Kept, UpTrue, Bare, Nodes
  <2> QED BY <2>2, <2>5, SettledAfter
<1> QED BY <1>2, <1>3

(* waitReady and the end of a launch. *)
LEMMA DescribeClaims ==
    ASSUME SoleState, NEW o \in Ops, NEW n \in Names, n = op[o].name,
           Claims(o, n), Describe(o)
    PROVE  Claims(o, n)'
<1> USE DEF SoleState
<1>1. Settled(n) /\ UNCHANGED <<cloud, tag, store, obj>> /\ op[o].pc = "describe"
  BY SettledBefore DEF Describe
<1>2. Settled(n)'
  BY <1>1, SettledStays
<1>3. CASE WaitFailed(o)
  BY <1>2, <1>3, WaitFailedFrame, SettledAfter
<1>4. CASE ~WaitFailed(o)
  <2> DEFINE b == \A i \in obj[op[o].ref].insts : i \in op[o].ids /\ cloud[i] = "running"
  <2>1. op' = [op EXCEPT ![o].pc = "refresh", ![o].seen = b]
    BY <1>4 DEF Describe
  <2>2. store[n] = op[o].ref
    BY <1>1 DEF SoleInv, HoldsRecord
  <2>3. b => Running(Nodes(n))'
    BY <1>1, <2>2 DEF Running, Nodes
  <2> HIDE DEF b
  <2>4. op'[o].pc = "refresh" /\ op'[o].seen = b
    BY <2>1 DEF TypeOK, Operation
  <2>5. op'[o].seen => Running(Nodes(n))'
    BY <2>3, <2>4
  <2> QED BY <1>2, <2>4, <2>5 DEF Claims, Settled, Acting
<1> QED BY <1>3, <1>4

LEMMA WaitClaims ==
    ASSUME SoleState, NEW o \in Ops, NEW n \in Names, n = op[o].name,
           Claims(o, n), Refresh(o) \/ SettleUp(o) \/ Fail(o)
    PROVE  Claims(o, n)'
<1> USE DEF SoleState
<1>1. /\ Settled(n) /\ UNCHANGED <<cloud, tag, store>>
      /\ op[o].ref \in Ops /\ store[n] = op[o].ref /\ store[n] # None
  <2>1. op[o].pc \in {"refresh", "settle", "fail"} /\ UNCHANGED <<cloud, tag, store>>
    BY DEF Refresh, SettleUp, Fail
  <2>2. op[o].ref \in Ops /\ store[n] = op[o].ref
    BY <2>1 DEF SoleInv, HoldsRecord
  <2> QED BY <2>1, <2>2, SettledBefore, NoneIsNoOp
<1>2. ASSUME NEW s \in Status, SetStatus(n, s) \/ Overwrite(o, s),
             s = "up" => Running(Nodes(n))
      PROVE  Settled(n)' /\ (Running(Nodes(n)) => Running(Nodes(n))')
  <2>1. /\ obj'[store[n]] = [insts |-> Nodes(n), status |-> s]
        /\ Nodes(n)' = Nodes(n) /\ Live(n)' = Live(n)
        /\ Running(Nodes(n))' = Running(Nodes(n))
    BY <1>1, <1>2, StatusKeeps
  <2>2. obj'[store'[n]].status = s
    BY <1>1, <2>1
  <2> QED BY <1>1, <1>2, <2>1, <2>2 DEF Settled, Whole, Kept, UpTrue, Bare
<1>3. CASE Refresh(o)
  <2>1. Overwrite(o, "provisioning") /\ Goto(o, "settle") /\ op[o].pc = "refresh"
    BY <1>1, <1>3 DEF Refresh
  <2>2. Settled(n)' /\ (Running(Nodes(n)) => Running(Nodes(n))')
    BY <1>2, <2>1, Members
  <2>3. op'[o].pc = "settle" /\ op'[o].seen = op[o].seen
    BY <2>1, GotoFrame, GotoLocals
  <2>4. op[o].seen => Running(Nodes(n))
    BY <2>1 DEF Claims
  <2> QED BY <2>2, <2>3, <2>4 DEF Claims, Settled, Acting
<1>4. CASE SettleUp(o)
  <2>1. /\ Overwrite(o, "up") /\ op[o].pc = "settle" /\ op[o].seen
        /\ Goto(o, "bootstrap") \/ Finish(o, "ok") \/ WaitFailed(o)
    BY <1>1, <1>4 DEF SettleUp
  <2>2. Running(Nodes(n))
    BY <2>1 DEF Claims
  <2>3. Settled(n)'
    BY <1>2, <2>1, <2>2, Members
  <2>4. op'[o].pc \in {"bootstrap", "done", "fail"}
    BY <2>1, GotoFrame, FinishFrame, WaitFailedFrame
  <2> QED BY <2>3, <2>4, SettledAfter
<1>5. CASE Fail(o)
  <2>1. SetStatus(n, "error") /\ Goto(o, "failEvent")
    BY <1>1, <1>5 DEF Fail
  <2>2. Settled(n)'
    BY <1>2, <2>1, Members
  <2>3. op'[o].pc = "failEvent"
    BY <2>1, GotoFrame
  <2> QED BY <2>2, <2>3, SettledAfter
<1> QED BY <1>3, <1>4, <1>5

(* Steps that change no instance and no record. *)
LEMMA QuietClaims ==
    ASSUME SoleState, NEW o \in Ops, NEW n \in Names, n = op[o].name, Claims(o, n),
           Prepare(o) \/ SettleWait(o) \/ Bootstrap(o) \/ FailEvent(o)
    PROVE  Claims(o, n)'
<1> USE DEF SoleState
<1>1. UNCHANGED <<cloud, tag, store, obj>>
      /\ op[o].pc \in {"prepare", "settle", "bootstrap", "failEvent"}
  BY DEF Prepare, SettleWait, Bootstrap, FailEvent, RecordEvent
<1>2. Settled(n)'
  BY <1>1, SettledBefore, SettledStays
<1>3. op'[o].pc \in {"list", "describe", "fail", "done"}
  <2>1. CASE WaitFailed(o)
    BY <2>1, WaitFailedFrame
  <2>2. CASE SettleWait(o) /\ ~WaitFailed(o)
    BY <2>2 DEF SettleWait, TypeOK, Operation
  <2>3. CASE Prepare(o) \/ Bootstrap(o) \/ FailEvent(o)
    BY <2>3, GotoFrame, FinishFrame DEF Prepare, Bootstrap, FailEvent
  <2> QED BY <2>1, <2>2, <2>3
<1> QED BY <1>2, <1>3, SettledAfter

(* Stop, Start and Down read the record... *)
LEMMA GetClaims ==
    ASSUME SoleState, NEW o \in Ops, NEW n \in Names, n = op[o].name,
           Claims(o, n), Get(o)
    PROVE  Claims(o, n)'
<1> USE DEF SoleState
<1>1. Settled(n) /\ UNCHANGED <<cloud, tag, store, obj>> /\ op[o].pc = "get"
  BY SettledBefore DEF Get
<1>2. Settled(n)'
  BY <1>1, SettledStays
<1>3. CASE \E r : Finish(o, r)
  BY <1>2, <1>3, FinishFrame, SettledAfter
<1>4. CASE ~ \E r : Finish(o, r)
  <2> DEFINE r == store[n]
  <2>1. r # None
        /\ op' = [op EXCEPT ![o].pc = "calls", ![o].ref = r,
                            ![o].ids = obj[r].insts, ![o].todo = obj[r].insts]
    BY <1>4 DEF Get
  <2>2. op'[o].pc = "calls" /\ op'[o].todo = obj[r].insts
    BY <2>1 DEF TypeOK, Operation
  <2>3. op'[o].todo \subseteq Live(n)'
    BY <1>1, <2>1, <2>2 DEF Settled, Kept, Nodes, Live
  <2> QED BY <1>2, <2>2, <2>3 DEF Claims, Settled
<1> QED BY <1>3, <1>4

(* ... pass its instances to the cloud, one by one ... *)
LEMMA CallClaims ==
    ASSUME SoleState, NEW o \in Ops, NEW n \in Names, n = op[o].name,
           Claims(o, n), Call(o), UNCHANGED faults
    PROVE  Claims(o, n)'
<1> USE DEF SoleState
<1>0. op[o].kind \in {"stop", "start", "down"}
  BY DEF Call, Placed, TypeOK, Operation, Kind
<1>1. /\ UNCHANGED <<tag, store, obj>> /\ op[o].pc = "calls"
      /\ store[n] = op[o].ref /\ store[n] # None
      /\ op[o].ids = Nodes(n) /\ op[o].todo \subseteq op[o].ids
      /\ op[o].ids \subseteq Instances
  <2>1. UNCHANGED <<tag, store, obj>> /\ op[o].pc = "calls"
    BY DEF Call
  <2>2. store[n] = op[o].ref /\ op[o].ref \in Ops
    BY <2>1 DEF SoleInv, HoldsRecord
  <2> QED BY <2>1, <2>2, NoneIsNoOp DEF SoleInv, LoopOK, TypeOK, Operation, Nodes
<1>2. Whole(n) /\ op[o].todo \subseteq Live(n)
  <2>1. CASE op[o].kind = "down"
    BY <1>1, <2>1 DEF Claims
  <2>2. CASE op[o].kind # "down"
    BY <1>1, <2>2 DEF Claims, Acting, Kept
  <2> QED BY <2>1, <2>2 DEF Claims
<1>3. PICK i \in op[o].todo :
        \/ /\ \/ op[o].kind = "stop"  /\ StopInstance(i)
              \/ op[o].kind = "start" /\ StartInstance(i)
              \/ op[o].kind = "down"  /\ TerminateInstance(i)
           /\ op' = [op EXCEPT ![o].todo = @ \ {i}]
        \/ cloud[i] = "terminated"
        \/ Fault
  BY DEF Call
<1>4. i \in Instances /\ cloud[i] # "terminated" /\ ~Fault
  <2>1. ~Fault
    BY DEF Fault, TypeOK
  <2> QED BY <1>1, <1>2, <2>1 DEF Live
<1>5. /\ op'[o].pc = "calls" /\ op'[o].kind = op[o].kind
      /\ op'[o].todo = op[o].todo \ {i}
  BY <1>1, <1>3, <1>4 DEF TypeOK, Operation
<1>6. CASE op[o].kind = "start" /\ StartInstance(i)
  <2>1. Settled(n)
    BY <1>1, <1>6 DEF Claims, Settled, Acting
  <2>2. Settled(n)'
    BY <1>1, <1>4, <1>6, <2>1, StartIsGentle, SettledGentle
  <2> QED BY <1>5, <1>6, <2>2 DEF Claims, Settled, Acting
<1>7. CASE op[o].kind = "stop" /\ StopInstance(i)
  <2>1. Live(n)' = Live(n)
    BY <1>1, <1>2, <1>3, <1>4, <1>7 DEF Live, StopInstance, TypeOK
  <2>2. Kept(n)
    BY <1>7 DEF Claims, Acting
  <2> QED BY <1>1, <1>2, <1>5, <1>7, <2>1, <2>2 DEF Claims, Acting, Whole, Kept, Bare, Nodes
<1>8. CASE op[o].kind = "down" /\ TerminateInstance(i)
  <2>1. Live(n)' = Live(n) \ {i}
    BY <1>1, <1>4, <1>8 DEF Live, TerminateInstance, TypeOK
  <2> QED BY <1>1, <1>2, <1>5, <1>8, <2>1 DEF Claims, Acting, Whole, Bare, Nodes
<1> QED BY <1>0, <1>3, <1>4, <1>6, <1>7, <1>8

(* ... and record what they did. *)
LEMMA CallsEventClaims ==
    ASSUME SoleState, NEW o \in Ops, NEW n \in Names, n = op[o].name,
           Claims(o, n), CallsEvent(o)
    PROVE  Claims(o, n)'
<1>1. UNCHANGED <<cloud, tag, store, obj>> /\ op[o].pc = "calls"
      /\ op'[o].pc = "commit" /\ op'[o].kind = op[o].kind
  BY GotoFrame DEF SoleState, CallsEvent, RecordEvent
<1> QED
  BY <1>1 DEF Claims, Acting, Whole, Kept, UpTrue, Bare, Running, Nodes, Live

LEMMA CommitClaims ==
    ASSUME SoleState, NEW o \in Ops, NEW n \in Names, n = op[o].name,
           Claims(o, n), CommitStatus(o) \/ CommitDelete(o)
    PROVE  Claims(o, n)'
<1> USE DEF SoleState
<1>1. /\ UNCHANGED <<cloud, tag>> /\ op[o].pc = "commit"
      /\ op[o].ref \in Ops /\ store[n] = op[o].ref /\ store[n] # None
      /\ op[o].ids = Nodes(n) /\ Whole(n)
  <2>1. UNCHANGED <<cloud, tag>> /\ op[o].pc = "commit"
    BY DEF CommitStatus, CommitDelete
  <2>2. op[o].ref \in Ops /\ store[n] = op[o].ref
    BY <2>1 DEF SoleInv, HoldsRecord
  <2> QED BY <2>1, <2>2, NoneIsNoOp DEF SoleInv, LoopOK, Claims, Nodes
<1>2. CASE CommitStatus(o)
  <2>1. PICK s \in Status : SetStatus(n, s) /\ s # "up"
    BY <1>1, <1>2, Members DEF CommitStatus
  <2>2. UNCHANGED store /\ Kept(n)
    BY <1>2 DEF CommitStatus, Claims, Acting
  <2>3. /\ obj'[store[n]] = [insts |-> Nodes(n), status |-> s]
        /\ Nodes(n)' = Nodes(n) /\ Live(n)' = Live(n)
    BY <1>1, <2>1, <2>2, StatusKeeps
  <2>4. Settled(n)'
    BY <1>1, <2>1, <2>2, <2>3 DEF Settled, Whole, Kept, UpTrue, Bare
  <2>5. op'[o].pc \in {"describe", "done"}
    <3>1. CASE \E r : Finish(o, r)
      BY <3>1, FinishFrame
    <3>2. CASE op' = [op EXCEPT ![o].pc = "describe", ![o].ids = obj[op[o].ref].insts]
      BY <3>2 DEF TypeOK, Operation
    <3> QED BY <1>2, <3>1, <3>2 DEF CommitStatus
  <2> QED BY <2>4, <2>5, SettledAfter
<1>3. CASE CommitDelete(o)
  <2>1. store' = [store EXCEPT ![n] = None] /\ \E r : Finish(o, r)
    BY <1>1, <1>3 DEF CommitDelete
  <2>2. op[o].kind = "down"
    BY <1>3 DEF CommitDelete
  <2>3. \A i \in Nodes(n) : cloud[i] = "terminated"
    BY <1>1, <2>2 DEF SoleInv, LoopOK
  <2>4. Live(n) = {} /\ Live(n)' = {}
    BY <1>1, <2>3 DEF Whole, Live
  <2>5. store'[n] = None
    BY <2>1 DEF TypeOK
  <2>6. Settled(n)' /\ op'[o].pc = "done"
    BY <2>1, <2>4, <2>5, FinishFrame DEF Settled, Whole, Kept, UpTrue, Bare
  <2> QED BY <2>6, SettledAfter
<1> QED BY <1>2, <1>3

LEMMA ClaimsOfStep ==
    ASSUME SoleState, NEW o \in Ops, NEW n \in Names, n = op[o].name,
           Claims(o, n), Step(o), UNCHANGED faults
    PROVE  Claims(o, n)'
BY ListClaims, ResumeClaims, CreateClaims, AddClaims, DescribeClaims, WaitClaims,
   QuietClaims, GetClaims, CallClaims, CallsEventClaims, CommitClaims DEF Step

(* Faults are counted and not taken back. *)
LEMMA NoFaultYet ==
    ASSUME TypeOK, Next, faults' = 0
    PROVE  faults = 0
<1>1. ASSUME faults' # faults
      PROVE  Fault
  <2>1. ASSUME NEW o \in Ops, Step(o)
        PROVE  Fault
    BY <1>1, <2>1 DEF Step, Prepare, ListInstances, Resume, Resumed, Create, AddCluster,
       Describe, Refresh, SettleUp, SettleWait, Bootstrap, Fail, FailEvent, Get, Call,
       CallsEvent, CommitStatus, CommitDelete, RecordEvent, Save
  <2> QED BY <1>1, <2>1 DEF Next, StartOp, Boot, Reclaim, Crash
<1> QED BY <1>1 DEF Fault, TypeOK

LEMMA TruthStep ==
    ASSUME ~Concurrent, MaxCrashes = 0, SoleState, TruthInv, [Next]_vars
    PROVE  TruthInv'
<1> USE DEF SoleState
<1>1. CASE UNCHANGED vars
  BY <1>1 DEF vars, TruthInv, AllTrue, Active, Claims, Acting, Settled, Whole, Kept, UpTrue, Bare,
     Running, Nodes, Live
<1>2. ASSUME Next, faults' = 0
      PROVE  AllTrue'
  <2>0. faults = 0
    BY <1>2, NoFaultYet
  <2>1. AllTrue
    BY <2>0 DEF TruthInv
  <2>2. CASE \E o \in Ops : Step(o)
    <3> PICK o \in Ops : Step(o)
      BY <2>2
    <3> PICK n \in Names : n = op[o].name
      BY PlaceOfStep DEF KeepsPlace, Frame, Placed
    <3>1. Active(o) /\ op'[o].name = n /\ \A p \in Ops : p # o => op'[p] = op[p]
      BY PlaceOfStep DEF KeepsPlace, Frame, Active
    <3>2. \A p \in Ops : p # o => ~Active(p)'
      BY <3>1 DEF SoleInv, OneActive, Active
    <3>3. Claims(o, n)
      BY <2>1, <3>1 DEF AllTrue
    <3>4. Claims(o, n)'
      BY <1>2, <2>0, <3>3, ClaimsOfStep
    <3>5. \A m \in Names : m # n => Settled(m)'
      <4> SUFFICES ASSUME NEW m \in Names, m # n
                   PROVE  Settled(m)'
        OBVIOUS
      <4>1. Settled(m)
        BY <2>1, <3>1 DEF AllTrue, SoleInv, OneActive
      <4> QED BY <4>1, OthersSettled
    <3>6. ~Active(o)' => Settled(n)'
      BY <3>4 DEF Active, Claims, Settled, Acting
    <3> QED BY <3>1, <3>2, <3>4, <3>5, <3>6 DEF AllTrue
  <2>3. CASE \E o \in Ops, k \in Kind, n \in Names : StartOp(o, k, n)
    <3> PICK o \in Ops, k \in Kind, n \in Names : StartOp(o, k, n)
      BY <2>3
    <3>1. /\ op'[o].pc \in {"prepare", "get"} /\ op'[o].name = n
          /\ \A p \in Ops : p # o => op'[p] = op[p]
      BY StartFrame
    <3>2. \A p \in Ops : ~Active(p)
      BY DEF StartOp
    <3>3. \A m \in Names : Settled(m)'
      <4> SUFFICES ASSUME NEW m \in Names
                   PROVE  Settled(m)'
        OBVIOUS
      <4>1. UNCHANGED <<cloud, tag, store, obj>>
        BY DEF StartOp
      <4>2. Settled(m)
        BY <2>1, <3>2 DEF AllTrue
      <4> QED BY <4>1, <4>2, SettledStays
    <3>4. \A p \in Ops : p # o => ~Active(p)'
      BY <3>1, <3>2 DEF Active
    <3>5. Claims(o, n)'
      BY <3>1, <3>3, SettledAfter
    <3> QED BY <3>1, <3>3, <3>4, <3>5 DEF AllTrue
  <2>4. CASE \E i \in Instances : Boot(i)
    <3> PICK i \in Instances : Boot(i)
      BY <2>4
    <3>1. UNCHANGED <<store, obj, op>>
      BY DEF Boot
    <3>2. Gentle
      BY DEF Boot, Gentle, TypeOK
    <3>3. \A m \in Names : Settled(m) => Settled(m)'
      BY <3>1, <3>2, SettledGentle
    <3>4. ASSUME NEW p \in Ops, NEW m \in Names, op[p].name = m, Claims(p, m)
          PROVE  Claims(p, m)'
      <4>1. Live(m)' = Live(m) /\ Nodes(m)' = Nodes(m)
        BY <3>1, <3>2, GentleKeeps DEF Nodes
      <4>2. store[m] # None => (Running(Nodes(m)) => Running(Nodes(m))')
        BY <3>1, <3>2, <4>1, NodesType, GentleKeeps DEF Running
      <4>3. (op[p].pc \in {"refresh", "settle"} /\ op[p].seen) => store[m] # None
        BY <3>4, NoneIsNoOp DEF SoleInv, HoldsRecord
      <4> QED BY <3>1, <3>4, <4>1, <4>2, <4>3
              DEF Claims, Acting, Whole, Kept, UpTrue, Bare
    <3> QED BY <2>1, <3>1, <3>3, <3>4 DEF AllTrue, Active
  <2>5. ~Crash /\ \A i \in Instances : ~Reclaim(i)
    BY <1>2, <2>0 DEF Crash, Reclaim, Fault, TypeOK
  <2> QED BY <1>2, <2>2, <2>3, <2>4, <2>5 DEF Next
<1> QED BY <1>1, <1>2 DEF TruthInv

LEMMA TruthInit ==
    ASSUME Init
    PROVE  TruthInv
<1>1. \A n \in Names : Settled(n)
  BY DEF Init, Settled, Whole, Kept, UpTrue, Bare, Live
<1>2. \A o \in Ops : ~Active(o)
  BY DEF Init, Active
<1> QED BY <1>1, <1>2 DEF TruthInv, AllTrue

(* A state in which all this holds. *)
LEMMA TruthIsQuiet ==
    ASSUME TruthInv
    PROVE  QuiescentTruth
<1> SUFFICES ASSUME faults = 0, \A o \in Ops : ~Active(o), NEW n \in Names
             PROVE  IF store[n] = None THEN Live(n) = {}
                    ELSE obj[store[n]].status = "up" =>
                           \A i \in obj[store[n]].insts : cloud[i] = "running"
  BY DEF QuiescentTruth
<1>1. Settled(n)
  BY DEF TruthInv, AllTrue
<1> QED BY <1>1 DEF Settled, UpTrue, Bare, Running, Nodes

LEMMA TruthIsFrugal ==
    ASSUME IsFiniteSet(Instances), SoleState, TruthInv
    PROVE  NoOverProvision
<1> SUFFICES ASSUME faults = 0, NEW n \in Names
             PROVE  Cardinality(Live(n)) <= NumNodes
  BY DEF NoOverProvision
<1>1. NumNodes \in Nat
  BY ProvisionerAssumption
<1>2. CASE Whole(n) /\ store[n] # None
  <2>1. Nodes(n) \in SUBSET Instances
    BY <1>2, NodesType DEF SoleState
  <2>2. IsFiniteSet(Nodes(n))
    BY <2>1, FS_Subset
  <2>3. Cardinality(Live(n)) <= Cardinality(Nodes(n))
    BY <1>2, <2>2, FS_Subset DEF Whole
  <2> QED BY <1>2, <2>3 DEF Whole
<1>3. CASE Live(n) = {}
  BY <1>1, <1>3, FS_EmptySet
<1>4. CASE Cardinality(Live(n)) = NumNodes
  BY <1>1, <1>4
<1>5. Whole(n) /\ (store[n] = None => Live(n) = {} \/ Cardinality(Live(n)) = NumNodes)
  <2>1. CASE \A o \in Ops : Active(o) => op[o].name # n
    BY <2>1 DEF TruthInv, AllTrue, Settled, Bare
  <2>2. CASE \E o \in Ops : Active(o) /\ op[o].name = n
    BY <2>2 DEF TruthInv, AllTrue, Claims, Bare
  <2> QED BY <2>1, <2>2
<1> QED BY <1>2, <1>3, <1>4, <1>5

(* One command after the other, without a crash: as long as no call failed and
   no spot instance was taken away, `gpi status` shows a cluster as up only when
   all its nodes run, and no instance is left without a record. *)
THEOREM StatusIsTrueAtRest ==
    ASSUME ~Concurrent, MaxCrashes = 0
    PROVE  Spec => []QuiescentTruth
<1>1. Init => SoleState /\ TruthInv
  BY SoleInit, TruthInit
<1>2. SoleState /\ TruthInv /\ [Next]_vars => (SoleState /\ TruthInv)'
  BY SoleStep, TruthStep
<1>3. SoleState /\ TruthInv => QuiescentTruth
  BY TruthIsQuiet
<1> QED BY <1>1, <1>2, <1>3, PTL DEF Spec

(* ... and launching, stopping, starting and relaunching a cluster, in any order
   and any number of times, never leaves it more than NumNodes instances. *)
THEOREM NeverTooManyNodes ==
    ASSUME ~Concurrent, MaxCrashes = 0, IsFiniteSet(Instances)
    PROVE  Spec => []NoOverProvision
<1>1. Init => SoleState /\ TruthInv
  BY SoleInit, TruthInit
<1>2. SoleState /\ TruthInv /\ [Next]_vars => (SoleState /\ TruthInv)'
  BY SoleStep, TruthStep
<1>3. SoleState /\ TruthInv => NoOverProvision
  BY TruthIsFrugal
<1> QED BY <1>1, <1>2, <1>3, PTL DEF Spec
=============================================================================
