------------------------------ MODULE Services ------------------------------
(***************************************************************************)
(* Replicated services over the execution backends: internal/serve (Up),   *)
(* the service commands of internal/server and internal/cli, and the       *)
(* backend manager of internal/backend with its backends docker, local,    *)
(* existing and cloud, all over the in-memory maps of state.Store.         *)
(*                                                                         *)
(* A step is one external command (docker), one call of the provisioner    *)
(* (its inner steps are module Provisioner), or one critical section of    *)
(* the store.  Commands run one at a time.  A replica is <<service, index>>, *)
(* the cluster serve-<service>-<index>.                                    *)
(***************************************************************************)
EXTENDS Naturals, Sequences

CONSTANTS
    Svcs,       \* service names
    MaxCmds,    \* bound: commands
    None,       \* no record
    Backends,   \* the values of task.backend that are used
    Replicas,   \* ServiceSpec.Replicas
    MaxFaults   \* bound: external commands and saves that fail

ASSUME ServicesAssumption ==
    /\ Backends \subseteq {"docker", "local", "existing", "cloud"}
    /\ Replicas \in Nat \ {0}
    /\ {MaxCmds, MaxFaults} \subseteq Nat

ASSUME NoneIsNoRecord ==
    /\ None \notin [status : {"creating", "running", "error"}, list : Seq(0..(Replicas - 1))]
    /\ None \notin [be : Backends \cup {"unset"}, status : {"up", "stopped", "error"}]

VARIABLES
    svc,     \* Store.services
    rec,     \* Store.clusters
    res,     \* what exists outside: a container or instances, per replica
    cmd,     \* the command that runs, or the last one
    cmds,    \* commands so far
    kept,    \* replicas whose teardown failed; their record stays
    faults   \* faults so far

vars == <<svc, rec, res, cmd, cmds, kept, faults>>

Clusters == Svcs \X (0..(Replicas - 1))

(* Records and commands have backend "unset" where the source has "".
   Backends whose clusters are made and removed by gpi. *)
Managed == {"docker", "cloud"}

Kind == {"up", "down", "clusterStop", "clusterStart", "clusterDown"}

(* Lists of replicas of one service. *)
Indices == Seq(0..(Replicas - 1))

Service == [status : {"creating", "running", "error"}, list : Indices]

Record == [be : Backends \cup {"unset"}, status : {"up", "stopped", "error"}]

Command ==
    [pc   : {"idle", "add", "rm", "run", "provision", "mark", "record", "snapshot",
             "list", "finish", "undo", "error", "get", "each", "del", "act", "status"},
     kind : Kind \cup {"none"},
     s    : Svcs \cup {None},
     be   : Backends \cup {"unset"},
     i    : 0..Replicas,     \* the replica it is at
     todo : Indices,         \* the replicas that Down is to remove
     res  : {"none", "ok", "error"}]

TypeOK ==
    /\ svc \in [Svcs -> {None} \cup Service]
    /\ rec \in [Clusters -> {None} \cup Record]
    /\ res \in [Clusters -> [Managed -> {"none", "running", "stopped"}]]
    /\ cmd \in Command
    /\ cmds \in 0..MaxCmds
    /\ kept \subseteq Clusters
    /\ faults \in 0..MaxFaults

Init ==
    /\ svc = [s \in Svcs |-> None]
    /\ rec = [r \in Clusters |-> None]
    /\ res = [r \in Clusters |-> [b \in Managed |-> "none"]]
    /\ cmd = [pc |-> "idle", kind |-> "none", s |-> None, be |-> "unset", i |-> 0,
              todo |-> <<>>, res |-> "none"]
    /\ cmds = 0
    /\ kept = {}
    /\ faults = 0

-----------------------------------------------------------------------------
(* No command runs. *)
Quiet == cmd.pc = "idle"

(* The replica the command is at. *)
At == <<cmd.s, cmd.i>>

Goto(label) == cmd' = [cmd EXCEPT !.pc = label]

Ended(r) == [cmd EXCEPT !.pc = "idle", !.res = r]

Return(r) == cmd' = Ended(r)

Fault == faults < MaxFaults /\ faults' = faults + 1

(* A change in the store and its save: the change stays when the save fails,
   and only a caller that looks at the error goes another way. *)
Saved(ok, failed) ==
    \/ Goto(ok) /\ UNCHANGED faults
    \/ Goto(failed) /\ Fault

SavedOrReturn(ok) ==
    \/ Goto(ok) /\ UNCHANGED faults
    \/ Return("error") /\ Fault

(* The handlers of services and clusters and the commands of the CLI. *)
Begin(k, s, i, b) ==
    /\ Quiet
    /\ cmds < MaxCmds
    /\ cmds' = cmds + 1
    /\ cmd' = [pc |-> CASE k = "up" -> "add" [] k = "down" -> "get" [] OTHER -> "act",
               kind |-> k, s |-> s, be |-> b, i |-> i, todo |-> <<>>, res |-> "none"]
    /\ UNCHANGED <<svc, rec, res, kept, faults>>

-----------------------------------------------------------------------------
(* Up *)

(* Manager.Launch picks the backend of the task; its first step. *)
LaunchLabel(b) ==
    CASE b = "docker" -> "rm" [] b = "cloud" -> "provision" [] OTHER -> "record"

(* AddService: a second service of the name is refused. *)
AddService ==
    LET s == cmd.s
    IN  /\ cmd.pc = "add"
        /\ \/ /\ svc[s] # None
              /\ Return("error")
              /\ UNCHANGED <<svc, faults>>
           \/ /\ svc[s] = None
              /\ svc' = [svc EXCEPT ![s] = [status |-> "creating", list |-> <<>>]]
              /\ SavedOrReturn(LaunchLabel(cmd.be))
        /\ UNCHANGED <<rec, res, kept>>

(* dockerBackend.Launch: docker rm -f of a stale container, result ignored. *)
DockerRemove ==
    /\ cmd.pc = "rm"
    /\ \/ /\ res' = [res EXCEPT ![At]["docker"] = "none"]
          /\ UNCHANGED faults
       \/ Fault /\ UNCHANGED res
    /\ Goto("run")
    /\ UNCHANGED <<svc, rec, kept>>

(* dockerBackend.Launch: docker run, refused when the name is taken. *)
DockerRun ==
    /\ cmd.pc = "run"
    /\ \/ /\ res[At]["docker"] = "none"
          /\ res' = [res EXCEPT ![At]["docker"] = "running"]
          /\ Goto("record")
          /\ UNCHANGED faults
       \/ /\ res[At]["docker"] # "none"
          /\ Goto("undo")
          /\ UNCHANGED <<res, faults>>
       \/ /\ Fault
          /\ Goto("undo")
          /\ UNCHANGED res
    /\ UNCHANGED <<svc, rec, kept>>

(* Store.AddCluster, with status up: a cluster that is recorded is refused. *)
AddCluster ==
    /\ \/ /\ rec[At] # None
          /\ Goto("undo")
          /\ UNCHANGED <<rec, faults>>
       \/ /\ rec[At] = None
          /\ rec' = [rec EXCEPT ![At] = [be |-> cmd.be, status |-> "up"]]
          /\ Saved("snapshot", "undo")
    /\ UNCHANGED <<svc, res, kept>>

(* dockerBackend.Launch: the record, after a container of that name was
   replaced. *)
DockerRecord == cmd.pc = "record" /\ cmd.be = "docker" /\ AddCluster

(* existingBackend.Launch, localBackend.Launch: nothing but the record. *)
ExistingLaunch == cmd.pc = "record" /\ cmd.be = "existing" /\ AddCluster
LocalLaunch == cmd.pc = "record" /\ cmd.be = "local" /\ AddCluster

(* cloudBackend.Launch calls Provisioner.Launch: instances are reused,
   resumed or created before the record is; a bootstrap that fails leaves
   instances and a record in state error. *)
Provision ==
    LET r == At
        running == [res EXCEPT ![r]["cloud"] = "running"]
    IN  /\ cmd.pc = "provision"
        /\ \/ /\ rec[r] = None
              /\ res' = running
              /\ rec' = [rec EXCEPT ![r] = [be |-> "unset", status |-> "up"]]
              /\ Goto("mark")
              /\ UNCHANGED faults
           \/ /\ rec[r] # None
              /\ res' = running
              /\ Goto("undo")
              /\ UNCHANGED <<rec, faults>>
           \/ /\ Fault
              /\ \/ UNCHANGED <<res, rec>>
                 \/ /\ rec[r] = None
                    /\ res' = running
                    /\ rec' = [rec EXCEPT ![r] = [be |-> "unset", status |-> "error"]]
              /\ Goto("undo")
        /\ UNCHANGED <<svc, kept>>

(* cloudBackend.Launch: the backend goes on the record. *)
MarkBackend ==
    /\ cmd.pc = "mark"
    /\ rec' = [rec EXCEPT ![At].be = "cloud"]
    /\ Saved("snapshot", "undo")
    /\ UNCHANGED <<svc, res, kept>>

(* recordLaunch: task and history are saved; an error fails the launch. *)
RecordLaunch ==
    /\ cmd.pc = "snapshot"
    /\ Saved("list", "undo")
    /\ UNCHANGED <<svc, rec, res, kept>>

NextReplica(s) ==
    cmd' = [cmd EXCEPT
      !.i = s,
      !.pc = IF s < Replicas THEN LaunchLabel(cmd.be) ELSE "finish"]

(* Mutant: the replicas are listed once the service is complete. *)
ListReplicaLate ==
    /\ cmd.pc = "list"
    /\ svc' = IF cmd.i + 1 < Replicas THEN svc
              ELSE [svc EXCEPT ![cmd.s].list = [j \in 1..Replicas |-> j - 1]]
    /\ NextReplica(cmd.i + 1)
    /\ UNCHANGED <<rec, res, kept, faults>>

(* Up: the replica is put on the list as soon as it is launched; the error of
   UpdateService is dropped. *)
ListReplica ==
    /\ cmd.pc = "list"
    /\ svc' = [svc EXCEPT ![cmd.s].list = Append(@, cmd.i)]
    /\ NextReplica(cmd.i + 1)
    /\ \/ UNCHANGED faults
       \/ Fault
    /\ UNCHANGED <<rec, res, kept>>

(* Up: all replicas are there. *)
Finish ==
    /\ cmd.pc = "finish"
    /\ svc' = [svc EXCEPT ![cmd.s].status = "running"]
    /\ Return("ok")
    /\ UNCHANGED <<rec, res, kept, faults>>

(* Up: the record of the replica that failed is deleted, whoever made it; what
   it stands for is not torn down. *)
UndoReplica ==
    /\ cmd.pc = "undo"
    /\ rec' = [rec EXCEPT ![At] = None]
    /\ Goto("error")
    /\ UNCHANGED <<svc, res, kept, faults>>

(* Up: the service says error, and keeps the replicas launched before. *)
UpFailed ==
    /\ cmd.pc = "error"
    /\ svc' = [svc EXCEPT ![cmd.s].status = "error"]
    /\ Return("error")
    /\ UNCHANGED <<rec, res, kept, faults>>

-----------------------------------------------------------------------------
(* Down *)

(* handleServiceDown, serve down: the list is read once. *)
GetService ==
    /\ cmd.pc = "get"
    /\ cmd' = IF svc[cmd.s] = None THEN Ended("error")
            ELSE [cmd EXCEPT !.pc = "each", !.todo = svc[cmd.s].list]
    /\ UNCHANGED <<svc, rec, res, kept, faults>>

(* Manager.forCluster: the backend on the record; the cloud when there is none. *)
forCluster(r) ==
    IF rec[r] = None THEN None ELSE IF rec[r].be = "unset" THEN "cloud" ELSE rec[r].be

(* Mutant: only the record goes. *)
TeardownRecordOnly(r) == UNCHANGED <<res, faults>>

(* What the backend's Down does before the record goes: docker rm -f, whose
   result is ignored; nothing for local and existing. *)
Teardown(r) ==
    IF forCluster(r) = "docker"
    THEN \/ /\ res' = [res EXCEPT ![r]["docker"] = "none"]
            /\ UNCHANGED faults
         \/ Fault /\ UNCHANGED res
    ELSE UNCHANGED <<res, faults>>

(* The next replica of the list. *)
Skip == [cmd EXCEPT !.todo = Tail(@)]

(* Manager.Down of one replica by a service's Down, errors ignored: a replica
   without a record is skipped; the provisioner may fail, and then keeps the
   record. *)
DownReplica ==
    LET r == <<cmd.s, Head(cmd.todo)>>
    IN  /\ cmd.pc = "each"
        /\ cmd.todo # <<>>
        /\ \/ /\ rec[r] = None
              /\ cmd' = Skip
              /\ UNCHANGED <<res, kept, faults>>
           \/ /\ rec[r] # None
              /\ forCluster(r) = "cloud"
              /\ Fault
              /\ cmd' = Skip
              /\ kept' = kept \cup {r}
              /\ UNCHANGED res
           \/ /\ rec[r] # None
              /\ forCluster(r) = "cloud"
              /\ res' = [res EXCEPT ![r]["cloud"] = "none"]
              /\ cmd' = [cmd EXCEPT !.pc = "del", !.i = r[2]]
              /\ UNCHANGED <<kept, faults>>
           \/ /\ rec[r] # None
              /\ forCluster(r) # "cloud"
              /\ Teardown(r)
              /\ cmd' = [cmd EXCEPT !.pc = "del", !.i = r[2]]
              /\ UNCHANGED kept
        /\ UNCHANGED <<svc, rec>>

(* DeleteCluster, the last step of every backend's Down; a service's Down goes
   on whatever it returns. *)
DeleteCluster ==
    /\ cmd.pc = "del"
    /\ rec' = [rec EXCEPT ![At] = None]
    /\ \/ UNCHANGED faults
       \/ Fault
    /\ cmd' = IF cmd.kind = "down" THEN [cmd EXCEPT !.pc = "each", !.todo = Tail(@)]
            ELSE Ended(IF faults' = faults THEN "ok" ELSE "error")
    /\ kept' = kept \ {At}
    /\ UNCHANGED <<svc, res>>

(* DeleteService, when the list is through. *)
DeleteService ==
    /\ cmd.pc = "each"
    /\ cmd.todo = <<>>
    /\ svc' = [svc EXCEPT ![cmd.s] = None]
    /\ Return("ok")
    /\ UNCHANGED <<rec, res, kept, faults>>

-----------------------------------------------------------------------------
(* Stop, Start and Down of one cluster *)

Wanted(k) == IF k = "clusterStop" THEN "stopped" ELSE "running"

(* Manager.Stop, Start, Down: refused without a record; local and existing
   cannot stop; docker and the provisioner act on what exists. *)
ClusterAct ==
    LET r == At
        b == forCluster(r)
        k == cmd.kind
    IN  /\ cmd.pc = "act"
        /\ \/ /\ rec[r] = None \/ (k # "clusterDown" /\ b \notin Managed)
              /\ Return("error")
              /\ UNCHANGED <<res, faults>>
           \/ /\ rec[r] # None
              /\ k # "clusterDown" /\ b \in Managed
              /\ res[r][b] # "none"
              /\ res' = [res EXCEPT ![r][b] = Wanted(k)]
              /\ Goto("status")
              /\ UNCHANGED faults
           \/ /\ rec[r] # None
              /\ k # "clusterDown" /\ b \in Managed
              /\ IF res[r][b] = "none" THEN UNCHANGED faults ELSE Fault
              /\ Return("error")
              /\ UNCHANGED res
           \/ /\ rec[r] # None
              /\ k = "clusterDown"
              /\ IF b = "cloud" THEN res' = [res EXCEPT ![r]["cloud"] = "none"]
                                     /\ UNCHANGED faults
                                ELSE Teardown(r)
              /\ Goto("del")
           \/ /\ rec[r] # None
              /\ k = "clusterDown" /\ b = "cloud"
              /\ Fault
              /\ Return("error")
              /\ UNCHANGED res
        /\ UNCHANGED <<svc, rec, kept>>

(* Mutant: start leaves the status of the record. *)
ClusterStatusStopOnly ==
    /\ cmd.pc = "status"
    /\ rec' = IF cmd.kind = "clusterStop" THEN [rec EXCEPT ![At].status = "up"] ELSE rec
    /\ Return("ok")
    /\ UNCHANGED <<svc, res, kept, faults>>

(* UpdateCluster: the new status goes on the record. *)
ClusterStatus ==
    /\ cmd.pc = "status"
    /\ rec' = [rec EXCEPT ![At].status =
                 IF cmd.kind = "clusterStop" THEN "stopped" ELSE "up"]
    /\ \/ Return("ok") /\ UNCHANGED faults
       \/ Return("error") /\ Fault
    /\ UNCHANGED <<svc, res, kept>>

Step ==
    \/ AddService \/ DockerRemove \/ DockerRun \/ DockerRecord
    \/ ExistingLaunch \/ LocalLaunch
    \/ Provision \/ MarkBackend \/ RecordLaunch \/ ListReplica
    \/ Finish \/ UndoReplica \/ UpFailed
    \/ GetService \/ DownReplica \/ DeleteCluster \/ DeleteService
    \/ ClusterAct \/ ClusterStatus

Next ==
    \/ \E s \in Svcs, b \in Backends : Begin("up", s, 0, b)
    \/ \E s \in Svcs : Begin("down", s, 0, "unset")
    \/ \E r \in Clusters, k \in {"clusterStop", "clusterStart", "clusterDown"} :
          Begin(k, r[1], r[2], "unset")
    \/ Step /\ UNCHANGED cmds

Spec == Init /\ [][Next]_vars

-----------------------------------------------------------------------------
(* Correctness *)

(* A replica that is recorded is on the list of its service, so that the
   service's Down reaches it, unless its teardown has failed: also when Up
   stopped half way. *)
ReplicasAreListed ==
    Quiet => \A r \in Clusters : rec[r] # None =>
        \/ r \in kept
        \/ svc[r[1]] # None /\ \E j \in DOMAIN svc[r[1]].list : svc[r[1]].list[j] = r[2]

(* The list of a service holds the replicas up to the one that failed, each
   once, and all of them when it is running. *)
ListIsPrefix ==
    Quiet => \A s \in Svcs : svc[s] # None =>
        /\ \A j \in DOMAIN svc[s].list : svc[s].list[j] = j - 1
        /\ svc[s].status = "running" => Len(svc[s].list) = Replicas

(* What a service lists is what was launched for it. *)
ServicesAreListed == ReplicasAreListed /\ ListIsPrefix

(* Without faults nothing exists outside that no record tells of. *)
NoOrphans ==
    (Quiet /\ faults = 0) => \A r \in Clusters, b \in Managed :
        res[r][b] # "none" => rec[r] # None /\ forCluster(r) = b

(* Without faults the status of a record is what the backend would tell. *)
StatusIsTrue ==
    (Quiet /\ faults = 0) => \A r \in Clusters :
        (rec[r] # None /\ forCluster(r) \in Managed) =>
            res[r][forCluster(r)] = IF rec[r].status = "up" THEN "running" ELSE "stopped"
=============================================================================
