--------------------------- MODULE ServicesProofs ---------------------------
(***************************************************************************)
(* Proofs about Services: what is recorded, listed and running agrees, for *)
(* every number of services, replicas, commands and faults.                *)
(***************************************************************************)
EXTENDS Services, SequenceTheorems, TLAPS

(* The steps of Up at one replica: before and after its record is made. *)
Launching == {"rm", "run", "provision", "record"}
Launched == {"mark", "snapshot", "list", "undo"}

(* Where each kind of command is. *)
CmdOK ==
    /\ cmd.pc # "idle" => cmd.s \in Svcs
    /\ cmd.pc \in Launching \cup Launched \cup {"act", "status", "del"} => cmd.i < Replicas
    /\ cmd.pc \in {"get", "each"} => cmd.kind = "down"
    /\ cmd.pc = "del" => cmd.kind \in {"down", "clusterDown"}
    /\ cmd.pc = "act" => cmd.kind \in {"clusterStop", "clusterStart", "clusterDown"}
    /\ cmd.pc = "status" => cmd.kind \in {"clusterStop", "clusterStart"}
    /\ (cmd.pc = "del" /\ cmd.kind = "down") => cmd.todo # <<>> /\ Head(cmd.todo) = cmd.i
    /\ cmd.pc \in {"mark", "status"} => rec[At] # None
    /\ cmd.pc = "mark" => rec[At].be = "unset"
    /\ cmd.pc \in {"rm", "run"} => cmd.be = "docker"
    /\ cmd.pc \in {"provision", "mark"} => cmd.be = "cloud"
    /\ cmd.pc = "add" => cmd.i = 0

(* Up is at the replica after those that are on the list. *)
UpOK ==
    /\ cmd.pc \in Launching \cup Launched \cup {"finish", "error"} => svc[cmd.s] # None
    /\ cmd.pc \in Launching \cup Launched \cup {"finish"} => Len(svc[cmd.s].list) = cmd.i
    /\ cmd.pc = "finish" => cmd.i = Replicas

ListsOK ==
    \A s \in Svcs : svc[s] # None =>
        /\ \A j \in DOMAIN svc[s].list : svc[s].list[j] = j - 1
        /\ svc[s].status = "running" => Len(svc[s].list) = Replicas

Listed(r) ==
    svc[r[1]] # None /\ \E j \in DOMAIN svc[r[1]].list : svc[r[1]].list[j] = r[2]

(* A record that no list has is of a replica that Up is at, or its teardown has
   failed. *)
Recorded ==
    \A r \in Clusters : rec[r] # None =>
        r \in kept \/ Listed(r) \/ (cmd.pc \in Launched /\ r = At)

(* Down has all replicas that are recorded before it. *)
DownOK ==
    cmd.pc = "each" \/ (cmd.pc = "del" /\ cmd.kind = "down") =>
        \A r \in Clusters : (r[1] = cmd.s /\ rec[r] # None) =>
            r \in kept \/ \E j \in DOMAIN cmd.todo : cmd.todo[j] = r[2]

(* What exists for a replica is what its record tells. *)
Told(r, b) ==
    IF rec[r] # None /\ forCluster(r) = b
    THEN IF rec[r].status = "up" THEN "running" ELSE "stopped"
    ELSE "none"

(* Without faults, of each replica, but for the one that a command is at. *)
Healthy ==
    faults = 0 =>
        /\ kept = {}
        /\ cmd.pc \notin {"undo", "error"}
        /\ \A r \in Clusters, b \in Managed :
             res[r][b] =
               IF r # At THEN Told(r, b)
               ELSE IF cmd.pc = "record" /\ cmd.be = "docker"
                    THEN IF b = "docker" THEN "running" ELSE "none"
               ELSE IF cmd.pc = "del" THEN "none"
               ELSE IF cmd.pc = "status" /\ forCluster(r) = b THEN Wanted(cmd.kind)
               ELSE Told(r, b)

SvcInv == CmdOK /\ UpOK /\ ListsOK /\ Recorded /\ DownOK /\ Healthy

-----------------------------------------------------------------------------
Pc == {"idle", "add", "rm", "run", "provision", "mark", "record", "snapshot",
       "list", "finish", "undo", "error", "get", "each", "del", "act", "status"}

(* Two states of a command that are at the same replica, in the same list. *)
Same(c, d) ==
    c.kind = d.kind /\ c.s = d.s /\ c.be = d.be /\ c.i = d.i /\ c.todo = d.todo

LEMMA GotoFields ==
    ASSUME cmd \in Command, NEW label \in Pc, Goto(label)
    PROVE  cmd' \in Command /\ cmd'.pc = label /\ Same(cmd', cmd)
BY DEF Goto, Command, Pc, Same

LEMMA ReturnFields ==
    ASSUME cmd \in Command, NEW r \in {"ok", "error"}, Return(r)
    PROVE  cmd' \in Command /\ cmd'.pc = "idle" /\ Same(cmd', cmd)
BY DEF Return, Ended, Command, Same

LEMMA EmptyIndices == <<>> \in Indices
BY DEF Indices

LEMMA BeginFields ==
    ASSUME cmd \in Command, NEW k \in Kind, NEW s \in Svcs, NEW i \in 0..(Replicas - 1),
           NEW b \in Backends \cup {"unset"}, Begin(k, s, i, b)
    PROVE  /\ cmd' \in Command
           /\ cmd'.pc = IF k = "up" THEN "add" ELSE IF k = "down" THEN "get" ELSE "act"
           /\ cmd'.kind = k /\ cmd'.s = s /\ cmd'.i = i /\ cmd'.be = b
<1> DEFINE pc == CASE k = "up" -> "add" [] k = "down" -> "get" [] OTHER -> "act"
           q == [pc |-> pc, kind |-> k, s |-> s, be |-> b, i |-> i, todo |-> <<>>, res |-> "none"]
<1>1. pc = IF k = "up" THEN "add" ELSE IF k = "down" THEN "get" ELSE "act"
  OBVIOUS
<1>2. pc \in Pc
  BY <1>1 DEF Pc
<1>3. <<>> \in Indices /\ i \in 0..Replicas
  BY EmptyIndices, ServicesAssumption
<1>4. cmd' = q
  BY DEF Begin
<1> HIDE DEF pc
<1>5. q \in Command
  BY <1>2, <1>3 DEF Command, Pc
<1>6. q.pc = pc /\ q.kind = k /\ q.s = s /\ q.i = i /\ q.be = b
  OBVIOUS
<1> HIDE DEF q
<1> QED BY <1>1, <1>4, <1>5, <1>6

LEMMA NextFields ==
    ASSUME cmd \in Command, cmd.i < Replicas, NEW n, n = cmd.i + 1, NextReplica(n)
    PROVE  /\ cmd' \in Command
           /\ cmd'.i = cmd.i + 1
           /\ cmd'.pc = IF cmd.i + 1 < Replicas THEN LaunchLabel(cmd.be) ELSE "finish"
           /\ cmd'.kind = cmd.kind /\ cmd'.s = cmd.s /\ cmd'.be = cmd.be
<1>1. n \in 0..Replicas
  BY ServicesAssumption DEF Command
<1>2. LaunchLabel(cmd.be) \in {"rm", "provision", "record"}
  BY DEF LaunchLabel
<1> QED BY <1>1, <1>2 DEF NextReplica, Command

LEMMA SkipFields ==
    ASSUME cmd \in Command, cmd.todo # <<>>
    PROVE  /\ Skip \in Command /\ Skip.todo = Tail(cmd.todo)
           /\ Skip.pc = cmd.pc /\ Skip.kind = cmd.kind /\ Skip.s = cmd.s /\ Skip.i = cmd.i
           /\ Head(cmd.todo) \in 0..(Replicas - 1)
<1>1. cmd.todo \in Indices
  BY DEF Command
<1>2. Tail(cmd.todo) \in Indices /\ Head(cmd.todo) \in 0..(Replicas - 1)
  BY <1>1, HeadTailProperties DEF Indices
<1> QED BY <1>2 DEF Skip, Command

LEMMA FaultType == (TypeOK /\ (Fault \/ UNCHANGED faults)) => faults' \in 0..MaxFaults
BY ServicesAssumption DEF TypeOK, Fault

LEMMA SomeRecord == None \notin Record /\ None \notin Service
BY NoneIsNoRecord DEF Record, Service, Indices

LEMMA TypeInit == Init => TypeOK
<1> SUFFICES ASSUME Init PROVE TypeOK
  OBVIOUS
<1>1. <<>> \in Indices /\ 0 \in 0..Replicas
  BY EmptyIndices, ServicesAssumption
<1>2. cmd \in Command
  BY <1>1 DEF Init, Command
<1>3. res \in [Clusters -> [Managed -> {"none", "running", "stopped"}]]
  BY DEF Init
<1>4. svc \in [Svcs -> {None} \cup Service] /\ rec \in [Clusters -> {None} \cup Record]
  BY DEF Init
<1>5. cmds \in 0..MaxCmds /\ faults \in 0..MaxFaults /\ kept \subseteq Clusters
  BY ServicesAssumption DEF Init
<1> QED BY <1>2, <1>3, <1>4, <1>5 DEF TypeOK

(* The replica that a command is at. *)
LEMMA AtType ==
    ASSUME TypeOK, CmdOK,
           cmd.pc \in Launching \cup Launched \cup {"act", "status", "del"}
    PROVE  /\ At \in Clusters /\ At[1] = cmd.s /\ At[2] = cmd.i
           /\ cmd.s \in Svcs /\ cmd.i \in 0..(Replicas - 1)
<1>1. cmd.s \in Svcs /\ cmd.i < Replicas /\ cmd.i \in 0..Replicas
  BY DEF CmdOK, TypeOK, Command, Launching, Launched
<1>2. cmd.i \in 0..(Replicas - 1)
  BY <1>1, ServicesAssumption
<1> QED BY <1>1, <1>2 DEF At, Clusters

LEMMA ClusterPair ==
    \A r \in Clusters : r = <<r[1], r[2]>> /\ r[1] \in Svcs /\ r[2] \in 0..(Replicas - 1)
BY DEF Clusters

LEMMA MakeCluster == \A s \in Svcs, i \in 0..(Replicas - 1) : <<s, i>> \in Clusters
BY DEF Clusters

(* The changes that the steps make to svc. *)
LEMMA NewService ==
    ASSUME TypeOK, NEW s \in Svcs,
           svc' = [svc EXCEPT ![s] = [status |-> "creating", list |-> <<>>]]
    PROVE  /\ svc' \in [Svcs -> {None} \cup Service]
           /\ \A t \in Svcs : t # s => svc'[t] = svc[t]
           /\ svc'[s] # None /\ svc'[s].status = "creating" /\ svc'[s].list = <<>>
<1> DEFINE v == [status |-> "creating", list |-> <<>>]
<1>1. v \in Service /\ v.status = "creating" /\ v.list = <<>>
  BY EmptyIndices DEF Service
<1> HIDE DEF v
<1>2. svc' = [svc EXCEPT ![s] = v] /\ svc \in [Svcs -> {None} \cup Service]
  BY DEF v, TypeOK
<1>3. svc' \in [Svcs -> {None} \cup Service] /\ (\A t \in Svcs : t # s => svc'[t] = svc[t])
      /\ svc'[s] = v
  BY <1>1, <1>2
<1> QED BY <1>1, <1>3, SomeRecord

LEMMA ServiceStatus ==
    ASSUME TypeOK, NEW s \in Svcs, svc[s] # None, NEW st \in {"creating", "running", "error"},
           svc' = [svc EXCEPT ![s].status = st]
    PROVE  /\ svc' \in [Svcs -> {None} \cup Service]
           /\ \A t \in Svcs : t # s => svc'[t] = svc[t]
           /\ svc'[s] # None /\ svc'[s].status = st /\ svc'[s].list = svc[s].list
<1> DEFINE v == [svc[s] EXCEPT !.status = st]
<1>1. svc[s] \in Service
  BY DEF TypeOK
<1>2. v \in Service /\ v.status = st /\ v.list = svc[s].list
  BY <1>1 DEF Service
<1>3. svc' = [svc EXCEPT ![s] = v] /\ svc \in [Svcs -> {None} \cup Service]
  BY DEF TypeOK
<1> HIDE DEF v
<1>4. svc' \in [Svcs -> {None} \cup Service] /\ (\A t \in Svcs : t # s => svc'[t] = svc[t])
      /\ svc'[s] = v
  BY <1>2, <1>3
<1> QED BY <1>2, <1>4, SomeRecord

LEMMA ServiceList ==
    ASSUME TypeOK, NEW s \in Svcs, svc[s] # None, NEW i \in 0..(Replicas - 1),
           svc' = [svc EXCEPT ![s].list = Append(@, i)]
    PROVE  /\ svc' \in [Svcs -> {None} \cup Service]
           /\ \A t \in Svcs : t # s => svc'[t] = svc[t]
           /\ svc'[s] # None /\ svc'[s].status = svc[s].status
           /\ svc'[s].list = Append(svc[s].list, i)
           /\ svc[s].list \in Indices
<1> DEFINE l == Append(svc[s].list, i)
           v == [svc[s] EXCEPT !.list = l]
<1>1. svc[s] \in Service /\ svc[s].list \in Indices
  BY DEF TypeOK, Service
<1>2. l \in Indices
  BY <1>1, AppendProperties DEF Indices
<1>3. svc' = [svc EXCEPT ![s] = v] /\ svc \in [Svcs -> {None} \cup Service]
  BY DEF TypeOK
<1> HIDE DEF l
<1>4. v \in Service /\ v.list = l /\ v.status = svc[s].status
  BY <1>1, <1>2 DEF Service
<1> HIDE DEF v
<1>5. svc' \in [Svcs -> {None} \cup Service] /\ (\A t \in Svcs : t # s => svc'[t] = svc[t])
      /\ svc'[s] = v
  BY <1>3, <1>4
<1> QED BY <1>1, <1>4, <1>5, SomeRecord DEF l

(* The changes that they make to rec and res. *)
LEMMA RecordSet ==
    ASSUME TypeOK, NEW r \in Clusters, NEW v \in {None} \cup Record, rec' = [rec EXCEPT ![r] = v]
    PROVE  /\ rec' \in [Clusters -> {None} \cup Record]
           /\ rec'[r] = v
           /\ \A q \in Clusters : q # r => rec'[q] = rec[q]
BY DEF TypeOK

LEMMA RecordOf ==
    ASSUME NEW b \in Backends \cup {"unset"}, NEW st \in {"up", "stopped", "error"}
    PROVE  LET v == [be |-> b, status |-> st]
           IN  v \in Record /\ v # None /\ v.be = b /\ v.status = st
<1> DEFINE v == [be |-> b, status |-> st]
<1>1. v \in Record /\ v.be = b /\ v.status = st
  BY DEF Record
<1> QED BY <1>1, SomeRecord

LEMMA RecordField ==
    ASSUME TypeOK, NEW r \in Clusters, rec[r] # None
    PROVE  /\ \A b \in Backends : LET v == [rec[r] EXCEPT !.be = b]
             IN  v \in Record /\ v.be = b /\ v.status = rec[r].status /\ v # None
           /\ \A st \in {"up", "stopped", "error"} : LET v == [rec[r] EXCEPT !.status = st]
             IN  v \in Record /\ v.status = st /\ v.be = rec[r].be /\ v # None
<1>1. rec[r] \in Record
  BY DEF TypeOK
<1>2. ASSUME NEW b \in Backends
      PROVE  LET v == [rec[r] EXCEPT !.be = b]
             IN  v \in Record /\ v.be = b /\ v.status = rec[r].status
  BY <1>1 DEF Record
<1>3. ASSUME NEW st \in {"up", "stopped", "error"}
      PROVE  LET v == [rec[r] EXCEPT !.status = st]
             IN  v \in Record /\ v.status = st /\ v.be = rec[r].be
  BY <1>1 DEF Record
<1> QED BY <1>2, <1>3, SomeRecord

SetsRes(r, b, v) == res' = [res EXCEPT ![r][b] = v]

LEMMA ResSetTo ==
    ASSUME TypeOK, NEW r \in Clusters, NEW b \in Managed,
           NEW v \in {"none", "running", "stopped"}, SetsRes(r, b, v)
    PROVE  /\ res' \in [Clusters -> [Managed -> {"none", "running", "stopped"}]]
           /\ res'[r][b] = v
           /\ \A q \in Clusters, c \in Managed : (q # r \/ c # b) => res'[q][c] = res[q][c]
<1> DEFINE m == [res[r] EXCEPT ![b] = v]
<1>1. m \in [Managed -> {"none", "running", "stopped"}] /\ m[b] = v
      /\ (\A c \in Managed : c # b => m[c] = res[r][c])
  BY DEF TypeOK
<1>2. res' = [res EXCEPT ![r] = m]
  BY DEF SetsRes
<1>3. res \in [Clusters -> [Managed -> {"none", "running", "stopped"}]]
  BY DEF TypeOK
<1> HIDE DEF m
<1>4. res' \in [Clusters -> [Managed -> {"none", "running", "stopped"}]]
  BY <1>1, <1>2, <1>3
<1>5. res'[r] = m /\ \A q \in Clusters : q # r => res'[q] = res[q]
  BY <1>2, <1>3
<1> QED BY <1>1, <1>4, <1>5

LEMMA ResSet ==
    ASSUME TypeOK, NEW r \in Clusters, NEW b \in Managed,
           NEW v \in {"none", "running", "stopped"}, res' = [res EXCEPT ![r][b] = v]
    PROVE  /\ res' \in [Clusters -> [Managed -> {"none", "running", "stopped"}]]
           /\ res'[r][b] = v
           /\ \A q \in Clusters, c \in Managed : (q # r \/ c # b) => res'[q][c] = res[q][c]
<1>1. SetsRes(r, b, v)
  BY DEF SetsRes
<1> QED BY <1>1, ResSetTo

LEMMA FaultSeen == (TypeOK /\ Fault) => faults' # 0
BY ServicesAssumption DEF TypeOK, Fault

(* Up is at a replica that has no record yet, when nothing has failed. *)
LEMMA Unrecorded ==
    ASSUME TypeOK, SvcInv, cmd.pc \in Launching, faults = 0
    PROVE  rec[At] = None
<1>1. At \in Clusters /\ At[1] = cmd.s /\ At[2] = cmd.i /\ cmd.s \in Svcs /\ cmd.i \in 0..(Replicas - 1)
  BY AtType DEF SvcInv
<1>2. SUFFICES ASSUME rec[At] # None PROVE FALSE
  OBVIOUS
<1>3. Listed(At)
  BY <1>1, <1>2 DEF SvcInv, Recorded, Healthy, Launching, Launched
<1>4. svc[cmd.s] \in Service /\ svc[cmd.s].list \in Indices
  BY <1>1, <1>3 DEF Listed, TypeOK, Service
<1>5. PICK j \in DOMAIN svc[cmd.s].list : svc[cmd.s].list[j] = cmd.i
  BY <1>1, <1>3 DEF Listed
<1>6. j - 1 = cmd.i
  BY <1>1, <1>3, <1>5 DEF SvcInv, ListsOK, Listed
<1>7. Len(svc[cmd.s].list) = cmd.i
  BY DEF SvcInv, UpOK
<1>8. DOMAIN svc[cmd.s].list = 1..Len(svc[cmd.s].list)
  BY <1>4 DEF Indices
<1> QED BY <1>1, <1>5, <1>6, <1>7, <1>8

-----------------------------------------------------------------------------
(* One lemma for each step.  Most steps leave all but one or two of the parts
   alone, or leave a part without anything to say. *)

LEMMA BeginInv ==
    ASSUME TypeOK, SvcInv, NEW k \in Kind, NEW s \in Svcs, NEW i \in 0..(Replicas - 1),
           NEW b \in Backends \cup {"unset"}, Begin(k, s, i, b), k = "up" => i = 0
    PROVE  TypeOK' /\ SvcInv'
<1>1. /\ cmd' \in Command
      /\ cmd'.pc = IF k = "up" THEN "add" ELSE IF k = "down" THEN "get" ELSE "act"
      /\ cmd'.kind = k /\ cmd'.s = s /\ cmd'.i = i /\ cmd'.be = b
  BY BeginFields DEF TypeOK
<1>2. cmd.pc = "idle" /\ UNCHANGED <<svc, rec, res, kept, faults>>
  BY DEF Begin, Quiet
<1>3. cmds' \in 0..MaxCmds
  BY ServicesAssumption DEF TypeOK, Begin
<1>4. TypeOK'
  BY <1>1, <1>2, <1>3 DEF TypeOK
<1>5. CmdOK'
  BY <1>1, ServicesAssumption DEF CmdOK, Launching, Launched, Kind
<1>6. UpOK' /\ ListsOK'
  BY <1>1, <1>2 DEF SvcInv, UpOK, ListsOK, Launching, Launched
<1>7. Recorded' /\ DownOK'
  BY <1>1, <1>2 DEF SvcInv, Recorded, DownOK, Listed, Launched
<1>8. Healthy'
  BY <1>1, <1>2 DEF SvcInv, Healthy, Told, forCluster
<1> QED BY <1>4, <1>5, <1>6, <1>7, <1>8 DEF SvcInv

LEMMA AddServiceInv ==
    ASSUME TypeOK, SvcInv, AddService, cmds' \in 0..MaxCmds
    PROVE  TypeOK' /\ SvcInv'
<1> DEFINE s == cmd.s
<1>1. cmd.pc = "add" /\ s \in Svcs /\ cmd.i = 0 /\ UNCHANGED <<rec, res, kept>>
  BY DEF AddService, SvcInv, CmdOK
<1>2. faults' \in 0..MaxFaults /\ (faults' = 0 => faults = 0)
  BY FaultType, FaultSeen DEF AddService, SavedOrReturn
<1>3. CASE svc[s] # None
  <2>1. Return("error") /\ UNCHANGED <<svc, faults>>
    BY <1>3 DEF AddService
  <2>2. cmd' \in Command /\ cmd'.pc = "idle" /\ Same(cmd', cmd)
    BY <2>1, ReturnFields DEF TypeOK
  <2>3. TypeOK'
    BY <1>1, <2>1, <2>2 DEF TypeOK
  <2>4. CmdOK' /\ UpOK' /\ ListsOK'
    BY <1>1, <2>1, <2>2 DEF SvcInv, CmdOK, UpOK, ListsOK, Launching, Launched
  <2>5. Recorded' /\ DownOK'
    BY <1>1, <2>1, <2>2 DEF SvcInv, Recorded, DownOK, Listed, Launched
  <2>6. Healthy'
    BY <1>1, <2>1, <2>2 DEF SvcInv, Healthy, Told, forCluster, Same, At
  <2> QED BY <2>3, <2>4, <2>5, <2>6 DEF SvcInv
<1>4. CASE svc[s] = None
  <2>1. svc' = [svc EXCEPT ![s] = [status |-> "creating", list |-> <<>>]]
        /\ SavedOrReturn(LaunchLabel(cmd.be))
    BY <1>4 DEF AddService
  <2>2. /\ svc' \in [Svcs -> {None} \cup Service]
        /\ \A t \in Svcs : t # s => svc'[t] = svc[t]
        /\ svc'[s] # None /\ svc'[s].status = "creating" /\ svc'[s].list = <<>>
    BY <1>1, <2>1, NewService
  <2> DEFINE l == LaunchLabel(cmd.be)
  <2>3. /\ l \in {"rm", "provision", "record"} /\ (l = "rm" => cmd.be = "docker")
        /\ (l = "record" => cmd.be # "docker") /\ (l = "provision" => cmd.be = "cloud")
    BY DEF LaunchLabel
  <2>4. /\ cmd' \in Command /\ Same(cmd', cmd)
        /\ cmd'.pc = "idle" \/ cmd'.pc = l
    <3>1. l \in Pc
      BY <2>3 DEF Pc
    <3>2. CASE Goto(l)
      BY <3>1, <3>2, GotoFields DEF TypeOK
    <3>3. CASE Return("error")
      BY <3>3, ReturnFields DEF TypeOK
    <3> QED BY <2>1, <3>2, <3>3 DEF SavedOrReturn
  <2> HIDE DEF l
  <2>5. TypeOK'
    BY <1>1, <1>2, <2>2, <2>4 DEF TypeOK
  <2>6. CmdOK'
    BY <1>1, <2>3, <2>4, ServicesAssumption DEF SvcInv, CmdOK, Launching, Launched, Same
  <2>7. UpOK'
    BY <1>1, <2>2, <2>3, <2>4 DEF UpOK, Launching, Launched, Same
  <2>8. ListsOK'
    BY <2>2 DEF SvcInv, ListsOK
  <2>9. Recorded'
    BY <1>1, <1>4, <2>2, <2>3, <2>4, ClusterPair DEF SvcInv, Recorded, Listed, Launched
  <2>10. DownOK'
    BY <2>3, <2>4 DEF DownOK
  <2>11. Healthy'
    BY <1>1, <1>2, <2>3, <2>4 DEF SvcInv, Healthy, Told, forCluster, Same, At
  <2> QED BY <2>5, <2>6, <2>7, <2>8, <2>9, <2>10, <2>11 DEF SvcInv
<1> QED BY <1>3, <1>4

LEMMA DockerRemoveInv ==
    ASSUME TypeOK, SvcInv, DockerRemove, cmds' \in 0..MaxCmds
    PROVE  TypeOK' /\ SvcInv'
<1>1. cmd.pc = "rm" /\ UNCHANGED <<svc, rec, kept>>
  BY DEF DockerRemove
<1>2. cmd' \in Command /\ cmd'.pc = "run" /\ Same(cmd', cmd)
  BY GotoFields DEF TypeOK, DockerRemove, Pc
<1>3. faults' \in 0..MaxFaults /\ (faults' = 0 => faults = 0 /\ ~ Fault)
  BY FaultType, FaultSeen DEF DockerRemove
<1>4. At \in Clusters
  BY <1>1, AtType DEF SvcInv, Launching
<1>5. /\ res' \in [Clusters -> [Managed -> {"none", "running", "stopped"}]]
      /\ ~ Fault => res'[At]["docker"] = "none"
      /\ \A q \in Clusters, c \in Managed : (q # At \/ c # "docker") => res'[q][c] = res[q][c]
  <2>1. CASE res' = [res EXCEPT ![At]["docker"] = "none"]
    BY <1>4, <2>1, ResSet DEF Managed
  <2>2. CASE Fault /\ UNCHANGED res
    BY <2>2 DEF TypeOK
  <2> QED BY <2>1, <2>2 DEF DockerRemove
<1>6. TypeOK'
  BY <1>1, <1>2, <1>3, <1>5 DEF TypeOK
<1>7. CmdOK' /\ UpOK' /\ ListsOK'
  BY <1>1, <1>2 DEF SvcInv, CmdOK, UpOK, ListsOK, Launching, Launched, Same
<1>8. Recorded' /\ DownOK'
  BY <1>1, <1>2 DEF SvcInv, Recorded, DownOK, Listed, Launched
<1>9. Healthy'
  <2>1. SUFFICES ASSUME faults' = 0 PROVE Healthy'
    BY DEF Healthy
  <2>2. rec[At] = None
    BY <1>1, <1>3, <2>1, Unrecorded DEF Launching
  <2> QED BY <1>1, <1>2, <1>3, <1>5, <2>1, <2>2 DEF SvcInv, Healthy, Told, forCluster, Same, At
<1> QED BY <1>6, <1>7, <1>8, <1>9 DEF SvcInv

LEMMA DockerRunInv ==
    ASSUME TypeOK, SvcInv, DockerRun, cmds' \in 0..MaxCmds
    PROVE  TypeOK' /\ SvcInv'
<1>1. cmd.pc = "run" /\ cmd.be = "docker" /\ UNCHANGED <<svc, rec, kept>>
  BY DEF DockerRun, SvcInv, CmdOK
<1>2. cmd' \in Command /\ cmd'.pc \in {"record", "undo"} /\ Same(cmd', cmd)
  BY GotoFields DEF TypeOK, DockerRun, Pc
<1>3. faults' \in 0..MaxFaults /\ (faults' = 0 => faults = 0 /\ ~ Fault)
  BY FaultType, FaultSeen DEF DockerRun
<1>4. At \in Clusters
  BY <1>1, AtType DEF SvcInv, Launching
<1>5. res' \in [Clusters -> [Managed -> {"none", "running", "stopped"}]]
  BY <1>4, ResSet DEF Managed, DockerRun, TypeOK
<1>6. TypeOK'
  BY <1>1, <1>2, <1>3, <1>5 DEF TypeOK
<1>7. CmdOK' /\ UpOK' /\ ListsOK'
  BY <1>1, <1>2 DEF SvcInv, CmdOK, UpOK, ListsOK, Launching, Launched, Same
<1>8. Recorded' /\ DownOK'
  BY <1>1, <1>2 DEF SvcInv, Recorded, DownOK, Listed, Launched
<1>9. Healthy'
  <2>1. SUFFICES ASSUME faults' = 0 PROVE Healthy'
    BY DEF Healthy
  <2>2. rec[At] = None
    BY <1>1, <1>3, <2>1, Unrecorded DEF Launching
  <2>3. res[At]["docker"] = "none"
    BY <1>1, <1>3, <1>4, <2>1, <2>2 DEF SvcInv, Healthy, Told, Managed
  <2>4. res' = [res EXCEPT ![At]["docker"] = "running"] /\ Goto("record")
    BY <1>3, <2>1, <2>3 DEF DockerRun
  <2>5. cmd'.pc = "record"
    BY <2>4, GotoFields DEF TypeOK, Pc
  <2>6. /\ res'[At]["docker"] = "running"
        /\ \A q \in Clusters, c \in Managed : (q # At \/ c # "docker") => res'[q][c] = res[q][c]
    BY <1>4, <2>4, ResSet DEF Managed
  <2>7. ASSUME NEW q \in Clusters, NEW b \in Managed
        PROVE  res[q][b] = Told(q, b)
    BY <1>1, <1>3, <2>1 DEF SvcInv, Healthy
  <2> QED BY <1>1, <1>2, <1>3, <2>1, <2>2, <2>5, <2>6, <2>7
          DEF SvcInv, Healthy, Told, forCluster, Same, At
<1> QED BY <1>6, <1>7, <1>8, <1>9 DEF SvcInv

LEMMA AddClusterInv ==
    ASSUME TypeOK, SvcInv, cmd.pc = "record", cmd.be \in Backends, cmd.be # "cloud",
           AddCluster, cmds' \in 0..MaxCmds
    PROVE  TypeOK' /\ SvcInv'
<1>1. UNCHANGED <<svc, res, kept>>
  BY DEF AddCluster
<1>2. cmd' \in Command /\ cmd'.pc \in {"snapshot", "undo"} /\ Same(cmd', cmd)
  BY GotoFields DEF TypeOK, AddCluster, Saved, Pc
<1>3. faults' \in 0..MaxFaults /\ (faults' = 0 => faults = 0 /\ ~ Fault)
  BY FaultType, FaultSeen DEF AddCluster, Saved
<1>4. At \in Clusters
  BY AtType DEF SvcInv, Launching
<1> DEFINE v == [be |-> cmd.be, status |-> "up"]
<1>5. v \in Record /\ v # None /\ v.be = cmd.be /\ v.status = "up"
  BY RecordOf
<1>6. \/ rec[At] # None /\ rec' = rec
      \/ rec[At] = None /\ rec' = [rec EXCEPT ![At] = v] /\ Saved("snapshot", "undo")
  BY DEF AddCluster
<1> HIDE DEF v
<1>7. /\ rec' \in [Clusters -> {None} \cup Record]
      /\ rec[At] = None => rec'[At] = v
      /\ \A q \in Clusters : q # At => rec'[q] = rec[q]
  BY <1>4, <1>5, <1>6, RecordSet DEF TypeOK
<1>8. TypeOK'
  BY <1>1, <1>2, <1>3, <1>7 DEF TypeOK
<1>9. CmdOK' /\ UpOK' /\ ListsOK'
  BY <1>1, <1>2 DEF SvcInv, CmdOK, UpOK, ListsOK, Launching, Launched, Same
<1>10. Recorded' /\ DownOK'
  BY <1>1, <1>2, <1>7 DEF SvcInv, Recorded, DownOK, Listed, Launched, Same, At
<1>11. Healthy'
  <2>1. SUFFICES ASSUME faults' = 0 PROVE Healthy'
    BY DEF Healthy
  <2>2. rec[At] = None /\ rec'[At] = v
    BY <1>3, <1>7, <2>1, Unrecorded DEF Launching
  <2>3. cmd'.pc = "snapshot"
    <3>1. Goto("snapshot")
      BY <1>3, <1>6, <2>1, <2>2 DEF Saved
    <3> QED BY <3>1, GotoFields DEF TypeOK, Pc
  <2>4. cmd.be # "unset"
    BY ServicesAssumption
  <2>5. \A b \in Managed : res[At][b] = IF cmd.be = b THEN "running" ELSE "none"
    BY <1>3, <1>4, <2>1, <2>2 DEF SvcInv, Healthy, Managed, Told
  <2>6. \A b \in Managed : Told(At, b)' = IF cmd.be = b THEN "running" ELSE "none"
    BY <1>2, <1>5, <2>2, <2>4 DEF Told, forCluster, At, Same
  <2>7. \A q \in Clusters, b \in Managed : q # At => res[q][b] = Told(q, b)'
    BY <1>3, <1>7, <2>1 DEF SvcInv, Healthy, Told, forCluster
  <2> QED BY <1>1, <1>2, <1>3, <2>1, <2>3, <2>5, <2>6, <2>7 DEF SvcInv, Healthy, Same, At
<1> QED BY <1>8, <1>9, <1>10, <1>11 DEF SvcInv

LEMMA ProvisionInv ==
    ASSUME TypeOK, SvcInv, Provision, cmds' \in 0..MaxCmds
    PROVE  TypeOK' /\ SvcInv'
<1> DEFINE r == At
           running == [res EXCEPT ![r]["cloud"] = "running"]
<1>1. cmd.pc = "provision" /\ UNCHANGED <<svc, kept>>
  BY DEF Provision
<1>2. cmd' \in Command /\ cmd'.pc \in {"mark", "undo"} /\ Same(cmd', cmd)
  BY GotoFields DEF TypeOK, Provision, Pc
<1>3. faults' \in 0..MaxFaults /\ (faults' = 0 => faults = 0 /\ ~ Fault)
  BY FaultType, FaultSeen DEF Provision
<1>4. r \in Clusters
  BY <1>1, AtType DEF SvcInv, Launching
<1> DEFINE up == [be |-> "unset", status |-> "up"]
           err == [be |-> "unset", status |-> "error"]
<1>5. /\ up \in Record /\ up # None /\ up.be = "unset" /\ up.status = "up"
      /\ err \in Record /\ err # None
  BY RecordOf
<1>6. \/ rec[r] = None /\ res' = running /\ rec' = [rec EXCEPT ![r] = up] /\ Goto("mark")
      \/ rec[r] # None /\ res' = running /\ rec' = rec
      \/ Fault /\ UNCHANGED <<res, rec>>
      \/ Fault /\ rec[r] = None /\ res' = running /\ rec' = [rec EXCEPT ![r] = err]
  BY DEF Provision
<1>7. cmd'.pc = "mark" => rec'[r] # None /\ rec'[r].be = "unset"
  <2>1. CASE Goto("mark") /\ rec[r] = None /\ rec' = [rec EXCEPT ![r] = up]
    BY <1>4, <1>5, <2>1, RecordSet
  <2>2. CASE Goto("undo")
    BY <2>2, GotoFields DEF TypeOK, Pc
  <2> QED BY <2>1, <2>2 DEF Provision
<1> HIDE DEF r, up, err
<1>8. /\ rec' \in [Clusters -> {None} \cup Record]
      /\ \A q \in Clusters : q # r => rec'[q] = rec[q]
  BY <1>4, <1>5, <1>6, RecordSet DEF TypeOK
<1>9. res' \in [Clusters -> [Managed -> {"none", "running", "stopped"}]]
  BY <1>4, <1>6, ResSet DEF TypeOK, Managed
<1>10. TypeOK'
  BY <1>1, <1>2, <1>3, <1>8, <1>9 DEF TypeOK
<1>11. CmdOK' /\ UpOK' /\ ListsOK'
  BY <1>1, <1>2, <1>7 DEF SvcInv, CmdOK, UpOK, ListsOK, Launching, Launched, Same, r, At
<1>12. Recorded' /\ DownOK'
  BY <1>1, <1>2, <1>8 DEF SvcInv, Recorded, DownOK, Listed, Launched, Same, r, At
<1>13. Healthy'
  <2>1. SUFFICES ASSUME faults' = 0 PROVE Healthy'
    BY DEF Healthy
  <2>2. rec[r] = None
    BY <1>1, <1>3, <2>1, Unrecorded DEF Launching, r
  <2>3. res' = running /\ rec' = [rec EXCEPT ![r] = up] /\ Goto("mark")
    BY <1>3, <1>6, <2>1, <2>2
  <2>4. cmd'.pc = "mark"
    BY <2>3, GotoFields DEF TypeOK, Pc
  <2>5. /\ res'[r]["cloud"] = "running"
        /\ \A q \in Clusters, c \in Managed : (q # r \/ c # "cloud") => res'[q][c] = res[q][c]
    BY <1>4, <2>3, ResSet DEF Managed
  <2>6. rec'[r] = up
    BY <1>4, <1>5, <2>3, RecordSet
  <2>7. \A q \in Clusters, b \in Managed : res[q][b] = Told(q, b)
    BY <1>1, <1>3, <2>1 DEF SvcInv, Healthy
  <2>8. \A q \in Clusters, b \in Managed : q = r => res'[q][b] = Told(q, b)'
    BY <1>4, <1>5, <2>2, <2>5, <2>6, <2>7 DEF Told, forCluster, Managed
  <2>9. \A q \in Clusters, b \in Managed : q # r => res'[q][b] = Told(q, b)'
    BY <1>8, <2>5, <2>7 DEF Told, forCluster
  <2> QED BY <1>1, <1>2, <1>3, <2>1, <2>4, <2>8, <2>9 DEF SvcInv, Healthy, Same, At, r
<1> QED BY <1>10, <1>11, <1>12, <1>13 DEF SvcInv
LEMMA MarkBackendInv ==
    ASSUME TypeOK, SvcInv, MarkBackend, cmds' \in 0..MaxCmds
    PROVE  TypeOK' /\ SvcInv'
<1>1. cmd.pc = "mark" /\ rec[At] # None /\ UNCHANGED <<svc, res, kept>>
  BY DEF MarkBackend, SvcInv, CmdOK
<1>2. cmd' \in Command /\ cmd'.pc \in {"snapshot", "undo"} /\ Same(cmd', cmd)
  BY GotoFields DEF TypeOK, MarkBackend, Saved, Pc
<1>3. faults' \in 0..MaxFaults /\ (faults' = 0 => faults = 0 /\ ~ Fault)
  BY FaultType, FaultSeen DEF MarkBackend, Saved
<1>4. At \in Clusters
  BY <1>1, AtType DEF SvcInv, Launched
<1>5. "cloud" \in Backends
  BY <1>1 DEF SvcInv, CmdOK, TypeOK, Command
<1> DEFINE v == [rec[At] EXCEPT !.be = "cloud"]
<1>6. v \in Record /\ v.be = "cloud" /\ v.status = rec[At].status /\ v # None
  BY <1>1, <1>4, <1>5, RecordField
<1>7. rec' = [rec EXCEPT ![At] = v]
  BY DEF MarkBackend
<1> HIDE DEF v
<1>8. /\ rec' \in [Clusters -> {None} \cup Record]
      /\ rec'[At] = v
      /\ \A q \in Clusters : q # At => rec'[q] = rec[q]
  BY <1>4, <1>6, <1>7, RecordSet
<1>9. TypeOK'
  BY <1>1, <1>2, <1>3, <1>8 DEF TypeOK
<1>10. CmdOK' /\ UpOK' /\ ListsOK'
  BY <1>1, <1>2 DEF SvcInv, CmdOK, UpOK, ListsOK, Launching, Launched, Same
<1>11. Recorded' /\ DownOK'
  BY <1>1, <1>2, <1>8 DEF SvcInv, Recorded, DownOK, Listed, Launched, Same, At
<1>12. Healthy'
  <2>1. SUFFICES ASSUME faults' = 0 PROVE Healthy'
    BY DEF Healthy
  <2>2. cmd'.pc = "snapshot"
    <3>1. Goto("snapshot")
      BY <1>3, <2>1 DEF MarkBackend, Saved
    <3> QED BY <3>1, GotoFields DEF TypeOK, Pc
  <2>3. \A q \in Clusters, b \in Managed : res[q][b] = Told(q, b)
    BY <1>1, <1>3, <2>1 DEF SvcInv, Healthy
  <2>4. rec[At].be = "unset"
    BY <1>1 DEF SvcInv, CmdOK
  <2>5. \A q \in Clusters, b \in Managed : q = At => Told(q, b)' = Told(q, b)
    BY <1>1, <1>6, <1>8, <2>4 DEF Told, forCluster
  <2>6. \A q \in Clusters, b \in Managed : q # At => Told(q, b)' = Told(q, b)
    BY <1>8 DEF Told, forCluster
  <2> QED BY <1>1, <1>2, <1>3, <2>1, <2>2, <2>3, <2>5, <2>6 DEF SvcInv, Healthy, Same, At
<1> QED BY <1>9, <1>10, <1>11, <1>12 DEF SvcInv

LEMMA RecordLaunchInv ==
    ASSUME TypeOK, SvcInv, RecordLaunch, cmds' \in 0..MaxCmds
    PROVE  TypeOK' /\ SvcInv'
<1>1. cmd.pc = "snapshot" /\ UNCHANGED <<svc, rec, res, kept>>
  BY DEF RecordLaunch
<1>2. cmd' \in Command /\ cmd'.pc \in {"list", "undo"} /\ Same(cmd', cmd)
  BY GotoFields DEF TypeOK, RecordLaunch, Saved, Pc
<1>3. faults' \in 0..MaxFaults /\ (faults' = 0 => faults = 0 /\ ~ Fault)
  BY FaultType, FaultSeen DEF RecordLaunch, Saved
<1>4. faults' = 0 => cmd'.pc = "list"
  BY <1>3, GotoFields DEF TypeOK, RecordLaunch, Saved, Pc
<1>5. TypeOK'
  BY <1>1, <1>2, <1>3 DEF TypeOK
<1>6. CmdOK' /\ UpOK' /\ ListsOK'
  BY <1>1, <1>2 DEF SvcInv, CmdOK, UpOK, ListsOK, Launching, Launched, Same
<1>7. Recorded' /\ DownOK'
  BY <1>1, <1>2 DEF SvcInv, Recorded, DownOK, Listed, Launched, Same, At
<1>8. Healthy'
  BY <1>1, <1>2, <1>3, <1>4 DEF SvcInv, Healthy, Told, forCluster, Same, At
<1> QED BY <1>5, <1>6, <1>7, <1>8 DEF SvcInv

LEMMA ListReplicaInv ==
    ASSUME TypeOK, SvcInv, ListReplica, cmds' \in 0..MaxCmds
    PROVE  TypeOK' /\ SvcInv'
<1> DEFINE s == cmd.s
           i == cmd.i
<1>1. cmd.pc = "list" /\ svc[s] # None /\ Len(svc[s].list) = i /\ UNCHANGED <<rec, res, kept>>
  BY DEF ListReplica, SvcInv, UpOK, Launched
<1>2. faults' \in 0..MaxFaults /\ (faults' = 0 => faults = 0)
  BY FaultType, FaultSeen DEF ListReplica
<1>3. At \in Clusters /\ At = <<s, i>> /\ s \in Svcs /\ i \in 0..(Replicas - 1) /\ i < Replicas
  BY <1>1, AtType, ServicesAssumption DEF SvcInv, Launched, At
<1>4. PICK n : n = i + 1
  OBVIOUS
<1>5. /\ cmd' \in Command
      /\ cmd'.i = i + 1
      /\ cmd'.pc = IF i + 1 < Replicas THEN LaunchLabel(cmd.be) ELSE "finish"
      /\ cmd'.kind = cmd.kind /\ cmd'.s = cmd.s /\ cmd'.be = cmd.be
  BY <1>3, <1>4, NextFields DEF ListReplica, TypeOK
<1> DEFINE l == LaunchLabel(cmd.be)
<1>6. /\ l \in {"rm", "provision", "record"} /\ (l = "rm" => cmd.be = "docker")
      /\ (l = "record" => cmd.be # "docker") /\ (l = "provision" => cmd.be = "cloud")
  BY DEF LaunchLabel
<1> HIDE DEF l
<1>7. /\ svc' \in [Svcs -> {None} \cup Service]
      /\ \A t \in Svcs : t # s => svc'[t] = svc[t]
      /\ svc'[s] # None /\ svc'[s].status = svc[s].status
      /\ svc'[s].list = Append(svc[s].list, i)
      /\ svc[s].list \in Indices
  BY <1>1, <1>3, ServiceList DEF ListReplica
<1> HIDE DEF s, i
<1>8. /\ Len(svc'[s].list) = i + 1
      /\ DOMAIN svc'[s].list = 1..(i + 1) /\ DOMAIN svc[s].list = 1..i
      /\ svc'[s].list[i + 1] = i
      /\ \A j \in 1..i : svc'[s].list[j] = svc[s].list[j]
  BY <1>1, <1>3, <1>7, AppendProperties DEF Indices
<1>9. TypeOK'
  BY <1>1, <1>2, <1>5, <1>7 DEF TypeOK
<1>10. CmdOK'
  BY <1>3, <1>5, <1>6, ServicesAssumption DEF CmdOK, Launching, Launched, s, i, l
<1>11. UpOK'
  <2>1. cmd'.pc = "finish" => cmd'.i = Replicas
    BY <1>3, <1>5, <1>6, ServicesAssumption DEF l, i
  <2>2. svc'[cmd'.s] # None /\ Len(svc'[cmd'.s].list) = cmd'.i
    BY <1>5, <1>7, <1>8 DEF s, i
  <2> QED BY <2>1, <2>2 DEF UpOK
<1>12. ListsOK'
  <2>1. svc[s].status # "running"
    BY <1>1, <1>3 DEF SvcInv, ListsOK
  <2>2. \A j \in DOMAIN svc[s].list : svc[s].list[j] = j - 1
    BY <1>1, <1>3 DEF SvcInv, ListsOK
  <2>3. ASSUME NEW j \in 1..(i + 1)
        PROVE  svc'[s].list[j] = j - 1
    <3>1. i \in Nat /\ (j \in 1..i \/ j = i + 1)
      BY <1>3, ServicesAssumption
    <3>2. CASE j \in 1..i
      BY <1>8, <2>2, <3>2
    <3>3. CASE j = i + 1
      <4>1. j - 1 = i
        BY <3>1, <3>3
      <4>2. svc'[s].list[j] = i
        BY <1>8, <3>3
      <4> QED BY <4>1, <4>2
    <3> QED BY <3>1, <3>2, <3>3
  <2>4. \A j \in DOMAIN svc'[s].list : svc'[s].list[j] = j - 1
    BY <1>8, <2>3
  <2> QED BY <1>7, <2>1, <2>4 DEF SvcInv, ListsOK
<1>13. Recorded'
  <2> SUFFICES ASSUME NEW r \in Clusters, rec'[r] # None, r \notin kept'
               PROVE  Listed(r)'
    BY DEF Recorded
  <2>1. Listed(r) \/ r = At
    BY <1>1 DEF SvcInv, Recorded
  <2>2. CASE r = At
    <3>1. r[1] = s /\ r[2] = i /\ i + 1 \in DOMAIN svc'[s].list
      BY <1>3, <1>8, <2>2
    <3> QED BY <1>7, <1>8, <3>1 DEF Listed
  <2>3. CASE Listed(r) /\ r[1] = s
    <3>1. PICK j \in DOMAIN svc[s].list : svc[s].list[j] = r[2]
      BY <2>3 DEF Listed
    <3>2. j \in DOMAIN svc'[s].list /\ svc'[s].list[j] = r[2]
      BY <1>3, <1>8, <3>1
    <3> QED BY <1>7, <2>3, <3>2 DEF Listed
  <2>4. CASE Listed(r) /\ r[1] # s
    BY <1>7, <2>4, ClusterPair DEF Listed
  <2> QED BY <2>1, <2>2, <2>3, <2>4
<1>14. DownOK'
  BY <1>5, <1>6 DEF DownOK, l
<1>15. Healthy'
  <2>1. SUFFICES ASSUME faults' = 0 PROVE Healthy'
    BY DEF Healthy
  <2>2. \A q \in Clusters, b \in Managed : res[q][b] = Told(q, b)
    BY <1>1, <1>2, <2>1 DEF SvcInv, Healthy
  <2>3. \A q \in Clusters, b \in Managed : Told(q, b)' = Told(q, b)
    BY <1>1 DEF Told, forCluster
  <2>4. kept' = {} /\ cmd'.pc \in {"rm", "provision", "record", "finish"}
        /\ (cmd'.pc = "record" => cmd'.be # "docker")
    BY <1>1, <1>2, <1>5, <1>6, <2>1 DEF SvcInv, Healthy, l
  <2> QED BY <1>1, <2>2, <2>3, <2>4 DEF Healthy
<1> QED BY <1>9, <1>10, <1>11, <1>12, <1>13, <1>14, <1>15 DEF SvcInv

LEMMA FinishInv ==
    ASSUME TypeOK, SvcInv, Finish, cmds' \in 0..MaxCmds
    PROVE  TypeOK' /\ SvcInv'
<1> DEFINE s == cmd.s
<1>1. /\ cmd.pc = "finish" /\ s \in Svcs /\ svc[s] # None /\ Len(svc[s].list) = Replicas
      /\ UNCHANGED <<rec, res, kept, faults>>
  BY DEF Finish, SvcInv, UpOK, CmdOK
<1>2. cmd' \in Command /\ cmd'.pc = "idle" /\ Same(cmd', cmd)
  BY ReturnFields DEF Finish, TypeOK
<1>3. /\ svc' \in [Svcs -> {None} \cup Service]
      /\ \A t \in Svcs : t # s => svc'[t] = svc[t]
      /\ svc'[s] # None /\ svc'[s].list = svc[s].list
  BY <1>1, ServiceStatus DEF Finish
<1>4. TypeOK'
  BY <1>1, <1>2, <1>3 DEF TypeOK
<1>5. CmdOK' /\ UpOK'
  BY <1>2 DEF CmdOK, UpOK, Launching, Launched
<1>6. ListsOK'
  BY <1>1, <1>3 DEF SvcInv, ListsOK
<1>7. Recorded' /\ DownOK'
  BY <1>1, <1>2, <1>3, ClusterPair DEF SvcInv, Recorded, DownOK, Listed, Launched
<1>8. Healthy'
  BY <1>1, <1>2 DEF SvcInv, Healthy, Told, forCluster, Same, At
<1> QED BY <1>4, <1>5, <1>6, <1>7, <1>8 DEF SvcInv

LEMMA UndoReplicaInv ==
    ASSUME TypeOK, SvcInv, UndoReplica, cmds' \in 0..MaxCmds
    PROVE  TypeOK' /\ SvcInv'
<1>1. cmd.pc = "undo" /\ UNCHANGED <<svc, res, kept, faults>>
  BY DEF UndoReplica
<1>2. cmd' \in Command /\ cmd'.pc = "error" /\ Same(cmd', cmd)
  BY GotoFields DEF UndoReplica, TypeOK, Pc
<1>3. At \in Clusters
  BY <1>1, AtType DEF SvcInv, Launched
<1>4. /\ rec' \in [Clusters -> {None} \cup Record]
      /\ rec'[At] = None
      /\ \A q \in Clusters : q # At => rec'[q] = rec[q]
  BY <1>3, RecordSet DEF UndoReplica
<1>5. TypeOK'
  BY <1>1, <1>2, <1>4 DEF TypeOK
<1>6. CmdOK' /\ UpOK' /\ ListsOK'
  BY <1>1, <1>2 DEF SvcInv, CmdOK, UpOK, ListsOK, Launching, Launched, Same
<1>7. Recorded' /\ DownOK'
  BY <1>1, <1>2, <1>4 DEF SvcInv, Recorded, DownOK, Listed, Launched
<1>8. Healthy'
  BY <1>1 DEF SvcInv, Healthy
<1> QED BY <1>5, <1>6, <1>7, <1>8 DEF SvcInv

LEMMA UpFailedInv ==
    ASSUME TypeOK, SvcInv, UpFailed, cmds' \in 0..MaxCmds
    PROVE  TypeOK' /\ SvcInv'
<1> DEFINE s == cmd.s
<1>1. /\ cmd.pc = "error" /\ s \in Svcs /\ svc[s] # None
      /\ UNCHANGED <<rec, res, kept, faults>>
  BY DEF UpFailed, SvcInv, UpOK, CmdOK
<1>2. cmd' \in Command /\ cmd'.pc = "idle" /\ Same(cmd', cmd)
  BY ReturnFields DEF UpFailed, TypeOK
<1>3. /\ svc' \in [Svcs -> {None} \cup Service]
      /\ \A t \in Svcs : t # s => svc'[t] = svc[t]
      /\ svc'[s] # None /\ svc'[s].status = "error" /\ svc'[s].list = svc[s].list
  BY <1>1, ServiceStatus DEF UpFailed
<1>4. TypeOK'
  BY <1>1, <1>2, <1>3 DEF TypeOK
<1>5. CmdOK' /\ UpOK'
  BY <1>2 DEF CmdOK, UpOK, Launching, Launched
<1>6. ListsOK'
  BY <1>1, <1>3 DEF SvcInv, ListsOK
<1>7. Recorded' /\ DownOK'
  BY <1>1, <1>2, <1>3, ClusterPair DEF SvcInv, Recorded, DownOK, Listed, Launched
<1>8. Healthy'
  BY <1>1 DEF SvcInv, Healthy
<1> QED BY <1>4, <1>5, <1>6, <1>7, <1>8 DEF SvcInv
LEMMA GetServiceInv ==
    ASSUME TypeOK, SvcInv, GetService, cmds' \in 0..MaxCmds
    PROVE  TypeOK' /\ SvcInv'
<1> DEFINE s == cmd.s
<1>1. cmd.pc = "get" /\ s \in Svcs /\ UNCHANGED <<svc, rec, res, kept, faults>>
  BY DEF GetService, SvcInv, CmdOK
<1>2. cmd.kind = "down"
  BY <1>1 DEF SvcInv, CmdOK
<1>3. CASE svc[s] = None
  <2>1. cmd' \in Command /\ cmd'.pc = "idle" /\ Same(cmd', cmd)
    BY <1>3, ReturnFields DEF GetService, TypeOK, Return
  <2>2. TypeOK'
    BY <1>1, <2>1 DEF TypeOK
  <2>3. CmdOK' /\ UpOK' /\ ListsOK'
    BY <1>1, <2>1 DEF SvcInv, CmdOK, UpOK, ListsOK, Launching, Launched
  <2>4. Recorded' /\ DownOK'
    BY <1>1, <2>1 DEF SvcInv, Recorded, DownOK, Listed, Launched
  <2>5. Healthy'
    BY <1>1, <2>1 DEF SvcInv, Healthy, Told, forCluster, Same, At
  <2> QED BY <2>2, <2>3, <2>4, <2>5 DEF SvcInv
<1>4. CASE svc[s] # None
  <2> DEFINE l == svc[s].list
             q == [cmd EXCEPT !.pc = "each", !.todo = l]
  <2>1. l \in Indices /\ cmd \in Command /\ cmd' = q
    BY <1>1, <1>4 DEF TypeOK, Service, GetService
  <2> HIDE DEF l
  <2>2. /\ q \in Command /\ q.pc = "each" /\ q.todo = l
        /\ q.kind = cmd.kind /\ q.s = cmd.s /\ q.i = cmd.i /\ q.be = cmd.be
    BY <2>1 DEF Command
  <2> HIDE DEF q
  <2>3. TypeOK'
    BY <1>1, <2>1, <2>2 DEF TypeOK
  <2>4. CmdOK' /\ UpOK' /\ ListsOK'
    BY <1>1, <1>2, <2>1, <2>2 DEF SvcInv, CmdOK, UpOK, ListsOK, Launching, Launched
  <2>5. Recorded'
    BY <1>1, <2>1, <2>2 DEF SvcInv, Recorded, Listed, Launched
  <2>6. DownOK'
    <3> SUFFICES ASSUME NEW r \in Clusters, r[1] = cmd'.s, rec'[r] # None, r \notin kept'
                 PROVE  \E j \in DOMAIN cmd'.todo : cmd'.todo[j] = r[2]
      BY DEF DownOK
    <3>1. Listed(r) /\ r[1] = s
      BY <1>1, <2>1, <2>2 DEF SvcInv, Recorded, Launched
    <3> QED BY <2>1, <2>2, <3>1 DEF Listed, l
  <2>7. Healthy'
    BY <1>1, <2>1, <2>2 DEF SvcInv, Healthy, Told, forCluster, At
  <2> QED BY <2>3, <2>4, <2>5, <2>6, <2>7 DEF SvcInv
<1> QED BY <1>3, <1>4

(* What remains of a list after its head. *)
LEMMA TailHas ==
    ASSUME NEW l \in Indices, l # <<>>
    PROVE  \A x : (\E j \in DOMAIN l : l[j] = x) =>
                  x = Head(l) \/ \E j \in DOMAIN Tail(l) : Tail(l)[j] = x
<1>1. l \in Seq(0..(Replicas - 1)) /\ Len(l) \in Nat /\ DOMAIN l = 1..Len(l)
  BY DEF Indices
<1>2. Tail(l) \in Seq(0..(Replicas - 1)) /\ Len(Tail(l)) = Len(l) - 1 /\ Head(l) = l[1]
      /\ (\A j \in 1..(Len(l) - 1) : Tail(l)[j] = l[j + 1])
  BY <1>1, HeadTailProperties
<1>3. DOMAIN Tail(l) = 1..(Len(l) - 1)
  BY <1>2
<1> SUFFICES ASSUME NEW x, NEW j \in DOMAIN l, l[j] = x, x # Head(l)
             PROVE  \E i \in DOMAIN Tail(l) : Tail(l)[i] = x
  OBVIOUS
<1>4. j \in 1..Len(l) /\ j # 1
  BY <1>1, <1>2
<1>5. PICK i \in 1..(Len(l) - 1) : i + 1 = j
  <2>1. (j - 1) \in 1..(Len(l) - 1) /\ (j - 1) + 1 = j
    BY <1>1, <1>4
  <2> QED BY <2>1
<1> QED BY <1>2, <1>3, <1>5

(* What the teardown of a replica leaves of it. *)
LEMMA TeardownRes ==
    ASSUME TypeOK, NEW r \in Clusters, rec[r] # None,
           \/ forCluster(r) = "cloud" /\ res' = [res EXCEPT ![r]["cloud"] = "none"]
              /\ UNCHANGED faults
           \/ forCluster(r) # "cloud" /\ Teardown(r)
    PROVE  /\ res' \in [Clusters -> [Managed -> {"none", "running", "stopped"}]]
           /\ faults' \in 0..MaxFaults /\ (faults' = 0 => faults = 0)
           /\ \A q \in Clusters, b \in Managed : q # r => res'[q][b] = res[q][b]
           /\ (faults' = 0 /\ \A b \in Managed : res[r][b] = Told(r, b)) =>
                 \A b \in Managed : res'[r][b] = "none"
<1>1. faults' \in 0..MaxFaults /\ (faults' = 0 => faults = 0 /\ ~ Fault)
  BY FaultType, FaultSeen DEF Teardown
<1>2. CASE forCluster(r) = "cloud" /\ res' = [res EXCEPT ![r]["cloud"] = "none"]
  <2>1. /\ res' \in [Clusters -> [Managed -> {"none", "running", "stopped"}]]
        /\ res'[r]["cloud"] = "none"
        /\ \A q \in Clusters, c \in Managed : (q # r \/ c # "cloud") => res'[q][c] = res[q][c]
    BY <1>2, ResSet DEF Managed
  <2> QED BY <1>1, <1>2, <2>1 DEF Told, Managed
<1>3. CASE forCluster(r) = "docker" /\ res' = [res EXCEPT ![r]["docker"] = "none"]
  <2>1. /\ res' \in [Clusters -> [Managed -> {"none", "running", "stopped"}]]
        /\ res'[r]["docker"] = "none"
        /\ \A q \in Clusters, c \in Managed : (q # r \/ c # "docker") => res'[q][c] = res[q][c]
    BY <1>3, ResSet DEF Managed
  <2> QED BY <1>1, <1>3, <2>1 DEF Told, Managed
<1>4. CASE UNCHANGED res /\ (Fault \/ forCluster(r) \notin Managed)
  BY <1>1, <1>4 DEF Told, Managed, TypeOK
<1> QED BY <1>1, <1>2, <1>3, <1>4 DEF Teardown, Managed

(* The changes that Down makes to the command. *)
LEMMA DelFields ==
    ASSUME cmd \in Command, NEW i \in 0..(Replicas - 1), cmd' = [cmd EXCEPT !.pc = "del", !.i = i]
    PROVE  /\ cmd' \in Command /\ cmd'.pc = "del" /\ cmd'.i = i /\ cmd'.s = cmd.s
           /\ cmd'.kind = cmd.kind /\ cmd'.todo = cmd.todo /\ cmd'.be = cmd.be
<1>1. i \in 0..Replicas
  BY ServicesAssumption
<1> QED BY <1>1 DEF Command

LEMMA NextFieldsOfDown ==
    ASSUME cmd \in Command, cmd.todo # <<>>,
           cmd' = [cmd EXCEPT !.pc = "each", !.todo = Tail(@)]
    PROVE  /\ cmd' \in Command /\ cmd'.pc = "each" /\ cmd'.i = cmd.i /\ cmd'.s = cmd.s
           /\ cmd'.kind = cmd.kind /\ cmd'.todo = Tail(cmd.todo) /\ cmd'.be = cmd.be
<1>1. cmd.todo \in Indices
  BY DEF Command
<1>2. Tail(cmd.todo) \in Indices
  BY <1>1, HeadTailProperties DEF Indices
<1> QED BY <1>2 DEF Command

LEMMA DownReplicaInv ==
    ASSUME TypeOK, SvcInv, DownReplica, cmds' \in 0..MaxCmds
    PROVE  TypeOK' /\ SvcInv'
<1> DEFINE r == <<cmd.s, Head(cmd.todo)>>
<1>1. /\ cmd.pc = "each" /\ cmd.todo # <<>> /\ cmd.s \in Svcs /\ cmd.kind = "down"
      /\ UNCHANGED <<svc, rec>>
  BY DEF DownReplica, SvcInv, CmdOK
<1>2. cmd.todo \in Indices /\ Head(cmd.todo) \in 0..(Replicas - 1)
  BY <1>1, SkipFields DEF TypeOK, Command
<1>3. r \in Clusters /\ r[1] = cmd.s /\ r[2] = Head(cmd.todo)
  BY <1>1, <1>2, MakeCluster
<1>4. ASSUME NEW q \in Clusters, q[1] = cmd.s, rec[q] # None, q \notin kept
      PROVE  q = r \/ \E j \in DOMAIN Tail(cmd.todo) : Tail(cmd.todo)[j] = q[2]
  <2>1. \E j \in DOMAIN cmd.todo : cmd.todo[j] = q[2]
    BY <1>1, <1>4 DEF SvcInv, DownOK
  <2>2. q[2] = Head(cmd.todo) => q = r
    BY <1>4, ClusterPair
  <2> QED BY <1>1, <1>2, <2>1, <2>2, TailHas
<1>5. faults = 0 => \A q \in Clusters, b \in Managed : res[q][b] = Told(q, b)
  BY <1>1 DEF SvcInv, Healthy
<1>6. ASSUME cmd' = Skip, UNCHANGED res,
             \/ rec[r] = None /\ UNCHANGED <<kept, faults>>
             \/ Fault /\ kept' = kept \cup {r}
      PROVE  TypeOK' /\ SvcInv'
  <2>1. /\ cmd' \in Command /\ cmd'.todo = Tail(cmd.todo)
        /\ cmd'.pc = "each" /\ cmd'.kind = cmd.kind /\ cmd'.s = cmd.s /\ cmd'.i = cmd.i
    BY <1>1, <1>6, SkipFields DEF TypeOK
  <2>2. faults' \in 0..MaxFaults /\ (faults' = 0 => faults = 0 /\ ~ Fault)
    BY <1>6, FaultType, FaultSeen
  <2>3. TypeOK'
    BY <1>1, <1>3, <1>6, <2>1, <2>2 DEF TypeOK
  <2>4. CmdOK' /\ UpOK' /\ ListsOK'
    BY <1>1, <2>1 DEF SvcInv, CmdOK, UpOK, ListsOK, Launching, Launched
  <2>5. Recorded'
    BY <1>1, <1>6, <2>1 DEF SvcInv, Recorded, Listed, Launched
  <2>6. DownOK'
    <3> SUFFICES ASSUME NEW q \in Clusters, q[1] = cmd'.s, rec'[q] # None, q \notin kept'
                 PROVE  \E j \in DOMAIN cmd'.todo : cmd'.todo[j] = q[2]
      BY DEF DownOK
    <3>1. q # r /\ q \notin kept
      BY <1>1, <1>6
    <3> HIDE DEF r
    <3> QED BY <1>1, <1>4, <2>1, <3>1
  <2>7. Healthy'
    BY <1>1, <1>5, <1>6, <2>1, <2>2 DEF SvcInv, Healthy, Told, forCluster
  <2> QED BY <2>3, <2>4, <2>5, <2>6, <2>7 DEF SvcInv
<1>7. ASSUME rec[r] # None,
             cmd' = [cmd EXCEPT !.pc = "del", !.i = r[2]],
             UNCHANGED kept,
             \/ forCluster(r) = "cloud" /\ res' = [res EXCEPT ![r]["cloud"] = "none"]
                /\ UNCHANGED faults
             \/ forCluster(r) # "cloud" /\ Teardown(r)
      PROVE  TypeOK' /\ SvcInv'
  <2>1. /\ cmd' \in Command /\ cmd'.pc = "del" /\ cmd'.i = Head(cmd.todo) /\ cmd'.s = cmd.s
        /\ cmd'.kind = cmd.kind /\ cmd'.todo = cmd.todo
    BY <1>2, <1>7, DelFields DEF TypeOK
  <2>2. At' = r
    BY <2>1 DEF At
  <2> HIDE DEF r
  <2>3. /\ res' \in [Clusters -> [Managed -> {"none", "running", "stopped"}]]
        /\ faults' \in 0..MaxFaults /\ (faults' = 0 => faults = 0)
        /\ \A q \in Clusters, b \in Managed : q # r => res'[q][b] = res[q][b]
        /\ (faults' = 0 /\ \A b \in Managed : res[r][b] = Told(r, b)) =>
              \A b \in Managed : res'[r][b] = "none"
    BY <1>3, <1>7, TeardownRes
  <2>4. TypeOK'
    BY <1>1, <1>7, <2>1, <2>3 DEF TypeOK
  <2>5. CmdOK'
    BY <1>1, <1>2, <2>1, ServicesAssumption DEF CmdOK, Launching, Launched
  <2>6. UpOK' /\ ListsOK'
    BY <1>1, <2>1 DEF SvcInv, UpOK, ListsOK, Launching, Launched
  <2>7. Recorded' /\ DownOK'
    BY <1>1, <1>7, <2>1 DEF SvcInv, Recorded, DownOK, Listed, Launched
  <2>8. Healthy'
    BY <1>1, <1>3, <1>5, <1>7, <2>1, <2>2, <2>3 DEF SvcInv, Healthy, Told, forCluster
  <2> QED BY <2>4, <2>5, <2>6, <2>7, <2>8 DEF SvcInv
<1> QED BY <1>6, <1>7 DEF DownReplica
LEMMA DeleteClusterInv ==
    ASSUME TypeOK, SvcInv, DeleteCluster, cmds' \in 0..MaxCmds
    PROVE  TypeOK' /\ SvcInv'
<1>1. cmd.pc = "del" /\ kept' = kept \ {At} /\ UNCHANGED <<svc, res>>
  BY DEF DeleteCluster
<1>2. At \in Clusters /\ At[1] = cmd.s /\ At[2] = cmd.i /\ cmd.s \in Svcs
      /\ cmd.i \in 0..(Replicas - 1) /\ cmd.i < Replicas
  BY <1>1, AtType, ServicesAssumption DEF SvcInv
<1>3. /\ rec' \in [Clusters -> {None} \cup Record]
      /\ rec'[At] = None
      /\ \A q \in Clusters : q # At => rec'[q] = rec[q]
  BY <1>2, RecordSet DEF DeleteCluster
<1>4. faults' \in 0..MaxFaults /\ (faults' = 0 => faults = 0)
  BY FaultType, FaultSeen DEF DeleteCluster
<1>5. cmd.kind = "down" => cmd.todo # <<>> /\ Head(cmd.todo) = cmd.i
  BY <1>1 DEF SvcInv, CmdOK
<1>6. /\ cmd' \in Command /\ cmd'.i = cmd.i /\ cmd'.s = cmd.s /\ cmd'.kind = cmd.kind
      /\ \/ cmd'.pc = "idle"
         \/ cmd.kind = "down" /\ cmd'.pc = "each" /\ cmd'.todo = Tail(cmd.todo)
  <2>1. CASE cmd.kind = "down"
    <3>1. cmd' = [cmd EXCEPT !.pc = "each", !.todo = Tail(@)]
      BY <2>1 DEF DeleteCluster
    <3> QED BY <1>5, <2>1, <3>1, NextFieldsOfDown DEF TypeOK
  <2>2. CASE cmd.kind # "down"
    <3>1. PICK x \in {"ok", "error"} : Return(x)
      BY <2>2 DEF DeleteCluster, Return
    <3> QED BY <3>1, ReturnFields DEF TypeOK, Same
  <2> QED BY <2>1, <2>2
<1>7. TypeOK'
  BY <1>1, <1>3, <1>4, <1>6 DEF TypeOK
<1>8. CmdOK' /\ UpOK' /\ ListsOK'
  BY <1>1, <1>2, <1>6 DEF SvcInv, CmdOK, UpOK, ListsOK, Launching, Launched
<1>9. Recorded'
  BY <1>1, <1>3, <1>6 DEF SvcInv, Recorded, Listed, Launched
<1>10. DownOK'
  <2> SUFFICES ASSUME cmd.kind = "down", cmd'.todo = Tail(cmd.todo),
                      NEW q \in Clusters, q[1] = cmd'.s, rec'[q] # None, q \notin kept'
               PROVE  \E j \in DOMAIN cmd'.todo : cmd'.todo[j] = q[2]
    BY <1>6 DEF DownOK
  <2>1. q # At /\ rec[q] # None /\ q \notin kept /\ q[1] = cmd.s
    BY <1>1, <1>3, <1>6
  <2>2. \E j \in DOMAIN cmd.todo : cmd.todo[j] = q[2]
    BY <1>1, <2>1 DEF SvcInv, DownOK
  <2>3. q[2] # Head(cmd.todo)
    BY <1>5, <2>1, ClusterPair DEF At
  <2>4. cmd.todo \in Indices
    BY DEF TypeOK, Command
  <2>5. \E j \in DOMAIN Tail(cmd.todo) : Tail(cmd.todo)[j] = q[2]
    BY <1>5, <2>2, <2>3, <2>4, TailHas
  <2> QED BY <2>5
<1>11. Healthy'
  <2>1. SUFFICES ASSUME faults' = 0 PROVE Healthy'
    BY DEF Healthy
  <2>2. \A q \in Clusters, b \in Managed : q # At => res[q][b] = Told(q, b)
    BY <1>1, <1>4, <2>1 DEF SvcInv, Healthy
  <2>3. \A b \in Managed : res[At][b] = "none"
    BY <1>1, <1>2, <1>4, <2>1 DEF SvcInv, Healthy
  <2>4. \A q \in Clusters, b \in Managed : q # At => Told(q, b)' = Told(q, b)
    BY <1>3 DEF Told, forCluster
  <2>5. \A q \in Clusters, b \in Managed : q = At => Told(q, b)' = "none"
    BY <1>3 DEF Told
  <2>6. \A q \in Clusters, b \in Managed : res'[q][b] = Told(q, b)'
    BY <1>1, <2>2, <2>3, <2>4, <2>5
  <2>7. kept' = {} /\ cmd'.pc \in {"idle", "each"}
    BY <1>1, <1>4, <1>6, <2>1 DEF SvcInv, Healthy
  <2> QED BY <2>6, <2>7 DEF Healthy
<1> QED BY <1>7, <1>8, <1>9, <1>10, <1>11 DEF SvcInv

LEMMA DeleteServiceInv ==
    ASSUME TypeOK, SvcInv, DeleteService, cmds' \in 0..MaxCmds
    PROVE  TypeOK' /\ SvcInv'
<1> DEFINE s == cmd.s
<1>1. /\ cmd.pc = "each" /\ s \in Svcs /\ cmd.todo = <<>> /\ svc' = [svc EXCEPT ![s] = None]
      /\ UNCHANGED <<rec, res, kept, faults>>
  BY DEF DeleteService, SvcInv, CmdOK
<1>2. cmd' \in Command /\ cmd'.pc = "idle" /\ Same(cmd', cmd)
  BY ReturnFields DEF DeleteService, TypeOK
<1>3. /\ svc' \in [Svcs -> {None} \cup Service]
      /\ \A t \in Svcs : t # s => svc'[t] = svc[t]
      /\ svc'[s] = None
  BY <1>1 DEF TypeOK
<1>4. TypeOK'
  BY <1>1, <1>2, <1>3 DEF TypeOK
<1>5. CmdOK' /\ UpOK' /\ ListsOK'
  BY <1>2, <1>3 DEF SvcInv, CmdOK, UpOK, ListsOK, Launching, Launched
<1>6. Recorded'
  <2> SUFFICES ASSUME NEW r \in Clusters, rec'[r] # None, r \notin kept'
               PROVE  Listed(r)'
    BY DEF Recorded
  <2>1. r[1] # s
    <3>1. DOMAIN cmd.todo = {}
      BY <1>1
    <3> QED BY <1>1, <3>1 DEF SvcInv, DownOK
  <2>2. Listed(r)
    BY <1>1 DEF SvcInv, Recorded, Launched
  <2> QED BY <1>3, <2>1, <2>2, ClusterPair DEF Listed
<1>7. DownOK'
  BY <1>2 DEF DownOK
<1>8. Healthy'
  BY <1>1, <1>2 DEF SvcInv, Healthy, Told, forCluster, Same, At
<1> QED BY <1>4, <1>5, <1>6, <1>7, <1>8 DEF SvcInv

LEMMA ClusterActInv ==
    ASSUME TypeOK, SvcInv, ClusterAct, cmds' \in 0..MaxCmds
    PROVE  TypeOK' /\ SvcInv'
<1> DEFINE r == At
           b == forCluster(r)
           k == cmd.kind
<1>1. /\ cmd.pc = "act" /\ UNCHANGED <<svc, rec, kept>>
      /\ k \in {"clusterStop", "clusterStart", "clusterDown"}
  BY DEF ClusterAct, SvcInv, CmdOK
<1>2. r \in Clusters /\ cmd.s \in Svcs /\ cmd.i < Replicas
  BY <1>1, AtType DEF SvcInv, CmdOK
<1>3. faults = 0 => \A q \in Clusters, c \in Managed : res[q][c] = Told(q, c)
  BY <1>1 DEF SvcInv, Healthy
<1>4. ASSUME cmd' \in Command, Same(cmd', cmd),
             \/ cmd'.pc = "idle"
             \/ cmd'.pc = "status" /\ k # "clusterDown" /\ rec[r] # None
             \/ cmd'.pc = "del" /\ k = "clusterDown",
             res' \in [Clusters -> [Managed -> {"none", "running", "stopped"}]],
             faults' \in 0..MaxFaults
      PROVE  TypeOK' /\ CmdOK' /\ UpOK' /\ ListsOK' /\ Recorded' /\ DownOK'
  <2>1. TypeOK'
    BY <1>1, <1>4 DEF TypeOK
  <2>2. CmdOK' /\ UpOK' /\ ListsOK'
    BY <1>1, <1>2, <1>4 DEF SvcInv, CmdOK, UpOK, ListsOK, Launching, Launched, Same, At
  <2>3. Recorded' /\ DownOK'
    BY <1>1, <1>4 DEF SvcInv, Recorded, DownOK, Listed, Launched, Same
  <2> QED BY <2>1, <2>2, <2>3
<1>5. CASE Return("error") /\ UNCHANGED res /\ (UNCHANGED faults \/ Fault)
  <2>1. cmd' \in Command /\ cmd'.pc = "idle" /\ Same(cmd', cmd)
    BY <1>5, ReturnFields DEF TypeOK
  <2>2. faults' \in 0..MaxFaults /\ (faults' = 0 => faults = 0)
    BY <1>5, FaultType, FaultSeen
  <2>3. Healthy'
    BY <1>1, <1>3, <1>5, <2>1, <2>2 DEF SvcInv, Healthy, Told, forCluster
  <2> QED BY <1>4, <1>5, <2>1, <2>2, <2>3 DEF SvcInv, TypeOK
<1>6. CASE /\ rec[r] # None /\ k # "clusterDown" /\ b \in Managed
           /\ res' = [res EXCEPT ![r][b] = Wanted(k)]
           /\ Goto("status") /\ UNCHANGED faults
  <2>1. cmd' \in Command /\ cmd'.pc = "status" /\ Same(cmd', cmd)
    BY <1>6, GotoFields DEF TypeOK, Pc
  <2>2. PICK w \in {"none", "running", "stopped"} : w = Wanted(k)
    BY DEF Wanted
  <2> HIDE DEF b
  <2>3. /\ res' \in [Clusters -> [Managed -> {"none", "running", "stopped"}]]
        /\ res'[r][b] = Wanted(k)
        /\ \A q \in Clusters, c \in Managed : (q # r \/ c # b) => res'[q][c] = res[q][c]
    <3>1. PICK x \in Clusters, y \in Managed : x = r /\ y = b
      BY <1>2, <1>6
    <3>2. SetsRes(x, y, w)
      BY <1>6, <2>2, <3>1 DEF SetsRes
    <3>3. /\ res' \in [Clusters -> [Managed -> {"none", "running", "stopped"}]]
          /\ res'[x][y] = w
          /\ \A q \in Clusters, c \in Managed : (q # x \/ c # y) => res'[q][c] = res[q][c]
      BY <2>2, <3>1, <3>2, ResSetTo
    <3> QED BY <2>2, <3>1, <3>3
  <2>4. Healthy'
    <3>1. SUFFICES ASSUME faults' = 0 PROVE Healthy'
      BY DEF Healthy
    <3>2. \A q \in Clusters, c \in Managed : q # r => res'[q][c] = Told(q, c)'
      BY <1>1, <1>3, <1>6, <2>3, <3>1 DEF Told, forCluster
    <3>3. forCluster(r)' = b /\ r' = r
      BY <1>1, <2>1 DEF forCluster, b, At, Same
    <3>4. \A c \in Managed : c # b => res'[r][c] = "none"
      BY <1>2, <1>3, <1>6, <2>3, <3>1 DEF Told, b
    <3>5. \A q \in Clusters, c \in Managed : (q = r /\ c # b) => Told(q, c)' = "none"
      BY <3>3 DEF Told
    <3>6. \A q \in Clusters, c \in Managed : q = r => (forCluster(q)' = c <=> c = b)
      BY <3>3
    <3>7. kept' = {} /\ cmd'.kind = k
      BY <1>1, <1>6, <2>1, <3>1 DEF SvcInv, Healthy, Same
    <3> QED BY <1>2, <2>1, <2>3, <3>2, <3>3, <3>4, <3>5, <3>6, <3>7 DEF Healthy
  <2> QED BY <1>4, <1>6, <2>1, <2>3, <2>4 DEF SvcInv, TypeOK
<1>7. CASE /\ rec[r] # None /\ k = "clusterDown" /\ Goto("del")
           /\ IF b = "cloud" THEN res' = [res EXCEPT ![r]["cloud"] = "none"] /\ UNCHANGED faults
                             ELSE Teardown(r)
  <2>1. cmd' \in Command /\ cmd'.pc = "del" /\ Same(cmd', cmd)
    BY <1>7, GotoFields DEF TypeOK, Pc
  <2> HIDE DEF r
  <2>2. /\ res' \in [Clusters -> [Managed -> {"none", "running", "stopped"}]]
        /\ faults' \in 0..MaxFaults /\ (faults' = 0 => faults = 0)
        /\ \A q \in Clusters, c \in Managed : q # r => res'[q][c] = res[q][c]
        /\ (faults' = 0 /\ \A c \in Managed : res[r][c] = Told(r, c)) =>
              \A c \in Managed : res'[r][c] = "none"
    BY <1>2, <1>7, TeardownRes
  <2>3. At' = r
    BY <2>1 DEF At, r, Same
  <2>4. Healthy'
    <3>1. SUFFICES ASSUME faults' = 0 PROVE Healthy'
      BY DEF Healthy
    <3>2. \A q \in Clusters, c \in Managed : q # r => res'[q][c] = Told(q, c)'
      BY <1>1, <1>3, <2>2, <3>1 DEF Told, forCluster
    <3>3. \A c \in Managed : res'[r][c] = "none"
      BY <1>2, <1>3, <2>2, <3>1
    <3>4. kept' = {}
      BY <1>1, <2>2, <3>1 DEF SvcInv, Healthy
    <3> QED BY <2>1, <2>3, <3>2, <3>3, <3>4 DEF Healthy
  <2> QED BY <1>4, <1>7, <2>1, <2>2, <2>4 DEF SvcInv
<1> QED BY <1>5, <1>6, <1>7 DEF ClusterAct

LEMMA ClusterStatusInv ==
    ASSUME TypeOK, SvcInv, ClusterStatus, cmds' \in 0..MaxCmds
    PROVE  TypeOK' /\ SvcInv'
<1> DEFINE st == IF cmd.kind = "clusterStop" THEN "stopped" ELSE "up"
           v == [rec[At] EXCEPT !.status = st]
<1>1. cmd.pc = "status" /\ rec[At] # None /\ UNCHANGED <<svc, res, kept>>
  BY DEF ClusterStatus, SvcInv, CmdOK
<1>2. At \in Clusters
  BY <1>1, AtType DEF SvcInv
<1>3. v \in Record /\ v.status = st /\ v.be = rec[At].be /\ v # None
  BY <1>1, <1>2, RecordField
<1>4. rec' = [rec EXCEPT ![At] = v]
  BY DEF ClusterStatus
<1> HIDE DEF v
<1>5. /\ rec' \in [Clusters -> {None} \cup Record]
      /\ rec'[At] = v
      /\ \A q \in Clusters : q # At => rec'[q] = rec[q]
  BY <1>2, <1>3, <1>4, RecordSet
<1>6. cmd' \in Command /\ cmd'.pc = "idle" /\ Same(cmd', cmd)
  BY ReturnFields DEF ClusterStatus, TypeOK
<1>7. faults' \in 0..MaxFaults /\ (faults' = 0 => faults = 0)
  BY FaultType, FaultSeen DEF ClusterStatus
<1>8. TypeOK'
  BY <1>1, <1>5, <1>6, <1>7 DEF TypeOK
<1>9. CmdOK' /\ UpOK' /\ ListsOK'
  BY <1>1, <1>6 DEF SvcInv, CmdOK, UpOK, ListsOK, Launching, Launched
<1>10. Recorded' /\ DownOK'
  BY <1>1, <1>5, <1>6 DEF SvcInv, Recorded, DownOK, Listed, Launched
<1>11. Healthy'
  <2>1. SUFFICES ASSUME faults' = 0 PROVE Healthy'
    BY DEF Healthy
  <2>2. \A q \in Clusters, b \in Managed : q # At => res[q][b] = Told(q, b)'
    BY <1>1, <1>5, <1>7, <2>1 DEF SvcInv, Healthy, Told, forCluster
  <2>3. \A b \in Managed : res[At][b] =
          IF forCluster(At) = b THEN Wanted(cmd.kind) ELSE Told(At, b)
    BY <1>1, <1>2, <1>7, <2>1 DEF SvcInv, Healthy
  <2>4. \A q \in Clusters, b \in Managed : q = At =>
          Told(q, b)' = IF forCluster(q) = b THEN Wanted(cmd.kind) ELSE "none"
    BY <1>1, <1>2, <1>3, <1>5 DEF Told, forCluster, Wanted
  <2>5. \A q \in Clusters, b \in Managed : res'[q][b] = Told(q, b)'
    BY <1>1, <2>2, <2>3, <2>4 DEF Told
  <2>6. kept' = {}
    BY <1>1, <1>7, <2>1 DEF SvcInv, Healthy
  <2> QED BY <1>6, <2>5, <2>6 DEF Healthy
<1> QED BY <1>8, <1>9, <1>10, <1>11 DEF SvcInv
-----------------------------------------------------------------------------
LEMMA SvcInit == Init => SvcInv
<1> SUFFICES ASSUME Init PROVE SvcInv
  OBVIOUS
<1>1. /\ cmd.pc = "idle" /\ faults = 0 /\ kept = {} /\ cmd.s = None /\ cmd.i = 0
      /\ \A s \in Svcs : svc[s] = None
      /\ \A r \in Clusters : rec[r] = None
      /\ \A r \in Clusters, b \in Managed : res[r][b] = "none"
  BY DEF Init
<1>2. CmdOK /\ UpOK /\ ListsOK /\ Recorded /\ DownOK
  BY <1>1 DEF CmdOK, UpOK, ListsOK, Recorded, DownOK, Launching, Launched
<1>3. Healthy
  BY <1>1 DEF Healthy, Told
<1> QED BY <1>2, <1>3 DEF SvcInv

LEMMA SvcStutter == (TypeOK /\ SvcInv /\ UNCHANGED vars) => (TypeOK' /\ SvcInv')
<1> SUFFICES ASSUME TypeOK, SvcInv, UNCHANGED vars PROVE TypeOK' /\ SvcInv'
  OBVIOUS
<1>1. TypeOK'
  BY DEF TypeOK, vars
<1>2. CmdOK' /\ UpOK' /\ ListsOK'
  BY DEF SvcInv, CmdOK, UpOK, ListsOK, vars, At
<1>3. Recorded' /\ DownOK'
  BY DEF SvcInv, Recorded, DownOK, Listed, vars, At
<1>4. Healthy'
  BY DEF SvcInv, Healthy, Told, forCluster, vars, At
<1> QED BY <1>1, <1>2, <1>3, <1>4 DEF SvcInv

LEMMA SvcNext == (TypeOK /\ SvcInv /\ Next) => (TypeOK' /\ SvcInv')
<1> SUFFICES ASSUME TypeOK, SvcInv, Next PROVE TypeOK' /\ SvcInv'
  OBVIOUS
<1>1. ASSUME NEW s \in Svcs, NEW b \in Backends, Begin("up", s, 0, b)
      PROVE  TypeOK' /\ SvcInv'
  <2>1. "up" \in Kind /\ 0 \in 0..(Replicas - 1)
    BY ServicesAssumption DEF Kind
  <2> QED BY <1>1, <2>1, BeginInv
<1>2. ASSUME NEW s \in Svcs, Begin("down", s, 0, "unset")
      PROVE  TypeOK' /\ SvcInv'
  <2>1. "down" \in Kind /\ 0 \in 0..(Replicas - 1)
    BY ServicesAssumption DEF Kind
  <2> QED BY <1>2, <2>1, BeginInv
<1>3. ASSUME NEW r \in Clusters, NEW k \in {"clusterStop", "clusterStart", "clusterDown"},
             Begin(k, r[1], r[2], "unset")
      PROVE  TypeOK' /\ SvcInv'
  <2>1. k \in Kind /\ k # "up" /\ r[1] \in Svcs /\ r[2] \in 0..(Replicas - 1)
    BY ClusterPair DEF Kind
  <2> QED BY <1>3, <2>1, BeginInv
<1>4. ASSUME Step, UNCHANGED cmds
      PROVE  TypeOK' /\ SvcInv'
  <2>1. cmds' \in 0..MaxCmds
    BY <1>4 DEF TypeOK
  <2>2. ASSUME DockerRecord \/ ExistingLaunch \/ LocalLaunch
        PROVE  TypeOK' /\ SvcInv'
    <3>1. cmd.be \in Backends \cup {"unset"}
      BY DEF TypeOK, Command
    <3>2. cmd.pc = "record" /\ cmd.be \in Backends /\ cmd.be # "cloud" /\ AddCluster
      BY <2>2, <3>1 DEF DockerRecord, ExistingLaunch, LocalLaunch
    <3> QED BY <2>1, <3>2, AddClusterInv
  <2>3. CASE AddService \/ DockerRemove \/ DockerRun \/ Provision
    BY <2>1, <2>3, AddServiceInv, DockerRemoveInv, DockerRunInv, ProvisionInv
  <2>4. CASE MarkBackend \/ RecordLaunch \/ ListReplica \/ Finish \/ UndoReplica \/ UpFailed
    BY <2>1, <2>4, MarkBackendInv, RecordLaunchInv, ListReplicaInv, FinishInv,
       UndoReplicaInv, UpFailedInv
  <2>5. CASE GetService \/ DownReplica \/ DeleteCluster \/ DeleteService
    BY <2>1, <2>5, GetServiceInv, DownReplicaInv, DeleteClusterInv, DeleteServiceInv
  <2>6. CASE ClusterAct \/ ClusterStatus
    BY <2>1, <2>6, ClusterActInv, ClusterStatusInv
  <2> QED BY <1>4, <2>2, <2>3, <2>4, <2>5, <2>6 DEF Step
<1> QED BY <1>1, <1>2, <1>3, <1>4 DEF Next

(* The state of the service controller has its type, and what is recorded,
   listed and running agrees in the way that SvcInv tells, in the middle of a
   command too. *)
THEOREM ServicesInv == Spec => [](TypeOK /\ SvcInv)
<1>1. Init => TypeOK /\ SvcInv
  BY TypeInit, SvcInit
<1>2. (TypeOK /\ SvcInv) /\ [Next]_vars => (TypeOK /\ SvcInv)'
  BY SvcNext, SvcStutter
<1> QED BY <1>1, <1>2, PTL DEF Spec

(* Every replica that is recorded is on the list of its service, unless its
   teardown failed, and a list holds the replicas in order, all of them when
   the service is running: serve.Controller.Up records the service before the
   first replica and saves its list after each one. *)
THEOREM EveryServiceIsListed == Spec => []ServicesAreListed
<1>1. SvcInv => ServicesAreListed
  BY DEF SvcInv, Recorded, Listed, ListsOK, ServicesAreListed, ReplicasAreListed, ListIsPrefix,
         Quiet, Launched
<1> QED BY <1>1, ServicesInv, PTL

(* While nothing has failed, no container and no instance is left that no
   record tells of, whatever commands follow each other. *)
THEOREM NothingIsOrphaned == Spec => []NoOrphans
<1>1. TypeOK /\ SvcInv => NoOrphans
  <2> SUFFICES ASSUME SvcInv, Quiet, faults = 0, NEW r \in Clusters, NEW b \in Managed,
                      res[r][b] # "none"
               PROVE  rec[r] # None /\ forCluster(r) = b
    BY DEF NoOrphans
  <2>1. res[r][b] = Told(r, b)
    BY DEF SvcInv, Healthy, Quiet
  <2> QED BY <2>1 DEF Told
<1> QED BY <1>1, ServicesInv, PTL

(* While nothing has failed, a record's status is what docker or the cloud
   would tell of the replica. *)
THEOREM StatusTellsTheTruth == Spec => []StatusIsTrue
<1>1. TypeOK /\ SvcInv => StatusIsTrue
  <2> SUFFICES ASSUME SvcInv, Quiet, faults = 0, NEW r \in Clusters,
                      rec[r] # None, forCluster(r) \in Managed
               PROVE  res[r][forCluster(r)] =
                        IF rec[r].status = "up" THEN "running" ELSE "stopped"
    BY DEF StatusIsTrue
  <2>1. \A b \in Managed : res[r][b] = Told(r, b)
    BY DEF SvcInv, Healthy, Quiet
  <2> QED BY <2>1 DEF Told
<1> QED BY <1>1, ServicesInv, PTL
=============================================================================
