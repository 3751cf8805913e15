--------------------------- MODULE ClusterRegistry ---------------------------
(***************************************************************************)
(* What the cluster records of gpi promise to a user who runs one command  *)
(* at a time: a record is created with the instances it will keep, its     *)
(* instance set never changes while it exists, it is reported up only      *)
(* after it was provisioning, and it disappears only once every one of its *)
(* instances is terminated.  `Provisioner` is the implementation.          *)
(***************************************************************************)
CONSTANTS
    Names,      \* cluster names
    Instances,  \* identifiers of cloud instances
    None        \* "no record"

VARIABLES
    rec,        \* the record of each name, or None
    gone        \* the instances that are terminated

Status == {"provisioning", "up", "stopped", "error"}

Record == [insts : SUBSET Instances, status : Status]

TypeOK ==
    /\ rec \in [Names -> Record \cup {None}]
    /\ gone \subseteq Instances

Init ==
    /\ rec = [n \in Names |-> None]
    /\ gone = {}

(* A launch records its cluster, still provisioning. *)
Register(n) ==
    /\ rec[n] = None
    /\ \E I \in SUBSET Instances :
         rec' = [rec EXCEPT ![n] = [insts |-> I, status |-> "provisioning"]]
    /\ UNCHANGED gone

(* A lifecycle operation changes the status of an existing record. *)
SetStatus(n, s) ==
    /\ rec[n] # None
    /\ s = "up" => rec[n].status = "provisioning"
    /\ rec' = [rec EXCEPT ![n] = [insts |-> rec[n].insts, status |-> s]]
    /\ UNCHANGED gone

(* The record goes away with the last of its instances. *)
Remove(n) ==
    /\ rec[n] # None
    /\ rec[n].insts \subseteq gone
    /\ rec' = [rec EXCEPT ![n] = None]
    /\ UNCHANGED gone

(* Instances terminate, and never come back. *)
Terminate ==
    /\ \E I \in SUBSET Instances : gone \subseteq I /\ gone' = I
    /\ UNCHANGED rec

Next ==
    \/ \E n \in Names : Register(n)
    \/ \E n \in Names, s \in Status : SetStatus(n, s)
    \/ \E n \in Names : Remove(n)
    \/ Terminate

vars == <<rec, gone>>

Spec == Init /\ [][Next]_vars
=============================================================================
