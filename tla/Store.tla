-------------------------------- MODULE Store --------------------------------
(***************************************************************************)
(* internal/state: the Store of one process (CLI command or API server)    *)
(* over a backend that processes share.  A process loads every collection  *)
(* when it opens the store and works on its copy from then on; an          *)
(* operation changes one record in memory and then saves ALL collections,  *)
(* one after the other, under the store's mutex.                           *)
(*                                                                         *)
(* A write of one collection is atomic here (SQL transaction, Redis SET);  *)
(* module FileBackend looks at how the file backend does it.  A read that  *)
(* fails makes OpenConfig fail with SQL and Redis; the file backend takes  *)
(* a file it cannot read for an empty collection.                          *)
(***************************************************************************)
EXTENDS Naturals, Sequences

CONSTANTS
    Procs,        \* processes
    Collections,  \* the collections in the order save writes them
    Keys,         \* record keys
    Values,       \* record contents
    None,         \* "no record"
    MaxOps,       \* bound: operations
    MaxFaults,    \* bound: failed writes
    MaxUnread,    \* bound: failed reads taken for empty collections
    MaxCrashes    \* bound: processes that die and are started again

N == Len(Collections)

ASSUME StoreAssumption ==
    /\ N \in Nat \ {0}
    /\ \A i, j \in 1..N : Collections[i] = Collections[j] => i = j
    /\ Keys # {}
    /\ None \notin Values
    /\ {MaxOps, MaxFaults, MaxUnread, MaxCrashes} \subseteq Nat

VARIABLES
    mem,      \* the collections in each process's memory
    disk,     \* the collections in the backend
    proc,     \* what each process is doing
    known,    \* ghost: what the answers given so far say about a record
    ops, faults, unread, crashes

vars == <<mem, disk, proc, known, ops, faults, unread, crashes>>

-----------------------------------------------------------------------------
(* Values *)

Coll == {Collections[i] : i \in 1..N}

Data == [Coll -> [Keys -> Values \cup {None}]]

Proc == [pc : {"closed", "opening", "ready", "saving"},
         at : 1..(N + 1),          \* the next collection to load or save
         c  : Coll, k : Keys]      \* the record of the operation

(* known[c][k]: "fresh" before any operation on it, "maybe" when the last one
   is not, or not successfully, over; else what that one left. *)
TypeOK ==
    /\ mem \in [Procs -> Data]
    /\ disk \in Data
    /\ proc \in [Procs -> Proc]
    /\ known \in [Coll -> [Keys -> {<<"fresh">>, <<"maybe">>}
                                     \cup ({"done"} \X (Values \cup {None}))]]
    /\ ops \in 0..MaxOps
    /\ faults \in 0..MaxFaults
    /\ unread \in 0..MaxUnread
    /\ crashes \in 0..MaxCrashes

Empty == [c \in Coll |-> [k \in Keys |-> None]]

Init ==
    /\ mem = [p \in Procs |-> Empty]
    /\ disk = Empty
    /\ proc = [p \in Procs |-> [pc |-> "closed", at |-> 1, c |-> Collections[1],
                                k |-> CHOOSE k \in Keys : TRUE]]
    /\ known = [c \in Coll |-> [k \in Keys |-> <<"fresh">>]]
    /\ ops = 0
    /\ faults = 0
    /\ unread = 0
    /\ crashes = 0

-----------------------------------------------------------------------------
(* OpenConfig: the process starts, and loads the collections one by one. *)
Open(p) ==
    /\ proc[p].pc = "closed"
    /\ proc' = [proc EXCEPT ![p].pc = "opening", ![p].at = 1]
    /\ UNCHANGED <<mem, disk, known, ops, faults, unread, crashes>>

(* Mutant: the last collection is not loaded. *)
LoadSkipsLast(p) ==
    LET c == Collections[proc[p].at]
    IN  /\ proc[p].pc = "opening"
        /\ mem' = [mem EXCEPT ![p][c] = disk[c]]
        /\ proc' = IF proc[p].at >= N - 1 THEN [proc EXCEPT ![p].pc = "ready"]
                   ELSE [proc EXCEPT ![p].at = @ + 1]
        /\ UNCHANGED <<disk, known, ops, faults, unread, crashes>>

Load(p) ==
    LET c == Collections[proc[p].at]
    IN  /\ proc[p].pc = "opening"
        /\ mem' = [mem EXCEPT ![p][c] = disk[c]]
        /\ proc' = IF proc[p].at = N THEN [proc EXCEPT ![p].pc = "ready"]
                   ELSE [proc EXCEPT ![p].at = @ + 1]
        /\ UNCHANGED <<disk, known, ops, faults, unread, crashes>>

(* SQL and Redis: a collection cannot be read, and OpenConfig fails. *)
LoadFails(p) ==
    /\ proc[p].pc = "opening"
    /\ mem' = [mem EXCEPT ![p] = Empty]
    /\ proc' = [proc EXCEPT ![p].pc = "closed"]
    /\ UNCHANGED <<disk, known, ops, faults, unread, crashes>>

(* The file backend takes a file it cannot read for an empty collection. *)
LoadEmpty(p) ==
    LET c == Collections[proc[p].at]
    IN  /\ proc[p].pc = "opening"
        /\ unread < MaxUnread
        /\ unread' = unread + 1
        /\ mem' = [mem EXCEPT ![p][c] = Empty[c]]
        /\ proc' = IF proc[p].at = N THEN [proc EXCEPT ![p].pc = "ready"]
                   ELSE [proc EXCEPT ![p].at = @ + 1]
        /\ UNCHANGED <<disk, known, ops, faults, crashes>>

(* Mutant: save starts behind the collection it should write first. *)
ChangeSkipsFirst(p, c, k, v) ==
    /\ proc[p].pc = "ready"
    /\ ops < MaxOps
    /\ ops' = ops + 1
    /\ mem' = [mem EXCEPT ![p][c][k] = v]
    /\ known' = [known EXCEPT ![c][k] = <<"maybe">>]
    /\ proc' = [proc EXCEPT ![p] = [pc |-> "saving", at |-> 2, c |-> c, k |-> k]]
    /\ UNCHANGED <<disk, faults, unread, crashes>>

(* The change in memory; the mutex is held from here to the end of save. *)
Change(p, c, k, v) ==
    /\ proc[p].pc = "ready"
    /\ ops < MaxOps
    /\ ops' = ops + 1
    /\ mem' = [mem EXCEPT ![p][c][k] = v]
    /\ known' = [known EXCEPT ![c][k] = <<"maybe">>]
    /\ proc' = [proc EXCEPT ![p] = [pc |-> "saving", at |-> 1, c |-> c, k |-> k]]
    /\ UNCHANGED <<disk, faults, unread, crashes>>

(* AddCluster, AddService and AddJob refuse a key the process knows;
   CreateToken and AddClusterEvent append a record that is new. *)
Add(p, c, k, v) ==
    /\ c \in {"clusters", "services", "jobs", "clusterEvents", "tokens"}
    /\ mem[p][c][k] = None
    /\ Change(p, c, k, v)

(* UpdateCluster, UpdateService, UpdateJob, RotateToken and MarkTokenUsed do
   nothing with a key the process does not know. *)
Update(p, c, k, v) ==
    /\ c \in {"clusters", "services", "jobs", "tokens"}
    /\ mem[p][c][k] # None
    /\ Change(p, c, k, v)

(* RecordClusterYAML, RecordClusterHistory, SetConfig. *)
Upsert(p, c, k, v) ==
    /\ c \in {"clusterYAMLs", "clusterHistory", "config"}
    /\ Change(p, c, k, v)

(* Mutant: the record is replaced by a marker instead of removed. *)
DeleteTombstone(p, c, k) ==
    /\ c \in {"clusters", "services", "tokens"}
    /\ mem[p][c][k] # None
    /\ Change(p, c, k, "deleted")

(* DeleteCluster, DeleteService, DeleteToken. *)
Delete(p, c, k) ==
    /\ c \in {"clusters", "services", "tokens"}
    /\ mem[p][c][k] # None
    /\ Change(p, c, k, None)

(* save: the next collection is written, or the write fails and ends it. *)
Write(p) ==
    LET c == Collections[proc[p].at]
    IN  /\ proc[p].pc = "saving"
        /\ proc[p].at <= N
        /\ \/ /\ disk' = [disk EXCEPT ![c] = mem[p][c]]
              /\ proc' = [proc EXCEPT ![p].at = @ + 1]
              /\ UNCHANGED faults
           \/ /\ faults < MaxFaults
              /\ faults' = faults + 1
              /\ proc' = [proc EXCEPT ![p].pc = "ready"]
              /\ UNCHANGED disk
        /\ UNCHANGED <<mem, known, ops, unread, crashes>>

(* save is over: the operation returns nil. *)
Return(p) ==
    /\ proc[p].pc = "saving"
    /\ proc[p].at = N + 1
    /\ proc' = [proc EXCEPT ![p].pc = "ready"]
    /\ known' = [known EXCEPT ![proc[p].c][proc[p].k] =
                   <<"done", mem[p][proc[p].c][proc[p].k]>>]
    /\ UNCHANGED <<mem, disk, ops, faults, unread, crashes>>

(* The process ends: in good order, or in the middle of an operation. *)
Exit(p) ==
    /\ proc[p].pc # "closed"
    /\ crashes < MaxCrashes
    /\ crashes' = crashes + 1
    /\ proc' = [proc EXCEPT ![p].pc = "closed"]
    /\ mem' = [mem EXCEPT ![p] = Empty]
    /\ UNCHANGED <<disk, known, ops, faults, unread>>

-----------------------------------------------------------------------------
Next ==
    \E p \in Procs :
        \/ Open(p)
        \/ Load(p)
        \/ LoadFails(p)
        \/ LoadEmpty(p)
        \/ \E c \in Coll, k \in Keys, v \in Values : Add(p, c, k, v)
        \/ \E c \in Coll, k \in Keys, v \in Values : Update(p, c, k, v)
        \/ \E c \in Coll, k \in Keys, v \in Values : Upsert(p, c, k, v)
        \/ \E c \in Coll, k \in Keys : Delete(p, c, k)
        \/ Write(p)
        \/ Return(p)
        \/ Exit(p)

Spec == Init /\ [][Next]_vars

-----------------------------------------------------------------------------
(* Correctness *)

(* "persisted so runtime settings survive restarts and are shared across
   server instances": what an operation that returned nil left of a record is
   what the backend has, until the next operation on that record, unless the
   file backend took an unreadable file for an empty collection. *)
AckedSurvives ==
    unread = 0 =>
        \A c \in Coll, k \in Keys :
            known[c][k] \notin {<<"fresh">>, <<"maybe">>} =>
                disk[c][k] = known[c][k][2]

(* A failed save is not undone in memory, and a restart forgets it; apart
   from such a record, a process that is ready has in memory what the backend
   has, also after a save or a load that was cut short. *)
MemoryAgrees ==
    unread = 0 =>
        \A p \in Procs : proc[p].pc = "ready" =>
            \A c \in Coll, k \in Keys :
                known[c][k] # <<"maybe">> => mem[p][c][k] = disk[c][k]
=============================================================================
