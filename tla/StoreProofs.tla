---------------------------- MODULE StoreProofs ----------------------------
(***************************************************************************)
(* Proofs about Store, for every number of collections, records,           *)
(* operations, failed reads and writes, and crashes.  Proofs about Tokens: *)
(* void secrets stay out and shown ones work, for every number of          *)
(* goroutines, tokens, failed saves and restarts.                          *)
(***************************************************************************)
EXTENDS Store, Tokens, TLAPS

(* A process that is opening the store has a collection left to load. *)
LoadsInRange == \A p \in Procs : proc[p].pc = "opening" => proc[p].at \in 1..N

(* The collections a process has already loaded, or already saved. *)
Passed(p) ==
    \A i \in 1..N : i < proc[p].at =>
        mem[p][Collections[i]] = disk[Collections[i]]

(* What a process's memory holds of the records with a known outcome. *)
Agrees(p) ==
    \A c \in Coll, k \in Keys :
        known[c][k] # <<"maybe">> => mem[p][c][k] = disk[c][k]

(* AckedSurvives, once no read was taken for an empty collection. *)
Kept ==
    \A c \in Coll, k \in Keys :
        known[c][k] \notin {<<"fresh">>, <<"maybe">>} =>
            disk[c][k] = known[c][k][2]

(* The inductive invariant behind Kept, for a process alone. *)
Progress(p) ==
    /\ proc[p].pc \in {"opening", "saving"} => Passed(p)
    /\ proc[p].pc \in {"ready", "saving"} => Agrees(p)
    /\ proc[p].pc = "saving" => known[proc[p].c][proc[p].k] = <<"maybe">>

-----------------------------------------------------------------------------
LEMMA CollType == \A i \in 1..N : Collections[i] \in Coll
BY DEF Coll

LEMMA EmptyType == Empty \in Data
BY DEF Empty, Data

(* Next, with the operations on records reduced to the change they make. *)
LEMMA NextCases ==
    ASSUME Next
    PROVE  \E p \in Procs :
             \/ Open(p) \/ Load(p) \/ LoadFails(p) \/ LoadEmpty(p)
             \/ Write(p) \/ Return(p) \/ Exit(p)
             \/ \E c \in Coll, k \in Keys, v \in Values \cup {None} :
                  Change(p, c, k, v)
BY DEF Next, Add, Update, Upsert, Delete

LEMMA ProcFields ==
    ASSUME NEW q \in Proc,
           NEW s \in {"closed", "opening", "ready", "saving"}
    PROVE  /\ [q EXCEPT !.pc = s] \in Proc
           /\ [q EXCEPT !.pc = s].pc = s
           /\ [q EXCEPT !.pc = s].at = q.at
           /\ [q EXCEPT !.pc = s].c = q.c
           /\ [q EXCEPT !.pc = s].k = q.k
BY DEF Proc

LEMMA AtFields ==
    ASSUME NEW q \in Proc, NEW i \in 1..(N + 1)
    PROVE  /\ [q EXCEPT !.at = i] \in Proc
           /\ [q EXCEPT !.at = i].pc = q.pc
           /\ [q EXCEPT !.at = i].at = i
           /\ [q EXCEPT !.at = i].c = q.c
           /\ [q EXCEPT !.at = i].k = q.k
BY DEF Proc

LEMMA TypeInit == Init => TypeOK /\ LoadsInRange
<1> SUFFICES ASSUME Init PROVE TypeOK /\ LoadsInRange
  OBVIOUS
<1>1. Collections[1] \in Coll
  BY CollType, StoreAssumption
<1>2. (CHOOSE k \in Keys : TRUE) \in Keys
  BY StoreAssumption
<1>3. proc \in [Procs -> Proc]
  <2>1. [pc |-> "closed", at |-> 1, c |-> Collections[1],
         k |-> CHOOSE k \in Keys : TRUE] \in Proc
    BY <1>1, <1>2, StoreAssumption DEF Proc
  <2> QED BY <2>1 DEF Init
<1>4. mem \in [Procs -> Data] /\ disk \in Data
  BY EmptyType DEF Init
<1>5. \A p \in Procs : proc[p].pc # "opening"
  BY DEF Init
<1> QED BY <1>3, <1>4, <1>5, StoreAssumption DEF Init, TypeOK, LoadsInRange

(* One collection of one process's memory is replaced. *)
LEMMA MemType ==
    ASSUME mem \in [Procs -> Data], NEW p \in Procs, NEW c \in Coll,
           NEW d \in [Keys -> Values \cup {None}],
           mem' = [mem EXCEPT ![p][c] = d]
    PROVE  /\ mem' \in [Procs -> Data]
           /\ mem'[p] = [mem[p] EXCEPT ![c] = d]
           /\ mem'[p][c] = d
           /\ \A e \in Coll : e # c => mem'[p][e] = mem[p][e]
<1>1. mem[p] \in Data
  OBVIOUS
<1>2. [mem[p] EXCEPT ![c] = d] \in Data
  BY <1>1 DEF Data
<1>3. mem'[p] = [mem[p] EXCEPT ![c] = d]
  OBVIOUS
<1> QED BY <1>1, <1>2, <1>3 DEF Data

(* One process moves. *)
LEMMA ProcType ==
    ASSUME proc \in [Procs -> Proc], NEW p \in Procs, NEW q \in Proc,
           proc' = [proc EXCEPT ![p] = q]
    PROVE  /\ proc' \in [Procs -> Proc]
           /\ proc'[p] = q
           /\ \A r \in Procs : r # p => proc'[r] = proc[r]
OBVIOUS

LEMMA TypeStep ==
    ASSUME TypeOK, LoadsInRange, Next
    PROVE  TypeOK' /\ LoadsInRange'
<1> USE StoreAssumption
<1>1. PICK p \in Procs :
             \/ Open(p) \/ Load(p) \/ LoadFails(p) \/ LoadEmpty(p)
             \/ Write(p) \/ Return(p) \/ Exit(p)
             \/ \E c \in Coll, k \in Keys, v \in Values \cup {None} :
                  Change(p, c, k, v)
  BY NextCases
<1>2. proc[p] \in Proc /\ proc[p].at \in 1..(N + 1)
      /\ proc[p].c \in Coll /\ proc[p].k \in Keys
  BY DEF TypeOK, Proc
<1>3. ASSUME NEW q \in Proc, proc' = [proc EXCEPT ![p] = q],
             q.pc = "opening" => q.at \in 1..N
      PROVE  proc' \in [Procs -> Proc] /\ LoadsInRange'
  BY <1>3, ProcType DEF TypeOK, LoadsInRange
<1>4. CASE Open(p)
  <2> DEFINE q == [proc[p] EXCEPT !.pc = "opening", !.at = 1]
  <2>1. q \in Proc /\ q.at \in 1..N
    <3>1. [[proc[p] EXCEPT !.pc = "opening"] EXCEPT !.at = 1] \in Proc
          /\ [[proc[p] EXCEPT !.pc = "opening"] EXCEPT !.at = 1].at = 1
      <4>1. [proc[p] EXCEPT !.pc = "opening"] \in Proc
        BY <1>2, ProcFields
      <4>2. 1 \in 1..(N + 1)
        OBVIOUS
      <4> QED BY <4>1, <4>2, AtFields
    <3>2. 1 \in 1..N
      OBVIOUS
    <3> QED BY <3>1, <3>2
  <2>2. proc' = [proc EXCEPT ![p] = q]
    BY <1>4 DEF Open, TypeOK
  <2> HIDE DEF q
  <2> QED BY <1>3, <1>4, <2>1, <2>2 DEF Open, TypeOK
<1>5. ASSUME proc[p].pc = "opening",
             proc' = IF proc[p].at = N THEN [proc EXCEPT ![p].pc = "ready"]
                     ELSE [proc EXCEPT ![p].at = @ + 1]
      PROVE  proc' \in [Procs -> Proc] /\ LoadsInRange'
  <2>0. proc[p].at \in 1..N
    BY <1>5 DEF LoadsInRange
  <2>1. CASE proc[p].at = N
    <3> DEFINE q == [proc[p] EXCEPT !.pc = "ready"]
    <3>1. q \in Proc /\ q.pc = "ready"
      BY <1>2, ProcFields
    <3>2. proc' = [proc EXCEPT ![p] = q]
      BY <1>5, <2>1 DEF TypeOK
    <3> HIDE DEF q
    <3> QED BY <1>3, <3>1, <3>2
  <2>2. CASE proc[p].at # N
    <3> DEFINE q == [proc[p] EXCEPT !.at = proc[p].at + 1]
    <3>1. q \in Proc /\ q.at \in 1..N
      <4>1. proc[p].at + 1 \in 1..(N + 1) /\ proc[p].at + 1 \in 1..N
        BY <2>0, <2>2
      <4>2. q \in Proc /\ q.at = proc[p].at + 1
        BY <1>2, <4>1, AtFields
      <4> QED BY <4>1, <4>2
    <3>2. proc' = [proc EXCEPT ![p] = q]
      BY <1>5, <2>2 DEF TypeOK
    <3> HIDE DEF q
    <3> QED BY <1>3, <3>1, <3>2
  <2> QED BY <2>1, <2>2
<1>6. CASE Load(p)
  <2> DEFINE c == Collections[proc[p].at]
  <2>1. c \in Coll
    BY <1>6, CollType DEF Load, LoadsInRange
  <2>2. disk[c] \in [Keys -> Values \cup {None}]
    BY <2>1 DEF TypeOK, Data
  <2>3. mem' \in [Procs -> Data]
    BY <1>6, <2>1, <2>2, MemType DEF Load, TypeOK
  <2> QED BY <1>5, <1>6, <2>3 DEF Load, TypeOK
<1>7. CASE LoadFails(p)
  <2> DEFINE q == [proc[p] EXCEPT !.pc = "closed"]
  <2>1. q \in Proc /\ q.pc = "closed"
    BY <1>2, ProcFields
  <2>2. proc' = [proc EXCEPT ![p] = q]
    BY <1>7 DEF LoadFails, TypeOK
  <2>3. mem' \in [Procs -> Data]
    BY <1>7, EmptyType DEF LoadFails, TypeOK
  <2> HIDE DEF q
  <2> QED BY <1>3, <1>7, <2>1, <2>2, <2>3 DEF LoadFails, TypeOK
<1>12. CASE LoadEmpty(p)
  <2> DEFINE c == Collections[proc[p].at]
  <2>1. c \in Coll
    BY <1>12, CollType DEF LoadEmpty, LoadsInRange
  <2>2. unread' \in 0..MaxUnread
    BY <1>12 DEF LoadEmpty, TypeOK
  <2>3. Empty[c] \in [Keys -> Values \cup {None}]
    BY <2>1, EmptyType DEF Data
  <2>4. mem' \in [Procs -> Data]
    BY <1>12, <2>1, <2>3, MemType DEF LoadEmpty, TypeOK
  <2> QED BY <1>5, <1>12, <2>2, <2>4 DEF LoadEmpty, TypeOK
<1>8. ASSUME NEW c \in Coll, NEW k \in Keys, NEW v \in Values \cup {None},
             Change(p, c, k, v)
      PROVE  TypeOK' /\ LoadsInRange'
  <2> DEFINE q == [pc |-> "saving", at |-> 1, c |-> c, k |-> k]
             d == [mem[p][c] EXCEPT ![k] = v]
  <2>1. q \in Proc /\ q.pc = "saving"
    BY DEF Proc
  <2>2. proc' = [proc EXCEPT ![p] = q]
    BY <1>8 DEF Change
  <2>3. mem[p][c] \in [Keys -> Values \cup {None}]
    BY DEF TypeOK, Data
  <2>4. d \in [Keys -> Values \cup {None}]
    BY <2>3
  <2>5. mem' = [mem EXCEPT ![p][c] = d]
    BY <1>8 DEF Change
  <2> HIDE DEF d, q
  <2>6. mem' \in [Procs -> Data]
    BY <2>4, <2>5, MemType DEF TypeOK
  <2>7. known' \in [Coll -> [Keys -> {<<"fresh">>, <<"maybe">>}
                                  \cup ({"done"} \X (Values \cup {None}))]]
    BY <1>8 DEF Change, TypeOK
  <2>8. ops' \in 0..MaxOps
    BY <1>8 DEF Change, TypeOK
  <2>9. UNCHANGED <<disk, faults, unread, crashes>>
    BY <1>8 DEF Change
  <2> QED BY <1>3, <2>1, <2>2, <2>6, <2>7, <2>8, <2>9 DEF TypeOK
<1>9. CASE Write(p)
  <2> DEFINE c == Collections[proc[p].at]
  <2>1. proc[p].at \in 1..N /\ proc[p].pc = "saving"
    BY <1>2, <1>9 DEF Write
  <2>2. c \in Coll
    BY <2>1, CollType
  <2>3. disk' \in Data
    <3>1. mem[p][c] \in [Keys -> Values \cup {None}]
      BY <2>2 DEF TypeOK, Data
    <3>2. \/ disk' = [disk EXCEPT ![c] = mem[p][c]]
          \/ disk' = disk
      BY <1>9 DEF Write
    <3> QED BY <2>2, <3>1, <3>2 DEF TypeOK, Data
  <2>4. PICK q \in Proc : proc' = [proc EXCEPT ![p] = q] /\ q.pc # "opening"
    <3>1. [proc[p] EXCEPT !.at = proc[p].at + 1] \in Proc
          /\ [proc[p] EXCEPT !.at = proc[p].at + 1].pc = "saving"
      <4>1. proc[p].at + 1 \in 1..(N + 1)
        BY <2>1
      <4> QED BY <1>2, <2>1, <4>1, AtFields
    <3>2. [proc[p] EXCEPT !.pc = "ready"] \in Proc
          /\ [proc[p] EXCEPT !.pc = "ready"].pc = "ready"
      BY <1>2, ProcFields
    <3>3. \/ proc' = [proc EXCEPT ![p] = [proc[p] EXCEPT !.at = proc[p].at + 1]]
          \/ proc' = [proc EXCEPT ![p] = [proc[p] EXCEPT !.pc = "ready"]]
      BY <1>9 DEF Write, TypeOK
    <3> QED BY <3>1, <3>2, <3>3
  <2>5. faults' \in 0..MaxFaults
    BY <1>9 DEF Write, TypeOK
  <2> QED BY <1>3, <1>9, <2>3, <2>4, <2>5 DEF Write, TypeOK
<1>10. CASE Return(p)
  <2> DEFINE q == [proc[p] EXCEPT !.pc = "ready"]
  <2>1. q \in Proc /\ q.pc = "ready"
    BY <1>2, ProcFields
  <2>2. proc' = [proc EXCEPT ![p] = q]
    BY <1>10 DEF Return, TypeOK
  <2>3. mem[p][proc[p].c][proc[p].k] \in Values \cup {None}
    BY <1>2 DEF TypeOK, Data
  <2>4. known' \in [Coll -> [Keys -> {<<"fresh">>, <<"maybe">>}
                                  \cup ({"done"} \X (Values \cup {None}))]]
    BY <1>2, <1>10, <2>3 DEF Return, TypeOK
  <2> HIDE DEF q
  <2> QED BY <1>3, <1>10, <2>1, <2>2, <2>4 DEF Return, TypeOK
<1>11. CASE Exit(p)
  <2> DEFINE q == [proc[p] EXCEPT !.pc = "closed"]
  <2>1. q \in Proc /\ q.pc = "closed"
    BY <1>2, ProcFields
  <2>2. proc' = [proc EXCEPT ![p] = q]
    BY <1>11 DEF Exit, TypeOK
  <2>3. mem' \in [Procs -> Data] /\ crashes' \in 0..MaxCrashes
    BY <1>11, EmptyType DEF Exit, TypeOK
  <2> HIDE DEF q
  <2> QED BY <1>3, <1>11, <2>1, <2>2, <2>3 DEF Exit, TypeOK
<1> QED BY <1>1, <1>4, <1>6, <1>7, <1>8, <1>9, <1>10, <1>11, <1>12

(* Every reachable state of Store is well typed: a save or a load never runs
   past the last collection, whatever fails and whoever else uses the
   backend. *)
THEOREM StoreTypeCorrect == Spec => [](TypeOK /\ LoadsInRange)
<1>1. TypeOK /\ LoadsInRange /\ [Next]_vars => (TypeOK /\ LoadsInRange)'
  <2> SUFFICES ASSUME TypeOK, LoadsInRange, [Next]_vars
               PROVE  (TypeOK /\ LoadsInRange)'
    OBVIOUS
  <2>1. CASE UNCHANGED vars
    BY <2>1 DEF vars, TypeOK, LoadsInRange
  <2> QED BY <2>1, TypeStep
<1> QED BY <1>1, TypeInit, PTL DEF Spec

-----------------------------------------------------------------------------
LEMMA SoleStep ==
    ASSUME NEW p, Procs = {p}, unread' = 0,
           TypeOK, LoadsInRange, Progress(p), Kept, Next
    PROVE  Progress(p)' /\ Kept'
<1> USE StoreAssumption
<1>1. \/ Open(p) \/ Load(p) \/ LoadFails(p) \/ LoadEmpty(p)
      \/ Write(p) \/ Return(p) \/ Exit(p)
      \/ \E c \in Coll, k \in Keys, v \in Values \cup {None} : Change(p, c, k, v)
  BY NextCases
<1>2. p \in Procs /\ proc[p] \in Proc /\ proc[p].at \in 1..(N + 1)
      /\ proc[p].c \in Coll /\ proc[p].k \in Keys
  BY DEF TypeOK, Proc
<1>3. ASSUME NEW s \in {"closed", "opening", "ready", "saving"},
             proc' = [proc EXCEPT ![p].pc = s]
      PROVE  /\ proc'[p].pc = s /\ proc'[p].at = proc[p].at
             /\ proc'[p].c = proc[p].c /\ proc'[p].k = proc[p].k
  <2>1. proc'[p] = [proc[p] EXCEPT !.pc = s]
    BY <1>2, <1>3 DEF TypeOK
  <2> QED BY <1>2, <2>1, ProcFields
<1>4. ASSUME NEW i \in 1..(N + 1), proc' = [proc EXCEPT ![p].at = i]
      PROVE  /\ proc'[p].at = i /\ proc'[p].pc = proc[p].pc
             /\ proc'[p].c = proc[p].c /\ proc'[p].k = proc[p].k
  <2>1. proc'[p] = [proc[p] EXCEPT !.at = i]
    BY <1>2, <1>4 DEF TypeOK
  <2> QED BY <1>2, <2>1, AtFields
<1>5. CASE Open(p)
  <2>1. proc'[p].pc = "opening" /\ proc'[p].at = 1
    BY <1>2, <1>5 DEF Open, TypeOK, Proc
  <2>2. Passed(p)'
    BY <2>1 DEF Passed
  <2>3. UNCHANGED <<disk, known>>
    BY <1>5 DEF Open
  <2> QED BY <2>1, <2>2, <2>3 DEF Progress, Kept
<1>6. CASE Load(p)
  <2> DEFINE c == Collections[proc[p].at]
  <2>1. proc[p].at \in 1..N /\ Passed(p) /\ UNCHANGED <<disk, known>>
    BY <1>2, <1>6 DEF Load, LoadsInRange, Progress
  <2>2. c \in Coll
    BY <2>1, CollType
  <2>3. mem'[p][c] = disk[c] /\ \A e \in Coll : e # c => mem'[p][e] = mem[p][e]
    <3>1. disk[c] \in [Keys -> Values \cup {None}]
      BY <2>2 DEF TypeOK, Data
    <3>2. mem \in [Procs -> Data] /\ mem' = [mem EXCEPT ![p][c] = disk[c]]
      BY <1>6 DEF Load, TypeOK
    <3>3. mem[p] \in Data /\ mem'[p] = [mem[p] EXCEPT ![c] = disk[c]]
      BY <1>2, <3>2
    <3> HIDE DEF c
    <3> QED BY <2>2, <3>3 DEF Data
  <2>4. \A i \in 1..N : i <= proc[p].at =>
          mem'[p][Collections[i]] = disk'[Collections[i]]
    <3> SUFFICES ASSUME NEW i \in 1..N, i <= proc[p].at
                 PROVE  mem'[p][Collections[i]] = disk[Collections[i]]
      BY <2>1
    <3>1. CASE i = proc[p].at
      BY <2>3, <3>1
    <3>2. CASE i # proc[p].at
      <4>1. mem[p][Collections[i]] = disk[Collections[i]]
        BY <2>1, <3>2 DEF Passed
      <4>2. Collections[i] # c /\ Collections[i] \in Coll
        BY <2>1, <3>2, CollType
      <4> QED BY <2>3, <4>1, <4>2
    <3> QED BY <3>1, <3>2
  <2> HIDE DEF c
  <2>5. CASE proc[p].at = N
    <3>1. proc'[p].pc = "ready"
      BY <1>3, <1>6, <2>5 DEF Load
    <3>2. \A e \in Coll : mem'[p][e] = disk'[e]
      BY <2>1, <2>4, <2>5 DEF Coll
    <3>3. Agrees(p)'
      BY <3>2 DEF Agrees
    <3> QED BY <2>1, <3>1, <3>3 DEF Progress, Kept
  <2>6. CASE proc[p].at # N
    <3>0. proc[p].at + 1 \in 1..(N + 1)
      BY <2>1
    <3>1. proc'[p].pc = "opening" /\ proc'[p].at = proc[p].at + 1
      BY <1>4, <1>6, <2>6, <3>0 DEF Load
    <3>2. Passed(p)'
      BY <2>1, <2>4, <3>1 DEF Passed
    <3> QED BY <2>1, <3>1, <3>2 DEF Progress, Kept
  <2> QED BY <2>5, <2>6
<1>7. CASE LoadFails(p)
  <2>1. proc'[p].pc = "closed" /\ UNCHANGED <<disk, known>>
    BY <1>3, <1>7 DEF LoadFails
  <2> QED BY <2>1 DEF Progress, Kept
<1>12. ~LoadEmpty(p)
  BY DEF LoadEmpty, TypeOK
<1>8. ASSUME NEW c \in Coll, NEW k \in Keys, NEW v \in Values \cup {None},
             Change(p, c, k, v)
      PROVE  Progress(p)' /\ Kept'
  <2>1. Agrees(p) /\ UNCHANGED disk
    BY <1>8 DEF Change, Progress
  <2>2. proc'[p] = [pc |-> "saving", at |-> 1, c |-> c, k |-> k]
    BY <1>2, <1>8 DEF Change, TypeOK
  <2>3. /\ known'[c][k] = <<"maybe">>
        /\ \A e \in Coll, l \in Keys :
             e # c \/ l # k => known'[e][l] = known[e][l]
    BY <1>8 DEF Change, TypeOK
  <2>4. \A e \in Coll, l \in Keys :
          e # c \/ l # k => mem'[p][e][l] = mem[p][e][l]
    BY <1>2, <1>8 DEF Change, TypeOK, Data
  <2>5. Agrees(p)'
    BY <2>1, <2>3, <2>4 DEF Agrees
  <2>6. Passed(p)'
    BY <2>2 DEF Passed
  <2>7. Kept'
    <3> SUFFICES ASSUME NEW e \in Coll, NEW l \in Keys,
                        known'[e][l] \notin {<<"fresh">>, <<"maybe">>}
                 PROVE  disk'[e][l] = known'[e][l][2]
      BY Zenon DEF Kept
    <3>1. e # c \/ l # k
      BY <2>3
    <3>2. known'[e][l] = known[e][l]
      BY <2>3, <3>1
    <3>3. known[e][l] \notin {<<"fresh">>, <<"maybe">>}
      BY <3>2
    <3>4. disk[e][l] = known[e][l][2]
      BY <3>3, Zenon DEF Kept
    <3> QED BY <2>1, <3>2, <3>4
  <2> QED BY <2>2, <2>3, <2>5, <2>6, <2>7 DEF Progress
<1>9. CASE Write(p)
  <2> DEFINE c == Collections[proc[p].at]
  <2>1. /\ proc[p].pc = "saving" /\ proc[p].at \in 1..N
        /\ Passed(p) /\ Agrees(p) /\ UNCHANGED <<mem, known>>
        /\ known[proc[p].c][proc[p].k] = <<"maybe">>
    BY <1>2, <1>9 DEF Write, Progress
  <2>2. c \in Coll
    BY <2>1, CollType
  <2>3. CASE /\ disk' = [disk EXCEPT ![c] = mem[p][c]]
             /\ proc' = [proc EXCEPT ![p].at = @ + 1]
    <3>0. proc[p].at + 1 \in 1..(N + 1)
      BY <2>1
    <3>1. /\ proc'[p].pc = "saving" /\ proc'[p].at = proc[p].at + 1
          /\ proc'[p].c = proc[p].c /\ proc'[p].k = proc[p].k
      BY <1>4, <2>1, <2>3, <3>0
    <3>2. disk'[c] = mem[p][c] /\ \A e \in Coll : e # c => disk'[e] = disk[e]
      BY <2>2, <2>3 DEF TypeOK, Data
    <3>3. \A e \in Coll, l \in Keys :
            known[e][l] # <<"maybe">> => disk'[e][l] = disk[e][l]
      BY <2>1, <2>2, <3>2 DEF Agrees
    <3>4. Agrees(p)' /\ Kept'
      <4>1. Agrees(p)'
        BY <2>1, <3>3 DEF Agrees
      <4>2. ASSUME NEW e \in Coll, NEW l \in Keys,
                   known[e][l] \notin {<<"fresh">>, <<"maybe">>}
            PROVE  disk'[e][l] = known[e][l][2]
        <5>1. disk[e][l] = known[e][l][2]
          BY <4>2, Zenon DEF Kept
        <5>2. known[e][l] # <<"maybe">>
          BY <4>2
        <5> QED BY <3>3, <5>1, <5>2
      <4>3. known' = known
        BY <2>1
      <4>4. Kept'
        BY <4>2, <4>3, Zenon DEF Kept
      <4> QED BY <4>1, <4>4
    <3>5. Passed(p)'
      <4> SUFFICES ASSUME NEW i \in 1..N, i < proc[p].at + 1
                   PROVE  mem[p][Collections[i]] = disk'[Collections[i]]
        BY <2>1, <3>1 DEF Passed
      <4>1. CASE i = proc[p].at
        BY <3>2, <4>1
      <4>2. CASE i # proc[p].at
        <5>1. mem[p][Collections[i]] = disk[Collections[i]]
          BY <2>1, <4>2 DEF Passed
        <5>2. Collections[i] # c /\ Collections[i] \in Coll
          BY <2>1, <4>2, CollType
        <5> QED BY <3>2, <5>1, <5>2
      <4> QED BY <4>1, <4>2
    <3> QED BY <2>1, <3>1, <3>4, <3>5 DEF Progress
  <2>4. CASE disk' = disk /\ proc' = [proc EXCEPT ![p].pc = "ready"]
    <3>1. proc'[p].pc = "ready"
      BY <1>3, <2>4
    <3> QED BY <2>1, <2>4, <3>1 DEF Progress, Agrees, Kept
  <2> QED BY <1>9, <2>3, <2>4 DEF Write
<1>10. CASE Return(p)
  <2>1. /\ Passed(p) /\ Agrees(p) /\ UNCHANGED <<mem, disk>>
        /\ proc[p].at = N + 1
    BY <1>10 DEF Return, Progress
  <2>2. proc'[p].pc = "ready"
    BY <1>3, <1>10 DEF Return
  <2>3. \A e \in Coll : mem[p][e] = disk[e]
    <3>1. \A i \in 1..N : i < N + 1
      OBVIOUS
    <3> QED BY <2>1, <3>1 DEF Passed, Coll
  <2>4. Agrees(p)'
    BY <2>1, <2>3 DEF Agrees
  <2>5. /\ known'[proc[p].c][proc[p].k] =
             <<"done", mem[p][proc[p].c][proc[p].k]>>
        /\ \A e \in Coll, l \in Keys :
             e # proc[p].c \/ l # proc[p].k => known'[e][l] = known[e][l]
    BY <1>2, <1>10 DEF Return, TypeOK
  <2>6. Kept'
    BY <1>2, <2>1, <2>3, <2>5 DEF Kept
  <2> QED BY <2>2, <2>4, <2>6 DEF Progress
<1>11. CASE Exit(p)
  <2>1. proc'[p].pc = "closed" /\ UNCHANGED <<disk, known>>
    BY <1>3, <1>11 DEF Exit
  <2> QED BY <2>1 DEF Progress, Kept
<1> QED BY <1>1, <1>5, <1>6, <1>7, <1>8, <1>9, <1>10, <1>11, <1>12

(* Reads taken for empty collections are counted and never forgotten. *)
LEMMA UnreadGrows ==
    ASSUME TypeOK, [Next]_vars, unread' = 0
    PROVE  unread = 0
<1>1. unread \in Nat
  BY StoreAssumption DEF TypeOK
<1>2. unread' = unread \/ unread' = unread + 1
  BY NextCases DEF vars, Open, Load, LoadFails, LoadEmpty, Write, Return, Exit,
                   Change
<1> QED BY <1>1, <1>2

LEMMA SoleInvariant ==
    ASSUME NEW CONSTANT p, Procs = {p}
    PROVE  Spec => [](unread = 0 => Progress(p) /\ Kept)
<1> DEFINE Inv == unread = 0 => Progress(p) /\ Kept
<1>1. Init => Inv
  BY DEF Init, Progress, Kept
<1>2. TypeOK /\ LoadsInRange /\ Inv /\ [Next]_vars => Inv'
  <2> SUFFICES ASSUME TypeOK, LoadsInRange, Inv, [Next]_vars, unread' = 0
               PROVE  (Progress(p) /\ Kept)'
    OBVIOUS
  <2>1. Progress(p) /\ Kept
    BY UnreadGrows
  <2>2. CASE UNCHANGED vars
    BY <2>1, <2>2 DEF vars, Progress, Passed, Agrees, Kept
  <2> QED BY <2>1, <2>2, SoleStep
<1> HIDE DEF Inv
<1>3. Spec => []Inv
  BY <1>1, <1>2, StoreTypeCorrect, PTL DEF Spec
<1> QED BY <1>3 DEF Inv

(* What an operation that returned nil left of a record survives every later
   failed write, failed opening, crash and restart, as long as one process
   alone uses the backend and no unreadable file is taken for an empty
   collection: the promise of state/config.go, and the conditions it needs. *)
THEOREM AckedRecordsSurvive ==
    ASSUME NEW CONSTANT p, Procs = {p}
    PROVE  Spec => []AckedSurvives
<1>1. (unread = 0 => Progress(p) /\ Kept) => AckedSurvives
  BY DEF AckedSurvives, Kept
<1> QED BY <1>1, SoleInvariant, PTL

(* Under the same conditions, memory and backend agree on every record whose
   last operation returned nil, in every moment the process could answer a
   request from memory. *)
THEOREM MemoryAndBackendAgree ==
    ASSUME NEW CONSTANT p, Procs = {p}
    PROVE  Spec => []MemoryAgrees
<1>1. (unread = 0 => Progress(p) /\ Kept) => MemoryAgrees
  BY DEF Progress, Agrees, MemoryAgrees
<1> QED BY <1>1, SoleInvariant, PTL
-----------------------------------------------------------------------------
(* Tokens *)

(* The answer that shows a new secret is under way. *)
Showing(r) ==
    req[r].pc = "answer" /\ req[r].ans = "ok" /\ req[r].kind \in {"create", "rotate"}

(* The token that the new secret belongs to. *)
IdOf(r) == IF req[r].kind = "create" THEN req[r].tok.sec ELSE req[r].id

(* Requests: what they carry was shown to somebody, what they are to change is
   known, and they have no answer before they are answered. *)
RequestOK(r) ==
    /\ req[r].bearer # 0 => promised[req[r].bearer].id # 0
    /\ req[r].late => req[r].bearer # 0 /\ Void(req[r].bearer)
    /\ req[r].ans # "none" => req[r].pc = "answer"
    /\ (req[r].pc # "idle" /\ req[r].kind \in {"delete", "rotate"}) =>
         req[r].id \in 1..secrets /\ req[r].id \in touched
    /\ Showing(r) =>
         /\ req[r].tok.sec \in 1..secrets
         /\ promised[req[r].tok.sec].id = 0
         /\ req[r].kind = "rotate" => req[r].id # req[r].tok.sec

(* Secrets are shown once. *)
ShownOnce ==
    /\ \A s \in Secrets : promised[s].id # 0 => s <= secrets /\ promised[s].id <= secrets
    /\ \A s \in revoked : s <= secrets
    /\ \A p, r \in Reqs :
         (p # r /\ Showing(p) /\ Showing(r)) => req[p].tok.sec # req[r].tok.sec

(* The tokens m, in memory or in the backend, against what callers were told. *)
TokenOK(m, i) ==
    /\ m[i].sec = 0 => m[i] = NoToken
    /\ m[i].sec # 0 =>
         /\ m[i].sec <= secrets
         /\ m[i].sec \notin revoked
         /\ promised[m[i].sec].id # 0 =>
              promised[m[i].sec].id = i /\ promised[m[i].sec].exp = m[i].exp
         /\ \A r \in Reqs : (Showing(r) /\ req[r].tok.sec = m[i].sec) =>
              IdOf(r) = i /\ req[r].tok.exp = m[i].exp

(* A change that is answered as done has been done. *)
AnswerOK(m, r) ==
    (req[r].pc = "answer" /\ req[r].ans = "ok") =>
        /\ req[r].kind = "delete" => m[req[r].id].sec = 0
        /\ req[r].kind = "rotate" =>
             m[req[r].id].sec = 0 \/ m[req[r].id].sec >= req[r].tok.sec
        /\ (req[r].kind = "create" /\ req[r].tok.sec \notin touched) =>
             m[req[r].tok.sec].sec = req[r].tok.sec

(* A secret whose token nobody asks to change is the token's. *)
UntouchedOK(m) ==
    \A s \in Secrets : (promised[s].id # 0 /\ promised[s].id \notin touched) =>
        m[promised[s].id].sec = s

MapOK(m) ==
    /\ \A i \in Ids : TokenOK(m, i)
    /\ \A r \in Reqs : AnswerOK(m, r)
    /\ UntouchedOK(m)

Entered ==
    /\ NoLateEntry
    /\ ShownSecretsWork

TokInv ==
    /\ \A r \in Reqs : RequestOK(r)
    /\ ShownOnce
    /\ MapOK(tokens)
    /\ MapOK(saved)

-----------------------------------------------------------------------------
(* What a step leaves of a request. *)
Keeps(q, o) ==
    /\ q.kind = o.kind /\ q.path = o.path /\ q.bearer = o.bearer
    /\ q.id = o.id /\ q.in = o.in /\ q.late = o.late

LEMMA NoTokenType == NoToken \in Token
BY TokensAssumption DEF NoToken, Token

LEMMA NoRequestType == NoRequest \in Request
BY TokensAssumption, NoTokenType DEF NoRequest, Request, Kind, Prefix, Ids, Secrets, Answer

LEMMA NoRequestFields ==
    /\ NoRequest.pc = "idle" /\ NoRequest.bearer = 0 /\ NoRequest.ans = "none"
    /\ ~NoRequest.late
BY DEF NoRequest

LEMMA AnsweredFields ==
    ASSUME TokTypeOK, NEW r \in Reqs, NEW a \in Answer, NEW t \in Token
    PROVE  /\ Answered(r, a, t) \in Request
           /\ Keeps(Answered(r, a, t), req[r])
           /\ Answered(r, a, t).pc = "answer"
           /\ Answered(r, a, t).ans = a
           /\ Answered(r, a, t).tok = t
BY DEF TokTypeOK, Request, Answered, Keeps

LEMMA PcFields ==
    ASSUME NEW q \in Request, NEW s \in {"idle", "auth", "mark", "handle", "answer"}
    PROVE  /\ [q EXCEPT !.pc = s] \in Request
           /\ Keeps([q EXCEPT !.pc = s], q)
           /\ [q EXCEPT !.pc = s].pc = s
           /\ [q EXCEPT !.pc = s].ans = q.ans
           /\ [q EXCEPT !.pc = s].tok = q.tok
BY DEF Request, Keeps

LEMMA RoutedFields ==
    ASSUME TokTypeOK, NEW r \in Reqs
    PROVE  /\ Routed(r) \in Request
           /\ Keeps(Routed(r), req[r])
           /\ \/ Routed(r).pc = "answer" /\ Routed(r).ans = "notFound"
              \/ Routed(r).pc = "answer" /\ Routed(r).ans = "ok" /\ req[r].kind = "other"
              \/ Routed(r).pc = "handle" /\ Routed(r).ans = req[r].ans
<1>1. req[r] \in Request
  BY DEF TokTypeOK
<1>2. {"notFound", "ok"} \subseteq Answer
  BY DEF Answer
<1>3. CASE req[r].path # conf.prefix
  <2>1. Routed(r) = Answered(r, "notFound", NoToken)
    BY <1>3 DEF Routed
  <2> QED BY <1>2, <2>1, AnsweredFields, NoTokenType
<1>4. CASE req[r].path = conf.prefix /\ req[r].kind = "other"
  <2>1. Routed(r) = Answered(r, "ok", NoToken)
    BY <1>4 DEF Routed
  <2> QED BY <1>2, <1>4, <2>1, AnsweredFields, NoTokenType
<1>5. CASE req[r].path = conf.prefix /\ req[r].kind # "other"
  <2>1. Routed(r) = [req[r] EXCEPT !.pc = "handle"]
    BY <1>5 DEF Routed
  <2> DEFINE q == [req[r] EXCEPT !.pc = "handle"]
  <2>2. q \in Request /\ Keeps(q, req[r]) /\ q.pc = "handle" /\ q.ans = req[r].ans
    BY <1>1, PcFields
  <2> HIDE DEF q
  <2> QED BY <2>1, <2>2 DEF q
<1> QED BY <1>3, <1>4, <1>5

LEMMA NewTokenType ==
    ASSUME TokTypeOK, NEW r \in Reqs, secrets < MaxSecrets
    PROVE  /\ [sec |-> secrets + 1, exp |-> ExpiresAt(req[r].in)] \in Token
           /\ secrets + 1 \in Ids
           /\ secrets + 1 \in 0..MaxSecrets
<1>1. req[r].in \in {0, 1}
  BY DEF TokTypeOK, Request
<1>2. ExpiresAt(req[r].in) \in 0..(MaxTime + 1)
  BY <1>1, TokensAssumption DEF TokTypeOK, ExpiresAt
<1>3. secrets + 1 \in 1..MaxSecrets
  BY TokensAssumption DEF TokTypeOK
<1> QED BY <1>2, <1>3, TokensAssumption DEF Token, Ids, Secrets

(* What a client can send. *)
LEMMA InputFields ==
    ASSUME TokTypeOK, NEW q \in Input
    PROVE  /\ q \in Request
           /\ q.pc = "auth" /\ q.ans = "none"
           /\ q.bearer # 0 => promised[q.bearer].id # 0
           /\ q.late => q.bearer # 0 /\ Void(q.bearer)
           /\ q.kind \in {"delete", "rotate"} => q.id \in 1..secrets
<1>1. PICK k \in Kind, p \in Prefix, s \in Bearers, i \in {1} \cup 1..secrets, in \in {0, 1} :
         /\ q = Sent(k, p, s, i, in)
         /\ k \in {"delete", "rotate"} => i \in 1..secrets
  <2>1. conf.prefix \in Prefix
    BY DEF TokTypeOK
  <2>2. {"other", "create", "delete", "rotate"} \subseteq Kind /\ "/api/v1" \in Prefix
    BY DEF Kind, Prefix
  <2> QED BY <2>1, <2>2 DEF Input
<1>2. s \in 0..MaxSecrets /\ i \in Ids
  BY TokensAssumption DEF Bearers, TokTypeOK, Secrets, Ids
<1>3. (s # 0 /\ Void(s)) \in BOOLEAN
  OBVIOUS
<1>4. /\ q \in Request
      /\ q.pc = "auth" /\ q.ans = "none" /\ q.bearer = s /\ q.id = i /\ q.kind = k
      /\ q.late = (s # 0 /\ Void(s))
  BY <1>1, <1>2, <1>3, NoRequestType DEF Sent, NoRequest, Request
<1> QED BY <1>1, <1>4 DEF Bearers

-----------------------------------------------------------------------------
LEMMA TokensTypeInit == TokInit => TokTypeOK
<1> SUFFICES ASSUME TokInit PROVE TokTypeOK
  OBVIOUS
<1>1. secrets \in 0..MaxSecrets /\ 1 \in 1..MaxTime
  BY TokensAssumption DEF TokInit
<1>2. PICK exp \in {0, 1} :
         /\ promised = [s \in Secrets |-> IF s <= secrets THEN [id |-> s, exp |-> exp]
                                         ELSE [id |-> 0, exp |-> 0]]
         /\ tokens = [i \in Ids |-> IF i <= secrets THEN [sec |-> i, exp |-> exp] ELSE NoToken]
  BY DEF TokInit
<1>3. exp \in 0..(MaxTime + 1)
  BY TokensAssumption
<1>4. tokens \in [Ids -> Token]
  BY <1>2, <1>3, NoTokenType, TokensAssumption DEF Token, Ids, Secrets
<1>5. promised \in [Secrets -> [id : {0} \cup Ids, exp : 0..(MaxTime + 1)]]
  BY <1>2, <1>3, TokensAssumption DEF Ids, Secrets
<1>6. req \in [Reqs -> Request]
  BY NoRequestType DEF TokInit
<1> QED BY <1>1, <1>4, <1>5, <1>6, TokensAssumption DEF TokInit, TokTypeOK

(* A save, whichever way it ends. *)
LEMMA SaveType ==
    ASSUME TokTypeOK, NEW m \in [Ids -> Token], NEW r \in Reqs,
           NEW done \in Request, NEW failed \in Request,
           Save(m, r, done, failed)
    PROVE  /\ tokens' \in [Ids -> Token]
           /\ saved' \in [Ids -> Token]
           /\ req' \in [Reqs -> Request]
           /\ unsaved' \in 0..MaxUnsaved
BY TokensAssumption DEF Save, TokTypeOK

LEMMA TokensTypeStep ==
    ASSUME TokTypeOK, [TokNext]_tokVars
    PROVE  TokTypeOK'
<1> USE TokensAssumption
<1>1. ASSUME NEW r \in Reqs, Arrive(r) PROVE TokTypeOK'
  <2>1. PICK q \in Input :
           /\ req' = [req EXCEPT ![r] = q]
           /\ touched' = IF q.kind \in {"delete", "rotate"} THEN touched \cup {q.id} ELSE touched
    BY <1>1 DEF Arrive
  <2>2. q \in Request /\ q.id \in Ids
    BY <2>1, InputFields DEF Request
  <2>3. req' \in [Reqs -> Request] /\ touched' \subseteq Ids
    BY <2>1, <2>2 DEF TokTypeOK
  <2>4. requests' \in 0..MaxRequests
    BY <1>1 DEF Arrive, TokTypeOK
  <2> QED BY <1>1, <2>3, <2>4 DEF Arrive, TokTypeOK
<1>2. ASSUME NEW r \in Reqs, Wrap(r) PROVE TokTypeOK'
  <2>1. req[r] \in Request /\ "unauthorized" \in Answer
    BY DEF TokTypeOK, Answer
  <2>2. \A i \in Ids : [req[r] EXCEPT !.pc = "mark", !.found = i] \in Request
    BY <2>1 DEF Request
  <2>3. \E q \in Request : req' = [req EXCEPT ![r] = q]
    <3>1. CASE req' = [req EXCEPT ![r] = Routed(r)]
      BY <3>1, RoutedFields
    <3>2. CASE req' = [req EXCEPT ![r] = Answered(r, "unauthorized", NoToken)]
      BY <2>1, <3>2, AnsweredFields, NoTokenType
    <3>3. ASSUME NEW i \in Ids, req' = [req EXCEPT ![r].pc = "mark", ![r].found = i]
          PROVE  \E q \in Request : req' = [req EXCEPT ![r] = q]
      <4>1. req' = [req EXCEPT ![r] = [req[r] EXCEPT !.pc = "mark", !.found = i]]
        BY <3>3, <2>1 DEF TokTypeOK, Request
      <4> QED BY <2>2, <4>1
    <3> QED BY <1>2, <3>1, <3>2, <3>3 DEF Wrap, Holders
  <2>4. req' \in [Reqs -> Request]
    BY <2>3 DEF TokTypeOK
  <2> QED BY <1>2, <2>4 DEF Wrap, TokTypeOK
<1>3. ASSUME NEW r \in Reqs, MarkTokenUsed(r) PROVE TokTypeOK'
  <2>1. Routed(r) \in Request /\ tokens \in [Ids -> Token]
    BY RoutedFields DEF TokTypeOK
  <2>2. /\ tokens' \in [Ids -> Token] /\ saved' \in [Ids -> Token]
        /\ req' \in [Reqs -> Request] /\ unsaved' \in 0..MaxUnsaved
    BY <1>3, <2>1, SaveType DEF MarkTokenUsed, TokTypeOK
  <2> QED BY <1>3, <2>2 DEF MarkTokenUsed, TokTypeOK
<1>4. \A r \in Reqs : req[r].id \in Ids /\ {"ok", "error", "notFound"} \subseteq Answer
  BY DEF TokTypeOK, Request, Answer
<1>5. ASSUME NEW r \in Reqs, CreateToken(r) PROVE TokTypeOK'
  <2> DEFINE t == [sec |-> secrets + 1, exp |-> ExpiresAt(req[r].in)]
  <2>1. t \in Token /\ t.sec \in Ids /\ secrets' \in 0..MaxSecrets
    BY <1>5, NewTokenType DEF CreateToken
  <2>2. Save([tokens EXCEPT ![t.sec] = t], r,
             Answered(r, "ok", t), Answered(r, "error", NoToken))
    BY <1>5 DEF CreateToken
  <2> HIDE DEF t
  <2>3. [tokens EXCEPT ![t.sec] = t] \in [Ids -> Token]
    BY <2>1 DEF TokTypeOK
  <2>4. Answered(r, "ok", t) \in Request /\ Answered(r, "error", NoToken) \in Request
    BY <1>4, <2>1, AnsweredFields, NoTokenType
  <2>5. /\ tokens' \in [Ids -> Token] /\ saved' \in [Ids -> Token]
        /\ req' \in [Reqs -> Request] /\ unsaved' \in 0..MaxUnsaved
    BY <2>2, <2>3, <2>4, SaveType
  <2> QED BY <1>5, <2>1, <2>5 DEF CreateToken, TokTypeOK
<1>6. ASSUME NEW r \in Reqs, DeleteToken(r) PROVE TokTypeOK'
  <2>1. [tokens EXCEPT ![req[r].id] = NoToken] \in [Ids -> Token]
    BY <1>4, NoTokenType DEF TokTypeOK
  <2>2. /\ Answered(r, "ok", NoToken) \in Request /\ Answered(r, "error", NoToken) \in Request
        /\ Answered(r, "notFound", NoToken) \in Request
    BY <1>4, AnsweredFields, NoTokenType
  <2>3. /\ tokens' \in [Ids -> Token] /\ saved' \in [Ids -> Token]
        /\ req' \in [Reqs -> Request] /\ unsaved' \in 0..MaxUnsaved
    <3>1. CASE Save([tokens EXCEPT ![req[r].id] = NoToken], r,
                    Answered(r, "ok", NoToken), Answered(r, "error", NoToken))
      BY <2>1, <2>2, <3>1, SaveType
    <3>2. CASE /\ req' = [req EXCEPT ![r] = Answered(r, "notFound", NoToken)]
               /\ UNCHANGED <<tokens, saved, unsaved>>
      BY <2>2, <3>2 DEF TokTypeOK
    <3> QED BY <1>6, <3>1, <3>2 DEF DeleteToken
  <2> QED BY <1>6, <2>3 DEF DeleteToken, TokTypeOK
<1>7. ASSUME NEW r \in Reqs, RotateToken(r) PROVE TokTypeOK'
  <2> DEFINE t == [sec |-> secrets + 1, exp |-> ExpiresAt(req[r].in)]
  <2>1. t \in Token /\ secrets' \in 0..MaxSecrets
    BY <1>7, NewTokenType DEF RotateToken
  <2>2. \/ Save([tokens EXCEPT ![req[r].id] = t], r,
                Answered(r, "ok", t), Answered(r, "notFound", NoToken))
        \/ /\ req' = [req EXCEPT ![r] = Answered(r, "notFound", NoToken)]
           /\ UNCHANGED <<tokens, saved, unsaved>>
    BY <1>7 DEF RotateToken
  <2> HIDE DEF t
  <2>3. [tokens EXCEPT ![req[r].id] = t] \in [Ids -> Token]
    BY <1>4, <2>1 DEF TokTypeOK
  <2>4. Answered(r, "ok", t) \in Request /\ Answered(r, "notFound", NoToken) \in Request
    BY <1>4, <2>1, AnsweredFields, NoTokenType
  <2>5. /\ tokens' \in [Ids -> Token] /\ saved' \in [Ids -> Token]
        /\ req' \in [Reqs -> Request] /\ unsaved' \in 0..MaxUnsaved
    <3>1. CASE Save([tokens EXCEPT ![req[r].id] = t], r,
                    Answered(r, "ok", t), Answered(r, "notFound", NoToken))
      BY <2>3, <2>4, <3>1, SaveType
    <3>2. CASE /\ req' = [req EXCEPT ![r] = Answered(r, "notFound", NoToken)]
               /\ UNCHANGED <<tokens, saved, unsaved>>
      BY <2>4, <3>2 DEF TokTypeOK
    <3> QED BY <2>2, <3>1, <3>2
  <2> QED BY <1>7, <2>1, <2>5 DEF RotateToken, TokTypeOK
<1>8. ASSUME NEW r \in Reqs, Reply(r) PROVE TokTypeOK'
  <2>1. req' \in [Reqs -> Request]
    BY <1>8, NoRequestType DEF Reply, TokTypeOK
  <2>2. revoked' \subseteq Secrets
    BY <1>8 DEF Reply, TokTypeOK
  <2>3. req[r] \in Request /\ req[r].tok \in Token /\ req[r].id \in Ids
    BY DEF TokTypeOK, Request
  <2>4. req[r].tok.sec \in Secrets => req[r].tok.sec \in Ids
    BY DEF Ids
  <2>5. promised' \in [Secrets -> [id : {0} \cup Ids, exp : 0..(MaxTime + 1)]]
    <3>1. CASE promised' = promised
      BY <3>1 DEF TokTypeOK
    <3>2. ASSUME NEW id \in {req[r].tok.sec, req[r].id},
                 promised' = [promised EXCEPT ![req[r].tok.sec] = [id |-> id, exp |-> req[r].tok.exp]]
          PROVE  promised' \in [Secrets -> [id : {0} \cup Ids, exp : 0..(MaxTime + 1)]]
      <4>1. req[r].tok.sec \in {0} \cup Ids /\ req[r].tok.exp \in 0..(MaxTime + 1)
        BY <2>3 DEF Token, Ids, Secrets
      <4>2. [id |-> id, exp |-> req[r].tok.exp] \in [id : {0} \cup Ids, exp : 0..(MaxTime + 1)]
        BY <2>3, <4>1
      <4> QED BY <3>2, <4>2 DEF TokTypeOK
    <3> QED BY <1>8, <3>1, <3>2 DEF Reply
  <2> QED BY <1>8, <2>1, <2>2, <2>5 DEF Reply, TokTypeOK
<1>9. CASE Tick
  BY <1>9 DEF Tick, TokTypeOK
<1>10. CASE Restart
  <2>1. req' \in [Reqs -> Request]
    BY <1>10, NoRequestType DEF Restart
  <2> QED BY <1>10, <2>1 DEF Restart, TokTypeOK
<1>11. CASE UNCHANGED tokVars
  BY <1>11 DEF tokVars, TokTypeOK
<1> QED BY <1>1, <1>2, <1>3, <1>5, <1>6, <1>7, <1>8, <1>9, <1>10, <1>11 DEF TokNext

-----------------------------------------------------------------------------
LEMMA InvInit == TokInit => TokInv
<1> SUFFICES ASSUME TokInit PROVE TokInv
  OBVIOUS
<1>1. TokTypeOK
  BY TokensTypeInit
<1>2. \A r \in Reqs : req[r] = NoRequest
  BY DEF TokInit
<1>3. \A r \in Reqs : RequestOK(r) /\ ~Showing(r) /\ req[r].pc # "answer"
  BY <1>2, NoRequestFields DEF RequestOK, Showing
<1>4. PICK exp \in {0, 1} :
         /\ promised = [s \in Secrets |-> IF s <= secrets THEN [id |-> s, exp |-> exp]
                                         ELSE [id |-> 0, exp |-> 0]]
         /\ tokens = [i \in Ids |-> IF i <= secrets THEN [sec |-> i, exp |-> exp] ELSE NoToken]
  BY DEF TokInit
<1>5. ShownOnce
  BY <1>3, <1>4 DEF ShownOnce, TokInit, Secrets
<1>6. ASSUME NEW i \in Ids PROVE TokenOK(tokens, i)
  <2>1. CASE i <= secrets
    <3>1. tokens[i].sec = i /\ tokens[i].exp = exp
          /\ promised[i].id = i /\ promised[i].exp = exp /\ i # 0
      BY <1>4, <2>1 DEF Ids, Secrets
    <3> QED BY <1>3, <2>1, <3>1 DEF TokenOK, TokInit
  <2>2. CASE ~(i <= secrets)
    <3>1. tokens[i] = NoToken
      BY <1>4, <2>2
    <3> QED BY <3>1 DEF TokenOK, NoToken
  <2> QED BY <2>1, <2>2
<1>7. UntouchedOK(tokens)
  BY <1>4 DEF UntouchedOK, Ids, Secrets
<1>8. MapOK(tokens)
  BY <1>3, <1>6, <1>7 DEF MapOK, AnswerOK
<1>9. saved = tokens
  BY DEF TokInit
<1> QED BY <1>3, <1>5, <1>8, <1>9 DEF TokInv

(* The save wrote all that memory has. *)
LEMMA SavedAll ==
    ASSUME MapOK(tokens)', saved' = tokens'
    PROVE  MapOK(saved)'
BY DEF MapOK, TokenOK, AnswerOK, UntouchedOK

(* A request moves, and shows no new secret and does not answer a change as
   done: a map of tokens that stays is as right as it was. *)
LEMMA QuietMap ==
    ASSUME TokTypeOK, NEW r \in Reqs, NEW q \in Request,
           req' = [req EXCEPT ![r] = q],
           q.ans # "ok" \/ q.kind = "other",
           touched \subseteq touched',
           secrets' \in {secrets, secrets + 1},
           UNCHANGED <<promised, revoked>>,
           NEW m \in [Ids -> Token], MapOK(m)
    PROVE  /\ \A i \in Ids : TokenOK(m, i)'
           /\ \A p \in Reqs : AnswerOK(m, p)'
           /\ UntouchedOK(m)'
<1>1. req'[r] = q /\ \A p \in Reqs : p # r => req'[p] = req[p]
  BY DEF TokTypeOK
<1>2. ~Showing(r)' /\ \A p \in Reqs : p # r => (Showing(p)' <=> Showing(p))
  BY <1>1 DEF Showing
<1>3. secrets \in Nat /\ \A i \in Ids : m[i].sec \in Nat
  BY DEF Token, TokTypeOK
<1>4. \A i \in Ids : TokenOK(m, i)'
  BY <1>1, <1>2, <1>3 DEF MapOK, TokenOK, IdOf
<1>5. \A p \in Reqs : AnswerOK(m, p)'
  BY <1>1 DEF MapOK, AnswerOK
<1>6. UntouchedOK(m)'
  BY DEF MapOK, UntouchedOK
<1> QED BY <1>4, <1>5, <1>6

LEMMA QuietTokens ==
    ASSUME TokTypeOK, NEW r \in Reqs, NEW q \in Request,
           req' = [req EXCEPT ![r] = q],
           q.ans # "ok" \/ q.kind = "other",
           touched \subseteq touched',
           secrets' \in {secrets, secrets + 1},
           UNCHANGED <<promised, revoked>>,
           MapOK(tokens), tokens' = tokens
    PROVE  MapOK(tokens)'
<1>1. ASSUME NEW m \in [Ids -> Token], MapOK(m)
      PROVE  /\ \A i \in Ids : TokenOK(m, i)'
             /\ \A p \in Reqs : AnswerOK(m, p)'
             /\ UntouchedOK(m)'
  BY <1>1, QuietMap
<1>2. tokens \in [Ids -> Token]
  BY DEF TokTypeOK
<1> QED BY <1>1, <1>2 DEF MapOK, TokenOK, AnswerOK, UntouchedOK

LEMMA QuietSaved ==
    ASSUME TokTypeOK, NEW r \in Reqs, NEW q \in Request,
           req' = [req EXCEPT ![r] = q],
           q.ans # "ok" \/ q.kind = "other",
           touched \subseteq touched',
           secrets' \in {secrets, secrets + 1},
           UNCHANGED <<promised, revoked>>,
           MapOK(saved), saved' = saved
    PROVE  MapOK(saved)'
<1>1. ASSUME NEW m \in [Ids -> Token], MapOK(m)
      PROVE  /\ \A i \in Ids : TokenOK(m, i)'
             /\ \A p \in Reqs : AnswerOK(m, p)'
             /\ UntouchedOK(m)'
  BY <1>1, QuietMap
<1>2. saved \in [Ids -> Token]
  BY DEF TokTypeOK
<1> QED BY <1>1, <1>2 DEF MapOK, TokenOK, AnswerOK, UntouchedOK

(* A request moves, and shows no new secret and does not answer a change as
   done. *)
LEMMA Quiet ==
    ASSUME TokTypeOK, TokInv, NEW r \in Reqs, NEW q \in Request,
           req' = [req EXCEPT ![r] = q],
           q.ans # "ok" \/ q.kind = "other",
           RequestOK(r)',
           touched \subseteq touched',
           secrets \in 0..MaxSecrets, secrets' \in {secrets, secrets + 1},
           UNCHANGED <<tokens, now, promised, revoked>>,
           saved' \in {saved, tokens}
    PROVE  TokInv'
<1>1. req'[r] = q /\ \A p \in Reqs : p # r => req'[p] = req[p]
  BY DEF TokTypeOK
<1>2. ~Showing(r)' /\ \A p \in Reqs : p # r => (Showing(p)' <=> Showing(p))
  BY <1>1 DEF Showing
<1>3. \A p \in Reqs : RequestOK(p)'
  <2> SUFFICES ASSUME NEW p \in Reqs, p # r PROVE RequestOK(p)'
    OBVIOUS
  <2>1. RequestOK(p) /\ req'[p] = req[p]
    BY <1>1 DEF TokInv
  <2>2. req'[p].id \in 1..secrets => req'[p].id \in 1..(secrets')
    OBVIOUS
  <2>3. req'[p].tok.sec \in 1..secrets => req'[p].tok.sec \in 1..(secrets')
    OBVIOUS
  <2> QED BY <1>2, <2>1, <2>2, <2>3 DEF RequestOK, Void
<1>4. ShownOnce'
  <2>1. \A s \in Secrets : promised[s].id \in Nat /\ s \in Nat
    BY DEF TokTypeOK, Ids, Secrets
  <2>2. \A s \in revoked : s \in Nat
    BY DEF TokTypeOK, Secrets
  <2> QED BY <1>1, <1>2, <2>1, <2>2 DEF ShownOnce, TokInv
<1>6. MapOK(tokens)'
  BY QuietTokens DEF TokInv
<1>7. MapOK(saved)'
  BY <1>6, QuietSaved, SavedAll DEF TokInv
<1> QED BY <1>3, <1>4, <1>6, <1>7 DEF TokInv

(* A request that keeps what it carries keeps what is known of it. *)
LEMMA KeepsRequestOK ==
    ASSUME TokTypeOK, TokInv, NEW r \in Reqs, NEW q \in Request,
           req' = [req EXCEPT ![r] = q], Keeps(q, req[r]),
           req[r].pc # "idle",
           q.ans # "ok" \/ q.kind = "other",
           q.ans # "none" => q.pc = "answer",
           secrets' \in {secrets, secrets + 1},
           UNCHANGED <<now, promised, revoked, touched>>
    PROVE  RequestOK(r)'
<1>1. req'[r] = q /\ RequestOK(r)
  BY DEF TokTypeOK, TokInv
<1>2. ~Showing(r)'
  BY <1>1 DEF Showing
<1>3. req[r].id \in 1..secrets => req[r].id \in 1..(secrets')
  BY DEF TokTypeOK
<1> QED BY <1>1, <1>2, <1>3 DEF RequestOK, Void, Keeps

LEMMA ArriveInv ==
    ASSUME TokTypeOK, TokInv, NEW r \in Reqs, Arrive(r)
    PROVE  TokInv'
<1>1. PICK q \in Input :
         /\ req' = [req EXCEPT ![r] = q]
         /\ touched' = IF q.kind \in {"delete", "rotate"} THEN touched \cup {q.id} ELSE touched
  BY DEF Arrive
<1>2. /\ q \in Request
      /\ q.pc = "auth" /\ q.ans = "none"
      /\ q.bearer # 0 => promised[q.bearer].id # 0
      /\ q.late => q.bearer # 0 /\ Void(q.bearer)
      /\ q.kind \in {"delete", "rotate"} => q.id \in 1..secrets
  BY InputFields
<1>3. req'[r] = q
  BY <1>1 DEF TokTypeOK
<1>4. RequestOK(r)'
  <2>1. ~Showing(r)'
    BY <1>2, <1>3 DEF Showing
  <2>2. (q.kind \in {"delete", "rotate"}) => q.id \in touched'
    BY <1>1
  <2> QED BY <1>2, <1>3, <2>1, <2>2 DEF RequestOK, Void, Arrive
<1>5. secrets \in 0..MaxSecrets /\ touched \subseteq touched'
  BY <1>1 DEF TokTypeOK
<1> QED BY <1>1, <1>2, <1>4, <1>5, Quiet DEF Arrive

LEMMA WrapCases ==
    ASSUME TokTypeOK, TokInv, NEW r \in Reqs, Wrap(r)
    PROVE  \E q \in Request :
             /\ req' = [req EXCEPT ![r] = q]
             /\ Keeps(q, req[r])
             /\ q.ans # "ok" \/ q.kind = "other"
             /\ \/ Public(r) /\ q.ans \in {req[r].ans, "ok", "notFound"}
                           /\ (q.pc = "answer" \/ q.ans = req[r].ans)
                \/ /\ ~Public(r) /\ q.pc = "mark" /\ q.ans = req[r].ans
                   /\ req[r].bearer # 0
                   /\ \E i \in Ids : tokens[i].sec = req[r].bearer /\ ~Expired(tokens[i].exp, now)
                \/ /\ ~Public(r) /\ q.pc = "answer" /\ q.ans = "unauthorized"
                   /\ \A i \in Ids : (req[r].bearer # 0 /\ tokens[i].sec = req[r].bearer)
                                    => Expired(tokens[i].exp, now)
<1>1. req[r] \in Request /\ "unauthorized" \in Answer
  BY DEF TokTypeOK, Answer
<1>6. req[r].pc = "auth" /\ req[r].ans = "none"
  BY DEF Wrap, TokInv, RequestOK
<1>2. CASE Public(r) /\ req' = [req EXCEPT ![r] = Routed(r)]
  <2> DEFINE q == Routed(r)
  <2>1. /\ q \in Request /\ Keeps(q, req[r])
        /\ q.ans # "ok" \/ q.kind = "other"
        /\ q.ans \in {req[r].ans, "ok", "notFound"}
        /\ q.pc = "answer" \/ q.ans = req[r].ans
    BY <1>6, RoutedFields DEF Keeps
  <2> HIDE DEF q
  <2> QED BY <1>2, <2>1 DEF q
<1>3. CASE /\ ~Public(r)
           /\ \A i \in Ids : (req[r].bearer # 0 /\ tokens[i].sec = req[r].bearer)
                            => Expired(tokens[i].exp, now)
           /\ req' = [req EXCEPT ![r] = Answered(r, "unauthorized", NoToken)]
  <2> DEFINE q == Answered(r, "unauthorized", NoToken)
  <2>1. q \in Request /\ Keeps(q, req[r]) /\ q.pc = "answer" /\ q.ans = "unauthorized"
    BY <1>1, AnsweredFields, NoTokenType
  <2> HIDE DEF q
  <2> QED BY <1>3, <2>1 DEF q
<1>4. ASSUME ~Public(r), NEW i \in Ids,
             tokens[i].sec = req[r].bearer, req[r].bearer # 0, ~Expired(tokens[i].exp, now),
             req' = [req EXCEPT ![r].pc = "mark", ![r].found = i],
             req[r].pc = "auth"
      PROVE  \E q \in Request :
               /\ req' = [req EXCEPT ![r] = q]
               /\ Keeps(q, req[r])
               /\ q.pc = "mark" /\ q.ans = req[r].ans
  <2> DEFINE q == [req[r] EXCEPT !.pc = "mark", !.found = i]
  <2>1. q \in Request /\ q.pc = "mark" /\ q.ans = req[r].ans /\ Keeps(q, req[r])
    BY <1>1 DEF Request, Keeps
  <2>2. req' = [req EXCEPT ![r] = q]
    BY <1>4, <1>1 DEF TokTypeOK, Request
  <2> HIDE DEF q
  <2> QED BY <2>1, <2>2
<1>5. CASE ~Public(r) /\ \E i \in Ids :
               /\ tokens[i].sec = req[r].bearer /\ req[r].bearer # 0 /\ ~Expired(tokens[i].exp, now)
               /\ req' = [req EXCEPT ![r].pc = "mark", ![r].found = i]
  <2>1. PICK i \in Ids :
               /\ tokens[i].sec = req[r].bearer /\ req[r].bearer # 0 /\ ~Expired(tokens[i].exp, now)
               /\ req' = [req EXCEPT ![r].pc = "mark", ![r].found = i]
    BY <1>5
  <2>2. PICK q \in Request :
               /\ req' = [req EXCEPT ![r] = q]
               /\ Keeps(q, req[r])
               /\ q.pc = "mark" /\ q.ans = req[r].ans
    BY <1>4, <1>5, <2>1 DEF Wrap
  <2>3. q.ans # "ok" \/ q.kind = "other"
    BY <1>6, <2>2
  <2> QED BY <1>5, <2>1, <2>2, <2>3
<1> QED BY <1>2, <1>3, <1>5 DEF Wrap, Holders

LEMMA WrapInv ==
    ASSUME TokTypeOK, TokInv, NEW r \in Reqs, Wrap(r)
    PROVE  TokInv'
<1>1. PICK q \in Request :
         /\ req' = [req EXCEPT ![r] = q]
         /\ Keeps(q, req[r])
         /\ q.ans # "ok" \/ q.kind = "other"
         /\ q.pc = "answer" \/ q.ans = req[r].ans
  BY WrapCases
<1>2. req[r].pc = "auth" /\ req[r].ans = "none"
  BY DEF Wrap, TokInv, RequestOK
<1>3. RequestOK(r)'
  BY <1>1, <1>2, KeepsRequestOK DEF Wrap
<1> QED BY <1>1, <1>3, Quiet DEF Wrap, TokTypeOK

(* An answer that changes nothing. *)
LEMMA AnswerInv ==
    ASSUME TokTypeOK, TokInv, NEW r \in Reqs, NEW a \in Answer \ {"ok"},
           req[r].pc = "handle",
           req' = [req EXCEPT ![r] = Answered(r, a, NoToken)],
           secrets' \in {secrets, secrets + 1},
           UNCHANGED <<tokens, saved, now, promised, revoked, touched>>
    PROVE  TokInv'
<1> DEFINE q == Answered(r, a, NoToken)
<1>1. q \in Request /\ Keeps(q, req[r]) /\ q.pc = "answer" /\ q.ans = a
  BY AnsweredFields, NoTokenType
<1> HIDE DEF q
<1>2. req' = [req EXCEPT ![r] = q]
  BY DEF q
<1>3. RequestOK(r)'
  BY <1>1, <1>2, KeepsRequestOK
<1> QED BY <1>1, <1>2, <1>3, Quiet DEF TokTypeOK

LEMMA MarkInv ==
    ASSUME TokTypeOK, TokInv, NEW r \in Reqs, MarkTokenUsed(r)
    PROVE  TokInv'
<1> DEFINE q == Routed(r)
<1>1. /\ q \in Request /\ Keeps(q, req[r])
      /\ q.ans # "ok" \/ q.kind = "other"
      /\ q.pc = "answer" \/ q.ans = req[r].ans
  <2>1. req[r].ans = "none"
    BY DEF MarkTokenUsed, TokInv, RequestOK
  <2> QED BY <2>1, RoutedFields DEF Keeps
<1>2. /\ req' = [req EXCEPT ![r] = q]
      /\ tokens' = tokens
      /\ saved' \in {saved, tokens}
  BY DEF MarkTokenUsed, Save
<1> HIDE DEF q
<1>3. req[r].pc = "mark" /\ req[r].ans = "none"
  BY DEF MarkTokenUsed, TokInv, RequestOK
<1>4. RequestOK(r)'
  BY <1>1, <1>2, <1>3, KeepsRequestOK DEF MarkTokenUsed
<1> QED BY <1>1, <1>2, <1>4, Quiet DEF MarkTokenUsed, TokTypeOK

(* The two ends of a save: the change is answered as done, or not. *)
LEMMA SaveCases ==
    ASSUME TokTypeOK, NEW r \in Reqs, NEW t \in Token, NEW a \in Answer \ {"ok"},
           \/ saved' = tokens' /\ req' = [req EXCEPT ![r] = Answered(r, "ok", t)]
           \/ saved' = saved /\ req' = [req EXCEPT ![r] = Answered(r, a, NoToken)]
    PROVE  \E q \in Request :
             /\ req' = [req EXCEPT ![r] = q]
             /\ Keeps(q, req[r])
             /\ q.pc = "answer"
             /\ \/ q.ans = "ok" /\ q.tok = t /\ saved' = tokens'
                \/ q.ans = a /\ saved' = saved
<1>1. "ok" \in Answer
  BY DEF Answer
<1>2. CASE saved' = tokens' /\ req' = [req EXCEPT ![r] = Answered(r, "ok", t)]
  <2> DEFINE q == Answered(r, "ok", t)
  <2>1. q \in Request /\ Keeps(q, req[r]) /\ q.pc = "answer" /\ q.ans = "ok" /\ q.tok = t
    BY <1>1, AnsweredFields
  <2> HIDE DEF q
  <2> QED BY <1>2, <2>1 DEF q
<1>3. CASE saved' = saved /\ req' = [req EXCEPT ![r] = Answered(r, a, NoToken)]
  <2> DEFINE q == Answered(r, a, NoToken)
  <2>1. q \in Request /\ Keeps(q, req[r]) /\ q.pc = "answer" /\ q.ans = a
    BY AnsweredFields, NoTokenType
  <2> HIDE DEF q
  <2> QED BY <1>3, <2>1 DEF q
<1> QED BY <1>2, <1>3

(* A token is created, rotated or deleted in memory; the save fails or not. *)
LEMMA ChangeInv ==
    ASSUME TokTypeOK, TokInv, NEW r \in Reqs, NEW q \in Request,
           NEW id \in Ids, NEW t \in Token,
           req[r].pc = "handle",
           req' = [req EXCEPT ![r] = q], Keeps(q, req[r]), q.pc = "answer",
           tokens' = [tokens EXCEPT ![id] = t],
           \/ q.ans = "ok" /\ q.tok = t /\ saved' = tokens'
           \/ q.ans \in {"error", "notFound"} /\ saved' = saved,
           \/ req[r].kind = "create" /\ id = t.sec /\ t.sec = secrets + 1 /\ secrets' = secrets + 1
           \/ /\ req[r].kind = "rotate" /\ id = req[r].id /\ tokens[id] # NoToken
              /\ t.sec = secrets + 1 /\ secrets' = secrets + 1
           \/ /\ req[r].kind = "delete" /\ id = req[r].id /\ tokens[id] # NoToken
              /\ t = NoToken /\ secrets' = secrets,
           UNCHANGED <<now, promised, revoked, touched>>
    PROVE  TokInv'
<1>1. req'[r] = q /\ \A p \in Reqs : p # r => req'[p] = req[p]
  BY DEF TokTypeOK
<1>2. /\ secrets \in Nat /\ secrets' \in {secrets, secrets + 1}
      /\ t.sec \in Nat /\ \A i \in Ids : tokens[i].sec \in Nat /\ i \in Nat /\ i # 0
      /\ \A s \in Secrets : promised[s].id \in {0} \cup Ids
  <2>1. secrets \in Nat /\ secrets' \in {secrets, secrets + 1}
    BY TokensAssumption DEF TokTypeOK
  <2>2. t.sec \in Nat /\ \A i \in Ids : tokens[i].sec \in Nat
    BY TokensAssumption DEF TokTypeOK, Token
  <2>3. \A i \in Ids : i \in Nat /\ i # 0
    BY TokensAssumption DEF Ids, Secrets
  <2>4. \A s \in Secrets : promised[s].id \in {0} \cup Ids
    BY DEF TokTypeOK
  <2> QED BY <2>1, <2>2, <2>3, <2>4
<1>3. /\ q.kind = req[r].kind /\ q.id = req[r].id /\ q.bearer = req[r].bearer
      /\ q.late = req[r].late
  BY DEF Keeps
<1>4. \A p \in Reqs : p # r => (Showing(p)' <=> Showing(p))
  BY <1>1 DEF Showing
<1>5. ~Showing(r)
  BY DEF Showing
<1>6. \A p \in Reqs : RequestOK(p)
  BY DEF TokInv
<1>7. /\ \A s \in Secrets : promised[s].id # 0 => s <= secrets /\ promised[s].id <= secrets
      /\ \A s \in revoked : s <= secrets
      /\ \A p, u \in Reqs : (p # u /\ Showing(p) /\ Showing(u)) => req[p].tok.sec # req[u].tok.sec
  BY DEF TokInv, ShownOnce
<1>8. /\ \A i \in Ids : TokenOK(tokens, i)
      /\ \A p \in Reqs : AnswerOK(tokens, p)
      /\ UntouchedOK(tokens)
  BY DEF TokInv, MapOK
<1>9. \A p \in Reqs : Showing(p) => req[p].tok.sec \in 1..secrets
  BY <1>6 DEF RequestOK
<1>10. tokens'[id] = t /\ \A i \in Ids : i # id => tokens'[i] = tokens[i]
  BY DEF TokTypeOK
<1>11. req[r].kind # "create" => id \in touched /\ id \in 1..secrets
  BY <1>6 DEF RequestOK
<1>12. NoToken.sec = 0
  BY DEF NoToken
<1>13. Showing(r)' => q.tok = t /\ t.sec = secrets + 1 /\ secrets' = secrets + 1
  BY <1>1, <1>3 DEF Showing
<1>14. \A p \in Reqs : RequestOK(p)'
  <2>1. ASSUME NEW p \in Reqs, p # r PROVE RequestOK(p)'
    <3>1. RequestOK(p) /\ req'[p] = req[p] /\ (Showing(p)' <=> Showing(p))
      BY <1>1, <1>4, <1>6, <2>1
    <3>2. \A x : x \in 1..secrets => x \in 1..(secrets')
      BY <1>2
    <3> QED BY <3>1, <3>2 DEF RequestOK, Void
  <2>2. RequestOK(r)'
    <3>1. RequestOK(r)
      BY <1>6
    <3>2. \A x : x \in 1..secrets => x \in 1..(secrets')
      BY <1>2
    <3>3. Showing(r)' => /\ q.tok.sec \in 1..(secrets')
                         /\ promised[q.tok.sec].id = 0
                         /\ q.kind = "rotate" => q.id # q.tok.sec
      <4> SUFFICES ASSUME Showing(r)'
                   PROVE  /\ q.tok.sec \in 1..(secrets')
                          /\ promised[q.tok.sec].id = 0
                          /\ q.kind = "rotate" => q.id # q.tok.sec
        OBVIOUS
      <4>1. q.tok.sec = secrets + 1 /\ secrets' = secrets + 1
        BY <1>13
      <4>2. q.tok.sec \in Secrets
        BY <1>2, <4>1, TokensAssumption DEF Request, Token, Secrets
      <4>3. promised[q.tok.sec].id = 0
        BY <1>2, <1>7, <4>1, <4>2 DEF Secrets
      <4>4. q.kind = "rotate" => q.id # q.tok.sec
        BY <1>2, <1>3, <1>11, <4>1
      <4> QED BY <1>2, <4>1, <4>3, <4>4
    <3> QED BY <1>1, <1>3, <3>1, <3>2, <3>3 DEF RequestOK, Void
  <2> QED BY <2>1, <2>2
<1>15. ShownOnce'
  <2>1. /\ \A s \in Secrets : promised[s].id # 0 => s <= secrets' /\ promised[s].id <= secrets'
        /\ \A s \in revoked : s <= secrets'
    BY <1>2, <1>7 DEF TokTypeOK, Secrets, Ids
  <2>2. ASSUME NEW p \in Reqs, NEW u \in Reqs, p # u, Showing(p)', Showing(u)'
        PROVE  req'[p].tok.sec # req'[u].tok.sec
    BY <1>1, <1>2, <1>4, <1>7, <1>9, <1>13, <2>2
  <2> QED BY <2>1, <2>2 DEF ShownOnce
<1>16. ASSUME NEW i \in Ids PROVE TokenOK(tokens, i)'
  <2>1. CASE i # id
    <3>1. tokens'[i] = tokens[i] /\ TokenOK(tokens, i)
      BY <1>8, <1>10, <2>1
    <3>2. ASSUME NEW p \in Reqs, Showing(p)', req'[p].tok.sec = tokens[i].sec, tokens[i].sec # 0
          PROVE  IdOf(p)' = i /\ req'[p].tok.exp = tokens[i].exp
      <4>1. p # r
        BY <1>1, <1>2, <1>13, <3>1, <3>2 DEF TokenOK
      <4> QED BY <1>1, <1>4, <3>1, <3>2, <4>1 DEF TokenOK, IdOf
    <3>3. tokens[i].sec <= secrets => tokens[i].sec <= secrets'
      BY <1>2
    <3> QED BY <3>1, <3>2, <3>3 DEF TokenOK
  <2>2. CASE i = id /\ t = NoToken
    BY <1>10, <1>12, <2>2 DEF TokenOK
  <2>3. CASE i = id /\ t # NoToken
    <3>1. tokens'[i] = t /\ t.sec = secrets + 1 /\ secrets' = secrets + 1
      BY <1>10, <2>3
    <3>2. t.sec \in Secrets
      BY <1>2, <3>1, TokensAssumption DEF Token, Secrets
    <3>3. t.sec \notin revoked /\ promised[t.sec].id = 0
      BY <1>2, <1>7, <3>1, <3>2 DEF Secrets
    <3>4. ASSUME NEW p \in Reqs, Showing(p)', req'[p].tok.sec = t.sec
          PROVE  IdOf(p)' = i /\ req'[p].tok.exp = t.exp
      <4>1. p = r
        BY <1>1, <1>2, <1>4, <1>9, <3>1, <3>4
      <4>2. q.tok = t /\ q.kind = req[r].kind
        BY <1>3, <1>13, <3>4, <4>1
      <4> QED BY <1>1, <1>3, <2>3, <4>1, <4>2 DEF IdOf
    <3> QED BY <1>2, <3>1, <3>3, <3>4 DEF TokenOK
  <2> QED BY <2>1, <2>2, <2>3
<1>17. ASSUME NEW p \in Reqs PROVE AnswerOK(tokens, p)'
  <2>1. CASE p = r
    BY <1>1, <1>2, <1>3, <1>10, <1>12, <2>1 DEF AnswerOK
  <2>2. CASE p # r
    <3>1. AnswerOK(tokens, p) /\ RequestOK(p) /\ req'[p] = req[p]
      BY <1>1, <1>6, <1>8, <2>2
    <3> SUFFICES ASSUME req[p].pc = "answer", req[p].ans = "ok"
                 PROVE  AnswerOK(tokens, p)'
      BY <3>1 DEF AnswerOK
    <3>2. req[p].kind \in {"delete", "rotate"} => req[p].id \in 1..secrets /\ req[p].id \in Ids
      BY <3>1 DEF RequestOK, TokTypeOK, Request
    <3>3. CASE req[p].kind = "delete"
      <4>1. tokens[req[p].id].sec = 0 /\ tokens[req[p].id] = NoToken
        BY <1>8, <3>1, <3>2, <3>3 DEF AnswerOK, TokenOK
      <4>2. req[p].id # id
        BY <1>2, <3>2, <3>3, <4>1
      <4> QED BY <1>10, <3>1, <3>2, <3>3, <4>1, <4>2 DEF AnswerOK
    <3>4. CASE req[p].kind = "rotate"
      <4>1. Showing(p) /\ req[p].tok.sec \in 1..secrets
        BY <1>9, <3>4 DEF Showing
      <4>2. tokens[req[p].id].sec = 0 \/ tokens[req[p].id].sec >= req[p].tok.sec
        BY <3>1, <3>4 DEF AnswerOK
      <4>3. tokens'[req[p].id].sec = 0 \/ tokens'[req[p].id].sec >= req[p].tok.sec
        BY <1>2, <1>10, <1>12, <3>2, <3>4, <4>1, <4>2
      <4> QED BY <3>1, <3>4, <4>3 DEF AnswerOK
    <3>5. CASE req[p].kind = "create"
      <4>1. Showing(p) /\ req[p].tok.sec \in 1..secrets
        BY <1>9, <3>5 DEF Showing
      <4>2. req[p].tok.sec \in Ids
        BY <1>2, <4>1, TokensAssumption DEF TokTypeOK, Ids, Secrets
      <4>3. req[p].tok.sec \notin touched => req[p].tok.sec # id
        BY <1>2, <1>11, <4>1
      <4> QED BY <1>10, <3>1, <3>5, <4>2, <4>3 DEF AnswerOK
    <3>6. CASE req[p].kind \notin {"delete", "rotate", "create"}
      BY <3>1, <3>6 DEF AnswerOK
    <3> QED BY <3>3, <3>4, <3>5, <3>6
  <2> QED BY <2>1, <2>2
<1>18. UntouchedOK(tokens)'
  <2> SUFFICES ASSUME NEW s \in Secrets, promised[s].id # 0, promised[s].id \notin touched
               PROVE  tokens'[promised[s].id].sec = s
    BY DEF UntouchedOK
  <2>1. promised[s].id \in Ids /\ promised[s].id <= secrets
    BY <1>2, <1>7
  <2>2. promised[s].id # id
    BY <1>2, <1>11, <2>1
  <2> QED BY <1>8, <1>10, <2>1, <2>2 DEF UntouchedOK
<1>19. MapOK(tokens)'
  BY <1>16, <1>17, <1>18 DEF MapOK
<1>20. MapOK(saved)'
  <2>1. CASE saved' = tokens'
    BY <1>19, <2>1, SavedAll
  <2>2. CASE saved' = saved /\ q.ans # "ok"
    BY <1>2, <2>2, QuietSaved DEF TokInv
  <2> QED BY <2>1, <2>2
<1> QED BY <1>14, <1>15, <1>19, <1>20 DEF TokInv

LEMMA CreateInv ==
    ASSUME TokTypeOK, TokInv, NEW r \in Reqs, CreateToken(r)
    PROVE  TokInv'
<1> DEFINE t == [sec |-> secrets + 1, exp |-> ExpiresAt(req[r].in)]
<1>1. t \in Token /\ t.sec \in Ids /\ t.sec = secrets + 1
  BY NewTokenType DEF CreateToken
<1>2. Save([tokens EXCEPT ![t.sec] = t], r, Answered(r, "ok", t), Answered(r, "error", NoToken))
  BY DEF CreateToken
<1> HIDE DEF t
<1>3. [tokens EXCEPT ![t.sec] = t] \in [Ids -> Token] /\ "error" \in Answer \ {"ok"}
  BY <1>1 DEF TokTypeOK, Answer
<1>4. PICK q \in Request :
         /\ req' = [req EXCEPT ![r] = q]
         /\ Keeps(q, req[r])
         /\ q.pc = "answer"
         /\ \/ q.ans = "ok" /\ q.tok = t /\ saved' = tokens'
            \/ q.ans = "error" /\ saved' = saved
  BY <1>1, <1>2, <1>3, SaveCases DEF Save
<1>5. tokens' = [tokens EXCEPT ![t.sec] = t]
  BY <1>2 DEF Save
<1> QED BY <1>1, <1>4, <1>5, ChangeInv DEF CreateToken

LEMMA DeleteInv ==
    ASSUME TokTypeOK, TokInv, NEW r \in Reqs, DeleteToken(r)
    PROVE  TokInv'
<1>1. req[r].id \in Ids /\ {"error", "notFound"} \subseteq Answer \ {"ok"}
  BY DEF TokTypeOK, Request, Answer
<1>2. CASE req' = [req EXCEPT ![r] = Answered(r, "notFound", NoToken)] /\ UNCHANGED <<tokens, saved>>
  BY <1>1, <1>2, AnswerInv DEF DeleteToken
<1>3. CASE /\ tokens[req[r].id] # NoToken
           /\ Save([tokens EXCEPT ![req[r].id] = NoToken], r,
                   Answered(r, "ok", NoToken), Answered(r, "error", NoToken))
  <2>1. tokens' = [tokens EXCEPT ![req[r].id] = NoToken]
    BY <1>3 DEF Save
  <2>2. PICK q \in Request :
           /\ req' = [req EXCEPT ![r] = q]
           /\ Keeps(q, req[r])
           /\ q.pc = "answer"
           /\ \/ q.ans = "ok" /\ q.tok = NoToken /\ saved' = tokens'
              \/ q.ans = "error" /\ saved' = saved
    BY <1>1, <1>3, NoTokenType, SaveCases DEF Save
  <2> QED BY <1>1, <1>3, <2>1, <2>2, NoTokenType, ChangeInv DEF DeleteToken
<1> QED BY <1>2, <1>3 DEF DeleteToken

LEMMA RotateInv ==
    ASSUME TokTypeOK, TokInv, NEW r \in Reqs, RotateToken(r)
    PROVE  TokInv'
<1> DEFINE t == [sec |-> secrets + 1, exp |-> ExpiresAt(req[r].in)]
<1>1. req[r].id \in Ids /\ "notFound" \in Answer \ {"ok"}
  BY DEF TokTypeOK, Request, Answer
<1>2. t \in Token /\ t.sec = secrets + 1
  BY NewTokenType DEF RotateToken
<1>3. \/ /\ tokens[req[r].id] # NoToken
         /\ Save([tokens EXCEPT ![req[r].id] = t], r,
                 Answered(r, "ok", t), Answered(r, "notFound", NoToken))
      \/ /\ req' = [req EXCEPT ![r] = Answered(r, "notFound", NoToken)]
         /\ UNCHANGED <<tokens, saved>>
  BY DEF RotateToken
<1> HIDE DEF t
<1>4. CASE req' = [req EXCEPT ![r] = Answered(r, "notFound", NoToken)] /\ UNCHANGED <<tokens, saved>>
  BY <1>1, <1>4, AnswerInv DEF RotateToken
<1>5. CASE /\ tokens[req[r].id] # NoToken
           /\ Save([tokens EXCEPT ![req[r].id] = t], r,
                   Answered(r, "ok", t), Answered(r, "notFound", NoToken))
  <2>1. tokens' = [tokens EXCEPT ![req[r].id] = t]
    BY <1>5 DEF Save
  <2>2. PICK q \in Request :
           /\ req' = [req EXCEPT ![r] = q]
           /\ Keeps(q, req[r])
           /\ q.pc = "answer"
           /\ \/ q.ans = "ok" /\ q.tok = t /\ saved' = tokens'
              \/ q.ans = "notFound" /\ saved' = saved
    BY <1>1, <1>2, <1>5, SaveCases DEF Save
  <2> QED BY <1>1, <1>2, <1>5, <2>1, <2>2, ChangeInv DEF RotateToken
<1> QED BY <1>3, <1>4, <1>5

(* What becomes of the promises when an answer reaches its client. *)
LEMMA ReplyShows ==
    ASSUME TokTypeOK, TokInv, NEW r \in Reqs, Reply(r)
    PROVE  /\ ~Showing(r) => promised' = promised
           /\ Showing(r) =>
                /\ req[r].tok.sec \in Secrets /\ req[r].tok.sec <= secrets
                /\ promised[req[r].tok.sec].id = 0
                /\ promised'[req[r].tok.sec] = [id |-> IdOf(r), exp |-> req[r].tok.exp]
                /\ IdOf(r) \in Ids /\ IdOf(r) <= secrets
                /\ req[r].kind = "rotate" => IdOf(r) \in touched
                /\ \A s \in Secrets : s # req[r].tok.sec => promised'[s] = promised[s]
<1>1. CASE ~Showing(r)
  BY <1>1 DEF Reply, Showing
<1>2. CASE Showing(r)
  <2>1. /\ req[r].tok.sec \in 1..secrets
        /\ promised[req[r].tok.sec].id = 0
        /\ req[r].kind = "rotate" => req[r].id \in 1..secrets /\ req[r].id \in touched
    BY <1>2 DEF TokInv, RequestOK, Showing
  <2>2. req[r].tok.sec \in Secrets /\ req[r].tok.sec <= secrets
    BY <2>1, TokensAssumption DEF TokTypeOK, Secrets
  <2>3. req[r].kind \in {"create", "rotate"}
    BY <1>2 DEF Showing
  <2>4. IdOf(r) \in Ids /\ IdOf(r) <= secrets /\ (req[r].kind = "rotate" => IdOf(r) \in touched)
    BY <2>1, <2>2, <2>3, TokensAssumption DEF IdOf, Ids, TokTypeOK, Secrets
  <2>5. promised' = [promised EXCEPT ![req[r].tok.sec] = [id |-> IdOf(r), exp |-> req[r].tok.exp]]
    BY <1>2 DEF Reply, Showing, IdOf
  <2>6. /\ promised'[req[r].tok.sec] = [id |-> IdOf(r), exp |-> req[r].tok.exp]
        /\ \A s \in Secrets : s # req[r].tok.sec => promised'[s] = promised[s]
    BY <2>2, <2>5 DEF TokTypeOK
  <2> QED BY <1>2, <2>1, <2>2, <2>4, <2>6
<1> QED BY <1>1, <1>2

LEMMA ReplyInv ==
    ASSUME TokTypeOK, TokInv, NEW r \in Reqs, Reply(r)
    PROVE  TokInv'
<1> DEFINE q == req[r]
           new == q.tok.sec
<1>1. req'[r] = NoRequest /\ \A p \in Reqs : p # r => req'[p] = req[p]
  BY DEF TokTypeOK, Reply
<1>2. ~Showing(r)' /\ req'[r].pc = "idle" /\ RequestOK(r)'
  BY <1>1, NoRequestFields DEF Showing, RequestOK
<1>3. \A p \in Reqs : p # r => (Showing(p)' <=> Showing(p))
  BY <1>1 DEF Showing
<1>4. /\ ~Showing(r) => promised' = promised
      /\ Showing(r) =>
           /\ new \in Secrets /\ new <= secrets
           /\ promised[new].id = 0
           /\ promised'[new] = [id |-> IdOf(r), exp |-> q.tok.exp]
           /\ IdOf(r) \in Ids /\ IdOf(r) <= secrets
           /\ q.kind = "rotate" => IdOf(r) \in touched
           /\ \A s \in Secrets : s # new => promised'[s] = promised[s]
  BY ReplyShows
<1>5. \A s \in Secrets : promised[s].id # 0 => promised'[s] = promised[s]
  BY <1>4
<1>6. /\ revoked \subseteq revoked'
      /\ \A s \in Secrets : s \in revoked' =>
           \/ s \in revoked
           \/ /\ q.ans = "ok" /\ q.kind \in {"delete", "rotate"}
              /\ promised[s].id = q.id /\ (q.kind = "delete" \/ s < new)
      /\ revoked' \subseteq Secrets
  BY DEF Reply, TokTypeOK
<1>7. UNCHANGED <<tokens, saved, secrets, now, touched>> /\ q.pc = "answer"
  BY DEF Reply
<1>8. \A i \in Ids : i # 0
  BY DEF Ids, Secrets
<1>9. /\ \A p \in Reqs : RequestOK(p)
      /\ ShownOnce
  BY DEF TokInv
<1>10. q \in Request /\ q.id \in Ids
  BY DEF TokTypeOK, Request
<1> HIDE DEF q, new
<1>11. \A p \in Reqs : RequestOK(p)'
  <2> SUFFICES ASSUME NEW p \in Reqs, p # r PROVE RequestOK(p)'
    BY <1>2
  <2>1. req'[p] = req[p] /\ RequestOK(p) /\ (Showing(p)' <=> Showing(p))
    BY <1>1, <1>3, <1>9
  <2>2. req[p].bearer # 0 => promised'[req[p].bearer] = promised[req[p].bearer]
    <3>1. req[p].bearer # 0 => req[p].bearer \in Secrets /\ promised[req[p].bearer].id # 0
      BY <2>1, TokensAssumption DEF RequestOK, TokTypeOK, Request, Secrets
    <3> QED BY <1>5, <3>1
  <2>3. (req[p].bearer # 0 /\ Void(req[p].bearer)) => Void(req[p].bearer)'
    BY <1>6, <1>7, <2>1, <2>2 DEF Void
  <2>4. Showing(p) => promised'[req[p].tok.sec].id = 0
    <3> SUFFICES ASSUME Showing(p) PROVE promised'[req[p].tok.sec].id = 0
      OBVIOUS
    <3>1. promised[req[p].tok.sec].id = 0 /\ req[p].tok.sec \in Secrets
      BY <2>1, TokensAssumption DEF RequestOK, TokTypeOK, Secrets
    <3>2. Showing(r) => req[p].tok.sec # new
      BY <1>9 DEF ShownOnce, new, q
    <3> QED BY <1>4, <3>1, <3>2
  <2> QED BY <1>7, <2>1, <2>2, <2>3, <2>4 DEF RequestOK
<1>12. ShownOnce'
  <2>1. \A s \in Secrets : promised'[s].id # 0 => s <= secrets' /\ promised'[s].id <= secrets'
    BY <1>4, <1>7, <1>9 DEF ShownOnce
  <2>2. \A s \in revoked' : s <= secrets'
    BY <1>6, <1>7, <1>8, <1>9, <1>10 DEF ShownOnce
  <2>3. ASSUME NEW p \in Reqs, NEW u \in Reqs, p # u, Showing(p)', Showing(u)'
        PROVE  req'[p].tok.sec # req'[u].tok.sec
    BY <1>1, <1>2, <1>3, <1>9, <2>3 DEF ShownOnce
  <2> QED BY <2>1, <2>2, <2>3 DEF ShownOnce
<1>13. ASSUME NEW m \in [Ids -> Token], MapOK(m)
       PROVE  /\ \A i \in Ids : TokenOK(m, i)'
              /\ \A p \in Reqs : AnswerOK(m, p)'
              /\ UntouchedOK(m)'
  <2>1. /\ \A i \in Ids : TokenOK(m, i)
        /\ \A p \in Reqs : AnswerOK(m, p)
        /\ UntouchedOK(m)
    BY <1>13 DEF MapOK
  <2>2. ASSUME NEW i \in Ids PROVE TokenOK(m, i)'
    <3> DEFINE s == m[i].sec
    <3>1. TokenOK(m, i) /\ m[i] \in Token
      BY <2>1
    <3>2. s # 0 => s \in Secrets
      BY <3>1 DEF Token, Secrets
    <3>3. s # 0 => s \notin revoked'
      <4> SUFFICES ASSUME s # 0, s \in revoked' PROVE FALSE
        OBVIOUS
      <4>1. s \notin revoked
        BY <3>1 DEF TokenOK
      <4>2. /\ q.ans = "ok" /\ q.kind \in {"delete", "rotate"}
            /\ promised[s].id = q.id /\ (q.kind = "delete" \/ s < new)
        BY <1>6, <3>2, <4>1
      <4>3. i = q.id
        BY <1>8, <1>10, <3>1, <4>2 DEF TokenOK
      <4>4. AnswerOK(m, r)
        BY <2>1
      <4>5. CASE q.kind = "delete"
        BY <1>7, <4>2, <4>3, <4>4, <4>5 DEF AnswerOK, q
      <4>6. CASE q.kind = "rotate"
        <5>1. s = 0 \/ s >= new
          BY <1>7, <4>2, <4>3, <4>4, <4>6 DEF AnswerOK, q, new
        <5>2. new \in Nat /\ s \in Nat /\ s < new
          BY <1>10, <3>2, <4>2, <4>6 DEF new, Request, Token, Secrets
        <5> QED BY <5>1, <5>2
      <4> QED BY <4>2, <4>5, <4>6
    <3>4. (s # 0 /\ promised'[s].id # 0) => promised'[s].id = i /\ promised'[s].exp = m[i].exp
      <4>1. CASE Showing(r) /\ s = new
        <5>1. s # 0 => IdOf(r) = i /\ q.tok.exp = m[i].exp
          BY <3>1, <4>1 DEF TokenOK, new, q
        <5> QED BY <1>4, <4>1, <5>1
      <4>2. CASE ~(Showing(r) /\ s = new)
        BY <1>4, <3>1, <3>2, <4>2 DEF TokenOK
      <4> QED BY <4>1, <4>2
    <3>5. ASSUME NEW p \in Reqs, Showing(p)', req'[p].tok.sec = s, s # 0
          PROVE  IdOf(p)' = i /\ req'[p].tok.exp = m[i].exp
      <4>1. p # r
        BY <1>2, <3>5
      <4> QED BY <1>1, <1>3, <3>1, <3>5, <4>1 DEF TokenOK, IdOf
    <3> QED BY <1>7, <3>1, <3>3, <3>4, <3>5 DEF TokenOK
  <2>3. \A p \in Reqs : AnswerOK(m, p)'
    BY <1>1, <1>2, <1>7, <2>1 DEF AnswerOK
  <2>4. UntouchedOK(m)'
    <3> SUFFICES ASSUME NEW s \in Secrets, promised'[s].id # 0, promised'[s].id \notin touched
                 PROVE  m[promised'[s].id].sec = s
      BY <1>7 DEF UntouchedOK
    <3>1. CASE Showing(r) /\ s = new
      <4>1. promised'[s].id = IdOf(r) /\ q.kind = "create" /\ IdOf(r) = new /\ q.ans = "ok"
        BY <1>4, <3>1 DEF Showing, q, IdOf, new
      <4> QED BY <1>7, <2>1, <3>1, <4>1 DEF AnswerOK, q, new
    <3>2. CASE ~(Showing(r) /\ s = new)
      <4>1. promised'[s] = promised[s]
        BY <1>4, <3>2
      <4> QED BY <2>1, <4>1 DEF UntouchedOK
    <3> QED BY <3>1, <3>2
  <2> QED BY <2>2, <2>3, <2>4
<1>14. MapOK(tokens)'
  <2>1. tokens \in [Ids -> Token] /\ MapOK(tokens)
    BY DEF TokTypeOK, TokInv
  <2> QED BY <1>7, <1>13, <2>1 DEF MapOK, TokenOK, AnswerOK, UntouchedOK
<1>15. MapOK(saved)'
  <2>1. saved \in [Ids -> Token] /\ MapOK(saved)
    BY DEF TokTypeOK, TokInv
  <2> QED BY <1>7, <1>13, <2>1 DEF MapOK, TokenOK, AnswerOK, UntouchedOK
<1> QED BY <1>11, <1>12, <1>14, <1>15 DEF TokInv

LEMMA TickInv ==
    ASSUME TokTypeOK, TokInv, Tick
    PROVE  TokInv'
<1>1. UNCHANGED <<tokens, saved, req, secrets, promised, revoked, touched>>
  BY DEF Tick
<1>2. \A s \in Secrets : Void(s) => Void(s)'
  BY DEF Tick, Void, Expired, TokTypeOK
<1>3. \A r \in Reqs : RequestOK(r)'
  <2> SUFFICES ASSUME NEW r \in Reqs PROVE RequestOK(r)'
    OBVIOUS
  <2>1. RequestOK(r)
    BY DEF TokInv
  <2>2. req[r].bearer # 0 => req[r].bearer \in Secrets
    BY TokensAssumption DEF TokTypeOK, Request, Secrets
  <2>3. req'[r].late => req'[r].bearer # 0 /\ Void(req[r].bearer)'
    BY <1>1, <1>2, <2>1, <2>2 DEF RequestOK, Void
  <2>4. Showing(r)' <=> Showing(r)
    BY <1>1 DEF Showing
  <2> QED BY <1>1, <2>1, <2>3, <2>4 DEF RequestOK
<1>4. ShownOnce' /\ MapOK(tokens)' /\ MapOK(saved)'
  BY <1>1 DEF TokInv, ShownOnce, Showing, MapOK, TokenOK, AnswerOK, UntouchedOK, IdOf
<1> QED BY <1>3, <1>4 DEF TokInv

LEMMA RestartInv ==
    ASSUME TokTypeOK, TokInv, Restart
    PROVE  TokInv'
<1>1. /\ UNCHANGED <<saved, secrets, promised, revoked, touched>> /\ tokens' = saved
      /\ \A r \in Reqs : req'[r] = NoRequest
  BY DEF Restart
<1>2. \A r \in Reqs : RequestOK(r)' /\ ~Showing(r)' /\ req'[r].pc # "answer"
  BY <1>1, NoRequestFields DEF RequestOK, Showing
<1>3. ShownOnce'
  BY <1>1, <1>2 DEF TokInv, ShownOnce
<1>4. MapOK(saved)'
  BY <1>1, <1>2 DEF TokInv, MapOK, TokenOK, AnswerOK, UntouchedOK
<1>5. MapOK(tokens)'
  BY <1>1, <1>4 DEF MapOK, TokenOK, AnswerOK, UntouchedOK
<1> QED BY <1>2, <1>3, <1>4, <1>5 DEF TokInv

LEMMA InvStep ==
    ASSUME TokTypeOK, TokInv, [TokNext]_tokVars
    PROVE  TokInv'
<1>1. CASE UNCHANGED tokVars
  BY <1>1 DEF tokVars, TokInv, RequestOK, Void, ShownOnce, Showing, MapOK, TokenOK, AnswerOK,
              UntouchedOK, IdOf
<1> QED BY <1>1, ArriveInv, WrapInv, MarkInv, CreateInv, DeleteInv, RotateInv, ReplyInv,
           TickInv, RestartInv DEF TokNext

-----------------------------------------------------------------------------
(* What the two properties rest on: the bearer check is right about the tokens in
   memory. *)
LEMMA EnteredInit == TokInit => Entered
BY NoRequestFields DEF TokInit, Entered, NoLateEntry, ShownSecretsWork

(* A request that was let through keeps its secret and its path. *)
LEMMA KeepsEntered ==
    ASSUME TokTypeOK, TokInv, Entered, NEW r \in Reqs, NEW q \in Request,
           req' = [req EXCEPT ![r] = q], Keeps(q, req[r]),
           req[r].pc \in {"mark", "handle"},
           q.ans # "unauthorized",
           UNCHANGED <<conf, now, promised, touched>>
    PROVE  Entered'
<1>1. req'[r] = q /\ \A p \in Reqs : p # r => req'[p] = req[p]
  BY DEF TokTypeOK
<1>2. /\ req[r].ans = "none"
      /\ q.late = req[r].late /\ q.kind = req[r].kind /\ q.path = req[r].path
  BY DEF TokInv, RequestOK, Keeps
<1>3. \A p \in Reqs : Public(p)' <=> Public(p)
  BY <1>1, <1>2 DEF Public
<1>4. NoLateEntry'
  BY <1>1, <1>2, <1>3 DEF Entered, NoLateEntry
<1>5. ShownSecretsWork'
  BY <1>1 DEF Entered, ShownSecretsWork
<1> QED BY <1>4, <1>5 DEF Entered

LEMMA EnteredStep ==
    ASSUME TokTypeOK, TokInv, Entered, [TokNext]_tokVars
    PROVE  Entered'
<1> USE DEF Entered
<1>1. ASSUME NEW r \in Reqs, NEW q \in Request,
             req' = [req EXCEPT ![r] = q],
             q.ans = "none", ~q.late \/ q.pc = "auth",
             conf' = conf, now' = now, touched \subseteq touched',
             \A s \in Secrets : promised[s].id # 0 => promised'[s] = promised[s]
      PROVE  Entered'
  <2>1. req'[r] = q /\ \A p \in Reqs : p # r => req'[p] = req[p]
    BY <1>1 DEF TokTypeOK
  <2>2. \A p \in Reqs : p # r => (Public(p)' <=> Public(p))
    BY <1>1, <2>1 DEF Public
  <2>3. NoLateEntry'
    BY <1>1, <2>1, <2>2 DEF NoLateEntry
  <2>4. ShownSecretsWork'
    <3> SUFFICES ASSUME NEW p \in Reqs, req'[p].ans = "unauthorized", req'[p].bearer # 0
                 PROVE  \/ Expired(promised'[req'[p].bearer].exp, now)
                        \/ promised'[req'[p].bearer].id \in touched'
      BY <1>1 DEF ShownSecretsWork
    <3>1. p # r /\ req'[p] = req[p]
      BY <1>1, <2>1
    <3>2. req[p].bearer \in Secrets /\ promised[req[p].bearer].id # 0
      BY <3>1, TokensAssumption DEF TokInv, RequestOK, TokTypeOK, Request, Secrets
    <3>3. promised'[req[p].bearer] = promised[req[p].bearer]
      BY <1>1, <3>2
    <3> QED BY <1>1, <3>1, <3>3 DEF ShownSecretsWork
  <2> QED BY <2>3, <2>4
<1>2. ASSUME NEW r \in Reqs, Arrive(r) PROVE Entered'
  <2>1. PICK q \in Input :
           /\ req' = [req EXCEPT ![r] = q]
           /\ touched' = IF q.kind \in {"delete", "rotate"} THEN touched \cup {q.id} ELSE touched
    BY <1>2 DEF Arrive
  <2>2. q \in Request /\ q.pc = "auth" /\ q.ans = "none"
    BY InputFields
  <2>3. touched \subseteq touched'
    BY <2>1
  <2> QED BY <1>1, <1>2, <2>1, <2>2, <2>3 DEF Arrive
<1>3. ASSUME NEW r \in Reqs, Wrap(r) PROVE Entered'
  <2>1. PICK q \in Request :
           /\ req' = [req EXCEPT ![r] = q]
           /\ Keeps(q, req[r])
           /\ \/ Public(r) /\ q.ans \in {req[r].ans, "ok", "notFound"}
              \/ /\ ~Public(r) /\ q.pc = "mark" /\ q.ans = req[r].ans
                 /\ req[r].bearer # 0
                 /\ \E i \in Ids : tokens[i].sec = req[r].bearer /\ ~Expired(tokens[i].exp, now)
              \/ /\ ~Public(r) /\ q.pc = "answer" /\ q.ans = "unauthorized"
                 /\ \A i \in Ids : (req[r].bearer # 0 /\ tokens[i].sec = req[r].bearer)
                                  => Expired(tokens[i].exp, now)
    BY <1>3, WrapCases
  <2>2. /\ req[r].ans = "none"
        /\ UNCHANGED <<conf, now, promised, touched>>
    BY <1>3 DEF Wrap, TokInv, RequestOK
  <2>3. req'[r] = q /\ \A p \in Reqs : p # r => req'[p] = req[p]
    BY <2>1 DEF TokTypeOK
  <2>4. /\ q.late = req[r].late /\ q.kind = req[r].kind /\ q.path = req[r].path
        /\ q.bearer = req[r].bearer
    BY <2>1 DEF Keeps
  <2>5. \A p \in Reqs : Public(p)' <=> Public(p)
    BY <2>2, <2>3, <2>4 DEF Public
  <2>6. req[r].bearer # 0 => req[r].bearer \in Secrets /\ promised[req[r].bearer].id \in Ids
    BY TokensAssumption DEF TokInv, RequestOK, TokTypeOK, Request, Secrets
  <2>7. (req[r].late /\ ~Public(r)) => q.ans = "unauthorized"
    <3> SUFFICES ASSUME req[r].late, NEW i \in Ids,
                        tokens[i].sec = req[r].bearer, ~Expired(tokens[i].exp, now)
                 PROVE  FALSE
      BY <2>1
    <3>1. RequestOK(r) /\ TokenOK(tokens, i)
      BY DEF TokInv, MapOK
    <3>2. /\ req[r].bearer # 0 /\ Void(req[r].bearer) /\ promised[req[r].bearer].id # 0
      BY <3>1 DEF RequestOK
    <3>3. req[r].bearer \notin revoked /\ promised[req[r].bearer].exp = tokens[i].exp
      BY <3>1, <3>2 DEF TokenOK
    <3> QED BY <3>2, <3>3 DEF Void
  <2>8. (q.ans = "unauthorized" /\ req[r].bearer # 0) =>
            \/ Expired(promised[req[r].bearer].exp, now)
            \/ promised[req[r].bearer].id \in touched
    <3> SUFFICES ASSUME q.ans = "unauthorized", req[r].bearer # 0,
                        promised[req[r].bearer].id \notin touched
                 PROVE  Expired(promised[req[r].bearer].exp, now)
      OBVIOUS
    <3> DEFINE i == promised[req[r].bearer].id
    <3>1. i # 0 /\ i \in Ids
      BY <2>6 DEF TokInv, RequestOK
    <3>2. tokens[i].sec = req[r].bearer
      BY <2>6, <3>1 DEF TokInv, MapOK, UntouchedOK
    <3>3. promised[req[r].bearer].exp = tokens[i].exp
      BY <3>1, <3>2 DEF TokInv, MapOK, TokenOK
    <3>4. Expired(tokens[i].exp, now)
      BY <2>1, <2>2, <3>1, <3>2
    <3> QED BY <3>3, <3>4
  <2>9. NoLateEntry'
    BY <2>3, <2>4, <2>5, <2>7 DEF NoLateEntry
  <2>10. ShownSecretsWork'
    BY <2>2, <2>3, <2>4, <2>8 DEF ShownSecretsWork
  <2> QED BY <2>9, <2>10
<1>4. ASSUME NEW r \in Reqs, NEW a \in Answer \ {"unauthorized"}, NEW t \in Token,
             req[r].pc \in {"mark", "handle"},
             req' = [req EXCEPT ![r] = Answered(r, a, t)],
             UNCHANGED <<conf, now, promised, touched>>
      PROVE  Entered'
  <2> DEFINE q == Answered(r, a, t)
  <2>1. q \in Request /\ Keeps(q, req[r]) /\ q.ans # "unauthorized"
    BY AnsweredFields
  <2> HIDE DEF q
  <2>2. req' = [req EXCEPT ![r] = q]
    BY <1>4 DEF q
  <2> QED BY <1>4, <2>1, <2>2, KeepsEntered
<1>5. {"ok", "error", "notFound"} \subseteq Answer \ {"unauthorized"}
  BY DEF Answer
<1>6. ASSUME NEW r \in Reqs, MarkTokenUsed(r) PROVE Entered'
  <2> DEFINE q == Routed(r)
  <2>1. req[r].pc = "mark" /\ req[r].ans = "none"
    BY <1>6 DEF MarkTokenUsed, TokInv, RequestOK
  <2>2. q \in Request /\ Keeps(q, req[r]) /\ q.ans # "unauthorized"
    BY <2>1, RoutedFields
  <2>3. req' = [req EXCEPT ![r] = q]
    BY <1>6 DEF MarkTokenUsed, Save
  <2> HIDE DEF q
  <2> QED BY <1>6, <2>1, <2>2, <2>3, KeepsEntered DEF MarkTokenUsed
<1>7. ASSUME NEW r \in Reqs, CreateToken(r) PROVE Entered'
  <2> DEFINE t == [sec |-> secrets + 1, exp |-> ExpiresAt(req[r].in)]
  <2>1. t \in Token
    BY <1>7, NewTokenType DEF CreateToken
  <2>2. \/ req' = [req EXCEPT ![r] = Answered(r, "ok", t)]
        \/ req' = [req EXCEPT ![r] = Answered(r, "error", NoToken)]
    BY <1>7 DEF CreateToken, Save
  <2> HIDE DEF t
  <2> QED BY <1>4, <1>5, <1>7, <2>1, <2>2, NoTokenType DEF CreateToken
<1>8. ASSUME NEW r \in Reqs, DeleteToken(r) PROVE Entered'
  <2>1. \/ req' = [req EXCEPT ![r] = Answered(r, "ok", NoToken)]
        \/ req' = [req EXCEPT ![r] = Answered(r, "error", NoToken)]
        \/ req' = [req EXCEPT ![r] = Answered(r, "notFound", NoToken)]
    BY <1>8 DEF DeleteToken, Save
  <2> QED BY <1>4, <1>5, <1>8, <2>1, NoTokenType DEF DeleteToken
<1>9. ASSUME NEW r \in Reqs, RotateToken(r) PROVE Entered'
  <2> DEFINE t == [sec |-> secrets + 1, exp |-> ExpiresAt(req[r].in)]
  <2>1. t \in Token
    BY <1>9, NewTokenType DEF RotateToken
  <2>2. \/ req' = [req EXCEPT ![r] = Answered(r, "ok", t)]
        \/ req' = [req EXCEPT ![r] = Answered(r, "notFound", NoToken)]
    BY <1>9 DEF RotateToken, Save
  <2> HIDE DEF t
  <2> QED BY <1>4, <1>5, <1>9, <2>1, <2>2, NoTokenType DEF RotateToken
<1>10. ASSUME NEW r \in Reqs, Reply(r) PROVE Entered'
  <2>1. \A s \in Secrets : promised[s].id # 0 => promised'[s] = promised[s]
    BY <1>10, ReplyShows
  <2>2. NoRequest \in Request /\ NoRequest.ans = "none" /\ ~NoRequest.late
    BY NoRequestType, NoRequestFields
  <2> QED BY <1>1, <1>10, <2>1, <2>2 DEF Reply
<1>11. CASE Tick
  <2>1. \A p \in Reqs : Public(p)' <=> Public(p)
    BY <1>11 DEF Tick, Public
  <2>2. UNCHANGED <<req, promised, touched>> /\ now \in Nat /\ now' = now + 1
    BY <1>11, TokensAssumption DEF Tick, TokTypeOK
  <2>3. NoLateEntry'
    BY <2>1, <2>2 DEF NoLateEntry
  <2>4. \A s \in Secrets : Expired(promised[s].exp, now) => Expired(promised[s].exp, now + 1)
    BY <2>2, TokensAssumption DEF TokTypeOK, Expired
  <2>5. \A p \in Reqs : req[p].bearer # 0 => req[p].bearer \in Secrets
    BY TokensAssumption DEF TokTypeOK, Request, Secrets
  <2>6. ShownSecretsWork'
    BY <2>2, <2>4, <2>5 DEF ShownSecretsWork
  <2> QED BY <2>3, <2>6
<1>12. CASE Restart
  BY <1>12, NoRequestFields DEF Restart, NoLateEntry, ShownSecretsWork
<1>13. CASE UNCHANGED tokVars
  <2>1. \A p \in Reqs : Public(p)' <=> Public(p)
    BY <1>13 DEF tokVars, Public
  <2> QED BY <1>13, <2>1 DEF tokVars, NoLateEntry, ShownSecretsWork
<1> QED BY <1>2, <1>3, <1>6, <1>7, <1>8, <1>9, <1>10, <1>11, <1>12, <1>13 DEF TokNext

-----------------------------------------------------------------------------
(* Every state of the API server's tokens has its type: no request, secret or
   token out of the ranges that the handlers of internal/server make. *)
THEOREM TokensTyped == TokSpec => []TokTypeOK
<1>1. TokInit => TokTypeOK
  BY TokensTypeInit
<1>2. TokTypeOK /\ [TokNext]_tokVars => TokTypeOK'
  BY TokensTypeStep
<1> QED BY <1>1, <1>2, PTL DEF TokSpec

(* The inductive invariant of the tokens, in memory and in the backend: a revoked
   secret is in neither, a secret that was answered is at its token with the
   expiration that was answered, unless somebody asks to change the token. *)
THEOREM TokensInv == TokSpec => [](TokTypeOK /\ TokInv)
<1>1. TokInit => TokTypeOK /\ TokInv
  BY TokensTypeInit, InvInit
<1>2. (TokTypeOK /\ TokInv) /\ [TokNext]_tokVars => (TokTypeOK /\ TokInv)'
  BY TokensTypeStep, InvStep
<1> QED BY <1>1, <1>2, PTL DEF TokSpec

LEMMA EnteredAlways == TokSpec => []Entered
<1>1. TokInit => Entered
  BY EnteredInit
<1>2. (TokTypeOK /\ TokInv) /\ Entered /\ [TokNext]_tokVars => Entered'
  BY EnteredStep
<1> QED BY <1>1, <1>2, TokensInv, PTL DEF TokSpec

(* authMiddleware.Wrap lets no request through whose secret was revoked, rotated or
   expired when the request was sent: for every number of goroutines, tokens, saves
   that fail and restarts. *)
THEOREM LateRequestsStayOut == TokSpec => []NoLateEntry
<1>1. Entered => NoLateEntry
  BY DEF Entered
<1> QED BY <1>1, EnteredAlways, PTL

(* A secret that handleCreateToken or handleRotateToken answered is accepted until
   it expires or somebody asks to delete or rotate its token. *)
THEOREM AnsweredSecretsAreAccepted == TokSpec => []ShownSecretsWork
<1>1. Entered => ShownSecretsWork
  BY DEF Entered
<1> QED BY <1>1, EnteredAlways, PTL
=============================================================================
