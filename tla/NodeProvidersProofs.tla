------------------------ MODULE NodeProvidersProofs ------------------------
(***************************************************************************)
(* Proofs about NodeProviders: launches are whole, records are true and    *)
(* other clusters are untouched, for every number of names, calls, nodes,  *)
(* retries and faults.                                                     *)
(***************************************************************************)
EXTENDS NodeProviders, FiniteSetTheorems, TLAPS

(* A piece of a name: a text and a number. *)
Piece == (STRING \cup {"-head", "-worker"}) \X Nat

NodeId == (Names \cup {"home", "away"}) \X Seq(Piece)

Node == [state : {"pending", "running", "stopped", "failed", "deleting"},
         by : Calls, head : BOOLEAN]

Call == [op : Op \cup {"none"}, name : Names \cup {None}, num : Sizes \cup {0},
         pc : {"idle", "stale", "create", "wait", "ip", "cleanup", "each", "done"},
         i : Nat, try : Nat, head : BOOLEAN, ids : Seq(Seq(Piece)),
         of : Calls \cup {None}, res : {"none", "ok", "error", "timeout"}]

(* The states of the nodes of each provider. *)
States == IF cfg.kind = "kubernetes" THEN {"pending", "running", "failed", "deleting"}
                                     ELSE {"pending", "running", "stopped"}

TypeInv ==
    /\ TypeOK
    /\ DOMAIN vm \subseteq NodeId
    /\ vm \in [DOMAIN vm -> Node]
    /\ call \in [Calls -> Call]

(* What Init says of the provider. *)
CfgOK ==
    /\ cfg.long => cfg.kind = "kubernetes"
    /\ cfg.away => cfg.kind # "azure"

Launching == {"stale", "create", "wait", "ip"}

(* The ids of p are those of the first nodes of its launch; it has len of them. *)
Made(p, len) ==
    /\ Len(call[p].ids) = len
    /\ \A j \in 1..len : call[p].ids[j] = NodeName(call[p].name, call[p].num, j - 1)

(* The names that nodes of a cluster may have. *)
NamesOf(n) == UNION {{NodeName(n, num, i) : i \in Nat} : num \in Sizes}

(* A launch whose instances may be on record. *)
Launched(p, n) ==
    /\ p \in Calls
    /\ call[p].op = "launch" /\ call[p].pc = "done" /\ call[p].res = "ok"
    /\ call[p].name = n

(* Where each call is. *)
CallOK(p) ==
    LET c == call[p]
    IN  /\ c.pc = "idle" => c = NoCall
        /\ c.pc # "idle" => c.name \in Names /\ c.op \in Op
        /\ c.res # "none" <=> c.pc = "done"
        /\ c.pc \in Launching \cup {"cleanup"} => c.op = "launch"
        /\ c.pc \in {"stale", "wait", "ip", "cleanup"} => cfg.kind = "kubernetes"
        /\ c.res = "timeout" => c.op = "launch" /\ cfg.kind = "kubernetes" /\ c.ids = <<>>
        /\ c.op = "launch" => c.num \in Sizes
        /\ \A j \in DOMAIN c.ids : c.ids[j] \in NamesOf(c.name)
        /\ c.pc \in {"stale", "create"} => Made(p, c.i)
        /\ c.pc \in {"wait", "ip"} => Made(p, c.i + 1)
        /\ (c.op = "launch" /\ c.res = "ok") => Made(p, c.num)
        /\ (c.op # "launch" /\ c.res = "ok") => c.ids = <<>>
        /\ c.pc \in Launching => c.i < c.num /\ c.try < Retries
        /\ c.pc = "ip" => c.i = 0 /\ c.num > 1
        /\ (c.pc \in Launching /\ c.i > 0 /\ cfg.kind = "kubernetes") => c.head
        /\ c.pc = "each" => c.op # "launch"
        /\ (c.pc = "each" \/ (c.op = "terminate" /\ c.res = "ok")) => Launched(c.of, c.name)

(* A launch that is cleaning up, or did, may have left nodes when a delete failed. *)
GaveUp(p) == faults > 0 /\ (call[p].pc = "cleanup" \/ call[p].res = "timeout")

Has(ids, id) == \E j \in DOMAIN ids : ids[j] = id

(* Each node is where its launch put it, under its name, and in its list. *)
NodeOK(id) ==
    /\ call[vm[id].by].op = "launch"
    /\ id[1] = LaunchPlace(call[vm[id].by].name)
    /\ id[2] \in NamesOf(call[vm[id].by].name)
    /\ vm[id].state \in States
    /\ vm[id].head
    /\ ~GaveUp(vm[id].by) => Has(call[vm[id].by].ids, id[2])

(* The terminate p still has before it the nodes that are left. *)
TerminateOK(p) ==
    (call[p].op = "terminate" /\ (call[p].pc = "each" \/ call[p].res = "ok")
       /\ (cfg.kind # "gcp" => InReach(call[p].of))) =>
        \A id \in DOMAIN vm : vm[id].by = call[p].of => Has(call[p].ids, id[2])

RecOK == \A n \in Names : rec[n] # None => Launched(rec[n], n)

(* gcp and azure never get beyond a second worker: the first has its name. *)
Narrow(p) ==
    call[p].num > 2 =>
        /\ call[p].op = "launch" => call[p].res # "ok"
        /\ call[p].pc = "create" => call[p].i <= 2
        /\ (call[p].pc = "create" /\ call[p].i = 2) =>
              <<LaunchPlace(call[p].name), VmName(call[p].name, call[p].num, 1)>> \in DOMAIN vm

NarrowOK == (cfg.kind # "kubernetes" /\ NoTerminate) => \A p \in Calls : Narrow(p)

NodeInv ==
    /\ CfgOK
    /\ \A p \in Calls : CallOK(p) /\ TerminateOK(p)
    /\ \A id \in DOMAIN vm : NodeOK(id)
    /\ RecOK
    /\ NarrowOK

Inv == TypeInv /\ NodeInv

-----------------------------------------------------------------------------
(* What all steps of a call have in common *)

(* Only p goes on, and the faults are counted. *)
Frame(p) ==
    /\ cfg' = cfg
    /\ call[p].pc # "done"
    /\ call[p].op = "terminate" => call'[p].op = "terminate"
    /\ call' \in [Calls -> Call]
    /\ \A q \in Calls : q # p => call'[q] = call[q]
    /\ faults' \in 0..MaxFaults /\ faults <= faults'

(* No node is new, and what is left is still what its launch made. *)
NoneNew ==
    /\ vm' \in [DOMAIN vm' -> Node]
    /\ \A id \in DOMAIN vm' :
         /\ id \in DOMAIN vm
         /\ vm'[id].by = vm[id].by
         /\ vm'[id].head = vm[id].head
         /\ vm'[id].state \in States

(* gcp and azure delete nothing without a terminate. *)
Stays == (cfg.kind # "kubernetes" /\ NoTerminate') => DOMAIN vm \subseteq DOMAIN vm'

(* Names and places depend on the configuration alone. *)
LEMMA NamesFixed ==
    ASSUME cfg' = cfg
    PROVE  /\ \A n, num, i : NodeName(n, num, i)' = NodeName(n, num, i)
           /\ \A n, num, i : VmName(n, num, i)' = VmName(n, num, i)
           /\ \A n : NamesOf(n)' = NamesOf(n)
           /\ \A n : LaunchPlace(n)' = LaunchPlace(n)
           /\ States' = States
<1>1. \A n, num, i : NodeName(n, num, i)' = NodeName(n, num, i)
  BY DEF NodeName, PodName, VmName, truncateName, Suffix
<1>2. \A n, num, i : VmName(n, num, i)' = VmName(n, num, i)
  BY DEF VmName, Suffix
<1>3. \A n : NamesOf(n)' = NamesOf(n)
  BY <1>1 DEF NamesOf
<1>4. \A n : LaunchPlace(n)' = LaunchPlace(n)
  BY DEF LaunchPlace
<1> QED BY <1>1, <1>2, <1>3, <1>4 DEF States

(* Finished launches are left alone. *)
LEMMA LaunchedStays ==
    ASSUME NEW p \in Calls, Frame(p), NEW x, NEW n, Launched(x, n)
    PROVE  x \in Calls /\ x # p /\ call'[x] = call[x]
BY DEF Frame, Launched

LEMMA OthersOK ==
    ASSUME NEW p \in Calls, Frame(p), NEW q \in Calls, q # p, CallOK(q)
    PROVE  CallOK(q)'
<1>1. call'[q] = call[q] /\ cfg' = cfg
  BY DEF Frame
<1>2. \A len : Made(q, len)' <=> Made(q, len)
  BY <1>1, NamesFixed DEF Made
<1>3. \A n : NamesOf(n)' = NamesOf(n)
  BY <1>1, NamesFixed
<1>4. \A x, n : Launched(x, n) => call'[x] = call[x]
  BY LaunchedStays
<1>5. \A x, n : Launched(x, n) => Launched(x, n)'
  BY <1>4 DEF Launched
<1> QED BY <1>1, <1>2, <1>3, <1>5 DEF CallOK

(* The nodes of other calls, and those of p that its list still has. *)
LEMMA NodesOK ==
    ASSUME NEW p \in Calls, Frame(p), Inv, NoneNew,
           \A id \in DOMAIN vm' : vm'[id].by = p =>
               /\ call'[p].op = "launch"
               /\ call'[p].name = call[p].name
               /\ ~GaveUp(p)' => Has(call'[p].ids, id[2])
    PROVE  \A id \in DOMAIN vm' : NodeOK(id)'
<1> SUFFICES ASSUME NEW id \in DOMAIN vm' PROVE NodeOK(id)'
  OBVIOUS
<1>1. id \in DOMAIN vm /\ NodeOK(id) /\ vm'[id].by = vm[id].by /\ vm[id].by \in Calls
  BY DEF NoneNew, Inv, NodeInv, TypeInv, Node
<1>2. cfg' = cfg
  BY DEF Frame
<1>3. States' = States /\ (\A n : LaunchPlace(n)' = LaunchPlace(n) /\ NamesOf(n)' = NamesOf(n))
  BY <1>2, NamesFixed
<1>4. vm'[id].head = vm[id].head /\ vm'[id].state \in States
  BY DEF NoneNew
<1>5. CASE vm[id].by = p
  BY <1>1, <1>3, <1>4, <1>5 DEF NodeOK
<1>6. CASE vm[id].by # p
  <2>1. call'[vm[id].by] = call[vm[id].by]
    BY <1>1, <1>6 DEF Frame
  <2>2. \A q \in Calls : q # p => (~GaveUp(q)' => ~GaveUp(q))
    <3>1. faults \in Nat /\ faults' \in Nat /\ faults <= faults'
      BY NodeProvidersAssumption DEF Frame, Inv, TypeInv, TypeOK
    <3> QED BY <3>1 DEF GaveUp, Frame
  <2> QED BY <1>1, <1>3, <1>4, <1>6, <2>1, <2>2 DEF NodeOK
<1> QED BY <1>5, <1>6

(* What terminates have before them, when nodes are new only by p. *)
LEMMA TerminatesOK ==
    ASSUME NEW p \in Calls, Frame(p), Inv,
           \A id \in DOMAIN vm' : vm'[id].by # p => id \in DOMAIN vm /\ vm'[id].by = vm[id].by,
           NEW q \in Calls, q # p
    PROVE  TerminateOK(q)'
<1>1. call'[q] = call[q] /\ cfg' = cfg
  BY DEF Frame
<1> SUFFICES ASSUME call[q].op = "terminate", call[q].pc = "each" \/ call[q].res = "ok",
                    (cfg.kind # "gcp" => InReach(call[q].of))',
                    NEW id \in DOMAIN vm', vm'[id].by = call[q].of
             PROVE  Has(call[q].ids, id[2])
  BY <1>1 DEF TerminateOK
<1>2. Launched(call[q].of, call[q].name)
  BY <1>1 DEF Inv, NodeInv, CallOK
<1>3. call[q].of # p /\ call'[call[q].of] = call[call[q].of]
  BY <1>2, LaunchedStays
<1>4. TerminateOK(q) /\ id \in DOMAIN vm /\ vm[id].by = call[q].of
  BY <1>1, <1>3 DEF Inv, NodeInv
<1>5. cfg.kind # "gcp" => InReach(call[q].of)
  BY <1>1, <1>3 DEF InReach
<1> QED BY <1>1, <1>4, <1>5 DEF TerminateOK

LEMMA RecordsOK ==
    ASSUME NEW p \in Calls, Frame(p), Inv, rec' = rec
    PROVE  RecOK'
<1> SUFFICES ASSUME NEW n \in Names, rec[n] # None
             PROVE  Launched(rec[n], n)'
  BY DEF RecOK
<1>1. Launched(rec[n], n) /\ call'[rec[n]] = call[rec[n]]
  BY LaunchedStays DEF RecOK, Inv, NodeInv
<1> QED BY <1>1 DEF Launched

(* Calls other than p do not get further on gcp and azure. *)
LEMMA StaysNarrow ==
    ASSUME NEW p \in Calls, Frame(p), Inv, Stays,
           (cfg.kind # "kubernetes" /\ NoTerminate') => Narrow(p)'
    PROVE  NarrowOK'
<1> SUFFICES ASSUME cfg.kind # "kubernetes", NoTerminate', NEW q \in Calls
             PROVE  Narrow(q)'
  BY DEF NarrowOK, Frame
<1>1. CASE q = p
  BY <1>1
<1>2. CASE q # p
  <2>1. NoTerminate
    BY DEF NoTerminate, Frame
  <2>2. call'[q] = call[q] /\ cfg' = cfg
    BY <1>2 DEF Frame
  <2> QED BY <2>1, <2>2, NamesFixed DEF Inv, NodeInv, NarrowOK, Narrow, Stays
<1> QED BY <1>1, <1>2

LEMMA TypesOK ==
    ASSUME NEW p \in Calls, Frame(p), Inv,
           vm' \in [DOMAIN vm' -> Node], DOMAIN vm' \subseteq NodeId,
           rec' \in [Names -> Calls \cup {None}],
           call'[p].i <= call'[p].num, call'[p].try <= Retries
    PROVE  TypeInv'
<1>1. cfg' = cfg /\ Retries \in Nat /\ Sizes \subseteq Nat
  BY NodeProvidersAssumption DEF Frame, Inv, TypeInv, TypeOK
<1>2. \A id \in DOMAIN vm' : vm'[id] \in Node
  OBVIOUS
<1>3. ASSUME NEW q \in Calls
      PROVE  /\ call'[q].op \in Op \cup {"none"}
             /\ call'[q].pc \in {"idle", "stale", "create", "wait", "ip", "cleanup",
                                 "each", "done"}
             /\ call'[q].num \in Sizes \cup {0}
             /\ call'[q].i \in 0..call'[q].num
             /\ call'[q].try \in 0..Retries
             /\ call'[q].res \in {"none", "ok", "error", "timeout"}
  <2>1. call'[q] \in Call
    BY DEF Frame
  <2>2. call'[q].i <= call'[q].num /\ call'[q].try <= Retries
    <3>1. CASE q = p
      BY <3>1
    <3>2. CASE q # p
      BY <3>2 DEF Frame, Inv, TypeInv, TypeOK
    <3> QED BY <3>1, <3>2
  <2> QED BY <1>1, <2>1, <2>2 DEF Call
<1> QED BY <1>1, <1>2, <1>3 DEF Frame, Inv, TypeInv, TypeOK, Node

(* What a step of p has to show for itself. *)
LEMMA StepOK ==
    ASSUME NEW p \in Calls, Frame(p), Inv,
           vm' \in [DOMAIN vm' -> Node], DOMAIN vm' \subseteq NodeId,
           \A id \in DOMAIN vm' : vm'[id].by # p => id \in DOMAIN vm /\ vm'[id].by = vm[id].by,
           rec' \in [Names -> Calls \cup {None}],
           call'[p].i <= call'[p].num, call'[p].try <= Retries,
           CallOK(p)', TerminateOK(p)',
           \A id \in DOMAIN vm' : NodeOK(id)',
           RecOK', NarrowOK'
    PROVE  Inv'
<1>1. TypeInv'
  BY TypesOK
<1>2. CfgOK'
  BY DEF Frame, CfgOK, Inv, NodeInv
<1>3. \A q \in Calls : CallOK(q)'
  BY OthersOK DEF Inv, NodeInv
<1>4. \A q \in Calls : TerminateOK(q)'
  BY TerminatesOK
<1> QED BY <1>1, <1>2, <1>3, <1>4 DEF Inv, NodeInv

LEMMA NumType ==
    Inv => /\ Retries \in Nat \ {0} /\ faults \in Nat
           /\ \A q \in Calls : call[q] \in Call /\ call[q].num \in Nat
<1> SUFFICES ASSUME Inv PROVE /\ Retries \in Nat \ {0} /\ faults \in Nat
                              /\ \A q \in Calls : call[q] \in Call /\ call[q].num \in Nat
  OBVIOUS
<1>1. \A q \in Calls : call[q] \in Call
  BY DEF Inv, TypeInv
<1>2. \A q \in Calls : call[q].num \in Sizes \cup {0}
  BY <1>1 DEF Call
<1> QED BY <1>1, <1>2, NodeProvidersAssumption DEF Inv, TypeInv, TypeOK

LEMMA NoCallType == NoCall \in Call
<1>1. <<>> \in Seq(Seq(Piece))
  OBVIOUS
<1> QED BY <1>1 DEF NoCall, Call

-----------------------------------------------------------------------------
(* The caller *)

LEMMA BeginLaunchInv ==
    ASSUME Inv, NEW p \in Calls, NEW n \in Names, NEW num \in Sizes, BeginLaunch(p, n, num)
    PROVE  Inv'
<1> DEFINE c == call'[p]
           first == IF cfg.kind = "kubernetes" THEN "stale" ELSE "create"
           begun == [NoCall EXCEPT !.op = "launch", !.name = n, !.num = num, !.pc = first]
<1>1. call[p].pc = "idle" /\ call[p] = NoCall /\ UNCHANGED <<cfg, vm, rec, faults>>
  BY DEF BeginLaunch, Inv, NodeInv, CallOK
<1>2. num \in Nat \ {0}
  BY NodeProvidersAssumption
<1>3. begun \in Call
  <2>1. first \in {"stale", "create"}
    OBVIOUS
  <2> HIDE DEF first
  <2> QED BY <2>1, NoCallType DEF Call, Op
<1>4. /\ call' \in [Calls -> Call]
      /\ \A q \in Calls : q # p => call'[q] = call[q]
      /\ c = begun
  BY <1>3 DEF BeginLaunch, Inv, TypeInv
<1>5. /\ c.op = "launch" /\ c.name = n /\ c.num = num /\ c.i = 0 /\ c.try = 0
      /\ c.pc = first /\ c.ids = <<>> /\ c.res = "none"
  BY <1>4 DEF NoCall
<1>6. Frame(p)
  BY <1>1, <1>4, NumType DEF Frame, Inv, TypeInv, TypeOK, NoCall
<1>7. CallOK(p)'
  <2>1. c.i < c.num /\ c.try < Retries
    BY <1>2, <1>5, NumType
  <2>2. Made(p, 0)'
    BY <1>5 DEF Made
  <2> QED BY <1>1, <1>5, <2>1, <2>2 DEF CallOK, Launching, Op
<1>8. TerminateOK(p)'
  BY <1>5 DEF TerminateOK
<1>9. \A id \in DOMAIN vm' : NodeOK(id)'
  <2>1. \A id \in DOMAIN vm : vm[id].by # p
    BY <1>1 DEF Inv, NodeInv, NodeOK, NoCall
  <2>2. NoneNew
    BY <1>1 DEF NoneNew, Inv, TypeInv, NodeInv, NodeOK
  <2>3. \A id \in DOMAIN vm' : vm'[id].by # p
    BY <1>1, <2>1
  <2> QED BY <1>6, <2>2, <2>3, NodesOK
<1>10. NarrowOK'
  <2>1. c.res # "ok" /\ c.i <= 2 /\ c.i # 2
    BY <1>5
  <2>2. Narrow(p)' /\ Stays
    BY <1>1, <2>1 DEF Narrow, Stays
  <2> QED BY <1>6, <2>2, StaysNarrow
<1>11. RecOK'
  BY <1>1, <1>6, RecordsOK
<1> HIDE DEF c
<1> QED BY <1>1, <1>2, <1>5, <1>6, <1>7, <1>8, <1>9, <1>10, <1>11, StepOK, NumType
        DEF c, Inv, TypeInv, TypeOK

LEMMA BeginInv ==
    ASSUME Inv, NEW p \in Calls, NEW o \in Op, NEW n \in Names, Begin(p, o, n)
    PROVE  Inv'
<1> DEFINE c == call'[p]
           q == rec[n]
           refused == [NoCall EXCEPT !.op = o, !.name = n, !.pc = "done", !.res = "error"]
           begun == [NoCall EXCEPT !.op = o, !.name = n, !.pc = "each", !.of = q,
                                   !.ids = call[q].ids]
<1>1. call[p].pc = "idle" /\ call[p] = NoCall /\ UNCHANGED <<cfg, vm, rec, faults>> /\ o # "launch"
  BY DEF Begin, Inv, NodeInv, CallOK
<1>2. q \in Calls /\ Launched(q, n) /\ q # p /\ CallOK(q) /\ call[q] \in Call
  BY <1>1 DEF Begin, Launched, Inv, NodeInv, RecOK, TypeInv, NoCall
<1>3. refused \in Call
  BY NoCallType DEF Call, Op
<1>4. begun \in Call
  <2>1. call[q].ids \in Seq(Seq(Piece))
    BY <1>2 DEF Call
  <2>2. \A ids \in Seq(Seq(Piece)), x \in Calls :
            [NoCall EXCEPT !.op = o, !.name = n, !.pc = "each", !.of = x, !.ids = ids] \in Call
    BY NoCallType DEF Call, Op
  <2> HIDE DEF q
  <2> QED BY <1>2, <2>1, <2>2, Zenon
<1>5. /\ call' \in [Calls -> Call]
      /\ \A x \in Calls : x # p => call'[x] = call[x]
      /\ \/ cfg.kind = "kubernetes" /\ o \in {"stop", "start"} /\ c = refused
         \/ c = begun
  <2>1. \/ /\ cfg.kind = "kubernetes" /\ o \in {"stop", "start"}
           /\ call' = [call EXCEPT ![p] = refused]
        \/ call' = [call EXCEPT ![p] = begun]
    BY DEF Begin
  <2> HIDE DEF begun, refused
  <2> QED BY <1>3, <1>4, <2>1 DEF Inv, TypeInv
<1>6. /\ c.op = o /\ c.name = n /\ c.num = 0 /\ c.i = 0 /\ c.try = 0
      /\ \/ /\ cfg.kind = "kubernetes" /\ o \in {"stop", "start"}
            /\ c.pc = "done" /\ c.res = "error" /\ c.ids = <<>>
         \/ c.pc = "each" /\ c.res = "none" /\ c.of = q /\ c.ids = call[q].ids
  BY <1>5 DEF NoCall
<1>7. Frame(p)
  BY <1>1, <1>5, NumType DEF Frame, Inv, TypeInv, TypeOK, NoCall
<1> HIDE DEF c
<1>8. CallOK(p)'
  <2>1. \A m : NamesOf(m)' = NamesOf(m)
    BY <1>1, NamesFixed
  <2>2. \A j \in DOMAIN call[q].ids : call[q].ids[j] \in NamesOf(n)
    BY <1>2 DEF CallOK, Launched
  <2>3. Launched(q, n)'
    BY <1>1, <1>2, <1>5 DEF Launched
  <2> QED BY <1>1, <1>2, <1>6, <2>1, <2>2, <2>3 DEF CallOK, Launching, Op, c
<1>9. TerminateOK(p)'
  <2>1. \A id \in DOMAIN vm : vm[id].by = q => Has(call[q].ids, id[2])
    BY <1>2 DEF Inv, NodeInv, NodeOK, GaveUp, Launched
  <2> QED BY <1>1, <1>6, <2>1 DEF TerminateOK, c
<1>10. \A id \in DOMAIN vm' : NodeOK(id)'
  <2>1. \A id \in DOMAIN vm : vm[id].by # p
    BY <1>1 DEF Inv, NodeInv, NodeOK, NoCall
  <2>2. NoneNew
    BY <1>1 DEF NoneNew, Inv, TypeInv, NodeInv, NodeOK
  <2> QED BY <1>1, <1>7, <2>1, <2>2, NodesOK
<1>11. NarrowOK'
  BY <1>1, <1>6, <1>7, StaysNarrow DEF Stays, Narrow, c
<1>12. RecOK'
  BY <1>1, <1>7, RecordsOK
<1> QED BY <1>1, <1>6, <1>7, <1>8, <1>9, <1>10, <1>11, <1>12, StepOK, NumType
        DEF c, Inv, TypeInv, TypeOK

-----------------------------------------------------------------------------
(* Launches *)

(* Names are sequences, and what is added to one. *)
LEMMA NameSeq ==
    ASSUME NEW n \in Names, NEW num, NEW i \in Nat, NEW w \in Nat
    PROVE  n \in Seq(Piece) /\ Suffix(num, i, w) \in Seq(Piece)
<1>1. n \in Seq(STRING \X Nat)
  BY NodeProvidersAssumption
<1>2. STRING \X Nat \subseteq Piece
  BY DEF Piece
<1>3. n \in Seq(Piece)
  BY <1>1, <1>2
<1>4. <<"-head", 0>> \in Piece /\ <<"-worker", w>> \in Piece
  BY DEF Piece
<1> HIDE DEF Piece
<1>5. << <<"-head", 0>> >> \in Seq(Piece) /\ << <<"-worker", w>> >> \in Seq(Piece)
  BY <1>4
<1> QED BY <1>3, <1>5 DEF Suffix

(* The names and places of nodes. *)
LEMMA NameType ==
    ASSUME Inv, NEW n \in Names, NEW num \in Sizes, NEW i \in Nat
    PROVE  /\ NodeName(n, num, i) \in Seq(Piece)
           /\ <<LaunchPlace(n), NodeName(n, num, i)>> \in NodeId
           /\ NodeName(n, num, i) \in NamesOf(n)
<1>1. truncateName(n) \in Names
  BY DEF truncateName, Truncated
<1>2. \A m \in Names, w \in Nat : m \o Suffix(num, i, w) \in Seq(Piece)
  BY NameSeq
<1>3. NodeName(n, num, i) \in Seq(Piece)
  BY <1>1, <1>2 DEF PodName, VmName, NodeName
<1>4. LaunchPlace(n) \in Names \cup {"home", "away"}
  BY DEF LaunchPlace
<1>5. NodeName(n, num, i) \in NamesOf(n)
  BY DEF NamesOf
<1> QED BY <1>3, <1>4, <1>5 DEF NodeId

LEMMA NewNodeOK ==
    ASSUME Inv, NEW p \in Calls, Frame(p), NEW id \in NodeId, NEW v \in Node,
           vm' = Put(id, v), id \notin DOMAIN vm,
           v.by = p, v.head, v.state = "pending",
           id[1] = LaunchPlace(call[p].name), id[2] \in NamesOf(call[p].name),
           call[p].op = "launch", call'[p].op = "launch", call'[p].name = call[p].name,
           Has(call'[p].ids, id[2]), \A x : Has(call[p].ids, x) => Has(call'[p].ids, x),
           call[p].pc # "cleanup", call[p].res # "timeout"
    PROVE  /\ \A x \in DOMAIN vm' : NodeOK(x)'
           /\ vm' \in [DOMAIN vm' -> Node] /\ DOMAIN vm' \subseteq NodeId
           /\ \A x \in DOMAIN vm' : vm'[x].by # p => x \in DOMAIN vm /\ vm'[x].by = vm[x].by
           /\ Stays /\ id \in DOMAIN vm'
<1>1. /\ DOMAIN vm' = DOMAIN vm \cup {id}
      /\ vm'[id] = v
      /\ \A x \in DOMAIN vm : vm'[x] = vm[x]
  BY DEF Put
<1>2. vm' \in [DOMAIN vm' -> Node] /\ DOMAIN vm' \subseteq NodeId
  BY <1>1 DEF Put, Inv, TypeInv
<1>3. cfg' = cfg
  BY DEF Frame
<1>4. States' = States /\ (\A n : LaunchPlace(n)' = LaunchPlace(n) /\ NamesOf(n)' = NamesOf(n))
  BY <1>3, NamesFixed
<1>5. NodeOK(id)'
  BY <1>1, <1>4 DEF NodeOK, States
<1>6. ASSUME NEW x \in DOMAIN vm PROVE NodeOK(x)'
  <2>1. NodeOK(x) /\ vm'[x] = vm[x] /\ vm[x].by \in Calls
    BY <1>1 DEF Inv, NodeInv, TypeInv, Node
  <2>2. CASE vm[x].by = p
    BY <1>4, <2>1, <2>2 DEF NodeOK, GaveUp
  <2>3. CASE vm[x].by # p
    <3>1. call'[vm[x].by] = call[vm[x].by]
      BY <2>1, <2>3 DEF Frame
    <3>2. \A q \in Calls : q # p => (~GaveUp(q)' => ~GaveUp(q))
      <4>1. faults \in Nat /\ faults' \in Nat /\ faults <= faults'
        BY NodeProvidersAssumption DEF Frame, Inv, TypeInv, TypeOK
      <4> QED BY <4>1 DEF GaveUp, Frame
    <3> QED BY <1>4, <2>1, <2>3, <3>1, <3>2 DEF NodeOK
  <2> QED BY <2>2, <2>3
<1> QED BY <1>1, <1>2, <1>5, <1>6 DEF Stays

LEMMA DeleteStaleInv ==
    ASSUME Inv, NEW p \in Calls, DeleteStale(p)
    PROVE  Inv'
<1> DEFINE c == call'[p]
           id == Id(p)
<1>1. call[p].pc = "stale" /\ call[p] \in Call /\ CallOK(p) /\ TerminateOK(p)
  BY DEF DeleteStale, Inv, NodeInv, TypeInv
<1>2. /\ call' \in [Calls -> Call]
      /\ \A q \in Calls : q # p => call'[q] = call[q]
      /\ c = [call[p] EXCEPT !.pc = "create"]
  <2>1. call' = [call EXCEPT ![p].pc = "create"]
    BY DEF DeleteStale
  <2>2. [call[p] EXCEPT !.pc = "create"] \in Call
    BY <1>1 DEF Call
  <2> QED BY <2>1, <2>2 DEF Inv, TypeInv
<1>3. c.op = "launch" /\ c.pc = "create" /\ c.res = call[p].res /\ c.name = call[p].name
      /\ c.ids = call[p].ids /\ c.i = call[p].i /\ c.try = call[p].try /\ c.head = call[p].head
      /\ c.num = call[p].num /\ call[p].op = "launch" /\ cfg.kind = "kubernetes"
  BY <1>1, <1>2 DEF Call, CallOK, Launching
<1>4. Frame(p)
  BY <1>1, <1>2, NumType, NodeProvidersAssumption DEF DeleteStale, Fault, Frame, Inv, TypeInv, TypeOK
<1>5. /\ DOMAIN vm' = DOMAIN vm
      /\ NoneNew
  BY <1>3 DEF DeleteStale, NoneNew, Inv, TypeInv, NodeInv, NodeOK, States, Node
<1>6. CallOK(p)'
  <2>1. \A len : Made(p, len)' <=> Made(p, len)
    BY <1>3, <1>4, NamesFixed DEF Frame, Made
  <2>2. cfg' = cfg /\ \A n : NamesOf(n)' = NamesOf(n)
    BY <1>4, NamesFixed DEF Frame
  <2> QED BY <1>1, <1>3, <2>1, <2>2 DEF CallOK, Launching
<1>7. TerminateOK(p)'
  BY <1>3 DEF TerminateOK
<1>8. \A x \in DOMAIN vm' : NodeOK(x)'
  <2>1. \A x \in DOMAIN vm : vm[x].by = p => Has(call[p].ids, x[2])
    BY <1>1, <1>3 DEF Inv, NodeInv, NodeOK, GaveUp, CallOK
  <2> QED BY <1>3, <1>4, <1>5, <2>1, NodesOK DEF NoneNew
<1>9. NarrowOK'
  BY <1>3, <1>4 DEF NarrowOK, Frame
<1>10. RecOK' /\ rec' = rec
  BY <1>4, RecordsOK DEF DeleteStale
<1> QED BY <1>1, <1>3, <1>4, <1>5, <1>6, <1>7, <1>8, <1>9, <1>10, StepOK, NumType
        DEF Inv, TypeInv, TypeOK, NoneNew

(* A step of a launch that leaves the nodes alone. *)
LEMMA LaunchStep ==
    ASSUME Inv, NEW p \in Calls, Frame(p), vm' = vm,
           call[p].pc \in Launching,
           call'[p].op = "launch", call'[p].name = call[p].name,
           \A x : Has(call[p].ids, x) => Has(call'[p].ids, x),
           rec' \in [Names -> Calls \cup {None}],
           call'[p].i <= call'[p].num, call'[p].try <= Retries,
           CallOK(p)', RecOK',
           cfg.kind # "kubernetes" => call'[p].pc = "done" /\ call'[p].res = "error"
    PROVE  Inv'
<1>1. call[p].op = "launch" /\ CallOK(p) /\ call[p].res = "none"
  BY DEF Inv, NodeInv, CallOK, Launching, TypeInv, Call
<1>2. NoneNew
  BY DEF NoneNew, Inv, TypeInv, NodeInv, NodeOK
<1>3. \A x \in DOMAIN vm' : NodeOK(x)'
  <2>1. \A x \in DOMAIN vm : vm[x].by = p => Has(call[p].ids, x[2])
    BY <1>1 DEF Inv, NodeInv, NodeOK, GaveUp, Launching
  <2> QED BY <1>1, <1>2, <2>1, NodesOK
<1>4. NarrowOK'
  BY StaysNarrow DEF Stays, Narrow
<1>5. TerminateOK(p)'
  BY DEF TerminateOK
<1> QED BY <1>3, <1>4, <1>5, StepOK DEF Inv, TypeInv

LEMMA PodWaitTimeoutInv ==
    ASSUME Inv, NEW p \in Calls, PodWaitTimeout(p)
    PROVE  Inv'
<1> DEFINE c == call'[p]
           next == IF call[p].try + 1 = Retries THEN "cleanup" ELSE "wait"
<1>1. call[p].pc = "wait" /\ call[p] \in Call /\ CallOK(p) /\ UNCHANGED <<cfg, vm, rec, faults>>
  BY DEF PodWaitTimeout, Inv, NodeInv, TypeInv
<1>2. /\ call' \in [Calls -> Call]
      /\ \A q \in Calls : q # p => call'[q] = call[q]
      /\ c = [call[p] EXCEPT !.try = call[p].try + 1, !.pc = next]
  <2>1. call' = [call EXCEPT ![p].try = @ + 1, ![p].pc = next]
    BY DEF PodWaitTimeout
  <2>2. [call[p] EXCEPT !.try = call[p].try + 1, !.pc = next] \in Call
    <3>1. next \in {"cleanup", "wait"} /\ call[p].try + 1 \in Nat
      BY <1>1 DEF Call
    <3> HIDE DEF next
    <3> QED BY <1>1, <3>1 DEF Call
  <2> QED BY <2>1, <2>2 DEF Inv, TypeInv
<1>3. c.op = "launch" /\ c.res = call[p].res /\ c.name = call[p].name /\ c.pc = next
      /\ c.ids = call[p].ids /\ c.i = call[p].i /\ c.try = call[p].try + 1
      /\ c.num = call[p].num /\ c.head = call[p].head /\ cfg.kind = "kubernetes"
  BY <1>1, <1>2 DEF Call, CallOK, Launching
<1>4. Frame(p)
  BY <1>1, <1>2, NumType DEF Frame, Inv, TypeInv, TypeOK
<1>5. CallOK(p)' /\ c.i <= c.num /\ c.try <= Retries
  <2>1. \A len : Made(p, len)' <=> Made(p, len)
    BY <1>1, <1>3, NamesFixed DEF Made
  <2>2. \A n : NamesOf(n)' = NamesOf(n)
    BY <1>1, NamesFixed
  <2>3. call[p].try \in Nat /\ call[p].i \in Nat /\ call[p].try < Retries /\ call[p].i < call[p].num
    BY <1>1 DEF Call, CallOK, Launching
  <2> QED BY <1>1, <1>3, <2>1, <2>2, <2>3, NumType DEF CallOK, Launching
<1> QED BY <1>1, <1>3, <1>4, <1>5, RecordsOK, LaunchStep DEF Launching, Inv, TypeInv, TypeOK

LEMMA PodIPInv ==
    ASSUME Inv, NEW p \in Calls, PodIP(p)
    PROVE  Inv'
<1> DEFINE c == call'[p]
           there == [call[p] EXCEPT !.head = TRUE, !.i = call[p].i + 1, !.try = 0, !.pc = "stale"]
           lost == [call[p] EXCEPT !.pc = "cleanup"]
<1>1. call[p].pc = "ip" /\ call[p] \in Call /\ CallOK(p) /\ UNCHANGED <<cfg, vm, rec, faults>>
  BY DEF PodIP, Inv, NodeInv, TypeInv
<1>2. call[p].i \in Nat
  BY <1>1 DEF Call
<1>3. /\ call' \in [Calls -> Call]
      /\ \A q \in Calls : q # p => call'[q] = call[q]
      /\ c = there \/ c = lost
  <2>1. \/ call' = [call EXCEPT ![p].head = TRUE, ![p].i = @ + 1, ![p].try = 0, ![p].pc = "stale"]
        \/ call' = [call EXCEPT ![p].pc = "cleanup"]
    BY DEF PodIP
  <2>2. there \in Call
    <3>1. call[p].i + 1 \in Nat
      BY <1>2
    <3> QED BY <1>1, <3>1 DEF Call
  <2>3. lost \in Call
    BY <1>1 DEF Call
  <2> QED BY <2>1, <2>2, <2>3 DEF Inv, TypeInv
<1>4. c.op = "launch" /\ c.res = call[p].res /\ c.name = call[p].name /\ c.num = call[p].num
      /\ c.ids = call[p].ids /\ cfg.kind = "kubernetes" /\ call[p].op = "launch"
  BY <1>1, <1>3 DEF Call, CallOK, Launching
<1>5. Frame(p)
  BY <1>1, <1>3, <1>4, NumType DEF Frame, Inv, TypeInv, TypeOK
<1>6. CallOK(p)' /\ c.i <= c.num /\ c.try <= Retries
  <2>1. \A len : Made(p, len)' <=> Made(p, len)
    BY <1>1, <1>4, NamesFixed DEF Made
  <2>2. \A n : NamesOf(n)' = NamesOf(n)
    BY <1>1, NamesFixed
  <2>3. call[p].i = 0 /\ call[p].num > 1 /\ call[p].try \in Nat /\ call[p].try < Retries
    BY <1>1 DEF Call, CallOK, Launching
  <2>4. CASE c = there
    <3>1. c.pc = "stale" /\ c.i = 1 /\ c.try = 0 /\ c.head
      BY <1>1, <1>2, <2>3, <2>4 DEF Call
    <3> QED BY <1>1, <1>4, <2>1, <2>2, <2>3, <3>1, NumType DEF CallOK, Launching
  <2>5. CASE c = lost
    <3>1. c.pc = "cleanup" /\ c.i = 0 /\ c.try = call[p].try
      BY <1>1, <2>3, <2>5 DEF Call
    <3> QED BY <1>1, <1>4, <2>1, <2>2, <2>3, <3>1, NumType DEF CallOK, Launching
  <2> QED BY <1>3, <2>4, <2>5
<1> QED BY <1>1, <1>4, <1>5, <1>6, RecordsOK, LaunchStep DEF Launching, Inv, TypeInv, TypeOK

(* A launch that has made node i, and what it does next. *)
LEMMA AdvanceOK ==
    ASSUME Inv, NEW p \in Calls, NEW id, Advance(p, id), cfg' = cfg,
           call[p].op = "launch", call[p].pc \in {"create", "wait"},
           id = Name(p),
           cfg.kind = "kubernetes" =>
               call[p].pc = "wait" /\ ~(call[p].i = 0 /\ call[p].num > 1)
    PROVE  /\ call' \in [Calls -> Call]
           /\ \A q \in Calls : q # p => call'[q] = call[q]
           /\ call'[p].op = "launch" /\ call'[p].name = call[p].name /\ call'[p].num = call[p].num
           /\ \A x : Has(call[p].ids, x) => Has(call'[p].ids, x)
           /\ Has(call'[p].ids, id)
           /\ rec' \in [Names -> Calls \cup {None}]
           /\ call'[p].i <= call'[p].num /\ call'[p].try <= Retries
           /\ CallOK(p)' /\ RecOK'
           /\ call[p].i + 1 < call[p].num => call'[p].pc # "done" /\ call'[p].i = call[p].i + 1
           /\ call'[p].pc \notin {"cleanup", "each"}
<1> DEFINE c == call'[p]
           d == call[p]
           ids == IF cfg.kind = "kubernetes" THEN d.ids ELSE Append(d.ids, id)
           next == IF cfg.kind = "kubernetes" THEN "stale" ELSE "create"
           more == [d EXCEPT !.i = d.i + 1, !.try = 0, !.pc = next, !.ids = ids]
           last == [d EXCEPT !.pc = "done", !.res = "ok", !.ids = ids]
<1>1. d \in Call /\ CallOK(p) /\ d.i < d.num /\ d.try < Retries /\ d.name \in Names /\ d.res = "none"
      /\ d.pc # "done" /\ d.num \in Sizes
  BY DEF Inv, NodeInv, TypeInv, CallOK, Launching, Call
<1>2. ids \in Seq(Seq(Piece)) /\ Made(p, IF cfg.kind = "kubernetes" THEN d.i + 1 ELSE d.i)
  <2>1. id \in Seq(Piece)
    BY <1>1, NameType DEF Name, Call
  <2> QED BY <1>1, <2>1 DEF Call, CallOK
<1>3. /\ Len(ids) = d.i + 1
      /\ \A j \in 1..(d.i + 1) : ids[j] = NodeName(d.name, d.num, j - 1)
  <2>1. d.ids \in Seq(Seq(Piece)) /\ d.i \in Nat /\ id = NodeName(d.name, d.num, d.i)
    BY <1>1 DEF Call, Name
  <2>2. CASE cfg.kind = "kubernetes"
    BY <1>2, <2>2 DEF Made
  <2>3. CASE cfg.kind # "kubernetes"
    <3>1. Len(d.ids) = d.i /\ \A j \in 1..d.i : d.ids[j] = NodeName(d.name, d.num, j - 1)
      BY <1>2, <2>3 DEF Made
    <3>2. ids = Append(d.ids, id)
      BY <2>3
    <3> HIDE DEF ids, d
    <3>3. Len(ids) = d.i + 1 /\ ids[d.i + 1] = id /\ \A j \in 1..d.i : ids[j] = d.ids[j]
      BY <2>1, <3>1, <3>2
    <3> QED BY <2>1, <3>1, <3>3
  <2> QED BY <2>2, <2>3
<1>4. \A x : Has(d.ids, x) => Has(ids, x)
  <2>1. d.ids \in Seq(Seq(Piece))
    BY <1>1 DEF Call
  <2>2. \A j \in DOMAIN d.ids : j \in DOMAIN Append(d.ids, id) /\ Append(d.ids, id)[j] = d.ids[j]
    BY <2>1
  <2> QED BY <2>2 DEF Has
<1>5. Has(ids, id)
  <2>1. d.i \in Nat /\ (d.i + 1) - 1 = d.i /\ id = NodeName(d.name, d.num, d.i)
    BY <1>1 DEF Call, Name
  <2>2. d.i + 1 \in DOMAIN ids
    BY <1>2, <1>3, <2>1
  <2>3. ids[d.i + 1] = id
    BY <1>3, <2>1
  <2> QED BY <2>2, <2>3 DEF Has
<1>6. more \in Call /\ last \in Call
  <2>1. next \in {"stale", "create"} /\ d.i + 1 \in Nat
    BY <1>1 DEF Call
  <2> HIDE DEF d, ids, next
  <2>2. more \in Call
    BY <1>1, <1>2, <2>1 DEF Call
  <2>3. last \in Call
    BY <1>1, <1>2 DEF Call
  <2> QED BY <2>2, <2>3
<1>7. \A j \in DOMAIN ids : ids[j] \in NamesOf(d.name)
  <2>1. DOMAIN ids = 1..(d.i + 1)
    BY <1>2, <1>3
  <2>2. \A j \in 1..(d.i + 1) : j - 1 \in Nat
    BY <1>1 DEF Call
  <2> HIDE DEF ids
  <2> SUFFICES ASSUME NEW j \in 1..(d.i + 1) PROVE NodeName(d.name, d.num, j - 1) \in NamesOf(d.name)
    BY <1>3, <2>1
  <2> QED BY <1>1, <2>2, NameType
<1>8. \A n : NamesOf(n)' = NamesOf(n)
  BY NamesFixed
<1>9. \A n, num, i : NodeName(n, num, i)' = NodeName(n, num, i)
  BY NamesFixed
<1>10. (cfg.kind = "kubernetes" /\ d.i + 1 < d.num) => d.head
  <2>1. d.i \in Nat /\ d.num \in Nat
    BY <1>1, NumType DEF Call
  <2> QED BY <1>1, <2>1 DEF CallOK, Launching
<1>11. CASE d.i + 1 < d.num
  <2>1. /\ call' = [call EXCEPT ![p].i = @ + 1, ![p].try = 0, ![p].pc = next, ![p].ids = ids]
        /\ rec' = rec
    BY <1>11 DEF Advance
  <2>2. /\ call' \in [Calls -> Call]
        /\ \A q \in Calls : q # p => call'[q] = call[q]
        /\ c = more
    BY <1>6, <2>1 DEF Inv, TypeInv
  <2>3. c.op = "launch" /\ c.name = d.name /\ c.num = d.num /\ c.ids = ids /\ c.i = d.i + 1 /\ c.try = 0
        /\ c.pc = next /\ c.res = "none" /\ c.head = d.head
    BY <1>1, <2>2 DEF Call
  <2>4. Made(p, call[p].i)'
    BY <1>3, <1>9, <2>3 DEF Made
  <2>5. CallOK(p)'
    BY <1>1, <1>7, <1>8, <1>10, <1>11, <2>3, <2>4, NumType DEF CallOK, Launching, Op
  <2>6. RecOK'
    <3> SUFFICES ASSUME NEW n \in Names, rec[n] # None PROVE Launched(rec[n], n)'
      BY <2>1 DEF RecOK
    <3> QED BY <1>1, <2>1, <2>2 DEF Inv, NodeInv, RecOK, Launched
  <2> QED BY <1>4, <1>5, <1>11, <2>1, <2>2, <2>3, <2>5, <2>6, NumType DEF Inv, TypeInv, TypeOK
<1>12. CASE ~(d.i + 1 < d.num)
  <2>1. /\ call' = [call EXCEPT ![p].pc = "done", ![p].res = "ok", ![p].ids = ids]
        /\ rec' = [rec EXCEPT ![d.name] = p]
    BY <1>12 DEF Advance
  <2>2. /\ call' \in [Calls -> Call]
        /\ \A q \in Calls : q # p => call'[q] = call[q]
        /\ c = last
    BY <1>6, <2>1 DEF Inv, TypeInv
  <2>3. c.op = "launch" /\ c.name = d.name /\ c.num = d.num /\ c.ids = ids /\ c.i = d.i /\ c.try = d.try
        /\ c.pc = "done" /\ c.res = "ok"
    BY <1>1, <2>2 DEF Call
  <2>4. Made(p, call[p].num)'
    <3>1. d.i + 1 = d.num
      BY <1>1, <1>12, NumType DEF Call
    <3> QED BY <1>3, <1>9, <2>3, <3>1 DEF Made
  <2>5. CallOK(p)'
    BY <1>1, <1>7, <1>8, <2>3, <2>4 DEF CallOK, Launching, Op
  <2>6. RecOK'
    <3> SUFFICES ASSUME NEW n \in Names, rec'[n] # None PROVE Launched(rec[n], n)'
      BY DEF RecOK
    <3>1. CASE n = d.name
      BY <1>1, <2>1, <2>3, <3>1 DEF Launched, Inv, TypeInv, TypeOK
    <3>2. CASE n # d.name
      <4>1. rec'[n] = rec[n] /\ Launched(rec[n], n)
        BY <2>1, <3>2 DEF Inv, TypeInv, TypeOK, NodeInv, RecOK
      <4> QED BY <1>1, <2>2, <4>1 DEF Launched
    <3> QED BY <3>1, <3>2
  <2>7. rec' \in [Names -> Calls \cup {None}] /\ c.i <= c.num /\ c.try <= Retries
    BY <1>1, <2>1, <2>3, NumType DEF Inv, TypeInv, TypeOK, Call
  <2> QED BY <1>4, <1>5, <1>12, <2>2, <2>3, <2>5, <2>6, <2>7
<1> QED BY <1>11, <1>12

LEMMA PodReadyInv ==
    ASSUME Inv, NEW p \in Calls, PodReady(p)
    PROVE  Inv'
<1> DEFINE c == call'[p]
           id == Name(p)
           asks == [call[p] EXCEPT !.pc = "ip"]
<1>1. /\ call[p].pc = "wait" /\ call[p] \in Call /\ CallOK(p) /\ UNCHANGED <<cfg, vm, faults>>
      /\ call[p].op = "launch" /\ cfg.kind = "kubernetes"
  BY DEF PodReady, Inv, NodeInv, TypeInv, CallOK, Launching
<1>2. call[p].name \in Names /\ call[p].i \in Nat
  BY <1>1 DEF CallOK, Call
<1>3. faults' \in 0..MaxFaults /\ faults <= faults'
  BY <1>1, NumType DEF Inv, TypeInv, TypeOK
<1>4. CASE call[p].i = 0 /\ call[p].num > 1
  <2>1. call' = [call EXCEPT ![p].pc = "ip"] /\ rec' = rec
    BY <1>4 DEF PodReady
  <2>2. asks \in Call
    BY <1>1 DEF Call
  <2>3. /\ call' \in [Calls -> Call]
        /\ \A q \in Calls : q # p => call'[q] = call[q]
        /\ c = asks
    BY <2>1, <2>2 DEF Inv, TypeInv
  <2>4. c.op = "launch" /\ c.res = call[p].res /\ c.name = call[p].name /\ c.pc = "ip" /\ c.num = call[p].num
        /\ c.ids = call[p].ids /\ c.i = call[p].i /\ c.try = call[p].try
    BY <1>1, <2>3 DEF Call
  <2>5. Frame(p)
    BY <1>1, <1>3, <2>3 DEF Frame
  <2>6. CallOK(p)' /\ c.i <= c.num /\ c.try <= Retries
    <3>1. \A len : Made(p, len)' <=> Made(p, len)
      BY <1>1, <2>4, NamesFixed DEF Made
    <3>2. \A n : NamesOf(n)' = NamesOf(n)
      BY <1>1, NamesFixed
    <3> QED BY <1>1, <1>4, <2>4, <3>1, <3>2, NumType DEF CallOK, Launching, Call
  <2> QED BY <1>1, <2>1, <2>4, <2>5, <2>6, RecordsOK, LaunchStep DEF Launching, Inv, TypeInv, TypeOK
<1>5. CASE ~(call[p].i = 0 /\ call[p].num > 1)
  <2>1. Advance(p, id)
    BY <1>5 DEF PodReady
  <2>2. /\ call' \in [Calls -> Call]
        /\ \A q \in Calls : q # p => call'[q] = call[q]
        /\ call'[p].op = "launch" /\ call'[p].name = call[p].name
        /\ \A x : Has(call[p].ids, x) => Has(call'[p].ids, x)
        /\ rec' \in [Names -> Calls \cup {None}]
        /\ call'[p].i <= call'[p].num /\ call'[p].try <= Retries
        /\ CallOK(p)' /\ RecOK'
    BY <1>1, <1>2, <1>5, <2>1, AdvanceOK
  <2>3. Frame(p)
    BY <1>1, <1>3, <2>2 DEF Frame
  <2> QED BY <1>1, <2>2, <2>3, LaunchStep DEF Launching
<1> QED BY <1>4, <1>5

(* A create that is refused or fails. *)
LEMMA CreateFailsInv ==
    ASSUME Inv, NEW p \in Calls, call[p].pc = "create", CreateFails(p), cfg' = cfg
    PROVE  Inv'
<1> DEFINE c == call'[p]
           fails == [call[p] EXCEPT !.pc = "done", !.res = "error"]
<1>1. call[p] \in Call /\ CallOK(p) /\ vm' = vm /\ rec' = rec /\ call[p].op = "launch"
  BY DEF CreateFails, Inv, NodeInv, TypeInv, CallOK, Launching
<1>2. fails \in Call
  BY <1>1 DEF Call
<1>3. /\ call' \in [Calls -> Call]
      /\ \A q \in Calls : q # p => call'[q] = call[q]
      /\ c = fails
  BY <1>2 DEF CreateFails, Return, Inv, TypeInv
<1>4. c.op = "launch" /\ c.res = "error" /\ c.name = call[p].name /\ c.pc = "done" /\ c.num = call[p].num
      /\ c.ids = call[p].ids /\ c.i = call[p].i /\ c.try = call[p].try
  BY <1>1, <1>3 DEF Call
<1>5. Frame(p)
  BY <1>1, <1>3, <1>4, NumType, NodeProvidersAssumption DEF CreateFails, Fault, Frame, Inv, TypeInv, TypeOK
<1>6. CallOK(p)' /\ c.i <= c.num /\ c.try <= Retries
  <2>1. \A n : NamesOf(n)' = NamesOf(n)
    BY NamesFixed
  <2> QED BY <1>1, <1>4, <2>1, NumType DEF CallOK, Launching, Call
<1> QED BY <1>1, <1>4, <1>5, <1>6, RecordsOK, LaunchStep DEF Launching, Inv, TypeInv, TypeOK

LEMMA CreatePodInv ==
    ASSUME Inv, NEW p \in Calls, CreatePod(p)
    PROVE  Inv'
<1> DEFINE c == call'[p]
           d == call[p]
           id == Id(p)
           ids == Append(d.ids, Name(p))
           made == [d EXCEPT !.ids = ids, !.pc = "wait"]
<1>1. /\ d \in Call /\ CallOK(p) /\ d.op = "launch" /\ cfg' = cfg /\ d.pc = "create"
      /\ cfg.kind = "kubernetes" /\ d.res = "none" /\ d.i < d.num /\ d.try < Retries
      /\ d.i \in Nat /\ d.try \in Nat /\ d.ids \in Seq(Seq(Piece)) /\ d.num \in Sizes
  BY DEF CreatePod, Inv, NodeInv, TypeInv, CallOK, Launching, Call
<1>2. CASE CreateFails(p)
  BY <1>1, <1>2, CreateFailsInv
<1>3. CASE ~CreateFails(p)
  <2>1. /\ id \notin DOMAIN vm
        /\ vm' = Put(id, buildPod(p))
        /\ call' = [call EXCEPT ![p].ids = Append(@, Name(p)), ![p].pc = "wait"]
        /\ rec' = rec /\ faults' = faults
    BY <1>3 DEF CreatePod
  <2>2. /\ d.name \in Names /\ id \in NodeId /\ id[1] = LaunchPlace(d.name)
        /\ id[2] = Name(p) /\ Name(p) \in NamesOf(d.name) /\ Name(p) \in Seq(Piece)
        /\ Name(p) = NodeName(d.name, d.num, d.i)
    BY <1>1, NameType DEF CallOK, Id, Name
  <2>3. /\ ids \in Seq(Seq(Piece)) /\ Len(ids) = d.i + 1 /\ DOMAIN ids = 1..(d.i + 1)
        /\ ids[d.i + 1] = Name(p)
        /\ \A j \in 1..(d.i + 1) : ids[j] = NodeName(d.name, d.num, j - 1)
    <3>1. Made(p, d.i)
      BY <1>1 DEF CallOK
    <3>2. Len(d.ids) = d.i /\ \A j \in 1..d.i : d.ids[j] = NodeName(d.name, d.num, j - 1)
      BY <3>1 DEF Made
    <3>3. /\ ids \in Seq(Seq(Piece)) /\ Len(ids) = d.i + 1
          /\ ids[d.i + 1] = Name(p) /\ \A j \in 1..d.i : ids[j] = d.ids[j]
      BY <1>1, <2>2, <3>2
    <3>4. (d.i + 1) - 1 = d.i /\ DOMAIN ids = 1..(d.i + 1)
      BY <1>1, <3>3
    <3>5. \A j \in 1..(d.i + 1) : j \in 1..d.i \/ j = d.i + 1
      BY <1>1
    <3> HIDE DEF ids, d
    <3>6. ASSUME NEW j \in 1..(d.i + 1) PROVE ids[j] = NodeName(d.name, d.num, j - 1)
      BY <2>2, <3>2, <3>3, <3>4, <3>5
    <3> QED BY <3>3, <3>4, <3>6
  <2>4. (\A x : Has(d.ids, x) => Has(ids, x)) /\ Has(ids, id[2])
    <3>1. d.i + 1 \in DOMAIN ids /\ ids[d.i + 1] = id[2]
      <4>1. d.i + 1 \in 1..(d.i + 1)
        BY <1>1
      <4> HIDE DEF ids, d, id
      <4> QED BY <2>2, <2>3, <4>1
    <3>2. \A j \in DOMAIN d.ids : j \in DOMAIN ids /\ ids[j] = d.ids[j]
      BY <1>1, <2>2
    <3> HIDE DEF ids
    <3> QED BY <3>1, <3>2 DEF Has
  <2>5. made \in Call
    <3> HIDE DEF ids
    <3> QED BY <1>1, <2>3 DEF Call
  <2>6. /\ call' \in [Calls -> Call]
        /\ \A q \in Calls : q # p => call'[q] = call[q]
        /\ c = made
    BY <2>1, <2>5 DEF Inv, TypeInv
  <2>7. c.op = "launch" /\ c.res = "none" /\ c.name = d.name /\ c.pc = "wait" /\ c.num = d.num
        /\ c.ids = ids /\ c.i = d.i /\ c.try = d.try /\ c.head = d.head
    BY <1>1, <2>6 DEF Call
  <2>8. Frame(p)
    BY <1>1, <2>1, <2>6, NumType DEF Frame, Inv, TypeInv, TypeOK
  <2>9. /\ buildPod(p) \in Node /\ buildPod(p).by = p
        /\ buildPod(p).head /\ buildPod(p).state = "pending"
    <3>1. d.i # 0 => d.head
      BY <1>1 DEF CallOK, Launching
    <3> QED BY <1>1, <3>1 DEF buildPod, podStartupCommand, Node
  <2>10. /\ \A x \in DOMAIN vm' : NodeOK(x)'
         /\ vm' \in [DOMAIN vm' -> Node] /\ DOMAIN vm' \subseteq NodeId
         /\ \A x \in DOMAIN vm' : vm'[x].by # p => x \in DOMAIN vm /\ vm'[x].by = vm[x].by
    <3> HIDE DEF id, ids, d, c
    <3> QED BY <1>1, <2>1, <2>2, <2>4, <2>7, <2>8, <2>9, NewNodeOK DEF c, d
  <2>11. CallOK(p)'
    <3>1. \A n : NamesOf(n)' = NamesOf(n)
      BY <1>1, NamesFixed
    <3>2. \A n, num, i : NodeName(n, num, i)' = NodeName(n, num, i)
      BY <1>1, NamesFixed
    <3>3. Made(p, call[p].i + 1)'
      BY <2>3, <2>7, <3>2 DEF Made
    <3>4. \A j \in DOMAIN ids : ids[j] \in NamesOf(d.name)
      <4>1. \A j \in 1..(d.i + 1) : j - 1 \in Nat
        BY <1>1
      <4> HIDE DEF ids
      <4> SUFFICES ASSUME NEW j \in 1..(d.i + 1)
                   PROVE  NodeName(d.name, d.num, j - 1) \in NamesOf(d.name)
        BY <2>3
      <4> QED BY <1>1, <2>2, <4>1, NameType
    <3> HIDE DEF ids
    <3> QED BY <1>1, <2>2, <2>7, <3>1, <3>3, <3>4 DEF CallOK, Launching, Op
  <2>12. TerminateOK(p)' /\ NarrowOK'
    BY <1>1, <2>7 DEF TerminateOK, NarrowOK
  <2>13. RecOK' /\ rec' \in [Names -> Calls \cup {None}]
    BY <2>1, <2>8, RecordsOK DEF Inv, TypeInv, TypeOK
  <2>14. c.i <= c.num /\ c.try <= Retries
    BY <1>1, <2>7, NumType
  <2> QED BY <2>8, <2>10, <2>11, <2>12, <2>13, <2>14, StepOK
<1> QED BY <1>2, <1>3

(* The machines of gcp and azure. *)
LEMMA VmCreateInv ==
    ASSUME Inv, NEW p \in Calls, cfg.kind # "kubernetes", call[p].pc = "create", cfg' = cfg,
           \/ CreateFails(p)
           \/ /\ Id(p) \notin DOMAIN vm
              /\ vm' = Put(Id(p), NewVm(p))
              /\ Advance(p, Name(p))
              /\ UNCHANGED faults
    PROVE  Inv'
<1> DEFINE c == call'[p]
           d == call[p]
           id == Id(p)
<1>1. /\ d \in Call /\ CallOK(p) /\ d.op = "launch" /\ d.res = "none" /\ d.pc # "done"
      /\ d.i < d.num /\ d.try < Retries /\ d.i \in Nat /\ d.name \in Names /\ d.num \in Sizes
      /\ d.num \in Nat
  BY NumType DEF Inv, NodeInv, TypeInv, CallOK, Launching, Call
<1>2. CASE CreateFails(p)
  BY <1>2, CreateFailsInv
<1>3. CASE ~CreateFails(p)
  <2>1. id \notin DOMAIN vm /\ vm' = Put(id, NewVm(p)) /\ Advance(p, Name(p)) /\ faults' = faults
    BY <1>3
  <2>2. /\ id \in NodeId /\ id[1] = LaunchPlace(d.name) /\ id[2] = Name(p)
        /\ Name(p) \in NamesOf(d.name) /\ Name(p) = NodeName(d.name, d.num, d.i)
    BY <1>1, NameType DEF Id, Name
  <2>3. /\ call' \in [Calls -> Call]
        /\ \A q \in Calls : q # p => call'[q] = call[q]
        /\ c.op = "launch" /\ c.name = d.name /\ c.num = d.num
        /\ \A x : Has(d.ids, x) => Has(c.ids, x)
        /\ Has(c.ids, id[2])
        /\ rec' \in [Names -> Calls \cup {None}]
        /\ c.i <= c.num /\ c.try <= Retries
        /\ CallOK(p)' /\ RecOK'
        /\ d.i + 1 < d.num => c.pc # "done" /\ c.i = d.i + 1
        /\ c.pc \notin {"cleanup", "each"}
    BY <1>1, <2>1, <2>2, AdvanceOK
  <2>4. Frame(p)
    BY <1>1, <2>1, <2>3, NumType DEF Frame, Inv, TypeInv, TypeOK
  <2>5. /\ NewVm(p) \in Node /\ NewVm(p).by = p
        /\ NewVm(p).head /\ NewVm(p).state = "pending"
    BY DEF NewVm, Node
  <2>6. /\ \A x \in DOMAIN vm' : NodeOK(x)'
        /\ vm' \in [DOMAIN vm' -> Node] /\ DOMAIN vm' \subseteq NodeId
        /\ \A x \in DOMAIN vm' : vm'[x].by # p => x \in DOMAIN vm /\ vm'[x].by = vm[x].by
        /\ Stays /\ id \in DOMAIN vm'
    <3> HIDE DEF id, d, c
    <3> QED BY <1>1, <2>1, <2>2, <2>3, <2>4, <2>5, NewNodeOK DEF c, d
  <2>7. NarrowOK'
    <3>1. ASSUME NoTerminate', d.num > 2 PROVE Narrow(p)'
      <4>1. NoTerminate /\ Narrow(p)
        BY <2>4, <3>1 DEF NoTerminate, Frame, Inv, NodeInv, NarrowOK
      <4>2. d.i <= 2 /\ d.i # 2
        <5>1. d.i = 2 => id = <<LaunchPlace(d.name), VmName(d.name, d.num, 1)>>
          <6>1. Suffix(d.num, 2, 0) = Suffix(d.num, 1, 0)
            BY DEF Suffix
          <6>2. id = <<LaunchPlace(d.name), VmName(d.name, d.num, d.i)>>
            BY DEF Id, Name, NodeName
          <6> QED BY <6>1, <6>2 DEF VmName
        <5> QED BY <2>1, <3>1, <4>1, <5>1 DEF Narrow
      <4>3. d.i + 1 < d.num
        BY <1>1, <3>1, <4>2
      <4>4. c.pc # "done" /\ c.i = d.i + 1
        BY <2>3, <4>3
      <4>5. c.res # "ok"
        BY <2>3, <4>4 DEF CallOK
      <4>6. c.i <= 2 /\ (c.i = 2 => d.i = 1)
        BY <1>1, <4>2, <4>4
      <4>7. d.i = 1 => id = <<LaunchPlace(d.name), VmName(d.name, d.num, 1)>>
        BY DEF Id, Name, NodeName
      <4>8. /\ LaunchPlace(call[p].name)' = LaunchPlace(d.name)
            /\ VmName(call[p].name, call[p].num, 1)' = VmName(d.name, d.num, 1)
        BY <2>3, NamesFixed
      <4> HIDE DEF c, d, id
      <4> QED BY <2>3, <2>6, <4>4, <4>5, <4>6, <4>7, <4>8 DEF Narrow, c, d
    <3>2. NoTerminate' => Narrow(p)'
      <4>1. d.num > 2 \/ ~(c.num > 2)
        BY <2>3
      <4> QED BY <3>1, <4>1 DEF Narrow
    <3> QED BY <2>4, <2>6, <3>2, StaysNarrow
  <2>8. TerminateOK(p)'
    BY <2>3 DEF TerminateOK
  <2> QED BY <2>3, <2>4, <2>6, <2>7, <2>8, StepOK
<1> QED BY <1>2, <1>3

LEMMA GcpAzureCreateInv ==
    ASSUME Inv, NEW p \in Calls, GcpCreate(p) \/ AzureCreate(p)
    PROVE  Inv'
BY VmCreateInv DEF GcpCreate, AzureCreate

LEMMA TailHas ==
    ASSUME NEW ids \in Seq(Seq(Piece)), ids # <<>>
    PROVE  /\ Tail(ids) \in Seq(Seq(Piece))
           /\ \A j \in DOMAIN Tail(ids) : j + 1 \in DOMAIN ids /\ Tail(ids)[j] = ids[j + 1]
           /\ \A x : Has(ids, x) /\ x # Head(ids) => Has(Tail(ids), x)
<1>1. /\ Tail(ids) \in Seq(Seq(Piece))
      /\ \A j \in DOMAIN Tail(ids) : j + 1 \in DOMAIN ids /\ Tail(ids)[j] = ids[j + 1]
  OBVIOUS
<1>2. ASSUME NEW x, Has(ids, x), x # Head(ids) PROVE Has(Tail(ids), x)
  <2>1. PICK j \in DOMAIN ids : ids[j] = x
    BY <1>2 DEF Has
  <2>2. j # 1 /\ j \in 1..Len(ids)
    BY <1>2, <2>1
  <2>3. j - 1 \in DOMAIN Tail(ids) /\ Tail(ids)[j - 1] = x
    BY <2>1, <2>2
  <2> QED BY <2>3 DEF Has
<1> QED BY <1>1, <1>2

(* The clean-up of a launch that gave up. *)
LEMMA CleanupInv ==
    ASSUME Inv, NEW p \in Calls, Cleanup(p)
    PROVE  Inv'
<1> DEFINE c == call'[p]
           d == call[p]
           key == <<LaunchPlace(d.name), Head(d.ids)>>
           ends == [d EXCEPT !.pc = "done", !.res = "timeout"]
           tail == [d EXCEPT !.ids = Tail(d.ids)]
<1>1. /\ d \in Call /\ CallOK(p) /\ d.op = "launch" /\ d.res = "none" /\ d.pc = "cleanup"
      /\ cfg.kind = "kubernetes" /\ d.ids \in Seq(Seq(Piece)) /\ cfg' = cfg /\ rec' = rec
      /\ d.i <= d.num /\ d.try <= Retries
  BY DEF Cleanup, Inv, NodeInv, TypeInv, TypeOK, CallOK, Call
<1>2. ends \in Call
  BY <1>1 DEF Call
<1>3. d.ids # <<>> => tail \in Call
  BY <1>1, TailHas DEF Call
<1>4. /\ call' \in [Calls -> Call]
      /\ \A q \in Calls : q # p => call'[q] = call[q]
      /\ \/ d.ids = <<>> /\ c = ends /\ vm' = vm /\ faults' = faults
         \/ d.ids # <<>> /\ c = tail /\ vm' = Drop(key) /\ faults' = faults
         \/ d.ids # <<>> /\ c = tail /\ vm' = vm /\ Fault
  BY <1>2, <1>3 DEF Cleanup, DropPod, Return, Inv, TypeInv
<1>5. faults \in Nat /\ faults' \in 0..MaxFaults /\ faults <= faults' /\ (Fault => faults' > 0)
  BY <1>4, NumType, NodeProvidersAssumption DEF Fault, Inv, TypeInv, TypeOK
<1>6. Frame(p)
  BY <1>1, <1>4, <1>5 DEF Frame
<1>7. c.op = "launch" /\ c.name = d.name /\ c.num = d.num /\ c.i = d.i /\ c.try = d.try
  BY <1>1, <1>4 DEF Call
<1>8. /\ \A x \in DOMAIN vm' : x \in DOMAIN vm /\ vm'[x] = vm[x]
      /\ vm' \in [DOMAIN vm' -> Node]
  BY <1>4 DEF Drop, Restrict, Inv, TypeInv
<1>9. CallOK(p)'
  <2>1. \A n : NamesOf(n)' = NamesOf(n)
    BY <1>1, NamesFixed
  <2>2. CASE c = ends /\ d.ids = <<>>
    <3>1. c.pc = "done" /\ c.res = "timeout" /\ c.ids = <<>>
      BY <1>1, <2>2 DEF Call
    <3> QED BY <1>1, <1>7, <2>1, <3>1 DEF CallOK, Launching
  <2>3. CASE c = tail /\ d.ids # <<>>
    <3>1. c.pc = "cleanup" /\ c.res = "none" /\ c.ids = Tail(d.ids)
      BY <1>1, <2>3 DEF Call
    <3>2. \A j \in DOMAIN Tail(d.ids) : Tail(d.ids)[j] \in NamesOf(d.name)
      BY <1>1, <2>3, TailHas DEF CallOK
    <3> QED BY <1>1, <1>7, <2>1, <3>1, <3>2 DEF CallOK, Launching
  <2> QED BY <1>4, <2>2, <2>3
<1>10. ASSUME NEW x \in DOMAIN vm', vm'[x].by = p, ~GaveUp(p)' PROVE Has(c.ids, x[2])
  <2>1. c.pc = "cleanup" \/ c.res = "timeout"
    BY <1>1, <1>4 DEF Call
  <2>2. faults' = 0 /\ faults = 0 /\ ~Fault
    BY <1>5, <1>10, <2>1 DEF GaveUp
  <2>3. Has(d.ids, x[2]) /\ x = <<LaunchPlace(d.name), x[2]>>
    BY <1>8, <1>10, <2>2 DEF GaveUp, Inv, NodeInv, NodeOK, TypeInv, NodeId
  <2>4. CASE c = ends
    BY <1>1, <2>3, <2>4 DEF Call
  <2>5. CASE d.ids # <<>> /\ c = tail /\ vm' = Drop(key)
    <3>1. x # key /\ c.ids = Tail(d.ids)
      BY <1>1, <2>5 DEF Drop, Restrict, Call
    <3> QED BY <1>1, <2>3, <2>5, <3>1, TailHas
  <2> QED BY <1>4, <2>2, <2>4, <2>5
<1>11. \A x \in DOMAIN vm' : NodeOK(x)'
  <2>1. NoneNew
    BY <1>8 DEF NoneNew, Inv, NodeInv, NodeOK
  <2> HIDE DEF c, d
  <2> QED BY <1>6, <1>7, <1>10, <2>1, NodesOK DEF c, d
<1>12. TerminateOK(p)' /\ NarrowOK'
  BY <1>1, <1>7 DEF TerminateOK, NarrowOK
<1>13. RecOK' /\ rec' \in [Names -> Calls \cup {None}] /\ DOMAIN vm' \subseteq NodeId
  BY <1>1, <1>6, <1>8, RecordsOK DEF Inv, TypeInv, TypeOK
<1> HIDE DEF c, d
<1> QED BY <1>1, <1>6, <1>7, <1>8, <1>9, <1>11, <1>12, <1>13, StepOK DEF c, d

-----------------------------------------------------------------------------
(* Operations on the instances on record *)

(* The nodes of a launch in reach are found by name. *)
LEMMA InReachFound ==
    ASSUME Inv, NEW x \in DOMAIN vm, Launched(vm[x].by, call[vm[x].by].name), InReach(vm[x].by)
    PROVE  x = Found(x[2])
<1> DEFINE q == vm[x].by
           n == call[q].name
<1>1. NodeOK(x) /\ q \in Calls /\ x = <<x[1], x[2]>> /\ CallOK(q)
  BY DEF Inv, NodeInv, TypeInv, Node, NodeId
<1>2. CASE cfg.kind = "azure"
  <2>1. Has(call[q].ids, x[2]) /\ Made(q, 1) /\ call[q].num = 1
    BY <1>1, <1>2 DEF NodeOK, GaveUp, Launched, CallOK, InReach
  <2>2. x[2] = NodeName(n, 1, 0)
    <3>1. PICK j \in DOMAIN call[q].ids : call[q].ids[j] = x[2]
      BY <2>1 DEF Has
    <3>2. j = 1
      BY <1>1, <2>1, <3>1, NumType DEF Made, Call
    <3> QED BY <2>1, <3>1, <3>2 DEF Made
  <2>3. n \in Seq(Piece)
    BY <1>1, NameSeq DEF CallOK, Launched
  <2>4. NodeName(n, 1, 0) = n
    <3>1. n \o <<>> = n
      BY <2>3
    <3> QED BY <1>2, <3>1 DEF NodeName, VmName, Suffix
  <2> QED BY <1>1, <1>2, <2>2, <2>4 DEF NodeOK, LaunchPlace, Found
<1>3. CASE cfg.kind # "azure"
  BY <1>1, <1>3 DEF NodeOK, LaunchPlace, Found, InReach
<1> QED BY <1>2, <1>3

(* What is found under the name of a node of a launch on record is that node. *)
LEMMA OwnPlace ==
    ASSUME Inv, NEW x \in DOMAIN vm, Launched(vm[x].by, call[vm[x].by].name),
           cfg.kind # "gcp" => InReach(vm[x].by), Sees(x[2])
    PROVE  x = Found(x[2])
<1>1. CASE cfg.kind = "gcp"
  <2>1. \A y \in DOMAIN vm : y[1] = LaunchPlace(call[vm[y].by].name) /\ y = <<y[1], y[2]>>
    BY DEF Inv, NodeInv, NodeOK, TypeInv, NodeId
  <2>2. Found(x[2]) \in DOMAIN vm /\ Found(x[2])[1] = "home"
    BY <1>1 DEF Sees, Found
  <2>3. ~cfg.away
    BY <1>1, <2>1, <2>2 DEF LaunchPlace
  <2> QED BY <1>1, <2>3, InReachFound DEF InReach
<1> QED BY <1>1, InReachFound

LEMMA EachInv ==
    ASSUME Inv, NEW p \in Calls, NEW o \in Op, NEW changed, o # "launch", Each(p, o, changed),
           \/ o = "terminate" /\ changed = GoAway(p)
           \/ /\ o # "terminate" /\ cfg.kind # "kubernetes"
              /\ \E s \in {"stopped", "pending"} : changed = Become(p, s)
    PROVE  Inv'
<1> DEFINE c == call'[p]
           d == call[p]
           fails == [d EXCEPT !.pc = "done", !.res = "error"]
           tail == [d EXCEPT !.ids = Tail(d.ids)]
<1>1. /\ d \in Call /\ CallOK(p) /\ d.op = o /\ d.res = "none" /\ d.pc = "each"
      /\ d.ids \in Seq(Seq(Piece)) /\ d.ids # <<>> /\ cfg' = cfg /\ rec' = rec
      /\ d.i <= d.num /\ d.try <= Retries
  BY DEF Each, Inv, NodeInv, TypeInv, TypeOK, CallOK, Call
<1>2. fails \in Call
  BY <1>1 DEF Call
<1>3. tail \in Call
  BY <1>1, TailHas DEF Call
<1>4. /\ call' \in [Calls -> Call]
      /\ \A q \in Calls : q # p => call'[q] = call[q]
      /\ \/ Sees(Head(d.ids)) /\ c = tail /\ vm' = changed /\ faults' = faults
         \/ ~Sees(Head(d.ids)) /\ c = tail /\ vm' = vm /\ faults' = faults /\ cfg.kind = "kubernetes"
         \/ c = fails /\ vm' = vm /\ (faults' = faults \/ Fault)
  BY <1>2, <1>3 DEF Each, Return, Inv, TypeInv
<1>5. faults' \in 0..MaxFaults /\ faults <= faults'
  BY <1>4, NumType, NodeProvidersAssumption DEF Fault, Inv, TypeInv, TypeOK
<1>6. Frame(p)
  BY <1>1, <1>4, <1>5 DEF Frame, Call
<1>7. c.op = o /\ c.name = d.name /\ c.num = d.num /\ c.i = d.i /\ c.try = d.try /\ c.of = d.of
  BY <1>1, <1>4 DEF Call
<1>8. NoneNew
  <2>1. CASE vm' = vm
    BY <2>1 DEF NoneNew, Inv, TypeInv, NodeInv, NodeOK
  <2>2. CASE vm' = GoAway(p)
    BY <2>2 DEF GoAway, NoneNew, Inv, TypeInv, NodeInv, NodeOK, Drop, Restrict
  <2>3. ASSUME NEW s \in {"stopped", "pending"}, vm' = Become(p, s), cfg.kind # "kubernetes"
        PROVE  NoneNew
    <3>1. \A x \in DOMAIN vm : vm[x] \in Node /\ vm[x].state \in States
      BY DEF Inv, TypeInv, NodeInv, NodeOK
    <3>2. /\ DOMAIN vm' = DOMAIN vm
          /\ \A x \in DOMAIN vm : vm'[x] = IF x = Found(Head(d.ids)) THEN [vm[x] EXCEPT !.state = s] ELSE vm[x]
      BY <2>3 DEF Become
    <3>3. ASSUME NEW x \in DOMAIN vm
          PROVE  /\ vm'[x] \in Node /\ vm'[x].by = vm[x].by
                 /\ vm'[x].head = vm[x].head /\ vm'[x].state \in States
      BY <2>3, <3>1, <3>2 DEF States, Node
    <3>4. vm' \in [DOMAIN vm' -> Node]
      BY <2>3, <3>2, <3>3 DEF Become
    <3> QED BY <3>2, <3>3, <3>4 DEF NoneNew
  <2> QED BY <1>4, <2>1, <2>2, <2>3
<1>9. CallOK(p)'
  <2>1. \A n : NamesOf(n)' = NamesOf(n)
    BY <1>1, NamesFixed
  <2>2. \A j \in DOMAIN c.ids : c.ids[j] \in NamesOf(d.name)
    <3>1. CASE c = fails
      BY <1>1, <3>1 DEF CallOK, Call
    <3>2. CASE c = tail
      BY <1>1, <3>2, TailHas DEF CallOK, Call
    <3> QED BY <1>4, <3>1, <3>2
  <2>3. \A x, n : Launched(x, n) => Launched(x, n)'
    <3>1. \A x, n : Launched(x, n) => call'[x] = call[x]
      BY <1>6, LaunchedStays
    <3> QED BY <3>1 DEF Launched
  <2>4. CASE c = fails
    <3>1. c.pc = "done" /\ c.res = "error"
      BY <1>1, <2>4 DEF Call
    <3> QED BY <1>1, <1>7, <2>1, <2>2, <3>1 DEF CallOK, Launching
  <2>5. CASE c = tail
    <3>1. c.pc = "each" /\ c.res = "none"
      BY <1>1, <2>5 DEF Call
    <3> QED BY <1>1, <1>7, <2>1, <2>2, <2>3, <3>1 DEF CallOK, Launching
  <2> QED BY <1>4, <2>4, <2>5
<1>10. TerminateOK(p)'
  <2> SUFFICES ASSUME c.op = "terminate", c.pc = "each" \/ c.res = "ok",
                      cfg.kind # "gcp" =>
                        (IF cfg.kind = "azure" THEN call'[c.of].num = 1 ELSE ~cfg.away),
                      NEW x \in DOMAIN vm', vm'[x].by = c.of
               PROVE  Has(c.ids, x[2])
    BY <1>1, <1>6 DEF TerminateOK, InReach, Frame
  <2>1. c = tail /\ c.ids = Tail(d.ids) /\ o = "terminate"
    BY <1>1, <1>2, <1>4, <1>7 DEF Call
  <2>2. Launched(d.of, d.name) /\ call'[d.of] = call[d.of] /\ call[d.of].name = d.name
    BY <1>1, <1>6, LaunchedStays DEF CallOK, Launched
  <2>3. cfg.kind # "gcp" => InReach(d.of)
    BY <1>1, <1>7, <2>2 DEF InReach
  <2>4. x \in DOMAIN vm /\ vm[x].by = d.of /\ Has(d.ids, x[2]) /\ NodeOK(x)
    BY <1>1, <1>7, <1>8, <2>1, <2>3 DEF NoneNew, TerminateOK, Inv, NodeInv
  <2>5. Sees(x[2]) => x = Found(x[2])
    BY <2>2, <2>3, <2>4, OwnPlace
  <2>6. x[2] # Head(d.ids)
    <3>1. CASE Sees(Head(d.ids)) /\ vm' = changed
      BY <2>1, <2>5, <3>1 DEF GoAway, Drop, Restrict
    <3>2. CASE ~Sees(Head(d.ids)) /\ cfg.kind = "kubernetes"
      <4>1. x = Found(x[2])
        BY <2>2, <2>3, <2>4, <3>2, InReachFound
      <4> QED BY <2>4, <3>2, <4>1 DEF Sees
    <3>3. c # fails
      BY <1>1, <2>1 DEF Call
    <3> QED BY <1>4, <2>1, <3>1, <3>2, <3>3
  <2> QED BY <1>1, <2>1, <2>4, <2>6, TailHas
<1>11. \A x \in DOMAIN vm' : NodeOK(x)'
  <2>1. \A x \in DOMAIN vm' : vm'[x].by # p
    BY <1>1, <1>8 DEF NoneNew, Inv, NodeInv, NodeOK
  <2> QED BY <1>6, <1>8, <2>1, NodesOK
<1>12. NarrowOK'
  <2>1. Stays
    <3>1. o = "terminate" => ~NoTerminate'
      BY <1>7 DEF NoTerminate
    <3> QED BY <1>4, <3>1 DEF Stays, Become
  <2>2. NoTerminate' => Narrow(p)'
    <3>1. NoTerminate' => NoTerminate
      BY <1>6 DEF NoTerminate, Frame
    <3>2. c.pc # "create" /\ c.op # "launch"
      BY <1>1, <1>4, <1>7 DEF Call
    <3> QED BY <3>2 DEF Narrow
  <2> QED BY <1>6, <2>1, <2>2, StaysNarrow
<1>13. RecOK' /\ rec' \in [Names -> Calls \cup {None}] /\ DOMAIN vm' \subseteq NodeId
  BY <1>1, <1>6, <1>8, RecordsOK DEF Inv, TypeInv, TypeOK, NoneNew
<1> HIDE DEF c, d
<1> QED BY <1>1, <1>6, <1>7, <1>8, <1>9, <1>10, <1>11, <1>12, <1>13, StepOK DEF c, d, NoneNew

LEMMA EachDoneInv ==
    ASSUME Inv, NEW p \in Calls, EachDone(p)
    PROVE  Inv'
<1> DEFINE c == call'[p]
           d == call[p]
           ends == [d EXCEPT !.pc = "done", !.res = "ok"]
<1>1. /\ d \in Call /\ CallOK(p) /\ d.op # "launch" /\ d.res = "none" /\ d.pc = "each"
      /\ d.ids = <<>> /\ UNCHANGED <<cfg, vm, faults>>
      /\ d.i <= d.num /\ d.try <= Retries
  BY DEF EachDone, Inv, NodeInv, TypeInv, TypeOK, CallOK, Call
<1>2. ends \in Call
  BY <1>1 DEF Call
<1>3. /\ call' \in [Calls -> Call]
      /\ \A q \in Calls : q # p => call'[q] = call[q]
      /\ c = ends
  BY <1>2 DEF EachDone, Return, Inv, TypeInv
<1>4. Frame(p)
  BY <1>1, <1>3, NumType DEF Frame, Inv, TypeInv, TypeOK
<1>5. c.op = d.op /\ c.name = d.name /\ c.num = d.num /\ c.i = d.i /\ c.try = d.try /\ c.of = d.of
      /\ c.pc = "done" /\ c.res = "ok" /\ c.ids = d.ids
  BY <1>1, <1>3 DEF Call
<1>6. NoneNew
  BY <1>1 DEF NoneNew, Inv, TypeInv, NodeInv, NodeOK
<1>7. \A x, n : Launched(x, n) => Launched(x, n)'
  <2>1. \A x, n : Launched(x, n) => call'[x] = call[x]
    BY <1>4, LaunchedStays
  <2> QED BY <2>1 DEF Launched
<1>8. CallOK(p)'
  BY <1>1, <1>5, <1>7 DEF CallOK, Launching
<1>9. TerminateOK(p)'
  <2>1. call'[d.of] = call[d.of]
    BY <1>1, <1>4, LaunchedStays DEF CallOK
  <2>2. (IF cfg.kind = "azure" THEN call'[c.of].num = 1 ELSE ~cfg.away) <=> InReach(d.of)
    BY <1>1, <1>5, <2>1 DEF InReach
  <2> QED BY <1>1, <1>5, <2>2 DEF TerminateOK, InReach, Inv, NodeInv
<1>10. \A x \in DOMAIN vm' : NodeOK(x)'
  <2>1. \A x \in DOMAIN vm' : vm'[x].by # p
    BY <1>1 DEF Inv, NodeInv, NodeOK
  <2> QED BY <1>4, <1>6, <2>1, NodesOK
<1>11. NarrowOK'
  <2>1. Stays
    BY <1>1 DEF Stays
  <2>2. Narrow(p)'
    BY <1>1, <1>5 DEF Narrow
  <2> QED BY <1>4, <2>1, <2>2, StaysNarrow
<1>12. RecOK' /\ rec' \in [Names -> Calls \cup {None}]
  <2>1. /\ rec' \in [Names -> Calls \cup {None}]
        /\ \A n \in Names : rec'[n] # None => rec'[n] = rec[n]
    BY DEF EachDone, Inv, TypeInv, TypeOK
  <2>2. \A n \in Names : rec'[n] # None => Launched(rec[n], n)
    BY <2>1 DEF Inv, NodeInv, RecOK
  <2>3. \A n \in Names : rec'[n] # None => Launched(rec[n], n)'
    <3> SUFFICES ASSUME NEW n \in Names, rec'[n] # None PROVE Launched(rec[n], n)'
      OBVIOUS
    <3>1. rec'[n] = rec[n] /\ Launched(rec[n], n)
      BY <2>1, <2>2
    <3>2. call'[rec[n]] = call[rec[n]]
      BY <1>4, <3>1, LaunchedStays
    <3> QED BY <3>1, <3>2 DEF Launched
  <2> QED BY <2>1, <2>3 DEF RecOK
<1> HIDE DEF c, d
<1> QED BY <1>1, <1>3, <1>4, <1>5, <1>8, <1>9, <1>10, <1>11, <1>12, StepOK
        DEF c, d, Inv, TypeInv, TypeOK

-----------------------------------------------------------------------------
(* The cloud *)

LEMMA CloudInv ==
    ASSUME Inv, UNCHANGED <<cfg, rec, call>>, NoneNew, Stays,
           faults' \in 0..MaxFaults, faults <= faults'
    PROVE  Inv'
<1>1. TypeInv'
  <2>1. \A x \in DOMAIN vm' : vm'[x] \in Node
    BY DEF NoneNew
  <2> QED BY <2>1 DEF NoneNew, Inv, TypeInv, TypeOK, Node
<1>2. CfgOK' /\ RecOK'
  BY DEF CfgOK, RecOK, Launched, Inv, NodeInv
<1>3. States' = States /\ (\A n : LaunchPlace(n)' = LaunchPlace(n) /\ NamesOf(n)' = NamesOf(n))
  BY NamesFixed
<1>4. \A n, num, i : NodeName(n, num, i)' = NodeName(n, num, i) /\ VmName(n, num, i)' = VmName(n, num, i)
  BY NamesFixed
<1>5. \A q \in Calls : CallOK(q)'
  <2> SUFFICES ASSUME NEW q \in Calls PROVE CallOK(q)'
    OBVIOUS
  <2>1. \A len : Made(q, len)' <=> Made(q, len)
    BY <1>4 DEF Made
  <2>2. \A x, n : Launched(x, n)' <=> Launched(x, n)
    BY DEF Launched
  <2> QED BY <1>3, <2>1, <2>2 DEF CallOK, Inv, NodeInv
<1>6. \A q \in Calls : TerminateOK(q)'
  BY DEF TerminateOK, InReach, NoneNew, Inv, NodeInv
<1>7. \A x \in DOMAIN vm' : NodeOK(x)'
  <2> SUFFICES ASSUME NEW x \in DOMAIN vm' PROVE NodeOK(x)'
    OBVIOUS
  <2>1. /\ x \in DOMAIN vm /\ NodeOK(x) /\ vm'[x].by = vm[x].by
        /\ vm'[x].head = vm[x].head /\ vm'[x].state \in States
    BY DEF NoneNew, Inv, NodeInv
  <2>2. \A q : ~GaveUp(q)' => ~GaveUp(q)
    BY NumType, NodeProvidersAssumption DEF GaveUp
  <2> QED BY <1>3, <2>1, <2>2 DEF NodeOK
<1>8. NarrowOK'
  BY <1>3, <1>4 DEF NarrowOK, Narrow, NoTerminate, Stays, Inv, NodeInv
<1> QED BY <1>1, <1>2, <1>5, <1>6, <1>7, <1>8 DEF Inv, NodeInv

LEMMA CloudStepsInv ==
    ASSUME Inv, NEW id \in DOMAIN vm, Boot(id) \/ Gone(id) \/ PodFails(id)
    PROVE  Inv'
<1>1. \A x \in DOMAIN vm : vm[x] \in Node /\ vm[x].state \in States
  BY DEF Inv, TypeInv, NodeInv, NodeOK
<1>2. UNCHANGED <<cfg, rec, call>> /\ faults' \in 0..MaxFaults /\ faults <= faults'
  BY NumType, NodeProvidersAssumption DEF Boot, Gone, PodFails, Fault, Inv, TypeInv, TypeOK
<1>3. CASE Gone(id)
  <2>1. cfg.kind = "kubernetes"
    BY <1>1, <1>3 DEF Gone, States
  <2>2. NoneNew
    BY <1>1, <1>3 DEF Gone, NoneNew, Drop, Restrict, Inv, TypeInv
  <2> QED BY <1>2, <2>1, <2>2, CloudInv DEF Stays
<1>4. ASSUME NEW s \in States, vm' = [vm EXCEPT ![id].state = s]
      PROVE  Inv'
  <2>1. /\ DOMAIN vm' = DOMAIN vm
        /\ \A x \in DOMAIN vm : vm'[x] = IF x = id THEN [vm[x] EXCEPT !.state = s] ELSE vm[x]
    BY <1>4
  <2>2. ASSUME NEW x \in DOMAIN vm
        PROVE  /\ vm'[x] \in Node /\ vm'[x].by = vm[x].by
               /\ vm'[x].head = vm[x].head /\ vm'[x].state \in States
    BY <1>1, <2>1 DEF States, Node
  <2>3. vm' \in [DOMAIN vm' -> Node]
    BY <1>4, <2>1, <2>2
  <2> QED BY <1>2, <2>1, <2>2, <2>3, CloudInv DEF NoneNew, Stays
<1>5. CASE Boot(id)
  BY <1>4, <1>5 DEF Boot, States
<1>6. CASE PodFails(id)
  BY <1>4, <1>6 DEF PodFails, States
<1> QED BY <1>3, <1>5, <1>6

-----------------------------------------------------------------------------
(* The inductive invariant *)

LEMMA InitInv == Init => Inv
<1> SUFFICES ASSUME Init PROVE Inv
  OBVIOUS
<1>1. NoCall \in Call
  BY DEF NoCall, Call
<1>2. TypeInv
  <2>1. \A p \in Calls : call[p] = NoCall
    BY DEF Init
  <2>2. cfg.kind \in Kinds
    BY NodeProvidersAssumption DEF Init
  <2>3. vm \in [DOMAIN vm -> Node] /\ DOMAIN vm = {}
    BY DEF Init
  <2> QED BY <1>1, <2>1, <2>2, <2>3, NodeProvidersAssumption DEF Init, TypeInv, TypeOK, NoCall
<1>3. \A p \in Calls : CallOK(p) /\ TerminateOK(p)
  BY DEF Init, CallOK, TerminateOK, NoCall, Launching
<1>4. RecOK /\ NarrowOK
  BY DEF Init, RecOK, NarrowOK, Narrow, NoCall
<1> QED BY <1>2, <1>3, <1>4 DEF Inv, NodeInv, Init, CfgOK

LEMMA StepInv ==
    ASSUME Inv, NEW p \in Calls, Step(p)
    PROVE  Inv'
<1>1. CASE DeleteStale(p)
  BY <1>1, DeleteStaleInv
<1>2. CASE CreatePod(p)
  BY <1>2, CreatePodInv
<1>3. CASE GcpCreate(p) \/ AzureCreate(p)
  BY <1>3, GcpAzureCreateInv
<1>4. CASE PodReady(p)
  BY <1>4, PodReadyInv
<1>5. CASE PodWaitTimeout(p)
  BY <1>5, PodWaitTimeoutInv
<1>6. CASE PodIP(p)
  BY <1>6, PodIPInv
<1>7. CASE Cleanup(p)
  BY <1>7, CleanupInv
<1>8. CASE PodTerminate(p) \/ GcpTerminate(p) \/ AzureTerminate(p)
  BY <1>8, EachInv DEF PodTerminate, GcpTerminate, AzureTerminate, Op
<1>9. CASE GcpStop(p) \/ AzureStop(p)
  BY <1>9, EachInv DEF GcpStop, AzureStop, Op
<1>10. CASE GcpStart(p) \/ AzureStart(p)
  BY <1>10, EachInv DEF GcpStart, AzureStart, Op
<1>11. CASE EachDone(p)
  BY <1>11, EachDoneInv
<1> QED BY <1>1, <1>2, <1>3, <1>4, <1>5, <1>6, <1>7, <1>8, <1>9, <1>10, <1>11 DEF Step

LEMMA NextInv == Inv /\ [Next]_vars => Inv'
<1> SUFFICES ASSUME Inv, [Next]_vars PROVE Inv'
  OBVIOUS
<1>1. ASSUME NEW p \in Calls, NEW o \in Op, NEW n \in Names, Begin(p, o, n) PROVE Inv'
  BY <1>1, BeginInv
<1>5. ASSUME NEW p \in Calls, NEW n \in Names, NEW num \in Sizes, BeginLaunch(p, n, num) PROVE Inv'
  BY <1>5, BeginLaunchInv
<1>2. ASSUME NEW p \in Calls, Step(p) PROVE Inv'
  BY <1>2, StepInv
<1>3. ASSUME NEW id \in DOMAIN vm, Boot(id) \/ Gone(id) \/ PodFails(id) PROVE Inv'
  BY <1>3, CloudStepsInv
<1>4. CASE UNCHANGED vars
  <2>1. NoneNew /\ Stays
    BY <1>4 DEF vars, NoneNew, Stays, Inv, TypeInv, NodeInv, NodeOK
  <2> QED BY <1>4, <2>1, NumType, CloudInv DEF vars, Inv, TypeInv, TypeOK
<1> QED BY <1>1, <1>2, <1>3, <1>4, <1>5 DEF Next

(* The calls, nodes and records of NodeProviders keep to Inv: what each RunInstances
   and terminate of gcp/provider.go, azure/provider.go and kubernetes/provider.go
   has done so far is in its list, and what it made is where it put it. *)
THEOREM NodesAreInOrder == Spec => []Inv
<1>1. Init => Inv
  BY InitInv
<1>2. Inv /\ [Next]_vars => Inv'
  BY NextInv
<1> QED BY <1>1, <1>2, PTL DEF Spec

-----------------------------------------------------------------------------
(* Launches are whole *)

(* The names of a launch that returned are those of different nodes. *)
LEMMA NamesDiffer ==
    ASSUME NEW n \in Names, NEW num \in Nat, cfg.kind = "kubernetes" \/ num <= 2,
           NEW i \in 0..(num - 1), NEW j \in 0..(num - 1), i # j
    PROVE  NodeName(n, num, i) # NodeName(n, num, j)
<1>1. num # 1 /\ (i = 0 \/ j = 0 \/ cfg.kind = "kubernetes") /\ i \in Nat /\ j \in Nat
  OBVIOUS
<1>2. /\ <<"-head", 0>> \in Piece
      /\ \A w \in Nat : <<"-worker", w>> \in Piece
  BY DEF Piece
<1> HIDE DEF Piece
<1>3. \A m \in Seq(Piece), x \in Piece, y \in Piece : m \o <<x>> = m \o <<y>> => x = y
  <2> SUFFICES ASSUME NEW m \in Seq(Piece), NEW x \in Piece, NEW y \in Piece
               PROVE  m \o <<x>> = m \o <<y>> => x = y
    OBVIOUS
  <2>1. (m \o <<x>>)[Len(m) + 1] = x /\ (m \o <<y>>)[Len(m) + 1] = y
    OBVIOUS
  <2> QED BY <2>1
<1>4. \A m \in Names : m \in Seq(Piece)
  BY NameSeq
<1>5. truncateName(n) \in Names
  BY DEF truncateName, Truncated
<1> DEFINE piece(k) == IF k = 0 THEN <<"-head", 0>>
                       ELSE <<"-worker", IF cfg.kind = "kubernetes" THEN k ELSE 0>>
           base == IF cfg.kind = "kubernetes" THEN truncateName(n) ELSE n
<1>6. \A k \in Nat : NodeName(n, num, k) = base \o <<piece(k)>> /\ piece(k) \in Piece
  BY <1>1, <1>2 DEF NodeName, PodName, VmName, Suffix
<1>7. piece(i) # piece(j)
  BY <1>1
<1>8. base \in Seq(Piece)
  BY <1>4, <1>5
<1> HIDE DEF piece, base
<1> QED BY <1>1, <1>3, <1>6, <1>7, <1>8

(* What a launch returns, and what one that gave up leaves. *)
LEMMA WholeLaunches == Inv => LaunchesAreWhole
<1> SUFFICES ASSUME Inv PROVE LaunchesAreWhole
  OBVIOUS
<1>1. CleanupIsComplete
  <2> SUFFICES ASSUME faults = 0, NEW p \in Calls, call[p].res = "timeout", NEW id \in DOMAIN vm
               PROVE  vm[id].by # p
    BY DEF CleanupIsComplete
  <2>1. call[p].ids = <<>>
    BY DEF Inv, NodeInv, CallOK
  <2>2. ~Has(call[p].ids, id[2])
    BY <2>1 DEF Has
  <2> QED BY <2>2 DEF Inv, NodeInv, NodeOK, GaveUp
<1>2. LaunchReturnsAllNodes
  <2> SUFFICES ASSUME NEW p \in Calls, call[p].op = "launch", call[p].res = "ok"
               PROVE  /\ (cfg.kind = "kubernetes" \/ NoTerminate) =>
                           Cardinality({call[p].ids[i] : i \in DOMAIN call[p].ids}) = call[p].num
                      /\ \A id \in DOMAIN vm :
                           (vm[id].by = p /\ cfg.kind = "kubernetes") => vm[id].head
    BY DEF LaunchReturnsAllNodes
  <2> DEFINE ids == call[p].ids
             num == call[p].num
           made == {ids[i] : i \in DOMAIN ids}
  <2>1. num \in Nat /\ ids \in Seq(Seq(Piece)) /\ call[p].name \in Names
    BY NumType DEF Inv, TypeInv, NodeInv, CallOK, NoCall, Call
  <2>2. Made(p, num)
    BY DEF Inv, NodeInv, CallOK
  <2>3. DOMAIN ids = 1..num
    BY <2>1, <2>2 DEF Made
  <2>4. ASSUME cfg.kind = "kubernetes" \/ NoTerminate PROVE Cardinality(made) = num
    <3>1. cfg.kind = "kubernetes" \/ num <= 2
      <4>1. cfg.kind # "kubernetes" => Narrow(p)
        BY <2>4 DEF Inv, NodeInv, NarrowOK
      <4>2. Narrow(p) => ~(num > 2)
        BY DEF Narrow
      <4> QED BY <2>1, <4>1, <4>2
    <3>2. \A i, j \in 1..num : i # j => ids[i] # ids[j]
      <4> SUFFICES ASSUME NEW i \in 1..num, NEW j \in 1..num, i # j PROVE ids[i] # ids[j]
        OBVIOUS
      <4>1. i - 1 \in 0..(num - 1) /\ j - 1 \in 0..(num - 1) /\ i - 1 # j - 1
        BY <2>1
      <4>2. NodeName(call[p].name, num, i - 1) # NodeName(call[p].name, num, j - 1)
        BY <2>1, <3>1, <4>1, NamesDiffer
      <4> QED BY <2>2, <4>2 DEF Made
    <3>3. ids \in Bijection(1..num, made)
      <4>1. ids \in [1..num -> made]
        BY <2>1, <2>3
      <4>2. DOMAIN ids = 1..num /\ \A t \in made : \E i \in 1..num : ids[i] = t
        BY <2>3
      <4> HIDE DEF made, ids
      <4> QED BY <3>2, <4>1, <4>2 DEF Bijection, Injection, Surjection, IsInjective
    <3> QED BY <2>1, <3>3, FS_CountingElements DEF ExistsBijection
  <2>8. \A id \in DOMAIN vm : vm[id].head
    BY DEF Inv, NodeInv, NodeOK
  <2> QED BY <2>4, <2>8
<1> QED BY <1>1, <1>2 DEF LaunchesAreWhole

(* A RunInstances that returns its instances made each of the NumNodes nodes
   itself, under names that differ, and told each worker where the head is; one
   that gave up on a pod left none, unless a delete failed. *)
THEOREM LaunchesAreAlwaysWhole == Spec => []LaunchesAreWhole
<1>1. Spec => []Inv
  BY NodesAreInOrder
<1> QED BY <1>1, WholeLaunches, PTL

-----------------------------------------------------------------------------
(* Records are true *)

LEMMA Described ==
    ASSUME Inv, NEW id \in DOMAIN vm, id = Found(id[2])
    PROVE  \E s \in {"pending", "running", "terminated"} : <<id, s>> \in DescribeInstances({id[2]})
<1>1. vm[id].state \in States /\ cfg.kind \in {"kubernetes", "gcp", "azure"}
  BY NodeProvidersAssumption DEF Inv, TypeInv, TypeOK, NodeInv, NodeOK
<1>2. {Found(j) : j \in {id[2]}} \cap DOMAIN vm = {id}
  OBVIOUS
<1>3. CASE cfg.kind = "kubernetes"
  <2>1. podToInstance(vm[id].state) \in {"pending", "running", "terminated"}
    BY <1>1, <1>3 DEF States, podToInstance
  <2>2. <<id, podToInstance(vm[id].state)>> \in DescribeInstances({id[2]})
    BY <1>2, <1>3 DEF DescribeInstances, PodDescribe
  <2> QED BY <2>1, <2>2
<1>4. CASE cfg.kind = "gcp"
  <2>1. gcpStatusToCloud(GcpReports(vm[id].state)) \in {"pending", "running", "terminated"}
    BY <1>1, <1>4 DEF States, gcpStatusToCloud, GcpReports
  <2>2. <<id, gcpStatusToCloud(GcpReports(vm[id].state))>> \in DescribeInstances({id[2]})
    BY <1>2, <1>4 DEF DescribeInstances, GcpDescribe
  <2> QED BY <2>1, <2>2
<1>5. CASE cfg.kind = "azure"
  <2>1. azureStatusToCloud(AzureReports(vm[id].state)) \in {"pending", "running", "terminated"}
    BY <1>1, <1>5 DEF States, azureStatusToCloud, AzureReports
  <2>2. <<id, azureStatusToCloud(AzureReports(vm[id].state))>> \in DescribeInstances({id[2]})
    BY <1>2, <1>5 DEF DescribeInstances, AzureDescribe
  <2> QED BY <2>1, <2>2
<1> QED BY <1>1, <1>3, <1>4, <1>5

(* The name of a node begins with that of its cluster, on gcp and azure. *)
LEMMA NamePrefix ==
    ASSUME NEW n \in Names, NEW m \in NamesOf(n), cfg.kind # "kubernetes"
    PROVE  HasPrefix(m, n)
<1>1. PICK num \in Sizes, i \in Nat : m = NodeName(n, num, i)
  BY DEF NamesOf
<1>2. m = n \o Suffix(num, i, 0) /\ n \in Seq(Piece) /\ Suffix(num, i, 0) \in Seq(Piece)
  BY <1>1, NameSeq DEF NodeName, VmName
<1> QED BY <1>2 DEF HasPrefix

LEMMA TrueRecords == Inv => RecordsAreTrue
<1> SUFFICES ASSUME Inv PROVE RecordsAreTrue
  OBVIOUS
<1>1. RecordedAreFound
  <2> SUFFICES ASSUME NEW n \in Names, rec[n] # None, InReach(rec[n]),
                      NEW id \in DOMAIN vm, vm[id].by = rec[n]
               PROVE  /\ id \in ListInstances(n)
                      /\ \E s \in {"pending", "running", "terminated"} :
                            <<id, s>> \in DescribeInstances({id[2]})
    BY DEF RecordedAreFound
  <2>1. Launched(vm[id].by, n) /\ call[vm[id].by].name = n
    BY DEF Inv, NodeInv, RecOK, Launched
  <2>2. id = Found(id[2])
    BY <2>1, InReachFound
  <2>3. id \in ListInstances(n)
    <3>1. id \in PodList(n)
      BY <2>1, <2>2 DEF PodList
    <3>2. cfg.kind # "kubernetes" => id \in GcpList(n) /\ id \in AzureList(n)
      <4>1. id[2] \in NamesOf(n)
        BY <2>1 DEF Inv, NodeInv, NodeOK
      <4> QED BY <2>2, <4>1, NamePrefix DEF GcpList, AzureList
    <3>3. cfg.kind \in {"kubernetes", "gcp", "azure"}
      BY NodeProvidersAssumption DEF Inv, TypeInv, TypeOK
    <3> QED BY <3>1, <3>2, <3>3 DEF ListInstances
  <2> QED BY <2>2, <2>3, Described
<1>2. TerminatedAreGone
  <2> SUFFICES ASSUME NEW p \in Calls,
                      call[p].op = "terminate", call[p].res = "ok",
                      cfg.kind # "gcp" => InReach(call[p].of),
                      NEW id \in DOMAIN vm, vm[id].by = call[p].of
               PROVE  FALSE
    BY DEF TerminatedAreGone
  <2>1. call[p].ids = <<>>
    BY DEF Inv, NodeInv, CallOK
  <2>2. Has(call[p].ids, id[2])
    BY DEF Inv, NodeInv, TerminateOK
  <2> QED BY <2>1, <2>2 DEF Has
<1> QED BY <1>1, <1>2 DEF RecordsAreTrue

(* The instances a caller has on record that still exist are where DescribeInstances
   and ListInstances look, and after a TerminateInstances without an error none of
   them is left, whatever calls ran in between and whichever failed. *)
THEOREM RecordsAreAlwaysTrue == Spec => []RecordsAreTrue
<1>1. Spec => []Inv
  BY NodesAreInOrder
<1> QED BY <1>1, TrueRecords, PTL

-----------------------------------------------------------------------------
(* Other clusters *)

(* A call goes on for the cluster it began for. *)
LEMMA StepKeepsName ==
    ASSUME Inv, NEW p \in Calls, Step(p)
    PROVE  /\ \A q \in Calls : q # p => call'[q] = call[q]
           /\ call'[p].name = call[p].name
<1> DEFINE name == Name(p)
<1>1. call[p] \in Call /\ call \in [Calls -> Call]
  BY DEF Inv, TypeInv
<1>2. ASSUME NEW x, Advance(p, x)
      PROVE  /\ \A q \in Calls : q # p => call'[q] = call[q]
             /\ call'[p].name = call[p].name
  BY <1>1, <1>2 DEF Advance, Call
<1>3. ASSUME NEW r, call' = Return(p, r)
      PROVE  /\ \A q \in Calls : q # p => call'[q] = call[q]
             /\ call'[p].name = call[p].name
  BY <1>1, <1>3 DEF Return, Call
<1>4. ASSUME call' = [call EXCEPT ![p].ids = Tail(@)]
      PROVE  /\ \A q \in Calls : q # p => call'[q] = call[q]
             /\ call'[p].name = call[p].name
  BY <1>1, <1>4 DEF Call
<1>5. CASE DeleteStale(p)
  BY <1>1, <1>5 DEF DeleteStale, Call
<1>6. CASE CreatePod(p)
  <2>1. \/ call' = Return(p, "error")
        \/ call' = [call EXCEPT ![p].ids = Append(@, name), ![p].pc = "wait"]
    BY <1>6 DEF CreatePod, CreateFails
  <2> HIDE DEF name
  <2> QED BY <1>1, <1>3, <2>1 DEF Call
<1>7. CASE GcpCreate(p) \/ AzureCreate(p)
  BY <1>2, <1>3, <1>7 DEF GcpCreate, AzureCreate, CreateFails
<1>8. CASE PodReady(p)
  <2>1. Advance(p, name) \/ call' = [call EXCEPT ![p].pc = "ip"]
    BY <1>8 DEF PodReady
  <2> QED BY <1>1, <1>2, <2>1 DEF Call
<1>9. CASE PodWaitTimeout(p)
  BY <1>1, <1>9 DEF PodWaitTimeout, Call
<1>10. CASE PodIP(p)
  <2>1. \/ call' = [call EXCEPT ![p].head = TRUE, ![p].i = @ + 1, ![p].try = 0, ![p].pc = "stale"]
        \/ call' = [call EXCEPT ![p].pc = "cleanup"]
    BY <1>10 DEF PodIP
  <2> QED BY <1>1, <2>1 DEF Call
<1>11. CASE Cleanup(p) \/ EachDone(p)
  BY <1>3, <1>4, <1>11 DEF Cleanup, EachDone
<1>12. ASSUME NEW o, NEW changed, Each(p, o, changed)
       PROVE  /\ \A q \in Calls : q # p => call'[q] = call[q]
              /\ call'[p].name = call[p].name
  BY <1>3, <1>4, <1>12 DEF Each
<1>13. CASE PodTerminate(p) \/ GcpStop(p) \/ GcpStart(p) \/ GcpTerminate(p)
               \/ AzureStop(p) \/ AzureStart(p) \/ AzureTerminate(p)
  BY <1>12, <1>13 DEF PodTerminate, GcpStop, GcpStart, GcpTerminate,
                      AzureStop, AzureStart, AzureTerminate
<1> QED BY <1>5, <1>6, <1>7, <1>8, <1>9, <1>10, <1>11, <1>13 DEF Step

(* A node whose name is not one of the call's cluster is left as it is. *)
LEMMA StepTouchesOwn ==
    ASSUME Inv, NEW p \in Calls, Step(p), NEW id \in DOMAIN vm,
           id[2] \notin NamesOf(call[p].name)
    PROVE  id \in DOMAIN vm' /\ vm'[id] = vm[id]
<1>1. call[p] \in Call /\ CallOK(p) /\ vm \in [DOMAIN vm -> Node]
  BY DEF Inv, TypeInv, NodeInv
<1>2. call[p].pc \in {"stale", "create"} => id # Id(p)
  BY <1>1, NameType DEF Id, Name, CallOK, Call, Launching
<1>3. call[p].ids # <<>> => id[2] # Head(call[p].ids)
  <2>1. call[p].ids # <<>> => 1 \in DOMAIN call[p].ids /\ Head(call[p].ids) = call[p].ids[1]
    BY <1>1 DEF Call
  <2> QED BY <1>1, <2>1 DEF CallOK
<1>4. \A x, v : x \notin DOMAIN vm /\ vm' = Put(x, v) => id \in DOMAIN vm' /\ vm'[id] = vm[id]
  BY DEF Put
<1>5. call[p].ids # <<>> /\ (vm' = DropPod(p) \/ vm' = GoAway(p)) =>
        id \in DOMAIN vm' /\ vm'[id] = vm[id]
  BY <1>3 DEF DropPod, GoAway, Found, Drop, Restrict
<1>6. ASSUME NEW s, call[p].ids # <<>>, vm' = Become(p, s)
      PROVE  id \in DOMAIN vm' /\ vm'[id] = vm[id]
  BY <1>3, <1>6 DEF Become, Found
<1>7. CASE DeleteStale(p)
  BY <1>2, <1>7 DEF DeleteStale
<1>8. CASE CreatePod(p)
  BY <1>4, <1>8 DEF CreatePod, CreateFails
<1>9. CASE GcpCreate(p) \/ AzureCreate(p)
  BY <1>4, <1>9 DEF GcpCreate, AzureCreate, CreateFails
<1>10. CASE PodReady(p) \/ PodWaitTimeout(p) \/ PodIP(p) \/ EachDone(p)
  BY <1>10 DEF PodReady, PodWaitTimeout, PodIP, EachDone
<1>11. CASE Cleanup(p)
  BY <1>5, <1>11 DEF Cleanup
<1>12. ASSUME NEW o, NEW changed, Each(p, o, changed)
       PROVE  call[p].ids # <<>> /\ (vm' = changed \/ vm' = vm)
  BY <1>12 DEF Each
<1>13. CASE PodTerminate(p) \/ GcpTerminate(p) \/ AzureTerminate(p)
  <2>1. call[p].ids # <<>> /\ (vm' = GoAway(p) \/ vm' = vm)
    BY <1>12, <1>13 DEF PodTerminate, GcpTerminate, AzureTerminate
  <2> QED BY <1>5, <2>1
<1>14. CASE GcpStop(p) \/ GcpStart(p) \/ AzureStop(p) \/ AzureStart(p)
  <2>1. call[p].ids # <<>> /\ (vm' = vm \/ \E s \in {"stopped", "pending"} : vm' = Become(p, s))
    BY <1>12, <1>14 DEF GcpStop, GcpStart, AzureStop, AzureStart
  <2> QED BY <1>6, <2>1
<1> QED BY <1>7, <1>8, <1>9, <1>10, <1>11, <1>13, <1>14 DEF Step

LEMMA SameFront ==
    ASSUME NEW S, NEW n \in Seq(S), NEW m \in Seq(S), NEW y \in S, NEW z \in S,
           n \o <<y>> = m \o <<z>>
    PROVE  n = m
<1>1. Len(n) = Len(m)
  <2>1. Len(n \o <<y>>) = Len(n) + 1 /\ Len(m \o <<z>>) = Len(m) + 1
    OBVIOUS
  <2> QED BY <2>1
<1>2. \A k \in 1..Len(n) : n[k] = m[k]
  <2>1. \A k \in 1..Len(n) : (n \o <<y>>)[k] = n[k]
    OBVIOUS
  <2>2. \A k \in 1..Len(m) : (m \o <<z>>)[k] = m[k]
    OBVIOUS
  <2> QED BY <1>1, <2>1, <2>2
<1>3. n = [k \in 1..Len(n) |-> n[k]] /\ m = [k \in 1..Len(m) |-> m[k]]
  OBVIOUS
<1> QED BY <1>1, <1>2, <1>3

(* Different names that do not meet have no name of a node in common. *)
LEMMA NamesApart ==
    ASSUME NEW n \in Names, NEW m \in Names, n # m, ~NamesMeet(n, m), ~cfg.long,
           NEW x \in NamesOf(n)
    PROVE  x \notin NamesOf(m)
<1> SUFFICES ASSUME x \in NamesOf(m) PROVE FALSE
  OBVIOUS
<1>1. \A k \in Names : k \in Seq(Piece)
  BY NameSeq
<1>2. ASSUME NEW k \in Names, x \in NamesOf(k)
      PROVE  x = k \/ \E y \in Piece : x = k \o <<y>>
  <2>1. PICK num \in Sizes, i \in Nat : x = NodeName(k, num, i)
    BY <1>2 DEF NamesOf
  <2>2. PICK w \in Nat : x = k \o Suffix(num, i, w)
    BY <2>1 DEF NodeName, PodName, VmName, truncateName
  <2>3. k \o <<>> = k
    BY <1>1
  <2>4. <<"-head", 0>> \in Piece /\ <<"-worker", w>> \in Piece
    BY DEF Piece
  <2> QED BY <2>2, <2>3, <2>4 DEF Suffix
<1>3. x = n \/ \E y \in Piece : x = n \o <<y>>
  BY <1>2
<1>4. x = m \/ \E y \in Piece : x = m \o <<y>>
  BY <1>2
<1> HIDE DEF Piece
<1>5. n \in Seq(Piece) /\ m \in Seq(Piece)
  BY <1>1
<1>6. \A y, z \in Piece : n \o <<y>> = m \o <<z>> => n = m
  BY <1>5, SameFront
<1>7. \A y \in Piece : n = m \o <<y>> => HasPrefix(n, m) /\ Len(n) = Len(m) + 1
  BY <1>5 DEF HasPrefix
<1>8. \A y \in Piece : m = n \o <<y>> => HasPrefix(m, n) /\ Len(m) = Len(n) + 1
  BY <1>5 DEF HasPrefix
<1> QED BY <1>3, <1>4, <1>6, <1>7, <1>8 DEF NamesMeet

LEMMA UntouchedStep ==
    ASSUME Inv, [Next]_vars, ~cfg.long, NEW p \in Calls, call'[p] # call[p],
           NEW id \in DOMAIN vm, call'[p].name # Cluster(id), ~NamesMeet(call'[p].name, Cluster(id))
    PROVE  id \in DOMAIN vm' /\ vm'[id] = vm[id]
<1>1. ASSUME NEW q \in Calls, NEW n \in Names, NEW num \in Sizes, BeginLaunch(q, n, num)
      PROVE  id \in DOMAIN vm' /\ vm'[id] = vm[id]
  BY <1>1 DEF BeginLaunch
<1>2. ASSUME NEW q \in Calls, NEW o \in Op, NEW n \in Names, Begin(q, o, n)
      PROVE  id \in DOMAIN vm' /\ vm'[id] = vm[id]
  BY <1>2 DEF Begin
<1>3. ASSUME NEW q \in Calls, Step(q)
      PROVE  id \in DOMAIN vm' /\ vm'[id] = vm[id]
  <2>1. q = p /\ call'[p].name = call[p].name
    BY <1>3, StepKeepsName
  <2>2. call[p].name \in Names /\ Cluster(id) \in Names /\ id[2] \in NamesOf(Cluster(id))
    <3>1. NodeOK(id) /\ vm[id].by \in Calls /\ CallOK(vm[id].by) /\ CallOK(p)
      BY DEF Inv, NodeInv, TypeInv, Node
    <3>2. call[p].pc # "idle"
      BY <1>3, <2>1 DEF Step, DeleteStale, CreatePod, GcpCreate, AzureCreate, PodReady,
            PodWaitTimeout, PodIP, Cleanup, PodTerminate, GcpStop, GcpStart, GcpTerminate,
            AzureStop, AzureStart, AzureTerminate, Each, EachDone
    <3> QED BY <3>1, <3>2 DEF CallOK, NodeOK, Cluster, NoCall
  <2>3. id[2] \notin NamesOf(call[p].name)
    <3> DEFINE n == call[p].name
               m == Cluster(id)
    <3>1. m # n /\ ~NamesMeet(m, n)
      BY <2>1 DEF NamesMeet
    <3> HIDE DEF n, m
    <3> QED BY <2>2, <3>1, NamesApart DEF n, m
  <2> QED BY <1>3, <2>1, <2>3, StepTouchesOwn
<1>4. \A x \in DOMAIN vm : ~(Boot(x) \/ Gone(x) \/ PodFails(x))
  BY DEF Boot, Gone, PodFails
<1>5. ~UNCHANGED vars
  BY DEF vars
<1> QED BY <1>1, <1>2, <1>3, <1>4, <1>5 DEF Next

(* No step of a launch, clean-up, stop, start or terminate touches a node of
   another cluster, as long as the names of the two clusters do not meet, as
   `train' and `train-head' do, and survive truncateName. *)
THEOREM OtherClustersStayUntouched == Spec => OtherClustersUntouched
<1>1. Spec => []Inv
  BY NodesAreInOrder
<1>2. Inv /\ [Next]_vars =>
        [~cfg.long => \A p \in Calls : call'[p] # call[p] =>
           \A id \in DOMAIN vm :
              LET n == call'[p].name
                  m == Cluster(id)
              IN  n = m \/ NamesMeet(n, m) \/ (id \in DOMAIN vm' /\ vm'[id] = vm[id])]_vars
  BY UntouchedStep
<1> QED BY <1>1, <1>2, PTL DEF Spec, OtherClustersUntouched
=============================================================================
