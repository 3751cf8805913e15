----------------------------- MODULE TasksProofs -----------------------------
(***************************************************************************)
(* Proofs about the path of a task, module by module: the cache of what is *)
(* offered and at which price (MetaCache), the schedule of its job         *)
(* (Schedule), its placement (Placement) and its execution (Execution).    *)
(***************************************************************************)
EXTENDS MetaCache, Schedule, Placement, Execution, SequenceTheorems, FiniteSetTheorems,
        WellFoundedInduction, TLAPS

-----------------------------------------------------------------------------
(* MetaCache: what counts as fresh is young, in whatever order the overlapping
   fetches end, and what is cached is never lost. *)

(* A fetch is under way, or has ended and its answer is not stored. *)
Busy(c) == call[c].pc \in {"fetch", "store"}

(* A look-up is not after its answer. *)
CallOK(c) ==
    LET d == call[c]
    IN  /\ Busy(c) => d.kind \in Kind /\ d.at <= now
        /\ (Busy(c) /\ d.kind \in {"prices", "forced"}) => d.entry \in PriceEntry \cup {Nil}
        /\ d.pc = "fetch" => ~d.err
        /\ (d.pc = "store" /\ ~d.err) => d.fresh # Nil /\ d.at <= d.fresh
        /\ fetchFaults = 0 => ~d.err

(* Data is stored with the time of a look-up that was before its answer. *)
SpecsOK == \A k \in {"specs", "regions"} : specs[k] # Nil => specs[k].fetched <= specs[k].data

PricesOK ==
    (prices # Nil /\ fetchFaults = 0) => \A t \in prices.got :
        heap[prices.map][t] # Nil /\ prices.fetched <= heap[prices.map][t]

CacheInv == SpecsOK /\ PricesOK /\ \A c \in Callers : CallOK(c)

(* The part of CachedDataIsKept that is about a step. *)
Kept ==
    /\ \A k \in {"specs", "regions"} : specs[k] # Nil => specs'[k] # Nil
    /\ prices # Nil => prices' # Nil
    /\ OneMap =>
         /\ OneMap'
         /\ \A t \in Types : heap[prices.map][t] # Nil => heap'[prices'.map][t] # Nil

-----------------------------------------------------------------------------
(* What a step of a call leaves alone *)

SetsCall(c, d) == call' = [call EXCEPT ![c] = d]

LEMMA CallSet ==
    ASSUME CacheTypeOK, NEW c \in Callers, NEW d \in Call, SetsCall(c, d)
    PROVE  /\ call' \in [Callers -> Call] /\ call'[c] = d
           /\ \A q \in Callers : q # c => call'[q] = call[q]
BY DEF SetsCall, CacheTypeOK

LEMMA OthersStay ==
    ASSUME CacheTypeOK, CacheInv, NEW c \in Callers, call'[c] = call[c],
           now' \in Nat, now <= now', fetchFaults' = 0 => fetchFaults = 0
    PROVE  CallOK(c)'
<1> DEFINE d == call[c]
<1>1. CallOK(c) /\ d \in Call /\ now \in Nat /\ d.at \in Nat
  BY DEF CacheInv, CacheTypeOK, Call, Time
<1>2. Busy(c)' <=> Busy(c)
  BY DEF Busy
<1>3. Busy(c) => d.at <= now'
  BY <1>1 DEF CallOK
<1> QED BY <1>1, <1>2, <1>3 DEF CallOK

(* The call shares the map of the cache, if all did. *)
Shares(c) ==
    (OneMap /\ PricesFetched(c)') => call'[c].entry # Nil /\ call'[c].entry.map = prices.map

LEMMA SharedStays ==
    ASSUME NEW c \in Callers, \A q \in Callers : q # c => call'[q] = call[q],
           OneMap, Shares(c), prices' # Nil, prices'.map = prices.map
    PROVE  OneMap'
BY DEF OneMap, Shares, PricesFetched

(* A look-up, a fetch or a read: the step changes the call alone. *)
LEMMA CallStep ==
    ASSUME CacheTypeOK, CacheInv, NEW c \in Callers, NEW d \in Call, SetsCall(c, d),
           UNCHANGED <<now, specs, prices, heap>>, Shares(c),
           fetchFaults' \in 0..MaxFetchFaults, fetchFaults' = 0 => fetchFaults = 0, CallOK(c)'
    PROVE  CacheTypeOK' /\ CacheInv' /\ Kept
<1>1. call' \in [Callers -> Call] /\ call'[c] = d /\ \A q \in Callers : q # c => call'[q] = call[q]
  BY CallSet
<1>2. CacheTypeOK'
  BY <1>1 DEF CacheTypeOK
<1>3. now' \in Nat /\ now <= now'
  BY DEF CacheTypeOK, Time
<1>4. \A q \in Callers : CallOK(q)'
  BY <1>1, <1>3, OthersStay
<1>5. SpecsOK' /\ PricesOK'
  BY DEF CacheInv, SpecsOK, PricesOK
<1>6. OneMap => OneMap'
  BY <1>1, SharedStays DEF OneMap
<1>7. Kept
  BY <1>6 DEF Kept
<1> QED BY <1>2, <1>4, <1>5, <1>7 DEF CacheInv

LEMMA Constants ==
    /\ MaxTime \in Nat /\ MaxFetchFaults \in Nat /\ SpecsTTL \in Nat /\ PriceTTL \in Nat
    /\ 0 \in Time /\ 0 \in 0..MaxFetchFaults /\ Done \in Call /\ NoCall \in Call
<1>1. MaxTime \in Nat /\ MaxFetchFaults \in Nat /\ SpecsTTL \in Nat /\ PriceTTL \in Nat
  BY MetaCacheAssumption
<1>2. 0 \in Time /\ 0 \in 0..MaxFetchFaults
  BY <1>1 DEF Time
<1>3. NoCall \in Call
  BY <1>2 DEF NoCall, Call
<1>4. Done \in Call
  BY <1>2 DEF Done, NoCall, Call
<1> QED BY <1>1, <1>2, <1>3, <1>4

(* A call that is not busy has nothing to keep. *)
LEMMA IdleOK ==
    ASSUME NEW c \in Callers, call'[c].pc \in {"idle", "read", "done"}, ~call'[c].err
    PROVE  CallOK(c)' /\ Shares(c)
BY DEF CallOK, Busy, Shares, PricesFetched

(* What a look-up takes with it, and what a read has. *)
Started(k, ts, e) ==
    [pc |-> "fetch", kind |-> k, types |-> ts, at |-> now, entry |-> e, fresh |-> Nil,
     map |-> Nil, err |-> FALSE]
Reading(k, m) == [NoCall EXCEPT !.pc = "read", !.kind = k, !.map = m]

LEMMA StartedFacts ==
    ASSUME CacheTypeOK, NEW k \in Kind, NEW ts \in SUBSET Types,
           NEW e \in SpecEntry \cup PriceEntry \cup {Nil}, NEW d, d = Started(k, ts, e)
    PROVE  /\ d \in Call /\ d.pc = "fetch" /\ d.kind = k /\ d.types = ts /\ d.entry = e
           /\ d.at = now /\ ~d.err
BY DEF Started, Call, CacheTypeOK

LEMMA ReadingFacts ==
    ASSUME NEW k \in Kind, NEW m \in Callers \cup {Nil}, NEW d, d = Reading(k, m)
    PROVE  d \in Call /\ d.pc = "read" /\ ~d.err
<1>1. d = [pc |-> "read", kind |-> k, types |-> {}, at |-> 0, entry |-> Nil,
           fresh |-> Nil, map |-> m, err |-> FALSE]
  BY DEF Reading, NoCall
<1> QED BY <1>1, Constants DEF Call

LEMMA LookupSpecsInv ==
    ASSUME CacheTypeOK, CacheInv, NEW c \in Callers, NEW k \in {"specs", "regions"}, LookupSpecs(c, k)
    PROVE  CacheTypeOK' /\ CacheInv' /\ Kept
<1>1. UNCHANGED <<now, specs, prices, heap>> /\ fetchFaults' = fetchFaults /\ fetchFaults \in 0..MaxFetchFaults
  BY DEF LookupSpecs, CacheTypeOK
<1>2. CASE Fresh(specs[k], SpecsTTL)
  <2>1. SetsCall(c, Done)
    BY <1>2 DEF LookupSpecs, SetsCall
  <2>2. call'[c] = Done
    BY <2>1, Constants, CallSet
  <2>3. CallOK(c)' /\ Shares(c)
    BY <2>2, IdleOK DEF Done, NoCall
  <2> QED BY <1>1, <2>1, <2>3, Constants, CallStep
<1>3. CASE ~Fresh(specs[k], SpecsTTL)
  <2>1. PICK d : d = [NoCall EXCEPT !.pc = "fetch", !.kind = k, !.at = now, !.entry = specs[k]]
    OBVIOUS
  <2>2. SetsCall(c, d)
    BY <1>3, <2>1 DEF LookupSpecs, SetsCall
  <2>3. k \in Kind /\ specs[k] \in SpecEntry \cup PriceEntry \cup {Nil}
    BY DEF Kind, CacheTypeOK
  <2>4. d \in Call /\ d.pc = "fetch" /\ d.kind = k /\ d.at = now /\ ~d.err
    <3>1. PICK ts : ts = {}
      OBVIOUS
    <3>2. d = Started(k, ts, specs[k])
      BY <2>1, <3>1 DEF Started, NoCall
    <3> QED BY <2>3, <3>1, <3>2, StartedFacts
  <2>5. call'[c] = d
    BY <2>2, <2>4, CallSet
  <2>6. CallOK(c)' /\ Shares(c)
    BY <1>1, <2>3, <2>4, <2>5 DEF CallOK, Busy, CacheTypeOK, Time, Shares, PricesFetched
  <2> QED BY <1>1, <2>2, <2>4, <2>6, CallStep
<1> QED BY <1>2, <1>3

LEMMA LookupPricesInv ==
    ASSUME CacheTypeOK, CacheInv, NEW c \in Callers, NEW k \in {"prices", "forced"}, NEW ts \in Asks,
           LookupPrices(c, k, ts)
    PROVE  CacheTypeOK' /\ CacheInv' /\ Kept
<1>1. /\ UNCHANGED <<now, specs, prices, heap>> /\ fetchFaults' = fetchFaults /\ fetchFaults \in 0..MaxFetchFaults
      /\ k \in Kind
  BY DEF LookupPrices, CacheTypeOK, Kind
<1>2. CASE Answers(k)
  <2>1. PICK m : m = prices.map
    OBVIOUS
  <2>2. PICK d : d = Reading(k, m)
    OBVIOUS
  <2>3. SetsCall(c, d)
    BY <1>2, <2>1, <2>2 DEF LookupPrices, SetsCall, Reading
  <2>4. m \in Callers
    BY <1>2, <2>1 DEF Answers, Fresh, CacheTypeOK, PriceEntry
  <2>5. d \in Call /\ d.pc = "read" /\ ~d.err
    BY <1>1, <2>2, <2>4, ReadingFacts
  <2>6. call'[c] = d
    BY <2>3, <2>5, CallSet
  <2>7. CallOK(c)' /\ Shares(c)
    BY <2>5, <2>6, IdleOK
  <2> QED BY <1>1, <2>3, <2>5, <2>7, CallStep
<1>3. CASE ~Answers(k)
  <2>1. PICK d : d = [NoCall EXCEPT !.pc = "fetch", !.kind = k, !.at = now, !.entry = prices,
                                    !.types = ts]
    OBVIOUS
  <2>2. SetsCall(c, d)
    BY <1>3, <2>1 DEF LookupPrices, SetsCall
  <2>3. ts \in SUBSET Types /\ prices \in SpecEntry \cup PriceEntry \cup {Nil}
    BY MetaCacheAssumption DEF CacheTypeOK
  <2>4. /\ d \in Call /\ d.pc = "fetch" /\ d.kind = k /\ d.types = ts /\ d.entry = prices
        /\ d.at = now /\ ~d.err
    <3>1. d = Started(k, ts, prices)
      BY <2>1 DEF Started, NoCall
    <3> QED BY <1>1, <2>3, <3>1, StartedFacts
  <2>5. call'[c] = d
    BY <2>2, <2>4, CallSet
  <2>6. CallOK(c)' /\ Shares(c)
    BY <1>1, <2>4, <2>5 DEF CallOK, Busy, CacheTypeOK, Time, Shares, OneMap
  <2> QED BY <1>1, <2>2, <2>4, <2>6, CallStep
<1> QED BY <1>2, <1>3
LEMMA PcType == \A d \in Call, x \in {"store", "done"} : [d EXCEPT !.pc = x] \in Call
BY DEF Call

LEMMA FreshType ==
    \A d \in Call, t \in Time, ts \in SUBSET Types : [d EXCEPT !.fresh = t, !.types = ts] \in Call
BY DEF Call

LEMMA ErrType == \A d \in Call : [d EXCEPT !.err = TRUE] \in Call
BY DEF Call

LEMMA FetchInv ==
    ASSUME CacheTypeOK, CacheInv, NEW c \in Callers, Fetch(c)
    PROVE  CacheTypeOK' /\ CacheInv' /\ Kept
<1> DEFINE b == call[c]
<1>1. /\ b \in Call /\ b.pc = "fetch" /\ CallOK(c) /\ UNCHANGED <<now, specs, prices, heap>>
      /\ now \in Time
  BY DEF Fetch, CacheTypeOK, CacheInv
<1>2. PICK e : e = [b EXCEPT !.pc = "store"]
  OBVIOUS
<1>3. e \in Call
  BY <1>1, <1>2, PcType
<1>4. ASSUME NEW ts \in SUBSET b.types, UNCHANGED fetchFaults,
             call' = [call EXCEPT ![c].pc = "store", ![c].fresh = now, ![c].types = ts]
      PROVE  CacheTypeOK' /\ CacheInv' /\ Kept
  <2>1. PICK d : d = [e EXCEPT !.fresh = now, !.types = ts]
    OBVIOUS
  <2>2. ts \in SUBSET Types
    BY <1>1 DEF Call
  <2>3. d \in Call
    BY <1>1, <1>3, <2>1, <2>2, FreshType
  <2>4. d = [b EXCEPT !.pc = "store", !.fresh = now, !.types = ts]
    BY <1>1, <1>2, <2>1 DEF Call
  <2>5. /\ d.pc = "store" /\ d.fresh = now /\ d.kind = b.kind /\ d.at = b.at
        /\ d.entry = b.entry /\ d.err = b.err
    BY <1>1, <2>4 DEF Call
  <2>6. SetsCall(c, d)
    BY <1>4, <2>4 DEF SetsCall
  <2>7. call'[c] = d
    BY <2>3, <2>6, CallSet
  <2>8. now # Nil /\ b.at <= now
    BY <1>1, NilIsApart DEF CallOK, Busy
  <2>9. CallOK(c)'
    BY <1>1, <1>4, <2>5, <2>7, <2>8 DEF CallOK, Busy
  <2>10. Shares(c)
    BY <1>1, <2>5, <2>7 DEF Shares, OneMap, PricesFetched
  <2> QED BY <1>1, <1>4, <2>3, <2>6, <2>9, <2>10, CallStep DEF CacheTypeOK
<1>5. CASE /\ fetchFaults < MaxFetchFaults /\ fetchFaults' = fetchFaults + 1
           /\ call' = [call EXCEPT ![c].pc = "store", ![c].err = TRUE]
  <2>1. PICK d : d = [e EXCEPT !.err = TRUE]
    OBVIOUS
  <2>2. d \in Call
    BY <1>3, <2>1, ErrType
  <2>3. d = [b EXCEPT !.pc = "store", !.err = TRUE]
    BY <1>1, <1>2, <2>1 DEF Call
  <2>4. /\ d.pc = "store" /\ d.err /\ d.kind = b.kind /\ d.at = b.at
        /\ d.types = b.types /\ d.entry = b.entry
    BY <1>1, <2>3 DEF Call
  <2>5. SetsCall(c, d)
    BY <1>5, <2>3 DEF SetsCall
  <2>6. call'[c] = d
    BY <2>2, <2>5, CallSet
  <2>7. fetchFaults' \in 0..MaxFetchFaults /\ fetchFaults' # 0
    BY <1>5, Constants DEF CacheTypeOK
  <2>8. CallOK(c)'
    BY <1>1, <2>4, <2>6, <2>7 DEF CallOK, Busy
  <2>9. Shares(c)
    BY <1>1, <2>4, <2>6 DEF Shares, OneMap, PricesFetched
  <2> QED BY <1>1, <2>2, <2>5, <2>7, <2>8, <2>9, CallStep
<1> QED BY <1>4, <1>5 DEF Fetch

LEMMA ReadPricesInv ==
    ASSUME CacheTypeOK, CacheInv, NEW c \in Callers, ReadPrices(c)
    PROVE  CacheTypeOK' /\ CacheInv' /\ Kept
<1>1. UNCHANGED <<now, specs, prices, heap>> /\ fetchFaults' = fetchFaults /\ fetchFaults \in 0..MaxFetchFaults
  BY DEF ReadPrices, CacheTypeOK
<1>2. SetsCall(c, Done)
  BY DEF ReadPrices, SetsCall
<1>3. call'[c] = Done
  BY <1>2, Constants, CallSet
<1>4. CallOK(c)' /\ Shares(c)
  BY <1>3, IdleOK DEF Done, NoCall
<1> QED BY <1>1, <1>2, <1>4, Constants, CallStep

LEMMA TickInv ==
    ASSUME CacheTypeOK, CacheInv, Tick
    PROVE  CacheTypeOK' /\ CacheInv' /\ Kept
<1>1. UNCHANGED <<specs, prices, heap, call, fetchFaults>> /\ now' = now + 1 /\ now < MaxTime
  BY DEF Tick
<1>2. now' \in Time /\ now' \in Nat /\ now <= now'
  BY <1>1, Constants DEF CacheTypeOK, Time
<1>3. CacheTypeOK'
  BY <1>1, <1>2 DEF CacheTypeOK
<1>4. \A c \in Callers : CallOK(c)'
  BY <1>1, <1>2, OthersStay
<1>5. SpecsOK' /\ PricesOK'
  BY <1>1 DEF CacheInv, SpecsOK, PricesOK
<1>6. Kept
  BY <1>1 DEF Kept, OneMap, PricesFetched
<1> QED BY <1>3, <1>4, <1>5, <1>6 DEF CacheInv

-----------------------------------------------------------------------------
(* Storing an answer *)

(* A later store may bring an older answer, but with its own time. *)
LEMMA StoreSpecsInv ==
    ASSUME CacheTypeOK, CacheInv, NEW c \in Callers, StoreSpecs(c)
    PROVE  CacheTypeOK' /\ CacheInv' /\ Kept
<1> DEFINE b == call[c]
<1>1. /\ b \in Call /\ b.pc = "store" /\ CallOK(c) /\ UNCHANGED <<now, prices, heap, fetchFaults>>
      /\ SetsCall(c, Done)
  BY DEF StoreSpecs, CacheTypeOK, CacheInv, SetsCall
<1>2. PICK k \in {"specs", "regions"} : k = b.kind
  BY DEF StoreSpecs
<1>3. call' \in [Callers -> Call] /\ call'[c] = Done /\ \A q \in Callers : q # c => call'[q] = call[q]
  BY <1>1, Constants, CallSet
<1>4. now' \in Nat /\ now <= now' /\ fetchFaults' \in 0..MaxFetchFaults
  BY <1>1 DEF CacheTypeOK, Time
<1>5. Shares(c) /\ \A q \in Callers : CallOK(q)'
  <2>1. CallOK(c)' /\ Shares(c)
    BY <1>3, IdleOK DEF Done, NoCall
  <2> QED BY <1>1, <1>3, <1>4, <2>1, OthersStay
<1>6. PricesOK'
  BY <1>1 DEF CacheInv, PricesOK
<1>7. /\ specs' \in [{"specs", "regions"} -> SpecEntry \cup {Nil}] /\ SpecsOK'
      /\ \A j \in {"specs", "regions"} : specs[j] # Nil => specs'[j] # Nil
  <2>1. CASE b.err
    BY <1>2, <2>1 DEF StoreSpecs, CacheTypeOK, CacheInv, SpecsOK
  <2>2. CASE ~b.err
    <3>1. PICK e : e = [data |-> b.fresh, fetched |-> b.at]
      OBVIOUS
    <3>2. b.fresh \in Time /\ b.at \in Time /\ b.at <= b.fresh
      BY <1>1, <2>2 DEF CallOK, Call
    <3>3. e \in SpecEntry /\ e # Nil /\ e.fetched <= e.data
      BY <3>1, <3>2, NilIsApart DEF SpecEntry
    <3>4. specs' = [specs EXCEPT ![k] = e]
      BY <1>2, <2>2, <3>1 DEF StoreSpecs
    <3> QED BY <3>3, <3>4 DEF CacheTypeOK, CacheInv, SpecsOK
  <2> QED BY <2>1, <2>2
<1>8. CacheTypeOK'
  BY <1>1, <1>3, <1>4, <1>7 DEF CacheTypeOK
<1>9. OneMap => OneMap'
  BY <1>1, <1>3, <1>5, SharedStays DEF OneMap
<1>10. Kept
  BY <1>1, <1>7, <1>9 DEF Kept
<1> QED BY <1>5, <1>6, <1>7, <1>8, <1>10 DEF CacheInv

(* The answer is written into the map of the entry that was looked up, and that
   map is the cache's from then on. *)
LEMMA StorePricesInv ==
    ASSUME CacheTypeOK, CacheInv, NEW c \in Callers, StorePrices(c)
    PROVE  CacheTypeOK' /\ CacheInv' /\ Kept
<1> DEFINE b == call[c]
<1>1. /\ b \in Call /\ b.pc = "store" /\ b.kind \in {"prices", "forced"} /\ CallOK(c)
      /\ UNCHANGED <<now, specs, fetchFaults>>
  BY DEF StorePrices, CacheTypeOK, CacheInv
<1>2. /\ b.kind \in Kind /\ b.entry \in PriceEntry \cup {Nil} /\ b.types \in SUBSET Types
      /\ b.at \in Time
      /\ b.entry # Nil => b.entry.map \in Callers
  BY <1>1 DEF CallOK, Busy, Call, PriceEntry
<1>3. PICK m : m = IF b.err THEN (IF b.entry = Nil THEN Nil ELSE b.entry.map) ELSE MergeInto(c)
  OBVIOUS
<1>4. m \in Callers \cup {Nil} /\ (~b.err => m \in Callers)
  BY <1>2, <1>3 DEF MergeInto
<1>5. PICK d : d = Reading(b.kind, m)
  OBVIOUS
<1>6. d \in Call /\ d.pc = "read" /\ ~d.err
  BY <1>2, <1>4, <1>5, ReadingFacts
<1>7. SetsCall(c, d)
  BY <1>3, <1>5 DEF StorePrices, SetsCall, Reading
<1>8. call' \in [Callers -> Call] /\ call'[c] = d /\ \A q \in Callers : q # c => call'[q] = call[q]
  BY <1>6, <1>7, CallSet
<1>9. /\ heap' \in [Callers -> [Types -> Time \cup {Nil}]]
      /\ \A q \in Callers, t \in Types : heap[q][t] # Nil => heap'[q][t] # Nil
      /\ prices' \in PriceEntry \cup {Nil} /\ PricesOK'
      /\ prices # Nil => prices' # Nil
      /\ b.entry # Nil => prices'.map = b.entry.map
  <2>1. CASE b.err
    <3>1. heap' = heap /\ prices' = PricesFailed(c) /\ fetchFaults' # 0
      BY <1>1, <2>1 DEF StorePrices, CallOK
    <3>2. CASE b.entry = Nil
      BY <3>1, <3>2 DEF PricesFailed, CacheTypeOK, CacheInv, PricesOK
    <3>3. CASE b.entry # Nil
      <4>1. PICK e : e = [b.entry EXCEPT !.failedAt = b.at]
        OBVIOUS
      <4>2. e \in PriceEntry /\ e.map = b.entry.map
        BY <1>2, <3>3, <4>1 DEF PriceEntry
      <4>3. prices' = e /\ e # Nil
        BY <3>1, <3>3, <4>1, <4>2, NilIsApart DEF PricesFailed
      <4> QED BY <1>2, <3>1, <3>3, <4>2, <4>3 DEF CacheTypeOK, PricesOK
    <3> QED BY <3>2, <3>3
  <2>2. CASE ~b.err
    <3>1. PICK n : n = [t \in Types |-> IF t \in b.types THEN b.fresh ELSE heap[m][t]]
      OBVIOUS
    <3>2. heap' = [heap EXCEPT ![m] = n]
      BY <1>3, <2>2, <3>1 DEF StorePrices
    <3>3. b.fresh \in Time /\ b.fresh # Nil /\ b.at <= b.fresh
      BY <1>1, <2>2 DEF CallOK, Call
    <3>4. n \in [Types -> Time \cup {Nil}] /\ \A t \in Types : heap[m][t] # Nil => n[t] # Nil
      BY <1>4, <2>2, <3>1, <3>3 DEF CacheTypeOK
    <3>5. \A t \in b.types : n[t] = b.fresh
      BY <1>2, <3>1
    <3>6. /\ heap' \in [Callers -> [Types -> Time \cup {Nil}]] /\ heap'[m] = n
          /\ \A q \in Callers, t \in Types : heap[q][t] # Nil => heap'[q][t] # Nil
      BY <1>4, <2>2, <3>2, <3>4 DEF CacheTypeOK
    <3>7. PICK e : e = [map |-> m, fetched |-> b.at, failedAt |-> Nil, got |-> b.types]
      OBVIOUS
    <3>8. e \in PriceEntry /\ e # Nil /\ e.map = m /\ e.fetched = b.at /\ e.got = b.types
      BY <1>2, <1>4, <2>2, <3>7, NilIsApart DEF PriceEntry
    <3>9. prices' = e
      BY <1>3, <2>2, <3>7 DEF StorePrices, PricesMerged
    <3>10. PricesOK'
      BY <3>3, <3>5, <3>6, <3>8, <3>9 DEF PricesOK
    <3>11. b.entry # Nil => m = b.entry.map
      BY <1>3, <2>2 DEF MergeInto
    <3> QED BY <3>6, <3>8, <3>9, <3>10, <3>11
  <2> QED BY <2>1, <2>2
<1>10. CacheTypeOK'
  BY <1>1, <1>8, <1>9 DEF CacheTypeOK
<1>11. \A q \in Callers : CallOK(q)'
  <2>1. CallOK(c)'
    BY <1>6, <1>8, IdleOK
  <2>2. now' \in Nat /\ now <= now' /\ fetchFaults' = fetchFaults
    BY <1>1 DEF CacheTypeOK, Time
  <2> QED BY <1>8, <1>9, <2>1, <2>2, OthersStay
<1>12. SpecsOK'
  BY <1>1 DEF CacheInv, SpecsOK
<1>13. ASSUME OneMap
       PROVE  /\ OneMap'
              /\ \A t \in Types : heap[prices.map][t] # Nil => heap'[prices'.map][t] # Nil
  <2>1. b.entry # Nil /\ b.entry.map = prices.map /\ prices # Nil
    BY <1>1, <1>13 DEF OneMap, PricesFetched
  <2>2. prices' # Nil /\ prices'.map = prices.map /\ prices.map \in Callers
    BY <1>2, <1>9, <2>1
  <2>3. Shares(c)
    BY <1>6, <1>8, IdleOK
  <2> QED BY <1>8, <1>9, <1>13, <2>2, <2>3, SharedStays
<1>14. Kept
  BY <1>1, <1>9, <1>13 DEF Kept
<1> QED BY <1>9, <1>10, <1>11, <1>12, <1>14 DEF CacheInv

-----------------------------------------------------------------------------
(* Every state and step *)

LEMMA CacheInitOK == CacheInit => CacheTypeOK /\ CacheInv
<1> SUFFICES ASSUME CacheInit
             PROVE  CacheTypeOK /\ CacheInv
  OBVIOUS
<1>1. CacheTypeOK
  BY Constants DEF CacheInit, CacheTypeOK
<1>2. \A c \in Callers : call[c].pc = "idle" /\ ~call[c].err
  BY DEF CacheInit, NoCall
<1>3. \A c \in Callers : CallOK(c)
  BY <1>2 DEF CallOK, Busy
<1>4. SpecsOK /\ PricesOK
  BY DEF CacheInit, SpecsOK, PricesOK
<1> QED BY <1>1, <1>3, <1>4 DEF CacheInv

LEMMA CacheStep ==
    ASSUME CacheTypeOK, CacheInv, [CacheNext]_cacheVars
    PROVE  CacheTypeOK' /\ CacheInv' /\ [Kept]_cacheVars
<1>1. ASSUME NEW c \in Callers, NEW k \in {"specs", "regions"}, LookupSpecs(c, k)
      PROVE  CacheTypeOK' /\ CacheInv' /\ Kept
  BY <1>1, LookupSpecsInv
<1>2. ASSUME NEW c \in Callers, NEW k \in {"prices", "forced"}, NEW ts \in Asks,
             LookupPrices(c, k, ts)
      PROVE  CacheTypeOK' /\ CacheInv' /\ Kept
  BY <1>2, LookupPricesInv
<1>3. ASSUME NEW c \in Callers, Fetch(c) \/ StoreSpecs(c) \/ StorePrices(c) \/ ReadPrices(c)
      PROVE  CacheTypeOK' /\ CacheInv' /\ Kept
  BY <1>3, FetchInv, StoreSpecsInv, StorePricesInv, ReadPricesInv
<1>4. CASE Tick
  BY <1>4, TickInv
<1>5. CASE UNCHANGED cacheVars
  <2>1. /\ now' = now /\ specs' = specs /\ prices' = prices /\ heap' = heap /\ call' = call
        /\ fetchFaults' = fetchFaults
    BY <1>5 DEF cacheVars
  <2>2. CacheTypeOK'
    BY <2>1 DEF CacheTypeOK
  <2>3. CacheInv'
    BY <2>1 DEF CacheInv, SpecsOK, PricesOK, CallOK, Busy
  <2> QED BY <1>5, <2>2, <2>3
<1> QED BY <1>1, <1>2, <1>3, <1>4, <1>5 DEF CacheNext

(* The cache has its types and the inductive invariant: what is stored has the
   time of a look-up that came before its answer. *)
THEOREM MetaCacheInv == CacheSpec => [](CacheTypeOK /\ CacheInv)
<1>1. CacheInit => CacheTypeOK /\ CacheInv
  BY CacheInitOK
<1>2. CacheTypeOK /\ CacheInv /\ [CacheNext]_cacheVars => (CacheTypeOK /\ CacheInv)'
  BY CacheStep
<1> QED BY <1>1, <1>2, PTL DEF CacheSpec

(* CacheIsFresh: an entry that counts as fresh is no older than its time to
   live, however long fetches take and in whatever order they end (Instances,
   Regions, Prices); for the prices that the entry's fetch answered, as long as no
   fetch has failed. *)
THEOREM FreshEntriesAreYoung == CacheSpec => []CacheIsFresh
<1>1. CacheTypeOK /\ CacheInv => CacheIsFresh
  <2> SUFFICES ASSUME CacheTypeOK, CacheInv
               PROVE  CacheIsFresh
    OBVIOUS
  <2>1. ASSUME NEW k \in {"specs", "regions"}, Fresh(specs[k], SpecsTTL)
        PROVE  now - specs[k].data <= SpecsTTL
    <3>1. /\ specs[k] # Nil /\ specs[k] \in SpecEntry
          /\ now - specs[k].fetched <= SpecsTTL /\ specs[k].fetched <= specs[k].data
      BY <2>1 DEF Fresh, CacheTypeOK, CacheInv, SpecsOK
    <3>2. specs[k].data \in Nat /\ specs[k].fetched \in Nat /\ now \in Nat
      BY <3>1 DEF SpecEntry, Time, CacheTypeOK
    <3> QED BY <3>1, <3>2, Constants
  <2>2. ASSUME fetchFaults = 0, Fresh(prices, PriceTTL), NEW t \in prices.got
        PROVE  heap[prices.map][t] # Nil /\ now - heap[prices.map][t] <= PriceTTL
    <3>1. prices # Nil /\ prices \in PriceEntry /\ now - prices.fetched <= PriceTTL
      BY <2>2 DEF Fresh, CacheTypeOK
    <3>2. PICK x : x = heap[prices.map][t]
      OBVIOUS
    <3>3. x # Nil /\ x \in Time \cup {Nil} /\ prices.fetched <= x
      BY <2>2, <3>1, <3>2 DEF CacheInv, PricesOK, CacheTypeOK, PriceEntry
    <3>4. x \in Nat /\ prices.fetched \in Nat /\ now \in Nat
      BY <3>1, <3>3 DEF PriceEntry, Time, CacheTypeOK
    <3> QED BY <3>1, <3>2, <3>3, <3>4, Constants
  <2> QED BY <2>1, <2>2 DEF CacheIsFresh, SpecsAreFresh, PricesAreFresh
<1> QED BY <1>1, MetaCacheInv, PTL

(* CachedDataIsKept: no step empties the cache; from when callers share one map on,
   none takes a price away, when fetches fail, leave types out or are stored late. *)
THEOREM CachedDataStays == CacheSpec => CachedDataIsKept
<1>1. CacheInit => CacheTypeOK /\ CacheInv
  BY CacheInitOK
<1>2. CacheTypeOK /\ CacheInv /\ [CacheNext]_cacheVars => (CacheTypeOK /\ CacheInv)'
  BY CacheStep
<1>3. CacheTypeOK /\ CacheInv /\ [CacheNext]_cacheVars => [Kept]_cacheVars
  BY CacheStep
<1>4. CacheSpec => [][Kept]_cacheVars
  BY <1>1, <1>2, <1>3, PTL DEF CacheSpec
<1> QED BY <1>4 DEF CachedDataIsKept, Kept

-----------------------------------------------------------------------------
(* Numbers and sorting *)

(* A set of natural numbers has a least one. *)
LEMMA LeastNat ==
    ASSUME NEW S, S \subseteq Nat, S # {}
    PROVE  \E m \in S : \A k \in S : m <= k
<1> DEFINE T == {0..n : n \in S}
           R == StrictSubsetOrdering(Nat)
           F == FiniteSubsetsOf(Nat)
<1>0. T # {}
  OBVIOUS
<1>1. T \subseteq F
  <2>1. \A n \in S : 0..n \in SUBSET Nat /\ IsFiniteSet(0..n)
    BY FS_Interval
  <2> QED BY <2>1 DEF FiniteSubsetsOf
<1>2. IsWellFoundedOn(R, F)
  BY FS_StrictSubsetOrderingWellFounded
<1>3. \E x \in T : \A y \in T : ~(<<y, x>> \in R)
  <2> HIDE DEF T, R, F
  <2> QED BY <1>1, <1>2, <1>0, WFMin
<1>4. PICK m \in S : \A n \in S : ~(<<0..n, 0..m>> \in R)
  BY <1>3
<1>5. ASSUME NEW n \in S, n < m PROVE FALSE
  <2>1. 0..n \subseteq 0..m /\ m \in 0..m /\ m \notin 0..n
    BY <1>5
  <2>2. <<0..n, 0..m>> \in R
    BY <2>1 DEF StrictSubsetOrdering
  <2> QED BY <2>2, <1>4
<1> QED BY <1>5

(* R orders S strictly and totally. *)
Orders(R, S) ==
    /\ \A i \in S : <<i, i>> \notin R
    /\ \A i, j, k \in S : <<i, j>> \in R /\ <<j, k>> \in R => <<i, k>> \in R
    /\ \A i, j \in S : i = j \/ <<i, j>> \in R \/ <<j, i>> \in R

(* The rank of an element, the number of those before it, tells the elements
   apart and orders them as R does. *)
LEMMA Ranks ==
    ASSUME NEW S, IsFiniteSet(S), NEW R, Orders(R, S)
    PROVE  /\ \A i \in S : Cardinality(Before(S, R, i)) \in 0..(Cardinality(S) - 1)
           /\ \A i, j \in S :
                <<i, j>> \in R <=> Cardinality(Before(S, R, i)) < Cardinality(Before(S, R, j))
<1>0. Cardinality(S) \in Nat
  BY FS_CardinalityType
<1>1. ASSUME NEW i \in S
      PROVE  /\ IsFiniteSet(Before(S, R, i))
             /\ Cardinality(Before(S, R, i)) \in Nat
             /\ Cardinality(Before(S, R, i)) < Cardinality(S)
  <2>1. Before(S, R, i) \subseteq S /\ i \notin Before(S, R, i)
    BY DEF Before, Orders
  <2>2. Before(S, R, i) # S
    BY <2>1
  <2> QED BY <2>1, <2>2, <1>0, FS_Subset, FS_CardinalityType
<1>2. ASSUME NEW i \in S, NEW j \in S, <<i, j>> \in R
      PROVE  Cardinality(Before(S, R, i)) < Cardinality(Before(S, R, j))
  <2>1. Before(S, R, i) \subseteq Before(S, R, j)
    BY <1>2 DEF Before, Orders
  <2>2. i \in Before(S, R, j) /\ i \notin Before(S, R, i)
    BY <1>2 DEF Before, Orders
  <2>3. Before(S, R, i) # Before(S, R, j)
    BY <2>2
  <2>4. /\ Cardinality(Before(S, R, i)) <= Cardinality(Before(S, R, j))
        /\ Cardinality(Before(S, R, i)) # Cardinality(Before(S, R, j))
    BY <2>1, <2>3, <1>1, FS_Subset
  <2> QED BY <2>4, <1>1
<1>3. ASSUME NEW i \in S, NEW j \in S,
             Cardinality(Before(S, R, i)) < Cardinality(Before(S, R, j))
      PROVE  <<i, j>> \in R
  <2>1. i = j \/ <<i, j>> \in R \/ <<j, i>> \in R
    BY DEF Orders
  <2>2. i # j
    BY <1>1, <1>3
  <2>3. <<j, i>> \notin R
    BY <1>2, <1>1, <1>3
  <2> QED BY <2>1, <2>2, <2>3
<1>4. ASSUME NEW i \in S
      PROVE  Cardinality(Before(S, R, i)) \in 0..(Cardinality(S) - 1)
  BY <1>0, <1>1
<1> QED BY <1>2, <1>3, <1>4

(* Every rank from 0 on is that of an element. *)
LEMMA EveryRank ==
    ASSUME NEW S, IsFiniteSet(S), NEW R, Orders(R, S), NEW k \in 1..Cardinality(S)
    PROVE  \E i \in S : Cardinality(Before(S, R, i)) = k - 1
<1> DEFINE n == Cardinality(S)
           rank == [i \in S |-> Cardinality(Before(S, R, i))]
           T == {rank[i] : i \in S}
<1>0. n \in Nat
  BY FS_CardinalityType
<1>1. \A i \in S : rank[i] \in 0..(n - 1)
  BY Ranks
<1>2. ASSUME NEW i \in S, NEW j \in S, rank[i] = rank[j] PROVE i = j
  <2>1. <<i, j>> \notin R /\ <<j, i>> \notin R
    BY <1>1, <1>2, Ranks
  <2> QED BY <2>1 DEF Orders
<1>3. rank \in Bijection(S, T)
  BY <1>2 DEF Bijection, Injection, Surjection, IsInjective
<1>4. IsFiniteSet(T) /\ Cardinality(T) = n
  <2>1. ExistsBijection(S, T)
    BY <1>3 DEF ExistsBijection
  <2> HIDE DEF T
  <2> QED BY <2>1, FS_Bijection
<1>5. T \subseteq 0..(n - 1) /\ IsFiniteSet(0..(n - 1)) /\ Cardinality(0..(n - 1)) = n
  <2>1. T \subseteq 0..(n - 1)
    BY <1>1
  <2>2. IsFiniteSet(0..(n - 1)) /\ Cardinality(0..(n - 1)) = n
    <3>1. 0 \in Int /\ n - 1 \in Int /\ (~(0 > n - 1) \/ n = 0)
      BY <1>0
    <3> HIDE DEF n
    <3> QED BY <1>0, <3>1, FS_Interval
  <2> QED BY <2>1, <2>2
<1>6. T = 0..(n - 1)
  BY <1>4, <1>5, FS_Subset
<1>7. k - 1 \in T
  BY <1>6, <1>0
<1> QED BY <1>7

(* What a sorted sequence is: all elements, each once, in the order of R. *)
LEMMA SortedOrder ==
    ASSUME NEW S, IsFiniteSet(S), NEW R, Orders(R, S)
    PROVE  /\ Cardinality(S) \in Nat
           /\ Sorted(S, R) \in [1..Cardinality(S) -> S]
           /\ \A k \in 1..Cardinality(S) : Cardinality(Before(S, R, Sorted(S, R)[k])) = k - 1
           /\ \A i \in S : \E k \in 1..Cardinality(S) : Sorted(S, R)[k] = i
           /\ \A k, l \in 1..Cardinality(S) : k < l <=> <<Sorted(S, R)[k], Sorted(S, R)[l]>> \in R
<1> DEFINE n == Cardinality(S)
           order == Sorted(S, R)
<1>0. n \in Nat
  BY FS_CardinalityType
<1>1. ASSUME NEW k \in 1..n
      PROVE  order[k] \in S /\ Cardinality(Before(S, R, order[k])) = k - 1
  BY EveryRank DEF Sorted
<1>2. ASSUME NEW i \in S PROVE \E k \in 1..n : order[k] = i
  <2>1. PICK r \in 0..(n - 1) : r = Cardinality(Before(S, R, i))
    BY Ranks
  <2>2. r + 1 \in 1..n /\ (r + 1) - 1 = r
    BY <1>0
  <2>3. order[r + 1] \in S /\ Cardinality(Before(S, R, order[r + 1])) = r
    BY <1>1, <2>2
  <2>4. <<order[r + 1], i>> \notin R /\ <<i, order[r + 1]>> \notin R
    BY <2>1, <2>3, Ranks
  <2> QED BY <2>2, <2>3, <2>4 DEF Orders
<1>3. ASSUME NEW k \in 1..n, NEW l \in 1..n
      PROVE  k < l <=> <<order[k], order[l]>> \in R
  <2>1. <<order[k], order[l]>> \in R <=> k - 1 < l - 1
    BY <1>1, Ranks
  <2> QED BY <2>1, <1>0
<1> QED BY <1>0, <1>1, <1>2, <1>3 DEF Sorted

(* The positions of a finite set of numbers, in their order. *)
LEMMA AscendingOrder ==
    ASSUME NEW I \in SUBSET Int, IsFiniteSet(I)
    PROVE  /\ Cardinality(I) \in Nat
           /\ Ascending(I) \in [1..Cardinality(I) -> I]
           /\ \A i \in I : \E k \in 1..Cardinality(I) : Ascending(I)[k] = i
           /\ \A k, l \in 1..Cardinality(I) : k < l <=> Ascending(I)[k] < Ascending(I)[l]
<1> DEFINE R == {p \in I \X I : p[1] < p[2]}
<1>1. Orders(R, I)
  BY DEF Orders
<1>2. Ascending(I) = Sorted(I, R)
  BY DEF Ascending
<1> DEFINE order == Ascending(I)
<1>3. /\ Cardinality(I) \in Nat
      /\ order \in [1..Cardinality(I) -> I]
      /\ \A i \in I : \E k \in 1..Cardinality(I) : order[k] = i
      /\ \A k, l \in 1..Cardinality(I) : k < l <=> <<order[k], order[l]>> \in R
  <2> HIDE DEF order, R
  <2> QED BY <1>1, <1>2, SortedOrder DEF order
<1> QED BY <1>3

-----------------------------------------------------------------------------
(* Execution: what ran is what RunTask reports, no script is left beside the run
   script outside the cloud, and the writers of docker and local stream whole lines. *)

(* The phases in which scripts run. *)
Phase == {"setup", "run"}

(* Every node has a process; those of a phase start from NoProc, and an error
   is that of a script that did not run. *)
ProcOK(p) ==
    /\ DOMAIN p = {"st", "pos", "buf", "got", "code", "err"}
    /\ p.st \in {"none", "running", "ended"}
    /\ p.code \in Code
    /\ p.err \in BOOLEAN
    /\ p.err => p.st = "ended"

ProcsOK ==
    /\ DOMAIN proc = 1..cfg.nodes
    /\ \A n \in 1..cfg.nodes : ProcOK(proc[n])
    /\ pc \notin Phase \cup {"returned"} => proc = NewProcs
    /\ pc \in Phase => \A n \in (1..cfg.nodes) \ Targets : proc[n].st = "none"
    /\ pc = "returned" => \A n \in 1..cfg.nodes : proc[n].st # "running"

(* Which scripts can have ended. *)
RanOK ==
    /\ ran \in [Phase -> SUBSET Code]
    /\ pc \notin Phase \cup {"returned"} => ran.setup = {} /\ ran.run = {}
    /\ pc = "setup" => cfg.setup /\ ran.run = {}
    /\ pc = "run" => cfg.run

(* The scripts of the task, all with exit code 0. *)
AllRan ==
    /\ ran.run = IF cfg.run THEN {0} ELSE {}
    /\ ran.setup = IF cfg.setup THEN {0} ELSE {}

(* Outside the cloud there is one node, and what ran is what its process says. *)
OneNodeOK ==
    cfg.backend # "cloud" =>
        /\ cfg.nodes = 1
        /\ pc \in Phase =>
             ran[pc] = IF proc[1].st = "ended" /\ ~proc[1].err THEN {proc[1].code} ELSE {}
        /\ pc = "run" => ran.setup = IF cfg.setup THEN {0} ELSE {}
        /\ (pc = "returned" /\ ~result.err /\ result.code = 0) => AllRan

ExecTypeOK ==
    /\ cfg \in Config
    /\ pc \in {"find", "ssh", "workdir", "setup", "run", "returned"}
    /\ result \in [code : Code, err : BOOLEAN]

(* A script that may run on without its process has the code of that process. *)
LeftOK == left # {} => \E f \in Phase : ran[f] \cap {255, -1} # {}

ExecInv == ExecTypeOK /\ ProcsOK /\ RanOK /\ OneNodeOK /\ LeftOK

(* A configuration has at least one node. *)
LEMMA Nodes ==
    ASSUME cfg \in Config
    PROVE  cfg.nodes \in Nat \ {0} /\ 1 \in 1..cfg.nodes
<1>1. cfg.nodes \in Sizes
  BY DEF Config
<1>2. cfg.nodes \in Nat /\ cfg.nodes # 0
  BY <1>1, ExecutionAssumption
<1> QED BY <1>2

LEMMA NewProcsOK ==
    /\ DOMAIN NewProcs = 1..cfg.nodes
    /\ \A n \in 1..cfg.nodes : NewProcs[n] = NoProc
    /\ ProcOK(NoProc) /\ NoProc.st = "none" /\ ~NoProc.err
BY DEF NewProcs, NoProc, ProcOK, Code

LEMMA ExecInitOK == Init => ExecInv
<1> SUFFICES ASSUME Init PROVE ExecInv
  OBVIOUS
<1>1. ExecTypeOK
  BY DEF Init, ExecStart, ExecTypeOK, Code
<1>2. proc = NewProcs /\ pc = "find" /\ ran = [setup |-> {}, run |-> {}]
  BY DEF Init, ExecStart, NewProcs
<1>3. ProcsOK
  BY <1>2, NewProcsOK DEF ProcsOK, Phase
<1>4. RanOK
  BY <1>2 DEF RanOK, Phase
<1>5. OneNodeOK
  BY <1>2 DEF OneNodeOK, Phase, Init
<1>6. LeftOK
  BY DEF LeftOK, Init, ExecStart
<1> QED BY <1>1, <1>3, <1>4, <1>5, <1>6 DEF ExecInv

(* A process that is not started or running goes on: with it, what ran. *)
LEMMA ProcessStep ==
    ASSUME ExecInv, NEW n \in 1..cfg.nodes, NEW p,
           proc' = [proc EXCEPT ![n] = p], ProcOK(p), p.st # "none",
           proc[n].st # "ended", n \in Targets, pc \in Phase,
           UNCHANGED <<cfg, pc, result>>,
           \/ p.st = "ended" /\ ~p.err /\ ran' = [ran EXCEPT ![pc] = @ \cup {p.code}]
           \/ (p.st = "running" \/ p.err) /\ ran' = ran,
           left' = left \/ (p.st = "ended" /\ ~p.err /\ p.code \in {255, -1})
    PROVE  ExecInv'
<1>0. /\ cfg \in Config /\ DOMAIN proc = 1..cfg.nodes /\ \A m \in 1..cfg.nodes : ProcOK(proc[m])
      /\ ran \in [Phase -> SUBSET Code]
  BY DEF ExecInv, ExecTypeOK, ProcsOK, RanOK
<1>1. ExecTypeOK'
  BY DEF ExecInv, ExecTypeOK
<1>2. /\ DOMAIN proc' = 1..cfg.nodes
      /\ proc'[n] = p /\ \A m \in 1..cfg.nodes : m # n => proc'[m] = proc[m]
  BY <1>0
<1>3. ProcsOK'
  <2>1. \A m \in 1..cfg.nodes : ProcOK(proc'[m])
    BY <1>0, <1>2
  <2>2. pc' \in Phase /\ Targets' = Targets
    BY DEF Targets
  <2>3. \A m \in (1..cfg.nodes) \ Targets : proc'[m].st = "none"
    BY <1>2 DEF ExecInv, ProcsOK
  <2> QED BY <1>2, <2>1, <2>2, <2>3 DEF ProcsOK, Phase
<1>4. RanOK'
  <2>1. p.code \in Code
    BY DEF ProcOK
  <2>2. ran' \in [Phase -> SUBSET Code] /\ \A f \in Phase : f # pc => ran'[f] = ran[f]
    BY <1>0, <2>1
  <2> QED BY <2>2 DEF ExecInv, RanOK, Phase
<1>5. OneNodeOK'
  <2> SUFFICES ASSUME cfg.backend # "cloud" PROVE OneNodeOK'
    BY DEF OneNodeOK
  <2>1. cfg.nodes = 1 /\ n = 1
    BY DEF ExecInv, OneNodeOK
  <2>2. ran[pc] = {}
    BY <2>1 DEF ExecInv, OneNodeOK
  <2>3. ran'[pc] = IF p.st = "ended" /\ ~p.err THEN {p.code} ELSE {}
    BY <1>0, <2>2
  <2>4. pc = "run" => ran'.setup = ran.setup
    BY <1>0 DEF Phase
  <2>5. proc'[1] = p /\ pc # "returned"
    BY <1>2, <2>1 DEF Phase
  <2> QED BY <2>1, <2>3, <2>4, <2>5 DEF ExecInv, OneNodeOK
<1>6. LeftOK'
  <2>1. \A f \in Phase : ran[f] \subseteq ran'[f]
    BY <1>0
  <2>2. CASE left' = left
    BY <2>1, <2>2 DEF ExecInv, LeftOK
  <2>3. CASE p.st = "ended" /\ ~p.err /\ p.code \in {255, -1}
    <3>1. p.code \in ran'[pc]
      BY <1>0, <2>3
    <3> QED BY <2>3, <3>1 DEF LeftOK
  <2> QED BY <2>2, <2>3
<1> QED BY <1>1, <1>3, <1>4, <1>5, <1>6 DEF ExecInv

LEMMA StartStep ==
    ASSUME ExecInv, NEW n \in 1..cfg.nodes, Start(n)
    PROVE  ExecInv'
<1>1. /\ n \in DOMAIN proc /\ ProcOK(proc[n]) /\ proc[n].st = "none"
      /\ n \in Targets /\ pc \in Phase
      /\ UNCHANGED <<cfg, pc, result, ran, left>>
  BY DEF ExecInv, ProcsOK, Start, Phase
<1>2. CASE proc' = [proc EXCEPT ![n].st = "running"]
  <2> DEFINE p == [proc[n] EXCEPT !.st = "running"]
  <2>1. proc' = [proc EXCEPT ![n] = p]
    BY <1>1, <1>2
  <2>2. ProcOK(p) /\ p.st = "running"
    BY <1>1 DEF ProcOK
  <2> HIDE DEF p
  <2> QED BY <1>1, <2>1, <2>2, ProcessStep
<1>3. CASE proc' = [proc EXCEPT ![n].st = "ended", ![n].code = -1, ![n].err = TRUE]
  <2> DEFINE p == [proc[n] EXCEPT !.st = "ended", !.code = -1, !.err = TRUE]
  <2>1. proc' = [proc EXCEPT ![n] = p]
    BY <1>1, <1>3
  <2>2. ProcOK(p) /\ p.st = "ended" /\ p.err
    BY <1>1 DEF ProcOK, Code
  <2> HIDE DEF p
  <2> QED BY <1>1, <2>1, <2>2, ProcessStep
<1> QED BY <1>2, <1>3 DEF Start

(* A process that runs is one of the current phase. *)
LEMMA Running ==
    ASSUME ExecInv, NEW n \in 1..cfg.nodes, proc[n].st = "running"
    PROVE  /\ n \in DOMAIN proc /\ ProcOK(proc[n]) /\ ~proc[n].err
           /\ n \in Targets /\ pc \in Phase
BY NewProcsOK DEF ExecInv, ProcsOK, ProcOK, Phase

LEMMA OutputStep ==
    ASSUME ExecInv, NEW n \in 1..cfg.nodes, NEW k, Output(n, k)
    PROVE  ExecInv'
<1> DEFINE q == [proc[n] EXCEPT !.pos = @ + k]
           chunk == SubSeq(cfg.text, proc[n].pos + 1, proc[n].pos + k)
           p == CASE cfg.backend = "cloud" -> streamWriter(q, chunk)
                  [] cfg.backend = "existing" -> q
                  [] OTHER -> lineWriter(q, chunk)
<1>1. /\ proc[n].st = "running" /\ UNCHANGED <<cfg, pc, result, ran, left>>
      /\ proc' = [proc EXCEPT ![n] = p]
  BY DEF Output
<1>2. ProcOK(proc[n]) /\ ~proc[n].err /\ n \in Targets /\ pc \in Phase
  BY <1>1, Running
<1>3. ProcOK(q) /\ q.st = "running"
  BY <1>1, <1>2 DEF ProcOK
<1>4. ProcOK(p) /\ p.st = "running"
  <2> HIDE DEF q, chunk
  <2> QED BY <1>3 DEF ProcOK, streamWriter, lineWriter
<1> HIDE DEF p
<1> QED BY <1>1, <1>2, <1>4, ProcessStep

LEMMA EndedStep ==
    ASSUME ExecInv, NEW n \in 1..cfg.nodes, NEW code \in Code, Ended(n, code),
           left' = left \/ code \in {255, -1}
    PROVE  ExecInv'
<1> DEFINE q == [proc[n] EXCEPT !.st = "ended", !.code = code]
           p == IF cfg.backend = "existing" THEN [q EXCEPT !.got = sshOutput(q)] ELSE q
<1>1. /\ proc[n].st = "running" /\ UNCHANGED <<cfg, pc, result>>
      /\ proc' = [proc EXCEPT ![n] = p]
      /\ ran' = [ran EXCEPT ![pc] = @ \cup {code}]
  BY DEF Ended
<1>2. ProcOK(proc[n]) /\ ~proc[n].err /\ n \in Targets /\ pc \in Phase
  BY <1>1, Running
<1>3. ProcOK(q) /\ q.st = "ended" /\ ~q.err /\ q.code = code
  BY <1>1, <1>2 DEF ProcOK
<1>4. ProcOK(p) /\ p.st = "ended" /\ ~p.err /\ p.code = code
  <2> HIDE DEF q
  <2> QED BY <1>3 DEF ProcOK
<1> HIDE DEF p
<1> QED BY <1>1, <1>2, <1>4, ProcessStep

LEMMA ScriptStep ==
    ASSUME ExecInv, NEW n \in 1..cfg.nodes, Script(n)
    PROVE  ExecInv'
<1>1. CASE \E code \in Code : Ended(n, code) /\ (left' = left \/ code \in {255, -1})
  BY <1>1, EndedStep
<1>2. CASE \E k \in 1..Len(cfg.text) : Output(n, k)
  BY <1>2, OutputStep
<1> QED BY <1>1, <1>2, StartStep DEF Script, Exit, Lost, Killed, Detached, Code

(* RunTask returns when nothing runs; a success outside the cloud is one of all
   scripts. *)
LEMMA ReturnStep ==
    ASSUME ExecInv, NEW code \in Code, NEW err \in BOOLEAN, Return(code, err),
           UNCHANGED <<cfg, ran, left>>, proc' \in {proc, NewProcs},
           \A n \in 1..cfg.nodes : proc'[n].st # "running",
           (cfg.backend # "cloud" /\ ~err /\ code = 0) => AllRan
    PROVE  ExecInv'
<1>1. pc' = "returned" /\ result' = [code |-> code, err |-> err] /\ NewProcs' = NewProcs
  BY DEF Return, NewProcs
<1>2. ExecTypeOK'
  BY <1>1 DEF ExecInv, ExecTypeOK
<1>3. ProcsOK'
  BY <1>1, NewProcsOK DEF ExecInv, ProcsOK, Phase
<1>4. RanOK'
  BY <1>1 DEF ExecInv, RanOK, Phase
<1>5. OneNodeOK' /\ LeftOK'
  BY <1>1 DEF ExecInv, OneNodeOK, LeftOK, Phase, AllRan
<1> QED BY <1>2, <1>3, <1>4, <1>5 DEF ExecInv

(* The next phase starts with new processes. *)
LEMMA PhaseStep ==
    ASSUME ExecInv, pc' \in Phase, proc' = NewProcs, UNCHANGED <<cfg, ran, left, result>>,
           pc' = "setup" => cfg.setup /\ ran.run = {},
           pc' = "run" => cfg.run /\ ran.run = {},
           (pc' = "run" /\ cfg.backend # "cloud") => ran.setup = IF cfg.setup THEN {0} ELSE {},
           (pc' = "setup" /\ cfg.backend # "cloud") => ran.setup = {}
    PROVE  ExecInv'
<1>1. ExecTypeOK'
  BY DEF ExecInv, ExecTypeOK, Phase
<1>2. ProcsOK'
  <2>1. NewProcs' = NewProcs
    BY DEF NewProcs
  <2>2. /\ DOMAIN proc' = 1..cfg.nodes
        /\ \A n \in 1..cfg.nodes : proc'[n] = NoProc
    BY NewProcsOK
  <2> QED BY <2>1, <2>2, NewProcsOK DEF ProcsOK, Phase
<1>3. RanOK'
  BY DEF ExecInv, RanOK, Phase
<1>4. OneNodeOK'
  <2> SUFFICES ASSUME cfg.backend # "cloud" PROVE OneNodeOK'
    BY DEF OneNodeOK
  <2>1. cfg.nodes = 1 /\ proc'[1] = NoProc
    BY NewProcsOK, Nodes DEF ExecInv, OneNodeOK, ExecTypeOK
  <2> QED BY <2>1, NewProcsOK DEF OneNodeOK, Phase
<1>5. LeftOK'
  BY DEF ExecInv, LeftOK
<1> QED BY <1>1, <1>2, <1>3, <1>4, <1>5 DEF ExecInv

(* Steps that change neither processes nor what ran: before a phase begins, and at
   the end of a script that was left behind. *)
LEMMA FrameStep ==
    ASSUME ExecInv, UNCHANGED <<cfg, proc, ran, result>>, left' \subseteq left,
           pc' = pc \/ (pc \notin Phase \cup {"returned"} /\ pc' \in {"ssh", "workdir"})
    PROVE  ExecInv'
<1>1. ExecTypeOK'
  BY DEF ExecInv, ExecTypeOK
<1>2. NewProcs' = NewProcs /\ (pc' = pc => Targets' = Targets)
  BY DEF NewProcs, Targets
<1>3. ProcsOK'
  BY <1>2 DEF ExecInv, ProcsOK, Phase
<1>4. RanOK' /\ OneNodeOK' /\ LeftOK'
  BY DEF ExecInv, RanOK, OneNodeOK, LeftOK, Phase, AllRan
<1> QED BY <1>1, <1>3, <1>4 DEF ExecInv

LEMMA BeforePhases ==
    ASSUME ExecInv, pc \notin Phase \cup {"returned"}
    PROVE  /\ proc = NewProcs /\ ran.setup = {} /\ ran.run = {}
           /\ \A n \in 1..cfg.nodes : proc[n].st = "none"
BY NewProcsOK DEF ExecInv, ProcsOK, RanOK

(* A failure returns an error, with the processes as they are. *)
LEMMA FailStep ==
    ASSUME ExecInv, Return(-1, TRUE), UNCHANGED <<cfg, ran, left, proc>>,
           \A n \in 1..cfg.nodes : proc[n].st # "running"
    PROVE  ExecInv'
BY ReturnStep DEF Code

LEMMA FindStep == ASSUME ExecInv, Find PROVE ExecInv'
<1>1. pc = "find" /\ UNCHANGED <<cfg, proc, ran, left>>
  BY DEF Find
<1>2. CASE Return(-1, TRUE)
  BY <1>1, <1>2, BeforePhases, FailStep DEF Phase
<1>3. CASE pc' \in {"ssh", "workdir"} /\ UNCHANGED result
  BY <1>1, <1>3, FrameStep DEF Phase
<1> QED BY <1>2, <1>3 DEF Find

LEMMA WaitSSHStep == ASSUME ExecInv, WaitSSH PROVE ExecInv'
<1>1. pc = "ssh" /\ UNCHANGED <<cfg, proc, ran, left>>
  BY DEF WaitSSH
<1>2. CASE Return(-1, TRUE)
  BY <1>1, <1>2, BeforePhases, FailStep DEF Phase
<1>3. CASE UNCHANGED <<pc, result>>
  BY <1>1, <1>3, FrameStep
<1> QED BY <1>2, <1>3 DEF WaitSSH

LEMMA CopyDirStep == ASSUME ExecInv, CopyDir PROVE ExecInv'
<1>1. /\ pc = "workdir" /\ UNCHANGED <<cfg, ran, left>>
      /\ proc = NewProcs /\ ran.setup = {} /\ ran.run = {}
      /\ \A n \in 1..cfg.nodes : NewProcs[n].st = "none"
  BY BeforePhases DEF CopyDir, Phase
<1>2. CASE Return(-1, TRUE) /\ UNCHANGED proc
  BY <1>1, <1>2, FailStep
<1>3. CASE proc' = NewProcs /\ ~cfg.setup /\ ~cfg.run /\ Return(0, FALSE)
  BY <1>1, <1>3, ReturnStep DEF Code, AllRan
<1>4. CASE /\ proc' = NewProcs /\ (cfg.setup \/ cfg.run) /\ UNCHANGED result
           /\ pc' = IF cfg.setup THEN "setup" ELSE "run"
  BY <1>1, <1>4, PhaseStep DEF Phase
<1> QED BY <1>2, <1>3, <1>4 DEF CopyDir

(* The end of a phase: every process of it has ended, and no other was started. *)
LEMMA PhaseEnded ==
    ASSUME ExecInv, pc \in Phase, AllEnded
    PROVE  /\ \A n \in 1..cfg.nodes : proc[n].st # "running"
           /\ (pc = "setup" /\ cfg.backend = "cloud") =>
                \A n \in 1..cfg.nodes : n \in Targets /\ proc[n].st = "ended"
           /\ cfg.backend # "cloud" =>
                /\ cfg.nodes = 1 /\ Targets = {1} /\ proc[1].st = "ended"
                /\ ran[pc] = IF ~proc[1].err THEN {proc[1].code} ELSE {}
           /\ proc[1].code \in Code
<1>1. \A n \in Targets : proc[n].st = "ended"
  BY DEF AllEnded
<1>2. \A n \in (1..cfg.nodes) \ Targets : proc[n].st = "none"
  BY DEF ExecInv, ProcsOK
<1>3. cfg.backend # "cloud" => cfg.nodes = 1 /\ Targets = {1}
  BY DEF ExecInv, OneNodeOK, Targets
<1>4. proc[1].code \in Code
  BY Nodes DEF ExecInv, ExecTypeOK, ProcsOK, ProcOK
<1>5. cfg.backend # "cloud" =>
        ran[pc] = IF proc[1].st = "ended" /\ ~proc[1].err THEN {proc[1].code} ELSE {}
  BY DEF ExecInv, OneNodeOK
<1> QED BY <1>1, <1>2, <1>3, <1>4, <1>5 DEF Targets

LEMMA CloudStep == ASSUME ExecInv, CloudScriptEnded PROVE ExecInv'
<1>1. /\ cfg.backend = "cloud" /\ pc \in Phase /\ AllEnded /\ UNCHANGED <<cfg, ran, left>>
      /\ \A n \in 1..cfg.nodes : proc[n].st # "running"
  BY PhaseEnded DEF CloudScriptEnded, Phase
<1>2. CASE Return(-1, TRUE) /\ UNCHANGED proc
  BY <1>1, <1>2, FailStep
<1>3. CASE Return(0, FALSE) /\ UNCHANGED proc
  BY <1>1, <1>3, ReturnStep DEF Code
<1>4. CASE /\ pc = "setup" /\ cfg.run /\ pc' = "run" /\ proc' = NewProcs /\ UNCHANGED result
           /\ ~ \E n \in Targets : proc[n].err
  <2>1. ran.run = {}
    BY <1>4 DEF ExecInv, RanOK
  <2> QED BY <1>1, <1>4, <2>1, PhaseStep DEF Phase
<1> QED BY <1>2, <1>3, <1>4 DEF CloudScriptEnded

LEMMA NextScriptStep ==
    ASSUME ExecInv, cfg.backend # "cloud", pc \in Phase, AllEnded, NextScript,
           UNCHANGED <<cfg, ran, left>>
    PROVE  ExecInv'
<1>1. /\ \A n \in 1..cfg.nodes : proc[n].st # "running"
      /\ cfg.nodes = 1 /\ proc[1].st = "ended" /\ proc[1].code \in Code
      /\ ran[pc] = IF ~proc[1].err THEN {proc[1].code} ELSE {}
  BY PhaseEnded
<1>2. CASE Return(-1, TRUE) /\ UNCHANGED proc
  BY <1>1, <1>2, FailStep
<1>3. CASE /\ ~proc[1].err /\ Return(proc[1].code, FALSE) /\ UNCHANGED proc
           /\ ~(pc = "setup" /\ cfg.run /\ proc[1].code = 0)
  <2>1. proc[1].code = 0 => AllRan
    BY <1>1, <1>3 DEF AllRan, ExecInv, RanOK, OneNodeOK, Phase
  <2> QED BY <1>1, <1>3, <2>1, ReturnStep
<1>4. CASE /\ ~proc[1].err /\ pc = "setup" /\ cfg.run /\ proc[1].code = 0
           /\ pc' = "run" /\ proc' = NewProcs /\ UNCHANGED result
  <2>1. ran.run = {} /\ cfg.setup /\ ran.setup = {0}
    BY <1>1, <1>4 DEF ExecInv, RanOK
  <2> QED BY <1>1, <1>4, <2>1, PhaseStep DEF Phase
<1> QED BY <1>2, <1>3, <1>4 DEF NextScript

LEMMA ExecStep == ExecInv /\ [Next]_vars => ExecInv'
<1> SUFFICES ASSUME ExecInv, [Next]_vars
             PROVE  ExecInv'
  OBVIOUS
<1>1. CASE \E n \in 1..cfg.nodes : Script(n)
  BY <1>1, ScriptStep
<1>2. CASE SSHReady \/ Cancel \/ (\E n \in 1..cfg.nodes : RemoteEnds(n)) \/ UNCHANGED vars
  <2>1. UNCHANGED <<cfg, proc, ran, result>> /\ left' \subseteq left
    BY <1>2 DEF SSHReady, Cancel, RemoteEnds, vars
  <2>2. pc' = pc \/ (pc \notin Phase \cup {"returned"} /\ pc' \in {"ssh", "workdir"})
    BY <1>2 DEF SSHReady, Cancel, RemoteEnds, vars, Phase
  <2> QED BY <2>1, <2>2, FrameStep
<1>3. CASE DockerScriptEnded \/ ExistingScriptEnded \/ LocalScriptEnded
  <2>1. cfg.backend # "cloud" /\ pc \in Phase /\ AllEnded /\ NextScript /\ UNCHANGED <<cfg, ran, left>>
    BY <1>3 DEF DockerScriptEnded, ExistingScriptEnded, LocalScriptEnded, Phase
  <2> QED BY <2>1, NextScriptStep
<1> QED BY <1>1, <1>2, <1>3, FindStep, WaitSSHStep, CopyDirStep, CloudStep DEF Next, RunTask

(* The sequence of the numbers of a set that increases from one to the next. *)
LEMMA IncreasingIsAscending ==
    ASSUME NEW I \in SUBSET Int, NEW n \in Nat, NEW f \in [1..n -> I],
           \A i \in I : \E k \in 1..n : f[k] = i,
           \A k, l \in 1..n : k < l => f[k] < f[l]
    PROVE  IsFiniteSet(I) /\ Cardinality(I) = n /\ Ascending(I) = f
<1>1. \A k, l \in 1..n : /\ f[k] < f[l] <=> k < l
                         /\ f[k] = f[l] => k = l
  <2> SUFFICES ASSUME NEW k \in 1..n, NEW l \in 1..n
               PROVE  (f[k] < f[l] <=> k < l) /\ (f[k] = f[l] => k = l)
    OBVIOUS
  <2>1. f[k] \in Int /\ f[l] \in Int
    OBVIOUS
  <2>2. k < l \/ k = l \/ l < k
    OBVIOUS
  <2> QED BY <2>1, <2>2
<1>2. f \in Bijection(1..n, I)
  BY <1>1 DEF Bijection, Injection, Surjection, IsInjective
<1>3. IsFiniteSet(1..n) /\ Cardinality(1..n) = n
  BY FS_Interval
<1>4. IsFiniteSet(I) /\ Cardinality(I) = n
  <2>1. ExistsBijection(1..n, I)
    BY <1>2 DEF ExistsBijection
  <2> QED BY <2>1, <1>3, FS_Bijection
<1> DEFINE R == {p \in I \X I : p[1] < p[2]}
<1>5. ASSUME NEW k \in 1..n PROVE Cardinality(Before(I, R, f[k])) = k - 1
  <2> DEFINE g == [j \in 1..(k - 1) |-> f[j]]
             B == Before(I, R, f[k])
  <2>1. B = {f[j] : j \in 1..(k - 1)}
    <3>1. B = {i \in I : i < f[k]}
      BY DEF Before
    <3>2. ASSUME NEW i \in I, i < f[k] PROVE \E j \in 1..(k - 1) : f[j] = i
      BY <3>2, <1>1
    <3>3. ASSUME NEW j \in 1..(k - 1) PROVE f[j] \in I /\ f[j] < f[k]
      BY <1>1
    <3> QED BY <3>1, <3>2, <3>3
  <2>2. g \in Bijection(1..(k - 1), B)
    BY <2>1, <1>1 DEF Bijection, Injection, Surjection, IsInjective
  <2>3. ExistsBijection(1..(k - 1), B)
    BY <2>2 DEF ExistsBijection
  <2>4. IsFiniteSet(1..(k - 1)) /\ Cardinality(1..(k - 1)) = k - 1
    BY FS_Interval
  <2> HIDE DEF B, g
  <2>5. Cardinality(B) = k - 1
    BY <2>3, <2>4, FS_Bijection
  <2> QED BY <2>5 DEF B
<1>6. ASSUME NEW k \in 1..n
      PROVE  (CHOOSE i \in I : Cardinality(Before(I, R, i)) = k - 1) = f[k]
  <2>1. ASSUME NEW i \in I, Cardinality(Before(I, R, i)) = k - 1 PROVE i = f[k]
    <3>1. PICK j \in 1..n : f[j] = i
      OBVIOUS
    <3>2. j - 1 = k - 1
      BY <1>5, <2>1, <3>1
    <3> QED BY <3>1, <3>2
  <2>2. f[k] \in I /\ Cardinality(Before(I, R, f[k])) = k - 1
    BY <1>5
  <2> HIDE DEF R
  <2> QED BY <2>1, <2>2
<1>7. Ascending(I) = f
  <2>1. Ascending(I) = [k \in 1..n |-> CHOOSE i \in I : Cardinality(Before(I, R, i)) = k - 1]
    BY <1>4 DEF Ascending, Sorted
  <2> HIDE DEF R
  <2> QED BY <2>1, <1>6
<1> QED BY <1>4, <1>7

(* The numbers of A, and those of B moved behind them. *)
LEMMA AscendingJoin ==
    ASSUME NEW A \in SUBSET Int, IsFiniteSet(A), NEW B \in SUBSET Int, IsFiniteSet(B),
           NEW off \in Int, \A a \in A, b \in B : a < off + b
    PROVE  LET I == A \cup {off + b : b \in B}
           IN  /\ IsFiniteSet(I)
               /\ Cardinality(I) = Cardinality(A) + Cardinality(B)
               /\ Ascending(I) = [k \in 1..(Cardinality(A) + Cardinality(B)) |->
                                    IF k <= Cardinality(A) THEN Ascending(A)[k]
                                    ELSE off + Ascending(B)[k - Cardinality(A)]]
<1> DEFINE I == A \cup {off + b : b \in B}
           m == Cardinality(A)
           n == Cardinality(B)
           f == [k \in 1..(m + n) |-> IF k <= m THEN Ascending(A)[k]
                                      ELSE off + Ascending(B)[k - m]]
<1>1. /\ m \in Nat /\ Ascending(A) \in [1..m -> A]
      /\ \A i \in A : \E k \in 1..m : Ascending(A)[k] = i
      /\ \A k, l \in 1..m : k < l <=> Ascending(A)[k] < Ascending(A)[l]
  BY AscendingOrder
<1>2. /\ n \in Nat /\ Ascending(B) \in [1..n -> B]
      /\ \A i \in B : \E k \in 1..n : Ascending(B)[k] = i
      /\ \A k, l \in 1..n : k < l <=> Ascending(B)[k] < Ascending(B)[l]
  BY AscendingOrder
<1> HIDE DEF m, n
<1>3. /\ \A k \in 1..m : k \in 1..(m + n) /\ k <= m
      /\ \A k \in 1..n : m + k \in 1..(m + n) /\ ~(m + k <= m) /\ (m + k) - m = k
      /\ \A k \in 1..(m + n) : k \in 1..m \/ (~(k <= m) /\ k - m \in 1..n)
  BY <1>1, <1>2
<1>4. I \in SUBSET Int /\ m + n \in Nat
  <2>1. ASSUME NEW i \in I PROVE i \in Int
    <3>1. CASE \E b \in B : i = off + b
      BY <3>1
    <3>2. CASE i \in A
      BY <3>2
    <3> QED BY <3>1, <3>2
  <2>2. m + n \in Nat
    BY <1>1, <1>2
  <2> HIDE DEF I
  <2> QED BY <2>1, <2>2
<1>5. f \in [1..(m + n) -> I]
  <2>1. ASSUME NEW k \in 1..(m + n) PROVE f[k] \in I
    BY <1>1, <1>2, <1>3
  <2> QED BY <2>1
<1>6. ASSUME NEW i \in I PROVE \E k \in 1..(m + n) : f[k] = i
  <2>1. CASE i \in A
    BY <2>1, <1>1, <1>3
  <2>2. CASE \E b \in B : i = off + b
    <3>1. PICK b \in B : i = off + b
      BY <2>2
    <3>2. PICK k \in 1..n : Ascending(B)[k] = b
      BY <1>2
    <3>3. f[m + k] = i
      BY <3>1, <3>2, <1>3
    <3> QED BY <3>3, <1>3
  <2> QED BY <2>1, <2>2
<1>7. ASSUME NEW k \in 1..(m + n), NEW l \in 1..(m + n), k < l
      PROVE  f[k] < f[l]
  <2>1. CASE l \in 1..m
    <3>1. k \in 1..m
      BY <2>1, <1>7, <1>1
    <3> QED BY <3>1, <2>1, <1>1, <1>7
  <2>2. CASE k \in 1..m /\ ~(l <= m)
    BY <2>2, <1>1, <1>2, <1>3
  <2>3. CASE ~(k <= m) /\ ~(l <= m)
    <3>1. k - m \in 1..n /\ l - m \in 1..n /\ k - m < l - m
      BY <2>3, <1>3, <1>7, <1>1, <1>2
    <3>2. /\ Ascending(B)[k - m] \in Int /\ Ascending(B)[l - m] \in Int
          /\ Ascending(B)[k - m] < Ascending(B)[l - m]
      BY <3>1, <1>2
    <3> QED BY <3>2, <2>3
  <2> QED BY <2>1, <2>2, <2>3, <1>3
<1> HIDE DEF I, f
<1>8. IsFiniteSet(I) /\ Cardinality(I) = m + n /\ Ascending(I) = f
  BY <1>4, <1>5, <1>6, <1>7, IncreasingIsAscending
<1> QED BY <1>8 DEF I, f, m, n

Char == {"x", "nl"}

(* The largest of a finite set of natural numbers. *)
LEMMA Largest ==
    ASSUME NEW n \in Nat, NEW S \in SUBSET (0..n), S # {}
    PROVE  Max(S) \in S /\ \A i \in S : i <= Max(S)
<1> DEFINE T == {n - i : i \in S}
<1>1. T # {} /\ T \subseteq Nat
  <2>1. \A i \in S : i \in Nat /\ i <= n /\ n - i \in Nat
    OBVIOUS
  <2> QED BY <2>1
<1>2. PICK t \in T : \A u \in T : t <= u
  <2> HIDE DEF T
  <2> QED BY <1>1, LeastNat
<1>3. PICK m \in S : t = n - m
  BY <1>2
<1>4. ASSUME NEW i \in S PROVE m >= i
  <2>1. n - i \in T /\ i \in Nat /\ m \in Nat
    BY <1>3
  <2>2. n - m <= n - i
    BY <2>1, <1>2, <1>3
  <2> QED BY <2>1, <2>2
<1>5. \E x \in S : \A y \in S : x >= y
  BY <1>4
<1>6. Max(S) \in S /\ \A y \in S : Max(S) >= y
  BY <1>5 DEF Max
<1> QED BY <1>6

(* A line begins after the last line end before it. *)
LEMMA LineStartOK ==
    ASSUME NEW s \in Seq(Char), NEW e \in Nat
    PROVE  /\ LineStart(s, e) \in Nat \ {0}
           /\ LineStart(s, e) - 1 \in {0} \cup {i \in Ends(s) : i < e}
           /\ \A i \in Ends(s) : i < e => i < LineStart(s, e)
           /\ \A m \in {0} \cup {i \in Ends(s) : i < e} :
                (\A i \in Ends(s) : i < e => i <= m) => LineStart(s, e) = m + 1
<1> DEFINE S == {0} \cup {i \in Ends(s) : i < e}
<1>1. Ends(s) \subseteq 1..Len(s) /\ Len(s) \in Nat
  BY LenProperties DEF Ends
<1>2. S \in SUBSET (0..Len(s)) /\ S # {}
  BY <1>1
<1>3. Max(S) \in S /\ \A i \in S : i <= Max(S)
  BY <1>1, <1>2, Largest
<1>4. LineStart(s, e) = 1 + Max(S)
  BY DEF LineStart
<1>5. Max(S) \in Nat
  BY <1>2, <1>3
<1>6. ASSUME NEW m \in S, \A i \in Ends(s) : i < e => i <= m
      PROVE  Max(S) = m
  <2>1. m \in Nat /\ m <= Max(S)
    BY <1>2, <1>3
  <2>2. Max(S) <= m
    BY <1>3, <1>6, <1>5, <2>1
  <2> QED BY <2>1, <2>2, <1>5
<1> HIDE DEF S
<1>7. \A m \in S : (\A i \in Ends(s) : i < e => i <= m) => LineStart(s, e) = m + 1
  BY <1>2, <1>4, <1>6
<1>8. LineStart(s, e) - 1 = Max(S)
  BY <1>4, <1>5
<1>9. \A i \in Ends(s) : i < e => i < LineStart(s, e)
  BY <1>1, <1>3, <1>4, <1>5 DEF S
<1> QED BY <1>3, <1>4, <1>5, <1>7, <1>8, <1>9 DEF S

(* The rest of a sequence has no line end. *)
LEMMA RestOK ==
    ASSUME NEW s \in Seq(Char)
    PROVE  LET off == LineStart(s, Len(s) + 1) - 1
           IN  /\ off \in 0..Len(s)
               /\ \A i \in Ends(s) : i <= off
               /\ off # 0 => off \in Ends(s)
               /\ Rest(s) \in Seq(Char)
               /\ Len(Rest(s)) = Len(s) - off
               /\ \A i \in 1..(Len(s) - off) : Rest(s)[i] = s[off + i]
<1> DEFINE off == LineStart(s, Len(s) + 1) - 1
<1>1. Ends(s) \subseteq 1..Len(s) /\ Len(s) \in Nat
  BY LenProperties DEF Ends
<1>2. /\ off \in {0} \cup Ends(s) /\ LineStart(s, Len(s) + 1) = off + 1
      /\ \A i \in Ends(s) : i < off + 1
  BY <1>1, LineStartOK
<1> HIDE DEF off
<1>3. off \in 0..Len(s) /\ \A i \in Ends(s) : i <= off
  BY <1>1, <1>2
<1>4. Rest(s) = SubSeq(s, off + 1, Len(s))
  BY <1>1, <1>2 DEF Rest, LineAt
<1>5. \A i \in (off + 1)..Len(s) : s[i] \in Char
  BY <1>1, <1>3, ElementOfSeq
<1>6. /\ Rest(s) \in Seq(Char)
      /\ Len(Rest(s)) = IF off + 1 <= Len(s) THEN Len(s) - (off + 1) + 1 ELSE 0
      /\ \A i \in 1..(Len(s) - (off + 1) + 1) : Rest(s)[i] = s[off + 1 + i - 1]
  <2>1. off + 1 \in Int /\ Len(s) \in Int
    BY <1>1, <1>3
  <2> QED BY <2>1, <1>4, <1>5, SubSeqProperties
<1>7. \A i \in 1..(Len(s) - off) : /\ i \in 1..(Len(s) - (off + 1) + 1)
                                   /\ off + 1 + i - 1 = off + i
  BY <1>1, <1>3
<1>8. Len(Rest(s)) = Len(s) - off
  BY <1>6, <1>1, <1>3
<1> QED BY <1>2, <1>3, <1>6, <1>7, <1>8 DEF off

(* u is s and more, t what comes in u after the last line end of s. *)
Joined(s, t, u, off) ==
    /\ t \in Seq(Char) /\ u \in Seq(Char) /\ Len(u) = off + Len(t)
    /\ \A i \in 1..Len(t) : u[off + i] = t[i]
    /\ \A i \in 1..off : u[i] = s[i]
    /\ Ends(u) = Ends(s) \cup {off + i : i \in Ends(t)}
    /\ Ends(s) \subseteq 1..off /\ off \in 0..Len(s)
    /\ Ends(t) \subseteq Nat \ {0}

LEMMA EndsJoin ==
    ASSUME NEW s \in Seq(Char), NEW c \in Seq(Char), NEW off, NEW t, NEW u,
           off = LineStart(s, Len(s) + 1) - 1, t = Rest(s) \o c, u = s \o c
    PROVE  Joined(s, t, u, off)
<1> DEFINE r == Rest(s)
<1>1. /\ off \in 0..Len(s) /\ \A i \in Ends(s) : i <= off
      /\ r \in Seq(Char) /\ Len(r) = Len(s) - off
      /\ \A i \in 1..(Len(s) - off) : r[i] = s[off + i]
  BY RestOK
<1>2. Len(s) \in Nat /\ Len(c) \in Nat /\ Len(r) \in Nat /\ off \in Nat
  BY <1>1, LenProperties
<1>0. t = r \o c
  OBVIOUS
<1> HIDE DEF r
<1>3. /\ t \in Seq(Char) /\ Len(t) = Len(r) + Len(c)
      /\ \A i \in 1..(Len(r) + Len(c)) : t[i] = IF i <= Len(r) THEN r[i] ELSE c[i - Len(r)]
  <2>1. /\ r \o c \in Seq(Char) /\ Len(r \o c) = Len(r) + Len(c)
        /\ \A i \in 1..(Len(r) + Len(c)) : (r \o c)[i] = IF i <= Len(r) THEN r[i] ELSE c[i - Len(r)]
    BY <1>1, ConcatProperties
  <2> QED BY <2>1, <1>0, Zenon
<1>4. /\ u \in Seq(Char) /\ Len(u) = Len(s) + Len(c)
      /\ \A i \in 1..(Len(s) + Len(c)) : u[i] = IF i <= Len(s) THEN s[i] ELSE c[i - Len(s)]
  BY ConcatProperties
<1>5. Len(u) = off + Len(t)
  BY <1>1, <1>2, <1>3, <1>4
<1>6. ASSUME NEW i \in 1..Len(t) PROVE u[off + i] = t[i] /\ off + i \in 1..Len(u)
  <2>1. off + i \in 1..(Len(s) + Len(c)) /\ i \in 1..(Len(r) + Len(c))
    BY <1>1, <1>2, <1>3
  <2>2. CASE i <= Len(r)
    <3>1. off + i <= Len(s) /\ i \in 1..(Len(s) - off)
      BY <2>2, <1>1, <1>2
    <3> QED BY <2>1, <2>2, <3>1, <1>1, <1>3, <1>4
  <2>3. CASE ~(i <= Len(r))
    <3>1. ~(off + i <= Len(s)) /\ (off + i) - Len(s) = i - Len(r)
      BY <2>3, <1>1, <1>2
    <3> QED BY <2>1, <2>3, <3>1, <1>3, <1>4
  <2> QED BY <2>1, <2>2, <2>3, <1>4
<1>7. ASSUME NEW i \in 1..off PROVE u[i] = s[i] /\ i \in 1..Len(u) /\ i \in 1..Len(s)
  BY <1>1, <1>2, <1>4
<1>8. /\ DOMAIN s = 1..Len(s) /\ DOMAIN t = 1..Len(t) /\ DOMAIN u = 1..Len(u)
      /\ Len(t) \in Nat /\ Len(u) \in Nat
  BY <1>3, <1>4, LenProperties
<1>9. Ends(s) \subseteq 1..off /\ Ends(t) \subseteq Nat \ {0}
  BY <1>1, <1>2, <1>8 DEF Ends
<1>10. Ends(u) = Ends(s) \cup {off + i : i \in Ends(t)}
  <2>1. ASSUME NEW i \in Ends(u) PROVE i \in Ends(s) \cup {off + j : j \in Ends(t)}
    <3>0. i \in 1..Len(u) /\ u[i] = "nl"
      BY <1>8 DEF Ends
    <3>1. CASE i <= off
      <4>1. i \in 1..off
        BY <3>0, <3>1, <1>2
      <4> QED BY <4>1, <3>0, <1>7, <1>8 DEF Ends
    <3>2. CASE ~(i <= off)
      <4>1. i - off \in 1..Len(t) /\ off + (i - off) = i
        BY <3>0, <3>2, <1>2, <1>5, <1>8
      <4>2. t[i - off] = "nl"
        BY <4>1, <3>0, <1>6
      <4>3. i - off \in Ends(t)
        BY <4>1, <4>2, <1>8 DEF Ends
      <4> QED BY <4>1, <4>3
    <3> QED BY <3>1, <3>2
  <2>2. ASSUME NEW i \in Ends(s) PROVE i \in Ends(u)
    BY <1>7, <1>8, <1>9 DEF Ends
  <2>3. ASSUME NEW i \in Ends(t) PROVE off + i \in Ends(u)
    BY <1>6, <1>8 DEF Ends
  <2> QED BY <2>1, <2>2, <2>3
<1> QED BY <1>1, <1>3, <1>4, <1>5, <1>6, <1>7, <1>9, <1>10 DEF Joined

(* The line up to e is the same sequence when the text around it is. *)
LEMMA SameLine ==
    ASSUME NEW u \in Seq(Char), NEW t \in Seq(Char), NEW d \in Nat, NEW e \in Nat,
           e <= Len(t) + 1, d + e <= Len(u) + 1,
           LineStart(u, d + e) = d + LineStart(t, e),
           \A i \in 1..(e - 1) : u[d + i] = t[i]
    PROVE  LineAt(u, d + e) = LineAt(t, e)
<1>1. PICK b \in Nat \ {0} : b = LineStart(t, e)
  BY LineStartOK
<1>2. Len(t) \in Nat /\ Len(u) \in Nat
  BY LenProperties
<1>3. LineAt(t, e) = SubSeq(t, b, e - 1) /\ LineAt(u, d + e) = SubSeq(u, d + b, (d + e) - 1)
  <2>1. LineStart(u, d + e) = d + b
    BY <1>1
  <2>2. LineAt(u, d + e) = SubSeq(u, LineStart(u, d + e), (d + e) - 1)
    BY DEF LineAt
  <2>3. LineAt(t, e) = SubSeq(t, LineStart(t, e), e - 1)
    BY DEF LineAt
  <2>4. LineAt(t, e) = SubSeq(t, b, e - 1)
    BY <2>3, <1>1
  <2>5. LineAt(u, d + e) = SubSeq(u, d + b, (d + e) - 1)
    BY <2>2, <2>1, Zenon
  <2> QED BY <2>4, <2>5
<1>4. ASSUME NEW i \in b..(e - 1)
      PROVE  t[i] \in Char /\ u[d + i] = t[i]
  <2>1. i \in 1..Len(t) /\ i \in 1..(e - 1)
    BY <1>2
  <2> QED BY <2>1, ElementOfSeq
<1>5. PICK v \in Int, w \in Int : v = d + b /\ w = (d + e) - 1
  OBVIOUS
<1>6. ASSUME NEW i \in v..w PROVE u[i] \in Char
  <2>1. i - d \in b..(e - 1) /\ d + (i - d) = i
    BY <1>5
  <2> QED BY <2>1, <1>4
<1>7. /\ SubSeq(t, b, e - 1) \in Seq(Char)
      /\ Len(SubSeq(t, b, e - 1)) = IF b <= e - 1 THEN (e - 1) - b + 1 ELSE 0
      /\ \A i \in 1..((e - 1) - b + 1) : SubSeq(t, b, e - 1)[i] = t[b + i - 1]
  <2>1. PICK g \in Int, f \in Int : g = b /\ f = e - 1
    OBVIOUS
  <2>2. ASSUME NEW i \in g..f PROVE t[i] \in Char
    BY <1>4, <2>1
  <2>3. /\ SubSeq(t, g, f) \in Seq(Char)
        /\ Len(SubSeq(t, g, f)) = IF g <= f THEN f - g + 1 ELSE 0
        /\ \A i \in 1..(f - g + 1) : SubSeq(t, g, f)[i] = t[g + i - 1]
    BY <2>2, SubSeqProperties, SMTT(60)
  <2> QED BY <2>1, <2>3
<1>8. /\ SubSeq(u, v, w) \in Seq(Char)
      /\ Len(SubSeq(u, v, w)) = IF v <= w THEN w - v + 1 ELSE 0
      /\ \A i \in 1..(w - v + 1) : SubSeq(u, v, w)[i] = u[v + i - 1]
  BY <1>6, SubSeqProperties
<1>9. w - v + 1 = (e - 1) - b + 1 /\ (v <= w <=> b <= e - 1)
  BY <1>5
<1>10. Len(SubSeq(u, v, w)) = Len(SubSeq(t, b, e - 1))
  BY <1>7, <1>8, <1>9
<1>11. ASSUME NEW i \in 1..Len(SubSeq(t, b, e - 1))
       PROVE  SubSeq(u, v, w)[i] = SubSeq(t, b, e - 1)[i]
  <2>1. i \in 1..((e - 1) - b + 1)
    BY <1>7
  <2>2. b + i - 1 \in b..(e - 1) /\ v + i - 1 = d + (b + i - 1)
    BY <2>1, <1>5
  <2>3. u[v + i - 1] = t[b + i - 1]
    BY <2>2, <1>4
  <2> QED BY <2>1, <2>3, <1>7, <1>8, <1>9
<1>12. SubSeq(u, v, w) = SubSeq(t, b, e - 1)
  BY <1>7, <1>8, <1>10, <1>11, SeqEqual
<1> QED BY <1>3, <1>5, <1>12

(* A line is a sequence of characters. *)
LEMMA LineType ==
    ASSUME NEW s \in Seq(Char), NEW e \in Nat, e <= Len(s) + 1
    PROVE  LineAt(s, e) \in Seq(Char)
<1>1. PICK b \in Nat \ {0} : b = LineStart(s, e)
  BY LineStartOK
<1>2. Len(s) \in Nat
  BY LenProperties
<1>3. ASSUME NEW i \in b..(e - 1) PROVE s[i] \in Char
  <2>1. i \in 1..Len(s)
    BY <1>2
  <2> QED BY <2>1, ElementOfSeq
<1>4. b \in Int /\ e - 1 \in Int
  OBVIOUS
<1> QED BY <1>1, <1>3, <1>4, SubSeqProperties DEF LineAt

LEMMA FunctionSeq ==
    ASSUME NEW S, NEW n \in Nat, NEW f \in [1..n -> S]
    PROVE  f \in Seq(S) /\ Len(f) = n
<1>1. f \in Seq(S)
  BY SeqDef
<1>2. Len(f) \in Nat /\ DOMAIN f = 1..Len(f)
  BY <1>1, LenProperties
<1>3. DOMAIN f = 1..n
  OBVIOUS
<1>4. 1..n = 1..Len(f)
  BY <1>2, <1>3
<1>5. n = Len(f)
  <2>1. ASSUME n > Len(f) PROVE FALSE
    <3>1. n \in 1..n /\ n \notin 1..Len(f)
      BY <2>1, <1>2
    <3> QED BY <3>1, <1>4
  <2>2. ASSUME n < Len(f) PROVE FALSE
    <3>1. Len(f) \in 1..Len(f) /\ Len(f) \notin 1..n
      BY <2>2, <1>2
    <3> QED BY <3>1, <1>4
  <2> QED BY <2>1, <2>2, <1>2
<1> QED BY <1>1, <1>5

(* The lines that end at some of the line ends. *)
LEMMA LinesType ==
    ASSUME NEW s \in Seq(Char), NEW E \in SUBSET Ends(s)
    PROVE  /\ E \in SUBSET Int /\ IsFiniteSet(E) /\ Cardinality(E) \in Nat
           /\ Ascending(E) \in [1..Cardinality(E) -> E]
           /\ LinesAt(s, E) \in Seq(Seq(Char))
           /\ Len(LinesAt(s, E)) = Cardinality(E)
           /\ \A k \in 1..Cardinality(E) : LinesAt(s, E)[k] = LineAt(s, Ascending(E)[k])
<1>1. Ends(s) \subseteq 1..Len(s) /\ Len(s) \in Nat
  BY LenProperties DEF Ends
<1>2. E \in SUBSET Int /\ IsFiniteSet(E)
  <2>1. IsFiniteSet(1..Len(s))
    BY <1>1, FS_Interval
  <2>2. E \subseteq 1..Len(s)
    BY <1>1
  <2>3. IsFiniteSet(E)
    BY <2>1, <2>2, FS_Subset
  <2> QED BY <2>2, <2>3
<1>3. Cardinality(E) \in Nat /\ Ascending(E) \in [1..Cardinality(E) -> E]
  BY <1>2, AscendingOrder
<1>4. LinesAt(s, E) = [k \in 1..Cardinality(E) |-> LineAt(s, Ascending(E)[k])]
  BY <1>3 DEF LinesAt
<1>5. ASSUME NEW k \in 1..Cardinality(E) PROVE LineAt(s, Ascending(E)[k]) \in Seq(Char)
  <2>1. Ascending(E)[k] \in Nat /\ Ascending(E)[k] <= Len(s) + 1
    BY <1>1, <1>3
  <2> QED BY <2>1, LineType
<1>6. LinesAt(s, E) \in [1..Cardinality(E) -> Seq(Char)]
  BY <1>4, <1>5
<1> QED BY <1>2, <1>3, <1>4, <1>6, FunctionSeq

(* The lines of a text that arrives in two chunks are those of the first, and then
   those of the second one with the rest of the first before it. *)
LEMMA LinesJoin ==
    ASSUME NEW s \in Seq(Char), NEW c \in Seq(Char)
    PROVE  /\ NonEmptyLines(s \o c) = NonEmptyLines(s) \o NonEmptyLines(Rest(s) \o c)
           /\ Rest(s \o c) = Rest(Rest(s) \o c)
<1> DEFINE off == LineStart(s, Len(s) + 1) - 1
           t == Rest(s) \o c
           u == s \o c
<1>1. /\ t \in Seq(Char) /\ u \in Seq(Char) /\ Len(u) = off + Len(t)
      /\ \A i \in 1..Len(t) : u[off + i] = t[i]
      /\ \A i \in 1..off : u[i] = s[i]
      /\ Ends(u) = Ends(s) \cup {off + i : i \in Ends(t)}
      /\ Ends(s) \subseteq 1..off /\ off \in 0..Len(s)
      /\ Ends(t) \subseteq Nat \ {0}
      /\ off # 0 => off \in Ends(s)
  <2>1. off # 0 => off \in Ends(s)
    BY RestOK
  <2>3. Joined(s, t, u, off)
    BY EndsJoin
  <2> HIDE DEF off, t, u
  <2> QED BY <2>1, <2>3 DEF Joined
<1> HIDE DEF off, t, u
<1>2. /\ Len(s) \in Nat /\ Len(t) \in Nat /\ Len(u) \in Nat /\ off \in Nat
      /\ Ends(t) \subseteq 1..Len(t)
  BY <1>1, LenProperties DEF Ends
<1>3. ASSUME NEW e \in 1..(Len(t) + 1)
      PROVE  /\ LineStart(u, off + e) = off + LineStart(t, e)
             /\ LineAt(u, off + e) = LineAt(t, e)
  <2>1. PICK m \in {0} \cup {i \in Ends(t) : i < e} : LineStart(t, e) = m + 1
    <3>1. /\ LineStart(t, e) \in Nat \ {0}
          /\ LineStart(t, e) - 1 \in {0} \cup {i \in Ends(t) : i < e}
      BY <1>1, LineStartOK
    <3>2. LineStart(t, e) = (LineStart(t, e) - 1) + 1
      BY <3>1
    <3> QED BY <3>1, <3>2
  <2>2. \A i \in Ends(t) : i < e => i < m + 1
    BY <1>1, <2>1, LineStartOK
  <2>3. m \in Nat
    BY <2>1, <1>1
  <2>4. off + m \in {0} \cup {i \in Ends(u) : i < off + e}
    BY <1>1, <1>2, <2>1
  <2>5. ASSUME NEW i \in Ends(u), i < off + e PROVE i <= off + m
    <3>1. CASE i \in Ends(s)
      BY <3>1, <1>1, <1>2, <2>3
    <3>2. CASE \E j \in Ends(t) : i = off + j
      <4>1. PICK j \in Ends(t) : i = off + j
        BY <3>2
      <4>2. j \in Nat /\ j < e
        BY <4>1, <2>5, <1>1, <1>2
      <4> QED BY <4>1, <4>2, <2>2, <2>3, <1>2
    <3> QED BY <3>1, <3>2, <1>1
  <2>6. LineStart(u, off + e) = (off + m) + 1
    <3>1. off + e \in Nat
      BY <1>2
    <3> QED BY <3>1, <1>1, <2>4, <2>5, LineStartOK
  <2>7. LineStart(u, off + e) = off + LineStart(t, e)
    BY <2>1, <2>3, <2>6, <1>2
  <2>8. /\ e \in Nat /\ e <= Len(t) + 1 /\ off + e <= Len(u) + 1
        /\ \A i \in 1..(e - 1) : u[off + i] = t[i]
    BY <1>1, <1>2
  <2>9. LineAt(u, off + e) = LineAt(t, e)
    <3>1. u \in Seq(Char) /\ t \in Seq(Char) /\ off \in Nat
      BY <1>1, <1>2
    <3> QED BY <2>7, <2>8, <3>1, SameLine
  <2> QED BY <2>7, <2>9
<1>4. ASSUME NEW e \in Ends(s)
      PROVE  LineAt(u, e) = LineAt(s, e)
  <2>1. e \in 1..off /\ e \in Nat
    BY <1>1, <1>2
  <2>2. PICK m \in {0} \cup {i \in Ends(s) : i < e} : LineStart(s, e) = m + 1
    <3>1. /\ LineStart(s, e) \in Nat \ {0}
          /\ LineStart(s, e) - 1 \in {0} \cup {i \in Ends(s) : i < e}
      BY <2>1, LineStartOK
    <3>2. LineStart(s, e) = (LineStart(s, e) - 1) + 1
      BY <3>1
    <3> QED BY <3>1, <3>2
  <2>3. \A i \in Ends(s) : i < e => i < m + 1
    BY <2>1, <2>2, LineStartOK
  <2>4. m \in Nat /\ m \in {0} \cup {i \in Ends(u) : i < e}
    BY <1>1, <2>2
  <2>5. ASSUME NEW i \in Ends(u), i < e PROVE i <= m
    <3>1. CASE i \in Ends(s)
      BY <3>1, <2>5, <2>3, <2>4, <1>1
    <3>2. CASE \E j \in Ends(t) : i = off + j
      BY <3>2, <2>5, <2>1, <1>1, <1>2
    <3> QED BY <3>1, <3>2, <1>1
  <2>6. LineStart(u, e) = m + 1
    BY <2>1, <1>1, <2>4, <2>5, LineStartOK
  <2>7. /\ 0 + e = e /\ LineStart(u, 0 + e) = 0 + LineStart(s, e)
        /\ e <= Len(s) + 1 /\ 0 + e <= Len(u) + 1
        /\ \A i \in 1..(e - 1) : u[0 + i] = s[i]
        /\ 0 \in Nat
    BY <2>1, <2>2, <2>4, <2>6, <1>1, <1>2
  <2>8. LineAt(u, 0 + e) = LineAt(s, e)
    <3>1. u \in Seq(Char) /\ e \in Nat
      BY <1>1, <2>1
    <3> QED BY <2>7, <3>1, SameLine
  <2> QED BY <2>7, <2>8
<1>5. Rest(u) = Rest(t)
  <2>1. Len(t) + 1 \in 1..(Len(t) + 1) /\ off + (Len(t) + 1) = Len(u) + 1
    BY <1>1, <1>2
  <2> QED BY <2>1, <1>3 DEF Rest
<1> DEFINE A == {e \in Ends(s) : LineAt(s, e) # <<>>}
           B == {e \in Ends(t) : LineAt(t, e) # <<>>}
           I == A \cup {off + b : b \in B}
<1>6. {e \in Ends(u) : LineAt(u, e) # <<>>} = I
  <2>1. \A e \in Ends(s) : LineAt(u, e) = LineAt(s, e)
    BY <1>4
  <2>2. \A e \in Ends(t) : LineAt(u, off + e) = LineAt(t, e)
    <3>1. \A e \in Ends(t) : e \in 1..(Len(t) + 1)
      BY <1>2
    <3> QED BY <3>1, <1>3
  <2> QED BY <1>1, <2>1, <2>2
<1>7. A \in SUBSET Ends(s) /\ B \in SUBSET Ends(t) /\ I \in SUBSET Ends(u)
  BY <1>6
<1>8. \A a \in A, b \in B : a < off + b
  BY <1>1, <1>2
<1>9. /\ NonEmptyLines(s) = LinesAt(s, A) /\ NonEmptyLines(t) = LinesAt(t, B)
      /\ NonEmptyLines(u) = LinesAt(u, I)
  BY <1>6 DEF NonEmptyLines
<1>10. /\ A \in SUBSET Int /\ IsFiniteSet(A) /\ B \in SUBSET Int /\ IsFiniteSet(B)
       /\ Cardinality(A) \in Nat /\ Cardinality(B) \in Nat
       /\ Ascending(A) \in [1..Cardinality(A) -> A] /\ Ascending(B) \in [1..Cardinality(B) -> B]
       /\ LinesAt(s, A) \in Seq(Seq(Char)) /\ Len(LinesAt(s, A)) = Cardinality(A)
       /\ LinesAt(t, B) \in Seq(Seq(Char)) /\ Len(LinesAt(t, B)) = Cardinality(B)
       /\ LinesAt(u, I) \in Seq(Seq(Char)) /\ Len(LinesAt(u, I)) = Cardinality(I)
       /\ \A k \in 1..Cardinality(A) : LinesAt(s, A)[k] = LineAt(s, Ascending(A)[k])
       /\ \A k \in 1..Cardinality(B) : LinesAt(t, B)[k] = LineAt(t, Ascending(B)[k])
       /\ \A k \in 1..Cardinality(I) : LinesAt(u, I)[k] = LineAt(u, Ascending(I)[k])
  <2> HIDE DEF A, B, I
  <2> QED BY <1>1, <1>7, LinesType
<1>11. /\ Cardinality(I) = Cardinality(A) + Cardinality(B)
       /\ Ascending(I) = [k \in 1..(Cardinality(A) + Cardinality(B)) |->
                            IF k <= Cardinality(A) THEN Ascending(A)[k]
                            ELSE off + Ascending(B)[k - Cardinality(A)]]
  <2>1. off \in Int
    BY <1>2
  <2> HIDE DEF A, B
  <2> QED BY <2>1, <1>8, <1>10, AscendingJoin
<1>12. LinesAt(u, I) = LinesAt(s, A) \o LinesAt(t, B)
  <2> DEFINE m == Cardinality(A)
             n == Cardinality(B)
             w == LinesAt(s, A) \o LinesAt(t, B)
  <2>1. /\ w \in Seq(Seq(Char)) /\ Len(w) = m + n
        /\ \A k \in 1..(m + n) :
             w[k] = IF k <= m THEN LinesAt(s, A)[k] ELSE LinesAt(t, B)[k - m]
    <3> HIDE DEF A, B, I
    <3> QED BY <1>10, ConcatProperties
  <2>2. ASSUME NEW k \in 1..(m + n) PROVE LinesAt(u, I)[k] = w[k]
    <3>1. LinesAt(u, I)[k] = LineAt(u, Ascending(I)[k])
      BY <1>10, <1>11
    <3>2. CASE k <= m
      <4>1. k \in 1..m /\ Ascending(I)[k] = Ascending(A)[k]
        <5> HIDE DEF A, B, I
        <5> QED BY <3>2, <1>10, <1>11
      <4>2. PICK e \in A : e = Ascending(A)[k]
        BY <4>1, <1>10
      <4>3. LineAt(u, e) = LineAt(s, e)
        BY <1>4
      <4> HIDE DEF A, B, I, w
      <4> QED BY <3>1, <3>2, <4>1, <4>2, <4>3, <1>10, <2>1
    <3>3. CASE ~(k <= m)
      <4>1. k - m \in 1..n /\ Ascending(I)[k] = off + Ascending(B)[k - m]
        <5> HIDE DEF A, B, I
        <5> QED BY <3>3, <1>10, <1>11
      <4>2. PICK e \in B : e = Ascending(B)[k - m]
        BY <4>1, <1>10
      <4>3. e \in 1..(Len(t) + 1)
        BY <1>2
      <4>4. LineAt(u, off + e) = LineAt(t, e)
        BY <4>3, <1>3
      <4> HIDE DEF A, B, I, w
      <4> QED BY <3>1, <3>3, <4>1, <4>2, <4>4, <1>10, <2>1
    <3> QED BY <3>2, <3>3
  <2> HIDE DEF A, B, I, w
  <2>3. LinesAt(u, I) = w
    BY <2>1, <2>2, <1>10, <1>11, SeqEqual
  <2> QED BY <2>3 DEF w
<1> QED BY <1>5, <1>9, <1>12 DEF t, u

(* On docker and local: what was streamed and what waits in the writer. *)
LinesOK ==
    cfg.backend \in {"docker", "local"} =>
        /\ proc[1].pos \in 0..Len(cfg.text)
        /\ proc[1].got = NonEmptyLines(SubSeq(cfg.text, 1, proc[1].pos))
        /\ proc[1].buf = Rest(SubSeq(cfg.text, 1, proc[1].pos))

LEMMA NoLines == NonEmptyLines(<<>>) = <<>> /\ Rest(<<>>) = <<>>
<1>1. <<>> \in Seq(Char) /\ Len(<<>>) = 0
  BY EmptySeq
<1>2. Ends(<<>>) = {}
  BY DEF Ends
<1>3. NonEmptyLines(<<>>) = LinesAt(<<>>, {})
  BY <1>2 DEF NonEmptyLines
<1>4. Cardinality({}) = 0
  BY FS_EmptySet
<1>5. LinesAt(<<>>, {}) \in Seq(Seq(Char)) /\ Len(LinesAt(<<>>, {})) = 0
  <2>1. {} \in SUBSET Ends(<<>>)
    OBVIOUS
  <2> QED BY <1>1, <1>4, <2>1, LinesType
<1>6. LinesAt(<<>>, {}) = <<>>
  BY <1>5, EmptySeq
<1>7. Rest(<<>>) \in Seq(Char) /\ Len(Rest(<<>>)) = 0
  <2> DEFINE off == LineStart(<<>>, Len(<<>>) + 1) - 1
  <2>1. off \in 0..Len(<<>>) /\ Rest(<<>>) \in Seq(Char) /\ Len(Rest(<<>>)) = Len(<<>>) - off
    BY <1>1, RestOK
  <2> HIDE DEF off
  <2> QED BY <2>1, <1>1
<1>8. Rest(<<>>) = <<>>
  BY <1>7, EmptySeq
<1> QED BY <1>3, <1>6, <1>8

LEMMA TextType ==
    ASSUME cfg \in Config
    PROVE  cfg.text \in Seq(Char) /\ Len(cfg.text) \in Nat
<1>1. cfg.text \in Texts
  BY DEF Config
<1>2. cfg.text \in Seq(Char)
  BY <1>1, ExecutionAssumption DEF Char
<1> QED BY <1>2, LenProperties

(* A text up to j + k is the text up to j and the next k characters. *)
LEMMA TextJoin ==
    ASSUME NEW text \in Seq(Char), NEW j \in 0..Len(text), NEW k \in 1..(Len(text) - j)
    PROVE  /\ SubSeq(text, 1, j) \in Seq(Char) /\ SubSeq(text, j + 1, j + k) \in Seq(Char)
           /\ SubSeq(text, 1, j + k) = SubSeq(text, 1, j) \o SubSeq(text, j + 1, j + k)
<1>0. Len(text) \in Nat
  BY LenProperties
<1>1. \A i \in 1..Len(text) : text[i] \in Char
  BY ElementOfSeq
<1>2. /\ SubSeq(text, 1, j) \in Seq(Char)
      /\ SubSeq(text, j + 1, j + k) \in Seq(Char)
  <2>1. /\ 1 \in Int /\ j \in Int /\ j + 1 \in Int /\ j + k \in Int
        /\ \A i \in 1..j : i \in 1..Len(text)
        /\ \A i \in (j + 1)..(j + k) : i \in 1..Len(text)
    BY <1>0
  <2> QED BY <2>1, <1>1, SubSeqProperties
<1>3. SubSeq(text, 1, j + k) = SubSeq(text, 1, j) \o SubSeq(text, j + 1, j + k)
  <2>1. 1 \in 1..(Len(text) + 1) /\ j \in 0..Len(text) /\ j + k \in j..Len(text)
    BY <1>0
  <2> QED BY <2>1, <1>0, ConcatAdjacentSubSeq
<1> QED BY <1>2, <1>3

LEMMA NewLinesOK ==
    ASSUME ExecInv, proc' = NewProcs, UNCHANGED cfg
    PROVE  LinesOK'
<1>1. proc'[1] = NoProc /\ cfg.text \in Seq(Char) /\ Len(cfg.text) \in Nat
  BY Nodes, NewProcsOK, TextType DEF ExecInv, ExecTypeOK
<1>2. NoProc.pos = 0 /\ NoProc.got = <<>> /\ NoProc.buf = <<>>
  BY DEF NoProc
<1>3. SubSeq(cfg.text, 1, 0) = <<>>
  BY SubSeqEmpty
<1>4. 0 \in 0..Len(cfg.text)
  BY <1>1
<1> QED BY <1>1, <1>2, <1>3, <1>4, NoLines DEF LinesOK

(* A chunk of any length: what was streamed is still what the text up to here has. *)
LEMMA ChunkStep ==
    ASSUME ExecInv, LinesOK, NEW n \in 1..cfg.nodes, NEW k, Output(n, k)
    PROVE  LinesOK'
<1> SUFFICES ASSUME cfg.backend \in {"docker", "local"} PROVE LinesOK'
  BY DEF LinesOK, Output
<1> DEFINE text == cfg.text
           j == proc[1].pos
           s == SubSeq(text, 1, j)
           c == SubSeq(text, j + 1, j + k)
           q == [proc[1] EXCEPT !.pos = @ + k]
<1>1. cfg \in Config /\ n = 1 /\ 1 \in DOMAIN proc /\ ProcOK(proc[1])
  BY DEF ExecInv, ExecTypeOK, ProcsOK, OneNodeOK
<1>2. j \in 0..Len(text) /\ proc[1].got = NonEmptyLines(s) /\ proc[1].buf = Rest(s)
  BY DEF LinesOK
<1>3. k \in 1..(Len(text) - j) /\ proc'[1] = lineWriter(q, c) /\ UNCHANGED cfg
  BY <1>1 DEF Output
<1>4. /\ q.pos = j + k /\ q.buf = proc[1].buf /\ q.got = proc[1].got
      /\ DOMAIN q = {"st", "pos", "buf", "got", "code", "err"}
  BY <1>1 DEF ProcOK
<1>5. text \in Seq(Char) /\ Len(text) \in Nat
  BY <1>1, TextType
<1>6. /\ proc'[1].pos = j + k
      /\ proc'[1].got = proc[1].got \o NonEmptyLines(proc[1].buf \o c)
      /\ proc'[1].buf = Rest(proc[1].buf \o c)
  <2> HIDE DEF q, c
  <2> QED BY <1>3, <1>4 DEF lineWriter
<1> HIDE DEF text, j, q
<1>7. /\ s \in Seq(Char) /\ c \in Seq(Char)
      /\ SubSeq(text, 1, j + k) = s \o c
  BY <1>2, <1>3, <1>5, TextJoin
<1> HIDE DEF s, c
<1>8. /\ NonEmptyLines(s \o c) = NonEmptyLines(s) \o NonEmptyLines(Rest(s) \o c)
      /\ Rest(s \o c) = Rest(Rest(s) \o c)
  BY <1>7, LinesJoin
<1>9. /\ proc'[1].got = NonEmptyLines(SubSeq(text, 1, proc'[1].pos))
      /\ proc'[1].buf = Rest(SubSeq(text, 1, proc'[1].pos))
  BY <1>2, <1>6, <1>7, <1>8, Zenon
<1>10. proc'[1].pos \in 0..Len(text) /\ cfg'.text = text
  <2>1. j + k \in 0..Len(text)
    BY <1>2, <1>3, <1>5
  <2> QED BY <2>1, <1>3, <1>6 DEF text
<1> QED BY <1>9, <1>10 DEF LinesOK

LEMMA LinesStep == ExecInv /\ LinesOK /\ [Next]_vars => LinesOK'
<1> SUFFICES ASSUME ExecInv, LinesOK, [Next]_vars PROVE LinesOK'
  OBVIOUS
<1>1. UNCHANGED cfg
  <2>1. CASE \E n \in 1..cfg.nodes : Script(n) \/ RemoteEnds(n)
    BY <2>1 DEF Script, Start, Output, Exit, Lost, Killed, Ended, RemoteEnds
  <2>2. CASE RunTask \/ Cancel \/ UNCHANGED vars
    BY <2>2 DEF RunTask, Find, WaitSSH, SSHReady, CopyDir, CloudScriptEnded, DockerScriptEnded,
                ExistingScriptEnded, LocalScriptEnded, Cancel, vars
  <2> QED BY <2>1, <2>2 DEF Next
<1>2. CASE proc' = NewProcs
  BY <1>1, <1>2, NewLinesOK
<1>3. CASE UNCHANGED proc
  BY <1>1, <1>3 DEF LinesOK
<1>4. CASE \E n \in 1..cfg.nodes, k \in 1..Len(cfg.text) : Output(n, k)
  BY <1>4, ChunkStep
<1>5. ASSUME NEW n \in 1..cfg.nodes,
             Start(n) \/ \E code \in Code : Ended(n, code)
      PROVE  LinesOK'
  <2> SUFFICES ASSUME cfg.backend \in {"docker", "local"} PROVE LinesOK'
    BY <1>1 DEF LinesOK
  <2>1. n = 1 /\ 1 \in DOMAIN proc /\ ProcOK(proc[1])
    BY DEF ExecInv, ProcsOK, OneNodeOK
  <2>2. /\ proc'[1].pos = proc[1].pos /\ proc'[1].got = proc[1].got
        /\ proc'[1].buf = proc[1].buf
    <3>1. CASE Start(n)
      BY <2>1, <3>1 DEF Start, ProcOK
    <3>2. CASE \E code \in Code : Ended(n, code)
      BY <2>1, <3>2 DEF Ended, ProcOK
    <3> QED BY <3>1, <3>2, <1>5
  <2> QED BY <1>1, <2>2 DEF LinesOK
<1>6. \/ UNCHANGED proc \/ proc' = NewProcs
      \/ \E n \in 1..cfg.nodes, k \in 1..Len(cfg.text) : Output(n, k)
      \/ \E n \in 1..cfg.nodes : Start(n) \/ \E code \in Code : Ended(n, code)
  <2>1. CASE \E n \in 1..cfg.nodes : Script(n)
    BY <2>1 DEF Script, Exit, Lost, Killed, Code
  <2>2. CASE RunTask
    BY <2>2 DEF RunTask, Find, WaitSSH, SSHReady, CopyDir, CloudScriptEnded, DockerScriptEnded,
                ExistingScriptEnded, LocalScriptEnded, NextScript
  <2>3. CASE Cancel \/ (\E n \in 1..cfg.nodes : RemoteEnds(n)) \/ UNCHANGED vars
    BY <2>3 DEF Cancel, RemoteEnds, vars
  <2> QED BY <2>1, <2>2, <2>3 DEF Next
<1> QED BY <1>2, <1>3, <1>4, <1>5, <1>6

THEOREM ReportIsAlwaysTrue == Spec => []ReportIsTrue
<1>1. Init => ExecInv /\ LinesOK
  <2> SUFFICES ASSUME Init PROVE LinesOK
    BY ExecInitOK
  <2>1. proc = NewProcs /\ cfg \in Config
    BY DEF Init, ExecStart, NewProcs
  <2>2. proc[1] = NoProc /\ cfg.text \in Seq(Char) /\ Len(cfg.text) \in Nat
    BY <2>1, Nodes, NewProcsOK, TextType
  <2>3. NoProc.pos = 0 /\ NoProc.got = <<>> /\ NoProc.buf = <<>>
    BY DEF NoProc
  <2>4. SubSeq(cfg.text, 1, 0) = <<>> /\ 0 \in 0..Len(cfg.text)
    BY <2>2, SubSeqEmpty
  <2> QED BY <2>2, <2>3, <2>4, NoLines DEF LinesOK
<1>2. ExecInv /\ LinesOK /\ [Next]_vars => (ExecInv /\ LinesOK)'
  BY ExecStep, LinesStep
<1>3. ExecInv /\ LinesOK => ReportIsTrue
  <2>1. LinesOK => LinesAreWhole
    BY DEF LinesOK, LinesAreWhole
  <2>2. ExecInv /\ AllRan => left = {}
    BY DEF ExecInv, LeftOK, AllRan, Phase
  <2>3. ExecInv => SuccessIsTrue
    BY <2>2 DEF ExecInv, OneNodeOK, AllRan, SuccessIsTrue, launchCommand
  <2>4. ExecInv => RunIsAlone
    <3> SUFFICES ASSUME ExecInv, pc = "run", cfg.backend # "cloud", proc[1].st # "ended"
                 PROVE  left = {}
      BY DEF RunIsAlone
    <3>1. ran.run = {} /\ ran.setup \subseteq {0}
      BY DEF ExecInv, OneNodeOK, Phase
    <3> QED BY <3>1 DEF ExecInv, LeftOK, Phase
  <2> QED BY <2>1, <2>3, <2>4 DEF ReportIsTrue
<1> QED BY <1>1, <1>2, <1>3, PTL DEF Spec

-----------------------------------------------------------------------------
(* Placement: the optimizer's order is total, and its first candidate is not beaten. *)

(* The elements at some positions are elements, and all of those positions. *)
LEMMA ElementsType ==
    ASSUME NEW S, NEW s \in Seq(S), NEW I \in SUBSET DOMAIN s
    PROVE  /\ ElementsAt(s, I) \in Seq(S)
           /\ \A k \in DOMAIN ElementsAt(s, I) : \E i \in I : ElementsAt(s, I)[k] = s[i]
           /\ \A i \in I : \E k \in DOMAIN ElementsAt(s, I) : ElementsAt(s, I)[k] = s[i]
<1> DEFINE n == Cardinality(I)
           f == ElementsAt(s, I)
<1>1. Len(s) \in Nat /\ DOMAIN s = 1..Len(s)
  BY LenProperties
<1>2. I \in SUBSET Int /\ IsFiniteSet(I)
  <2>1. IsFiniteSet(1..Len(s))
    BY <1>1, FS_Interval
  <2>2. I \subseteq 1..Len(s)
    BY <1>1
  <2>3. IsFiniteSet(I)
    BY <2>1, <2>2, FS_Subset
  <2> QED BY <2>2, <2>3
<1>3. /\ n \in Nat /\ Ascending(I) \in [1..n -> I]
      /\ \A i \in I : \E k \in 1..n : Ascending(I)[k] = i
  BY <1>2, AscendingOrder
<1>4. f = [k \in 1..n |-> s[Ascending(I)[k]]]
  BY <1>3 DEF ElementsAt
<1> HIDE DEF f, n
<1>5. ASSUME NEW k \in 1..n PROVE f[k] \in S /\ \E i \in I : f[k] = s[i]
  BY <1>1, <1>3, <1>4, ElementOfSeq
<1>6. f \in [1..n -> S]
  BY <1>4, <1>5
<1>7. f \in Seq(S) /\ DOMAIN f = 1..n
  BY <1>3, <1>6, FunctionSeq
<1>8. \A i \in I : \E k \in 1..n : f[k] = s[i]
  BY <1>3, <1>4
<1> QED BY <1>5, <1>7, <1>8 DEF f

-----------------------------------------------------------------------------

(* The instance types of the catalogue. *)
InstTypes == {Catalog[k] : k \in DOMAIN Catalog}

(* A candidate with its prices. *)
Cand == [inst : InstTypes, group : Nat, od : Nat, spot : Nat]

(* Metrics are numbers: costs in tenths, and minus a capacity. *)
LEMMA RankType ==
    ASSUME NEW c \in Cand, NEW metric
    PROVE  Rank(metric, c) \in Int
<1>1. PICK k \in DOMAIN Catalog : c.inst = Catalog[k]
  BY DEF Cand, InstTypes
<1>2. c.inst.vcpus \in Nat
  BY <1>1, PlacementAssumption
<1>3. Gpus(c.inst) \in Nat
  BY <1>1, PlacementAssumption
<1>4. estimateRuntime(c) \in Int
  BY <1>2, <1>3 DEF estimateRuntime, Vcpus
<1>5. c.od \in Nat /\ c.spot \in Nat
  BY DEF Cand
<1>6. CostPerHour(c) \in Int
  BY <1>5 DEF CostPerHour
<1> QED BY <1>4, <1>6 DEF Rank

(* Nothing tells two candidates apart. *)
Alike(c, d) ==
    /\ c.group = d.group /\ Priced(c) = Priced(d)
    /\ \A k \in DOMAIN strategy : Rank(strategy[k], c) = Rank(strategy[k], d)

(* The first metric that tells them apart decides. *)
LEMMA LessTotal ==
    ASSUME NEW c \in Cand, NEW d \in Cand, strategy \in Seq({"cost", "time"})
    PROVE  /\ Less(c, d) \/ Less(d, c) \/ Alike(c, d)
           /\ ~(Less(c, d) /\ Less(d, c))
           /\ Alike(c, d) => ~Less(c, d) /\ ~Less(d, c)
<1>0. /\ c.group \in Nat /\ d.group \in Nat
      /\ Len(strategy) \in Nat /\ DOMAIN strategy = 1..Len(strategy)
      /\ Priced(c) \in BOOLEAN /\ Priced(d) \in BOOLEAN
  BY LenProperties DEF Cand, Priced
<1>1. \A k \in DOMAIN strategy : Rank(strategy[k], c) \in Int /\ Rank(strategy[k], d) \in Int
  BY RankType
<1> DEFINE D == {k \in DOMAIN strategy : Rank(strategy[k], c) # Rank(strategy[k], d)}
<1>2. CASE c.group # d.group
  BY <1>0, <1>2 DEF Less, Alike
<1>3. CASE c.group = d.group /\ Priced(c) # Priced(d)
  BY <1>0, <1>3 DEF Less, Alike
<1>4. CASE c.group = d.group /\ Priced(c) = Priced(d) /\ D = {}
  <2>1. \A k \in DOMAIN strategy : Rank(strategy[k], c) = Rank(strategy[k], d)
    BY <1>4
  <2>2. Alike(c, d)
    BY <1>4, <2>1 DEF Alike
  <2>3. ~Less(c, d) /\ ~Less(d, c)
    BY <1>0, <1>1, <1>4, <2>1 DEF Less
  <2> QED BY <2>2, <2>3
<1>5. CASE c.group = d.group /\ Priced(c) = Priced(d) /\ D # {}
  <2>1. D \subseteq Nat
    BY <1>0
  <2>2. PICK m \in D : \A k \in D : m <= k
    <3> HIDE DEF D
    <3> QED BY <1>5, <2>1, LeastNat
  <2>3. m \in DOMAIN strategy /\ m \in Nat /\ \A j \in 1..(m - 1) : j \in DOMAIN strategy /\ j \notin D
    BY <1>0, <2>1, <2>2
  <2>4. \A j \in 1..(m - 1) : Rank(strategy[j], c) = Rank(strategy[j], d)
    BY <2>3
  <2>5. Rank(strategy[m], c) < Rank(strategy[m], d) \/ Rank(strategy[m], d) < Rank(strategy[m], c)
    BY <1>1, <2>2
  <2>6. Less(c, d) \/ Less(d, c)
    BY <1>5, <2>3, <2>4, <2>5 DEF Less
  <2>7. ~Alike(c, d)
    BY <2>2 DEF Alike
  <2>8. ASSUME Less(c, d), Less(d, c) PROVE FALSE
    <3>1. PICK k \in DOMAIN strategy :
             /\ Rank(strategy[k], c) < Rank(strategy[k], d)
             /\ \A j \in 1..(k - 1) : Rank(strategy[j], c) = Rank(strategy[j], d)
      BY <1>0, <1>5, <2>8 DEF Less
    <3>2. PICK l \in DOMAIN strategy :
             /\ Rank(strategy[l], d) < Rank(strategy[l], c)
             /\ \A j \in 1..(l - 1) : Rank(strategy[j], d) = Rank(strategy[j], c)
      BY <1>0, <1>5, <2>8 DEF Less
    <3>3. k \in Nat /\ l \in Nat /\ k >= 1 /\ l >= 1
      BY <1>0
    <3>4. CASE k < l
      <4>1. k \in 1..(l - 1)
        BY <3>3, <3>4
      <4> QED BY <4>1, <3>1, <3>2, <1>1
    <3>5. CASE l < k
      <4>1. l \in 1..(k - 1)
        BY <3>3, <3>5
      <4> QED BY <4>1, <3>1, <3>2, <1>1
    <3>6. CASE k = l
      BY <3>1, <3>2, <3>6, <1>1
    <3> QED BY <3>3, <3>4, <3>5, <3>6
  <2> QED BY <2>6, <2>7, <2>8
<1> QED BY <1>2, <1>3, <1>4, <1>5

(* A chain is compared at the first metric that tells its ends apart. *)
LEMMA LessTransitive ==
    ASSUME NEW a \in Cand, NEW b \in Cand, NEW c \in Cand, strategy \in Seq({"cost", "time"})
    PROVE  /\ Less(a, b) /\ Less(b, c) => Less(a, c)
           /\ Less(a, b) /\ Alike(b, c) => Less(a, c)
           /\ Alike(a, b) /\ Less(b, c) => Less(a, c)
           /\ Alike(a, b) /\ Alike(b, c) => Alike(a, c)
<1>0. /\ a.group \in Nat /\ b.group \in Nat /\ c.group \in Nat
      /\ Len(strategy) \in Nat /\ DOMAIN strategy = 1..Len(strategy)
      /\ Priced(a) \in BOOLEAN /\ Priced(b) \in BOOLEAN /\ Priced(c) \in BOOLEAN
  BY LenProperties DEF Cand, Priced
<1>1. \A k \in DOMAIN strategy :
        /\ Rank(strategy[k], a) \in Int /\ Rank(strategy[k], b) \in Int
        /\ Rank(strategy[k], c) \in Int
  BY RankType
<1>2. ASSUME Less(a, b), Less(b, c) PROVE Less(a, c)
  <2>1. CASE a.group < b.group \/ b.group < c.group
    BY <1>0, <1>2, <2>1 DEF Less
  <2>2. CASE a.group = b.group /\ b.group = c.group /\ ~(Priced(a) = Priced(b) /\ Priced(b) = Priced(c))
    BY <1>0, <1>2, <2>2 DEF Less
  <2>3. CASE a.group = b.group /\ b.group = c.group /\ Priced(a) = Priced(b) /\ Priced(b) = Priced(c)
    <3>1. PICK k \in DOMAIN strategy :
             /\ Rank(strategy[k], a) < Rank(strategy[k], b)
             /\ \A j \in 1..(k - 1) : Rank(strategy[j], a) = Rank(strategy[j], b)
      BY <1>0, <1>2, <2>3 DEF Less
    <3>2. PICK l \in DOMAIN strategy :
             /\ Rank(strategy[l], b) < Rank(strategy[l], c)
             /\ \A j \in 1..(l - 1) : Rank(strategy[j], b) = Rank(strategy[j], c)
      BY <1>0, <1>2, <2>3 DEF Less
    <3> DEFINE m == IF k < l THEN k ELSE l
    <3>3. k \in Nat /\ l \in Nat /\ k >= 1 /\ l >= 1 /\ m \in DOMAIN strategy
      BY <1>0
    <3>4. Rank(strategy[m], a) < Rank(strategy[m], c)
      <4>1. CASE k < l
        <5>1. k \in 1..(l - 1)
          BY <3>3, <4>1
        <5> QED BY <5>1, <4>1, <3>1, <3>2, <1>1
      <4>2. CASE l < k
        <5>1. l \in 1..(k - 1) /\ m = l
          BY <3>3, <4>2
        <5> QED BY <5>1, <3>1, <3>2, <1>1
      <4>3. CASE k = l
        BY <4>3, <3>1, <3>2, <1>1
      <4> QED BY <3>3, <4>1, <4>2, <4>3
    <3>5. ASSUME NEW j \in 1..(m - 1) PROVE Rank(strategy[j], a) = Rank(strategy[j], c)
      <4>1. j \in 1..(k - 1) /\ j \in 1..(l - 1)
        BY <3>3
      <4> QED BY <4>1, <3>1, <3>2
    <3> HIDE DEF m
    <3> QED BY <2>3, <3>3, <3>4, <3>5 DEF Less
  <2> QED BY <1>0, <1>2, <2>1, <2>2, <2>3 DEF Less
<1>3. ASSUME Less(a, b), Alike(b, c) PROVE Less(a, c)
  <2>1. \A k \in DOMAIN strategy : \A j \in 1..(k - 1) : j \in DOMAIN strategy
    BY <1>0
  <2> QED BY <1>3, <2>1 DEF Less, Alike
<1>4. ASSUME Alike(a, b), Less(b, c) PROVE Less(a, c)
  <2>1. \A k \in DOMAIN strategy : \A j \in 1..(k - 1) : j \in DOMAIN strategy
    BY <1>0
  <2> QED BY <1>4, <2>1 DEF Less, Alike
<1>5. Alike(a, b) /\ Alike(b, c) => Alike(a, c)
  BY DEF Alike
<1> QED BY <1>2, <1>3, <1>4, <1>5

(* The order of rankPlan is total: alike candidates keep the order in which they
   were collected. *)
LEMMA BetterOrders ==
    ASSUME cands \in Seq(Cand), strategy \in Seq({"cost", "time"})
    PROVE  /\ Orders(Better, DOMAIN cands)
           /\ \A i, j \in DOMAIN cands :
                <<i, j>> \in Better <=>
                  Less(cands[i], cands[j]) \/ (Alike(cands[i], cands[j]) /\ i < j)
<1>1. DOMAIN cands \subseteq Int /\ \A i \in DOMAIN cands : cands[i] \in Cand
  BY LenProperties, ElementOfSeq
<1>2. ASSUME NEW i \in DOMAIN cands, NEW j \in DOMAIN cands
      PROVE  <<i, j>> \in Better <=>
               Less(cands[i], cands[j]) \/ (Alike(cands[i], cands[j]) /\ i < j)
  <2>1. <<i, j>> \in Better <=>
          Less(cands[i], cands[j]) \/ (~Less(cands[j], cands[i]) /\ i < j)
    BY DEF Better
  <2> QED BY <1>1, <2>1, LessTotal
<1>3. \A i \in DOMAIN cands : <<i, i>> \notin Better
  <2> SUFFICES ASSUME NEW i \in DOMAIN cands, <<i, i>> \in Better PROVE FALSE
    OBVIOUS
  <2>1. ~Less(cands[i], cands[i]) /\ ~(i < i)
    BY <1>1, LessTotal
  <2> QED BY <2>1, <1>2
<1>4. \A i, j \in DOMAIN cands : i = j \/ <<i, j>> \in Better \/ <<j, i>> \in Better
  <2> SUFFICES ASSUME NEW i \in DOMAIN cands, NEW j \in DOMAIN cands, i # j
               PROVE  <<i, j>> \in Better \/ <<j, i>> \in Better
    OBVIOUS
  <2>1. i < j \/ j < i
    BY <1>1
  <2>2. \/ Less(cands[i], cands[j]) \/ Less(cands[j], cands[i])
        \/ Alike(cands[i], cands[j]) /\ Alike(cands[j], cands[i])
    BY <1>1, LessTotal DEF Alike
  <2> QED BY <2>1, <2>2, <1>2
<1>5. \A i, j, k \in DOMAIN cands : <<i, j>> \in Better /\ <<j, k>> \in Better => <<i, k>> \in Better
  <2> SUFFICES ASSUME NEW i \in DOMAIN cands, NEW j \in DOMAIN cands, NEW k \in DOMAIN cands,
                      <<i, j>> \in Better, <<j, k>> \in Better
               PROVE  <<i, k>> \in Better
    OBVIOUS
  <2>1. /\ Less(cands[i], cands[j]) \/ (Alike(cands[i], cands[j]) /\ i < j)
        /\ Less(cands[j], cands[k]) \/ (Alike(cands[j], cands[k]) /\ j < k)
    BY <1>2
  <2>2. i < j /\ j < k => i < k
    BY <1>1
  <2>3. Less(cands[i], cands[k]) \/ (Alike(cands[i], cands[k]) /\ i < k)
    BY <1>1, <2>1, <2>2, LessTransitive
  <2> QED BY <2>3, <1>2
<1> QED BY <1>2, <1>3, <1>4, <1>5 DEF Orders

(* Numbers of vcpus, and of equal ones the position, order the instance types. *)
LEMMA FewerOrders ==
    ASSUME NEW insts \in Seq(InstTypes)
    PROVE  Orders(Fewer(insts), DOMAIN insts)
<1>1. DOMAIN insts \subseteq Int /\ \A i \in DOMAIN insts : insts[i] \in InstTypes
  BY LenProperties, ElementOfSeq
<1>2. \A i \in DOMAIN insts : insts[i].vcpus \in Int
  BY <1>1, PlacementAssumption DEF InstTypes
<1> QED BY <1>1, <1>2 DEF Orders, Fewer

(* The budget keeps instance types. *)
LEMMA BudgetType ==
    ASSUME NEW insts \in Seq(InstTypes)
    PROVE  Budget(insts) \in Seq(InstTypes)
<1> DEFINE order == Sorted(DOMAIN insts, Fewer(insts))
           f == [k \in 1..MaxPriced |-> insts[order[k]]]
<1>1. Len(insts) \in Nat /\ DOMAIN insts = 1..Len(insts) /\ MaxPriced \in Nat
  BY LenProperties, PlacementAssumption
<1>2. IsFiniteSet(DOMAIN insts) /\ Cardinality(DOMAIN insts) = Len(insts)
  BY <1>1, FS_Interval
<1>3. order \in [1..Len(insts) -> DOMAIN insts]
  <2> HIDE DEF order
  <2>1. Orders(Fewer(insts), DOMAIN insts)
    BY FewerOrders
  <2> QED BY <2>1, <1>2, SortedOrder DEF order
<1>4. CASE Len(insts) <= MaxPriced
  BY <1>4 DEF Budget
<1>5. CASE Len(insts) > MaxPriced
  <2>1. \A k \in 1..MaxPriced : order[k] \in DOMAIN insts
    <3> HIDE DEF order
    <3> QED BY <1>1, <1>3, <1>5
  <2>2. \A k \in 1..MaxPriced : insts[order[k]] \in InstTypes
    <3> HIDE DEF order
    <3> QED BY <2>1, ElementOfSeq, <1>1
  <2>3. f \in [1..MaxPriced -> InstTypes]
    <3> HIDE DEF order
    <3> QED BY <2>2
  <2>4. f \in Seq(InstTypes)
    <3> HIDE DEF f
    <3> QED BY <2>3, <1>1, FunctionSeq
  <2>5. Budget(insts) = f
    BY <1>1, <1>5 DEF Budget
  <2> QED BY <2>4, <2>5
<1> QED BY <1>1, <1>4, <1>5

(* No candidate is better. *)
Beats(best) ==
    \A i \in DOMAIN cands :
        LET c == cands[i]
            ties(k) == \A j \in 1..k : Rank(strategy[j], c) = Rank(strategy[j], best)
        IN  /\ best.group <= c.group
            /\ (best.group = c.group /\ Priced(c)) =>
                 /\ Priced(best)
                 /\ \A k \in DOMAIN strategy :
                      ties(k - 1) => Rank(strategy[k], best) <= Rank(strategy[k], c)

(* What is less than a candidate, or alike, is not beaten by it, metric by metric. *)
LEMMA NotLessIsBest ==
    ASSUME NEW best \in Cand, NEW c \in Cand, strategy \in Seq({"cost", "time"}),
           Less(best, c) \/ Alike(best, c)
    PROVE  /\ best.group <= c.group
           /\ (best.group = c.group /\ Priced(c)) =>
                /\ Priced(best)
                /\ \A k \in DOMAIN strategy :
                     (\A j \in 1..(k - 1) : Rank(strategy[j], c) = Rank(strategy[j], best)) =>
                       Rank(strategy[k], best) <= Rank(strategy[k], c)
<1>0. /\ best.group \in Nat /\ c.group \in Nat
      /\ Len(strategy) \in Nat /\ DOMAIN strategy = 1..Len(strategy)
  BY LenProperties DEF Cand
<1>1. \A k \in DOMAIN strategy : Rank(strategy[k], best) \in Int /\ Rank(strategy[k], c) \in Int
  BY RankType
<1>2. CASE Alike(best, c)
  BY <1>0, <1>1, <1>2 DEF Alike
<1>3. CASE Less(best, c)
  <2>1. best.group <= c.group
    BY <1>0, <1>3 DEF Less
  <2>2. ASSUME best.group = c.group, Priced(c) PROVE Priced(best)
    BY <1>0, <1>3, <2>2 DEF Less, Priced
  <2>3. ASSUME best.group = c.group, Priced(c), NEW k \in DOMAIN strategy,
               \A j \in 1..(k - 1) : Rank(strategy[j], c) = Rank(strategy[j], best)
        PROVE  Rank(strategy[k], best) <= Rank(strategy[k], c)
    <3>1. PICK l \in DOMAIN strategy :
             /\ Rank(strategy[l], best) < Rank(strategy[l], c)
             /\ \A j \in 1..(l - 1) : Rank(strategy[j], best) = Rank(strategy[j], c)
      <4>1. ~(best.group < c.group) /\ Priced(c)
        BY <1>0, <2>3
      <4> QED BY <4>1, <1>3, Zenon DEF Less
    <3>2. k \in Nat /\ l \in Nat /\ k >= 1 /\ l >= 1
      BY <1>0
    <3>3. CASE k < l
      <4>1. k \in 1..(l - 1)
        BY <3>2, <3>3
      <4> QED BY <4>1, <3>1, <1>1
    <3>4. CASE l < k
      <4>1. l \in 1..(k - 1)
        BY <3>2, <3>4
      <4> QED BY <4>1, <2>3, <3>1, <1>1
    <3>5. CASE k = l
      BY <3>1, <3>5, <1>1
    <3> QED BY <3>2, <3>3, <3>4, <3>5
  <2> QED BY <2>1, <2>2, <2>3
<1> QED BY <1>2, <1>3

(* The plan begins with a candidate no other one beats. *)
LEMMA RankPlanBest ==
    ASSUME cands \in Seq(Cand), cands # <<>>, strategy \in Seq({"cost", "time"})
    PROVE  Beats(rankPlan[1])
<1> DEFINE order == Sorted(DOMAIN cands, Better)
           n == IF Len(cands) > MaxCandidates THEN MaxCandidates ELSE Len(cands)
<1>1. Len(cands) \in Nat /\ DOMAIN cands = 1..Len(cands) /\ Len(cands) >= 1
  BY LenProperties, EmptySeq
<1>2. IsFiniteSet(DOMAIN cands) /\ Cardinality(DOMAIN cands) = Len(cands)
  BY <1>1, FS_Interval
<1>3. /\ order \in [1..Len(cands) -> DOMAIN cands]
      /\ \A i \in DOMAIN cands : \E k \in 1..Len(cands) : order[k] = i
      /\ \A k, l \in 1..Len(cands) : k < l <=> <<order[k], order[l]>> \in Better
  <2> HIDE DEF order
  <2>1. Orders(Better, DOMAIN cands)
    BY BetterOrders
  <2> QED BY <2>1, <1>2, SortedOrder DEF order
<1>4. 1 \in 1..n /\ 1 \in 1..Len(cands)
  BY <1>1, PlacementAssumption
<1>5. rankPlan[1] = cands[order[1]]
  <2>1. rankPlan = [k \in 1..n |-> cands[order[k]]]
    BY DEF rankPlan
  <2> HIDE DEF order, n
  <2> QED BY <2>1, <1>4
<1> HIDE DEF order, n
<1>6. order[1] \in DOMAIN cands
  BY <1>3, <1>4
<1>7. \A i \in DOMAIN cands : cands[i] \in Cand
  BY ElementOfSeq, <1>1
<1> DEFINE best == cands[order[1]]
<1>8. best \in Cand
  BY <1>6, <1>7
<1>9. ASSUME NEW i \in DOMAIN cands
      PROVE  Less(best, cands[i]) \/ Alike(best, cands[i])
  <2>1. PICK k \in 1..Len(cands) : order[k] = i
    BY <1>3
  <2>2. CASE k = 1
    BY <2>1, <2>2 DEF Alike
  <2>3. CASE k # 1
    <3>1. 1 < k
      BY <2>3, <1>1
    <3>2. <<order[1], i>> \in Better
      BY <3>1, <2>1, <1>3, <1>4
    <3> QED BY <3>2, <1>6, BetterOrders
  <2> QED BY <2>2, <2>3
<1>10. Beats(best)
  <2> HIDE DEF best
  <2> QED BY <1>7, <1>8, <1>9, NotLessIsBest DEF Beats
<1> QED BY <1>5, <1>10

(* Candidates and metrics have their types, and the first of a new plan is the best. *)
PlaceInv ==
    /\ req \in Requests
    /\ strategy \in Seq({"cost", "time"})
    /\ group \in Nat \ {0}
    /\ cands \in Seq(Cand)
    /\ BestFirst

(* Every metric of an optimizer is one that exists. *)
LEMMA ResolveType ==
    ASSUME req \in Requests
    PROVE  Resolve(req.optimizer) \in Seq({"cost", "time"})
<1> DEFINE names == req.optimizer
           I == {k \in DOMAIN names : names[k] # ""}
           metrics == ElementsAt(names, I)
<1>1. names \in Seq(STRING)
  BY PlacementAssumption
<1>2. metrics \in Seq(STRING)
  <2> HIDE DEF names
  <2> QED BY <1>1, ElementsType
<1>3. CASE names = <<>>
  <2>1. Resolve(names) = <<"cost">>
    BY <1>3 DEF Resolve
  <2> QED BY <2>1
<1>4. CASE names # <<>> /\ \A k \in DOMAIN metrics : metrics[k] \in {"cost", "time"}
  <2>1. Resolve(names) = metrics
    BY <1>4 DEF Resolve
  <2>2. metrics \in Seq({"cost", "time"})
    <3> HIDE DEF metrics
    <3>1. Len(metrics) \in Nat /\ DOMAIN metrics = 1..Len(metrics) /\ metrics = [k \in DOMAIN metrics |-> metrics[k]]
      BY <1>2, LenProperties
    <3>2. metrics \in [1..Len(metrics) -> {"cost", "time"}]
      BY <3>1, <1>4
    <3> QED BY <3>1, <3>2, FunctionSeq
  <2> QED BY <2>1, <2>2
<1>5. CASE ~(names = <<>>) /\ ~(\A k \in DOMAIN metrics : metrics[k] \in {"cost", "time"})
  <2>1. Resolve(names) = <<>>
    BY <1>5 DEF Resolve
  <2>2. <<>> \in Seq({"cost", "time"})
    BY EmptySeq
  <2> QED BY <2>1, <2>2
<1> QED BY <1>3, <1>4, <1>5

(* With prices, or without those of a fetch that failed, they are candidates. *)
LEMMA AttachType ==
    ASSUME group \in Nat, NEW insts \in Seq(InstTypes), NEW failed, NEW price \in PriceTables
    PROVE  attachPrices(insts, failed, price) \in Seq(Cand)
<1> DEFINE f == attachPrices(insts, failed, price)
<1>1. Len(insts) \in Nat /\ DOMAIN insts = 1..Len(insts)
  BY LenProperties
<1>2. ASSUME NEW k \in DOMAIN insts PROVE f[k] \in Cand
  <2>1. insts[k] \in InstTypes
    BY ElementOfSeq, <1>1
  <2>2. PICK i \in DOMAIN Catalog : insts[k] = Catalog[i]
    BY <2>1 DEF InstTypes
  <2>3. price[insts[k].itype] \in [od : Nat, spot : Nat]
    BY <2>2, PlacementAssumption
  <2>4. CASE insts[k].region \in failed
    <3>1. f[k] = [inst |-> insts[k], group |-> group, od |-> 0, spot |-> 0]
      BY <2>4 DEF attachPrices
    <3> QED BY <2>1, <3>1 DEF Cand
  <2>5. CASE insts[k].region \notin failed
    <3>1. f[k] = [inst |-> insts[k], group |-> group, od |-> price[insts[k].itype].od,
                  spot |-> price[insts[k].itype].spot]
      BY <2>5 DEF attachPrices
    <3> QED BY <2>1, <2>3, <3>1 DEF Cand
  <2> QED BY <2>4, <2>5
<1>3. f \in [1..Len(insts) -> Cand]
  <2>1. f = [k \in DOMAIN insts |-> f[k]]
    BY DEF attachPrices
  <2> HIDE DEF f
  <2> QED BY <1>1, <1>2, <2>1
<1> HIDE DEF f
<1> QED BY <1>1, <1>3, FunctionSeq DEF f

(* What beats the candidates goes on beating them. *)
LEMMA BeatsStays ==
    ASSUME NEW best, Beats(best), UNCHANGED <<req, groups, strategy, cands>>
    PROVE  Beats(best)'
<1>1. useSpot' = useSpot
  BY DEF useSpot
<1>2. ASSUME NEW c PROVE CostPerHour(c)' = CostPerHour(c)
  BY <1>1 DEF CostPerHour
<1>3. ASSUME NEW c PROVE estimateRuntime(c)' = estimateRuntime(c)
  BY DEF estimateRuntime
<1>4. \A m, c : Rank(m, c)' = Rank(m, c)
  BY <1>2, <1>3 DEF Rank
<1> QED BY <1>4 DEF Beats, Priced

(* BestFirst says that the first of the plan beats the candidates. *)
LEMMA BestFirstBeats ==
    /\ BestFirst <=> (stage = "planned" => Beats(plan[1]))
    /\ stage' # "planned" => BestFirst'
BY DEF BestFirst, Beats

(* Only Optimize makes a plan that is not yet shown, launched or aborted. *)
LEMMA PlaceStep ==
    /\ PlaceInit => PlaceInv
    /\ PlaceInv /\ [PlaceNext]_placeVars => PlaceInv'
<1>1. PlaceInit => PlaceInv
  <2> SUFFICES ASSUME PlaceInit PROVE PlaceInv
    OBVIOUS
  <2>1. <<>> \in Seq({"cost", "time"}) /\ <<>> \in Seq(Cand)
    BY EmptySeq
  <2> QED BY <2>1 DEF PlaceInit, PlaceStart, PlaceInv, BestFirst
<1>2. PlaceInv /\ [PlaceNext]_placeVars => PlaceInv'
  <2> SUFFICES ASSUME PlaceInv, [PlaceNext]_placeVars PROVE PlaceInv'
    OBVIOUS
  <2> USE DEF PlaceInv
  <2>1. CASE Load
    <3>1. UNCHANGED <<req, strategy, group, cands>> /\ stage' # "planned"
      BY <2>1 DEF Load, Error
    <3> QED BY <3>1, BestFirstBeats
  <2>2. CASE selectOptimizer
    <3>1. UNCHANGED <<req, group, cands>> /\ stage' # "planned"
      BY <2>2 DEF selectOptimizer, Error
    <3>2. strategy' = strategy \/ strategy' = Resolve(req.optimizer)
      BY <2>2 DEF selectOptimizer, Error
    <3>3. strategy' \in Seq({"cost", "time"})
      BY <3>2, ResolveType
    <3> QED BY <3>1, <3>3, BestFirstBeats
  <2>3. CASE MetaFails
    <3>1. UNCHANGED <<req, strategy, group, cands>> /\ stage' # "planned"
      BY <2>3 DEF MetaFails, Error
    <3> QED BY <3>1, BestFirstBeats
  <2>4. ASSUME NEW failed \in SUBSET Regions, NEW price \in PriceTables, collectAndPrice(failed, price)
        PROVE  PlaceInv'
    <3>1. UNCHANGED <<req, strategy>> /\ stage' # "planned" /\ group' \in Nat \ {0}
      BY <2>4 DEF collectAndPrice
    <3> DEFINE insts == Collected(groups[group])
    <3>2. insts \in Seq(InstTypes)
      <4>1. Catalog \in Seq(InstTypes)
        BY PlacementAssumption DEF InstTypes
      <4>2. {k \in DOMAIN Catalog : Collects(Catalog[k], groups[group])} \subseteq DOMAIN Catalog
        OBVIOUS
      <4> QED BY <4>1, <4>2, ElementsType DEF Collected
    <3> HIDE DEF insts
    <3>3. Budget(insts) \in Seq(InstTypes)
      BY <3>2, BudgetType
    <3>4. attachPrices(Budget(insts), failed, price) \in Seq(Cand)
      BY <3>3, AttachType
    <3>5. cands' = cands \o attachPrices(Budget(insts), failed, price)
      BY <2>4 DEF collectAndPrice, insts
    <3>6. cands' \in Seq(Cand)
      BY <3>4, <3>5, ConcatProperties
    <3> QED BY <3>1, <3>6, BestFirstBeats DEF Cand
  <2>5. CASE Optimize
    <3>1. UNCHANGED <<req, groups, strategy, group, cands>>
      BY <2>5 DEF Optimize, Error
    <3>2. BestFirst'
      <4>1. CASE stage' # "planned"
        BY <4>1, BestFirstBeats
      <4>2. CASE stage' = "planned"
        <5>1. plan' = rankPlan /\ cands # <<>>
          BY <2>5, <4>2 DEF Optimize, Error
        <5>2. PICK b : b = rankPlan[1]
          OBVIOUS
        <5>3. Beats(b)
          BY <5>1, <5>2, RankPlanBest
        <5>4. Beats(b)'
          BY <3>1, <5>3, BeatsStays
        <5>5. plan'[1] = b
          BY <5>1, <5>2
        <5> QED BY <5>4, <5>5 DEF BestFirst, Beats
      <4> QED BY <4>1, <4>2
    <3> QED BY <3>1, <3>2
  <2>6. CASE DryRun
    <3>1. UNCHANGED <<req, strategy, group, cands>> /\ stage' # "planned"
      BY <2>6 DEF DryRun
    <3> QED BY <3>1, BestFirstBeats
  <2>7. CASE LaunchFirst
    <3>1. UNCHANGED <<req, strategy, group, cands>> /\ stage' # "planned"
      BY <2>7 DEF LaunchFirst
    <3> QED BY <3>1, BestFirstBeats
  <2>8. ASSUME NEW live \in LivePrices, refreshLaunchPrice(live) PROVE PlaceInv'
    <3>1. UNCHANGED <<req, strategy, group, cands>> /\ stage' # "planned"
      BY <2>8 DEF refreshLaunchPrice
    <3> QED BY <3>1, BestFirstBeats
  <2>9. CASE UNCHANGED placeVars
    <3>1. UNCHANGED <<req, groups, strategy, group, cands, stage, plan>>
      BY <2>9 DEF placeVars
    <3>2. BestFirst'
      <4>1. CASE stage' # "planned"
        BY <4>1, BestFirstBeats
      <4>2. CASE stage' = "planned"
        <5>1. PICK b : b = plan[1]
          OBVIOUS
        <5>2. Beats(b)
          BY <3>1, <4>2, <5>1, BestFirstBeats
        <5>3. Beats(b)'
          BY <3>1, <5>2, BeatsStays
        <5>4. plan'[1] = b
          BY <3>1, <5>1
        <5> QED BY <5>3, <5>4 DEF BestFirst, Beats
      <4> QED BY <4>1, <4>2
    <3> QED BY <3>1, <3>2
  <2> QED BY <2>1, <2>2, <2>3, <2>4, <2>5, <2>6, <2>7, <2>8, <2>9 DEF PlaceNext
<1> QED BY <1>1, <1>2

(* The placement that is planned first is beaten by no candidate, for every catalogue,
   every prices and every order of metrics: the stable sort of rankPlan. *)
THEOREM BestIsFirst == PlaceSpec => []BestFirst
<1>1. PlaceInv => BestFirst
  BY DEF PlaceInv
<1> QED BY <1>1, PlaceStep, PTL DEF PlaceSpec

-----------------------------------------------------------------------------
(* Task: what is read is what the task says, as the docs write ranges and accelerators. *)

(* Ranges as the docs write them are read as they are meant. *)
LEMMA ParseNumber ==
    ASSUME NEW n \in Nat
    PROVE  ParseFloat(<<n>>) = {n}
<1>1. Len(<<n>>) = 1 /\ <<n>>[1] = n
  OBVIOUS
<1> QED BY <1>1 DEF ParseFloat

(* A piece of one token. *)
LEMMA SubSeqOne ==
    ASSUME NEW s, NEW i \in Int, s[i] \in Int
    PROVE  SubSeq(s, i, i) = <<s[i]>>
<1>1. \A j \in i..i : s[j] \in Int
  OBVIOUS
<1>2. /\ SubSeq(s, i, i) \in Seq(Int) /\ Len(SubSeq(s, i, i)) = 1
      /\ SubSeq(s, i, i)[1] = s[i]
  <2>1. /\ SubSeq(s, i, i) \in Seq(Int) /\ Len(SubSeq(s, i, i)) = (i - i) + 1
        /\ \A j \in 1..((i - i) + 1) : SubSeq(s, i, i)[j] = s[(i + j) - 1]
    BY <1>1, SubSeqProperties
  <2>2. (i - i) + 1 = 1 /\ 1 \in 1..((i - i) + 1) /\ (i + 1) - 1 = i
    OBVIOUS
  <2> QED BY <2>1, <2>2
<1>3. \A t \in Seq(Int) : Len(t) = 1 => t = <<t[1]>>
  OBVIOUS
<1> QED BY <1>2, <1>3

(* What ParseRange makes of each documented form. *)
LEMMA ParsePlain ==
    ASSUME NEW n \in Nat, NEW m \in Nat
    PROVE  /\ ParseRange(<<n>>) = [err |-> FALSE, min |-> {n}, max |-> {n}]
           /\ ParseRange(<<n, Plus>>) = [err |-> FALSE, min |-> {n}, max |-> {}]
           /\ ParseRange(<<Dash, n>>) = [err |-> FALSE, min |-> {}, max |-> {n}]
           /\ ParseRange(<<n, Dash, m>>) = [err |-> FALSE, min |-> {n}, max |-> {m}]
<1> USE DEF Dash, Plus
<1>0. ParseFloat(<<n>>) = {n} /\ ParseFloat(<<m>>) = {m}
  BY ParseNumber
<1>1. ParseRange(<<n>>) = [err |-> FALSE, min |-> {n}, max |-> {n}]
  <2>1. /\ <<n>> # <<>> /\ Len(<<n>>) = 1 /\ <<n>>[1] = n /\ n # Plus /\ n # Dash
        /\ DOMAIN <<n>> = {1}
    OBVIOUS
  <2>2. {k \in DOMAIN <<n>> : <<n>>[k] = Dash} = {}
    BY <2>1
  <2>3. ParseRange(<<n>>) = ParseOne(<<n>>, FALSE, FALSE)
    BY <2>1, <2>2 DEF ParseRange
  <2> QED BY <2>3, <1>0 DEF ParseOne
<1>2. ParseRange(<<n, Plus>>) = [err |-> FALSE, min |-> {n}, max |-> {}]
  <2>1. <<n, Plus>> # <<>> /\ Len(<<n, Plus>>) = 2 /\ <<n, Plus>>[2] = Plus
    OBVIOUS
  <2>2. Front(<<n, Plus>>) = <<n>>
    <3>1. <<n, Plus>>[1] = n /\ Len(<<n, Plus>>) - 1 = 1
      OBVIOUS
    <3> QED BY <3>1, SubSeqOne DEF Front
  <2>3. {k \in DOMAIN <<n>> : <<n>>[k] = Dash} = {}
    OBVIOUS
  <2>4. ParseRange(<<n, Plus>>) = ParseOne(<<n>>, TRUE, FALSE)
    BY <2>1, <2>2, <2>3 DEF ParseRange
  <2> QED BY <2>4, <1>0 DEF ParseOne
<1>3. ParseRange(<<Dash, n>>) = [err |-> FALSE, min |-> {}, max |-> {n}]
  <2>1. /\ <<Dash, n>> # <<>> /\ Len(<<Dash, n>>) = 2 /\ <<Dash, n>>[1] = Dash
        /\ <<Dash, n>>[2] # Plus
    OBVIOUS
  <2>2. Tail(<<Dash, n>>) = <<n>>
    OBVIOUS
  <2>3. {k \in DOMAIN <<n>> : <<n>>[k] = Dash} = {}
    OBVIOUS
  <2>4. ParseRange(<<Dash, n>>) = ParseOne(<<n>>, FALSE, TRUE)
    BY <2>1, <2>2, <2>3 DEF ParseRange
  <2> QED BY <2>4, <1>0 DEF ParseOne
<1>4. ParseRange(<<n, Dash, m>>) = [err |-> FALSE, min |-> {n}, max |-> {m}]
  <2> DEFINE s == <<n, Dash, m>>
  <2>1. s # <<>> /\ Len(s) = 3 /\ s[1] # Dash /\ s[3] # Plus
    OBVIOUS
  <2>2. {k \in DOMAIN s : s[k] = Dash} = {2}
    OBVIOUS
  <2>3. Min({2}) = 2
    BY DEF Min
  <2>4. SubSeq(s, 1, 2 - 1) = <<n>> /\ SubSeq(s, 2 + 1, 3) = <<m>>
    <3>1. s[1] = n /\ s[3] = m /\ 2 - 1 = 1 /\ 2 + 1 = 3
      OBVIOUS
    <3> HIDE DEF s
    <3> QED BY <3>1, SubSeqOne
  <2>5. ParseRange(s) = ParseTwo(<<n>>, <<m>>, FALSE, FALSE)
    <3>1. s[1] # Dash /\ s[Len(s)] # Plus
      BY <2>1
    <3> HIDE DEF s, Dash, Plus
    <3> DEFINE lower == s # <<>> /\ s[Len(s)] = Plus
               upper == s # <<>> /\ ~lower /\ s[1] = Dash
               body == CASE lower -> Front(s) [] upper -> Tail(s) [] OTHER -> s
               dashes == {k \in DOMAIN body : body[k] = Dash}
               cut == IF dashes = {} THEN 0 ELSE Min(dashes)
    <3>2. lower = FALSE /\ upper = FALSE /\ body = s
      BY <2>1, <3>1
    <3>3. ParseRange(s) = CASE s = <<>> -> [err |-> FALSE, min |-> {}, max |-> {}]
                            [] s # <<>> /\ cut = 0 -> ParseOne(body, lower, upper)
                            [] OTHER -> ParseTwo(SubSeq(body, 1, cut - 1),
                                                 SubSeq(body, cut + 1, Len(body)), lower, upper)
      BY DEF ParseRange
    <3> HIDE DEF lower, upper, body
    <3>4. cut = 2
      BY <2>2, <2>3, <3>2
    <3> HIDE DEF cut
    <3>5. ParseRange(s) = ParseTwo(SubSeq(s, 1, cut - 1), SubSeq(s, cut + 1, Len(s)), FALSE, FALSE)
      <4>1. ~(s = <<>>) /\ ~(s # <<>> /\ cut = 0)
        BY <2>1, <3>4
      <4>2. ParseRange(s) = ParseTwo(SubSeq(body, 1, cut - 1), SubSeq(body, cut + 1, Len(body)),
                                     lower, upper)
        BY <3>3, <4>1, Zenon
      <4> QED BY <3>2, <4>2, Zenon
    <3> QED BY <2>1, <2>4, <3>4, <3>5
  <2> QED BY <2>5, <1>0 DEF ParseTwo
<1> QED BY <1>1, <1>2, <1>3, <1>4

(* The documented forms, as sequences. *)
LEMMA PlainForms ==
    ASSUME NEW s \in Seq(Int), Plain(s)
    PROVE  \E n, m \in Nat : \/ s = <<n>> \/ s = <<n, Plus>>
                             \/ s = <<Dash, n>> \/ s = <<n, Dash, m>>
<1>0. Dash \in Int /\ Plus \in Int
  BY DEF Dash, Plus
<1>1. CASE Len(s) = 1 /\ s[1] >= 0
  <2>1. s = <<s[1]>> /\ s[1] \in Nat
    BY <1>1
  <2> QED BY <2>1
<1>2. CASE Len(s) = 2 /\ s[1] >= 0 /\ s[2] = Plus
  <2>1. s = <<s[1], s[2]>> /\ s[1] \in Nat
    BY <1>2
  <2> QED BY <2>1, <1>2
<1>3. CASE Len(s) = 2 /\ s[1] = Dash /\ s[2] >= 0
  <2>1. s[2] \in Int
    BY <1>3, ElementOfSeq
  <2>2. s = <<s[1], s[2]>> /\ s[2] \in Nat
    BY <1>3, <2>1
  <2> QED BY <2>2, <1>3
<1>4. CASE Len(s) = 3 /\ s[1] >= 0 /\ s[2] = Dash /\ s[3] >= 0
  <2>1. s = <<s[1], s[2], s[3]>> /\ s[1] \in Nat /\ s[3] \in Nat
    BY <1>4
  <2> QED BY <2>1, <1>4
<1> QED BY <1>1, <1>2, <1>3, <1>4 DEF Plain

(* A range of the docs matches the values it says. *)
LEMMA PlainMeans ==
    ASSUME NEW s \in Seq(Int), Plain(s), NEW v \in Int
    PROVE  /\ ~ParseRange(s).err
           /\ Matches(ParseRange(s), v) <=> Says(s, v)
<1>1. PICK n \in Nat, m \in Nat : \/ s = <<n>> \/ s = <<n, Plus>>
                                  \/ s = <<Dash, n>> \/ s = <<n, Dash, m>>
  BY PlainForms
<1>2. CASE s = <<n>>
  <2>1. ParseRange(s) = [err |-> FALSE, min |-> {n}, max |-> {n}]
    BY <1>2, ParsePlain, Zenon
  <2>2. Says(s, v) <=> v = n
    BY <1>2 DEF Says
  <2> QED BY <2>1, <2>2 DEF Matches
<1>3. CASE s = <<n, Plus>>
  <2>1. ParseRange(s) = [err |-> FALSE, min |-> {n}, max |-> {}]
    BY <1>3, ParsePlain, Zenon
  <2>2. Len(s) = 2 /\ s[1] = n /\ s[2] = Plus /\ n # Dash
    BY <1>3 DEF Dash
  <2>3. Says(s, v) <=> v >= n
    BY <2>2 DEF Says
  <2> QED BY <2>1, <2>3 DEF Matches
<1>4. CASE s = <<Dash, n>>
  <2>1. ParseRange(s) = [err |-> FALSE, min |-> {}, max |-> {n}]
    BY <1>4, ParsePlain, Zenon
  <2>2. Says(s, v) <=> v <= n
    BY <1>4 DEF Says, Plus, Dash
  <2> QED BY <2>1, <2>2 DEF Matches
<1>5. CASE s = <<n, Dash, m>>
  <2>1. ParseRange(s) = [err |-> FALSE, min |-> {n}, max |-> {m}]
    BY <1>5, ParsePlain, Zenon
  <2>2. Says(s, v) <=> n <= v /\ v <= m
    BY <1>5 DEF Says
  <2> QED BY <2>1, <2>2 DEF Matches
<1> QED BY <1>1, <1>2, <1>3, <1>4, <1>5

(* The disk of a range of the docs is its lower bound. *)
LEMMA PlainDiskMeans ==
    ASSUME NEW s \in Seq(Int), PlainDisk(s), NEW disk \in Nat
    PROVE  (\A m \in (IF ParseRange(s).min # {} THEN ParseRange(s).min ELSE ParseRange(s).max) :
               disk >= m) <=> \E d \in 0..disk : Says(s, d)
<1>1. PICK n \in Nat, m \in Nat : \/ s = <<n>> \/ s = <<n, Plus>>
                                  \/ s = <<Dash, n>> \/ s = <<n, Dash, m>>
  BY PlainForms DEF PlainDisk
<1>2. ~(s = <<Dash, n>>)
  BY DEF PlainDisk
<1>3. CASE s = <<n>>
  <2>1. ParseRange(s) = [err |-> FALSE, min |-> {n}, max |-> {n}]
    BY <1>3, ParsePlain, Zenon
  <2>2. \A d \in 0..disk : Says(s, d) <=> d = n
    BY <1>3 DEF Says
  <2> QED BY <2>1, <2>2
<1>4. CASE s = <<n, Plus>>
  <2>1. ParseRange(s) = [err |-> FALSE, min |-> {n}, max |-> {}]
    BY <1>4, ParsePlain, Zenon
  <2>2. Len(s) = 2 /\ s[1] = n /\ s[2] = Plus /\ n # Dash
    BY <1>4 DEF Dash
  <2>3. \A d \in 0..disk : Says(s, d) <=> d >= n
    BY <2>2 DEF Says
  <2> QED BY <2>1, <2>3
<1>5. CASE s = <<n, Dash, m>>
  <2>1. ParseRange(s) = [err |-> FALSE, min |-> {n}, max |-> {m}]
    BY <1>5, ParsePlain, Zenon
  <2>2. \A d \in 0..disk : Says(s, d) <=> n <= d /\ d <= m
    BY <1>5 DEF Says
  <2>3. n <= m
    BY <1>5 DEF PlainDisk
  <2> QED BY <2>1, <2>2, <2>3
<1> QED BY <1>1, <1>2, <1>3, <1>4, <1>5

-----------------------------------------------------------------------------
(* Bounds of ranges: none or one number. *)
Bound(S) == {{}} \cup {{v} : v \in S}

(* ParseFloat finds a number or none. *)
LEMMA FloatType ==
    ASSUME NEW s \in Seq(Int)
    PROVE  ParseFloat(s) \in Bound(Int)
<1>1. Len(s) = 1 => s[1] \in Int
  BY ElementOfSeq
<1>2. ASSUME Len(s) = 2 PROVE s[2] \in Int
  <2>1. 2 \in 1..Len(s)
    BY <1>2
  <2> QED BY <2>1, ElementOfSeq
<1>3. \/ Len(s) = 1 /\ ParseFloat(s) = {s[1]}
      \/ Len(s) = 2 /\ (ParseFloat(s) = {-s[2]} \/ ParseFloat(s) = {s[2]})
      \/ ParseFloat(s) = {}
  BY DEF ParseFloat, Dash, Plus
<1>4. \A v \in Int : {v} \in Bound(Int) /\ {-v} \in Bound(Int)
  BY DEF Bound
<1>5. {} \in Bound(Int)
  BY DEF Bound
<1> QED BY <1>1, <1>2, <1>3, <1>4, <1>5

(* A range that was read has bounds that are numbers or missing. *)
LEMMA RangeType ==
    ASSUME NEW s \in Seq(Int)
    PROVE  ParseRange(s) \in [err : BOOLEAN, min : Bound(Int), max : Bound(Int)]
<1> DEFINE lower == s # <<>> /\ s[Len(s)] = Plus
           upper == s # <<>> /\ ~lower /\ s[1] = Dash
           body == CASE lower -> Front(s) [] upper -> Tail(s) [] OTHER -> s
           dashes == {k \in DOMAIN body : body[k] = Dash}
           cut == IF dashes = {} THEN 0 ELSE Min(dashes)
           T == [err : BOOLEAN, min : Bound(Int), max : Bound(Int)]
<1>0. {} \in Bound(Int)
  BY DEF Bound
<1>1. ASSUME NEW t \in Seq(Int), NEW l \in BOOLEAN, NEW u \in BOOLEAN PROVE ParseOne(t, l, u) \in T
  BY <1>0, FloatType DEF ParseOne
<1>2. ASSUME NEW t1 \in Seq(Int), NEW t2 \in Seq(Int), NEW l \in BOOLEAN, NEW u \in BOOLEAN
      PROVE  ParseTwo(t1, t2, l, u) \in T
  BY <1>0, FloatType DEF ParseTwo
<1>3. ParseRange(s) = CASE s = <<>> -> [err |-> FALSE, min |-> {}, max |-> {}]
                        [] s # <<>> /\ cut = 0 -> ParseOne(body, lower, upper)
                        [] OTHER -> ParseTwo(SubSeq(body, 1, cut - 1),
                                             SubSeq(body, cut + 1, Len(body)), lower, upper)
  BY DEF ParseRange
<1>4. lower \in BOOLEAN /\ upper \in BOOLEAN
  OBVIOUS
<1>5. body \in Seq(Int)
  <2>1. s # <<>> => Front(s) \in Seq(Int) /\ Tail(s) \in Seq(Int)
    <3>1. ASSUME s # <<>> PROVE Front(s) \in Seq(Int)
      <4>1. \A i \in 1..(Len(s) - 1) : s[i] \in Int
        OBVIOUS
      <4> QED BY <4>1, SubSeqProperties DEF Front
    <3> QED BY <3>1, HeadTailProperties
  <2> QED BY <2>1
<1> HIDE DEF lower, upper, body
<1>6. cut \in Int /\ (cut = 0 \/ cut \in DOMAIN body)
  <2>1. DOMAIN body = 1..Len(body) /\ Len(body) \in Nat
    BY <1>5, LenProperties
  <2>2. CASE dashes # {}
    <3>1. dashes \subseteq Nat
      BY <2>1
    <3>2. Min(dashes) \in dashes
      <4>0. dashes # {}
        BY <2>2
      <4> HIDE DEF dashes
      <4>1. \E m \in dashes : \A k \in dashes : m <= k
        BY <4>0, <3>1, LeastNat
      <4> QED BY <4>1 DEF Min
    <3> QED BY <3>1, <3>2, <2>1
  <2> QED BY <2>2
<1> HIDE DEF cut, dashes
<1>7. CASE s = <<>>
  BY <1>0, <1>3, <1>7
<1>8. CASE s # <<>> /\ cut = 0
  <2>1. ParseRange(s) = ParseOne(body, lower, upper)
    BY <1>3, <1>8, Zenon
  <2> QED BY <2>1, <1>1, <1>4, <1>5
<1>9. CASE ~(s = <<>>) /\ ~(cut = 0)
  <2>1. ParseRange(s) = ParseTwo(SubSeq(body, 1, cut - 1), SubSeq(body, cut + 1, Len(body)), lower, upper)
    BY <1>3, <1>9, Zenon
  <2>2. DOMAIN body = 1..Len(body) /\ Len(body) \in Nat /\ \A i \in DOMAIN body : body[i] \in Int
    BY <1>5, LenProperties, ElementOfSeq
  <2>3. /\ \A i \in 1..(cut - 1) : body[i] \in Int
        /\ \A i \in (cut + 1)..Len(body) : body[i] \in Int
    BY <2>2, <1>6, <1>9
  <2>4. SubSeq(body, 1, cut - 1) \in Seq(Int) /\ SubSeq(body, cut + 1, Len(body)) \in Seq(Int)
    BY <2>2, <2>3, <1>6, SubSeqProperties
  <2>5. PICK t1 \in Seq(Int), t2 \in Seq(Int) :
           t1 = SubSeq(body, 1, cut - 1) /\ t2 = SubSeq(body, cut + 1, Len(body))
    BY <2>4
  <2>6. ParseRange(s) = ParseTwo(t1, t2, lower, upper)
    BY <2>1, <2>5, Zenon
  <2>7. ParseTwo(t1, t2, lower, upper) \in T
    BY <1>2, <1>4
  <2> QED BY <2>6, <2>7, Zenon
<1> QED BY <1>7, <1>8, <1>9

(* The texts of ranges have up to three tokens. *)
LEMMA ShortConcats ==
    ASSUME NEW x \in Int, NEW y \in Int, NEW z \in Int
    PROVE  <<x>> \o <<y>> = <<x, y>> /\ (<<x>> \o <<y>>) \o <<z>> = <<x, y, z>>
<1>1. \A t \in Seq(Int) : Len(t) = 2 => t = <<t[1], t[2]>>
  OBVIOUS
<1>2. \A t \in Seq(Int) : Len(t) = 3 => t = <<t[1], t[2], t[3]>>
  OBVIOUS
<1>3. <<x>> \o <<y>> = <<x, y>>
  <2> DEFINE t == <<x>> \o <<y>>
  <2>1. t \in Seq(Int) /\ Len(t) = 2 /\ t[1] = x /\ t[2] = y
    BY ConcatProperties
  <2> HIDE DEF t
  <2>2. t = <<x, y>>
    BY <1>1, <2>1
  <2> QED BY <2>2 DEF t
<1>4. <<x, y>> \o <<z>> = <<x, y, z>>
  <2> DEFINE t == <<x, y>> \o <<z>>
  <2>1. t \in Seq(Int) /\ Len(t) = 3 /\ t[1] = x /\ t[2] = y /\ t[3] = z
    BY ConcatProperties
  <2> HIDE DEF t
  <2>2. t = <<x, y, z>>
    BY <1>2, <2>1
  <2> QED BY <2>2 DEF t
<1> QED BY <1>3, <1>4, Zenon

(* A range without negative numbers is read back as it was written. *)
LEMMA RoundTrip ==
    ASSUME NEW a \in Bound(Nat), NEW b \in Bound(Nat)
    PROVE  LET r == [err |-> FALSE, min |-> a, max |-> b] IN ParseRange(RangeString(r)) = r
<1> DEFINE r == [err |-> FALSE, min |-> a, max |-> b]
<1>1. \A n \in Nat : Number(n) = <<n>>
  BY DEF Number
<1>0. Dash \in Int /\ Plus \in Int /\ \A n \in Nat : n \in Int
  BY DEF Dash, Plus
<1>2. CASE a = {} /\ b = {}
  <2>1. RangeString(r) = <<>>
    BY <1>2 DEF RangeString
  <2>2. ParseRange(<<>>) = [err |-> FALSE, min |-> {}, max |-> {}]
    BY DEF ParseRange
  <2> QED BY <1>2, <2>1, <2>2, Zenon
<1>3. CASE a # {} /\ b = {}
  <2>1. PICK n \in Nat : a = {n}
    BY <1>3 DEF Bound
  <2>2. (CHOOSE v \in r.min : TRUE) = n
    BY <2>1
  <2>3. RangeString(r) = Number(n) \o <<Plus>>
    BY <1>3, <2>1, <2>2 DEF RangeString
  <2>4. RangeString(r) = <<n, Plus>>
    BY <1>0, <1>1, <2>3, ShortConcats, Zenon
  <2> QED BY <1>3, <2>1, <2>4, ParsePlain, Zenon
<1>4. CASE a = {} /\ b # {}
  <2>1. PICK n \in Nat : b = {n}
    BY <1>4 DEF Bound
  <2>2. (CHOOSE v \in r.max : TRUE) = n
    BY <2>1
  <2>3. RangeString(r) = <<Dash>> \o Number(n)
    BY <1>4, <2>1, <2>2 DEF RangeString
  <2>4. RangeString(r) = <<Dash, n>>
    BY <1>0, <1>1, <2>3, ShortConcats, Zenon
  <2> QED BY <1>4, <2>1, <2>4, ParsePlain, Zenon
<1>5. CASE a # {} /\ b # {}
  <2>1. PICK n \in Nat, m \in Nat : a = {n} /\ b = {m}
    BY <1>5 DEF Bound
  <2>2. (CHOOSE v \in r.min : TRUE) = n /\ (CHOOSE v \in r.max : TRUE) = m
    BY <2>1
  <2>3. CASE n = m
    <3>1. RangeString(r) = Number(n)
      BY <2>1, <2>2, <2>3 DEF RangeString
    <3>2. RangeString(r) = <<n>>
      BY <1>1, <3>1
    <3> QED BY <2>1, <2>3, <3>2, ParsePlain, Zenon
  <2>4. CASE n # m
    <3>1. RangeString(r) = Number(n) \o <<Dash>> \o Number(m)
      BY <2>1, <2>2, <2>4 DEF RangeString
    <3>2. Number(n) = <<n>> /\ Number(m) = <<m>>
      BY <1>1
    <3>3. (<<n>> \o <<Dash>>) \o <<m>> = <<n, Dash, m>>
      <4>1. n \in Int /\ m \in Int /\ Dash \in Int
        BY <1>0
      <4> QED BY <4>1, ShortConcats, Zenon
    <3>4. RangeString(r) = <<n, Dash, m>>
      BY <3>1, <3>2, <3>3, Zenon
    <3> QED BY <2>1, <3>4, ParsePlain, Zenon
  <2> QED BY <2>3, <2>4
<1> QED BY <1>2, <1>3, <1>4, <1>5

(* The fields of an entry after its ranges and accelerators are parsed. *)
LEMMA Unmarshalled ==
    ASSUME NEW rs \in RawEntry
    PROVE  UnmarshalFields(rs) =
             [cpus |-> {ParseRange(s) : s \in rs.cpus},
              memory |-> {ParseRange(s) : s \in rs.memory},
              disk |-> {ParseRange(s) : s \in rs.disk},
              itype |-> rs.itype, cloud |-> rs.cloud, region |-> rs.region,
              accel |-> {ParseAccelerators(a) : a \in rs.accel},
              spot |-> rs.spot, time |-> rs.time]
<1>1. rs = [cpus |-> rs.cpus, memory |-> rs.memory, disk |-> rs.disk, itype |-> rs.itype,
            cloud |-> rs.cloud, region |-> rs.region, accel |-> rs.accel, spot |-> rs.spot,
            time |-> rs.time]
  BY DEF RawEntry
<1>2. PICK c, m, d, a : /\ c = {ParseRange(s) : s \in rs.cpus}
                        /\ m = {ParseRange(s) : s \in rs.memory}
                        /\ d = {ParseRange(s) : s \in rs.disk}
                        /\ a = {ParseAccelerators(x) : x \in rs.accel}
  OBVIOUS
<1>3. UnmarshalFields(rs) = [rs EXCEPT !.cpus = c, !.memory = m, !.disk = d, !.accel = a]
  BY <1>2, Zenon DEF UnmarshalFields
<1>4. UnmarshalFields(rs) = [cpus |-> c, memory |-> m, disk |-> d, itype |-> rs.itype,
                             cloud |-> rs.cloud, region |-> rs.region, accel |-> a,
                             spot |-> rs.spot, time |-> rs.time]
  BY <1>1, <1>3
<1> QED BY <1>2, <1>4, Zenon

(* The outer resources come first; entries of YAML inherit from them. *)
LEMMA GroupsAre ==
    ASSUME NEW res \in [outer : RawEntry, ordered : Seq(RawEntry)], NEW f
    PROVE  LET outer == UnmarshalFields(res.outer)
               entry(k) == UnmarshalFields(res.ordered[k])
               G == Groups(f, res)
           IN  /\ Len(res.ordered) \in Nat /\ DOMAIN res.ordered = 1..Len(res.ordered)
               /\ Len(G) = Len(res.ordered) + 1 /\ DOMAIN G = 1..(Len(res.ordered) + 1)
               /\ G[1] = outer
               /\ \A k \in 2..(Len(res.ordered) + 1) :
                    G[k] = IF f = "yaml" THEN fillDefaultsFrom(entry(k - 1), outer) ELSE entry(k - 1)
<1> DEFINE outer == UnmarshalFields(res.outer)
           entry(k) == UnmarshalFields(res.ordered[k])
           n == Len(res.ordered)
           e(k) == IF f = "yaml" THEN fillDefaultsFrom(entry(k), outer) ELSE entry(k)
           tail == [k \in 1..n |-> e(k)]
           S == {outer} \cup {e(k) : k \in 1..n}
<1>1. n \in Nat /\ DOMAIN res.ordered = 1..n
  BY LenProperties
<1>2. Groups(f, res) = <<outer>> \o tail
  BY <1>1 DEF Groups
<1>3. tail \in [1..n -> S]
  OBVIOUS
<1>4. \A k \in 1..n : tail[k] = e(k)
  OBVIOUS
<1>5. <<outer>> \in Seq(S) /\ Len(<<outer>>) = 1 /\ <<outer>>[1] = outer
  BY DEF S
<1> HIDE DEF tail, S, e, outer, n
<1>6. tail \in Seq(S) /\ Len(tail) = n
  BY <1>1, <1>3, FunctionSeq
<1>7. /\ Groups(f, res) \in Seq(S)
      /\ Len(Groups(f, res)) = n + 1
      /\ \A k \in 1..(n + 1) : Groups(f, res)[k] = IF k <= 1 THEN <<outer>>[k] ELSE tail[k - 1]
  BY <1>1, <1>2, <1>5, <1>6, ConcatProperties
<1>8. DOMAIN Groups(f, res) = 1..(n + 1)
  BY <1>7, LenProperties
<1>9. Groups(f, res)[1] = outer
  BY <1>1, <1>5, <1>7
<1>10. ASSUME NEW k \in 2..(n + 1) PROVE Groups(f, res)[k] = e(k - 1)
  BY <1>1, <1>4, <1>7
<1> QED BY <1>1, <1>7, <1>8, <1>9, <1>10 DEF e, n, outer

(* What the k-th resource group of a YAML task asks for is what the task says. *)
LEMMA GroupSays ==
    ASSUME req \in Requests, form = "yaml", groups = Groups(form, req.resources),
           NEW k \in DOMAIN groups
    PROVE  /\ groups[k].cpus = {ParseRange(s) : s \in Said(k, "cpus")}
           /\ groups[k].memory = {ParseRange(s) : s \in Said(k, "memory")}
           /\ groups[k].disk = {ParseRange(s) : s \in Said(k, "disk")}
           /\ groups[k].accel = {ParseAccelerators(a) : a \in Said(k, "accel")}
           /\ groups[k].itype = Said(k, "itype")
           /\ groups[k].region = Said(k, "region")
<1>1. PICK res \in [outer : RawEntry, ordered : Seq(RawEntry)] : res = req.resources
  BY PlacementAssumption
<1>2. /\ Len(res.ordered) \in Nat /\ DOMAIN res.ordered = 1..Len(res.ordered)
      /\ DOMAIN groups = 1..(Len(res.ordered) + 1)
      /\ groups[1] = UnmarshalFields(res.outer)
      /\ \A j \in 2..(Len(res.ordered) + 1) :
           groups[j] = fillDefaultsFrom(UnmarshalFields(res.ordered[j - 1]), UnmarshalFields(res.outer))
  BY <1>1, GroupsAre, Zenon
<1>3. res.outer \in RawEntry
  OBVIOUS
<1>4. CASE k = 1
  <2>1. \A f : Said(k, f) = res.outer[f]
    BY <1>1, <1>4 DEF Said
  <2>2. groups[k] = UnmarshalFields(res.outer)
    BY <1>2, <1>4
  <2> QED BY <2>1, <2>2, <1>3, Unmarshalled
<1>5. CASE k # 1
  <2>1. k \in 2..(Len(res.ordered) + 1) /\ k - 1 \in 1..Len(res.ordered)
    BY <1>2, <1>5
  <2>2. PICK own \in RawEntry : own = res.ordered[k - 1]
    BY <2>1, ElementOfSeq
  <2>3. \A f : Said(k, f) = IF own[f] = {} THEN res.outer[f] ELSE own[f]
    BY <1>1, <1>5, <2>2 DEF Said
  <2>4. groups[k] = fillDefaultsFrom(UnmarshalFields(own), UnmarshalFields(res.outer))
    BY <1>2, <2>1, <2>2
  <2>5. UnmarshalFields(own) =
          [cpus |-> {ParseRange(s) : s \in own.cpus},
           memory |-> {ParseRange(s) : s \in own.memory},
           disk |-> {ParseRange(s) : s \in own.disk},
           itype |-> own.itype, cloud |-> own.cloud, region |-> own.region,
           accel |-> {ParseAccelerators(a) : a \in own.accel}, spot |-> own.spot, time |-> own.time]
    BY Unmarshalled
  <2>6. UnmarshalFields(res.outer) =
          [cpus |-> {ParseRange(s) : s \in res.outer.cpus},
           memory |-> {ParseRange(s) : s \in res.outer.memory},
           disk |-> {ParseRange(s) : s \in res.outer.disk},
           itype |-> res.outer.itype, cloud |-> res.outer.cloud, region |-> res.outer.region,
           accel |-> {ParseAccelerators(a) : a \in res.outer.accel},
           spot |-> res.outer.spot, time |-> res.outer.time]
    BY <1>3, Unmarshalled
  <2>7. \A f \in {"cpus", "memory", "disk", "itype", "region", "accel"} :
          groups[k][f] = IF UnmarshalFields(own)[f] = {} THEN UnmarshalFields(res.outer)[f]
                                                         ELSE UnmarshalFields(own)[f]
    <3>1. {"cpus", "memory", "disk", "itype", "region", "accel"} \subseteq DOMAIN UnmarshalFields(own)
      BY <2>5
    <3> QED BY <2>4, <3>1 DEF fillDefaultsFrom
  <2>8. groups[k].cpus = {ParseRange(s) : s \in Said(k, "cpus")}
    BY <2>3, <2>5, <2>6, <2>7
  <2>9. groups[k].disk = {ParseRange(s) : s \in Said(k, "disk")}
    BY <2>3, <2>5, <2>6, <2>7
  <2>10. groups[k].accel = {ParseAccelerators(a) : a \in Said(k, "accel")}
    BY <2>3, <2>5, <2>6, <2>7
  <2>11. groups[k].itype = Said(k, "itype") /\ groups[k].region = Said(k, "region")
    BY <2>3, <2>5, <2>6, <2>7
  <2>12. groups[k].memory = {ParseRange(s) : s \in Said(k, "memory")}
    BY <2>3, <2>5, <2>6, <2>7
  <2> QED BY <2>8, <2>9, <2>10, <2>11, <2>12
<1> QED BY <1>4, <1>5

(* And it says so in the form of the docs. *)
LEMMA SaidPlain ==
    ASSUME req \in Requests, PlainYAML, groups = Groups(form, req.resources),
           NEW k \in DOMAIN groups
    PROVE  /\ \A s \in Said(k, "cpus") : s \in Seq(Int) /\ Plain(s)
           /\ \A s \in Said(k, "memory") : s \in Seq(Int) /\ Plain(s)
           /\ \A s \in Said(k, "disk") : s \in Seq(Int) /\ PlainDisk(s)
           /\ \A a \in Said(k, "accel") : a \in RawAccelerators /\ PlainAccel(a)
<1>1. PICK res \in [outer : RawEntry, ordered : Seq(RawEntry)] : res = req.resources
  BY PlacementAssumption
<1>2. /\ Len(res.ordered) \in Nat /\ DOMAIN res.ordered = 1..Len(res.ordered)
      /\ DOMAIN groups = 1..(Len(res.ordered) + 1)
  BY <1>1, GroupsAre, Zenon
<1>3. ASSUME NEW rs \in RawEntry, PlainEntry(rs)
      PROVE  /\ \A s \in rs.cpus : s \in Seq(Int) /\ Plain(s)
             /\ \A s \in rs.memory : s \in Seq(Int) /\ Plain(s)
             /\ \A s \in rs.disk : s \in Seq(Int) /\ PlainDisk(s)
             /\ \A a \in rs.accel : a \in RawAccelerators /\ PlainAccel(a)
  <2>1. /\ rs.cpus \subseteq Seq(Int) /\ rs.memory \subseteq Seq(Int) /\ rs.disk \subseteq Seq(Int)
        /\ rs.accel \subseteq RawAccelerators
    BY DEF RawEntry
  <2> QED BY <2>1, <1>3, Zenon DEF PlainEntry
<1>4. res.outer \in RawEntry /\ PlainEntry(res.outer)
  BY <1>1 DEF PlainYAML
<1>5. ASSUME k # 1 PROVE \E own \in RawEntry : own = res.ordered[k - 1] /\ PlainEntry(own)
  <2>1. k - 1 \in 1..Len(res.ordered)
    BY <1>2, <1>5
  <2>2. res.ordered[k - 1] \in RawEntry
    BY <2>1, ElementOfSeq
  <2> QED BY <2>1, <2>2, <1>1, <1>2 DEF PlainYAML
<1>6. \A f : Said(k, f) = res.outer[f] \/ (k # 1 /\ Said(k, f) = res.ordered[k - 1][f])
  BY <1>1 DEF Said
<1> QED BY <1>3, <1>4, <1>5, <1>6

(* Accelerators by their names and counts. *)
LEMMA AccelMeans ==
    ASSUME NEW a \in RawAccelerators, PlainAccel(a), NEW inst \in InstTypes
    PROVE  (\A name \in DOMAIN ParseAccelerators(a) : Has(inst, name, ParseAccelerators(a)[name])) <=>
             \A i \in DOMAIN a.items :
               \E name \in {a.items[i].name, Lower(a.items[i].name)} :
                  name \in DOMAIN inst.accel /\ inst.accel[name] >= Count(a.items[i])
<1> DEFINE A == ParseAccelerators(a)
           items == a.items
<1>1. /\ DOMAIN items \subseteq Int
      /\ \A i \in DOMAIN items : items[i].name \in STRING /\ items[i].n \in Int
      /\ a.form \in {"list", "map"}
  <2>1. items \in Seq([name : STRING, n : Int]) /\ a.form \in {"list", "map"}
    BY DEF RawAccelerators
  <2> HIDE DEF items
  <2>2. DOMAIN items = 1..Len(items) /\ Len(items) \in Nat
    BY <2>1, LenProperties
  <2>3. \A i \in DOMAIN items : items[i] \in [name : STRING, n : Int]
    BY <2>1, <2>2, ElementOfSeq
  <2> QED BY <2>1, <2>2, <2>3
<1>2. DOMAIN A = {items[i].name : i \in DOMAIN items}
  BY DEF ParseAccelerators
<1>3. ASSUME NEW i \in DOMAIN items PROVE A[items[i].name] = Count(items[i])
  <2>1. {k \in DOMAIN items : items[k].name = items[i].name} = {i}
    BY DEF PlainAccel
  <2>2. Max({i}) = i
    BY <1>1 DEF Max
  <2>3. A[items[i].name] = IF a.form = "list" THEN Count(items[i]) ELSE items[i].n
    BY <1>2, <2>1, <2>2 DEF ParseAccelerators
  <2>4. a.form = "map" => items[i].n > 0
    BY DEF PlainAccel
  <2> QED BY <1>1, <2>3, <2>4 DEF Count
<1>4. ASSUME NEW name, NEW n
      PROVE  Has(inst, name, n) <=>
               \E x \in {name, Lower(name)} : x \in DOMAIN inst.accel /\ inst.accel[x] >= n
  <2>1. ~({"GPU", "gpu"} \subseteq DOMAIN inst.accel)
    BY PlacementAssumption DEF InstTypes
  <2>2. Lower(name) # name => name = "GPU" /\ Lower(name) = "gpu"
    BY DEF Lower
  <2>3. Lower(name) \in DOMAIN inst.accel /\ name \in DOMAIN inst.accel => Lower(name) = name
    BY <2>1, <2>2
  <2> QED BY <2>3 DEF Has
<1> HIDE DEF A, items
<1> QED BY <1>2, <1>3, <1>4 DEF A, items

(* So an instance type is collected for a group exactly when it fits it and passes the
   filters of cloud and region. *)
LEMMA CollectsFits ==
    ASSUME req \in Requests, PlainYAML, groups = Groups(form, req.resources),
           NEW k \in DOMAIN groups, NEW inst \in InstTypes
    PROVE  Collects(inst, groups[k]) <=>
             /\ Fits(inst, k)
             /\ cloudFilter # {} => inst.cloud \in cloudFilter
             /\ \A r \in regionFilter(groups[k]) : inst.region = r
<1>0. inst.vcpus \in Nat /\ inst.memory \in Nat /\ inst.disk \in Nat
  BY PlacementAssumption DEF InstTypes
<1>1. form = "yaml"
  BY DEF PlainYAML
<1>2. /\ groups[k].cpus = {ParseRange(s) : s \in Said(k, "cpus")}
      /\ groups[k].memory = {ParseRange(s) : s \in Said(k, "memory")}
      /\ groups[k].disk = {ParseRange(s) : s \in Said(k, "disk")}
      /\ groups[k].accel = {ParseAccelerators(a) : a \in Said(k, "accel")}
      /\ groups[k].itype = Said(k, "itype")
  BY <1>1, GroupSays
<1>3. /\ \A s \in Said(k, "cpus") : s \in Seq(Int) /\ Plain(s)
      /\ \A s \in Said(k, "memory") : s \in Seq(Int) /\ Plain(s)
      /\ \A s \in Said(k, "disk") : s \in Seq(Int) /\ PlainDisk(s)
      /\ \A a \in Said(k, "accel") : a \in RawAccelerators /\ PlainAccel(a)
  BY SaidPlain
<1>4. (\A r \in groups[k].cpus : Matches(r, inst.vcpus)) <=> \A s \in Said(k, "cpus") : Says(s, inst.vcpus)
  <2>1. \A s \in Said(k, "cpus") : Matches(ParseRange(s), inst.vcpus) <=> Says(s, inst.vcpus)
    BY <1>0, <1>3, PlainMeans
  <2> QED BY <1>2, <2>1
<1>5. (\A r \in groups[k].disk : \A m \in (IF r.min # {} THEN r.min ELSE r.max) : inst.disk >= m)
        <=> \A s \in Said(k, "disk") : \E d \in 0..inst.disk : Says(s, d)
  <2>1. \A s \in Said(k, "disk") :
          (\A m \in (IF ParseRange(s).min # {} THEN ParseRange(s).min ELSE ParseRange(s).max) :
             inst.disk >= m) <=> \E d \in 0..inst.disk : Says(s, d)
    BY <1>0, <1>3, PlainDiskMeans
  <2> QED BY <1>2, <2>1
<1>6. (\A a \in groups[k].accel : \A name \in DOMAIN a : Has(inst, name, a[name]))
        <=> \A a \in Said(k, "accel") : \A i \in DOMAIN a.items :
              \E name \in {a.items[i].name, Lower(a.items[i].name)} :
                 name \in DOMAIN inst.accel /\ inst.accel[name] >= Count(a.items[i])
  <2>1. \A a \in Said(k, "accel") :
          (\A name \in DOMAIN ParseAccelerators(a) : Has(inst, name, ParseAccelerators(a)[name]))
            <=> \A i \in DOMAIN a.items :
                  \E name \in {a.items[i].name, Lower(a.items[i].name)} :
                     name \in DOMAIN inst.accel /\ inst.accel[name] >= Count(a.items[i])
    BY <1>3, AccelMeans
  <2> QED BY <1>2, <2>1
<1>7. (\A t \in groups[k].itype : inst.itype = t) <=> \A t \in Said(k, "itype") : inst.itype = t
  BY <1>2
<1>8. (\A r \in groups[k].memory : Matches(r, inst.memory))
        <=> \A s \in Said(k, "memory") : Says(s, inst.memory)
  <2>1. \A s \in Said(k, "memory") : Matches(ParseRange(s), inst.memory) <=> Says(s, inst.memory)
    BY <1>0, <1>3, PlainMeans
  <2> QED BY <1>2, <2>1
<1> QED BY <1>4, <1>5, <1>6, <1>7, <1>8, Zenon DEF Collects, matchesResources, Fits

(* Where neither is lost, the filters are what is asked for. *)
LEMMA PinsMean ==
    ASSUME req \in Requests, form = "yaml", groups = Groups(form, req.resources),
           NEW k \in DOMAIN groups, NEW inst
    PROVE  /\ ~CloudIsLost(k) =>
                 (CloudKept(inst, k) <=> (cloudFilter # {} => inst.cloud \in cloudFilter))
           /\ ~RegionIsLost(k) =>
                 (RegionKept(inst, k) <=> \A r \in regionFilter(groups[k]) : inst.region = r)
<1>1. groups[k].region = Said(k, "region")
  BY GroupSays
<1>2. ~CloudIsLost(k) => Priority(req.clouds, Said(k, "cloud"), req.cfgClouds) = cloudFilter
  BY DEF CloudIsLost, Priority, Flagged, Configured, cloudFilter, Flag
<1>3. ~RegionIsLost(k) =>
        Priority(req.region, Said(k, "region"), req.cfgRegion) = regionFilter(groups[k])
  BY <1>1 DEF RegionIsLost, Priority, Flagged, Configured, regionFilter, regionOption, Flag
<1> QED BY <1>2, <1>3, Zenon DEF CloudKept, RegionKept

(* Every range that was parsed is read back as it was written. *)
LEMMA RangesAreRead ==
    ASSUME req \in Requests, groups = Groups(form, req.resources)
    PROVE  RangesRoundTrip
<1>1. PICK res \in [outer : RawEntry, ordered : Seq(RawEntry)] : res = req.resources
  BY PlacementAssumption
<1>2. /\ Len(res.ordered) \in Nat /\ DOMAIN groups = 1..(Len(res.ordered) + 1)
      /\ groups[1] = UnmarshalFields(res.outer)
      /\ \A j \in 2..(Len(res.ordered) + 1) :
           groups[j] = IF form = "yaml" THEN fillDefaultsFrom(UnmarshalFields(res.ordered[j - 1]),
                                                              UnmarshalFields(res.outer))
                                        ELSE UnmarshalFields(res.ordered[j - 1])
  BY <1>1, GroupsAre, Zenon
<1> DEFINE Ranges == [err : BOOLEAN, min : Bound(Int), max : Bound(Int)]
<1>3. ASSUME NEW rs \in RawEntry
      PROVE  /\ UnmarshalFields(rs).cpus \subseteq Ranges
             /\ UnmarshalFields(rs).memory \subseteq Ranges
             /\ UnmarshalFields(rs).disk \subseteq Ranges
             /\ {"cpus", "memory", "disk"} \subseteq DOMAIN UnmarshalFields(rs)
  <2>1. rs.cpus \subseteq Seq(Int) /\ rs.memory \subseteq Seq(Int) /\ rs.disk \subseteq Seq(Int)
    BY DEF RawEntry
  <2>2. \A s \in Seq(Int) : ParseRange(s) \in Ranges
    BY RangeType
  <2> HIDE DEF Ranges
  <2>3. /\ UnmarshalFields(rs).cpus = {ParseRange(s) : s \in rs.cpus}
        /\ UnmarshalFields(rs).memory = {ParseRange(s) : s \in rs.memory}
        /\ UnmarshalFields(rs).disk = {ParseRange(s) : s \in rs.disk}
        /\ {"cpus", "memory", "disk"} \subseteq DOMAIN UnmarshalFields(rs)
    BY Unmarshalled
  <2> QED BY <2>1, <2>2, <2>3
<1> HIDE DEF Ranges
<1>4. ASSUME NEW k \in DOMAIN groups,
             NEW r \in groups[k].cpus \cup groups[k].memory \cup groups[k].disk
      PROVE  r \in Ranges
  <2>1. res.outer \in RawEntry
    OBVIOUS
  <2>2. CASE k = 1
    BY <1>2, <1>3, <1>4, <2>1, <2>2
  <2>3. CASE k # 1
    <3>1. k \in 2..(Len(res.ordered) + 1) /\ k - 1 \in 1..Len(res.ordered)
      BY <1>2, <2>3
    <3>2. PICK own \in RawEntry : own = res.ordered[k - 1]
      BY <3>1, ElementOfSeq
    <3>3. groups[k] = UnmarshalFields(own)
            \/ groups[k] = fillDefaultsFrom(UnmarshalFields(own), UnmarshalFields(res.outer))
      BY <1>2, <3>1, <3>2
    <3>4. \A f \in {"cpus", "memory", "disk"} :
            groups[k][f] = UnmarshalFields(own)[f] \/ groups[k][f] = UnmarshalFields(res.outer)[f]
      BY <1>3, <3>3 DEF fillDefaultsFrom
    <3> QED BY <1>3, <2>1, <3>4, <1>4
  <2> QED BY <2>2, <2>3
<1>5. ASSUME NEW k \in DOMAIN groups,
             NEW r \in groups[k].cpus \cup groups[k].memory \cup groups[k].disk,
             ~r.err, \A m \in r.min \cup r.max : m >= 0
      PROVE  ParseRange(RangeString(r)) = r
  <2>1. PICK a \in Bound(Int), b \in Bound(Int) : r = [err |-> FALSE, min |-> a, max |-> b]
    BY <1>4, <1>5 DEF Ranges
  <2>2. a \in Bound(Nat) /\ b \in Bound(Nat)
    <3>1. \A m \in a \cup b : m >= 0
      BY <1>5, <2>1
    <3> QED BY <3>1 DEF Bound
  <2> QED BY <2>1, <2>2, RoundTrip, Zenon
<1> QED BY <1>5, Zenon DEF RangesRoundTrip

-----------------------------------------------------------------------------
(* Placement: what is planned and launched is what the task says. *)

(* A task that has a node and whose backend is configured. *)
SoundTask(t) ==
    /\ t.nodes >= 1
    /\ t.backend \in ValidBackends
    /\ t.backend = "existing" => t.ssh
    /\ t.backend = "docker" => t.docker

(* Defaults and validation, and an override of the number of nodes, which is at
   least one. *)
LEMMA LoadedIsSound ==
    ASSUME req \in Requests, ~Loaded.err
    PROVE  SoundTask(Loaded.task)
<1>1. PICK t \in RawTask, n \in Int : t = req.task /\ n = req.nodes
  BY PlacementAssumption
<1> DEFINE AnyTask ==
             [backend : STRING \cup {"cloud"}, nodes : Int, ssh : BOOLEAN, docker : BOOLEAN,
              run : BOOLEAN, cloudName : BOOLEAN,
              service : SUBSET [ports : BOOLEAN, run : BOOLEAN],
              credentials : SUBSET [id : BOOLEAN, secret : BOOLEAN]]
           o(x) == IF n > 0 THEN [x EXCEPT !.nodes = n] ELSE x
<1>2. \A x : Override(x) = o(x)
  BY <1>1 DEF Override
<1>3. ASSUME NEW x \in AnyTask PROVE o(x) \in AnyTask
  OBVIOUS
<1>4. ASSUME NEW x \in AnyTask, ~SetDefaults(x).err
      PROVE  SetDefaults(x).task \in AnyTask /\ SoundTask(SetDefaults(x).task)
  <2>1. PICK d : d = [x EXCEPT !.nodes = IF @ = 0 THEN 1 ELSE @,
                               !.backend = IF @ = "" THEN "cloud" ELSE @]
    OBVIOUS
  <2>2. d \in AnyTask
    <3>1. PICK k \in Int, b \in STRING \cup {"cloud"} :
             /\ k = (IF x.nodes = 0 THEN 1 ELSE x.nodes)
             /\ b = (IF x.backend = "" THEN "cloud" ELSE x.backend)
      <4>1. x.nodes \in Int /\ x.backend \in STRING \cup {"cloud"}
        OBVIOUS
      <4>2. \E k \in Int : k = (IF x.nodes = 0 THEN 1 ELSE x.nodes)
        BY <4>1
      <4>3. \E b \in STRING \cup {"cloud"} : b = (IF x.backend = "" THEN "cloud" ELSE x.backend)
        BY <4>1
      <4> QED BY <4>2, <4>3
    <3>2. d = [x EXCEPT !.nodes = k, !.backend = b]
      BY <2>1, <3>1, Zenon
    <3> QED BY <3>2
  <2>3. SetDefaults(x) = [err |-> ~(/\ d.nodes >= 1
                                    /\ d.backend \in ValidBackends
                                    /\ validateBackendConfig(d)
                                    /\ ResourcesOK(d)
                                    /\ ServiceOK(d)
                                    /\ CredentialsOK(d)),
                          task |-> d]
    BY <2>1, Zenon DEF SetDefaults
  <2>4. SetDefaults(x).task = d /\ d.nodes >= 1 /\ d.backend \in ValidBackends /\ validateBackendConfig(d)
    <3> DEFINE ok == /\ d.nodes >= 1
                     /\ d.backend \in ValidBackends
                     /\ validateBackendConfig(d)
                     /\ ResourcesOK(d)
                     /\ ServiceOK(d)
                     /\ CredentialsOK(d)
    <3>1. SetDefaults(x).task = d /\ SetDefaults(x).err = ~ok
      <4> HIDE DEF ok
      <4>1. SetDefaults(x) = [err |-> ~ok, task |-> d]
        BY <2>3, Zenon DEF ok
      <4> QED BY <4>1
    <3>2. ok
      <4> HIDE DEF ok
      <4> QED BY <1>4, <3>1, Zenon
    <3> QED BY <3>1, <3>2, Zenon
  <2> QED BY <2>2, <2>4 DEF SoundTask, validateBackendConfig
<1>5. ASSUME NEW x \in AnyTask, SoundTask(x) PROVE SoundTask(o(x))
  BY <1>5 DEF SoundTask
<1>9. t \in AnyTask
  BY DEF RawTask
<1> HIDE DEF o, AnyTask
<1>6. CASE req.entry = "json"
  <2>1. Loaded = SetDefaults(o(t))
    BY <1>1, <1>2, <1>6 DEF Loaded
  <2> QED BY <2>1, <1>3, <1>4, <1>9
<1>7. CASE req.entry = "job"
  <2>1. Loaded = SetDefaults(t)
    BY <1>1, <1>7 DEF Loaded
  <2> QED BY <2>1, <1>4, <1>9
<1>8. CASE req.entry # "json" /\ req.entry # "job"
  <2>1. Loaded = [SetDefaults(t) EXCEPT !.task = o(@)]
    BY <1>1, <1>2, <1>8 DEF Loaded
  <2>2. SetDefaults(t) = [err |-> SetDefaults(t).err, task |-> SetDefaults(t).task]
    BY DEF SetDefaults
  <2>3. Loaded.err = SetDefaults(t).err /\ Loaded.task = o(SetDefaults(t).task)
    BY <2>1, <2>2
  <2> QED BY <2>3, <1>4, <1>5, <1>9
<1> QED BY <1>6, <1>7, <1>8

(* From the load on, the task is one that can be launched. *)
LaunchInv ==
    /\ req \in Requests
    /\ stage \in {"resolve", "collect", "planned", "shown", "launched", "aborted"} => SoundTask(task)
    /\ launch = {} \/ stage = "launched"
    /\ \A l \in launch : l.nodes >= 1

(* The task is set when it is loaded, and each launch takes its nodes. *)
LEMMA LaunchStep ==
    /\ PlaceInit => LaunchInv
    /\ LaunchInv /\ [PlaceNext]_placeVars => LaunchInv'
<1>1. PlaceInit => LaunchInv
  BY DEF PlaceInit, PlaceStart, LaunchInv
<1>2. LaunchInv /\ [PlaceNext]_placeVars => LaunchInv'
  <2> SUFFICES ASSUME LaunchInv, [PlaceNext]_placeVars PROVE LaunchInv'
    OBVIOUS
  <2> USE DEF LaunchInv
  <2>1. CASE Load
    <3>1. PICK loaded : loaded = Loaded
      OBVIOUS
    <3>2. req' = req /\ launch = {}
      BY <2>1 DEF Load, Error
    <3>3. CASE stage' = "error" /\ launch' = launch
      BY <3>2, <3>3
    <3>4. CASE ~loaded.err /\ task' = loaded.task
               /\ (\/ stage' = "resolve" /\ launch' = launch
                   \/ stage' = "launched" /\ launch' = {[cloud |-> loaded.task.backend,
                                                        nodes |-> loaded.task.nodes]})
      <4>1. SoundTask(loaded.task)
        BY <3>1, <3>4, LoadedIsSound, Zenon
      <4>2. SoundTask(task)'
        BY <3>4, <4>1 DEF SoundTask
      <4> QED BY <3>2, <3>4, <4>1, <4>2 DEF SoundTask
    <3> QED BY <2>1, <3>1, <3>3, <3>4 DEF Load, Error
  <2>2. ASSUME req' = req, task' = task, launch' = launch,
               stage \in {"resolve", "collect", "planned"},
               stage' \in {"resolve", "collect", "planned", "shown", "aborted", "error"}
        PROVE  LaunchInv'
    BY <2>2 DEF SoundTask
  <2>3. CASE selectOptimizer
    BY <2>2, <2>3 DEF selectOptimizer, Error
  <2>4. CASE MetaFails
    BY <2>2, <2>4 DEF MetaFails, Error
  <2>5. ASSUME NEW failed \in SUBSET Regions, NEW price \in PriceTables, collectAndPrice(failed, price)
        PROVE  LaunchInv'
    BY <2>2, <2>5 DEF collectAndPrice
  <2>6. CASE Optimize
    BY <2>2, <2>6 DEF Optimize, Error
  <2>7. CASE DryRun
    BY <2>2, <2>7 DEF DryRun
  <2>8. ASSUME req' = req, task' = task, stage = "planned", stage' = "launched",
               NEW c, launch' = {Picked(c)}
        PROVE  LaunchInv'
    <3>1. SoundTask(task) /\ Picked(c).nodes = task.nodes
      BY <2>8 DEF Picked
    <3>2. SoundTask(task)'
      BY <2>8, <3>1 DEF SoundTask
    <3> QED BY <2>8, <3>1, <3>2 DEF SoundTask
  <2>9. CASE LaunchFirst
    <3>1. PICK c : c = plan[1]
      OBVIOUS
    <3> QED BY <2>8, <2>9, <3>1 DEF LaunchFirst
  <2>10. ASSUME NEW live \in LivePrices, refreshLaunchPrice(live) PROVE LaunchInv'
    <3>1. PICK p : p = [plan[1] EXCEPT !.od = Or(live.od, @), !.spot = Or(live.spot, @)]
      OBVIOUS
    <3>2. /\ req' = req /\ task' = task /\ stage = "planned"
          /\ \/ stage' = "launched" /\ launch' = {Picked(p)}
             \/ stage' = "aborted" /\ launch' = launch
      BY <2>10, <3>1, Zenon DEF refreshLaunchPrice
    <3> QED BY <3>2, <2>2, <2>8
  <2>11. CASE UNCHANGED placeVars
    BY <2>11 DEF placeVars, SoundTask
  <2> QED BY <2>1, <2>3, <2>4, <2>5, <2>6, <2>7, <2>9, <2>10, <2>11 DEF PlaceNext
<1> QED BY <1>1, <1>2

(* The resource groups are those of the request, once it is loaded. *)
GroupsInv ==
    /\ req \in Requests /\ group \in Nat \ {0}
    /\ stage = "load" => groups = <<>>
    /\ stage \in {"load", "resolve"} => group = 1 /\ cands = <<>> /\ plan = <<>>
    /\ groups = <<>> \/ groups = Groups(form, req.resources)
    /\ stage \in {"resolve", "collect"} => groups = Groups(form, req.resources)

(* A candidate is an instance type that was collected for its group. *)
Feasible(c) ==
    /\ c.group \in DOMAIN groups /\ c.inst \in InstTypes
    /\ Collects(c.inst, groups[c.group])

(* Nothing fits group g. *)
NoneFor(g) == \A inst \in InstTypes : ~Collects(inst, groups[g])

(* Candidates and placements were collected for their groups; without a candidate, no
   group so far had any. *)
FeasibleInv ==
    /\ \A k \in DOMAIN cands : Feasible(cands[k])
    /\ \A k \in DOMAIN plan : Feasible(plan[k]) /\ {"inst", "group"} \subseteq DOMAIN plan[k]
    /\ cands = <<>> => \A g \in DOMAIN groups : g < group => NoneFor(g)
    /\ stage = "error" => groups = <<>> \/ group <= Len(groups) \/ cands = <<>>

(* The invariant of PlanIsFeasible and NoPlanOnlyIfNoneFits. *)
MeetInv == PlaceInv /\ GroupsInv /\ FeasibleInv

(* There is at least the group of the outer resources. *)
LEMMA GroupsLen ==
    ASSUME req \in Requests, groups = Groups(form, req.resources)
    PROVE  Len(groups) \in Nat /\ Len(groups) >= 1 /\ DOMAIN groups = 1..Len(groups)
<1>1. PICK res \in [outer : RawEntry, ordered : Seq(RawEntry)] : res = req.resources
  BY PlacementAssumption
<1>2. /\ Len(res.ordered) \in Nat /\ DOMAIN groups = 1..(Len(res.ordered) + 1)
      /\ Len(groups) = Len(res.ordered) + 1
  BY <1>1, GroupsAre, Zenon
<1> QED BY <1>2

(* What is collected stays so. *)
LEMMA FeasibleStays ==
    ASSUME UNCHANGED <<req, groups>>
    PROVE  /\ \A c : Feasible(c)' <=> Feasible(c)
           /\ \A g : NoneFor(g)' <=> NoneFor(g)
<1>1. regionOption' = regionOption /\ cloudFilter' = cloudFilter
  BY DEF regionOption, cloudFilter, Flag
<1>2. ASSUME NEW inst, NEW rs PROVE Collects(inst, rs)' <=> Collects(inst, rs)
  BY <1>1 DEF Collects, regionFilter
<1> QED BY <1>2 DEF Feasible, NoneFor

(* Groups are set by Load and never change. *)
LEMMA GroupsStep ==
    /\ PlaceInit => GroupsInv
    /\ GroupsInv /\ [PlaceNext]_placeVars => GroupsInv'
<1>1. PlaceInit => GroupsInv
  BY DEF PlaceInit, PlaceStart, GroupsInv
<1>2. GroupsInv /\ [PlaceNext]_placeVars => GroupsInv'
  <2> SUFFICES ASSUME GroupsInv, [PlaceNext]_placeVars PROVE GroupsInv'
    OBVIOUS
  <2> USE DEF GroupsInv
  <2>0. req' = req => form' = form
    BY DEF form
  <2>1. CASE Load
    <3>1. PICK gs : gs = Groups(form, req.resources)
      OBVIOUS
    <3>2. /\ UNCHANGED <<req, group, cands, plan>> /\ stage = "load"
          /\ \/ stage' = "error" /\ groups' = groups
             \/ stage' \in {"resolve", "launched"} /\ groups' = gs
      BY <2>1, <3>1 DEF Load, Error
    <3> QED BY <2>0, <3>1, <3>2
  <2>2. ASSUME UNCHANGED <<req, groups>>, stage # "load", stage' # "load",
               group' \in Nat \ {0},
               stage' \in {"resolve", "collect"} => stage \in {"resolve", "collect"},
               stage' = "resolve" => UNCHANGED <<stage, group, cands, plan>>
        PROVE  GroupsInv'
    BY <2>0, <2>2
  <2>3. CASE selectOptimizer
    BY <2>2, <2>3 DEF selectOptimizer, Error
  <2>4. CASE MetaFails
    BY <2>2, <2>4 DEF MetaFails, Error
  <2>5. ASSUME NEW failed \in SUBSET Regions, NEW price \in PriceTables, collectAndPrice(failed, price)
        PROVE  GroupsInv'
    BY <2>2, <2>5 DEF collectAndPrice
  <2>6. CASE Optimize
    BY <2>2, <2>6 DEF Optimize, Error
  <2>7. CASE DryRun
    BY <2>2, <2>7 DEF DryRun
  <2>8. CASE LaunchFirst
    BY <2>2, <2>8 DEF LaunchFirst
  <2>9. ASSUME NEW live \in LivePrices, refreshLaunchPrice(live) PROVE GroupsInv'
    <3>1. UNCHANGED <<req, groups, group>> /\ stage = "planned" /\ stage' \in {"launched", "aborted"}
      BY <2>9 DEF refreshLaunchPrice
    <3> QED BY <3>1, <2>2
  <2>10. CASE UNCHANGED placeVars
    BY <2>0, <2>10 DEF placeVars
  <2> QED BY <2>1, <2>3, <2>4, <2>5, <2>6, <2>7, <2>8, <2>9, <2>10 DEF PlaceNext
<1> QED BY <1>1, <1>2

(* The budget drops none of few and keeps some of many. *)
LEMMA BudgetElements ==
    ASSUME NEW insts \in Seq(InstTypes)
    PROVE  /\ \A k \in DOMAIN Budget(insts) : \E i \in DOMAIN insts : Budget(insts)[k] = insts[i]
           /\ insts # <<>> => Budget(insts) # <<>>
<1> DEFINE order == Sorted(DOMAIN insts, Fewer(insts))
           f == [k \in 1..MaxPriced |-> insts[order[k]]]
<1>1. Len(insts) \in Nat /\ DOMAIN insts = 1..Len(insts) /\ MaxPriced \in Nat \ {0}
  BY LenProperties, PlacementAssumption
<1>2. IsFiniteSet(DOMAIN insts) /\ Cardinality(DOMAIN insts) = Len(insts)
  BY <1>1, FS_Interval
<1>3. order \in [1..Len(insts) -> DOMAIN insts]
  <2> HIDE DEF order
  <2>1. Orders(Fewer(insts), DOMAIN insts)
    BY FewerOrders
  <2> QED BY <2>1, <1>2, SortedOrder DEF order
<1>4. CASE Len(insts) <= MaxPriced
  <2>1. Budget(insts) = insts
    BY <1>4 DEF Budget
  <2> QED BY <2>1, Zenon
<1>5. CASE ~(Len(insts) <= MaxPriced)
  <2>1. Budget(insts) = f
    BY <1>5 DEF Budget
  <2>2. \A k \in 1..MaxPriced : order[k] \in DOMAIN insts
    <3> HIDE DEF order
    <3> QED BY <1>1, <1>3, <1>5
  <2>3. \A k \in DOMAIN f : \E i \in DOMAIN insts : f[k] = insts[i]
    <3> HIDE DEF order
    <3> QED BY <2>2
  <2>4. 1 \in DOMAIN f /\ 1 \notin DOMAIN <<>>
    BY <1>1
  <2> HIDE DEF f
  <2>5. f # <<>>
    BY <2>4
  <2> QED BY <2>1, <2>3, <2>5, Zenon
<1> QED BY <1>4, <1>5

(* What is added for a group are instance types collected for it, and none is added
   only when none was. *)
LEMMA AddedFacts ==
    ASSUME group \in DOMAIN groups, NEW failed, NEW price \in PriceTables
    PROVE  LET added == attachPrices(Budget(Collected(groups[group])), failed, price)
           IN  /\ \A k \in DOMAIN added : Feasible(added[k])
               /\ added = <<>> => NoneFor(group)
<1> DEFINE rs == groups[group]
           insts == Collected(rs)
           added == attachPrices(Budget(insts), failed, price)
           I == {k \in DOMAIN Catalog : Collects(Catalog[k], rs)}
<1>1. Catalog \in Seq(InstTypes)
  BY PlacementAssumption DEF InstTypes
<1>2. /\ insts \in Seq(InstTypes)
      /\ \A k \in DOMAIN insts : \E i \in I : insts[k] = Catalog[i]
      /\ \A i \in I : \E k \in DOMAIN insts : insts[k] = Catalog[i]
  <2>1. I \subseteq DOMAIN Catalog
    OBVIOUS
  <2>2. insts = ElementsAt(Catalog, I)
    BY DEF Collected
  <2> HIDE DEF insts, I
  <2> QED BY <1>1, <2>1, <2>2, ElementsType
<1>3. \A k \in DOMAIN insts : insts[k] \in InstTypes /\ Collects(insts[k], rs)
  <2> HIDE DEF insts
  <2> QED BY <1>2 DEF InstTypes
<1> HIDE DEF insts
<1>4. Budget(insts) \in Seq(InstTypes)
  BY <1>2, BudgetType
<1>5. \A k \in DOMAIN Budget(insts) : Budget(insts)[k] \in InstTypes /\ Collects(Budget(insts)[k], rs)
  BY <1>2, <1>3, BudgetElements
<1>6. DOMAIN added = DOMAIN Budget(insts)
  BY DEF attachPrices
<1>7. ASSUME NEW k \in DOMAIN added PROVE Feasible(added[k])
  <2>1. added[k].inst = Budget(insts)[k] /\ added[k].group = group
    BY <1>6, <1>7 DEF attachPrices
  <2> QED BY <1>5, <1>6, <2>1 DEF Feasible
<1>8. ASSUME added = <<>> PROVE NoneFor(group)
  <2>1. DOMAIN Budget(insts) = {}
    BY <1>6, <1>8
  <2>2. Budget(insts) = <<>>
    BY <1>4, <2>1, EmptySeq
  <2>3. insts = <<>>
    BY <1>2, <2>2, BudgetElements
  <2>4. DOMAIN insts = {}
    BY <2>3
  <2>5. I = {}
    BY <1>2, <2>4
  <2> QED BY <2>5 DEF NoneFor, InstTypes
<1> QED BY <1>7, <1>8 DEF insts

(* The plan has candidates only. *)
LEMMA PlanElements ==
    ASSUME cands \in Seq(Cand), strategy \in Seq({"cost", "time"})
    PROVE  \A k \in DOMAIN rankPlan : \E i \in DOMAIN cands : rankPlan[k] = cands[i]
<1> DEFINE order == Sorted(DOMAIN cands, Better)
           n == IF Len(cands) > MaxCandidates THEN MaxCandidates ELSE Len(cands)
<1>1. Len(cands) \in Nat /\ DOMAIN cands = 1..Len(cands)
  BY LenProperties
<1>2. IsFiniteSet(DOMAIN cands) /\ Cardinality(DOMAIN cands) = Len(cands)
  <2> HIDE DEF order, n
  <2>1. PICK m \in Nat : m = Len(cands)
    BY <1>1
  <2>2. IsFiniteSet(1..m) /\ Cardinality(1..m) = IF 1 > m THEN 0 ELSE m - 1 + 1
    BY FS_Interval
  <2>3. Cardinality(1..m) = m
    BY <2>2
  <2> QED BY <1>1, <2>1, <2>2, <2>3
<1>3. order \in [1..Len(cands) -> DOMAIN cands]
  <2>1. Orders(Better, DOMAIN cands)
    BY BetterOrders
  <2> QED BY <1>2, <2>1, SortedOrder
<1>4. n \in Nat /\ n <= Len(cands)
  BY <1>1, PlacementAssumption
<1> HIDE DEF order, n
<1>5. rankPlan = [k \in 1..n |-> cands[order[k]]]
  BY DEF rankPlan, order, n
<1>6. \A k \in 1..n : order[k] \in DOMAIN cands
  BY <1>1, <1>3, <1>4
<1> QED BY <1>5, <1>6

(* At the start there is nothing to fit. *)
LEMMA FeasibleStart == PlaceInit => FeasibleInv
BY DEF PlaceInit, PlaceStart, FeasibleInv

(* A step that keeps the groups, the candidates and the plan. *)
LEMMA FeasibleFrame ==
    ASSUME FeasibleInv, UNCHANGED <<req, groups, group, cands, plan>>,
           stage' = "error" => stage = "error" \/ group <= Len(groups) \/ cands = <<>>
    PROVE  FeasibleInv'
<1>1. \A c : Feasible(c)' <=> Feasible(c)
  BY FeasibleStays
<1>2. \A g : NoneFor(g)' <=> NoneFor(g)
  BY FeasibleStays
<1> QED BY <1>1, <1>2 DEF FeasibleInv

(* The next group is collected. *)
LEMMA FeasibleCollect ==
    ASSUME MeetInv, NEW failed, NEW price \in PriceTables, collectAndPrice(failed, price)
    PROVE  FeasibleInv'
<1> DEFINE added == attachPrices(Budget(Collected(groups[group])), failed, price)
<1>1. /\ UNCHANGED <<req, stage, groups, plan>> /\ stage = "collect"
      /\ group' = group + 1 /\ cands' = cands \o added /\ group <= Len(groups)
  BY DEF collectAndPrice
<1>2. /\ DOMAIN groups = 1..Len(groups) /\ group \in DOMAIN groups
  BY <1>1, GroupsLen DEF MeetInv, GroupsInv
<1>3. /\ \A k \in DOMAIN added : Feasible(added[k])
      /\ added = <<>> => NoneFor(group)
  BY <1>2, AddedFacts
<1>4. cands \in Seq(Cand) /\ added \in Seq(Cand)
  <2>1. Collected(groups[group]) \in Seq(InstTypes)
    <3>1. Catalog \in Seq(InstTypes)
      BY PlacementAssumption DEF InstTypes
    <3>2. {k \in DOMAIN Catalog : Collects(Catalog[k], groups[group])} \subseteq DOMAIN Catalog
      OBVIOUS
    <3> QED BY <3>1, <3>2, ElementsType DEF Collected
  <2>2. Budget(Collected(groups[group])) \in Seq(InstTypes)
    BY <2>1, BudgetType
  <2>3. group \in Nat
    BY DEF MeetInv, PlaceInv
  <2> QED BY <2>2, <2>3, AttachType DEF MeetInv, PlaceInv
<1> HIDE DEF added
<1>5. ASSUME NEW k \in DOMAIN cands' PROVE Feasible(cands'[k])
  <2>1. /\ Len(cands) \in Nat /\ Len(added) \in Nat /\ DOMAIN cands = 1..Len(cands)
        /\ DOMAIN added = 1..Len(added)
    BY <1>4, LenProperties
  <2>2. /\ DOMAIN cands' = 1..(Len(cands) + Len(added))
        /\ k <= Len(cands) => cands'[k] = cands[k]
        /\ k > Len(cands) => cands'[k] = added[k - Len(cands)]
    BY <1>1, <1>4, <2>1, ConcatProperties
  <2>3. CASE k <= Len(cands)
    <3>1. k \in DOMAIN cands
      BY <2>1, <2>2, <2>3
    <3> QED BY <2>2, <2>3, <3>1 DEF MeetInv, FeasibleInv
  <2>4. CASE k > Len(cands)
    <3>1. k - Len(cands) \in DOMAIN added
      BY <2>1, <2>2, <2>4
    <3> QED BY <1>3, <2>2, <2>4, <3>1
  <2> QED BY <2>1, <2>2, <2>3, <2>4
<1>6. ASSUME cands' = <<>>, NEW g \in DOMAIN groups, g < group'
      PROVE  NoneFor(g)
  <2>1. cands = <<>> /\ added = <<>>
    <3>1. Len(cands) \in Nat /\ Len(added) \in Nat
      BY <1>4, LenProperties
    <3>2. Len(cands') = Len(cands) + Len(added)
      BY <1>1, <1>4, ConcatProperties
    <3>3. Len(cands') = 0
      BY <1>6
    <3>4. Len(cands) = 0 /\ Len(added) = 0
      BY <3>1, <3>2, <3>3
    <3> QED BY <1>4, <3>4, EmptySeq
  <2>2. g = group \/ g < group
    BY <1>1, <1>2, <1>6 DEF MeetInv, GroupsInv
  <2> QED BY <1>3, <1>6, <2>1, <2>2 DEF MeetInv, FeasibleInv
<1>7. \A c : Feasible(c)' <=> Feasible(c)
  BY <1>1, FeasibleStays
<1>8. \A g : NoneFor(g)' <=> NoneFor(g)
  BY <1>1, FeasibleStays
<1> QED BY <1>1, <1>5, <1>6, <1>7, <1>8 DEF MeetInv, FeasibleInv

(* One step per action; the collection and the end of Optimize do the work. *)
LEMMA FeasibleStep ==
    ASSUME MeetInv, [PlaceNext]_placeVars
    PROVE  FeasibleInv'
<1> USE DEF MeetInv
<1>1. CASE Load
  <2>1. PICK gs : gs = Groups(form, req.resources)
    OBVIOUS
  <2>2. /\ UNCHANGED <<req, group, cands, plan>> /\ stage = "load"
        /\ \/ stage' = "error" /\ groups' = groups
           \/ stage' # "error" /\ groups' = gs
    BY <1>1, <2>1 DEF Load, Error
  <2>3. group = 1 /\ cands = <<>> /\ plan = <<>> /\ groups = <<>>
    BY <2>2 DEF GroupsInv
  <2>4. PICK res \in [outer : RawEntry, ordered : Seq(RawEntry)] : res = req.resources
    BY PlacementAssumption DEF GroupsInv
  <2>5. DOMAIN gs = 1..(Len(res.ordered) + 1)
    BY <2>1, <2>4, GroupsAre
  <2>6. ~ \E g \in DOMAIN groups' : g < 1
    BY <2>2, <2>3, <2>5
  <2> QED BY <2>2, <2>3, <2>6 DEF FeasibleInv
<1>2. CASE selectOptimizer
  <2>1. group <= Len(groups)
    BY <1>2, GroupsLen DEF selectOptimizer, GroupsInv
  <2> QED BY <1>2, <2>1, FeasibleFrame DEF selectOptimizer, Error
<1>3. CASE MetaFails
  BY <1>3, FeasibleFrame DEF MetaFails, Error
<1>4. ASSUME NEW failed \in SUBSET Regions, NEW price \in PriceTables, collectAndPrice(failed, price)
      PROVE  FeasibleInv'
  BY <1>4, FeasibleCollect
<1>5. CASE Optimize
  <2>1. CASE cands = <<>> /\ Error
    BY <2>1, FeasibleFrame DEF Error
  <2>2. CASE plan' = rankPlan /\ stage' = "planned" /\ UNCHANGED <<req, groups, group, cands>>
    <3>1. \A c : Feasible(c)' <=> Feasible(c)
      BY <2>2, FeasibleStays
    <3>2. \A g : NoneFor(g)' <=> NoneFor(g)
      BY <2>2, FeasibleStays
    <3>3. cands \in Seq(Cand) /\ strategy \in Seq({"cost", "time"})
      BY DEF PlaceInv
    <3>4. \A k \in DOMAIN cands : cands[k] \in Cand
      BY <3>3, ElementOfSeq, LenProperties
    <3>5. \A k \in DOMAIN plan' : Feasible(plan'[k]) /\ {"inst", "group"} \subseteq DOMAIN plan'[k]
      BY <2>2, <3>3, <3>4, PlanElements DEF FeasibleInv, Cand
    <3> QED BY <2>2, <3>1, <3>2, <3>5 DEF FeasibleInv
  <2> QED BY <1>5, <2>1, <2>2 DEF Optimize
<1>6. CASE DryRun
  BY <1>6, FeasibleFrame DEF DryRun
<1>7. CASE LaunchFirst
  BY <1>7, FeasibleFrame DEF LaunchFirst
<1>8. ASSUME NEW live \in LivePrices, refreshLaunchPrice(live) PROVE FeasibleInv'
  <2>1. PICK p : p = [plan[1] EXCEPT !.od = Or(live.od, @), !.spot = Or(live.spot, @)]
    OBVIOUS
  <2>2. /\ UNCHANGED <<req, groups, group, cands>> /\ stage' # "error"
        /\ plan' = [plan EXCEPT ![1] = p]
    BY <1>8, <2>1, Zenon DEF refreshLaunchPrice
  <2>3. \A c : Feasible(c)' <=> Feasible(c)
    BY <2>2, FeasibleStays
  <2>4. \A g : NoneFor(g)' <=> NoneFor(g)
    BY <2>2, FeasibleStays
  <2>5. \A k \in DOMAIN plan : Feasible(plan[k]) /\ {"inst", "group"} \subseteq DOMAIN plan[k]
    BY DEF FeasibleInv
  <2>6. 1 \in DOMAIN plan => /\ {"inst", "group"} \subseteq DOMAIN p
                             /\ p.inst = plan[1].inst /\ p.group = plan[1].group
    BY <2>1, <2>5
  <2>7. 1 \in DOMAIN plan => Feasible(p)
    BY <2>5, <2>6 DEF Feasible
  <2>8. \A k \in DOMAIN plan' : Feasible(plan'[k]) /\ {"inst", "group"} \subseteq DOMAIN plan'[k]
    BY <2>2, <2>5, <2>6, <2>7
  <2> QED BY <2>2, <2>3, <2>4, <2>8 DEF FeasibleInv
<1>9. CASE UNCHANGED placeVars
  BY <1>9, FeasibleFrame DEF placeVars
<1> QED BY <1>1, <1>2, <1>3, <1>4, <1>5, <1>6, <1>7, <1>8, <1>9 DEF PlaceNext

(* Why the invariant is what the task says. *)
LEMMA MeetMeans ==
    ASSUME MeetInv, LaunchInv
    PROVE  PlanMeetsTask
<1>1. req \in Requests
  BY DEF LaunchInv
<1>2. groups = <<>> \/ groups = Groups(form, req.resources)
  BY DEF MeetInv, GroupsInv
<1>3. PlanIsFeasible
  <2> SUFFICES ASSUME PlainYAML, NEW k \in DOMAIN plan, NEW c, NEW g,
                      c = plan[k].inst, g = plan[k].group
               PROVE  /\ Fits(c, g)
                      /\ ~CloudIsLost(g) => CloudKept(c, g)
                      /\ ~RegionIsLost(g) => RegionKept(c, g)
    BY DEF PlanIsFeasible
  <2>1. Feasible(plan[k])
    BY DEF MeetInv, FeasibleInv
  <2>2. groups = Groups(form, req.resources)
    BY <1>2, <2>1 DEF Feasible
  <2>3. c \in InstTypes /\ g \in DOMAIN groups /\ Collects(c, groups[g])
    BY <2>1 DEF Feasible
  <2>4. form = "yaml"
    BY DEF PlainYAML
  <2> QED BY <1>1, <2>2, <2>3, <2>4, CollectsFits, PinsMean
<1>4. NoPlanOnlyIfNoneFits
  <2> SUFFICES ASSUME PlainYAML, stage = "error", group > Len(groups),
                      NEW i \in DOMAIN Catalog, NEW k \in DOMAIN groups,
                      ~CloudIsLost(k), ~RegionIsLost(k), Fits(Catalog[i], k),
                      CloudKept(Catalog[i], k), RegionKept(Catalog[i], k)
               PROVE  FALSE
    BY DEF NoPlanOnlyIfNoneFits
  <2>1. groups = Groups(form, req.resources) /\ groups # <<>>
    BY <1>2
  <2>2. DOMAIN groups = 1..Len(groups) /\ Len(groups) \in Nat /\ group \in Nat
    BY <1>1, <2>1, GroupsLen DEF MeetInv, GroupsInv
  <2>3. cands = <<>> /\ k < group
    BY <2>1, <2>2 DEF MeetInv, FeasibleInv
  <2>4. NoneFor(k)
    BY <2>3 DEF MeetInv, FeasibleInv
  <2>5. Catalog[i] \in InstTypes
    BY DEF InstTypes
  <2>6. Collects(Catalog[i], groups[k])
    <3>1. form = "yaml"
      BY DEF PlainYAML
    <3>2. /\ cloudFilter # {} => Catalog[i].cloud \in cloudFilter
          /\ \A r \in regionFilter(groups[k]) : Catalog[i].region = r
      BY <1>1, <2>1, <3>1, PinsMean
    <3> QED BY <1>1, <2>1, <2>5, <3>2, CollectsFits
  <2> QED BY <2>4, <2>5, <2>6 DEF NoneFor
<1>5. LaunchIsSound
  BY DEF LaunchIsSound, LaunchInv, SoundTask
<1>6. RangesRoundTrip
  <2>1. CASE groups = <<>>
    BY <2>1 DEF RangesRoundTrip
  <2> QED BY <1>1, <1>2, <2>1, RangesAreRead
<1> QED BY <1>3, <1>4, <1>5, <1>6 DEF PlanMeetsTask

(* For every catalogue, request and price: a plan of a YAML task has only placements
   that have the machine the task says, in the cloud and region asked for by the flag,
   else by the task, else by the configuration, except where the code loses the task's
   (CloudIsLost, RegionIsLost); no plan means that no instance type has it, what is
   launched has a node and a configured backend, and a range that is written is read
   again as the same range (matchesResources, SetDefaults, ParseRange, String). *)
THEOREM PlanMeetsItsTask == PlaceSpec => []PlanMeetsTask
<1> DEFINE Inv == MeetInv /\ LaunchInv
<1>1. PlaceInit => Inv
  BY PlaceStep, GroupsStep, LaunchStep, FeasibleStart DEF MeetInv
<1>2. Inv /\ [PlaceNext]_placeVars => Inv'
  BY PlaceStep, GroupsStep, LaunchStep, FeasibleStep DEF MeetInv
<1>3. Inv => PlanMeetsTask
  BY MeetMeans
<1> HIDE DEF Inv
<1> QED BY <1>1, <1>2, <1>3, PTL DEF PlaceSpec

-----------------------------------------------------------------------------
(* Schedule: a field that is accepted has the values it means, and so the next run is
   the first minute that the expression means. *)

(* The multiples of a step. *)
LEMMA Multiples ==
    ASSUME NEW a \in Nat, NEW d \in Nat \ {0}
    PROVE  a % d = 0 <=> \E k \in 0..a : a = k * d
<1>1. ASSUME a % d = 0 PROVE \E k \in 0..a : a = k * d
  <2>1. PICK k \in Nat : k = a \div d
    OBVIOUS
  <2>2. a = k * d
    BY <1>1, <2>1
  <2>3. k <= k * d
    OBVIOUS
  <2> QED BY <2>2, <2>3
<1>2. ASSUME NEW k \in 0..a, a = k * d PROVE a % d = 0
  <2>1. PICK q \in Int, r \in 0..(d - 1) : a = d * q + r /\ r = a % d
    <3>1. a \div d \in Int /\ a % d \in 0..(d - 1) /\ a = d * (a \div d) + (a % d)
      OBVIOUS
    <3> QED BY <3>1
  <2>2. PICK e \in Int : e = k - q
    OBVIOUS
  <2>3. e * d = r
    <3>1. e * d = k * d - q * d /\ q * d = d * q
      BY <2>2
    <3>2. k * d \in Int /\ q * d \in Int
      OBVIOUS
    <3> QED BY <1>2, <2>1, <3>1, <3>2
  <2>4. e >= 1 => e * d >= d
    OBVIOUS
  <2>5. e <= -1 => e * d < 0
    OBVIOUS
  <2>6. e = 0
    BY <2>1, <2>3, <2>4, <2>5
  <2> QED BY <2>1, <2>3, <2>6
<1> QED BY <1>1, <1>2

(* A field that starts at 0 has no value beyond the minutes of an hour, those of a star. *)
LEMMA FieldRangeType ==
    ASSUME NEW i \in 1..5
    PROVE  /\ FieldRange(i) \subseteq Nat
           /\ 0 \in FieldRange(i) => FieldRange(i) \subseteq 0..(Radix.minute - 1)
<1>1. /\ Radix["minute"] \in Nat \ {0} /\ Radix["hour"] \in Nat \ {0} /\ Radix["day"] \in Nat \ {0}
      /\ Radix["month"] \in Nat \ {0} /\ Radix["weekday"] \in Nat \ {0}
      /\ Radix.hour <= Radix.minute /\ Radix.weekday <= Radix.minute
  BY ScheduleAssumption
<1>2. i = 1 \/ i = 2 \/ i = 3 \/ i = 4 \/ i = 5
  OBVIOUS
<1> QED BY <1>1, <1>2 DEF FieldRange

(* The smallest of a set is its only element that is not above another. *)
LEMMA MinZero ==
    ASSUME NEW S \in SUBSET Nat, 0 \in S
    PROVE  Min(S) = 0
<1>1. \E x \in S : \A y \in S : x <= y
  OBVIOUS
<1>2. Min(S) \in S /\ \A y \in S : Min(S) <= y
  BY <1>1 DEF Min
<1>3. PICK m \in S : m = Min(S) /\ \A y \in S : m <= y
  BY <1>2
<1>4. m \in Nat /\ m <= 0
  BY <1>3
<1> QED BY <1>3, <1>4

(* A part of a field that is accepted has the values it means. *)
LEMMA PartMeans ==
    ASSUME NEW i \in 1..5, NEW p \in Parts, Step(p) >= 1, PartValues(p) \subseteq FieldRange(i),
           NEW v \in FieldRange(i)
    PROVE  v \in PartValues(p) <=> v \in Denoted(i, p)
<1>0. v \in Nat /\ Step(p) \in Nat \ {0} /\ p.lo \in Nat /\ p.hi \in Int /\ p.star \in BOOLEAN
  BY FieldRangeType DEF Step, Parts, NoStep
<1>1. CASE p.star
  <2>1. PartValues(p) = {w \in 0..(Radix.minute - 1) : (w - 0) % Step(p) = 0}
    BY <1>1 DEF PartValues
  <2>2. Radix["minute"] \in Nat \ {0}
    BY ScheduleAssumption
  <2>3. 0 \in PartValues(p)
    <3>1. 0 % Step(p) = 0
      BY <1>0
    <3> QED BY <2>1, <2>2, <3>1
  <2>4. 0 \in FieldRange(i) /\ FieldRange(i) \subseteq 0..(Radix.minute - 1) /\ FieldRange(i) \subseteq Nat
    BY <2>3, FieldRangeType
  <2>5. Min(FieldRange(i)) = 0
    BY <2>4, MinZero
  <2>6. Denoted(i, p) = {w \in FieldRange(i) : (w - 0) % Step(p) = 0}
    BY <1>1, <2>5 DEF Denoted
  <2> QED BY <2>1, <2>4, <2>6
<1>2. CASE ~p.star
  <2>1. v \in PartValues(p) <=> v \in p.lo..p.hi /\ (v - p.lo) % Step(p) = 0
    BY <1>2 DEF PartValues
  <2>2. v \in Denoted(i, p) <=> \E k \in 0..p.hi : v = p.lo + k * Step(p) /\ v <= p.hi
    BY <1>2 DEF Denoted
  <2> DEFINE d == Step(p)
             l == p.lo
             h == p.hi
  <2>3. d \in Nat \ {0} /\ l \in Nat /\ h \in Int
    BY <1>0
  <2> HIDE DEF d, l, h
  <2>4. ASSUME v \in l..h, (v - l) % d = 0 PROVE \E k \in 0..h : v = l + k * d /\ v <= h
    <3>1. PICK a \in Nat : a = v - l
      BY <2>3, <2>4, <1>0
    <3>2. PICK k \in 0..a : a = k * d
      BY <2>3, <2>4, <3>1, Multiples
    <3>3. k \in 0..h /\ k * d \in Int
      BY <2>3, <2>4, <3>1
    <3>4. v = l + k * d
      BY <2>3, <3>1, <3>2, <3>3, <1>0
    <3> QED BY <3>3, <3>4, <2>3, <2>4
  <2>5. ASSUME NEW k \in 0..h, v = l + k * d, v <= h PROVE v \in l..h /\ (v - l) % d = 0
    <3>1. k \in Nat
      BY <2>3
    <3>2. PICK a \in Nat : a = k * d
      BY <2>3, <3>1
    <3>3. v = l + a /\ v - l = a
      BY <2>3, <2>5, <3>2
    <3>4. k <= a
      BY <2>3, <3>1, <3>2
    <3>5. a % d = 0
      BY <2>3, <3>1, <3>2, <3>4, Multiples
    <3> QED BY <2>3, <2>5, <3>3, <3>5, <1>0
  <2> QED BY <2>1, <2>2, <2>4, <2>5 DEF d, l, h
<1> QED BY <1>0, <1>1, <1>2

(* Five fields are five fields of parts. *)
LEMMA FieldsType ==
    ASSUME NEW spec \in Specs, IsCron(spec)
    PROVE  Len(Fields(spec)) = 5 => Fields(spec) \in [1..5 -> Seq(Parts)]
<1>1. /\ spec.kind = "cron" => spec.fields \in Seq(Seq(Parts))
      /\ spec.kind = "named" =>
           spec.name \in {"minutely", "hourly", "daily", "midnight", "weekly", "monthly"}
  BY ScheduleAssumption
<1>2. CASE spec.kind = "cron"
  <2>1. Fields(spec) \in Seq(Seq(Parts))
    BY <1>1, <1>2 DEF Fields
  <2>2. Fields(spec) \in [1..Len(Fields(spec)) -> Seq(Parts)]
    BY <2>1, LenProperties
  <2> QED BY <2>2, <1>2
<1>3. CASE spec.kind = "named"
  <2>1. /\ Star \in Seq(Parts)
        /\ Only(0) \in Seq(Parts) /\ Only(1) \in Seq(Parts)
    BY DEF Star, Only, Parts, NoStep
  <2>2. Fields(spec) = Named[spec.name]
    BY <1>3 DEF Fields
  <2>3. Named[spec.name] \in [1..5 -> Seq(Parts)]
    <3>1. spec.name \in {"minutely", "hourly", "daily", "midnight", "weekly", "monthly"}
      BY <1>1, <1>3
    <3>2. \A a, b, c, d, e \in Seq(Parts) : <<a, b, c, d, e>> \in [1..5 -> Seq(Parts)]
      OBVIOUS
    <3> QED BY <3>1, <3>2, <2>1 DEF Named
  <2> QED BY <2>2, <2>3, <1>3
<1> QED BY <1>2, <1>3 DEF IsCron

(* A field that is accepted contains the values it means. *)
LEMMA FieldMeans ==
    ASSUME NEW i \in 1..5, NEW F \in Seq(Parts), ~parseField(i, F).err, NEW v \in FieldRange(i)
    PROVE  contains(parseField(i, F), v) <=> \E k \in DOMAIN F : v \in Denoted(i, F[k])
<1> DEFINE parts == {F[k] : k \in DOMAIN F}
<1>1. \A k \in DOMAIN F : F[k] \in Parts
  BY ElementOfSeq, LenProperties
<1>2. CASE IsStar(F)
  <2>1. contains(parseField(i, F), v)
    BY <1>2 DEF parseField, contains
  <2>2. 1 \in DOMAIN F /\ F[1].star /\ Step(F[1]) = 1
    BY <1>2, LenProperties DEF IsStar, Step
  <2>3. FieldRange(i) \subseteq Nat
    BY FieldRangeType
  <2>4. Min(FieldRange(i)) \in Int
    <3> DEFINE S == FieldRange(i)
    <3>1. S \subseteq Nat /\ S # {}
      BY <2>3
    <3> HIDE DEF S
    <3>2. \E m \in S : \A k \in S : m <= k
      BY <3>1, LeastNat
    <3>3. Min(S) \in S
      BY <3>2 DEF Min
    <3> QED BY <3>1, <3>3 DEF S
  <2>5. v \in Denoted(i, F[1])
    <3>1. (v - Min(FieldRange(i))) % 1 = 0
      BY <2>3, <2>4
    <3> QED BY <2>2, <3>1 DEF Denoted
  <2> QED BY <2>1, <2>2, <2>5
<1>3. CASE ~IsStar(F)
  <2>1. ~ \E p \in parts : ~p.ok \/ Step(p) < 1 \/ ~(PartValues(p) \subseteq FieldRange(i))
    BY <1>3 DEF parseField
  <2>2. parseField(i, F) = [err |-> FALSE, any |-> FALSE, vals |-> UNION {PartValues(p) : p \in parts}]
    <3> DEFINE bad == \E p \in parts : ~p.ok \/ Step(p) < 1 \/ ~(PartValues(p) \subseteq FieldRange(i))
    <3>1. ~bad
      BY <2>1
    <3> QED BY <1>3, <3>1 DEF parseField
  <2>3. contains(parseField(i, F), v) <=> \E k \in DOMAIN F : v \in PartValues(F[k])
    BY <2>2 DEF contains
  <2>4. ASSUME NEW k \in DOMAIN F PROVE v \in PartValues(F[k]) <=> v \in Denoted(i, F[k])
    <3>1. F[k] \in Parts /\ ~(Step(F[k]) < 1) /\ PartValues(F[k]) \subseteq FieldRange(i)
      BY <1>1, <2>1
    <3>2. Step(F[k]) \in Int
      BY <3>1 DEF Step, Parts, NoStep
    <3>3. Step(F[k]) >= 1
      BY <3>1, <3>2
    <3> QED BY <3>1, <3>3, PartMeans
  <2> QED BY <2>3, <2>4
<1> QED BY <1>2, <1>3

(* What the clock shows is in the range of its field. *)
LEMMA ClockType ==
    ASSUME NEW t \in Nat, NEW i \in 1..5
    PROVE  Clock(t)[i] \in FieldRange(i)
<1>1. /\ Radix["minute"] \in Nat \ {0} /\ Radix["hour"] \in Nat \ {0} /\ Radix["day"] \in Nat \ {0}
      /\ Radix["month"] \in Nat \ {0} /\ Radix["weekday"] \in Nat \ {0}
  BY ScheduleAssumption
<1>2. \A a \in Nat, d \in Nat \ {0} : a % d \in 0..(d - 1) /\ a \div d \in Nat
  OBVIOUS
<1>3. PICK n \in Nat \ {0} : n = Radix.minute * Radix.hour
  BY <1>1
<1>4. PICK days \in Nat : days = t \div n
  BY <1>2
<1>5. PICK hours \in Nat : hours = t \div Radix.minute
  BY <1>1, <1>2
<1>6. PICK months \in Nat : months = days \div Radix.day
  BY <1>1, <1>2
<1>7. Clock(t) = <<t % Radix.minute, hours % Radix.hour, 1 + (days % Radix.day),
                   1 + (months % Radix.month), days % Radix.weekday>>
  BY <1>3, <1>4, <1>5, <1>6, Zenon DEF Clock
<1>8. /\ t % Radix.minute \in 0..(Radix.minute - 1)
      /\ hours % Radix.hour \in 0..(Radix.hour - 1)
      /\ days % Radix.day \in 0..(Radix.day - 1)
      /\ months % Radix.month \in 0..(Radix.month - 1)
      /\ days % Radix.weekday \in 0..(Radix.weekday - 1)
  BY <1>1, <1>2
<1>9. /\ 1 + (days % Radix.day) \in 1..Radix.day
      /\ 1 + (months % Radix.month) \in 1..Radix.month
  BY <1>1, <1>8
<1>10. i = 1 \/ i = 2 \/ i = 3 \/ i = 4 \/ i = 5
  OBVIOUS
<1>11. CASE i = 1
  <2>1. Clock(t)[i] = t % Radix.minute
    BY <1>7, <1>11
  <2> QED BY <2>1, <1>8, <1>11 DEF FieldRange
<1>12. CASE i = 2
  <2>1. Clock(t)[i] = hours % Radix.hour
    BY <1>7, <1>12
  <2> QED BY <2>1, <1>8, <1>12 DEF FieldRange
<1>13. CASE i = 3
  <2>1. Clock(t)[i] = 1 + (days % Radix.day)
    BY <1>7, <1>13
  <2> QED BY <2>1, <1>9, <1>13 DEF FieldRange
<1>14. CASE i = 4
  <2>1. Clock(t)[i] = 1 + (months % Radix.month)
    BY <1>7, <1>14
  <2> QED BY <2>1, <1>9, <1>14 DEF FieldRange
<1>15. CASE i = 5
  <2>1. Clock(t)[i] = days % Radix.weekday
    BY <1>7, <1>15
  <2> QED BY <2>1, <1>8, <1>15 DEF FieldRange
<1> QED BY <1>10, <1>11, <1>12, <1>13, <1>14, <1>15

(* An expression that is accepted matches the minutes it means. *)
LEMMA MatchMeans ==
    ASSUME NEW spec \in Specs, IsCron(spec), ~parseSchedule(spec).err, NEW t \in Nat
    PROVE  match(parseSchedule(spec).sched, t) <=> Means(spec, t)
<1> DEFINE fs == [i \in 1..5 |-> parseField(i, Fields(spec)[i])]
<1>1. Len(Fields(spec)) = 5
  <2>1. CASE Len(Fields(spec)) # 5
    <3>1. parseSchedule(spec).err
      BY <2>1 DEF parseSchedule, IsCron
    <3> QED BY <3>1
  <2> QED BY <2>1
<1>2. spec.kind # "every"
  BY DEF IsCron
<1>3. parseSchedule(spec) = [err |-> \E i \in 1..5 : fs[i].err, dur |-> 0, sched |-> fs]
  BY <1>1, <1>2 DEF parseSchedule
<1>4. Fields(spec) \in [1..5 -> Seq(Parts)]
  BY <1>1, FieldsType
<1>5. ASSUME NEW i \in 1..5
      PROVE  contains(fs[i], Clock(t)[i]) <=>
               \E k \in DOMAIN Fields(spec)[i] : Clock(t)[i] \in Denoted(i, Fields(spec)[i][k])
  <2>1. fs[i] = parseField(i, Fields(spec)[i])
    OBVIOUS
  <2>2. ~fs[i].err
    <3> HIDE DEF fs
    <3> QED BY <1>3
  <2>3. PICK v \in FieldRange(i) : v = Clock(t)[i]
    BY ClockType
  <2>4. PICK F \in Seq(Parts) : F = Fields(spec)[i]
    BY <1>4
  <2>5. contains(parseField(i, F), v) <=> \E k \in DOMAIN F : v \in Denoted(i, F[k])
    BY <2>1, <2>2, <2>4, FieldMeans
  <2> QED BY <2>1, <2>3, <2>4, <2>5
<1>6. parseSchedule(spec).sched = fs
  BY <1>3
<1> HIDE DEF fs
<1> QED BY <1>5, <1>6 DEF match, Means

(* So the next run is the first minute that the expression means. *)
LEMMA NextMeans ==
    ASSUME NEW spec \in Specs, IsCron(spec), ~parseSchedule(spec).err, NEW from \in Nat
    PROVE  next(parseSchedule(spec).sched, from) =
             LET hits == {t \in (from + 1)..(from + Horizon) : Means(spec, t)}
             IN  IF hits = {} THEN 0 ELSE Min(hits)
<1>1. \A t \in (from + 1)..(from + Horizon) : t \in Nat
  BY ScheduleAssumption
<1>2. {t \in (from + 1)..(from + Horizon) : match(parseSchedule(spec).sched, t)}
        = {t \in (from + 1)..(from + Horizon) : Means(spec, t)}
  BY <1>1, MatchMeans
<1> QED BY <1>2, Zenon DEF next

(* A cron expression has no duration and a schedule. *)
LEMMA AcceptedCron ==
    ASSUME NEW spec, IsCron(spec), ~parseSchedule(spec).err
    PROVE  parseSchedule(spec).dur = 0 /\ parseSchedule(spec).sched # <<>>
<1> DEFINE fs == [i \in 1..5 |-> parseField(i, Fields(spec)[i])]
<1>1. spec.kind # "every"
  BY DEF IsCron
<1>2. Len(Fields(spec)) = 5
  <2>1. CASE Len(Fields(spec)) # 5
    <3>1. parseSchedule(spec).err
      BY <2>1, <1>1 DEF parseSchedule
    <3> QED BY <3>1
  <2> QED BY <2>1
<1>3. parseSchedule(spec) = [err |-> \E i \in 1..5 : fs[i].err, dur |-> 0, sched |-> fs]
  BY <1>1, <1>2 DEF parseSchedule
<1>4. fs # <<>>
  <2>1. 1 \in DOMAIN fs /\ 1 \notin DOMAIN <<>>
    OBVIOUS
  <2> HIDE DEF fs
  <2> QED BY <2>1
<1> HIDE DEF fs
<1> QED BY <1>3, <1>4

(* A job that was never rescheduled has no planned run; a cron job that was has the
   run that next gave. *)
SchedInv ==
    /\ minute \in Nat
    /\ planned \in Int
    /\ job = [spec |-> job.spec, status |-> job.status, next |-> job.next]
    /\ IsCron(job.spec) => job.spec \in Specs /\ ~parseSchedule(job.spec).err
    /\ job = NoJob => planned = -1
    /\ (IsCron(job.spec) /\ planned >= 0 /\ job.status \in {"registered", "stopped"}) =>
         job.next = next(parseSchedule(job.spec).sched, planned)

(* The next run of a scheduled job is the first minute that its expression means:
   parsing and searching of cron.go, for every expression and every calendar. *)
THEOREM NextRunIsEarliest == SchedSpec => []NextIsEarliest
<1>1. SchedInit => SchedInv
  BY DEF SchedInit, SchedInv, NoJob, IsCron
<1>2. SchedInv /\ [SchedNext]_schedVars => SchedInv'
  <2> SUFFICES ASSUME SchedInv, [SchedNext]_schedVars PROVE SchedInv'
    OBVIOUS
  <2>1. ASSUME NEW spec \in Specs, Submit(spec) PROVE SchedInv'
    <3>1. /\ planned = -1 /\ planned' = -1 /\ minute' = minute
          /\ ~parseSchedule(spec).err
      BY <2>1 DEF Submit, SchedInv
    <3>2. PICK n : job' = [spec |-> spec, status |-> "registered", next |-> n]
      BY <2>1 DEF Submit
    <3> QED BY <3>1, <3>2 DEF SchedInv
  <2>2. CASE Due
    <3>1. /\ job' = [job EXCEPT !.status = "running"]
          /\ job.status # "none" /\ UNCHANGED <<minute, planned>>
      BY <2>2 DEF Due
    <3>2. job' = [spec |-> job.spec, status |-> "running", next |-> job.next]
      BY <3>1 DEF SchedInv
    <3> QED BY <3>1, <3>2 DEF SchedInv, NoJob
  <2>3. CASE Reschedule
    <3>1. /\ planned' = minute /\ minute' = minute /\ job.status = "running"
      BY <2>3 DEF Reschedule
    <3>2. PICK t : t = next(parseSchedule(job.spec).sched, minute)
      OBVIOUS
    <3>3. CASE IsCron(job.spec)
      <4> DEFINE p == parseSchedule(job.spec)
                 d == p.dur
                 sched == p.sched
                 onTime == IF d > 0 THEN minute + d ELSE next(sched, minute)
      <4>1. d = 0 /\ sched # <<>>
        BY <3>3, AcceptedCron DEF SchedInv
      <4>2. job' = CASE d <= 0 /\ sched = <<>> -> [job EXCEPT !.status = "panic"]
                     [] onTime = 0 -> [job EXCEPT !.status = "stopped", !.next = 0]
                     [] OTHER -> [job EXCEPT !.status = "registered", !.next = onTime]
        BY <2>3, Zenon DEF Reschedule
      <4>3. onTime = t
        BY <3>2, <4>1
      <4> HIDE DEF d, sched, onTime, p
      <4>4. job' = IF t = 0 THEN [job EXCEPT !.status = "stopped", !.next = 0]
                            ELSE [job EXCEPT !.status = "registered", !.next = t]
        BY <4>1, <4>2, <4>3
      <4>5. job' = [spec |-> job.spec, status |-> IF t = 0 THEN "stopped" ELSE "registered", next |-> t]
        BY <4>4 DEF SchedInv
      <4> QED BY <3>1, <3>2, <3>3, <4>5 DEF SchedInv, NoJob
    <3>4. CASE ~IsCron(job.spec)
      <4>1. PICK m : job' \in {[job EXCEPT !.status = "panic"],
                               [job EXCEPT !.status = "stopped", !.next = 0],
                               [job EXCEPT !.status = "registered", !.next = m]}
        BY <2>3 DEF Reschedule
      <4>2. PICK s, n : job' = [spec |-> job.spec, status |-> s, next |-> n] /\ s # "none"
        BY <4>1 DEF SchedInv
      <4> QED BY <3>1, <3>4, <4>2 DEF SchedInv, NoJob
    <3> QED BY <3>3, <3>4
  <2>4. CASE NextMinute
    <3>1. minute' = minute + 1 /\ UNCHANGED <<job, planned>>
      BY <2>4 DEF NextMinute
    <3> QED BY <3>1 DEF SchedInv
  <2>5. CASE UNCHANGED schedVars
    BY <2>5 DEF schedVars, SchedInv
  <2> QED BY <2>1, <2>2, <2>3, <2>4, <2>5 DEF SchedNext
<1>3. SchedInv => NextIsEarliest
  <2> SUFFICES ASSUME SchedInv, IsCron(job.spec), planned >= 0,
                      job.status \in {"registered", "stopped"}
               PROVE  job.next = LET hits == {t \in (planned + 1)..(planned + Horizon) : Means(job.spec, t)}
                                 IN  IF hits = {} THEN 0 ELSE Min(hits)
    BY DEF NextIsEarliest
  <2>1. /\ job.next = next(parseSchedule(job.spec).sched, planned)
        /\ job.spec \in Specs /\ ~parseSchedule(job.spec).err /\ planned \in Nat
    BY DEF SchedInv
  <2> QED BY <2>1, NextMeans, Zenon
<1> QED BY <1>1, <1>2, <1>3, PTL DEF SchedSpec
=============================================================================
