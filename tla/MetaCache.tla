----------------------------- MODULE MetaCache -----------------------------
(***************************************************************************)
(* internal/metacache: the cache of instance specs, regions and prices,    *)
(* and its reader attachPrices of internal/optimizer.  A call looks up its *)
(* entry under the lock, fetches WITHOUT it, and stores under it again, so *)
(* calls overlap; the prices of an entry are a Go map, shared by reference *)
(* with every caller it was returned to.                                   *)
(*                                                                         *)
(* One cloud and region: keys are independent.  The data a source answers  *)
(* with is the time of the answer, so its age can be told.  A source may   *)
(* leave types it has no price for out of its answer, without an error.    *)
(***************************************************************************)
EXTENDS Naturals, FiniteSets

CONSTANTS
    Callers,     \* goroutines, each making one call
    Types,       \* instance types
    Asks,        \* the sets of types that callers ask prices for
    Nil,         \* no entry, no map, no price, no failure
    SpecsTTL, PriceTTL, Backoff,   \* in ticks
    MaxTime,         \* bound: ticks
    MaxFetchFaults   \* bound: fetches that fail

ASSUME MetaCacheAssumption ==
    /\ Asks \subseteq SUBSET Types
    /\ {SpecsTTL, PriceTTL, Backoff, MaxTime, MaxFetchFaults} \subseteq Nat

VARIABLES
    now,          \* the clock
    specs,        \* Cache.specs and Cache.regions: the entries
    prices,       \* Cache.prices: the entry
    heap,         \* the maps of prices, each named by the caller that made it
    call,         \* the calls
    fetchFaults   \* failed fetches so far

cacheVars == <<now, specs, prices, heap, call, fetchFaults>>

Kind == {"specs", "regions", "prices", "forced"}

Time == 0..MaxTime

SpecEntry == [data : Time, fetched : Time]

(* The ghost `got' are the types in the answer that `fetched' is the time of. *)
PriceEntry ==
    [map : Callers, fetched : Time, failedAt : Time \cup {Nil}, got : SUBSET Types]

Call ==
    [pc    : {"idle", "fetch", "store", "read", "done"},
     kind  : Kind \cup {"none"},
     types : SUBSET Types,                       \* asked for; then, answered
     at    : Time,                               \* of the look-up
     entry : SpecEntry \cup PriceEntry \cup {Nil},   \* that was looked up
     fresh : Time \cup {Nil},                   \* the answer of the fetch
     map   : Callers \cup {Nil},                \* what it was given to read
     err   : BOOLEAN]                            \* the fetch failed

ASSUME NilIsApart == Nil \notin Time \cup SpecEntry \cup PriceEntry

NoCall == [pc |-> "idle", kind |-> "none", types |-> {}, at |-> 0, entry |-> Nil,
           fresh |-> Nil, map |-> Nil, err |-> FALSE]

(* What a call returned is its caller's; only attachPrices reads it later. *)
Done == [NoCall EXCEPT !.pc = "done"]

CacheTypeOK ==
    /\ now \in Time
    /\ specs \in [{"specs", "regions"} -> SpecEntry \cup {Nil}]
    /\ prices \in PriceEntry \cup {Nil}
    /\ heap \in [Callers -> [Types -> Time \cup {Nil}]]
    /\ call \in [Callers -> Call]
    /\ fetchFaults \in 0..MaxFetchFaults

CacheInit ==
    /\ now = 0
    /\ specs = [k \in {"specs", "regions"} |-> Nil]
    /\ prices = Nil
    /\ heap = [c \in Callers |-> [t \in Types |-> Nil]]
    /\ call = [c \in Callers |-> NoCall]
    /\ fetchFaults = 0

-----------------------------------------------------------------------------
(* The entry is there and not older than its TTL. *)
Fresh(entry, ttl) == entry # Nil /\ now - entry.fetched <= ttl

(* Instances, Regions: a hit, or the start of a fetch with the entry and the
   time of the look-up in hand. *)
LookupSpecs(c, k) ==
    LET started == [NoCall EXCEPT !.pc = "fetch", !.kind = k, !.at = now, !.entry = specs[k]]
    IN  /\ call[c].pc = "idle"
        /\ call' = [call EXCEPT ![c] =
             IF Fresh(specs[k], SpecsTTL) THEN Done ELSE started]
        /\ UNCHANGED <<now, specs, prices, heap, fetchFaults>>

(* Prices answers from the entry while it is fresh, or when a fetch failed a
   moment ago; PricesForced never does. *)
Answers(k) ==
    /\ k = "prices"
    /\ \/ Fresh(prices, PriceTTL)
       \/ prices # Nil /\ prices.failedAt # Nil /\ now - prices.failedAt < Backoff

(* Prices, PricesForced: the map of the entry, or the start of a fetch. *)
LookupPrices(c, k, ts) ==
    LET started == [NoCall EXCEPT !.pc = "fetch", !.kind = k, !.at = now, !.entry = prices,
                                  !.types = ts]
    IN  /\ call[c].pc = "idle"
        /\ call' = [call EXCEPT ![c] =
             IF Answers(k)
             THEN [NoCall EXCEPT !.pc = "read", !.kind = k, !.map = prices.map]
             ELSE started]
        /\ UNCHANGED <<now, specs, prices, heap, fetchFaults>>

(* FetchSpecs, Regions, FetchPrices of the cloud's source: no lock is held.  The
   answer has the prices of some of the types asked for, also of none. *)
Fetch(c) ==
    /\ call[c].pc = "fetch"
    /\ \/ /\ \E ts \in SUBSET call[c].types :
                call' = [call EXCEPT ![c].pc = "store", ![c].fresh = now, ![c].types = ts]
          /\ UNCHANGED fetchFaults
       \/ /\ fetchFaults < MaxFetchFaults
          /\ fetchFaults' = fetchFaults + 1
          /\ call' = [call EXCEPT ![c].pc = "store", ![c].err = TRUE]
    /\ UNCHANGED <<now, specs, prices, heap>>

(* Instances, Regions after the fetch: the entry gets the time of the look-up,
   whatever was stored since; an error leaves it. *)
StoreSpecs(c) ==
    LET k == call[c].kind
    IN  /\ call[c].pc = "store" /\ k \in {"specs", "regions"}
        /\ specs' = IF call[c].err THEN specs
                    ELSE [specs EXCEPT ![k] = [data |-> call[c].fresh,
                                               fetched |-> call[c].at]]
        /\ call' = [call EXCEPT ![c] = Done]
        /\ UNCHANGED <<now, prices, heap, fetchFaults>>

(* Mutant: the answer replaces the prices that were there. *)
MergeIntoNew(c) == c

(* The map an entry's prices are merged into: its own, or a new one. *)
MergeInto(c) == IF call[c].entry = Nil THEN c ELSE call[c].entry.map

(* Mutant: the entry gets the time of the store. *)
PricesMergedLate(c) ==
    [map |-> MergeInto(c), fetched |-> now, failedAt |-> Nil, got |-> call[c].types]

(* The entry after a fetch: all of it is stamped with the time of the look-up,
   the prices of types that were not in the answer too. *)
PricesMerged(c) ==
    [map |-> MergeInto(c), fetched |-> call[c].at, failedAt |-> Nil, got |-> call[c].types]

(* The entry after a fetch that failed: the one that was LOOKED UP is written
   back, with the time of the look-up as the time of the failure. *)
PricesFailed(c) ==
    IF call[c].entry = Nil THEN prices
    ELSE [call[c].entry EXCEPT !.failedAt = call[c].at]

(* Prices, PricesForced after the fetch: the answer is written into the map of
   the entry that was looked up, which earlier callers may still be reading. *)
StorePrices(c) ==
    LET m == MergeInto(c)
        old == IF call[c].entry = Nil THEN Nil ELSE call[c].entry.map
    IN  /\ call[c].pc = "store" /\ call[c].kind \in {"prices", "forced"}
        /\ IF call[c].err
           THEN /\ prices' = PricesFailed(c)
                /\ call' = [call EXCEPT ![c] =
                     [NoCall EXCEPT !.pc = "read", !.kind = call[c].kind, !.map = old]]
                /\ UNCHANGED heap
           ELSE /\ heap' = [heap EXCEPT ![m] =
                     [t \in Types |-> IF t \in call[c].types THEN call[c].fresh ELSE @[t]]]
                /\ prices' = PricesMerged(c)
                /\ call' = [call EXCEPT ![c] =
                     [NoCall EXCEPT !.pc = "read", !.kind = call[c].kind, !.map = m]]
        /\ UNCHANGED <<now, specs, fetchFaults>>

(* attachPrices reads the map it was given, without the lock; it uses nothing
   when there was an error. *)
ReadPrices(c) ==
    /\ call[c].pc = "read"
    /\ call' = [call EXCEPT ![c] = Done]
    /\ UNCHANGED <<now, specs, prices, heap, fetchFaults>>

Tick ==
    /\ now < MaxTime
    /\ now' = now + 1
    /\ UNCHANGED <<specs, prices, heap, call, fetchFaults>>

CacheNext ==
    \/ \E c \in Callers, k \in {"specs", "regions"} : LookupSpecs(c, k)
    \/ \E c \in Callers, k \in {"prices", "forced"}, ts \in Asks : LookupPrices(c, k, ts)
    \/ \E c \in Callers : Fetch(c)
    \/ \E c \in Callers : StoreSpecs(c)
    \/ \E c \in Callers : StorePrices(c)
    \/ \E c \in Callers : ReadPrices(c)
    \/ Tick

CacheSpec == CacheInit /\ [][CacheNext]_cacheVars

-----------------------------------------------------------------------------
(* Correctness *)

(* "TTL-protected": specs and regions that are in the cache and count as fresh
   are no older than the TTL, however slow and in whatever order fetches end,
   and whether or not some failed. *)
SpecsAreFresh ==
    \A k \in {"specs", "regions"} :
        Fresh(specs[k], SpecsTTL) => now - specs[k].data <= SpecsTTL

(* While the entry counts as fresh, the prices that its fetch answered are there
   and no older than the TTL, as long as no fetch has failed: whatever overtook
   it and wrote into the same map.  (A type that its fetch left out keeps the price
   of any age it had: the entry has one time for all.) *)
PricesAreFresh ==
    (fetchFaults = 0 /\ Fresh(prices, PriceTTL)) =>
        \A t \in prices.got :
            /\ heap[prices.map][t] # Nil
            /\ now - heap[prices.map][t] <= PriceTTL

(* What counts as fresh is as young as the times to live say. *)
CacheIsFresh == SpecsAreFresh /\ PricesAreFresh

(* A fetch of prices is under way, or its answer is not stored yet. *)
PricesFetched(c) == call[c].pc \in {"fetch", "store"} /\ call[c].kind \in {"prices", "forced"}

(* The cache has a map, and every call that will store holds the same.  (Two first
   fetches that overlap make two maps, and the one stored last is kept.) *)
OneMap ==
    /\ prices # Nil
    /\ \A c \in Callers : PricesFetched(c) =>
         call[c].entry # Nil /\ call[c].entry.map = prices.map

(* "Fetch errors keep previously cached data": no step empties the cache; and from
   when callers share one map on, no fetch that fails, leaves types out or is
   overtaken by others takes a price away, although a failed one writes back the
   entry as it was before others stored. *)
CachedDataIsKept ==
    [][/\ \A k \in {"specs", "regions"} : specs[k] # Nil => specs'[k] # Nil
       /\ prices # Nil => prices' # Nil
       /\ OneMap =>
            /\ OneMap'
            /\ \A t \in Types :
                 heap[prices.map][t] # Nil => heap'[prices'.map][t] # Nil]_cacheVars

(* "It is safe for concurrent use": no step writes a map that the caller it was
   returned to is reading. *)
MapsAreNotShared ==
    [][\A c \in Callers : (call[c].pc = "read" /\ call'[c].pc = "read") =>
          (call[c].map # Nil => heap'[call[c].map] = heap[call[c].map])]_cacheVars
=============================================================================
