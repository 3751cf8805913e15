------------------------------ MODULE MCClouds ------------------------------
(***************************************************************************)
(* The clouds in one run: calls of the AWS and aliyun providers            *)
(* (VpcProviders), and the cache of their metadata (MetaCache).  A         *)
(* behaviour is one of one of the two modules, which share no variable;    *)
(* `part' says of which, and the variables of the other stand still in one *)
(* of its initial states.                                                  *)
(***************************************************************************)
EXTENDS VpcProviders, MetaCache, TLC

VARIABLE part

(* Callers are interchangeable, and the maps they make with them; no property of the
   run is a liveness property, so the reduction is sound. *)
Symmetry == Permutations(Callers)

(* An account without anything, and no instances. *)
VpcStands ==
    /\ acct = [cloud |-> "aws", default |-> FALSE, vpc |-> "none", group |-> "none",
               subs |-> {}, zone |-> None, stock |-> Zones, slow |-> FALSE]
    /\ inst = [i \in {} |-> 0]

InitClouds ==
    /\ Init /\ CacheInit
    /\ \/ part = "launch"
       \/ part = "cache" /\ VpcStands

NextClouds ==
    \/ part = "launch" /\ Next /\ UNCHANGED <<part, cacheVars>>
    \/ part = "cache" /\ CacheNext /\ UNCHANGED <<part, vars>>

SpecClouds == InitClouds /\ [][NextClouds]_<<part, vars, cacheVars>>
=============================================================================
