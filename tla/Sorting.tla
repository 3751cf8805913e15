------------------------------ MODULE Sorting ------------------------------
(***************************************************************************)
(* A finite set as a sequence, sorted by a strict total order R, a set of  *)
(* pairs.  The k-th element is the one with k - 1 elements before it,      *)
(* which needs no recursion and can be reasoned about by counting.         *)
(***************************************************************************)
EXTENDS Integers, FiniteSets

Before(S, R, i) == {j \in S : <<j, i>> \in R}

Sorted(S, R) ==
    [k \in 1..Cardinality(S) |-> CHOOSE i \in S : Cardinality(Before(S, R, i)) = k - 1]

Ascending(I) == Sorted(I, {p \in I \X I : p[1] < p[2]})

(* The elements of the sequence s at the positions I, in their order. *)
ElementsAt(s, I) == [k \in DOMAIN Ascending(I) |-> s[Ascending(I)[k]]]
=============================================================================
