------------------------------- MODULE MCStore -------------------------------
(***************************************************************************)
(* The state of the program in one run: the collections of a store         *)
(* (Store), its tokens as the API server uses them (Tokens), and what a    *)
(* save does to one collection in the file backend (FileBackend, one       *)
(* process) and in the SQL and Redis backends (DbBackends, two processes). *)
(* A behaviour is one of one of the four modules; `part' says of which,    *)
(* and the variables of the others stand still in an initial state.        *)
(***************************************************************************)
EXTENDS Store, Tokens, FileBackend, DbBackends, TLC

VARIABLE part

(* Four of the eight collections, one for each set of operations, in the
   order in which save writes them. *)
SaveOrder == <<"clusters", "clusterEvents", "config", "tokens">>

(* Processes, record contents and goroutines are interchangeable. *)
Symmetry == Permutations(Procs) \cup Permutations(Values) \cup Permutations(Reqs)

TokensStand == secrets = 0 /\ conf = [auth |-> FALSE, prefix |-> "/api/v1"]

DbStands == kind = "redis"

InitState ==
    /\ Init /\ TokInit /\ FileInit /\ DbInit
    /\ \/ part \in {"store", "file"} /\ TokensStand /\ DbStands
       \/ part = "tokens" /\ DbStands
       \/ part = "db" /\ TokensStand

NextState ==
    \/ part = "store" /\ Next /\ UNCHANGED <<part, tokVars, fileVars, dbVars>>
    \/ part = "tokens" /\ TokNext /\ UNCHANGED <<part, vars, fileVars, dbVars>>
    \/ part = "file" /\ FileNext /\ UNCHANGED <<part, vars, tokVars, dbVars>>
    \/ part = "db" /\ DbNext /\ UNCHANGED <<part, vars, tokVars, fileVars>>

SpecState == InitState /\ [][NextState]_<<part, vars, tokVars, fileVars, dbVars>>
=============================================================================
