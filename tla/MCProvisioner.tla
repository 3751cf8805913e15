--------------------------- MODULE MCProvisioner ---------------------------
(* Model values and symmetry for the runs of Provisioner. *)
EXTENDS Provisioner, TLC

(* Instances and operations are interchangeable (safety runs only). *)
Symmetry == Permutations(Instances) \cup Permutations(Ops)
=============================================================================
