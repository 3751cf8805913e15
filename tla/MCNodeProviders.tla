-------------------------- MODULE MCNodeProviders --------------------------
(* Cluster names for the run of NodeProviders: `train', `train-head', whose node
   would be called like the head of the first, and one that meets neither. *)
EXTENDS NodeProviders

ClusterNames ==
    LET train == << <<"train", 0>> >>
    IN  {train, train \o << <<"-head", 0>> >>, << <<"serve", 0>> >>}
=============================================================================
