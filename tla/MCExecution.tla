---------------------------- MODULE MCExecution ----------------------------
(* What scripts write in the runs of Execution: an empty line between two lines,
   the last one not terminated; and a terminated line. *)
EXTENDS Execution

TextSet == {<<"x", "nl", "nl", "x">>, <<"x", "x", "nl">>}
=============================================================================
