---------------------------- MODULE MCPlayLoop ----------------------------
(* The play loop in units of five seconds: pings every 15 s, reads of 30 s. *)
EXTENDS PlayLoop

=============================================================================
