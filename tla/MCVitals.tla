----------------------------- MODULE MCVitals -----------------------------
(* A player of three health points, one unit of food and one of saturation. *)
EXTENDS Vitals

=============================================================================
