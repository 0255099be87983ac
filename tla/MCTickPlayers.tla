--------------------------- MODULE MCTickPlayers ---------------------------
(* Two sessions of one user and, in the larger instance, one of another. *)
EXTENDS TickPlayers, TLC

CONSTANTS e1, e2, e3, alice, bob

MCUserOf == [e \in Entity |-> IF e = e3 THEN bob ELSE alice]

\* The two sessions of alice are interchangeable.
MCSymmetry == Permutations({e1, e2})

=============================================================================
