---------------------------- MODULE MCClientView ----------------------------
(* A garden of 3 x 3 chunks of 2 x 2 blocks, with a pad into the Nether. *)
EXTENDS ClientView, TLC

CONSTANTS p1, p2

MCPack == [d \in DimensionId |->
             IF d = "Overworld" THEN [c \in {<<2, 0>>} |-> "glowstone"] ELSE <<>>]
MCPlaces == {<<2, 0>>, <<-4, 0>>}
MCSavedPlaces == {<<2, 3>>}
MCChanges == {<< <<0, 1>>, "air">>, << <<2, 0>>, "air">>}
MCMobHome == [m \in {10000, 10001} |-> IF m = 10000 THEN "Overworld" ELSE "Nether"]
Symmetric == Permutations(Players)
=============================================================================
