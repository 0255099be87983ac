------------------------------ MODULE MCChests ------------------------------
(* A Creative and a Survival player, two dimensions of one block each. *)
EXTENDS Chests

CONSTANTS ann, ben, overworld, nether, s1, s2

MCPackChests == {<<overworld, s1>>, <<nether, s1>>}

=============================================================================
