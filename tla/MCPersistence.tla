--------------------------- MODULE MCPersistence ---------------------------
(* One or two dimensions, two users. *)
EXTENDS Persistence, TLC

CONSTANTS alice, bob

OneBlockFile == <<"blocks">>

MCSymmetry == Permutations({alice, bob})

=============================================================================
