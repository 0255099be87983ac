------------------------------- MODULE Garden -------------------------------
(***************************************************************************)
(* The fixed-size world: hakoniwa.rs, the blocks of world.rs and the       *)
(* portals of dimension.rs.  Positions are columns <<x, z>> of blocks; a   *)
(* column has one block that matters, the one under the feet of who stands *)
(* in it.                                                                  *)
(***************************************************************************)
EXTENDS Integers, FiniteSets, Functions

CONSTANTS
    ChunkWidth,        \* blocks in a row of a chunk: 16 in the code
    GardenRadius,      \* MapSize::chunk_radius: 4, 8 or 16
    EnabledDimensions, \* DimensionSet
    Pack               \* pack_by_dim: what the map pack puts on a column

DimensionId == {"Overworld", "Nether", "End"}

\* What generated_flat_block answers inside the garden is one block for each
\* dimension; End stone is the ground of the End and a portal elsewhere.
BlockState == {"flat", "air", "glowstone", "end_stone"}

ASSUME GardenAssumption ==
    /\ ChunkWidth \in Nat \ {0}
    /\ GardenRadius \in Nat
    /\ EnabledDimensions \subseteq DimensionId
    /\ DOMAIN Pack = DimensionId
    /\ \A d \in DimensionId :
         DOMAIN Pack[d] \subseteq Int \X Int /\ Range(Pack[d]) \subseteq BlockState

chunk_from_world(at) == <<at[1] \div ChunkWidth, at[2] \div ChunkWidth>>

desired_chunks(center, radius) ==
    {<<center[1] + dx, center[2] + dz>> : dx \in (-radius)..radius, dz \in (-radius)..radius}

contains_chunk(c) == c \in desired_chunks(<<0, 0>>, GardenRadius)

min_block == -(GardenRadius * ChunkWidth)
max_block == GardenRadius * ChunkWidth + ChunkWidth - 1

Clamped(n) == IF n < min_block THEN min_block ELSE IF n > max_block THEN max_block ELSE n
clamp_horizontal(at) == <<Clamped(at[1]), Clamped(at[2])>>

\* spawn_point, where arrival_position takes everybody
Spawn == <<0, 0>>

set_block(overrides, dim, at, state) ==
    [overrides EXCEPT ![dim] = [c \in DOMAIN @ \cup {at} |-> IF c = at THEN state ELSE @[c]]]

\* Dug and placed blocks before those of the pack, and these before the terrain.
get_block(overrides, dim, at) ==
    IF at \in DOMAIN overrides[dim] THEN overrides[dim][at]
    ELSE IF at \in DOMAIN Pack[dim] THEN Pack[dim][at]
    ELSE IF at = clamp_horizontal(at) THEN "flat" ELSE "air"

get_client_block_deltas(overrides, dim, chunks) ==
    [c \in {b \in DOMAIN Pack[dim] \cup DOMAIN overrides[dim] : chunk_from_world(b) \in chunks}
       |-> get_block(overrides, dim, c)]

portal_destination(dim, under) ==
    CASE under = "glowstone" /\ dim = "Overworld" -> {"Nether"}
      [] under = "glowstone" /\ dim # "Overworld" -> {"Overworld"}
      [] under = "end_stone" /\ dim = "Overworld" -> {"End"}
      [] OTHER -> {}

=============================================================================
