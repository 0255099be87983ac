-------------------------- MODULE ClientViewProofs --------------------------
(***************************************************************************)
(* Proofs about ClientView, for any garden, map pack, players, mobs and    *)
(* distances: the tables of the tick thread, the window of chunks around   *)
(* each player, and what the clients show once they have been sent all     *)
(* that waits.                                                             *)
(***************************************************************************)
EXTENDS ClientView, QueueLemmas

Position == Int \X Int

\* The positions in the garden, the chunks of it, and the dimensions a player
\* may be in.
Inside == {at \in Position : clamp_horizontal(at) = at}
Chunks == desired_chunks(<<0, 0>>, GardenRadius)
Habitable == EnabledDimensions \cup {"Overworld"}

-----------------------------------------------------------------------------
(* The garden *)

\* The limits of the garden.
LEMMA Limits ==
    min_block \in Int /\ max_block \in Nat /\ min_block <= 0
<1>1. ChunkWidth \in Nat /\ GardenRadius \in Nat /\ ChunkWidth >= 1
    BY GardenAssumption
<1>2. GardenRadius * ChunkWidth \in Nat
    BY <1>1
<1>3. QED
    BY <1>1, <1>2 DEF min_block, max_block

LEMMA InsideLimits ==
    ASSUME NEW at \in Position
    PROVE  at \in Inside <=> /\ min_block <= at[1] /\ at[1] <= max_block
                             /\ min_block <= at[2] /\ at[2] <= max_block
<1>1. PICK x \in Int, z \in Int : at = <<x, z>>
    BY DEF Position
<1>2. (Clamped(x) = x <=> min_block <= x /\ x <= max_block)
      /\ (Clamped(z) = z <=> min_block <= z /\ z <= max_block)
    BY Limits DEF Clamped
<1>3. QED
    BY <1>1, <1>2 DEF Inside, clamp_horizontal

LEMMA Clamps ==
    ASSUME NEW at \in Position
    PROVE  clamp_horizontal(at) \in Inside
<1>1. PICK x \in Int, z \in Int : at = <<x, z>>
    BY DEF Position
<1>2. ASSUME NEW n \in Int
      PROVE  Clamped(n) \in Int /\ min_block <= Clamped(n) /\ Clamped(n) <= max_block
    BY Limits DEF Clamped
<1>3. clamp_horizontal(at) \in Position
    BY <1>1, <1>2 DEF clamp_horizontal, Position
<1>4. QED
    BY <1>1, <1>2, <1>3, InsideLimits DEF clamp_horizontal

LEMMA SpawnInside == Spawn \in Inside
BY Limits, InsideLimits DEF Spawn, Position

\* A movement that is stopped ends in the garden, too.
LEMMA ResolvedInside ==
    ASSUME NEW old \in Inside, NEW asked \in Inside, NEW new \in Resolved(old, asked)
    PROVE  new \in Inside
<1>1. /\ old \in Position /\ asked \in Position
      /\ old[1] \in Int /\ old[2] \in Int /\ asked[1] \in Int /\ asked[2] \in Int
    BY DEF Inside, Position
<1>2. PICK x \in {old[1], asked[1]}, z \in {old[2], asked[2]} : new = <<x, z>>
    BY DEF Resolved
<1>3. new \in Position
    BY <1>1, <1>2 DEF Position
<1>4. QED
    BY <1>1, <1>2, <1>3, InsideLimits

LEMMA ChunkOfPosition ==
    ASSUME NEW at \in Position
    PROVE  chunk_from_world(at) \in Position
<1>1. ChunkWidth \in Nat /\ ChunkWidth > 0
    BY GardenAssumption
<1>2. at[1] \in Int /\ at[2] \in Int
    BY DEF Position
<1>3. at[1] \div ChunkWidth \in Int /\ at[2] \div ChunkWidth \in Int
    BY <1>1, <1>2
<1>4. QED
    BY <1>3 DEF chunk_from_world, Position

-----------------------------------------------------------------------------
(* The window of a player *)

\* The windows the tick thread may have: not larger than the garden, and with all
\* the chunks in view of their centre.
ChunkStates ==
    [center : Position, view_distance : 0..GardenRadius, loaded_chunks : SUBSET Chunks]

Windows == {cs \in ChunkStates : desired_chunk_set(cs) \subseteq cs.loaded_chunks}

LEMMA WithinRange ==
    ASSUME NEW n \in Int, NEW high \in Nat
    PROVE  Within(n, 0, high) \in 0..high
BY DEF Within

\* Loading the chunks that are desired makes a window.
LEMMA ReloadedWindow ==
    ASSUME NEW cs \in ChunkStates
    PROVE  /\ Reloaded(cs) \in Windows
           /\ Reloaded(cs).center = cs.center
           /\ Reloaded(cs).loaded_chunks = desired_chunk_set(cs)
<1> DEFINE new == [center |-> cs.center, view_distance |-> cs.view_distance,
                   loaded_chunks |-> desired_chunk_set(cs)]
<1>1. Reloaded(cs) = new
    BY DEF Reloaded, ChunkStates
<1>2. desired_chunk_set(new) = desired_chunk_set(cs)
    BY DEF desired_chunk_set
<1>3. desired_chunk_set(cs) \subseteq Chunks
    BY DEF desired_chunk_set, contains_chunk, Chunks
<1>4. new \in Windows
    BY <1>2, <1>3 DEF Windows, ChunkStates
<1>5. QED
    BY <1>1, <1>4

LEMMA CentredWindow ==
    ASSUME NEW cs \in Windows, NEW center \in Position
    PROVE  LET new == Reloaded([cs EXCEPT !.center = center])
           IN new \in Windows /\ new.center = center
<1>1. [cs EXCEPT !.center = center] \in ChunkStates /\ [cs EXCEPT !.center = center].center = center
    BY DEF Windows, ChunkStates
<1>2. QED
    BY <1>1, ReloadedWindow

LEMMA UpdateCenterWindow ==
    ASSUME NEW cs \in Windows, NEW center \in Position
    PROVE  update_center(cs, center) \in Windows /\ update_center(cs, center).center = center
BY CentredWindow DEF update_center

LEMMA UpdateViewDistanceWindow ==
    ASSUME NEW cs \in Windows, NEW n \in Int
    PROVE  /\ update_view_distance(cs, n) \in Windows
           /\ update_view_distance(cs, n).center = cs.center
<1> DEFINE new == Within(n, 0, GardenRadius)
           seen == [cs EXCEPT !.view_distance = new]
<1>1. new \in 0..GardenRadius
    BY WithinRange, GardenAssumption
<1>2. seen \in ChunkStates /\ seen.center = cs.center
    BY <1>1 DEF Windows, ChunkStates
<1> HIDE DEF seen, new
<1>3. Reloaded(seen) \in Windows /\ Reloaded(seen).center = cs.center
    BY <1>2, ReloadedWindow
<1>4. QED
    BY <1>3 DEF update_view_distance, seen, new

\* A window that is not larger shows no more.
LEMMA SmallerWindow ==
    ASSUME NEW center, NEW n \in Nat, NEW m \in Nat, n <= m
    PROVE  desired_chunks(center, n) \subseteq desired_chunks(center, m)
BY DEF desired_chunks

\* The chunks sent with the join sequence are those the tick thread believes the
\* client has.
LEMMA JoinWindow ==
    LET cs == PlayerChunkState(ServerViewDistance)
    IN /\ cs \in Windows /\ cs.center = <<0, 0>>
       /\ cs.loaded_chunks = desired_chunks(<<0, 0>>, InitialRadius)
<1> DEFINE cs == PlayerChunkState(ServerViewDistance)
           clamped == Within(ServerViewDistance, 0, InitialRadius)
<1>1. InitialRadius \in Nat /\ GardenRadius \in Nat /\ InitialRadius <= GardenRadius
    BY GardenAssumption, ViewAssumption
<1>2. Within(InitialRadius, 0, GardenRadius) = InitialRadius
    BY <1>1 DEF Within
<1>3. clamped \in 0..InitialRadius /\ Within(clamped, 0, GardenRadius) = clamped
    BY <1>1, ViewAssumption, WithinRange DEF Within
<1>4. desired_chunks(<<0, 0>>, InitialRadius) \subseteq Chunks
    BY <1>1, SmallerWindow DEF Chunks
<1>5. {c \in desired_chunks(<<0, 0>>, InitialRadius) : contains_chunk(c)}
        = desired_chunks(<<0, 0>>, InitialRadius)
    BY <1>4 DEF contains_chunk, Chunks
<1> HIDE DEF clamped
<1>6. cs = [center |-> <<0, 0>>, view_distance |-> clamped,
            loaded_chunks |-> desired_chunks(<<0, 0>>, InitialRadius)]
    BY <1>2, <1>3, <1>5 DEF PlayerChunkState, clamped
<1>7. cs \in ChunkStates
    BY <1>1, <1>3, <1>4, <1>6 DEF ChunkStates, Position
<1>8. desired_chunk_set(cs) \subseteq desired_chunks(<<0, 0>>, clamped)
    BY <1>6 DEF desired_chunk_set
<1>9. desired_chunks(<<0, 0>>, clamped) \subseteq desired_chunks(<<0, 0>>, InitialRadius)
    BY <1>1, <1>3, SmallerWindow
<1>10. QED
    BY <1>6, <1>7, <1>8, <1>9 DEF Windows

-----------------------------------------------------------------------------
(* The events *)

\* What a table or a packet says of some blocks.
Deltas == UNION {[S -> BlockState] : S \in SUBSET Position}

SynchronizingEvent ==
    [type : {"SynchronizePosition"}, at : Inside]
    \cup [type : {"RespawnPlayer"}, dimension : Habitable, at : Inside,
           defer_position_sync : BOOLEAN]

Event ==
    [type : {"LoadChunk", "UnloadChunk"}, chunks : SUBSET Chunks]
    \cup [type : {"ChunkBlockOverrides"}, deltas : Deltas]
    \cup [type : {"SetCenterChunk"}, center : Position]
    \cup [type : {"PlayerJoined"}, player : Players, at : Inside]
    \cup [type : {"PlayerLeft"}, player : Players]
    \cup [type : {"EntityMovement"}, player : Players, old : Inside, new : Inside]
    \cup [type : {"SpawnMob", "RemoveEntities"}, ids : SUBSET DOMAIN MobHome]
    \cup SynchronizingEvent

\* Only an event with a position in the garden is answered with one.
LEMMA SynchronizingEvents ==
    ASSUME NEW e \in Event, Synchronizes(e)
    PROVE  e.at \in Inside
<1>1. e.type \in {"SynchronizePosition", "RespawnPlayer"}
    BY DEF Synchronizes
<1>2. e \in SynchronizingEvent
    BY <1>1 DEF Event
<1>3. QED
    BY <1>2 DEF SynchronizingEvent

LEMMA OneEvent ==
    ASSUME NEW e \in Event
    PROVE  <<e>> \in Seq(Event)
OBVIOUS

LEMMA EventsIf ==
    ASSUME NEW c \in BOOLEAN, NEW s, c => s \in Seq(Event)
    PROVE  If(c, s) \in Seq(Event)
BY EmptySeq DEF If

LEMMA MoreEvents ==
    ASSUME NEW s \in Seq(Event), NEW r \in Seq(Event)
    PROVE  s \o r \in Seq(Event)
BY ConcatProperties

\* The blocks of a world: of the map pack, and dug and placed ones.
LEMMA BlockOfWorld ==
    ASSUME NEW o \in [DimensionId -> Deltas], NEW d \in DimensionId, NEW at
    PROVE  get_block(o, d, at) \in BlockState
<1>1. PICK S \in SUBSET Position : o[d] \in [S -> BlockState]
    BY DEF Deltas
<1>2. CASE at \in DOMAIN o[d]
    BY <1>1, <1>2 DEF get_block
<1>3. CASE at \notin DOMAIN o[d] /\ at \in DOMAIN Pack[d]
    <2>1. Pack[d][at] \in BlockState
        BY <1>3, GardenAssumption DEF Range
    <2>2. QED
        BY <1>3, <2>1 DEF get_block
<1>4. CASE at \notin DOMAIN o[d] /\ at \notin DOMAIN Pack[d]
    BY <1>4 DEF get_block, BlockState
<1>5. QED
    BY <1>2, <1>3, <1>4

LEMMA ClientBlockDeltas ==
    ASSUME NEW o \in [DimensionId -> Deltas], NEW d \in DimensionId, NEW chunks
    PROVE  get_client_block_deltas(o, d, chunks) \in Deltas
<1> DEFINE S == {b \in DOMAIN Pack[d] \cup DOMAIN o[d] : chunk_from_world(b) \in chunks}
<1>1. S \in SUBSET Position
    <2>1. PICK D \in SUBSET Position : o[d] \in [D -> BlockState]
        BY DEF Deltas
    <2>2. QED
        BY <2>1, GardenAssumption DEF Position
<1>2. get_client_block_deltas(o, d, chunks) = [c \in S |-> get_block(o, d, c)]
    BY DEF get_client_block_deltas
<1> HIDE DEF S
<1>3. [c \in S |-> get_block(o, d, c)] \in [S -> BlockState]
    BY BlockOfWorld
<1>4. QED
    BY <1>1, <1>2, <1>3 DEF Deltas

LEMMA SetBlockKeeps ==
    ASSUME NEW o \in [DimensionId -> Deltas], NEW d \in DimensionId, NEW at \in Position,
           NEW state \in BlockState
    PROVE  /\ set_block(o, d, at, state) \in [DimensionId -> Deltas]
           /\ BlockUpdate(at, state) \in Event
<1>1. PICK S \in SUBSET Position : o[d] \in [S -> BlockState]
    BY DEF Deltas
<1> DEFINE new == [c \in S \cup {at} |-> IF c = at THEN state ELSE o[d][c]]
<1>2. new \in [S \cup {at} -> BlockState] /\ S \cup {at} \in SUBSET Position
    BY <1>1
<1>3. new \in Deltas
    BY <1>2 DEF Deltas
<1>4. set_block(o, d, at, state) = [o EXCEPT ![d] = new]
    BY <1>1 DEF set_block
<1> HIDE DEF new
<1>5. [c \in {at} |-> state] \in [{at} -> BlockState] /\ {at} \in SUBSET Position
    OBVIOUS
<1>6. [c \in {at} |-> state] \in Deltas
    BY <1>5 DEF Deltas
<1>7. QED
    BY <1>3, <1>4, <1>6 DEF BlockUpdate, Event

-----------------------------------------------------------------------------
(* The fold over the events *)

AllHandled(h, s) == FoldLeft(Handled, h, s)

\* The function FoldLeft is defined by: what the events at some of the places make
\* of a client and its answers.
IsHandling(after, h, s, places) ==
    after = [t \in SUBSET places |->
                IF t = {} THEN h ELSE Handled(after[t \ {Max(t)}], s[Max(t)])]

Handling(h, s, places) == CHOOSE after : IsHandling(after, h, s, places)

LEMMA FoldOfEvents ==
    ASSUME NEW h, NEW s
    PROVE  AllHandled(h, s) = Handling(h, s, DOMAIN s)[DOMAIN s]
BY DEF AllHandled, FoldLeft, MapThenFoldSet, Handling, IsHandling

\* There is such a function, whatever the number of events.
LEMMA HandlingExists ==
    ASSUME NEW h, NEW s, NEW n \in Nat
    PROVE  \E after : IsHandling(after, h, s, 1..n)
<1> DEFINE T == {k \in Nat : \E f : IsHandling(f, h, s, 1..k)}
<1>1. 0 \in T
    <2> DEFINE f == [t \in SUBSET (1..0) |-> h]
    <2>1. SUBSET (1..0) = {{}}
        OBVIOUS
    <2>2. IsHandling(f, h, s, 1..0)
        BY <2>1 DEF IsHandling
    <2>3. QED
        BY <2>2
<1>2. ASSUME NEW k \in Nat, k \in T
      PROVE  k + 1 \in T
    <2>1. PICK f : IsHandling(f, h, s, 1..k)
        BY <1>2
    <2> DEFINE g == [t \in SUBSET (1..(k + 1)) |->
                        IF k + 1 \in t THEN Handled(f[t \ {k + 1}], s[k + 1]) ELSE f[t]]
    <2>2. ASSUME NEW t \in SUBSET (1..(k + 1))
          PROVE  g[t] = IF t = {} THEN h ELSE Handled(g[t \ {Max(t)}], s[Max(t)])
        <3>1. CASE k + 1 \in t
            <4>1. Max(t) = k + 1
                BY <3>1, LargestIsLast
            <4>2. /\ t \ {k + 1} \in SUBSET (1..(k + 1)) /\ k + 1 \notin t \ {k + 1}
                  /\ t # {}
                BY <3>1
            <4>3. g[t \ {k + 1}] = f[t \ {k + 1}] /\ g[t] = Handled(f[t \ {k + 1}], s[k + 1])
                BY <3>1, <4>2
            <4> HIDE DEF g
            <4>4. QED
                BY <4>1, <4>2, <4>3
        <3>2. CASE k + 1 \notin t
            <4>1. t \in SUBSET (1..k) /\ t \ {Max(t)} \in SUBSET (1..k)
                BY <3>2, UpToNext
            <4>2. /\ t \ {Max(t)} \in SUBSET (1..(k + 1))
                  /\ k + 1 \notin t \ {Max(t)}
                BY <3>2
            <4>3. g[t \ {Max(t)}] = f[t \ {Max(t)}] /\ g[t] = f[t]
                BY <3>2, <4>2
            <4> HIDE DEF g
            <4>4. f[t] = IF t = {} THEN h ELSE Handled(f[t \ {Max(t)}], s[Max(t)])
                BY <2>1, <4>1 DEF IsHandling
            <4>5. QED
                BY <4>3, <4>4
        <3>3. QED
            BY <3>1, <3>2
    <2>3. IsHandling(g, h, s, 1..(k + 1))
        BY <2>2 DEF IsHandling
    <2>4. QED
        BY <2>3
<1>3. n \in T
    BY <1>1, <1>2, Induction
<1>4. QED
    BY <1>3

\* f has what each of the events in turn makes of h.
IsRun(f, h, s, n) ==
    /\ f[0] = h
    /\ \A k \in 1..n : f[k] = Handled(f[k - 1], s[k])

LEMMA FoldIsRun ==
    ASSUME NEW E, NEW s \in Seq(E), NEW h
    PROVE  \E f : IsRun(f, h, s, Len(s)) /\ f[Len(s)] = AllHandled(h, s)
<1> DEFINE n == Len(s)
           after == Handling(h, s, 1..n)
           f == [k \in 0..n |-> after[1..k]]
<1>1. n \in Nat /\ DOMAIN s = 1..n
    BY LenProperties
<1>2. \A t \in SUBSET (1..n) :
          after[t] = IF t = {} THEN h ELSE Handled(after[t \ {Max(t)}], s[Max(t)])
    <2>1. after = [t \in SUBSET (1..n) |->
                     IF t = {} THEN h ELSE Handled(after[t \ {Max(t)}], s[Max(t)])]
        <3>1. IsHandling(after, h, s, 1..n)
            BY <1>1, HandlingExists DEF Handling
        <3>2. QED
            BY <3>1 DEF IsHandling
    <2> HIDE DEF after
    <2>2. QED
        BY <2>1
<1>3. AllHandled(h, s) = after[1..n]
    BY <1>1, FoldOfEvents DEF n
<1> HIDE DEF after, n
<1>4. f[0] = h
    <2>1. 1..0 = {} /\ 1..0 \in SUBSET (1..n) /\ 0 \in 0..n
        BY <1>1
    <2>2. QED
        BY <1>2, <2>1
<1>5. ASSUME NEW k \in 1..n
      PROVE  f[k] = Handled(f[k - 1], s[k])
    <2>1. k \in Nat /\ k - 1 \in 0..n /\ k \in 0..n /\ k \in 1..k
        BY <1>1
    <2>2. 1..k \in SUBSET (1..n) /\ 1..k # {} /\ (1..k) \ {k} = 1..(k - 1)
        BY <1>1
    <2>3. Max(1..k) = k
        BY <2>1, LargestIsLast
    <2>4. after[1..k] = Handled(after[1..(k - 1)], s[k])
        BY <1>2, <2>2, <2>3
    <2>5. QED
        BY <2>1, <2>4
<1>6. f[n] = after[1..n]
    BY <1>1
<1>7. QED
    <2>1. IsRun(f, h, s, n) /\ f[n] = AllHandled(h, s)
        BY <1>3, <1>4, <1>5, <1>6 DEF IsRun
    <2>2. QED
        BY <2>1, Zenon DEF n

\* The same events make the same of the same client.
LEMMA RunsAgree ==
    ASSUME NEW h, NEW s, NEW r, NEW n \in Nat, \A i \in 1..n : s[i] = r[i],
           NEW f, NEW g, IsRun(f, h, s, n), IsRun(g, h, r, n)
    PROVE  f[n] = g[n]
<1> DEFINE T == {k \in Nat : k <= n => f[k] = g[k]}
<1>1. 0 \in T
    BY DEF IsRun
<1>2. ASSUME NEW k \in Nat, k \in T
      PROVE  k + 1 \in T
    <2> SUFFICES ASSUME k + 1 <= n PROVE f[k + 1] = g[k + 1]
        OBVIOUS
    <2>1. k + 1 \in 1..n /\ (k + 1) - 1 = k /\ k <= n
        OBVIOUS
    <2>2. f[k + 1] = Handled(f[k], s[k + 1]) /\ g[k + 1] = Handled(g[k], r[k + 1])
        BY <2>1 DEF IsRun
    <2>3. QED
        BY <1>2, <2>1, <2>2
<1>3. n \in T
    BY <1>1, <1>2, Induction
<1>4. QED
    BY <1>3

\* No event, one event, and some events after others.
LEMMA NothingHandled ==
    ASSUME NEW h
    PROVE  AllHandled(h, <<>>) = h
<1>1. <<>> \in Seq({}) /\ Len(<<>>) = 0
    BY EmptySeq
<1>2. QED
    BY <1>1, FoldIsRun DEF IsRun

LEMMA OneHandled ==
    ASSUME NEW h, NEW e
    PROVE  AllHandled(h, <<e>>) = Handled(h, e)
<1>1. <<e>> \in Seq({e}) /\ Len(<<e>>) = 1 /\ <<e>>[1] = e
    OBVIOUS
<1>2. PICK f : IsRun(f, h, <<e>>, 1) /\ f[1] = AllHandled(h, <<e>>)
    BY <1>1, FoldIsRun
<1>3. f[1] = Handled(f[1 - 1], e) /\ f[0] = h
    BY <1>1, <1>2 DEF IsRun
<1>4. QED
    BY <1>2, <1>3

LEMMA MoreHandled ==
    ASSUME NEW E, NEW s \in Seq(E), NEW r \in Seq(E), NEW h
    PROVE  AllHandled(h, s \o r) = AllHandled(AllHandled(h, s), r)
<1> DEFINE sr == s \o r
           n == Len(s)
           m == Len(r)
<1>1. /\ n \in Nat /\ m \in Nat /\ sr \in Seq(E) /\ Len(sr) = n + m
      /\ \A i \in 1..n : sr[i] = s[i]
      /\ \A i \in 1..m : sr[n + i] = r[i]
    <2>1. n \in Nat /\ m \in Nat
        BY LenProperties
    <2>2. sr \in Seq(E) /\ Len(sr) = n + m
          /\ \A i \in 1..n + m : sr[i] = IF i <= n THEN s[i] ELSE r[i - n]
        BY ConcatProperties
    <2> HIDE DEF sr, n, m
    <2>3. ASSUME NEW i \in 1..m PROVE sr[n + i] = r[i]
        <3>1. n + i \in 1..n + m /\ ~(n + i <= n) /\ (n + i) - n = i
            BY <2>1
        <3>2. QED
            BY <2>2, <3>1
    <2>4. ASSUME NEW i \in 1..n PROVE sr[i] = s[i]
        <3>1. i \in 1..n + m /\ i <= n
            BY <2>1
        <3>2. QED
            BY <2>2, <3>1
    <2>5. QED
        BY <2>1, <2>2, <2>3, <2>4
<1>2. PICK f : IsRun(f, h, s, n) /\ f[n] = AllHandled(h, s)
    BY FoldIsRun
<1>3. PICK g : IsRun(g, h, sr, n + m) /\ g[n + m] = AllHandled(h, sr)
    <2> HIDE DEF sr
    <2>1. QED
        BY <1>1, FoldIsRun
<1>4. PICK d : IsRun(d, AllHandled(h, s), r, m) /\ d[m] = AllHandled(AllHandled(h, s), r)
    BY FoldIsRun
<1> HIDE DEF sr, n, m
<1>5. f[n] = g[n]
    <2>1. IsRun(g, h, sr, n)
        BY <1>1, <1>3 DEF IsRun
    <2>2. QED
        BY <1>1, <1>2, <2>1, RunsAgree
<1> DEFINE late == [k \in 0..m |-> g[n + k]]
<1>6. IsRun(late, AllHandled(h, s), r, m) /\ late[m] = g[n + m]
    <2>1. late[0] = AllHandled(h, s)
        BY <1>1, <1>2, <1>5
    <2>2. ASSUME NEW k \in 1..m PROVE late[k] = Handled(late[k - 1], r[k])
        <3>1. n + k \in 1..n + m /\ (n + k) - 1 = n + (k - 1) /\ k \in 0..m /\ k - 1 \in 0..m
            BY <1>1
        <3>2. g[n + k] = Handled(g[(n + k) - 1], sr[n + k])
            BY <1>3, <3>1 DEF IsRun
        <3>3. QED
            BY <1>1, <3>1, <3>2
    <2>3. late[m] = g[n + m]
        BY <1>1
    <2>4. QED
        BY <2>1, <2>2, <2>3 DEF IsRun
<1> HIDE DEF late
<1>7. late[m] = d[m]
    BY <1>1, <1>4, <1>6, RunsAgree
<1>8. QED
    BY <1>3, <1>4, <1>6, <1>7 DEF sr

\* A client answers with positions of the garden.
LEMMA AnswersInside ==
    ASSUME NEW s \in Seq(Event), NEW h, h.answers \in Seq(Inside)
    PROVE  AllHandled(h, s).answers \in Seq(Inside)
<1> DEFINE n == Len(s)
<1>1. n \in Nat /\ \A i \in 1..n : s[i] \in Event
    BY LenProperties, ElementOfSeq
<1>2. PICK f : IsRun(f, h, s, n) /\ f[n] = AllHandled(h, s)
    BY FoldIsRun
<1> HIDE DEF n
<1> DEFINE T == {k \in Nat : k <= n => f[k].answers \in Seq(Inside)}
<1>3. 0 \in T
    BY <1>2 DEF IsRun
<1>4. ASSUME NEW k \in Nat, k \in T
      PROVE  k + 1 \in T
    <2> SUFFICES ASSUME k + 1 <= n PROVE f[k + 1].answers \in Seq(Inside)
        OBVIOUS
    <2> DEFINE e == s[k + 1]
               a == f[k].answers
    <2>1. k + 1 \in 1..n /\ (k + 1) - 1 = k /\ k <= n
        BY <1>1
    <2>2. f[k + 1] = Handled(f[k], e) /\ e \in Event /\ a \in Seq(Inside)
        BY <1>1, <1>2, <1>4, <2>1 DEF IsRun
    <2>3. f[k + 1].answers = IF Synchronizes(e) THEN Append(a, e.at) ELSE a
        BY <2>2 DEF Handled
    <2> HIDE DEF e, a
    <2>4. CASE Synchronizes(e)
        <3>1. e.at \in Inside
            BY <2>2, <2>4, SynchronizingEvents
        <3>2. Append(a, e.at) \in Seq(Inside)
            BY <2>2, <3>1, AppendProperties
        <3>3. QED
            BY <2>3, <2>4, <3>2
    <2>5. CASE ~Synchronizes(e)
        BY <2>2, <2>3, <2>5
    <2>6. QED
        BY <2>4, <2>5
<1>5. n \in T
    BY <1>1, <1>3, <1>4, Induction
<1>6. QED
    BY <1>1, <1>2, <1>5

-----------------------------------------------------------------------------
(* The handlers of the tick thread *)

\* What the tick thread keeps of the players D, and the channels to the sessions.
Sound(t, D) ==
    /\ DOMAIN t = {"world", "chunk_states", "cooldowns", "events"}
    /\ t.world \in [D -> [at : Inside, dimension : Habitable]]
    /\ t.chunk_states \in [D -> Windows]
    /\ DOMAIN t.cooldowns \subseteq D
    /\ t.events \in [Players -> Seq(Event)]

\* The channels ev once s has been sent to the players S.
SentTo(ev, S, s) ==
    [q \in Players |-> IF q \in S \cap running THEN ev[q] \o s ELSE ev[q]]

\* Sending changes the channels only.
LEMMA SoundTo ==
    ASSUME NEW t, NEW D, Sound(t, D), NEW S, NEW s \in Seq(Event)
    PROVE  /\ Sound(To(t, S, s), D)
           /\ To(t, S, s).world = t.world /\ To(t, S, s).chunk_states = t.chunk_states
           /\ To(t, S, s).cooldowns = t.cooldowns
           /\ To(t, S, s).events = SentTo(t.events, S, s)
<1> DEFINE sent == SentTo(t.events, S, s)
<1>1. To(t, S, s) = [t EXCEPT !.events = sent]
    BY DEF To, Sound, SentTo
<1>2. \A q \in Players : t.events[q] \o s \in Seq(Event) /\ t.events[q] \in Seq(Event)
    BY MoreEvents DEF Sound
<1>3. sent \in [Players -> Seq(Event)]
    BY <1>2 DEF SentTo
<1> HIDE DEF sent
<1>4. QED
    BY <1>1, <1>3 DEF Sound, sent

LEMMA HabitableDimensions == Habitable \subseteq DimensionId
BY GardenAssumption DEF Habitable, DimensionId

LEMMA UnloadEvents ==
    ASSUME NEW chunks \in SUBSET Chunks
    PROVE  Unload(chunks) \in Seq(Event)
<1> DEFINE e == [type |-> "UnloadChunk", chunks |-> chunks]
<1>1. e \in Event
    BY DEF Event
<1> HIDE DEF e
<1>2. QED
    BY <1>1, OneEvent, EmptySeq DEF Unload, UnloadChunk, If, e

LEMMA SendChunkEvents ==
    ASSUME overrides \in [DimensionId -> Deltas], NEW d \in DimensionId,
           NEW chunks \in SUBSET Chunks
    PROVE  send_chunk_to_session(overrides, d, chunks) \in Seq(Event)
<1> DEFINE deltas == get_client_block_deltas(overrides, d, chunks)
           load == [type |-> "LoadChunk", chunks |-> chunks]
           blocks == [type |-> "ChunkBlockOverrides", deltas |-> deltas]
<1>1. deltas \in Deltas
    BY ClientBlockDeltas
<1> HIDE DEF deltas
<1>2. load \in Event
    BY DEF Event
<1>3. blocks \in Event
    BY <1>1 DEF Event
<1> HIDE DEF load, blocks
<1>4. <<load>> \in Seq(Event) /\ If(deltas # <<>>, <<blocks>>) \in Seq(Event)
    BY <1>2, <1>3, OneEvent, EmptySeq DEF If
<1>5. <<load>> \o If(deltas # <<>>, <<blocks>>) \in Seq(Event)
    BY <1>4, MoreEvents
<1>6. QED
    <2>1. send_chunk_to_session(overrides, d, chunks)
            = IF chunks # {} THEN <<load>> \o If(deltas # <<>>, <<blocks>>) ELSE <<>>
        BY Zenon DEF send_chunk_to_session, LoadChunk, ChunkBlockOverrides, If, load, blocks, deltas
    <2> HIDE DEF If
    <2>2. QED
        BY <1>5, <2>1, EmptySeq

LEMMA SyncMobsEvents ==
    ASSUME mobs \subseteq DOMAIN MobHome, NEW d
    PROVE  SyncMobs(d) \in Seq(Event)
<1> DEFINE removed == [type |-> "RemoveEntities", ids |-> mobs]
           spawned == [type |-> "SpawnMob", ids |-> {m \in mobs : MobHome[m] = d}]
<1>1. removed \in Event /\ spawned \in Event
    BY DEF Event
<1> HIDE DEF removed, spawned
<1>2. If(mobs # {}, <<removed>>) \in Seq(Event) /\ <<spawned>> \in Seq(Event)
    BY <1>1, OneEvent, EmptySeq DEF If
<1>3. SyncMobs(d) = If(mobs # {}, <<removed>>) \o <<spawned>>
    BY Zenon DEF SyncMobs, RemoveEntities, SpawnMob, removed, spawned
<1>4. QED
    BY <1>2, <1>3, MoreEvents

\* f with another value for one player.
With(f, p, v) == [f EXCEPT ![p] = v]

\* The events of a new window.
WindowEvents(before, dim, cs, recentred) ==
    If(recentred, <<SetCenterChunk(cs.center)>>)
      \o send_chunk_to_session(overrides, dim, cs.loaded_chunks \ before.loaded_chunks)
      \o Unload(before.loaded_chunks \ cs.loaded_chunks)

\* What a new window makes of t.
Windowed(new, t, D, p, cs, recentred) ==
    LET s == WindowEvents(t.chunk_states[p], t.world[p].dimension, cs, recentred)
    IN /\ Sound(new, D) /\ s \in Seq(Event)
       /\ new.world = t.world /\ new.chunk_states = With(t.chunk_states, p, cs)
       /\ new.cooldowns = t.cooldowns
       /\ new.events = SentTo(t.events, {p}, s)

LEMMA SoundWindow ==
    ASSUME NEW t, NEW D, Sound(t, D), NEW p \in D, NEW cs \in Windows,
           NEW recentred \in BOOLEAN, overrides \in [DimensionId -> Deltas]
    PROVE  Windowed(Window(t, p, cs, recentred), t, D, p, cs, recentred)
<1> DEFINE s == WindowEvents(t.chunk_states[p], t.world[p].dimension, cs, recentred)
           u == [t EXCEPT !.chunk_states[p] = cs]
           old == t.chunk_states[p].loaded_chunks
           d == t.world[p].dimension
<1>1. /\ cs.center \in Position /\ cs.loaded_chunks \in SUBSET Chunks
      /\ old \in SUBSET Chunks /\ d \in DimensionId
    BY HabitableDimensions DEF Sound, Windows, ChunkStates
<1>2. SetCenterChunk(cs.center) \in Event
    BY <1>1 DEF SetCenterChunk, Event
<1> HIDE DEF old, d
<1>3. s \in Seq(Event)
    <2>1. If(recentred, <<SetCenterChunk(cs.center)>>) \in Seq(Event)
        BY <1>2, OneEvent, EventsIf
    <2>2. /\ send_chunk_to_session(overrides, d, cs.loaded_chunks \ old) \in Seq(Event)
          /\ Unload(old \ cs.loaded_chunks) \in Seq(Event)
        BY <1>1, SendChunkEvents, UnloadEvents
    <2>3. QED
        BY <2>1, <2>2, MoreEvents DEF WindowEvents, old, d
<1>4. /\ Sound(u, D) /\ u.world = t.world /\ u.chunk_states = With(t.chunk_states, p, cs)
      /\ u.cooldowns = t.cooldowns /\ u.events = t.events
    BY DEF Sound, With
<1>5. Window(t, p, cs, recentred) = To(u, {p}, s)
    BY Zenon DEF Window, WindowEvents, s, u
<1> HIDE DEF s, u
<1>6. /\ Sound(Window(t, p, cs, recentred), D)
      /\ Window(t, p, cs, recentred).world = t.world
      /\ Window(t, p, cs, recentred).chunk_states = With(t.chunk_states, p, cs)
      /\ Window(t, p, cs, recentred).cooldowns = t.cooldowns
      /\ Window(t, p, cs, recentred).events = SentTo(t.events, {p}, s)
    <2>1. /\ Sound(To(u, {p}, s), D) /\ To(u, {p}, s).world = u.world
          /\ To(u, {p}, s).chunk_states = u.chunk_states
          /\ To(u, {p}, s).cooldowns = u.cooldowns
          /\ To(u, {p}, s).events = SentTo(u.events, {p}, s)
        BY <1>3, <1>4, SoundTo
    <2>2. QED
        BY <1>4, <1>5, <2>1, Zenon
<1>7. QED
    BY <1>3, <1>6, Zenon DEF Windowed, s

\* The window of a player who is somewhere else now.
Recentred(cs, at) == Reloaded([cs EXCEPT !.center = chunk_from_world(at)])

\* The events that are sent to such a player.
ResyncEvents(before, dim, cs) ==
    LET old == before.loaded_chunks
    IN <<SetCenterChunk(cs.center)>>
         \o Unload(old \ cs.loaded_chunks)
         \o Unload(old \cap cs.loaded_chunks)
         \o send_chunk_to_session(overrides, dim, old \cap cs.loaded_chunks)
         \o send_chunk_to_session(overrides, dim, cs.loaded_chunks \ old)

\* What sending it all again makes of t.
Resynced(new, t, D, p, at) ==
    LET cs == Recentred(t.chunk_states[p], at)
        s == ResyncEvents(t.chunk_states[p], t.world[p].dimension, cs)
    IN /\ Sound(new, D) /\ s \in Seq(Event)
       /\ cs \in Windows /\ cs.center = chunk_from_world(at)
       /\ new.world = t.world /\ new.chunk_states = With(t.chunk_states, p, cs)
       /\ new.cooldowns = t.cooldowns
       /\ new.events = SentTo(t.events, {p}, s)

LEMMA SoundResync ==
    ASSUME NEW t, NEW D, Sound(t, D), NEW p \in D, NEW at \in Position,
           overrides \in [DimensionId -> Deltas]
    PROVE  Resynced(resync_player_chunks(t, p, at), t, D, p, at)
<1> DEFINE cs == Recentred(t.chunk_states[p], at)
           s == ResyncEvents(t.chunk_states[p], t.world[p].dimension, cs)
           u == [t EXCEPT !.chunk_states[p] = cs]
           old == t.chunk_states[p].loaded_chunks
           d == t.world[p].dimension
<1>1. cs \in Windows /\ cs.center = chunk_from_world(at)
    <2>1. t.chunk_states[p] \in Windows /\ chunk_from_world(at) \in Position
        BY ChunkOfPosition DEF Sound
    <2>2. QED
        BY <2>1, CentredWindow DEF Recentred
<1>2. resync_player_chunks(t, p, at) = To(u, {p}, s)
    BY Zenon DEF resync_player_chunks, ResyncEvents, Recentred, s, u, cs
<1> HIDE DEF cs
<1>3. /\ cs.center \in Position /\ cs.loaded_chunks \in SUBSET Chunks
      /\ old \in SUBSET Chunks /\ d \in DimensionId
    BY <1>1, HabitableDimensions DEF Sound, Windows, ChunkStates
<1>4. SetCenterChunk(cs.center) \in Event
    BY <1>3 DEF SetCenterChunk, Event
<1>5. s = <<SetCenterChunk(cs.center)>>
            \o Unload(old \ cs.loaded_chunks)
            \o Unload(old \cap cs.loaded_chunks)
            \o send_chunk_to_session(overrides, d, old \cap cs.loaded_chunks)
            \o send_chunk_to_session(overrides, d, cs.loaded_chunks \ old)
    BY Zenon DEF ResyncEvents, cs, d, old
<1> HIDE DEF old, d, s
<1>6. s \in Seq(Event)
    <2>1. /\ <<SetCenterChunk(cs.center)>> \in Seq(Event)
          /\ Unload(old \ cs.loaded_chunks) \in Seq(Event)
          /\ Unload(old \cap cs.loaded_chunks) \in Seq(Event)
          /\ send_chunk_to_session(overrides, d, old \cap cs.loaded_chunks) \in Seq(Event)
          /\ send_chunk_to_session(overrides, d, cs.loaded_chunks \ old) \in Seq(Event)
        BY <1>3, <1>4, OneEvent, UnloadEvents, SendChunkEvents
    <2>2. QED
        BY <1>5, <2>1, MoreEvents
<1>7. /\ Sound(u, D) /\ u.world = t.world /\ u.chunk_states = With(t.chunk_states, p, cs)
      /\ u.cooldowns = t.cooldowns /\ u.events = t.events
    BY <1>1 DEF Sound, With
<1> HIDE DEF u
<1>8. /\ Sound(resync_player_chunks(t, p, at), D)
      /\ resync_player_chunks(t, p, at).world = t.world
      /\ resync_player_chunks(t, p, at).chunk_states = With(t.chunk_states, p, cs)
      /\ resync_player_chunks(t, p, at).cooldowns = t.cooldowns
      /\ resync_player_chunks(t, p, at).events = SentTo(t.events, {p}, s)
    <2>1. /\ Sound(To(u, {p}, s), D) /\ To(u, {p}, s).world = u.world
          /\ To(u, {p}, s).chunk_states = u.chunk_states
          /\ To(u, {p}, s).cooldowns = u.cooldowns
          /\ To(u, {p}, s).events = SentTo(u.events, {p}, s)
        BY <1>6, <1>7, SoundTo
    <2>2. QED
        BY <1>2, <1>7, <2>1, Zenon
<1>9. QED
    BY <1>1, <1>6, <1>8, Zenon DEF Resynced, s, cs

\* Of a movement: where the player is now, and what the others of the dimension
\* and the player are told.
MovedOn(new, t, D, p, raw, at) ==
    LET own == If(at # raw, <<SynchronizePosition(at)>>)
        told == If(at # t.world[p].at, <<EntityMovement(p, t.world[p].at, at)>>)
        near == InDimension(t, t.world[p].dimension)
    IN /\ Sound(new, D) /\ own \in Seq(Event) /\ told \in Seq(Event)
       /\ new.world = With(t.world, p, [at |-> at, dimension |-> t.world[p].dimension])
       /\ new.chunk_states = t.chunk_states /\ new.cooldowns = t.cooldowns
       /\ new.events = SentTo(SentTo(t.events, {p}, own), near \ {p}, told)

LEMMA SoundMoved ==
    ASSUME NEW t, NEW D, Sound(t, D), D \subseteq Players, NEW p \in D, NEW raw,
           NEW new \in Inside
    PROVE  MovedOn(Moved(t, p, raw, new), t, D, p, raw, new)
<1> DEFINE own == If(new # raw, <<SynchronizePosition(new)>>)
           old == t.world[p].at
           told == If(new # old, <<EntityMovement(p, old, new)>>)
           near == InDimension(t, t.world[p].dimension)
           placed == [t EXCEPT !.world[p].at = new]
<1>1. own \in Seq(Event)
    <2>1. SynchronizePosition(new) \in Event
        BY DEF SynchronizePosition, Event, SynchronizingEvent
    <2>2. QED
        BY <2>1, OneEvent, EventsIf
<1>2. told \in Seq(Event)
    <2>1. old \in Inside /\ p \in Players
        BY DEF Sound
    <2> HIDE DEF old
    <2>2. EntityMovement(p, old, new) \in Event
        BY <2>1 DEF EntityMovement, Event
    <2>3. QED
        BY <2>2, OneEvent, EventsIf
<1>3. /\ Sound(placed, D)
      /\ placed.world = With(t.world, p, [at |-> new, dimension |-> t.world[p].dimension])
      /\ placed.chunk_states = t.chunk_states /\ placed.cooldowns = t.cooldowns
      /\ placed.events = t.events
    <2>1. [t.world[p] EXCEPT !.at = new] = [at |-> new, dimension |-> t.world[p].dimension]
        BY DEF Sound
    <2>2. [at |-> new, dimension |-> t.world[p].dimension] \in [at : Inside, dimension : Habitable]
        BY DEF Sound
    <2>3. placed = [t EXCEPT !.world = With(t.world, p, [at |-> new, dimension |-> t.world[p].dimension])]
        BY <2>1 DEF Sound, With
    <2>4. With(t.world, p, [at |-> new, dimension |-> t.world[p].dimension])
            \in [D -> [at : Inside, dimension : Habitable]]
        BY <2>2 DEF With, Sound
    <2> HIDE DEF placed
    <2>5. QED
        BY <2>3, <2>4 DEF Sound
<1>4. Moved(t, p, raw, new) = To(To(placed, {p}, own), near \ {p}, told)
    BY Zenon DEF Moved
<1> HIDE DEF own, told, near, placed
<1> DEFINE first == To(placed, {p}, own)
<1> HIDE DEF first
<1>5. /\ Sound(first, D) /\ first.world = placed.world
      /\ first.chunk_states = placed.chunk_states /\ first.cooldowns = placed.cooldowns
      /\ first.events = SentTo(placed.events, {p}, own)
    BY <1>1, <1>3, SoundTo DEF first
<1> DEFINE u == Moved(t, p, raw, new)
<1>6. /\ Sound(u, D) /\ u.world = first.world
      /\ u.chunk_states = first.chunk_states /\ u.cooldowns = first.cooldowns
      /\ u.events = SentTo(first.events, near \ {p}, told)
    <2>1. u = To(first, near \ {p}, told)
        BY <1>4, Zenon DEF first
    <2> HIDE DEF u
    <2>2. QED
        BY <1>2, <1>5, <2>1, SoundTo
<1> HIDE DEF u
<1>7. u.events = SentTo(SentTo(t.events, {p}, own), near \ {p}, told)
    BY <1>3, <1>5, <1>6, Zenon
<1>8. QED
    BY <1>1, <1>2, <1>3, <1>5, <1>6, <1>7, Zenon DEF MovedOn, own, told, near, u

\* The events that are sent to a player who changes dimension.
Arrival(dest) == <<SynchronizePosition(Spawn)>> \o SyncMobs(dest)

TransferredTo(ev, p, before, dest, cs) ==
    SentTo(SentTo(SentTo(ev, {p}, <<RespawnPlayer(dest, Spawn, TRUE)>>),
                  {p}, ResyncEvents(before, dest, cs)),
           {p}, Arrival(dest))

Transferred(new, t, D, p, dest) ==
    LET cs == Recentred(t.chunk_states[p], Spawn)
    IN /\ Sound(new, D)
       /\ cs \in Windows /\ cs.center = chunk_from_world(Spawn)
       /\ <<RespawnPlayer(dest, Spawn, TRUE)>> \in Seq(Event)
       /\ ResyncEvents(t.chunk_states[p], dest, cs) \in Seq(Event)
       /\ Arrival(dest) \in Seq(Event)
       /\ new.world = With(t.world, p, [at |-> Spawn, dimension |-> dest])
       /\ new.chunk_states = With(t.chunk_states, p, cs)
       /\ new.events = TransferredTo(t.events, p, t.chunk_states[p], dest, cs)

LEMMA SoundTransfer ==
    ASSUME NEW t, NEW D, Sound(t, D), NEW p \in D, NEW dest \in EnabledDimensions,
           mobs \subseteq DOMAIN MobHome, overrides \in [DimensionId -> Deltas]
    PROVE  Transferred(transfer_player_dimension(t, p, dest), t, D, p, dest)
<1> DEFINE cs == Recentred(t.chunk_states[p], Spawn)
           respawn == <<RespawnPlayer(dest, Spawn, TRUE)>>
           moved == [t EXCEPT !.world[p] = [at |-> Spawn, dimension |-> dest],
                              !.cooldowns = Put(@, p, PortalCooldownTicks)]
           told == To(moved, {p}, respawn)
           there == resync_player_chunks(told, p, Spawn)
           new == transfer_player_dimension(t, p, dest)
<1>1. new = To(there, {p}, Arrival(dest))
    BY Zenon DEF transfer_player_dimension, Arrival
<1>2. /\ Sound(moved, D) /\ moved.world = With(t.world, p, [at |-> Spawn, dimension |-> dest])
      /\ moved.chunk_states = t.chunk_states /\ moved.events = t.events
    <2>1. [at |-> Spawn, dimension |-> dest] \in [at : Inside, dimension : Habitable]
        BY SpawnInside DEF Habitable
    <2>2. DOMAIN Put(t.cooldowns, p, PortalCooldownTicks) \subseteq D
        BY DEF Put, Sound
    <2>3. QED
        BY <2>1, <2>2 DEF Sound, With
<1>3. respawn \in Seq(Event)
    <2>1. RespawnPlayer(dest, Spawn, TRUE) \in Event
        BY SpawnInside DEF RespawnPlayer, Event, SynchronizingEvent, Habitable
    <2>2. QED
        BY <2>1, OneEvent
<1>4. Arrival(dest) \in Seq(Event)
    <2>1. SynchronizePosition(Spawn) \in Event
        BY SpawnInside DEF SynchronizePosition, Event, SynchronizingEvent
    <2>2. <<SynchronizePosition(Spawn)>> \in Seq(Event) /\ SyncMobs(dest) \in Seq(Event)
        BY <2>1, OneEvent, SyncMobsEvents
    <2>3. QED
        BY <2>2, MoreEvents DEF Arrival
<1> HIDE DEF moved, new, respawn
<1>5. /\ Sound(told, D) /\ told.world = moved.world /\ told.chunk_states = moved.chunk_states
      /\ told.events = SentTo(moved.events, {p}, respawn)
    BY <1>2, <1>3, SoundTo
<1> HIDE DEF told
<1>6. told.chunk_states[p] = t.chunk_states[p] /\ told.world[p].dimension = dest
    BY <1>2, <1>5 DEF Sound, With
<1>7. /\ Sound(there, D) /\ cs \in Windows /\ cs.center = chunk_from_world(Spawn)
      /\ ResyncEvents(t.chunk_states[p], dest, cs) \in Seq(Event)
      /\ there.world = told.world
      /\ there.chunk_states = With(told.chunk_states, p, cs)
      /\ there.events = SentTo(told.events, {p}, ResyncEvents(t.chunk_states[p], dest, cs))
    <2>1. Spawn \in Position
        BY SpawnInside DEF Inside
    <2> DEFINE c == told.chunk_states[p]
               d == told.world[p].dimension
               new_cs == Recentred(c, Spawn)
    <2> HIDE DEF cs
    <2>2. /\ Sound(there, D) /\ ResyncEvents(c, d, new_cs) \in Seq(Event)
          /\ new_cs \in Windows /\ new_cs.center = chunk_from_world(Spawn)
          /\ there.world = told.world
          /\ there.chunk_states = With(told.chunk_states, p, new_cs)
          /\ there.events = SentTo(told.events, {p}, ResyncEvents(c, d, new_cs))
        <3>1. Resynced(there, told, D, p, Spawn)
            BY <1>5, <2>1, SoundResync
        <3>2. QED
            BY <3>1, Zenon DEF Resynced
    <2>3. c = t.chunk_states[p] /\ d = dest /\ new_cs = cs
        BY <1>6 DEF cs
    <2> HIDE DEF c, d, new_cs, there
    <2>4. QED
        BY <2>2, <2>3
<1> HIDE DEF there, cs
<1>8. /\ Sound(new, D) /\ new.world = there.world /\ new.chunk_states = there.chunk_states
      /\ new.events = SentTo(there.events, {p}, Arrival(dest))
    BY <1>1, <1>4, <1>7, SoundTo
<1>9. new.events = TransferredTo(t.events, p, t.chunk_states[p], dest, cs)
    BY <1>2, <1>5, <1>7, <1>8, Zenon DEF TransferredTo, respawn
<1>10. new.world = With(t.world, p, [at |-> Spawn, dimension |-> dest])
       /\ new.chunk_states = With(t.chunk_states, p, cs)
    BY <1>2, <1>5, <1>7, <1>8
<1>11. QED
    BY <1>3, <1>4, <1>7, <1>8, <1>9, <1>10, Zenon DEF Transferred, new, cs, respawn

-----------------------------------------------------------------------------
(* The messages to the tick thread *)

\* What a message may be about.
MessageSound(m) ==
    /\ m.player \in Players
    /\ m.type = "PlayerPositionUpdate" => m.value \in Position
    /\ m.type = "SetBlock" => m.value \in Changes
    /\ m.type = "SetClientViewDistance" => m.value \in ViewDistances

\* A join is the first of its session, of a player who is not there and has not
\* been; a player has left only when their session has ended.
JoinsFirst(i) ==
    LET m == messages[i]
    IN m.type = "PlayerJoined" =>
         /\ m.player \notin Online \cup heard /\ m.player \in settled
         /\ \A j \in 1..i - 1 : messages[j].player # m.player

LeavesEnded(i) == messages[i].type = "PlayerLeft" => messages[i].player \notin running

MessagesSound ==
    /\ IsQueue(messages)
    /\ \A i \in 1..Len(messages) : MessageSound(messages[i]) /\ JoinsFirst(i) /\ LeavesEnded(i)

\* A message that is not a join is sent.
LEMMA MessageSent ==
    ASSUME MessagesSound, NEW m, MessageSound(m), m.type # "PlayerJoined",
           m.type = "PlayerLeft" => m.player \notin running',
           messages' = Append(messages, m), running' \subseteq running,
           UNCHANGED <<world, heard, settled>>
    PROVE  MessagesSound'
<1>1. /\ IsQueue(messages') /\ Len(messages) \in Nat /\ Len(messages') = Len(messages) + 1
      /\ \A i \in 1..Len(messages) : messages'[i] = messages[i]
      /\ messages'[Len(messages) + 1] = m
    BY QueueAppended DEF MessagesSound
<1>2. ASSUME NEW i \in 1..Len(messages')
      PROVE  MessageSound(messages'[i]) /\ JoinsFirst(i)' /\ LeavesEnded(i)'
    <2>1. CASE i \in 1..Len(messages)
        <3>1. MessageSound(messages[i]) /\ JoinsFirst(i) /\ LeavesEnded(i)
            BY <2>1 DEF MessagesSound
        <3>2. messages'[i] = messages[i] /\ \A j \in 1..i - 1 : messages'[j] = messages[j]
            BY <1>1, <2>1
        <3>3. QED
            BY <3>1, <3>2 DEF JoinsFirst, LeavesEnded, Online
    <2>2. CASE i = Len(messages) + 1
        BY <1>1, <2>2 DEF JoinsFirst, LeavesEnded
    <2>3. QED
        BY <1>1, <2>1, <2>2
<1>3. QED
    BY <1>1, <1>2 DEF MessagesSound

LEMMA JoinSent ==
    ASSUME MessagesSound, NEW p \in Players, Connect(p)
    PROVE  MessagesSound'
<1> DEFINE m == Message(p, "PlayerJoined", "join")
<1>1. m.player = p /\ m.type = "PlayerJoined"
    BY DEF Message
<1> HIDE DEF m
<1>2. /\ messages' = Append(messages, m) /\ running' = running \cup {p}
      /\ p \notin Online \cup heard /\ p \in settled
      /\ \A i \in DOMAIN messages : messages[i].player # p
      /\ world' = world /\ heard' = heard /\ settled' = settled
    BY DEF Connect, Send, m, tick
<1>3. /\ IsQueue(messages') /\ Len(messages) \in Nat /\ Len(messages') = Len(messages) + 1
      /\ \A i \in 1..Len(messages) : messages'[i] = messages[i]
      /\ messages'[Len(messages) + 1] = m
    BY <1>2, QueueAppended DEF MessagesSound
<1>4. DOMAIN messages = 1..Len(messages)
    BY LenProperties DEF MessagesSound, IsQueue
<1>5. ASSUME NEW i \in 1..Len(messages')
      PROVE  MessageSound(messages'[i]) /\ JoinsFirst(i)' /\ LeavesEnded(i)'
    <2>1. CASE i \in 1..Len(messages)
        <3>1. MessageSound(messages[i]) /\ JoinsFirst(i) /\ LeavesEnded(i)
            BY <2>1 DEF MessagesSound
        <3>2. messages'[i] = messages[i] /\ \A j \in 1..i - 1 : messages'[j] = messages[j]
            BY <1>3, <2>1
        <3>3. messages[i].player # p
            BY <1>2, <1>4, <2>1
        <3>4. QED
            BY <1>2, <3>1, <3>2, <3>3 DEF JoinsFirst, LeavesEnded, Online
    <2>2. CASE i = Len(messages) + 1
        <3>1. MessageSound(messages'[i]) /\ LeavesEnded(i)'
            BY <1>1, <1>3, <2>2 DEF MessageSound, LeavesEnded
        <3>2. ASSUME NEW j \in 1..i - 1 PROVE messages'[j].player # p
            BY <1>2, <1>3, <1>4, <2>2
        <3>3. JoinsFirst(i)'
            BY <1>1, <1>2, <1>3, <2>2, <3>2 DEF JoinsFirst, Online
        <3>4. QED
            BY <3>1, <3>3
    <2>3. QED
        BY <1>3, <2>1, <2>2
<1>6. QED
    BY <1>3, <1>5 DEF MessagesSound

\* The answers to what is polled are sent.
LEMMA AnswersQueued ==
    ASSUME MessagesSound, NEW p \in Players, PollEvents(p), events \in [Players -> Seq(Event)]
    PROVE  LET answers == Polled(p).answers
           IN /\ answers \in Seq(Inside)
              /\ IsQueue(messages') /\ Len(messages) \in Nat /\ Len(answers) \in Nat
              /\ Len(messages') = Len(messages) + Len(answers)
              /\ \A i \in 1..Len(messages) : messages'[i] = messages[i]
              /\ \A i \in 1..Len(answers) :
                   messages'[Len(messages) + i] = PositionUpdate(p, answers[i])
<1> DEFINE answers == Polled(p).answers
           sent == [i \in DOMAIN answers |-> PositionUpdate(p, answers[i])]
<1>1. answers \in Seq(Inside)
    <2>1. <<>> \in Seq(Inside) /\ events[p] \in Seq(Event)
        BY EmptySeq
    <2>2. Polled(p) = AllHandled([view |-> client[p], answers |-> <<>>], events[p])
        BY DEF Polled, AllHandled
    <2>3. QED
        BY <2>1, <2>2, AnswersInside
<1>2. messages' = messages \o sent
    BY DEF PollEvents
<1> HIDE DEF answers
<1>3. Len(answers) \in Nat /\ DOMAIN answers = 1..Len(answers)
    BY <1>1, LenProperties
<1>4. IsQueue(sent) /\ Len(sent) = Len(answers)
    <2>1. \A i \in 1..Len(answers) : PositionUpdate(p, answers[i]) \in Range(sent)
        BY <1>3 DEF Range
    <2>2. sent \in Seq(Range(sent))
        BY <1>3, <2>1
    <2>3. QED
        BY <1>3, <2>2, LenProperties DEF IsQueue
<1>5. \A i \in 1..Len(answers) : sent[i] = PositionUpdate(p, answers[i])
    BY <1>3
<1> HIDE DEF sent
<1>6. IsQueue(messages') /\ Continues(messages', messages, sent)
    <2>1. IsQueue(messages) /\ messages' = messages \o sent
        BY <1>2 DEF MessagesSound, sent
    <2>2. QED
        BY <1>4, <2>1, QueueJoined
<1>7. QED
    BY <1>1, <1>3, <1>4, <1>5, <1>6 DEF Continues, answers

LEMMA AnswersSent ==
    ASSUME MessagesSound, NEW p \in Players, PollEvents(p), events \in [Players -> Seq(Event)]
    PROVE  MessagesSound'
<1> DEFINE answers == Polled(p).answers
           n == Len(messages)
<1>1. /\ answers \in Seq(Inside)
      /\ IsQueue(messages') /\ n \in Nat /\ Len(answers) \in Nat
      /\ Len(messages') = n + Len(answers)
      /\ \A i \in 1..n : messages'[i] = messages[i]
      /\ \A i \in 1..Len(answers) : messages'[n + i] = PositionUpdate(p, answers[i])
    BY AnswersQueued
<1>2. UNCHANGED <<world, heard, settled, running>>
    BY DEF PollEvents, marks
<1> HIDE DEF answers
<1>3. ASSUME NEW i \in 1..Len(answers)
      PROVE  LET m == PositionUpdate(p, answers[i])
             IN MessageSound(m) /\ m.type = "PlayerPositionUpdate"
    <2>1. answers[i] \in Position
        BY <1>1, ElementOfSeq DEF Inside
    <2>2. PositionUpdate(p, answers[i])
            = [player |-> p, type |-> "PlayerPositionUpdate", value |-> answers[i]]
        BY DEF PositionUpdate, Message
    <2>3. QED
        BY <2>1, <2>2 DEF MessageSound
<1>4. ASSUME NEW i \in 1..Len(messages')
      PROVE  MessageSound(messages'[i]) /\ JoinsFirst(i)' /\ LeavesEnded(i)'
    <2>1. CASE i \in 1..n
        <3>1. MessageSound(messages[i]) /\ JoinsFirst(i) /\ LeavesEnded(i)
            BY <2>1 DEF MessagesSound
        <3>2. i \in 1..n /\ \A j \in 1..i - 1 : j \in 1..n
            BY <1>1, <2>1
        <3>3. messages'[i] = messages[i] /\ \A j \in 1..i - 1 : messages'[j] = messages[j]
            BY <1>1, <3>2
        <3>4. QED
            BY <1>2, <3>1, <3>3 DEF JoinsFirst, LeavesEnded, Online
    <2>2. CASE ~(i \in 1..n)
        <3>1. i - n \in 1..Len(answers) /\ n + (i - n) = i
            BY <1>1, <2>2
        <3>2. messages'[i] = PositionUpdate(p, answers[i - n])
            BY <1>1, <3>1
        <3>3. MessageSound(messages'[i]) /\ messages'[i].type = "PlayerPositionUpdate"
            BY <1>3, <3>1, <3>2
        <3>4. QED
            BY <3>3 DEF JoinsFirst, LeavesEnded
    <2>3. QED
        BY <2>1, <2>2
<1>5. QED
    BY <1>1, <1>4 DEF MessagesSound

\* A message is taken; only of its player may there be a change.
LEMMA MessageTaken ==
    ASSUME MessagesSound, messages # <<>>, messages' = Tail(messages), running' = running,
           (Online \cup heard)' \subseteq Online \cup heard \cup {Head(messages).player},
           settled \subseteq settled' \cup {Head(messages).player}
    PROVE  MessagesSound'
<1>1. /\ IsQueue(messages') /\ Len(messages) \in Nat /\ Len(messages') = Len(messages) - 1
      /\ Head(messages) = messages[1]
      /\ \A i \in 1..Len(messages) - 1 : messages'[i] = messages[i + 1]
    BY QueueTaken DEF MessagesSound
<1>2. ASSUME NEW i \in 1..Len(messages')
      PROVE  MessageSound(messages'[i]) /\ JoinsFirst(i)' /\ LeavesEnded(i)'
    <2> DEFINE k == i + 1
               m == messages[k]
    <2>1. k \in 1..Len(messages) /\ messages'[i] = m /\ 1 \in 1..k - 1
        BY <1>1
    <2>2. MessageSound(m) /\ JoinsFirst(k) /\ LeavesEnded(k)
        BY <2>1 DEF MessagesSound
    <2>3. \A j \in 1..i - 1 : j + 1 \in 1..k - 1 /\ messages'[j] = messages[j + 1]
        BY <1>1, <2>1
    <2>4. LeavesEnded(i)'
        BY <2>1, <2>2 DEF LeavesEnded
    <2>5. ASSUME m.type = "PlayerJoined"
          PROVE  /\ m.player \notin (Online \cup heard)' /\ m.player \in settled'
                 /\ \A j \in 1..i - 1 : messages'[j].player # m.player
        <3>1. /\ m.player \notin Online \cup heard /\ m.player \in settled
              /\ \A j \in 1..k - 1 : messages[j].player # m.player
            BY <2>2, <2>5 DEF JoinsFirst
        <3>2. Head(messages).player # m.player
            BY <1>1, <2>1, <3>1
        <3> HIDE DEF m, k
        <3>3. QED
            BY <2>3, <3>1, <3>2
    <2> HIDE DEF m, k
    <2>6. JoinsFirst(i)'
        BY <2>1, <2>5 DEF JoinsFirst
    <2>7. QED
        BY <2>1, <2>2, <2>4, <2>6
<1>3. QED
    BY <1>1, <1>2 DEF MessagesSound

-----------------------------------------------------------------------------
(* The inductive invariant *)

Tables ==
    /\ Sound(Before, Online) /\ Online \subseteq Players
    /\ overrides \in [DimensionId -> Deltas] /\ mobs \subseteq DOMAIN MobHome
    /\ is_dead \subseteq Online /\ running \subseteq Players

Centred == \A p \in Online \cap heard : chunk_states[p].center = chunk_from_world(world[p].at)

ViewInv == MessagesSound /\ Tables /\ Centred

\* Who is online, and what the tick thread keeps of them.
LEMMA BeforeSound ==
    ASSUME Tables
    PROVE  /\ Before.world = world /\ Before.chunk_states = chunk_states
           /\ Before.cooldowns = portal_cooldowns /\ Before.events = events
           /\ world \in [Online -> [at : Inside, dimension : Habitable]]
           /\ chunk_states \in [Online -> Windows]
           /\ DOMAIN portal_cooldowns \subseteq Online
           /\ events \in [Players -> Seq(Event)]
BY DEF Tables, Sound, Before

LEMMA AfterSound ==
    ASSUME NEW t, NEW D, Sound(t, D), After(t)
    PROVE  /\ Sound(Before, Online)' /\ Online' = D
           /\ world' = t.world /\ chunk_states' = t.chunk_states /\ events' = t.events
<1>1. /\ world' = t.world /\ chunk_states' = t.chunk_states
      /\ portal_cooldowns' = t.cooldowns /\ events' = t.events
    BY DEF After
<1>2. Online' = D
    BY <1>1 DEF Online, Sound
<1>3. QED
    BY <1>1, <1>2 DEF Sound, Before

\* What is known of the message that is handled.
LEMMA HeadSound ==
    ASSUME MessagesSound, messages # <<>>, NEW m, m = Head(messages)
    PROVE  /\ MessageSound(m)
           /\ m.type = "PlayerJoined" => m.player \notin Online \cup heard /\ m.player \in settled
           /\ m.type = "PlayerLeft" => m.player \notin running
<1>1. m = messages[1] /\ 1 \in 1..Len(messages)
    BY QueueTaken DEF MessagesSound
<1>2. MessageSound(m) /\ JoinsFirst(1) /\ LeavesEnded(1)
    BY <1>1 DEF MessagesSound
<1>3. QED
    BY <1>1, <1>2 DEF JoinsFirst, LeavesEnded

\* A sequence of all the elements of a set.
LEMMA AllInSequence ==
    ASSUME NEW S, IsFiniteSet(S)
    PROVE  /\ SetToSeq(S) \in Seq(S) /\ Len(SetToSeq(S)) = Cardinality(S)
           /\ DOMAIN SetToSeq(S) = 1..Cardinality(S) /\ Cardinality(S) \in Nat
           /\ \A x \in S : \E i \in 1..Cardinality(S) : SetToSeq(S)[i] = x
<1> DEFINE n == Cardinality(S)
           s == SetToSeq(S)
<1>1. n \in Nat /\ ExistsBijection(1..n, S)
    BY FS_CardinalityType
<1>2. \E f \in [1..n -> S] : IsInjective(f)
    BY <1>1 DEF ExistsBijection, Bijection, Injection
<1>3. s \in [1..n -> S] /\ IsInjective(s)
    BY <1>2 DEF SetToSeq
<1> HIDE DEF s
<1>4. s \in Seq(S) /\ Len(s) = n /\ DOMAIN s = 1..n
    BY <1>1, <1>3
<1>5. s \in Injection(1..n, S)
    BY <1>3 DEF Injection
<1>6. IsFiniteSet(1..n) /\ Cardinality(1..n) = n
    BY <1>1, FS_Interval
<1>7. s \in Surjection(1..n, S)
    BY <1>5, <1>6, FS_Injection
<1>8. \A x \in S : \E i \in 1..n : s[i] = x
    BY <1>7 DEF Surjection
<1>9. QED
    BY <1>1, <1>4, <1>8 DEF s

-----------------------------------------------------------------------------
(* The steps of the tick thread *)

\* The events a player who joins is sent.
WelcomeEvents(others) ==
    LET all == SetToSeq(others)
        deltas == get_client_block_deltas(overrides, "Overworld",
                                          desired_chunks(<<0, 0>>, InitialRadius))
    IN [i \in DOMAIN all |-> PlayerJoinedEvent(all[i], world[all[i]].at)]
         \o If(deltas # <<>>, <<ChunkBlockOverrides(deltas)>>)
         \o SyncMobs("Overworld")

LEMMA WelcomeSound ==
    ASSUME Tables, NEW others \in SUBSET Online
    PROVE  /\ WelcomeEvents(others) \in Seq(Event)
           /\ [i \in DOMAIN SetToSeq(others) |->
                 PlayerJoinedEvent(SetToSeq(others)[i], world[SetToSeq(others)[i]].at)] \in Seq(Event)
           /\ If(get_client_block_deltas(overrides, "Overworld",
                                         desired_chunks(<<0, 0>>, InitialRadius)) # <<>>,
                 <<ChunkBlockOverrides(get_client_block_deltas(overrides, "Overworld",
                                         desired_chunks(<<0, 0>>, InitialRadius)))>>) \in Seq(Event)
           /\ SyncMobs("Overworld") \in Seq(Event)
<1> DEFINE all == SetToSeq(others)
           n == Cardinality(others)
           deltas == get_client_block_deltas(overrides, "Overworld",
                                             desired_chunks(<<0, 0>>, InitialRadius))
           spawns == [i \in DOMAIN all |-> PlayerJoinedEvent(all[i], world[all[i]].at)]
           built == If(deltas # <<>>, <<ChunkBlockOverrides(deltas)>>)
<1>1. all \in Seq(others) /\ DOMAIN all = 1..n /\ n \in Nat /\ Len(all) = n
    <2>1. IsFiniteSet(others)
        BY ViewAssumption, FS_Subset DEF Tables
    <2>2. QED
        BY <2>1, AllInSequence
<1> HIDE DEF all, n
<1>2. ASSUME NEW i \in 1..n
      PROVE  PlayerJoinedEvent(all[i], world[all[i]].at) \in Event
    <2>1. all[i] \in others
        BY <1>1, ElementOfSeq
    <2>2. all[i] \in Players /\ world[all[i]].at \in Inside
        BY <2>1, BeforeSound DEF Tables
    <2>3. QED
        BY <2>2 DEF PlayerJoinedEvent, Event
<1>3. spawns \in Seq(Event)
    BY <1>1, <1>2
<1>4. built \in Seq(Event)
    <2>1. deltas \in Deltas
        BY ClientBlockDeltas DEF Tables, DimensionId
    <2> HIDE DEF deltas
    <2>2. ChunkBlockOverrides(deltas) \in Event
        BY <2>1 DEF ChunkBlockOverrides, Event
    <2>3. QED
        BY <2>2, OneEvent, EventsIf
<1>5. SyncMobs("Overworld") \in Seq(Event)
    BY SyncMobsEvents DEF Tables
<1>6. WelcomeEvents(others) = spawns \o built \o SyncMobs("Overworld")
    BY Zenon DEF WelcomeEvents, all
<1> HIDE DEF spawns, built
<1>7. WelcomeEvents(others) \in Seq(Event)
    BY <1>3, <1>4, <1>5, <1>6, MoreEvents
<1>8. QED
    BY <1>3, <1>4, <1>5, <1>7, Zenon DEF spawns, built, all

\* What a step that handles a message has to do for the invariant to be kept.
LEMMA HandlerKeeps ==
    ASSUME ViewInv, messages # <<>>, messages' = Tail(messages), running' = running,
           NEW p, p = Head(messages).player,
           NEW t, NEW D, Sound(t, D), After(t), D \subseteq Online \cup {p}, p \in Players,
           heard' \subseteq heard \cup {p}, settled \subseteq settled' \cup {p},
           overrides' \in [DimensionId -> Deltas], mobs' \subseteq mobs, is_dead' \subseteq D,
           \A q \in D \cap heard' : t.chunk_states[q].center = chunk_from_world(t.world[q].at)
    PROVE  ViewInv'
<1>1. /\ Sound(Before, Online)' /\ Online' = D
      /\ world' = t.world /\ chunk_states' = t.chunk_states
    BY AfterSound
<1>2. Tables'
    BY <1>1 DEF ViewInv, Tables
<1>3. Centred'
    BY <1>1 DEF Centred
<1>4. MessagesSound'
    <2>1. (Online \cup heard)' \subseteq Online \cup heard \cup {Head(messages).player}
        BY <1>1
    <2>2. QED
        BY <2>1, MessageTaken DEF ViewInv
<1>5. QED
    BY <1>2, <1>3, <1>4 DEF ViewInv

\* Each step of the tick thread keeps the invariant; and what it sends to whom.
JoinStep(p, at) ==
    LET others == InDimension(Before, "Overworld")
    IN /\ p \in Players /\ p \notin Online \cup heard /\ p \in settled /\ at \in Inside
       /\ world' = Put(world, p, [at |-> at, dimension |-> "Overworld"])
       /\ chunk_states' = Put(chunk_states, p, PlayerChunkState(ServerViewDistance))
       /\ others \subseteq Online
       /\ events' = SentTo(SentTo(events, others, <<PlayerJoinedEvent(p, at)>>),
                           {p}, WelcomeEvents(others))
       /\ messages' = Tail(messages)
       /\ UNCHANGED <<is_dead, overrides, mobs, client, running, marks>>

LEMMA PlayerJoinedStep ==
    ASSUME ViewInv, PlayerJoined
    PROVE  ViewInv' /\ \E p, at : p = Head(messages).player /\ JoinStep(p, at)
<1>1. PICK m \in {Head(messages)}, at \in {Spawn} \cup {clamp_horizontal(s) : s \in SavedPlaces} :
        LET p == m.player
            others == InDimension(Before, "Overworld")
            added == [Before EXCEPT !.world = Put(@, p, [at |-> at, dimension |-> "Overworld"]),
                                    !.chunk_states = Put(@, p, PlayerChunkState(ServerViewDistance))]
        IN /\ Handles("PlayerJoined", m)
           /\ After(To(To(added, others, <<PlayerJoinedEvent(p, at)>>), {p}, WelcomeEvents(others)))
           /\ UNCHANGED <<is_dead, overrides, mobs, client, running, marks>>
    BY Zenon DEF PlayerJoined, WelcomeEvents
<1> DEFINE p == m.player
           others == InDimension(Before, "Overworld")
           added == [Before EXCEPT !.world = Put(@, p, [at |-> at, dimension |-> "Overworld"]),
                                   !.chunk_states = Put(@, p, PlayerChunkState(ServerViewDistance))]
           joined == <<PlayerJoinedEvent(p, at)>>
           D == Online \cup {p}
<1>2. /\ m = Head(messages) /\ messages # <<>> /\ m.type = "PlayerJoined"
      /\ messages' = Tail(messages)
      /\ UNCHANGED <<is_dead, overrides, mobs, client, running, marks>>
    BY <1>1 DEF Handles
<1>3. p \in Players /\ p \notin Online \cup heard /\ p \in settled
    BY <1>2, HeadSound DEF ViewInv, MessageSound
<1>4. at \in Inside
    BY SpawnInside, Clamps, ViewAssumption DEF Position
<1>5. Tables
    BY DEF ViewInv
<1> HIDE DEF p
<1>6. /\ Sound(added, D)
      /\ added.world = Put(world, p, [at |-> at, dimension |-> "Overworld"])
      /\ added.chunk_states = Put(chunk_states, p, PlayerChunkState(ServerViewDistance))
      /\ added.events = events
    <2> DEFINE w == Put(world, p, [at |-> at, dimension |-> "Overworld"])
               c == Put(chunk_states, p, PlayerChunkState(ServerViewDistance))
    <2>1. w \in [D -> [at : Inside, dimension : Habitable]]
        <3>1. [at |-> at, dimension |-> "Overworld"] \in [at : Inside, dimension : Habitable]
            BY <1>4 DEF Habitable
        <3>2. QED
            BY <1>5, <3>1, BeforeSound DEF Put
    <2>2. c \in [D -> Windows]
        BY <1>5, BeforeSound, JoinWindow DEF Put
    <2>3. added = [world |-> w, chunk_states |-> c, cooldowns |-> portal_cooldowns,
                   events |-> events]
        <3>1. /\ Before.world = world /\ Before.chunk_states = chunk_states
              /\ Before.cooldowns = portal_cooldowns /\ Before.events = events
              /\ DOMAIN Before = {"world", "chunk_states", "cooldowns", "events"}
            BY DEF Before
        <3>2. added = [Before EXCEPT !.world = w, !.chunk_states = c]
            BY <3>1
        <3> HIDE DEF w, c, added
        <3>3. QED
            BY <3>2 DEF Before
    <2> HIDE DEF w, c
    <2>4. QED
        BY <1>5, <2>1, <2>2, <2>3, BeforeSound DEF Sound, w, c
<1>7. joined \in Seq(Event)
    <2>1. PlayerJoinedEvent(p, at) \in Event
        BY <1>3, <1>4 DEF PlayerJoinedEvent, Event
    <2>2. QED
        BY <2>1, OneEvent
<1>8. others \subseteq Online /\ WelcomeEvents(others) \in Seq(Event)
    <2>1. others \subseteq Online
        BY <1>5, BeforeSound DEF InDimension, Online
    <2>2. QED
        BY <1>5, <2>1, WelcomeSound
<1>9. After(To(To(added, others, joined), {p}, WelcomeEvents(others)))
    BY <1>1, Zenon DEF p
<1> HIDE DEF added, joined, others
<1> DEFINE told == To(added, others, joined)
           t == To(told, {p}, WelcomeEvents(others))
<1>10. /\ Sound(told, D) /\ told.world = added.world /\ told.chunk_states = added.chunk_states
       /\ told.events = SentTo(added.events, others, joined)
    BY <1>6, <1>7, SoundTo
<1> HIDE DEF told
<1>11. /\ Sound(t, D) /\ t.world = told.world /\ t.chunk_states = told.chunk_states
       /\ t.events = SentTo(told.events, {p}, WelcomeEvents(others))
    BY <1>8, <1>10, SoundTo
<1>12. After(t)
    BY <1>9 DEF told
<1> HIDE DEF t, D
<1>13. ViewInv'
    <2>1. \A q \in D \cap heard' : t.chunk_states[q].center = chunk_from_world(t.world[q].at)
        <3>1. TAKE q \in D \cap heard'
        <3>2. q \in Online \cap heard /\ q # p
            BY <1>2, <1>3 DEF D, marks
        <3>3. t.chunk_states[q] = chunk_states[q] /\ t.world[q] = world[q]
            BY <1>5, <1>6, <1>10, <1>11, <3>2, BeforeSound DEF Put
        <3>4. QED
            BY <3>2, <3>3 DEF ViewInv, Centred
    <2>2. /\ D \subseteq Online \cup {p} /\ heard' \subseteq heard \cup {p}
          /\ settled \subseteq settled' \cup {p} /\ running' = running
          /\ overrides' \in [DimensionId -> Deltas] /\ mobs' \subseteq mobs /\ is_dead' \subseteq D
        BY <1>2, <1>5 DEF D, marks, Tables
    <2>3. p = Head(messages).player
        BY <1>2 DEF p
    <2>4. QED
        BY <1>2, <1>3, <1>11, <1>12, <2>1, <2>2, <2>3, HandlerKeeps
<1>14. JoinStep(p, at)
    <2>1. world' = t.world /\ chunk_states' = t.chunk_states /\ events' = t.events
        BY <1>12 DEF After
    <2>2. /\ world' = Put(world, p, [at |-> at, dimension |-> "Overworld"])
          /\ chunk_states' = Put(chunk_states, p, PlayerChunkState(ServerViewDistance))
          /\ events' = SentTo(SentTo(events, others, joined), {p}, WelcomeEvents(others))
        BY <1>6, <1>10, <1>11, <2>1
    <2>3. QED
        BY <1>2, <1>3, <1>4, <1>8, <2>2, Zenon DEF JoinStep, others, joined
<1>15. QED
    BY <1>2, <1>13, <1>14 DEF p

LeaveStep(p) ==
    /\ p \in Players /\ p \notin running
    /\ world' = Without(world, {p}) /\ chunk_states' = Without(chunk_states, {p})
    /\ events' = SentTo(events, Online \ {p}, If(p \in Online, <<PlayerLeftEvent(p)>>))
    /\ heard' = heard \cup {p}
    /\ messages' = Tail(messages)
    /\ UNCHANGED <<overrides, mobs, client, running, settled, acts>>

LEMMA PlayerLeftStep ==
    ASSUME ViewInv, PlayerLeft
    PROVE  ViewInv' /\ LeaveStep(Head(messages).player)
<1> DEFINE m == Head(messages)
           p == m.player
           gone == [Before EXCEPT !.world = Without(@, {p}), !.chunk_states = Without(@, {p}),
                                  !.cooldowns = Without(@, {p})]
           D == Online \ {p}
           left == If(p \in Online, <<PlayerLeftEvent(p)>>)
           t == To(gone, DOMAIN gone.world, left)
<1>1. /\ Handles("PlayerLeft", m) /\ After(t)
      /\ is_dead' = is_dead \ {p} /\ heard' = heard \cup {p}
      /\ UNCHANGED <<overrides, mobs, client, running, settled, acts>>
    BY DEF PlayerLeft
<1>2. messages # <<>> /\ m.type = "PlayerLeft" /\ messages' = Tail(messages)
    BY <1>1 DEF Handles
<1>3. p \in Players /\ p \notin running
    BY <1>2, HeadSound DEF ViewInv, MessageSound
<1>4. Tables
    BY DEF ViewInv
<1> HIDE DEF p
<1>5. /\ Sound(gone, D) /\ gone.world = Without(world, {p})
      /\ gone.chunk_states = Without(chunk_states, {p}) /\ gone.events = events
    <2> DEFINE w == Without(world, {p})
               c == Without(chunk_states, {p})
               o == Without(portal_cooldowns, {p})
    <2>1. w \in [D -> [at : Inside, dimension : Habitable]] /\ c \in [D -> Windows]
          /\ DOMAIN o \subseteq D
        BY <1>4, BeforeSound DEF Without
    <2>2. gone = [world |-> w, chunk_states |-> c, cooldowns |-> o, events |-> events]
        <3>1. /\ Before.world = world /\ Before.chunk_states = chunk_states
              /\ Before.cooldowns = portal_cooldowns /\ Before.events = events
              /\ DOMAIN Before = {"world", "chunk_states", "cooldowns", "events"}
            BY DEF Before
        <3>2. gone = [Before EXCEPT !.world = w, !.chunk_states = c, !.cooldowns = o]
            BY <3>1
        <3> HIDE DEF w, c, o, gone
        <3>3. QED
            BY <3>2 DEF Before
    <2> HIDE DEF w, c, o, gone
    <2>3. QED
        BY <1>4, <2>1, <2>2, BeforeSound DEF Sound, w, c
<1>6. left \in Seq(Event)
    <2>1. PlayerLeftEvent(p) \in Event
        BY <1>3 DEF PlayerLeftEvent, Event
    <2>2. QED
        BY <2>1, OneEvent, EmptySeq DEF If
<1>7. DOMAIN gone.world = D
    BY <1>5 DEF Sound
<1> HIDE DEF gone, left
<1>8. /\ Sound(t, D) /\ t.world = gone.world /\ t.chunk_states = gone.chunk_states
      /\ t.events = SentTo(gone.events, DOMAIN gone.world, left)
    BY <1>5, <1>6, SoundTo
<1>9. After(t)
    BY <1>1
<1> HIDE DEF t
<1>10. ViewInv'
    <2>1. \A q \in D \cap heard' : t.chunk_states[q].center = chunk_from_world(t.world[q].at)
        <3>1. TAKE q \in D \cap heard'
        <3>2. q \in Online \cap heard /\ q # p
            BY <1>1
        <3>3. t.chunk_states[q] = chunk_states[q] /\ t.world[q] = world[q]
            BY <1>4, <1>5, <1>8, <3>2, BeforeSound DEF Without
        <3>4. QED
            BY <3>2, <3>3 DEF ViewInv, Centred
    <2>2. /\ D \subseteq Online \cup {p} /\ heard' \subseteq heard \cup {p}
          /\ settled \subseteq settled' \cup {p} /\ running' = running
          /\ overrides' \in [DimensionId -> Deltas] /\ mobs' \subseteq mobs /\ is_dead' \subseteq D
        BY <1>1, <1>4 DEF Tables
    <2>3. p = Head(messages).player
        BY DEF p
    <2> HIDE DEF D
    <2>4. QED
        BY <1>2, <1>3, <1>8, <1>9, <2>1, <2>2, <2>3, HandlerKeeps
<1>11. LeaveStep(p)
    <2>1. world' = t.world /\ chunk_states' = t.chunk_states /\ events' = t.events
        BY <1>9 DEF After
    <2>2. /\ world' = Without(world, {p}) /\ chunk_states' = Without(chunk_states, {p})
          /\ events' = SentTo(events, Online \ {p}, left)
        BY <1>5, <1>7, <1>8, <2>1
    <2>3. QED
        BY <1>1, <1>2, <1>3, <2>2 DEF LeaveStep, left
<1>12. QED
    BY <1>10, <1>11 DEF p

\* A block is set in the dimension of the player, or in the overworld.
SetBlockStep(dim, at, state) ==
    /\ dim \in DimensionId /\ at \in Position /\ state \in BlockState /\ <<at, state>> \in Changes
    /\ overrides' = set_block(overrides, dim, at, state)
    /\ events' = SentTo(events, InDimension(Before, dim), <<BlockUpdate(at, state)>>)
    /\ messages' = Tail(messages)
    /\ UNCHANGED <<world, chunk_states, is_dead, mobs, client, running, marks>>

LEMMA SetBlockStepKeeps ==
    ASSUME ViewInv, SetBlock
    PROVE  ViewInv' /\ \E dim, at, state : SetBlockStep(dim, at, state)
<1> DEFINE m == Head(messages)
           p == m.player
           dim == IF p \in Online THEN world[p].dimension ELSE "Overworld"
           at == m.value[1]
           state == m.value[2]
           t == To(Before, InDimension(Before, dim), <<BlockUpdate(at, state)>>)
<1>1. /\ Handles("SetBlock", m) /\ After(t)
      /\ overrides' = set_block(overrides, dim, at, state)
      /\ UNCHANGED <<is_dead, mobs, client, running, marks>>
    BY DEF SetBlock
<1>2. messages # <<>> /\ m.type = "SetBlock" /\ messages' = Tail(messages)
    BY <1>1 DEF Handles
<1>3. p \in Players /\ m.value \in Changes
    BY <1>2, HeadSound DEF ViewInv, MessageSound
<1>4. at \in Position /\ state \in BlockState /\ <<at, state>> \in Changes
    BY <1>3, ViewAssumption DEF Position
<1>5. Tables
    BY DEF ViewInv
<1>6. dim \in DimensionId
    <2>1. CASE p \in Online
        <3>1. world[p].dimension \in Habitable
            BY <1>5, <2>1, BeforeSound
        <3>2. QED
            BY <2>1, <3>1, HabitableDimensions
    <2>2. CASE p \notin Online
        BY <2>2 DEF DimensionId
    <2>3. QED
        BY <2>1, <2>2
<1> HIDE DEF dim, at, state
<1>7. BlockUpdate(at, state) \in Event /\ overrides' \in [DimensionId -> Deltas]
    BY <1>1, <1>4, <1>5, <1>6, SetBlockKeeps DEF Tables
<1>8. /\ Sound(t, Online) /\ t.world = world /\ t.chunk_states = chunk_states
      /\ t.events = SentTo(events, InDimension(Before, dim), <<BlockUpdate(at, state)>>)
    <2>1. <<BlockUpdate(at, state)>> \in Seq(Event) /\ Sound(Before, Online)
        BY <1>5, <1>7, OneEvent DEF Tables
    <2>2. /\ Sound(t, Online) /\ t.world = Before.world /\ t.chunk_states = Before.chunk_states
          /\ t.events = SentTo(Before.events, InDimension(Before, dim), <<BlockUpdate(at, state)>>)
        BY <2>1, SoundTo
    <2>3. QED
        BY <1>5, <2>2, BeforeSound
<1>9. After(t)
    BY <1>1
<1> HIDE DEF t
<1>10. ViewInv'
    <2>1. \A q \in Online \cap heard' : t.chunk_states[q].center = chunk_from_world(t.world[q].at)
        BY <1>1, <1>8 DEF ViewInv, Centred, marks
    <2>2. /\ Online \subseteq Online \cup {p} /\ heard' \subseteq heard \cup {p}
          /\ settled \subseteq settled' \cup {p} /\ running' = running
          /\ mobs' \subseteq mobs /\ is_dead' \subseteq Online
        BY <1>1, <1>5 DEF Tables, marks
    <2>3. QED
        BY <1>2, <1>3, <1>7, <1>8, <1>9, <2>1, <2>2, HandlerKeeps
<1>11. SetBlockStep(dim, at, state)
    BY <1>1, <1>2, <1>4, <1>6, <1>8, <1>9 DEF SetBlockStep, After
<1>12. QED
    BY <1>10, <1>11

\* A message that changes nothing but that it is taken.
IdleStep ==
    /\ messages' = Tail(messages)
    /\ UNCHANGED <<world, chunk_states, events, is_dead, overrides, mobs, client, running, marks>>

LEMMA IdleKeeps ==
    ASSUME ViewInv, messages # <<>>, IdleStep, portal_cooldowns' = portal_cooldowns
    PROVE  ViewInv'
<1>1. Sound(Before, Online) /\ After(Before)
    BY DEF ViewInv, Tables, After, Before, IdleStep
<1>2. Head(messages).player \in Players
    BY HeadSound DEF ViewInv, MessageSound
<1>3. \A q \in Online \cap heard' : Before.chunk_states[q].center = chunk_from_world(Before.world[q].at)
    BY DEF IdleStep, ViewInv, Centred, marks, Before
<1>4. /\ messages' = Tail(messages) /\ running' = running
      /\ heard' \subseteq heard /\ settled \subseteq settled'
      /\ overrides' \in [DimensionId -> Deltas] /\ mobs' \subseteq mobs /\ is_dead' \subseteq Online
    BY DEF IdleStep, ViewInv, Tables, marks
<1>5. QED
    BY <1>1, <1>2, <1>3, <1>4, HandlerKeeps

\* A new window around the centre there was.
DistanceStep(p, cs) ==
    /\ p \in Online /\ cs \in Windows /\ cs.center = chunk_states[p].center
    /\ chunk_states' = With(chunk_states, p, cs)
    /\ events' = SentTo(events, {p}, WindowEvents(chunk_states[p], world[p].dimension, cs, FALSE))
    /\ WindowEvents(chunk_states[p], world[p].dimension, cs, FALSE) \in Seq(Event)
    /\ messages' = Tail(messages)
    /\ UNCHANGED <<world, is_dead, overrides, mobs, client, running, marks>>

LEMMA SetClientViewDistanceStep ==
    ASSUME ViewInv, SetClientViewDistance
    PROVE  ViewInv' /\ (IdleStep \/ \E p, cs : DistanceStep(p, cs))
<1> DEFINE m == Head(messages)
           p == m.player
           cs == update_view_distance(chunk_states[p], m.value)
           t == Window(Before, p, cs, FALSE)
<1>1. /\ Handles("SetClientViewDistance", m)
      /\ After(IF p \notin Online THEN Before ELSE t)
      /\ UNCHANGED <<is_dead, overrides, mobs, client, running, marks>>
    BY DEF SetClientViewDistance
<1>2. messages # <<>> /\ m.type = "SetClientViewDistance" /\ messages' = Tail(messages)
    BY <1>1 DEF Handles
<1>3. p \in Players /\ m.value \in ViewDistances
    BY <1>2, HeadSound DEF ViewInv, MessageSound
<1>4. Tables /\ Sound(Before, Online)
    BY DEF ViewInv, Tables
<1>5. CASE p \notin Online
    <2>1. IdleStep /\ portal_cooldowns' = portal_cooldowns
        BY <1>1, <1>2, <1>5 DEF IdleStep, After, Before
    <2>2. QED
        BY <1>2, <2>1, IdleKeeps
<1>6. CASE p \in Online
    <2>1. cs \in Windows /\ cs.center = chunk_states[p].center
        <3>1. chunk_states[p] \in Windows /\ m.value \in Int
            BY <1>3, <1>4, <1>6, BeforeSound, ViewAssumption
        <3>2. QED
            BY <3>1, UpdateViewDistanceWindow
    <2> HIDE DEF cs, p
    <2>2. Windowed(t, Before, Online, p, cs, FALSE)
        BY <1>4, <1>6, <2>1, SoundWindow DEF Tables
    <2>3. After(t)
        BY <1>1, <1>6
    <2> HIDE DEF t
    <2>4. /\ Sound(t, Online) /\ t.world = world /\ t.chunk_states = With(chunk_states, p, cs)
          /\ t.events = SentTo(events, {p}, WindowEvents(chunk_states[p], world[p].dimension, cs, FALSE))
          /\ WindowEvents(chunk_states[p], world[p].dimension, cs, FALSE) \in Seq(Event)
        BY <1>4, <2>2, BeforeSound DEF Windowed
    <2>5. ViewInv'
        <3>1. \A q \in Online \cap heard' : t.chunk_states[q].center = chunk_from_world(t.world[q].at)
            <4>1. TAKE q \in Online \cap heard'
            <4>2. q \in Online \cap heard
                BY <1>1 DEF marks
            <4>3. t.chunk_states[q].center = chunk_states[q].center
                BY <1>4, <2>1, <2>4, <4>2, BeforeSound DEF With
            <4>4. QED
                BY <2>4, <4>2, <4>3 DEF ViewInv, Centred
        <3>2. /\ heard' \subseteq heard \cup {p} /\ settled \subseteq settled' \cup {p} /\ running' = running
              /\ overrides' \in [DimensionId -> Deltas] /\ mobs' \subseteq mobs /\ is_dead' \subseteq Online
            BY <1>1, <1>4 DEF Tables, marks
        <3>3. p = Head(messages).player /\ Online \subseteq Online \cup {p}
            BY DEF p
        <3>4. QED
            BY <1>2, <1>3, <2>3, <2>4, <3>1, <3>2, <3>3, HandlerKeeps
    <2>6. DistanceStep(p, cs)
        BY <1>1, <1>2, <1>6, <2>1, <2>3, <2>4 DEF DistanceStep, After
    <2>7. QED
        BY <2>5, <2>6
<1>7. QED
    BY <1>5, <1>6

\* A mob is killed.
KillStep(id) ==
    /\ id \in mobs /\ mobs' = mobs \ {id}
    /\ events' = SentTo(events, InDimension(Before, MobHome[id]), <<RemoveEntities({id})>>)
    /\ RemoveEntities({id}) \in Event
    /\ messages' = Tail(messages)
    /\ UNCHANGED <<world, chunk_states, is_dead, overrides, client, running, marks>>

LEMMA InteractEntityStep ==
    ASSUME ViewInv, InteractEntity
    PROVE  ViewInv' /\ (IdleStep \/ \E id : KillStep(id))
<1> DEFINE m == Head(messages)
           id == m.value
           hit == m.player \in Online /\ id \in mobs /\ MobHome[id] = world[m.player].dimension
           near == InDimension(Before, MobHome[id])
           t == To(Before, near, <<RemoveEntities({id})>>)
<1>1. PICK died \in BOOLEAN :
        /\ Handles("InteractEntity", m)
        /\ IF hit /\ died THEN mobs' = mobs \ {id} /\ After(t) ELSE UNCHANGED <<tick, mobs>>
        /\ UNCHANGED <<is_dead, overrides, client, running, marks>>
    BY DEF InteractEntity
<1>2. messages # <<>> /\ messages' = Tail(messages)
    BY <1>1 DEF Handles
<1>3. m.player \in Players
    BY <1>2, HeadSound DEF ViewInv, MessageSound
<1>4. Tables /\ Sound(Before, Online)
    BY DEF ViewInv, Tables
<1>5. CASE ~(hit /\ died)
    <2>1. IdleStep /\ portal_cooldowns' = portal_cooldowns
        BY <1>1, <1>2, <1>5 DEF IdleStep, tick
    <2>2. QED
        BY <1>2, <2>1, IdleKeeps
<1>6. CASE hit /\ died
    <2>1. id \in mobs /\ mobs' = mobs \ {id} /\ After(t)
        BY <1>1, <1>6
    <2> HIDE DEF id, near
    <2>2. RemoveEntities({id}) \in Event
        BY <1>4, <2>1 DEF Tables, RemoveEntities, Event
    <2>3. /\ Sound(t, Online) /\ t.world = world /\ t.chunk_states = chunk_states
          /\ t.events = SentTo(events, near, <<RemoveEntities({id})>>)
        <3>1. <<RemoveEntities({id})>> \in Seq(Event)
            BY <2>2, OneEvent
        <3>2. /\ Sound(t, Online) /\ t.world = Before.world /\ t.chunk_states = Before.chunk_states
              /\ t.events = SentTo(Before.events, near, <<RemoveEntities({id})>>)
            BY <1>4, <3>1, SoundTo
        <3>3. QED
            BY <1>4, <3>2, BeforeSound
    <2> HIDE DEF t
    <2>4. ViewInv'
        <3>1. \A q \in Online \cap heard' : t.chunk_states[q].center = chunk_from_world(t.world[q].at)
            BY <1>1, <2>3 DEF ViewInv, Centred, marks
        <3>2. /\ heard' \subseteq heard /\ settled \subseteq settled' /\ running' = running
              /\ overrides' \in [DimensionId -> Deltas] /\ mobs' \subseteq mobs /\ is_dead' \subseteq Online
            BY <1>1, <1>4, <2>1 DEF Tables, marks
        <3>3. QED
            BY <1>2, <1>3, <2>1, <2>3, <3>1, <3>2, HandlerKeeps
    <2>5. KillStep(id)
        BY <1>1, <1>2, <2>1, <2>2, <2>3 DEF KillStep, After, near
    <2>6. QED
        BY <2>4, <2>5
<1>7. QED
    BY <1>5, <1>6

\* A player changes dimension.
TransferStep(p, dest) ==
    LET cs == Recentred(chunk_states[p], Spawn)
    IN /\ p \in Online /\ dest \in EnabledDimensions
       /\ cs \in Windows
       /\ <<RespawnPlayer(dest, Spawn, TRUE)>> \in Seq(Event)
       /\ ResyncEvents(chunk_states[p], dest, cs) \in Seq(Event) /\ Arrival(dest) \in Seq(Event)
       /\ world' = With(world, p, [at |-> Spawn, dimension |-> dest])
       /\ chunk_states' = With(chunk_states, p, cs)
       /\ events' = TransferredTo(events, p, chunk_states[p], dest, cs)
       /\ heard' = heard \cup {p} /\ settled' = settled \ {p}
       /\ messages' = Tail(messages)
       /\ UNCHANGED <<is_dead, overrides, mobs, client, running, acts>>

LEMMA ChatMessageStep ==
    ASSUME ViewInv, ChatMessage
    PROVE  ViewInv' /\ (IdleStep \/ \E p, dest : TransferStep(p, dest))
<1> DEFINE m == Head(messages)
           p == m.player
           dest == m.value
           transfers == Transfers(Before, p, dest)
           t == transfer_player_dimension(Before, p, dest)
           cs == Recentred(chunk_states[p], Spawn)
<1>1. /\ Handles("ChatMessage", m)
      /\ After(IF transfers THEN t ELSE Before)
      /\ heard' = (IF transfers THEN heard \cup {p} ELSE heard)
      /\ settled' = (IF transfers THEN settled \ {p} ELSE settled)
      /\ UNCHANGED <<is_dead, overrides, mobs, client, running, acts>>
    BY DEF ChatMessage
<1>2. messages # <<>> /\ messages' = Tail(messages)
    BY <1>1 DEF Handles
<1>3. p \in Players
    BY <1>2, HeadSound DEF ViewInv, MessageSound
<1>4. Tables /\ Sound(Before, Online)
    BY DEF ViewInv, Tables
<1>5. CASE ~transfers
    <2>1. IdleStep /\ portal_cooldowns' = portal_cooldowns
        BY <1>1, <1>2, <1>5 DEF IdleStep, After, Before, marks
    <2>2. QED
        BY <1>2, <2>1, IdleKeeps
<1>6. CASE transfers
    <2>1. p \in Online /\ dest \in EnabledDimensions
        BY <1>4, <1>6, BeforeSound DEF Transfers
    <2>2. heard' = heard \cup {p} /\ settled' = settled \ {p} /\ After(t)
        BY <1>1, <1>6
    <2> HIDE DEF p, dest, transfers
    <2>3. Transferred(t, Before, Online, p, dest)
        BY <1>4, <2>1, SoundTransfer DEF Tables
    <2> HIDE DEF t
    <2>4. /\ Sound(t, Online) /\ cs \in Windows /\ cs.center = chunk_from_world(Spawn)
          /\ <<RespawnPlayer(dest, Spawn, TRUE)>> \in Seq(Event)
          /\ ResyncEvents(chunk_states[p], dest, cs) \in Seq(Event) /\ Arrival(dest) \in Seq(Event)
          /\ t.world = With(world, p, [at |-> Spawn, dimension |-> dest])
          /\ t.chunk_states = With(chunk_states, p, cs)
          /\ t.events = TransferredTo(events, p, chunk_states[p], dest, cs)
        BY <1>4, <2>3, BeforeSound DEF Transferred
    <2> HIDE DEF cs
    <2>5. ViewInv'
        <3>1. \A q \in Online \cap heard' : t.chunk_states[q].center = chunk_from_world(t.world[q].at)
            <4>1. TAKE q \in Online \cap heard'
            <4>2. CASE q = p
                BY <1>4, <2>1, <2>4, <4>2, BeforeSound DEF With
            <4>3. CASE q # p
                <5>1. q \in Online \cap heard
                    BY <2>2, <4>3
                <5>2. t.chunk_states[q] = chunk_states[q] /\ t.world[q] = world[q]
                    BY <1>4, <2>4, <4>3, <5>1, BeforeSound DEF With
                <5>3. QED
                    BY <5>1, <5>2 DEF ViewInv, Centred
            <4>4. QED
                BY <4>2, <4>3
        <3>2. /\ heard' \subseteq heard \cup {p} /\ settled \subseteq settled' \cup {p} /\ running' = running
              /\ overrides' \in [DimensionId -> Deltas] /\ mobs' \subseteq mobs /\ is_dead' \subseteq Online
            BY <1>1, <1>4, <2>2 DEF Tables
        <3>3. p = Head(messages).player /\ Online \subseteq Online \cup {p}
            BY DEF p
        <3>4. QED
            BY <1>2, <1>3, <2>2, <2>4, <3>1, <3>2, <3>3, HandlerKeeps
    <2>6. TransferStep(p, dest)
        <3>1. world' = t.world /\ chunk_states' = t.chunk_states /\ events' = t.events
            BY <2>2 DEF After
        <3>2. QED
            BY <1>1, <1>2, <2>1, <2>2, <2>4, <3>1 DEF TransferStep, cs
    <2>7. QED
        BY <2>5, <2>6
<1>7. QED
    BY <1>5, <1>6

\* A dead player respawns.
RespawnStep(p) ==
    LET dim == world[p].dimension
        cs == Recentred(chunk_states[p], Spawn)
        respawn == <<RespawnPlayer(dim, Spawn, FALSE)>>
    IN /\ p \in Online /\ cs \in Windows
       /\ respawn \in Seq(Event) /\ ResyncEvents(chunk_states[p], dim, cs) \in Seq(Event)
       /\ SyncMobs(dim) \in Seq(Event)
       /\ world' = With(world, p, [at |-> Spawn, dimension |-> dim])
       /\ chunk_states' = With(chunk_states, p, cs)
       /\ events' = SentTo(SentTo(SentTo(events, {p}, respawn),
                                  {p}, ResyncEvents(chunk_states[p], dim, cs)),
                           {p}, SyncMobs(dim))
       /\ heard' = heard \cup {p} /\ settled' = settled \ {p}
       /\ messages' = Tail(messages)
       /\ UNCHANGED <<overrides, mobs, client, running, acts>>

LEMMA ClientStatusStep ==
    ASSUME ViewInv, ClientStatus
    PROVE  ViewInv' /\ (IdleStep \/ \E p : RespawnStep(p))
<1> DEFINE m == Head(messages)
           p == m.player
           dim == world[p].dimension
           placed == [Before EXCEPT !.world[p].at = Spawn]
           respawn == <<RespawnPlayer(dim, Spawn, FALSE)>>
           told == To(placed, {p}, respawn)
           there == resync_player_chunks(told, p, Spawn)
           t == To(there, {p}, SyncMobs(dim))
           cs == Recentred(chunk_states[p], Spawn)
<1>1. /\ Handles("ClientStatus", m)
      /\ IF p \in is_dead
         THEN /\ After(t) /\ is_dead' = is_dead \ {p}
              /\ heard' = heard \cup {p} /\ settled' = settled \ {p}
         ELSE UNCHANGED <<tick, is_dead, heard, settled>>
      /\ UNCHANGED <<overrides, mobs, client, running, acts>>
    BY DEF ClientStatus
<1>2. messages # <<>> /\ messages' = Tail(messages)
    BY <1>1 DEF Handles
<1>3. p \in Players
    BY <1>2, HeadSound DEF ViewInv, MessageSound
<1>4. Tables /\ Sound(Before, Online)
    BY DEF ViewInv, Tables
<1>5. CASE p \notin is_dead
    <2>1. IdleStep /\ portal_cooldowns' = portal_cooldowns
        BY <1>1, <1>2, <1>5 DEF IdleStep, tick, marks
    <2>2. QED
        BY <1>2, <2>1, IdleKeeps
<1>6. CASE p \in is_dead
    <2>1. p \in Online
        BY <1>4, <1>6 DEF Tables
    <2>2. /\ heard' = heard \cup {p} /\ settled' = settled \ {p} /\ is_dead' = is_dead \ {p}
          /\ After(t)
        BY <1>1, <1>6
    <2> HIDE DEF p
    <2>3. /\ Sound(placed, Online)
          /\ placed.world = With(world, p, [at |-> Spawn, dimension |-> dim])
          /\ placed.chunk_states = chunk_states /\ placed.events = events
        <3> DEFINE w == With(world, p, [at |-> Spawn, dimension |-> dim])
        <3>1. w \in [Online -> [at : Inside, dimension : Habitable]]
            <4>1. [at |-> Spawn, dimension |-> dim] \in [at : Inside, dimension : Habitable]
                BY <1>4, <2>1, BeforeSound, SpawnInside
            <4>2. QED
                BY <1>4, <4>1, BeforeSound DEF With
        <3>2. placed = [Before EXCEPT !.world = w]
            <4>1. [world[p] EXCEPT !.at = Spawn] = [at |-> Spawn, dimension |-> dim]
                BY <1>4, <2>1, BeforeSound
            <4>2. QED
                BY <1>4, <4>1, BeforeSound DEF With
        <3> HIDE DEF w, placed
        <3>3. QED
            BY <1>4, <3>1, <3>2, BeforeSound DEF Sound, w
    <2>4. dim \in Habitable /\ respawn \in Seq(Event)
        <3>1. dim \in Habitable
            BY <1>4, <2>1, BeforeSound
        <3> HIDE DEF dim
        <3>2. RespawnPlayer(dim, Spawn, FALSE) \in Event
            BY <3>1, SpawnInside DEF RespawnPlayer, Event, SynchronizingEvent
        <3>3. QED
            BY <3>1, <3>2, OneEvent
    <2>5. SyncMobs(dim) \in Seq(Event)
        BY <1>4, SyncMobsEvents DEF Tables
    <2> HIDE DEF placed, respawn, dim
    <2>6. /\ Sound(told, Online) /\ told.world = placed.world
          /\ told.chunk_states = placed.chunk_states
          /\ told.events = SentTo(placed.events, {p}, respawn)
        BY <2>3, <2>4, SoundTo
    <2> HIDE DEF told
    <2>7. told.world[p].dimension = dim
        BY <1>4, <2>1, <2>3, <2>6, BeforeSound DEF With
    <2>8. Resynced(there, told, Online, p, Spawn)
        <3>1. Spawn \in Position
            BY SpawnInside DEF Inside
        <3>2. QED
            BY <1>4, <2>1, <2>6, <3>1, SoundResync DEF Tables
    <2> HIDE DEF there
    <2>9. /\ Sound(there, Online) /\ cs \in Windows /\ cs.center = chunk_from_world(Spawn)
          /\ ResyncEvents(chunk_states[p], dim, cs) \in Seq(Event)
          /\ there.world = placed.world /\ there.chunk_states = With(chunk_states, p, cs)
          /\ there.events = SentTo(told.events, {p}, ResyncEvents(chunk_states[p], dim, cs))
        BY <2>3, <2>6, <2>7, <2>8 DEF Resynced
    <2> HIDE DEF cs
    <2>10. /\ Sound(t, Online) /\ t.world = there.world /\ t.chunk_states = there.chunk_states
           /\ t.events = SentTo(there.events, {p}, SyncMobs(dim))
        BY <2>5, <2>9, SoundTo
    <2> HIDE DEF t
    <2>11. /\ t.world = With(world, p, [at |-> Spawn, dimension |-> dim])
           /\ t.chunk_states = With(chunk_states, p, cs)
        BY <2>3, <2>9, <2>10
    <2>12. ViewInv'
        <3>1. \A q \in Online \cap heard' : t.chunk_states[q].center = chunk_from_world(t.world[q].at)
            <4>1. TAKE q \in Online \cap heard'
            <4>2. CASE q = p
                BY <1>4, <2>1, <2>9, <2>11, <4>2, BeforeSound DEF With
            <4>3. CASE q # p
                <5>1. q \in Online \cap heard
                    BY <2>2, <4>3
                <5>2. t.chunk_states[q] = chunk_states[q] /\ t.world[q] = world[q]
                    BY <1>4, <2>11, <4>3, <5>1, BeforeSound DEF With
                <5>3. QED
                    BY <5>1, <5>2 DEF ViewInv, Centred
            <4>4. QED
                BY <4>2, <4>3
        <3>2. /\ heard' \subseteq heard \cup {p} /\ settled \subseteq settled' \cup {p} /\ running' = running
              /\ overrides' \in [DimensionId -> Deltas] /\ mobs' \subseteq mobs /\ is_dead' \subseteq Online
            BY <1>1, <1>4, <2>2 DEF Tables
        <3>3. p = Head(messages).player /\ Online \subseteq Online \cup {p}
            BY DEF p
        <3>4. QED
            BY <1>2, <1>3, <2>2, <2>10, <3>1, <3>2, <3>3, HandlerKeeps
    <2>13. RespawnStep(p)
        <3>1. world' = t.world /\ chunk_states' = t.chunk_states /\ events' = t.events
            BY <2>2 DEF After
        <3>2. events' = SentTo(SentTo(SentTo(events, {p}, respawn),
                                      {p}, ResyncEvents(chunk_states[p], dim, cs)),
                               {p}, SyncMobs(dim))
            BY <2>3, <2>6, <2>9, <2>10, <3>1
        <3>3. QED
            BY <1>1, <1>2, <2>1, <2>2, <2>4, <2>5, <2>9, <2>11, <3>1, <3>2
            DEF RespawnStep, cs, dim, respawn
    <2>14. QED
        BY <2>12, <2>13
<1>7. QED
    BY <1>5, <1>6

\* A player stays or goes somewhere, perhaps through a portal.
Own(raw, new) == If(new # raw, <<SynchronizePosition(new)>>)
Moves(p, new) == If(new # world[p].at, <<EntityMovement(p, world[p].at, new)>>)

MovedEvents(p, raw, new) ==
    SentTo(SentTo(events, {p}, Own(raw, new)),
           InDimension(Before, world[p].dimension) \ {p}, Moves(p, new))

Centering(p, new) ==
    WindowEvents(chunk_states[p], world[p].dimension,
                 update_center(chunk_states[p], chunk_from_world(new)),
                 chunk_states[p].center # chunk_from_world(new))

GoneEvents(p, raw, new) == SentTo(MovedEvents(p, raw, new), {p}, Centering(p, new))

PositionStep(p, raw, new) ==
    /\ p = Head(messages).player /\ raw = Head(messages).value
    /\ Head(messages).type = "PlayerPositionUpdate"
    /\ p \in Online /\ new \in Inside
    /\ Own(raw, new) \in Seq(Event) /\ Moves(p, new) \in Seq(Event)
    /\ messages' = Tail(messages)
    /\ UNCHANGED <<is_dead, overrides, mobs, client, running, acts>>

StayStep(p, raw, new) ==
    /\ PositionStep(p, raw, new) /\ new = world[p].at
    /\ events' = MovedEvents(p, raw, new)
    /\ UNCHANGED <<world, chunk_states, heard, settled>>

GoStep(p, raw, new) ==
    LET cs == update_center(chunk_states[p], chunk_from_world(new))
    IN /\ PositionStep(p, raw, new) /\ new # world[p].at
       /\ cs \in Windows /\ Centering(p, new) \in Seq(Event)
       /\ world' = With(world, p, [at |-> new, dimension |-> world[p].dimension])
       /\ chunk_states' = With(chunk_states, p, cs)
       /\ events' = GoneEvents(p, raw, new)
       /\ heard' = heard \cup {p} /\ settled' = settled

PortalStep(p, raw, new, dest) ==
    LET cs == update_center(chunk_states[p], chunk_from_world(new))
        there == Recentred(cs, Spawn)
    IN /\ PositionStep(p, raw, new) /\ new # world[p].at /\ dest \in EnabledDimensions
       /\ cs \in Windows /\ Centering(p, new) \in Seq(Event)
       /\ there \in Windows
       /\ <<RespawnPlayer(dest, Spawn, TRUE)>> \in Seq(Event)
       /\ ResyncEvents(cs, dest, there) \in Seq(Event) /\ Arrival(dest) \in Seq(Event)
       /\ world' = With(world, p, [at |-> Spawn, dimension |-> dest])
       /\ chunk_states' = With(chunk_states, p, there)
       /\ events' = TransferredTo(GoneEvents(p, raw, new), p, cs, dest, there)
       /\ heard' = heard \cup {p} /\ settled' = settled \ {p}

LEMMA WithTwice ==
    ASSUME NEW f, NEW p \in DOMAIN f, NEW a, NEW b
    PROVE  With(With(f, p, a), p, b) = With(f, p, b) /\ With(f, p, a)[p] = a
BY DEF With

\* What the handler of a position packet does for a player who is online.
IsMoved(p, raw) ==
    \E new \in Resolved(world[p].at, clamp_horizontal(raw)) :
      LET dim == world[p].dimension
          center == chunk_from_world(new)
          moved == Moved(Before, p, raw, new)
          seen == IF new = world[p].at THEN moved
                  ELSE Window(moved, p, update_center(chunk_states[p], center),
                              chunk_states[p].center # center)
          off == p \notin DOMAIN portal_cooldowns \/ portal_cooldowns[p] = 0
          dest == {d \in portal_destination(dim, get_block(overrides, dim, new)) :
                     new # world[p].at /\ off /\ Transfers(Before, p, d)}
      IN /\ After(IF dest = {} THEN seen
                  ELSE transfer_player_dimension(seen, p, CHOOSE d \in dest : TRUE))
         /\ heard' = IF new = world[p].at THEN heard ELSE heard \cup {p}
         /\ settled' = IF dest = {} THEN settled ELSE settled \ {p}

LEMMA PlayerPositionUpdateStep ==
    ASSUME ViewInv, PlayerPositionUpdate
    PROVE  /\ ViewInv'
           /\ \/ IdleStep /\ Head(messages).player \notin Online
              \/ \E p, raw, new : \/ StayStep(p, raw, new) \/ GoStep(p, raw, new)
                                 \/ \E dest : PortalStep(p, raw, new, dest)
<1> DEFINE m == Head(messages)
           p == m.player
           raw == m.value
<1>1. /\ Handles("PlayerPositionUpdate", m)
      /\ UNCHANGED <<is_dead, overrides, mobs, client, running, acts>>
    BY DEF PlayerPositionUpdate
<1>2. messages # <<>> /\ messages' = Tail(messages) /\ m.type = "PlayerPositionUpdate"
    BY <1>1 DEF Handles
<1>3. p \in Players /\ raw \in Position
    BY <1>2, HeadSound DEF ViewInv, MessageSound
<1>4. Tables /\ Sound(Before, Online)
    BY DEF ViewInv, Tables
<1>5. CASE p \notin Online
    <2>1. UNCHANGED <<tick, heard, settled>>
        BY <1>5 DEF PlayerPositionUpdate
    <2>2. IdleStep /\ portal_cooldowns' = portal_cooldowns
        BY <1>1, <1>2, <2>1 DEF IdleStep, tick, marks
    <2>3. QED
        BY <1>2, <1>5, <2>2, IdleKeeps
<1>6. CASE p \in Online
    <2> DEFINE old == world[p].at
               dim == world[p].dimension
               Moving(new) == Moved(Before, p, raw, new)
               Seen(new) == IF new = old THEN Moving(new)
                            ELSE Window(Moving(new), p, update_center(chunk_states[p], chunk_from_world(new)),
                                        chunk_states[p].center # chunk_from_world(new))
               off == p \notin DOMAIN portal_cooldowns \/ portal_cooldowns[p] = 0
               Dest(new) == {d \in portal_destination(dim, get_block(overrides, dim, new)) :
                               new # world[p].at /\ off /\ Transfers(Before, p, d)}
    <2>1. PICK new \in Resolved(old, clamp_horizontal(raw)) :
            /\ After(IF Dest(new) = {} THEN Seen(new)
                     ELSE transfer_player_dimension(Seen(new), p, CHOOSE d \in Dest(new) : TRUE))
            /\ heard' = (IF new = old THEN heard ELSE heard \cup {p})
            /\ settled' = (IF Dest(new) = {} THEN settled ELSE settled \ {p})
        <3>1. \E n \in {m} : n.player \in Online => IsMoved(n.player, n.value)
            BY Zenon DEF PlayerPositionUpdate, IsMoved
        <3>2. IsMoved(p, raw)
            <4> HIDE DEF m
            <4>1. m.player \in Online => IsMoved(m.player, m.value)
                BY <3>1
            <4>2. QED
                BY <1>6, <4>1
        <3>3. QED
            BY <3>2, Zenon DEF IsMoved
    <2> DEFINE moving == Moving(new)
               seen == Seen(new)
               center == chunk_from_world(new)
               cs == update_center(chunk_states[p], center)
               recentred == chunk_states[p].center # center
               dests == Dest(new)
    <2>2. old \in Inside /\ new \in Inside
        <3>1. old \in Inside
            BY <1>4, <1>6, BeforeSound
        <3>2. clamp_horizontal(raw) \in Inside
            BY <1>3, Clamps
        <3>3. QED
            BY <2>1, <3>1, <3>2, ResolvedInside
    <2>3. MovedOn(moving, Before, Online, p, raw, new)
        BY <1>4, <1>6, <2>2, SoundMoved DEF Tables
    <2>4. cs \in Windows /\ cs.center = center
        <3>1. center \in Position /\ chunk_states[p] \in Windows
            BY <1>4, <1>6, <2>2, BeforeSound, ChunkOfPosition DEF Inside
        <3>2. QED
            BY <3>1, UpdateCenterWindow
    <2>5. \A d \in dests : d \in EnabledDimensions /\ new # old
        BY DEF Transfers
    <2>6. seen = IF new = old THEN moving ELSE Window(moving, p, cs, recentred)
        BY Zenon
    <2>7. /\ dests = {} => After(seen)
          /\ dests # {} => \E d \in dests : After(transfer_player_dimension(seen, p, d))
        BY <2>1
    <2>8. /\ heard' = (IF new = old THEN heard ELSE heard \cup {p})
          /\ settled' = (IF dests = {} THEN settled ELSE settled \ {p})
        BY <2>1
    <2> HIDE DEF moving, seen, cs, dests, recentred
    <2>9. /\ Sound(moving, Online)
          /\ Own(raw, new) \in Seq(Event) /\ Moves(p, new) \in Seq(Event)
          /\ moving.world = With(world, p, [at |-> new, dimension |-> dim])
          /\ moving.chunk_states = chunk_states
          /\ moving.events = MovedEvents(p, raw, new)
        BY <1>4, <2>3, BeforeSound DEF MovedOn, Own, Moves, MovedEvents
    <2>10. PositionStep(p, raw, new)
        BY <1>1, <1>2, <1>6, <2>2, <2>9 DEF PositionStep
    <2>11. CASE new = old
        <3>1. seen = moving /\ dests = {}
            BY <2>5, <2>6, <2>11
        <3>2. After(moving) /\ heard' = heard /\ settled' = settled
            BY <2>7, <2>8, <2>11, <3>1
        <3>3. moving.world = world
            BY <1>4, <1>6, <2>9, <2>11, BeforeSound DEF With
        <3>4. StayStep(p, raw, new)
            BY <2>9, <2>10, <2>11, <3>2, <3>3 DEF StayStep, After
        <3>5. ViewInv'
            <4>1. \A q \in Online \cap heard' :
                      moving.chunk_states[q].center = chunk_from_world(moving.world[q].at)
                BY <2>9, <3>2, <3>3 DEF ViewInv, Centred
            <4>2. /\ heard' \subseteq heard /\ settled \subseteq settled' /\ running' = running
                  /\ overrides' \in [DimensionId -> Deltas] /\ mobs' \subseteq mobs /\ is_dead' \subseteq Online
                BY <1>1, <1>4, <3>2 DEF Tables
            <4>3. QED
                BY <1>2, <1>3, <2>9, <3>2, <4>1, <4>2, HandlerKeeps
        <3>6. QED
            BY <3>4, <3>5
    <2>12. CASE new # old
        <3>1. seen = Window(moving, p, cs, recentred) /\ heard' = heard \cup {p}
            BY <2>6, <2>8, <2>12
        <3>2. moving.world[p].dimension = dim /\ recentred \in BOOLEAN
            BY <1>4, <1>6, <2>9, BeforeSound DEF With, recentred
        <3>3. Windowed(seen, moving, Online, p, cs, recentred)
            BY <1>4, <1>6, <2>4, <2>9, <3>1, <3>2, SoundWindow DEF Tables
        <3>4. /\ Sound(seen, Online) /\ Centering(p, new) \in Seq(Event)
              /\ seen.world = With(world, p, [at |-> new, dimension |-> dim])
              /\ seen.chunk_states = With(chunk_states, p, cs)
              /\ seen.events = GoneEvents(p, raw, new)
            <4>1. Centering(p, new) = WindowEvents(chunk_states[p], dim, cs, recentred)
                BY Zenon DEF Centering, cs, recentred
            <4>2. QED
                BY <2>9, <3>2, <3>3, <4>1 DEF Windowed, GoneEvents
        <3>5. CASE dests = {}
            <4>1. After(seen) /\ settled' = settled
                BY <2>7, <2>8, <3>5
            <4>2. GoStep(p, raw, new)
                <5>1. world' = seen.world /\ chunk_states' = seen.chunk_states /\ events' = seen.events
                    BY <4>1 DEF After
                <5>2. QED
                    BY <2>4, <2>10, <2>12, <3>1, <3>4, <4>1, <5>1 DEF GoStep, cs
            <4>3. ViewInv'
                <5>1. \A q \in Online \cap heard' :
                          seen.chunk_states[q].center = chunk_from_world(seen.world[q].at)
                    <6>1. TAKE q \in Online \cap heard'
                    <6>2. CASE q = p
                        BY <1>4, <1>6, <2>4, <3>4, <6>2, BeforeSound DEF With
                    <6>3. CASE q # p
                        <7>1. q \in Online \cap heard
                            BY <3>1, <6>3
                        <7>2. seen.chunk_states[q] = chunk_states[q] /\ seen.world[q] = world[q]
                            BY <1>4, <3>4, <6>3, <7>1, BeforeSound DEF With
                        <7>3. QED
                            BY <7>1, <7>2 DEF ViewInv, Centred
                    <6>4. QED
                        BY <6>2, <6>3
                <5>2. /\ heard' \subseteq heard \cup {p} /\ settled \subseteq settled' /\ running' = running
                      /\ overrides' \in [DimensionId -> Deltas] /\ mobs' \subseteq mobs /\ is_dead' \subseteq Online
                    BY <1>1, <1>4, <3>1, <4>1 DEF Tables
                <5>3. QED
                    BY <1>2, <1>3, <3>4, <4>1, <5>1, <5>2, HandlerKeeps
            <4>4. QED
                BY <4>2, <4>3
        <3>6. CASE dests # {}
            <4>1. PICK d \in dests : After(transfer_player_dimension(seen, p, d))
                BY <2>7, <3>6
            <4>2. d \in EnabledDimensions /\ settled' = settled \ {p}
                BY <2>5, <2>8, <3>6
            <4> DEFINE t == transfer_player_dimension(seen, p, d)
                       there == Recentred(cs, Spawn)
            <4>3. Transferred(t, seen, Online, p, d)
                BY <1>4, <1>6, <3>4, <4>2, SoundTransfer DEF Tables
            <4> HIDE DEF t
            <4>4. /\ p \in DOMAIN world /\ p \in DOMAIN chunk_states
                  /\ seen.chunk_states[p] = cs
                  /\ With(seen.chunk_states, p, there) = With(chunk_states, p, there)
                  /\ With(seen.world, p, [at |-> Spawn, dimension |-> d])
                       = With(world, p, [at |-> Spawn, dimension |-> d])
                <5>1. p \in DOMAIN world /\ p \in DOMAIN chunk_states
                    BY <1>4, <1>6, BeforeSound
                <5>2. QED
                    BY <3>4, <5>1, WithTwice
            <4>5. /\ Sound(t, Online) /\ there \in Windows /\ there.center = chunk_from_world(Spawn)
                  /\ <<RespawnPlayer(d, Spawn, TRUE)>> \in Seq(Event)
                  /\ ResyncEvents(cs, d, there) \in Seq(Event) /\ Arrival(d) \in Seq(Event)
                  /\ t.world = With(world, p, [at |-> Spawn, dimension |-> d])
                  /\ t.chunk_states = With(chunk_states, p, there)
                  /\ t.events = TransferredTo(GoneEvents(p, raw, new), p, cs, d, there)
                BY <3>4, <4>3, <4>4 DEF Transferred
            <4> HIDE DEF there
            <4>6. PortalStep(p, raw, new, d)
                <5>1. world' = t.world /\ chunk_states' = t.chunk_states /\ events' = t.events
                    BY <4>1 DEF After, t
                <5>2. QED
                    BY <2>4, <2>10, <2>12, <3>1, <3>4, <4>2, <4>5, <5>1 DEF PortalStep, cs, there
            <4>7. ViewInv'
                <5>1. \A q \in Online \cap heard' :
                          t.chunk_states[q].center = chunk_from_world(t.world[q].at)
                    <6>1. TAKE q \in Online \cap heard'
                    <6>2. CASE q = p
                        BY <1>4, <1>6, <4>5, <6>2, BeforeSound DEF With
                    <6>3. CASE q # p
                        <7>1. q \in Online \cap heard
                            BY <3>1, <6>3
                        <7>2. t.chunk_states[q] = chunk_states[q] /\ t.world[q] = world[q]
                            BY <1>4, <4>5, <6>3, <7>1, BeforeSound DEF With
                        <7>3. QED
                            BY <7>1, <7>2 DEF ViewInv, Centred
                    <6>4. QED
                        BY <6>2, <6>3
                <5>2. /\ heard' \subseteq heard \cup {p} /\ settled \subseteq settled' \cup {p} /\ running' = running
                      /\ overrides' \in [DimensionId -> Deltas] /\ mobs' \subseteq mobs /\ is_dead' \subseteq Online
                    BY <1>1, <1>4, <3>1, <4>2 DEF Tables
                <5>3. After(t)
                    BY <4>1 DEF t
                <5>4. QED
                    BY <1>2, <1>3, <4>5, <5>1, <5>2, <5>3, HandlerKeeps
            <4>8. QED
                BY <4>6, <4>7
        <3>7. QED
            BY <3>5, <3>6
    <2>13. QED
        BY <2>11, <2>12
<1>7. QED
    BY <1>5, <1>6

-----------------------------------------------------------------------------
(* The steps of the sessions, and of the clock *)

\* What a step may change that neither sends an event nor touches what the tick
\* thread keeps of a player's place and window.
Elsewhere == UNCHANGED <<world, chunk_states, overrides, mobs, heard, settled>>

LEMMA ElsewhereKeeps ==
    ASSUME ViewInv, Elsewhere, events' \in [Players -> Seq(Event)],
           DOMAIN portal_cooldowns' \subseteq DOMAIN portal_cooldowns,
           is_dead' \subseteq Online, running' \subseteq Players
    PROVE  Tables' /\ Centred'
<1>1. /\ Tables /\ Centred
      /\ world' = world /\ chunk_states' = chunk_states /\ overrides' = overrides /\ mobs' = mobs
      /\ heard' = heard
    BY DEF ViewInv, Elsewhere
<1>2. Online' = Online
    BY <1>1 DEF Online
<1>3. Centred'
    BY <1>1, <1>2 DEF Centred
<1>4. Sound(Before, Online)'
    BY <1>1, <1>2, BeforeSound DEF Sound, Before
<1>5. QED
    BY <1>1, <1>2, <1>3, <1>4 DEF Tables

\* A message that a client sends while it plays.
TellStep(p, m) ==
    /\ p \in running /\ m.player = p /\ MessageSound(m)
    /\ m.type \notin {"PlayerJoined", "PlayerLeft"}
    /\ messages' = Append(messages, m)
    /\ UNCHANGED <<tick, is_dead, overrides, mobs, heard, settled, running>>
    /\ \/ client' = client /\ m.type # "PlayerPositionUpdate"
       \/ /\ m.type = "PlayerPositionUpdate"
          /\ client' = [client EXCEPT ![p].at = m.value]

Tells(p) ==
    \/ ClientMoves(p) \/ ClientInformation(p) \/ ClientSetsBlock(p)
    \/ ClientTypes(p) \/ ClientRespawns(p) \/ ClientAttacks(p)

LEMMA ClientTells ==
    ASSUME NEW p \in Players, Tells(p)
    PROVE  \E m : TellStep(p, m)
<1>1. CASE ClientMoves(p)
    <2>1. PICK at \in Places :
             Send(PositionUpdate(p, at)) /\ client' = [client EXCEPT ![p].at = at]
        BY <1>1 DEF ClientMoves
    <2>2. at \in Position
        BY ViewAssumption DEF Position
    <2>3. TellStep(p, PositionUpdate(p, at))
        BY <1>1, <2>1, <2>2 DEF TellStep, ClientMoves, Send, PositionUpdate, Message, MessageSound
    <2>4. QED
        BY <2>3
<1>2. CASE ClientInformation(p)
    <2>1. PICK n \in ViewDistances : Send(Message(p, "SetClientViewDistance", n))
        BY <1>2 DEF ClientInformation
    <2>2. TellStep(p, Message(p, "SetClientViewDistance", n))
        BY <1>2, <2>1 DEF TellStep, ClientInformation, Send, Message, MessageSound
    <2>3. QED
        BY <2>2
<1>3. CASE ClientSetsBlock(p)
    <2>1. PICK c \in Changes : Send(Message(p, "SetBlock", c))
        BY <1>3 DEF ClientSetsBlock
    <2>2. TellStep(p, Message(p, "SetBlock", c))
        BY <1>3, <2>1 DEF TellStep, ClientSetsBlock, Send, Message, MessageSound
    <2>3. QED
        BY <2>2
<1>4. CASE ClientTypes(p)
    <2>1. PICK d \in DimensionId : Send(Message(p, "ChatMessage", d))
        BY <1>4 DEF ClientTypes
    <2>2. TellStep(p, Message(p, "ChatMessage", d))
        BY <1>4, <2>1 DEF TellStep, ClientTypes, Send, Message, MessageSound
    <2>3. QED
        BY <2>2
<1>5. CASE ClientRespawns(p)
    <2>1. TellStep(p, Message(p, "ClientStatus", 0))
        BY <1>5 DEF TellStep, ClientRespawns, Send, Message, MessageSound
    <2>2. QED
        BY <2>1
<1>6. CASE ClientAttacks(p)
    <2>1. PICK id \in client[p].mobs : Send(Message(p, "InteractEntity", id))
        BY <1>6 DEF ClientAttacks
    <2>2. TellStep(p, Message(p, "InteractEntity", id))
        BY <1>6, <2>1 DEF TellStep, ClientAttacks, Send, Message, MessageSound
    <2>3. QED
        BY <2>2
<1>7. QED
    BY <1>1, <1>2, <1>3, <1>4, <1>5, <1>6 DEF Tells

LEMMA TellKeeps ==
    ASSUME ViewInv, NEW p, NEW m, TellStep(p, m)
    PROVE  ViewInv'
<1>1. MessagesSound'
    BY MessageSent DEF ViewInv, TellStep, tick
<1>2. /\ Elsewhere /\ events' = events /\ portal_cooldowns' = portal_cooldowns
      /\ is_dead' = is_dead /\ running' = running
    BY DEF TellStep, tick, Elsewhere
<1>3. Tables' /\ Centred'
    BY <1>2, BeforeSound, ElsewhereKeeps DEF ViewInv, Tables
<1>4. QED
    BY <1>1, <1>3 DEF ViewInv

LEMMA ConnectKeeps ==
    ASSUME ViewInv, NEW p \in Players, Connect(p)
    PROVE  ViewInv'
<1>1. MessagesSound'
    BY JoinSent DEF ViewInv
<1>2. /\ Elsewhere /\ events' = events /\ portal_cooldowns' = portal_cooldowns
      /\ is_dead' = is_dead /\ running' = running \cup {p}
    BY DEF Connect, Send, tick, Elsewhere
<1>3. Tables' /\ Centred'
    BY <1>2, BeforeSound, ElsewhereKeeps DEF ViewInv, Tables
<1>4. QED
    BY <1>1, <1>3 DEF ViewInv

LEMMA DisconnectKeeps ==
    ASSUME ViewInv, NEW p \in Players, Disconnect(p)
    PROVE  ViewInv'
<1>1. MessagesSound'
    <2> DEFINE m == Message(p, "PlayerLeft", "left")
    <2>1. MessageSound(m) /\ m.type = "PlayerLeft" /\ m.player = p
        BY DEF Message, MessageSound
    <2> HIDE DEF m
    <2>2. /\ messages' = Append(messages, m) /\ running' = running \ {p}
          /\ UNCHANGED <<world, heard, settled>>
        BY DEF Disconnect, m
    <2>3. QED
        BY <2>1, <2>2, MessageSent DEF ViewInv
<1>2. /\ Elsewhere /\ portal_cooldowns' = portal_cooldowns /\ events' = [events EXCEPT ![p] = <<>>]
      /\ is_dead' = is_dead /\ running' = running \ {p}
    BY DEF Disconnect, Elsewhere
<1>3. events' \in [Players -> Seq(Event)]
    BY <1>2, BeforeSound, EmptySeq DEF ViewInv
<1>4. Tables' /\ Centred'
    BY <1>2, <1>3, ElsewhereKeeps DEF ViewInv, Tables
<1>5. QED
    BY <1>1, <1>4 DEF ViewInv

LEMMA PollEventsKeeps ==
    ASSUME ViewInv, NEW p \in Players, PollEvents(p)
    PROVE  ViewInv'
<1>1. events \in [Players -> Seq(Event)]
    BY BeforeSound DEF ViewInv
<1>2. MessagesSound'
    BY <1>1, AnswersSent DEF ViewInv
<1>3. /\ Elsewhere /\ portal_cooldowns' = portal_cooldowns /\ events' = [events EXCEPT ![p] = <<>>]
      /\ is_dead' = is_dead /\ running' = running
    BY DEF PollEvents, Elsewhere, marks
<1>4. events' \in [Players -> Seq(Event)]
    BY <1>1, <1>3, EmptySeq
<1>5. Tables' /\ Centred'
    BY <1>3, <1>4, ElsewhereKeeps DEF ViewInv, Tables
<1>6. QED
    BY <1>2, <1>5 DEF ViewInv

\* A death, a tick of the clock, or no step at all: no message is sent or taken.
LEMMA QuietKeeps ==
    ASSUME ViewInv, \/ \E p \in Players : Death(p)
                    \/ Cooldown
                    \/ UNCHANGED vars
    PROVE  ViewInv'
<1>1. /\ Elsewhere /\ events' = events /\ running' = running /\ messages' = messages
      /\ DOMAIN portal_cooldowns' = DOMAIN portal_cooldowns
      /\ is_dead' \subseteq Online
    <2>1. CASE \E p \in Players : Death(p)
        BY <2>1 DEF Death, tick, Elsewhere, ViewInv, Tables
    <2>2. CASE Cooldown
        BY <2>2 DEF Cooldown, Elsewhere, ViewInv, Tables, marks
    <2>3. CASE UNCHANGED vars
        BY <2>3 DEF vars, tick, marks, Elsewhere, ViewInv, Tables
    <2>4. QED
        BY <2>1, <2>2, <2>3
<1>2. Tables' /\ Centred'
    BY <1>1, BeforeSound, ElsewhereKeeps DEF ViewInv, Tables
<1>3. MessagesSound'
    <2>1. \A i \in 1..Len(messages) : JoinsFirst(i)' = JoinsFirst(i) /\ LeavesEnded(i)' = LeavesEnded(i)
        BY <1>1 DEF JoinsFirst, LeavesEnded, Elsewhere, Online
    <2>2. QED
        BY <1>1, <2>1 DEF ViewInv, MessagesSound
<1>4. QED
    BY <1>2, <1>3 DEF ViewInv

-----------------------------------------------------------------------------
(* The invariant, and what it says *)

LEMMA ViewInit == Init => ViewInv
<1>1. SUFFICES ASSUME Init PROVE ViewInv
    OBVIOUS
<1>2. /\ messages = <<>> /\ world = <<>> /\ chunk_states = <<>> /\ portal_cooldowns = <<>>
      /\ events = [p \in Players |-> <<>>] /\ overrides = [d \in DimensionId |-> <<>>]
      /\ is_dead = {} /\ mobs = DOMAIN MobHome /\ running = {}
    BY <1>1, Zenon DEF Init
<1>3. MessagesSound
    <2>1. IsQueue(messages) /\ Len(messages) = 0
        BY <1>2, QueueOf, EmptySeq
    <2>2. QED
        BY <2>1 DEF MessagesSound
<1>4. Online = {} /\ DOMAIN chunk_states = {} /\ DOMAIN portal_cooldowns = {}
    BY <1>2 DEF Online
<1>5. events \in [Players -> Seq(Event)]
    BY <1>2, EmptySeq
<1>6. Sound(Before, Online)
    <2>1. /\ world \in [Online -> [at : Inside, dimension : Habitable]]
          /\ chunk_states \in [Online -> Windows]
        BY <1>2, <1>4
    <2>2. QED
        BY <1>4, <1>5, <2>1 DEF Sound, Before
<1>7. overrides \in [DimensionId -> Deltas]
    <2>1. <<>> \in [{} -> BlockState]
        OBVIOUS
    <2>2. <<>> \in Deltas
        BY <2>1 DEF Deltas
    <2>3. QED
        BY <1>2, <2>2
<1>8. Tables /\ Centred
    BY <1>2, <1>4, <1>6, <1>7 DEF Tables, Centred
<1>9. QED
    BY <1>3, <1>8 DEF ViewInv

LEMMA ReceiveKeeps ==
    ASSUME ViewInv, Receive
    PROVE  ViewInv'
BY PlayerJoinedStep, PlayerLeftStep, PlayerPositionUpdateStep, SetBlockStepKeeps,
   SetClientViewDistanceStep, ChatMessageStep, ClientStatusStep, InteractEntityStep DEF Receive

LEMMA ViewNext == ViewInv /\ [Next]_vars => ViewInv'
<1> SUFFICES ASSUME ViewInv, [Next]_vars PROVE ViewInv'
    OBVIOUS
<1>1. CASE Receive
    BY <1>1, ReceiveKeeps
<1>2. CASE Cooldown
    BY <1>2, QuietKeeps
<1>3. ASSUME NEW p \in Players, Connect(p) PROVE ViewInv'
    BY <1>3, ConnectKeeps
<1>4. ASSUME NEW p \in Players, Tells(p) PROVE ViewInv'
    BY <1>4, ClientTells, TellKeeps
<1>5. ASSUME NEW p \in Players, Disconnect(p) PROVE ViewInv'
    BY <1>5, DisconnectKeeps
<1>6. ASSUME NEW p \in Players, PollEvents(p) PROVE ViewInv'
    BY <1>6, PollEventsKeeps
<1>7. ASSUME NEW p \in Players, Death(p) PROVE ViewInv'
    BY <1>7, QuietKeeps
<1>8. CASE UNCHANGED vars
    BY <1>8, QuietKeeps
<1>9. QED
    BY <1>1, <1>2, <1>3, <1>4, <1>5, <1>6, <1>7, <1>8 DEF Next, Tells

THEOREM ViewInvariant == Spec => []ViewInv
<1>1. QED
    BY ViewInit, ViewNext, PTL DEF Spec

\* What the tick thread keeps of the players fits together: the tables have the
\* same players, each inside the garden, in a dimension that is enabled, with a
\* window that never reaches beyond the garden.
THEOREM TypeCorrect == Spec => []TypeOK
<1>1. ViewInv => TypeOK
    <2>1. SUFFICES ASSUME ViewInv PROVE TypeOK
        OBVIOUS
    <2>2. /\ world \in [Online -> [at : Inside, dimension : Habitable]]
          /\ chunk_states \in [Online -> Windows]
          /\ DOMAIN portal_cooldowns \subseteq Online
        BY <2>1, BeforeSound DEF ViewInv
    <2>3. Online \subseteq Players /\ is_dead \subseteq Online /\ mobs \subseteq DOMAIN MobHome
        BY <2>1 DEF ViewInv, Tables
    <2>4. ASSUME NEW p \in Online
          PROVE  /\ world[p].at = clamp_horizontal(world[p].at)
                 /\ world[p].dimension \in EnabledDimensions \cup {"Overworld"}
                 /\ chunk_states[p].view_distance \in 0..GardenRadius
                 /\ \A c \in chunk_states[p].loaded_chunks : contains_chunk(c)
        <3>1. world[p].at \in Inside /\ world[p].dimension \in Habitable
            BY <2>2
        <3>2. chunk_states[p] \in ChunkStates
            BY <2>2 DEF Windows
        <3>3. /\ chunk_states[p].view_distance \in 0..GardenRadius
              /\ \A c \in chunk_states[p].loaded_chunks : contains_chunk(c)
            BY <3>2 DEF ChunkStates, Chunks, contains_chunk
        <3>4. QED
            BY <3>1, <3>3 DEF Inside, Habitable
    <2>5. QED
        BY <2>2, <2>3, <2>4 DEF TypeOK
<1>2. QED
    BY <1>1, ViewInvariant, PTL

\* No hole opens around a player: once they have moved, every chunk in view of
\* where they are is loaded.
THEOREM WindowAlwaysFollows == Spec => []WindowFollows
<1>1. ViewInv => WindowFollows
    <2>1. SUFFICES ASSUME ViewInv PROVE WindowFollows
        OBVIOUS
    <2>2. chunk_states \in [Online -> Windows]
        BY <2>1, BeforeSound DEF ViewInv
    <2>3. QED
        BY <2>1, <2>2 DEF WindowFollows, ViewInv, Centred, Windows
<1>2. QED
    BY <1>1, ViewInvariant, PTL

-----------------------------------------------------------------------------
(* Views *)

ViewOf(terrain, dimension, at, center, chunks, players, ids) ==
    [session_dimension |-> terrain, dimension |-> dimension, at |-> at,
     center |-> center, chunks |-> chunks, players |-> players, mobs |-> ids]

IsView(v) ==
    v = ViewOf(v.session_dimension, v.dimension, v.at, v.center, v.chunks, v.players, v.mobs)

LEMMA ViewFields ==
    ASSUME NEW terrain, NEW dim, NEW at, NEW center, NEW chunks, NEW players, NEW ids,
           NEW v, v = ViewOf(terrain, dim, at, center, chunks, players, ids)
    PROVE  /\ IsView(v)
           /\ v.session_dimension = terrain /\ v.dimension = dim /\ v.at = at /\ v.center = center
           /\ v.chunks = chunks /\ v.players = players /\ v.mobs = ids
BY DEF IsView, ViewOf

LEMMA ViewElsewhere ==
    ASSUME NEW terrain, NEW dim, NEW at, NEW center, NEW chunks, NEW players, NEW ids, NEW new
    PROVE  [ViewOf(terrain, dim, at, center, chunks, players, ids) EXCEPT !.at = new]
             = ViewOf(terrain, dim, new, center, chunks, players, ids)
BY DEF ViewOf

\* What an event makes of the chunks, and of the players, of a view.
Loaded(chunks, terrain, T) ==
    [c \in DOMAIN chunks \cup T |-> IF c \in T THEN Terrain(terrain, c) ELSE chunks[c]]

Built(chunks, deltas) == [c \in DOMAIN chunks |-> Rebuilt(chunks[c], deltas)]

Spawned(players, p, at) == [q \in DOMAIN players \cup {p} |-> IF q = p THEN at ELSE players[q]]

\* Where a client puts another player who moves.
Nudged(at, old, new) ==
    LET d == Delta(old, new)
    IN IF Abs(d[1]) > MaxDelta \/ Abs(d[2]) > MaxDelta THEN new ELSE <<at[1] + d[1], at[2] + d[2]>>

Followed(players, p, old, new) ==
    IF p \in DOMAIN players THEN [players EXCEPT ![p] = Nudged(players[p], old, new)] ELSE players

LEMMA ShownLoad ==
    ASSUME NEW terrain, NEW dim, NEW at, NEW center, NEW chunks, NEW players, NEW ids,
           NEW T
    PROVE  Shown(ViewOf(terrain, dim, at, center, chunks, players, ids), LoadChunk(T)) =
             ViewOf(terrain, dim, at, center, Loaded(chunks, terrain, T), players, ids)
BY DEF ViewOf, Shown, LoadChunk, send_single_chunk, Loaded

LEMMA ShownUnload ==
    ASSUME NEW terrain, NEW dim, NEW at, NEW center, NEW chunks, NEW players, NEW ids,
           NEW T
    PROVE  Shown(ViewOf(terrain, dim, at, center, chunks, players, ids), UnloadChunk(T)) =
             ViewOf(terrain, dim, at, center, Without(chunks, T), players, ids)
BY DEF ViewOf, Shown, UnloadChunk

LEMMA ShownBlocks ==
    ASSUME NEW terrain, NEW dim, NEW at, NEW center, NEW chunks, NEW players, NEW ids,
           NEW deltas
    PROVE  Shown(ViewOf(terrain, dim, at, center, chunks, players, ids), ChunkBlockOverrides(deltas)) =
             ViewOf(terrain, dim, at, center, Built(chunks, deltas), players, ids)
BY DEF ViewOf, Shown, ChunkBlockOverrides, send_block_update, Built

LEMMA ShownCenter ==
    ASSUME NEW terrain, NEW dim, NEW at, NEW center, NEW chunks, NEW players, NEW ids,
           NEW new
    PROVE  Shown(ViewOf(terrain, dim, at, center, chunks, players, ids), SetCenterChunk(new)) =
             ViewOf(terrain, dim, at, new, chunks, players, ids)
BY DEF ViewOf, Shown, SetCenterChunk

LEMMA ShownJoined ==
    ASSUME NEW terrain, NEW dim, NEW at, NEW center, NEW chunks, NEW players, NEW ids,
           NEW p, NEW there
    PROVE  Shown(ViewOf(terrain, dim, at, center, chunks, players, ids), PlayerJoinedEvent(p, there)) =
             ViewOf(terrain, dim, at, center, chunks, Spawned(players, p, there), ids)
BY DEF ViewOf, Shown, PlayerJoinedEvent, send_spawn_player, Spawned

LEMMA ShownLeft ==
    ASSUME NEW terrain, NEW dim, NEW at, NEW center, NEW chunks, NEW players, NEW ids,
           NEW p
    PROVE  Shown(ViewOf(terrain, dim, at, center, chunks, players, ids), PlayerLeftEvent(p)) =
             ViewOf(terrain, dim, at, center, chunks, Without(players, {p}), ids \ {p})
BY DEF ViewOf, Shown, PlayerLeftEvent, send_remove_entities

LEMMA ShownMovement ==
    ASSUME NEW terrain, NEW dim, NEW at, NEW center, NEW chunks, NEW players, NEW ids,
           NEW p, NEW old, NEW new
    PROVE  Shown(ViewOf(terrain, dim, at, center, chunks, players, ids), EntityMovement(p, old, new)) =
             ViewOf(terrain, dim, at, center, chunks, Followed(players, p, old, new), ids)
BY DEF ViewOf, Shown, EntityMovement, send_entity_movement, Nudged, Followed

LEMMA ShownSpawn ==
    ASSUME NEW terrain, NEW dim, NEW at, NEW center, NEW chunks, NEW players, NEW ids,
           NEW more
    PROVE  Shown(ViewOf(terrain, dim, at, center, chunks, players, ids), SpawnMob(more)) =
             ViewOf(terrain, dim, at, center, chunks, players, ids \cup more)
BY DEF ViewOf, Shown, SpawnMob

LEMMA ShownRemove ==
    ASSUME NEW terrain, NEW dim, NEW at, NEW center, NEW chunks, NEW players, NEW ids,
           NEW gone
    PROVE  Shown(ViewOf(terrain, dim, at, center, chunks, players, ids), RemoveEntities(gone)) =
             ViewOf(terrain, dim, at, center, chunks, Without(players, gone), ids \ gone)
BY DEF ViewOf, Shown, RemoveEntities, send_remove_entities

LEMMA ShownSynchronize ==
    ASSUME NEW terrain, NEW dim, NEW at, NEW center, NEW chunks, NEW players, NEW ids,
           NEW new
    PROVE  Shown(ViewOf(terrain, dim, at, center, chunks, players, ids), SynchronizePosition(new)) =
             ViewOf(terrain, dim, new, center, chunks, players, ids)
BY DEF ViewOf, Shown, SynchronizePosition

LEMMA ShownRespawn ==
    ASSUME NEW terrain, NEW dim, NEW at, NEW center, NEW chunks, NEW players, NEW ids,
           NEW dest, NEW new, NEW defer \in BOOLEAN
    PROVE  Shown(ViewOf(terrain, dim, at, center, chunks, players, ids), RespawnPlayer(dest, new, defer)) =
             IF dest = dim
             THEN ViewOf(dest, dim, IF defer THEN at ELSE new, center, chunks, players, ids)
             ELSE ViewOf(dest, dest, IF defer THEN at ELSE new, center, <<>>, <<>>, {})
<1> DEFINE v == ViewOf(terrain, dim, at, center, chunks, players, ids)
           w == send_respawn(v, dest)
           here == IF defer THEN at ELSE new
<1>1. Shown(v, RespawnPlayer(dest, new, defer)) = [w EXCEPT !.at = IF defer THEN w.at ELSE new]
    BY DEF Shown, RespawnPlayer
<1>2. CASE dest = dim
    <2>1. w = ViewOf(dest, dim, at, center, chunks, players, ids)
        BY <1>2 DEF send_respawn, ViewOf
    <2> HIDE DEF w, v
    <2>2. w.at = at
        BY <2>1, ViewFields
    <2>3. [w EXCEPT !.at = here] = ViewOf(dest, dim, here, center, chunks, players, ids)
        BY <2>1, ViewElsewhere
    <2>4. QED
        BY <1>1, <1>2, <2>2, <2>3 DEF v
<1>3. CASE dest # dim
    <2>1. w = ViewOf(dest, dest, at, center, <<>>, <<>>, {})
        BY <1>3 DEF send_respawn, ViewOf
    <2> HIDE DEF w, v
    <2>2. w.at = at
        BY <2>1, ViewFields
    <2>3. [w EXCEPT !.at = here] = ViewOf(dest, dest, here, center, <<>>, <<>>, {})
        BY <2>1, ViewElsewhere
    <2>4. QED
        BY <1>1, <1>3, <2>2, <2>3 DEF v
<1>4. QED
    BY <1>2, <1>3

LEMMA EventKinds ==
    ASSUME NEW e \in Event
    PROVE  \/ \E T : e = LoadChunk(T) \/ e = UnloadChunk(T)
           \/ \E d : e = ChunkBlockOverrides(d)
           \/ \E center : e = SetCenterChunk(center)
           \/ \E p, at : e = PlayerJoinedEvent(p, at)
           \/ \E p : e = PlayerLeftEvent(p)
           \/ \E p, old, new : e = EntityMovement(p, old, new)
           \/ \E ids : e = SpawnMob(ids) \/ e = RemoveEntities(ids)
           \/ \E at : e = SynchronizePosition(at)
           \/ \E dim, at : \E defer \in BOOLEAN : e = RespawnPlayer(dim, at, defer)
<1>1. CASE e \in [type : {"LoadChunk", "UnloadChunk"}, chunks : SUBSET Chunks]
    BY <1>1 DEF LoadChunk, UnloadChunk
<1>2. CASE e \in [type : {"ChunkBlockOverrides"}, deltas : Deltas]
    BY <1>2 DEF ChunkBlockOverrides
<1>3. CASE e \in [type : {"SetCenterChunk"}, center : Position]
    BY <1>3 DEF SetCenterChunk
<1>4. CASE e \in [type : {"PlayerJoined"}, player : Players, at : Inside]
    BY <1>4 DEF PlayerJoinedEvent
<1>5. CASE e \in [type : {"PlayerLeft"}, player : Players]
    BY <1>5 DEF PlayerLeftEvent
<1>6. CASE e \in [type : {"EntityMovement"}, player : Players, old : Inside, new : Inside]
    BY <1>6 DEF EntityMovement
<1>7. CASE e \in [type : {"SpawnMob", "RemoveEntities"}, ids : SUBSET DOMAIN MobHome]
    BY <1>7 DEF SpawnMob, RemoveEntities
<1>8. CASE e \in [type : {"SynchronizePosition"}, at : Inside]
    BY <1>8 DEF SynchronizePosition
<1>9. CASE e \in [type : {"RespawnPlayer"}, dimension : Habitable, at : Inside,
                  defer_position_sync : BOOLEAN]
    BY <1>9 DEF RespawnPlayer
<1>10. QED
    BY <1>1, <1>2, <1>3, <1>4, <1>5, <1>6, <1>7, <1>8, <1>9 DEF Event, SynchronizingEvent

\* Two views that differ at most in where their client is.
ButForAt(v, w) ==
    \E terrain, dim, at, there, center, chunks, players, ids :
      /\ v = ViewOf(terrain, dim, at, center, chunks, players, ids)
      /\ w = ViewOf(terrain, dim, there, center, chunks, players, ids)

LEMMA Alike ==
    ASSUME NEW terrain, NEW dim, NEW at, NEW there, NEW center, NEW chunks, NEW players, NEW ids,
           NEW v, v = ViewOf(terrain, dim, at, center, chunks, players, ids),
           NEW w, w = ViewOf(terrain, dim, there, center, chunks, players, ids)
    PROVE  ButForAt(v, w) /\ v.at = at
BY ViewFields DEF ButForAt

\* What an event shows does not depend on where the client is; and only an event
\* that asks for an answer puts it elsewhere.
LEMMA ShowsEverywhere ==
    ASSUME NEW v, NEW w, ButForAt(v, w), NEW e \in Event
    PROVE  /\ ButForAt(Shown(v, e), Shown(w, e))
           /\ Shown(v, e).at = IF Synchronizes(e) THEN e.at ELSE v.at
<1>1. PICK terrain, dim, at, there, center, chunks, players, ids :
          /\ v = ViewOf(terrain, dim, at, center, chunks, players, ids)
          /\ w = ViewOf(terrain, dim, there, center, chunks, players, ids)
    BY DEF ButForAt
<1>2. v.at = at
    BY <1>1, ViewFields
<1>3. CASE \E T : e = LoadChunk(T)
    <2>1. PICK T : e = LoadChunk(T)
        BY <1>3
    <2>2. ~Synchronizes(e)
        BY <2>1 DEF Synchronizes, LoadChunk
    <2>3. /\ Shown(v, e) = ViewOf(terrain, dim, at, center, Loaded(chunks, terrain, T), players, ids)
          /\ Shown(w, e) = ViewOf(terrain, dim, there, center, Loaded(chunks, terrain, T), players, ids)
        BY <1>1, <2>1, ShownLoad
    <2>4. QED
        BY <1>2, <2>2, <2>3, Alike
<1>4. CASE \E T : e = UnloadChunk(T)
    <2>1. PICK T : e = UnloadChunk(T)
        BY <1>4
    <2>2. ~Synchronizes(e)
        BY <2>1 DEF Synchronizes, UnloadChunk
    <2>3. /\ Shown(v, e) = ViewOf(terrain, dim, at, center, Without(chunks, T), players, ids)
          /\ Shown(w, e) = ViewOf(terrain, dim, there, center, Without(chunks, T), players, ids)
        BY <1>1, <2>1, ShownUnload
    <2>4. QED
        BY <1>2, <2>2, <2>3, Alike
<1>5. CASE \E d : e = ChunkBlockOverrides(d)
    <2>1. PICK d : e = ChunkBlockOverrides(d)
        BY <1>5
    <2>2. ~Synchronizes(e)
        BY <2>1 DEF Synchronizes, ChunkBlockOverrides
    <2>3. /\ Shown(v, e) = ViewOf(terrain, dim, at, center, Built(chunks, d), players, ids)
          /\ Shown(w, e) = ViewOf(terrain, dim, there, center, Built(chunks, d), players, ids)
        BY <1>1, <2>1, ShownBlocks
    <2>4. QED
        BY <1>2, <2>2, <2>3, Alike
<1>6. CASE \E new : e = SetCenterChunk(new)
    <2>1. PICK new : e = SetCenterChunk(new)
        BY <1>6
    <2>2. ~Synchronizes(e)
        BY <2>1 DEF Synchronizes, SetCenterChunk
    <2>3. /\ Shown(v, e) = ViewOf(terrain, dim, at, new, chunks, players, ids)
          /\ Shown(w, e) = ViewOf(terrain, dim, there, new, chunks, players, ids)
        BY <1>1, <2>1, ShownCenter
    <2>4. QED
        BY <1>2, <2>2, <2>3, Alike
<1>7. CASE \E p, new : e = PlayerJoinedEvent(p, new)
    <2>1. PICK p, new : e = PlayerJoinedEvent(p, new)
        BY <1>7
    <2>2. ~Synchronizes(e)
        BY <2>1 DEF Synchronizes, PlayerJoinedEvent
    <2>3. /\ Shown(v, e) = ViewOf(terrain, dim, at, center, chunks, Spawned(players, p, new), ids)
          /\ Shown(w, e) = ViewOf(terrain, dim, there, center, chunks, Spawned(players, p, new), ids)
        BY <1>1, <2>1, ShownJoined
    <2>4. QED
        BY <1>2, <2>2, <2>3, Alike
<1>8. CASE \E p : e = PlayerLeftEvent(p)
    <2>1. PICK p : e = PlayerLeftEvent(p)
        BY <1>8
    <2>2. ~Synchronizes(e)
        BY <2>1 DEF Synchronizes, PlayerLeftEvent
    <2>3. /\ Shown(v, e) = ViewOf(terrain, dim, at, center, chunks, Without(players, {p}), ids \ {p})
          /\ Shown(w, e) = ViewOf(terrain, dim, there, center, chunks, Without(players, {p}), ids \ {p})
        BY <1>1, <2>1, ShownLeft
    <2>4. QED
        BY <1>2, <2>2, <2>3, Alike
<1>9. CASE \E p, old, new : e = EntityMovement(p, old, new)
    <2>1. PICK p, old, new : e = EntityMovement(p, old, new)
        BY <1>9
    <2>2. ~Synchronizes(e)
        BY <2>1 DEF Synchronizes, EntityMovement
    <2>3. /\ Shown(v, e) = ViewOf(terrain, dim, at, center, chunks, Followed(players, p, old, new), ids)
          /\ Shown(w, e) = ViewOf(terrain, dim, there, center, chunks, Followed(players, p, old, new), ids)
        BY <1>1, <2>1, ShownMovement
    <2>4. QED
        BY <1>2, <2>2, <2>3, Alike
<1>10. CASE \E more : e = SpawnMob(more)
    <2>1. PICK more : e = SpawnMob(more)
        BY <1>10
    <2>2. ~Synchronizes(e)
        BY <2>1 DEF Synchronizes, SpawnMob
    <2>3. /\ Shown(v, e) = ViewOf(terrain, dim, at, center, chunks, players, ids \cup more)
          /\ Shown(w, e) = ViewOf(terrain, dim, there, center, chunks, players, ids \cup more)
        BY <1>1, <2>1, ShownSpawn
    <2>4. QED
        BY <1>2, <2>2, <2>3, Alike
<1>11. CASE \E gone : e = RemoveEntities(gone)
    <2>1. PICK gone : e = RemoveEntities(gone)
        BY <1>11
    <2>2. ~Synchronizes(e)
        BY <2>1 DEF Synchronizes, RemoveEntities
    <2>3. /\ Shown(v, e) = ViewOf(terrain, dim, at, center, chunks, Without(players, gone), ids \ gone)
          /\ Shown(w, e) = ViewOf(terrain, dim, there, center, chunks, Without(players, gone), ids \ gone)
        BY <1>1, <2>1, ShownRemove
    <2>4. QED
        BY <1>2, <2>2, <2>3, Alike
<1>12. CASE \E new : e = SynchronizePosition(new)
    <2>1. PICK new : e = SynchronizePosition(new)
        BY <1>12
    <2>2. Synchronizes(e) /\ e.at = new
        BY <2>1 DEF Synchronizes, SynchronizePosition
    <2>3. /\ Shown(v, e) = ViewOf(terrain, dim, new, center, chunks, players, ids)
          /\ Shown(w, e) = ViewOf(terrain, dim, new, center, chunks, players, ids)
        BY <1>1, <2>1, ShownSynchronize
    <2>4. QED
        BY <1>2, <2>2, <2>3, Alike
<1>13. CASE \E dest, new : \E defer \in BOOLEAN : e = RespawnPlayer(dest, new, defer)
    <2>1. PICK dest, new : \E defer \in BOOLEAN : e = RespawnPlayer(dest, new, defer)
        BY <1>13
    <2>2. PICK defer \in BOOLEAN : e = RespawnPlayer(dest, new, defer)
        BY <2>1
    <2> DEFINE here == IF defer THEN at ELSE new
               elsewhere == IF defer THEN there ELSE new
    <2>3. here = IF Synchronizes(e) THEN e.at ELSE at
        BY <2>2 DEF Synchronizes, RespawnPlayer
    <2>4. CASE dest = dim
        <3>1. /\ Shown(v, e) = ViewOf(dest, dim, here, center, chunks, players, ids)
              /\ Shown(w, e) = ViewOf(dest, dim, elsewhere, center, chunks, players, ids)
            BY <1>1, <2>2, <2>4, ShownRespawn
        <3> HIDE DEF here, elsewhere
        <3>2. QED
            BY <1>2, <2>3, <3>1, Alike
    <2>5. CASE dest # dim
        <3>1. /\ Shown(v, e) = ViewOf(dest, dest, here, center, <<>>, <<>>, {})
              /\ Shown(w, e) = ViewOf(dest, dest, elsewhere, center, <<>>, <<>>, {})
            BY <1>1, <2>2, <2>5, ShownRespawn
        <3> HIDE DEF here, elsewhere
        <3>2. QED
            BY <1>2, <2>3, <3>1, Alike
    <2>6. QED
        BY <2>4, <2>5
<1>14. QED
    BY <1>3, <1>4, <1>5, <1>6, <1>7, <1>8, <1>9, <1>10, <1>11, <1>12, <1>13, EventKinds

-----------------------------------------------------------------------------
(* Where a client is once it has been sent what waits *)

LEMMA Itself ==
    ASSUME NEW v
    PROVE  IsView(v) <=> ButForAt(v, v)
<1>1. ASSUME IsView(v) PROVE ButForAt(v, v)
    BY <1>1, Alike DEF IsView
<1>2. ASSUME ButForAt(v, v) PROVE IsView(v)
    BY <1>2, ViewFields DEF ButForAt
<1>3. QED
    BY <1>1, <1>2

\* What has shown the view v, and how the client has answered.
Showing(v) == [view |-> v, answers |-> <<>>]

\* One of the first n events asks for an answer.
Asked(s, n) == \E i \in 1..n : Synchronizes(s[i])

Asks(s) == Asked(s, Len(s))

\* The last answer is where the client is, and there is one if it was asked.
AnsweredFor(v, h, s, n) ==
    /\ h.answers \in Seq(Inside)
    /\ ~Asked(s, n) => h.answers = <<>> /\ h.view.at = v.at
    /\ Asked(s, n) => h.answers # <<>> /\ h.answers[Len(h.answers)] = h.view.at

LEMMA OneMoreAnswer ==
    ASSUME NEW s \in Seq(Event), NEW n \in Nat, n + 1 <= Len(s), NEW v, NEW h, NEW k,
           ButForAt(h.view, k.view), AnsweredFor(v, h, s, n)
    PROVE  /\ ButForAt(Handled(h, s[n + 1]).view, Handled(k, s[n + 1]).view)
           /\ AnsweredFor(v, Handled(h, s[n + 1]), s, n + 1)
<1> DEFINE e == s[n + 1]
           w == Handled(h, e)
<1>1. n + 1 \in 1..Len(s) /\ 1..(n + 1) = (1..n) \cup {n + 1}
    BY LenProperties
<1>2. e \in Event
    BY <1>1, ElementOfSeq
<1>3. Asked(s, n + 1) <=> Asked(s, n) \/ Synchronizes(e)
    BY <1>1 DEF Asked
<1>4. /\ w.view = Shown(h.view, e) /\ Handled(k, e).view = Shown(k.view, e)
      /\ w.answers = IF Synchronizes(e) THEN Append(h.answers, e.at) ELSE h.answers
    BY DEF Handled
<1>5. /\ ButForAt(w.view, Handled(k, e).view)
      /\ w.view.at = IF Synchronizes(e) THEN e.at ELSE h.view.at
    BY <1>2, <1>4, ShowsEverywhere
<1> HIDE DEF e, w
<1>6. CASE Synchronizes(e)
    <2>1. e.at \in Inside /\ h.answers \in Seq(Inside)
        BY <1>2, <1>6, SynchronizingEvents DEF AnsweredFor
    <2>2. PICK a \in Seq(Inside) : a = h.answers
        BY <2>1
    <2> DEFINE b == Append(a, e.at)
    <2>3. b \in Seq(Inside) /\ Len(b) = Len(a) + 1 /\ b[Len(a) + 1] = e.at /\ Len(a) \in Nat
        BY <2>1, AppendProperties, LenProperties
    <2> HIDE DEF b
    <2>4. b # <<>>
        BY <2>3, EmptySeq
    <2>5. w.answers = b /\ w.view.at = e.at
        BY <1>4, <1>5, <1>6, <2>2 DEF b
    <2>6. AnsweredFor(v, w, s, n + 1)
        BY <1>3, <1>6, <2>3, <2>4, <2>5 DEF AnsweredFor
    <2>7. QED
        BY <1>5, <2>6 DEF w, e
<1>7. CASE ~Synchronizes(e)
    <2>1. AnsweredFor(v, w, s, n + 1)
        BY <1>3, <1>4, <1>5, <1>7 DEF AnsweredFor
    <2>2. QED
        BY <1>5, <2>1 DEF w, e
<1>8. QED
    BY <1>6, <1>7

LEMMA AllAnswered ==
    ASSUME NEW s \in Seq(Event), NEW v, NEW w, ButForAt(v, w)
    PROVE  /\ ButForAt(AllHandled(Showing(v), s).view, AllHandled(Showing(w), s).view)
           /\ AnsweredFor(v, AllHandled(Showing(v), s), s, Len(s))
<1> DEFINE n == Len(s)
<1>1. n \in Nat
    BY LenProperties
<1>2. PICK f : IsRun(f, Showing(v), s, n) /\ f[n] = AllHandled(Showing(v), s)
    BY FoldIsRun
<1>3. PICK g : IsRun(g, Showing(w), s, n) /\ g[n] = AllHandled(Showing(w), s)
    BY FoldIsRun
<1> DEFINE T == {k \in Nat : k <= n => ButForAt(f[k].view, g[k].view) /\ AnsweredFor(v, f[k], s, k)}
<1>4. 0 \in T
    <2>1. f[0] = Showing(v) /\ g[0] = Showing(w) /\ ~Asked(s, 0)
        BY <1>2, <1>3 DEF IsRun, Asked
    <2>2. f[0].view = v /\ g[0].view = w /\ f[0].answers = <<>> /\ <<>> \in Seq(Inside)
        BY <2>1, EmptySeq DEF Showing
    <2>3. QED
        BY <2>1, <2>2 DEF AnsweredFor
<1>5. ASSUME NEW k \in Nat, k \in T
      PROVE  k + 1 \in T
    <2> SUFFICES ASSUME k + 1 <= n
                 PROVE  ButForAt(f[k + 1].view, g[k + 1].view) /\ AnsweredFor(v, f[k + 1], s, k + 1)
        OBVIOUS
    <2>1. k + 1 \in 1..n /\ (k + 1) - 1 = k /\ k <= n
        BY <1>1
    <2>2. f[k + 1] = Handled(f[k], s[k + 1]) /\ g[k + 1] = Handled(g[k], s[k + 1])
        BY <1>2, <1>3, <2>1 DEF IsRun
    <2>3. ButForAt(f[k].view, g[k].view) /\ AnsweredFor(v, f[k], s, k)
        BY <1>5, <2>1
    <2>4. QED
        BY <2>2, <2>3, OneMoreAnswer
<1>6. n \in T
    <2> HIDE DEF n, T
    <2>1. QED
        BY <1>1, <1>4, <1>5, Induction
<1>7. QED
    BY <1>1, <1>2, <1>3, <1>6

-----------------------------------------------------------------------------
(* What a step sends to a player *)

\* The events s are sent to the session of q.
Gets(q, s) == s \in Seq(Event) /\ events'[q] = events[q] \o s

LEMMA NothingSent == <<>> \in Seq(Event)
BY EmptySeq

LEMMA SentAt ==
    ASSUME NEW ev, NEW S, NEW s, NEW q \in Players
    PROVE  SentTo(ev, S, s)[q] = IF q \in S /\ q \in running THEN ev[q] \o s ELSE ev[q]
BY DEF SentTo

LEMMA Unchanged ==
    ASSUME Tables, NEW q \in Players, events'[q] = events[q]
    PROVE  Gets(q, <<>>)
<1>1. events[q] \in Seq(Event)
    BY BeforeSound
<1>2. QED
    BY <1>1, ConcatEmptySeq, NothingSent DEF Gets

\* Events sent one sequence after the other.
Associates(e, a, b) == (e \o a) \o b = e \o (a \o b)

LEMMA Chained ==
    ASSUME NEW e, NEW a, NEW b, e \in Seq(Event), a \in Seq(Event), b \in Seq(Event)
    PROVE  Associates(e, a, b)
BY ConcatAssociative DEF Associates

LEMMA JoinGets ==
    ASSUME ViewInv, NEW p, NEW at, JoinStep(p, at), NEW q \in Players, q \in running
    PROVE  LET others == InDimension(Before, "Overworld")
           IN /\ p \notin others
              /\ q = p => Gets(q, WelcomeEvents(others))
              /\ q # p /\ q \in others => Gets(q, <<PlayerJoinedEvent(p, at)>>)
              /\ q # p /\ q \notin others => Gets(q, <<>>)
<1> DEFINE others == InDimension(Before, "Overworld")
           mine == WelcomeEvents(others)
           theirs == <<PlayerJoinedEvent(p, at)>>
           told == SentTo(events, others, theirs)
<1>1. /\ p \in Players /\ p \notin Online /\ at \in Inside /\ others \subseteq Online
      /\ events' = SentTo(told, {p}, mine)
    BY DEF JoinStep
<1>2. Tables /\ mine \in Seq(Event)
    BY <1>1, WelcomeSound DEF ViewInv
<1>3. theirs \in Seq(Event)
    <2>1. PlayerJoinedEvent(p, at) \in Event
        BY <1>1 DEF PlayerJoinedEvent, Event
    <2>2. QED
        BY <2>1, OneEvent
<1> HIDE DEF others, mine, theirs, told
<1>4. events'[q] = IF q = p THEN told[q] \o mine ELSE told[q]
    BY <1>1, SentAt
<1>5. told[q] = IF q \in others THEN events[q] \o theirs ELSE events[q]
    BY SentAt DEF told
<1>6. p \notin others
    BY <1>1
<1>7. QED
    BY <1>2, <1>3, <1>4, <1>5, <1>6, Unchanged DEF Gets, others, mine, theirs

LEMMA LeaveGets ==
    ASSUME ViewInv, NEW p, LeaveStep(p), NEW q \in Players, q \in running
    PROVE  /\ q # p
           /\ q \in Online /\ p \in Online => Gets(q, <<PlayerLeftEvent(p)>>)
           /\ ~(q \in Online /\ p \in Online) => Gets(q, <<>>)
<1> DEFINE s == If(p \in Online, <<PlayerLeftEvent(p)>>)
<1>1. /\ p \in Players /\ p \notin running /\ q # p
      /\ events' = SentTo(events, Online \ {p}, s)
    BY DEF LeaveStep
<1>2. <<PlayerLeftEvent(p)>> \in Seq(Event)
    <2>1. PlayerLeftEvent(p) \in Event
        BY <1>1 DEF PlayerLeftEvent, Event
    <2>2. QED
        BY <2>1, OneEvent
<1>3. events'[q] = IF q \in Online THEN events[q] \o s ELSE events[q]
    BY <1>1, SentAt
<1>4. Tables /\ events[q] \in Seq(Event)
    BY BeforeSound DEF ViewInv
<1>5. p \notin Online => events[q] \o s = events[q]
    BY <1>4, ConcatEmptySeq DEF If
<1>6. QED
    BY <1>1, <1>2, <1>3, <1>4, <1>5, Unchanged DEF Gets, If

LEMMA SetBlockGets ==
    ASSUME ViewInv, NEW dim, NEW at, NEW state, SetBlockStep(dim, at, state),
           NEW q \in Players, q \in running
    PROVE  /\ q \in InDimension(Before, dim) => Gets(q, <<BlockUpdate(at, state)>>)
           /\ q \notin InDimension(Before, dim) => Gets(q, <<>>)
<1> DEFINE near == InDimension(Before, dim)
           s == <<BlockUpdate(at, state)>>
<1>1. /\ dim \in DimensionId /\ at \in Position /\ state \in BlockState
      /\ events' = SentTo(events, near, s)
    BY DEF SetBlockStep
<1>2. Tables /\ s \in Seq(Event)
    BY <1>1, SetBlockKeeps, OneEvent DEF ViewInv, Tables
<1> HIDE DEF near, s
<1>3. events'[q] = IF q \in near THEN events[q] \o s ELSE events[q]
    BY <1>1, SentAt
<1>4. QED
    BY <1>2, <1>3, Unchanged DEF Gets, near, s

LEMMA IdleGets ==
    ASSUME ViewInv, IdleStep, NEW q \in Players
    PROVE  Gets(q, <<>>)
BY Unchanged DEF ViewInv, IdleStep

LEMMA DistanceGets ==
    ASSUME ViewInv, NEW p, NEW cs, DistanceStep(p, cs), NEW q \in Players, q \in running
    PROVE  /\ q = p => Gets(q, WindowEvents(chunk_states[p], world[p].dimension, cs, FALSE))
           /\ q # p => Gets(q, <<>>)
<1> DEFINE s == WindowEvents(chunk_states[p], world[p].dimension, cs, FALSE)
<1>1. s \in Seq(Event) /\ events' = SentTo(events, {p}, s)
    BY DEF DistanceStep
<1> HIDE DEF s
<1>2. Tables /\ events'[q] = IF q = p THEN events[q] \o s ELSE events[q]
    BY <1>1, SentAt DEF ViewInv
<1>3. QED
    BY <1>1, <1>2, Unchanged DEF Gets, s

LEMMA KillGets ==
    ASSUME ViewInv, NEW id, KillStep(id), NEW q \in Players, q \in running
    PROVE  /\ q \in InDimension(Before, MobHome[id]) => Gets(q, <<RemoveEntities({id})>>)
           /\ q \notin InDimension(Before, MobHome[id]) => Gets(q, <<>>)
<1> DEFINE near == InDimension(Before, MobHome[id])
           s == <<RemoveEntities({id})>>
<1>1. RemoveEntities({id}) \in Event /\ events' = SentTo(events, near, s)
    BY DEF KillStep
<1>2. Tables /\ s \in Seq(Event)
    BY <1>1, OneEvent DEF ViewInv
<1> HIDE DEF near, s
<1>3. events'[q] = IF q \in near THEN events[q] \o s ELSE events[q]
    BY <1>1, SentAt
<1>4. QED
    BY <1>2, <1>3, Unchanged DEF Gets, near, s

\* What a player is sent who changes dimension, or respawns.
TransferEvents(before, dest, cs) ==
    <<RespawnPlayer(dest, Spawn, TRUE)>> \o ResyncEvents(before, dest, cs) \o Arrival(dest)

RespawnEvents(before, dim, cs) ==
    <<RespawnPlayer(dim, Spawn, FALSE)>> \o ResyncEvents(before, dim, cs) \o SyncMobs(dim)

\* Three sequences, sent to one player.
LEMMA SentThrice ==
    ASSUME NEW ev, NEW S, NEW a, NEW b, NEW c, NEW q, q \in Players, q \in running,
           ev[q] \in Seq(Event), a \in Seq(Event), b \in Seq(Event), c \in Seq(Event)
    PROVE  /\ a \o b \o c \in Seq(Event)
           /\ SentTo(SentTo(SentTo(ev, S, a), S, b), S, c)[q]
                = IF q \in S THEN ev[q] \o (a \o b \o c) ELSE ev[q]
<1> DEFINE one == SentTo(ev, S, a)
           two == SentTo(one, S, b)
<1>1. one[q] = (IF q \in S THEN ev[q] \o a ELSE ev[q])
    BY SentAt
<1>2. two[q] = (IF q \in S THEN one[q] \o b ELSE one[q])
    BY SentAt
<1>3. SentTo(two, S, c)[q] = (IF q \in S THEN two[q] \o c ELSE two[q])
    BY SentAt
<1> HIDE DEF one, two
<1>4. PICK e \in Seq(Event) : e = ev[q]
    OBVIOUS
<1>5. PICK ab \in Seq(Event) : ab = a \o b
    BY MoreEvents
<1>6. (e \o a) \o b = e \o ab
    <2>1. Associates(e, a, b)
        BY Chained
    <2>2. QED
        BY <1>5, <2>1 DEF Associates
<1>7. (e \o ab) \o c = e \o (ab \o c) /\ ab \o c \in Seq(Event)
    <2>1. Associates(e, ab, c)
        BY Chained
    <2>2. ab \o c \in Seq(Event)
        BY MoreEvents
    <2>3. QED
        BY <2>1, <2>2 DEF Associates
<1>8. QED
    BY <1>1, <1>2, <1>3, <1>4, <1>5, <1>6, <1>7 DEF one, two

LEMMA RespawnEvent ==
    ASSUME NEW dim \in Habitable, NEW defer \in BOOLEAN
    PROVE  RespawnPlayer(dim, Spawn, defer) \in Event /\ <<RespawnPlayer(dim, Spawn, defer)>> \in Seq(Event)
<1>1. RespawnPlayer(dim, Spawn, defer) \in Event
    BY SpawnInside DEF RespawnPlayer, Event, SynchronizingEvent
<1>2. QED
    BY <1>1, OneEvent

LEMMA TransferSent ==
    ASSUME NEW ev, NEW p, NEW before, NEW dest, NEW cs, NEW q, q \in Players, q \in running,
           ev[q] \in Seq(Event), dest \in EnabledDimensions,
           ResyncEvents(before, dest, cs) \in Seq(Event), Arrival(dest) \in Seq(Event)
    PROVE  /\ TransferEvents(before, dest, cs) \in Seq(Event)
           /\ TransferredTo(ev, p, before, dest, cs)[q]
                = IF q = p THEN ev[q] \o TransferEvents(before, dest, cs) ELSE ev[q]
<1> DEFINE a == <<RespawnPlayer(dest, Spawn, TRUE)>>
           b == ResyncEvents(before, dest, cs)
           c == Arrival(dest)
<1>1. /\ TransferEvents(before, dest, cs) = a \o b \o c
      /\ TransferredTo(ev, p, before, dest, cs) = SentTo(SentTo(SentTo(ev, {p}, a), {p}, b), {p}, c)
    BY Zenon DEF TransferEvents, TransferredTo
<1>2. a \in Seq(Event) /\ b \in Seq(Event) /\ c \in Seq(Event)
    BY RespawnEvent DEF Habitable
<1> HIDE DEF a, b, c
<1>3. QED
    BY <1>1, <1>2, SentThrice

LEMMA TransferGets ==
    ASSUME ViewInv, NEW p, NEW dest, TransferStep(p, dest), NEW q \in Players, q \in running
    PROVE  /\ q = p => Gets(q, TransferEvents(chunk_states[p], dest, Recentred(chunk_states[p], Spawn)))
           /\ q # p => Gets(q, <<>>)
<1> DEFINE cs == Recentred(chunk_states[p], Spawn)
<1>1. /\ dest \in EnabledDimensions
      /\ ResyncEvents(chunk_states[p], dest, cs) \in Seq(Event) /\ Arrival(dest) \in Seq(Event)
      /\ events' = TransferredTo(events, p, chunk_states[p], dest, cs)
    BY DEF TransferStep
<1>2. Tables /\ events[q] \in Seq(Event)
    BY BeforeSound DEF ViewInv
<1> HIDE DEF cs
<1>3. /\ TransferEvents(chunk_states[p], dest, cs) \in Seq(Event)
      /\ events'[q] = IF q = p THEN events[q] \o TransferEvents(chunk_states[p], dest, cs) ELSE events[q]
    BY <1>1, <1>2, TransferSent
<1>4. QED
    BY <1>2, <1>3, Unchanged DEF Gets, cs

LEMMA RespawnGets ==
    ASSUME ViewInv, NEW p, RespawnStep(p), NEW q \in Players, q \in running
    PROVE  /\ q = p => Gets(q, RespawnEvents(chunk_states[p], world[p].dimension,
                                             Recentred(chunk_states[p], Spawn)))
           /\ q # p => Gets(q, <<>>)
<1> DEFINE cs == Recentred(chunk_states[p], Spawn)
           dim == world[p].dimension
           a == <<RespawnPlayer(dim, Spawn, FALSE)>>
           b == ResyncEvents(chunk_states[p], dim, cs)
           c == SyncMobs(dim)
<1>1. /\ a \in Seq(Event) /\ b \in Seq(Event) /\ c \in Seq(Event)
      /\ events' = SentTo(SentTo(SentTo(events, {p}, a), {p}, b), {p}, c)
    BY DEF RespawnStep
<1>2. Tables /\ events[q] \in Seq(Event)
    BY BeforeSound DEF ViewInv
<1>3. RespawnEvents(chunk_states[p], dim, cs) = a \o b \o c
    BY Zenon DEF RespawnEvents
<1> HIDE DEF a, b, c
<1>4. /\ a \o b \o c \in Seq(Event)
      /\ events'[q] = IF q = p THEN events[q] \o (a \o b \o c) ELSE events[q]
    BY <1>1, <1>2, SentThrice
<1>5. /\ q = p => Gets(q, a \o b \o c)
      /\ q # p => Gets(q, <<>>)
    BY <1>2, <1>4, Unchanged DEF Gets
<1>6. QED
    BY <1>3, <1>5, Zenon

LEMMA MovedSent ==
    ASSUME NEW p, NEW raw, NEW new, NEW q, ViewInv, q \in Players, q \in running,
           Own(raw, new) \in Seq(Event), Moves(p, new) \in Seq(Event)
    PROVE  LET near == InDimension(Before, world[p].dimension)
               sent == MovedEvents(p, raw, new)[q]
           IN /\ sent \in Seq(Event)
              /\ q = p => sent = events[q] \o Own(raw, new)
              /\ q # p /\ q \in near => sent = events[q] \o Moves(p, new)
              /\ q # p /\ q \notin near => sent = events[q]
<1> DEFINE near == InDimension(Before, world[p].dimension)
           told == SentTo(events, {p}, Own(raw, new))
<1>1. events[q] \in Seq(Event)
    BY BeforeSound DEF ViewInv
<1>2. told[q] = IF q = p THEN events[q] \o Own(raw, new) ELSE events[q]
    BY SentAt
<1> HIDE DEF near, told
<1>3. SentTo(told, near \ {p}, Moves(p, new))[q]
        = IF q \in near \ {p} THEN told[q] \o Moves(p, new) ELSE told[q]
    BY SentAt
<1>4. MovedEvents(p, raw, new) = SentTo(told, near \ {p}, Moves(p, new))
    BY Zenon DEF MovedEvents, near, told
<1>5. events[q] \o Own(raw, new) \in Seq(Event) /\ events[q] \o Moves(p, new) \in Seq(Event)
    BY <1>1, MoreEvents
<1>6. QED
    BY <1>1, <1>2, <1>3, <1>4, <1>5 DEF near

LEMMA StayGets ==
    ASSUME ViewInv, NEW p, NEW raw, NEW new, StayStep(p, raw, new), NEW q \in Players, q \in running
    PROVE  /\ q = p => Gets(q, Own(raw, new))
           /\ q # p => Gets(q, <<>>)
<1> DEFINE near == InDimension(Before, world[p].dimension)
           sent == MovedEvents(p, raw, new)[q]
<1>1. /\ Own(raw, new) \in Seq(Event) /\ Moves(p, new) \in Seq(Event) /\ new = world[p].at
      /\ events' = MovedEvents(p, raw, new)
    BY DEF StayStep, PositionStep
<1>2. Tables /\ events[q] \in Seq(Event)
    BY BeforeSound DEF ViewInv
<1>3. events[q] \o Moves(p, new) = events[q]
    BY <1>1, <1>2, ConcatEmptySeq DEF Moves, If
<1>4. Own(raw, new) \in Seq(Event) /\ Moves(p, new) \in Seq(Event)
    BY <1>1
<1>5. q = p => sent = events[q] \o Own(raw, new)
    BY <1>4, MovedSent
<1>6. q # p /\ q \in near => sent = events[q] \o Moves(p, new)
    BY <1>4, MovedSent
<1>7. q # p /\ q \notin near => sent = events[q]
    BY <1>4, MovedSent
<1> HIDE DEF near
<1>8. QED
    BY <1>1, <1>2, <1>3, <1>5, <1>6, <1>7, Unchanged DEF Gets

\* What a player is sent who goes somewhere.
GoEvents(p, raw, new) == Own(raw, new) \o Centering(p, new)

LEMMA GoneSent ==
    ASSUME NEW p, NEW raw, NEW new, NEW q, ViewInv, q \in Players, q \in running,
           PositionStep(p, raw, new), new # world[p].at, Centering(p, new) \in Seq(Event)
    PROVE  LET near == InDimension(Before, world[p].dimension)
               mine == GoEvents(p, raw, new)
               sent == GoneEvents(p, raw, new)[q]
           IN /\ mine \in Seq(Event) /\ sent \in Seq(Event) /\ Moves(p, new) \in Seq(Event)
              /\ Moves(p, new) = <<EntityMovement(p, world[p].at, new)>>
              /\ q = p => sent = events[q] \o mine
              /\ q # p /\ q \in near => sent = events[q] \o Moves(p, new)
              /\ q # p /\ q \notin near => sent = events[q]
<1> DEFINE near == InDimension(Before, world[p].dimension)
           moved == MovedEvents(p, raw, new)
           c == Centering(p, new)
           o == Own(raw, new)
           move == Moves(p, new)
<1>1. o \in Seq(Event) /\ move \in Seq(Event) /\ c \in Seq(Event)
    BY DEF PositionStep
<1>2. move = <<EntityMovement(p, world[p].at, new)>>
    BY DEF Moves, If
<1>3. events[q] \in Seq(Event)
    BY BeforeSound DEF ViewInv
<1>4. moved[q] \in Seq(Event)
    BY <1>1, MovedSent
<1>5. q = p => moved[q] = events[q] \o o
    BY <1>1, MovedSent
<1>6. q # p /\ q \in near => moved[q] = events[q] \o move
    BY <1>1, MovedSent
<1>7. q # p /\ q \notin near => moved[q] = events[q]
    BY <1>1, MovedSent
<1>8. GoneEvents(p, raw, new)[q] = IF q = p THEN moved[q] \o c ELSE moved[q]
    BY SentAt DEF GoneEvents
<1> HIDE DEF near, moved, c, o, move
<1>9. moved[q] \o c \in Seq(Event) /\ o \o c \in Seq(Event)
    BY <1>1, <1>4, MoreEvents
<1>10. PICK e \in Seq(Event) : e = events[q]
    BY <1>3
<1>11. (e \o o) \o c = e \o (o \o c)
    <2>1. Associates(e, o, c)
        BY <1>1, Chained
    <2>2. QED
        BY <2>1 DEF Associates
<1>12. QED
    BY <1>1, <1>2, <1>4, <1>5, <1>6, <1>7, <1>8, <1>9, <1>10, <1>11 DEF GoEvents, near, o, c, move

LEMMA GoGets ==
    ASSUME ViewInv, NEW p, NEW raw, NEW new, GoStep(p, raw, new), NEW q \in Players, q \in running
    PROVE  LET near == InDimension(Before, world[p].dimension)
           IN /\ q = p => Gets(q, GoEvents(p, raw, new))
              /\ q # p /\ q \in near => Gets(q, <<EntityMovement(p, world[p].at, new)>>)
              /\ q # p /\ q \notin near => Gets(q, <<>>)
<1> DEFINE near == InDimension(Before, world[p].dimension)
           mine == GoEvents(p, raw, new)
           sent == GoneEvents(p, raw, new)[q]
<1>1. PositionStep(p, raw, new) /\ new # world[p].at /\ Centering(p, new) \in Seq(Event)
    BY DEF GoStep
<1>2. Tables /\ events' = GoneEvents(p, raw, new)
    BY DEF ViewInv, GoStep
<1>3. /\ mine \in Seq(Event) /\ Moves(p, new) \in Seq(Event)
      /\ Moves(p, new) = <<EntityMovement(p, world[p].at, new)>>
    BY <1>1, GoneSent
<1>4. q = p => sent = events[q] \o mine
    BY <1>1, GoneSent
<1>5. q # p /\ q \in near => sent = events[q] \o Moves(p, new)
    BY <1>1, GoneSent
<1>6. q # p /\ q \notin near => sent = events[q]
    BY <1>1, GoneSent
<1> HIDE DEF near, mine
<1>7. QED
    BY <1>1, <1>2, <1>3, <1>4, <1>5, <1>6, Unchanged DEF Gets, near, mine

LEMMA PortalGets ==
    ASSUME ViewInv, NEW p, NEW raw, NEW new, NEW dest, PortalStep(p, raw, new, dest),
           NEW q \in Players, q \in running
    PROVE  LET near == InDimension(Before, world[p].dimension)
               cs == update_center(chunk_states[p], chunk_from_world(new))
               there == Recentred(cs, Spawn)
           IN /\ GoEvents(p, raw, new) \in Seq(Event)
              /\ TransferEvents(cs, dest, there) \in Seq(Event)
              /\ q = p => Gets(q, GoEvents(p, raw, new) \o TransferEvents(cs, dest, there))
              /\ q # p /\ q \in near => Gets(q, <<EntityMovement(p, world[p].at, new)>>)
              /\ q # p /\ q \notin near => Gets(q, <<>>)
<1> DEFINE near == InDimension(Before, world[p].dimension)
           cs == update_center(chunk_states[p], chunk_from_world(new))
           there == Recentred(cs, Spawn)
           gone == GoneEvents(p, raw, new)
           mine == GoEvents(p, raw, new)
           move == Moves(p, new)
           transfer == TransferEvents(cs, dest, there)
<1>1. PositionStep(p, raw, new) /\ new # world[p].at /\ Centering(p, new) \in Seq(Event)
    BY DEF PortalStep
<1>2. /\ Tables /\ events[q] \in Seq(Event) /\ dest \in EnabledDimensions
      /\ ResyncEvents(cs, dest, there) \in Seq(Event) /\ Arrival(dest) \in Seq(Event)
      /\ events' = TransferredTo(gone, p, cs, dest, there)
    BY BeforeSound DEF ViewInv, PortalStep
<1>3. /\ mine \in Seq(Event) /\ gone[q] \in Seq(Event) /\ move \in Seq(Event)
      /\ move = <<EntityMovement(p, world[p].at, new)>>
    BY <1>1, GoneSent
<1>4. q = p => gone[q] = events[q] \o mine
    BY <1>1, GoneSent
<1>5. q # p /\ q \in near => gone[q] = events[q] \o move
    BY <1>1, GoneSent
<1>6. q # p /\ q \notin near => gone[q] = events[q]
    BY <1>1, GoneSent
<1> HIDE DEF near, cs, there, gone, mine, move
<1>7. /\ transfer \in Seq(Event)
      /\ events'[q] = IF q = p THEN gone[q] \o transfer ELSE gone[q]
    BY <1>2, <1>3, TransferSent
<1> HIDE DEF transfer
<1>8. (events[q] \o mine) \o transfer = events[q] \o (mine \o transfer) /\ mine \o transfer \in Seq(Event)
    <2>1. PICK e \in Seq(Event) : e = events[q]
        BY <1>2
    <2>2. Associates(e, mine, transfer)
        BY <1>3, <1>7, Chained
    <2>3. mine \o transfer \in Seq(Event)
        BY <1>3, <1>7, MoreEvents
    <2>4. QED
        BY <2>1, <2>2, <2>3 DEF Associates
<1>9. /\ q = p => Gets(q, mine \o transfer)
      /\ q # p /\ q \in near => Gets(q, move)
      /\ q # p /\ q \notin near => Gets(q, <<>>)
    BY <1>2, <1>3, <1>7, <1>8, <1>4, <1>5, <1>6, Unchanged DEF Gets
<1>10. QED
    BY <1>3, <1>7, <1>9, Zenon DEF near, cs, there, mine, move, transfer

-----------------------------------------------------------------------------
(* What a client will show of it *)

LEMMA AsksOne ==
    ASSUME NEW e
    PROVE  (Asks(<<e>>) <=> Synchronizes(e)) /\ ~Asks(<<>>)
<1>1. Len(<<e>>) = 1 /\ <<e>>[1] = e /\ Len(<<>>) = 0 /\ 1..1 = {1} /\ 1..0 = {}
    OBVIOUS
<1>2. QED
    BY <1>1 DEF Asks, Asked

LEMMA AsksMore ==
    ASSUME NEW a, NEW b, a \in Seq(Event), b \in Seq(Event)
    PROVE  Asks(a \o b) <=> Asks(a) \/ Asks(b)
<1> DEFINE ab == a \o b
           n == Len(a)
           m == Len(b)
<1>1. n \in Nat /\ m \in Nat /\ Joins(ab, a, b)
    BY LenProperties, Concatenated
<1>2. /\ Len(ab) = n + m
      /\ \A i \in 1..n + m : ab[i] = IF i <= n THEN a[i] ELSE b[i - n]
    BY <1>1 DEF Joins
<1> HIDE DEF ab, n, m
<1>3. ASSUME NEW i \in 1..n PROVE i \in 1..n + m /\ ab[i] = a[i]
    BY <1>1, <1>2
<1>4. ASSUME NEW i \in 1..m PROVE n + i \in 1..n + m /\ ab[n + i] = b[i]
    <2>1. n + i \in 1..n + m /\ ~(n + i <= n) /\ (n + i) - n = i
        BY <1>1
    <2>2. QED
        BY <1>2, <2>1
<1>5. ASSUME NEW i \in 1..n + m PROVE i \in 1..n \/ (i - n \in 1..m /\ ab[i] = b[i - n])
    <2>1. i \in 1..n \/ (i - n \in 1..m /\ ~(i <= n))
        BY <1>1
    <2>2. QED
        BY <1>2, <2>1
<1>6. Asked(ab, n + m) <=> Asked(a, n) \/ Asked(b, m)
    BY <1>3, <1>4, <1>5 DEF Asked
<1>7. QED
    BY <1>2, <1>6 DEF Asks, ab, n, m

\* What is sent comes after what was waiting.
LEMMA Got ==
    ASSUME Tables, NEW q, NEW s, q \in Players, Gets(q, s), client' = client
    PROVE  /\ Polled(q)' = AllHandled(Polled(q), s)
           /\ Asks(events'[q]) <=> Asks(events[q]) \/ Asks(s)
<1>1. events[q] \in Seq(Event) /\ s \in Seq(Event) /\ events'[q] = events[q] \o s
    BY BeforeSound DEF Gets
<1>2. /\ Polled(q) = AllHandled(Showing(client[q]), events[q])
      /\ Polled(q)' = AllHandled(Showing(client[q]), events'[q])
    BY DEF Polled, AllHandled, Showing
<1> DEFINE h == Showing(client[q])
<1>3. PICK e \in Seq(Event) : e = events[q]
    BY <1>1
<1> HIDE DEF h
<1>4. AllHandled(h, e \o s) = AllHandled(AllHandled(h, e), s)
    BY <1>1, MoreHandled
<1>5. Asks(e \o s) <=> Asks(e) \/ Asks(s)
    BY <1>1, AsksMore
<1>6. QED
    BY <1>1, <1>2, <1>3, <1>4, <1>5 DEF h

-----------------------------------------------------------------------------
(* Where client and server think a player is *)

\* The positions of q that the tick thread has not seen yet.
Waits(q) == {i \in 1..Len(messages) :
               messages[i].player = q /\ messages[i].type = "PlayerPositionUpdate"}

ClientTable ==
    /\ client = [q \in Players |-> client[q]]
    /\ \A q \in Players : IsView(client[q])

\* Unless the client is about to be put elsewhere, the last of them is where it is;
\* and if there are none, the server knows.
PlaceTold(q) ==
    ~Asks(events[q]) =>
       \A i \in Waits(q) : (\A j \in Waits(q) : j <= i) => messages[i].value = client[q].at

PlaceAgreed(q) ==
    ~Asks(events[q]) /\ Waits(q) = {} => client[q].at = world[q].at

Placed(q) ==
    /\ q \in heard => q \in Online /\ PlaceAgreed(q)
    /\ PlaceTold(q)

PlacesInv == ClientTable /\ \A q \in running : Placed(q)

\* What a step of the tick thread may do to a player: put them where their client
\* said it was, tell them where they are, or leave them where they were.
TickPlaces(q) ==
    /\ Asks(events[q]) => Asks(events'[q])
    /\ q \in heard' => q \in Online'
    /\ \/ q \notin heard'
       \/ Asks(events'[q])
       \/ 1 \in Waits(q) /\ world'[q].at = messages[1].value
       \/ 1 \notin Waits(q) /\ q \in heard /\ world'[q].at = world[q].at

LEMMA TickPlaced ==
    ASSUME MessagesSound, messages # <<>>, messages' = Tail(messages), client' = client,
           NEW q, Placed(q), TickPlaces(q)
    PROVE  Placed(q)'
<1> DEFINE n == Len(messages)
<1>1. /\ n \in Nat /\ n >= 1 /\ Len(messages') = n - 1
      /\ \A i \in 1..n - 1 : messages'[i] = messages[i + 1]
    BY QueueTaken DEF MessagesSound
<1>2. ASSUME NEW i \in 1..n - 1
      PROVE  i \in Waits(q)' <=> i + 1 \in Waits(q)
    <2>1. i \in 1..Len(messages') /\ i + 1 \in 1..n
        BY <1>1
    <2>2. QED
        BY <1>1, <2>1 DEF Waits
<1>3. Waits(q)' \subseteq 1..n - 1 /\ Waits(q) \subseteq 1..n
    BY <1>1 DEF Waits
<1> HIDE DEF n
<1>4. PlaceTold(q)'
    <2>1. SUFFICES ASSUME ~Asks(events'[q]), NEW i \in Waits(q)', \A j \in Waits(q)' : j <= i
                   PROVE  messages'[i].value = client[q].at
        BY DEF PlaceTold
    <2>2. i \in 1..n - 1 /\ i + 1 \in Waits(q) /\ messages'[i] = messages[i + 1]
        BY <1>1, <1>2, <1>3
    <2>3. ASSUME NEW j \in Waits(q) PROVE j <= i + 1
        <3>1. CASE j = 1
            BY <1>1, <2>2, <3>1
        <3>2. CASE j # 1
            <4>1. j - 1 \in 1..n - 1 /\ (j - 1) + 1 = j
                BY <1>1, <1>3, <3>2
            <4>2. j - 1 \in Waits(q)'
                BY <1>2, <4>1
            <4>3. j - 1 <= i
                BY <2>1, <4>2
            <4>4. QED
                BY <1>1, <2>2, <4>1, <4>3
        <3>3. QED
            BY <3>1, <3>2
    <2>4. ~Asks(events[q])
        BY <2>1 DEF TickPlaces
    <2>5. messages[i + 1].value = client[q].at
        BY <2>2, <2>3, <2>4 DEF Placed, PlaceTold
    <2>6. QED
        BY <2>2, <2>5
<1>5. ASSUME q \in heard', ~Asks(events'[q]), Waits(q)' = {}
      PROVE  client[q].at = world'[q].at
    <2>1. ~Asks(events[q])
        BY <1>5 DEF TickPlaces
    <2>2. ASSUME NEW j \in Waits(q) PROVE j = 1
        <3>1. j # 1 => j - 1 \in 1..n - 1 /\ (j - 1) + 1 = j
            BY <1>1, <1>3
        <3>2. QED
            BY <1>2, <1>5, <3>1
    <2>3. CASE 1 \in Waits(q) /\ world'[q].at = messages[1].value
        <3>1. \A j \in Waits(q) : j <= 1
            BY <2>2
        <3>2. messages[1].value = client[q].at
            BY <2>1, <2>3, <3>1 DEF Placed, PlaceTold
        <3>3. QED
            BY <2>3, <3>2
    <2>4. CASE 1 \notin Waits(q) /\ q \in heard /\ world'[q].at = world[q].at
        <3>1. Waits(q) = {}
            BY <2>2, <2>4
        <3>2. QED
            BY <2>1, <2>4, <3>1 DEF Placed, PlaceAgreed
    <2>5. QED
        BY <1>5, <2>3, <2>4 DEF TickPlaces
<1>6. q \in heard' => q \in Online' /\ PlaceAgreed(q)'
    BY <1>5 DEF TickPlaces, PlaceAgreed
<1>7. QED
    BY <1>4, <1>6 DEF Placed

LEMMA FirstWaits ==
    ASSUME MessagesSound, messages # <<>>, NEW q
    PROVE  1 \in Waits(q) <=> /\ Head(messages).player = q
                              /\ Head(messages).type = "PlayerPositionUpdate"
<1>1. 1 \in 1..Len(messages) /\ Head(messages) = messages[1]
    BY QueueTaken DEF MessagesSound
<1>2. QED
    BY <1>1 DEF Waits

\* A player is left where they were.
LEMMA LeftThere ==
    ASSUME NEW q, NEW s, Tables, q \in Players, Placed(q), Gets(q, s), client' = client,
           1 \notin Waits(q), q \in heard' => q \in heard,
           q \in Online => q \in Online' /\ world'[q].at = world[q].at
    PROVE  TickPlaces(q)
<1>1. Asks(events[q]) => Asks(events'[q])
    BY Got
<1>2. QED
    BY <1>1 DEF TickPlaces, Placed

\* A player is told where they are.
LEMMA ToldWhere ==
    ASSUME NEW q, NEW s, Tables, q \in Players, Placed(q), Gets(q, s), client' = client,
           Asks(s), q \in heard' => q \in Online'
    PROVE  TickPlaces(q)
<1>1. Asks(events'[q])
    BY Got
<1>2. QED
    BY <1>1 DEF TickPlaces

LEMMA OwnAsks ==
    ASSUME NEW raw, NEW new, raw # new
    PROVE  Asks(Own(raw, new))
<1>1. Synchronizes(SynchronizePosition(new))
    BY DEF Synchronizes, SynchronizePosition
<1>2. Asks(<<SynchronizePosition(new)>>)
    BY <1>1, AsksOne
<1>3. QED
    BY <1>2 DEF Own, If

LEMMA GoAsks ==
    ASSUME NEW p, NEW raw, NEW new, raw # new, Own(raw, new) \in Seq(Event),
           Centering(p, new) \in Seq(Event)
    PROVE  Asks(GoEvents(p, raw, new))
<1>1. Asks(Own(raw, new))
    BY OwnAsks
<1>2. QED
    BY <1>1, AsksMore DEF GoEvents

LEMMA TransferAsks ==
    ASSUME NEW before, NEW dest, NEW cs, dest \in EnabledDimensions,
           mobs \subseteq DOMAIN MobHome, ResyncEvents(before, dest, cs) \in Seq(Event)
    PROVE  Asks(TransferEvents(before, dest, cs))
<1> DEFINE a == <<RespawnPlayer(dest, Spawn, TRUE)>>
           b == ResyncEvents(before, dest, cs)
           c == <<SynchronizePosition(Spawn)>>
           d == SyncMobs(dest)
<1>1. TransferEvents(before, dest, cs) = (a \o b) \o (c \o d)
    BY Zenon DEF TransferEvents, Arrival
<1>2. a \in Seq(Event) /\ b \in Seq(Event) /\ d \in Seq(Event)
    BY RespawnEvent, SyncMobsEvents DEF Habitable
<1>3. c \in Seq(Event)
    <2>1. SynchronizePosition(Spawn) \in Event
        BY SpawnInside DEF SynchronizePosition, Event, SynchronizingEvent
    <2>2. QED
        BY <2>1, OneEvent
<1>4. Asks(c)
    <2>1. Synchronizes(SynchronizePosition(Spawn))
        BY DEF Synchronizes, SynchronizePosition
    <2>2. QED
        BY <2>1, AsksOne
<1> HIDE DEF a, b, c, d
<1>5. a \o b \in Seq(Event) /\ c \o d \in Seq(Event)
    BY <1>2, <1>3, MoreEvents
<1>6. Asks(c \o d)
    BY <1>2, <1>3, <1>4, AsksMore
<1> DEFINE ab == a \o b
           cd == c \o d
<1>7. ab \in Seq(Event) /\ cd \in Seq(Event) /\ Asks(cd)
    BY <1>5, <1>6
<1> HIDE DEF ab, cd
<1>8. Asks(ab \o cd)
    BY <1>7, AsksMore
<1>9. QED
    BY <1>1, <1>8 DEF ab, cd

LEMMA RespawnAsks ==
    ASSUME NEW before, NEW dim, NEW cs, dim \in Habitable,
           mobs \subseteq DOMAIN MobHome, ResyncEvents(before, dim, cs) \in Seq(Event)
    PROVE  Asks(RespawnEvents(before, dim, cs))
<1> DEFINE a == <<RespawnPlayer(dim, Spawn, FALSE)>>
           b == ResyncEvents(before, dim, cs)
           d == SyncMobs(dim)
<1>1. RespawnEvents(before, dim, cs) = (a \o b) \o d
    BY Zenon DEF RespawnEvents
<1>2. a \in Seq(Event) /\ b \in Seq(Event) /\ d \in Seq(Event)
    BY RespawnEvent, SyncMobsEvents
<1>3. Asks(a)
    <2>1. Synchronizes(RespawnPlayer(dim, Spawn, FALSE))
        BY DEF Synchronizes, RespawnPlayer
    <2>2. QED
        BY <2>1, AsksOne
<1> HIDE DEF a, b, d
<1> DEFINE ab == a \o b
<1>4. ab \in Seq(Event) /\ Asks(ab)
    BY <1>2, <1>3, AsksMore, MoreEvents
<1> HIDE DEF ab
<1>5. Asks(ab \o d)
    BY <1>2, <1>4, AsksMore
<1>6. QED
    BY <1>1, <1>5 DEF ab

\* What each step of the tick thread does to a player whose session runs.
LEMMA InDimensionOnline ==
    ASSUME Tables, NEW d, NEW q
    PROVE  q \in InDimension(Before, d) <=> q \in Online /\ world[q].dimension = d
BY BeforeSound DEF InDimension, Online

LEMMA JoinPlaces ==
    ASSUME ViewInv, NEW p, NEW at, JoinStep(p, at), NEW q \in running, Placed(q), 1 \notin Waits(q)
    PROVE  TickPlaces(q)
<1>1. Tables /\ q \in Players
    BY DEF ViewInv, Tables
<1>2. \E s : Gets(q, s)
    BY <1>1, JoinGets
<1>3. /\ client' = client /\ heard' = heard /\ p \notin Online
      /\ world' = Put(world, p, [at |-> at, dimension |-> "Overworld"])
    BY DEF JoinStep, marks
<1>4. q \in Online => q \in Online' /\ world'[q] = world[q]
    BY <1>3 DEF Put, Online
<1>5. QED
    BY <1>1, <1>2, <1>3, <1>4, LeftThere

LEMMA LeavePlaces ==
    ASSUME ViewInv, NEW p, LeaveStep(p), NEW q \in running, Placed(q), 1 \notin Waits(q)
    PROVE  TickPlaces(q)
<1>1. Tables /\ q \in Players
    BY DEF ViewInv, Tables
<1>2. \E s : Gets(q, s)
    BY <1>1, LeaveGets
<1>3. /\ client' = client /\ heard' = heard \cup {p} /\ q # p
      /\ world' = Without(world, {p})
    BY DEF LeaveStep
<1>4. q \in Online => q \in Online' /\ world'[q] = world[q]
    BY <1>3 DEF Without, Online
<1>5. QED
    BY <1>1, <1>2, <1>3, <1>4, LeftThere

\* Steps that move nobody.
LEMMA NobodyMoved ==
    ASSUME ViewInv, NEW q, NEW s, q \in running, Placed(q), 1 \notin Waits(q), Gets(q, s),
           client' = client, world' = world, heard' = heard
    PROVE  TickPlaces(q)
<1>1. Tables /\ q \in Players /\ Online' = Online
    BY DEF ViewInv, Tables, Online
<1>2. QED
    BY <1>1, LeftThere

LEMMA SetBlockPlaces ==
    ASSUME ViewInv, NEW dim, NEW at, NEW state, SetBlockStep(dim, at, state),
           NEW q \in running, Placed(q), 1 \notin Waits(q)
    PROVE  TickPlaces(q)
<1>1. q \in Players /\ client' = client /\ world' = world /\ heard' = heard
    BY DEF ViewInv, Tables, SetBlockStep, marks
<1>2. \E s : Gets(q, s)
    BY <1>1, SetBlockGets
<1>3. QED
    BY <1>1, <1>2, NobodyMoved

LEMMA IdlePlaces ==
    ASSUME ViewInv, IdleStep, NEW q \in running, Placed(q), 1 \notin Waits(q)
    PROVE  TickPlaces(q)
<1>1. q \in Players /\ client' = client /\ world' = world /\ heard' = heard
    BY DEF ViewInv, Tables, IdleStep, marks
<1>2. \E s : Gets(q, s)
    BY <1>1, IdleGets
<1>3. QED
    BY <1>1, <1>2, NobodyMoved

LEMMA DistancePlaces ==
    ASSUME ViewInv, NEW p, NEW cs, DistanceStep(p, cs), NEW q \in running, Placed(q),
           1 \notin Waits(q)
    PROVE  TickPlaces(q)
<1>1. q \in Players /\ client' = client /\ world' = world /\ heard' = heard
    BY DEF ViewInv, Tables, DistanceStep, marks
<1>2. \E s : Gets(q, s)
    BY <1>1, DistanceGets
<1>3. QED
    BY <1>1, <1>2, NobodyMoved

LEMMA KillPlaces ==
    ASSUME ViewInv, NEW id, KillStep(id), NEW q \in running, Placed(q), 1 \notin Waits(q)
    PROVE  TickPlaces(q)
<1>1. q \in Players /\ client' = client /\ world' = world /\ heard' = heard
    BY DEF ViewInv, Tables, KillStep, marks
<1>2. \E s : Gets(q, s)
    BY <1>1, KillGets
<1>3. QED
    BY <1>1, <1>2, NobodyMoved

\* Of p, who is moved; the others stay where they are.
MovesOnly(p, place) ==
    /\ p \in Online /\ world' = With(world, p, place) /\ client' = client
    /\ heard' = heard \cup {p}

LEMMA MovesOne ==
    ASSUME NEW p, NEW place, MovesOnly(p, place)
    PROVE  /\ p \in Online' /\ world'[p] = place
           /\ \A q \in Online : q # p => q \in Online' /\ world'[q] = world[q]
BY DEF MovesOnly, With, Online

LEMMA TransferPlaces ==
    ASSUME ViewInv, NEW p, NEW dest, TransferStep(p, dest), NEW q \in running, Placed(q),
           1 \notin Waits(q)
    PROVE  TickPlaces(q)
<1>1. Tables /\ q \in Players /\ mobs \subseteq DOMAIN MobHome
    BY DEF ViewInv, Tables
<1> DEFINE cs == Recentred(chunk_states[p], Spawn)
           place == [at |-> Spawn, dimension |-> dest]
<1>2. /\ MovesOnly(p, place) /\ dest \in EnabledDimensions
      /\ ResyncEvents(chunk_states[p], dest, cs) \in Seq(Event)
    BY DEF TransferStep, MovesOnly
<1>3. /\ p \in Online' /\ client' = client /\ heard' = heard \cup {p}
      /\ q \in Online /\ q # p => q \in Online' /\ world'[q] = world[q]
    BY <1>2, MovesOne DEF MovesOnly
<1> HIDE DEF cs, place
<1>4. CASE q = p
    <2>1. Asks(TransferEvents(chunk_states[p], dest, cs))
        BY <1>1, <1>2, TransferAsks
    <2>2. Gets(q, TransferEvents(chunk_states[p], dest, cs))
        BY <1>1, <1>4, TransferGets DEF cs
    <2>3. QED
        BY <1>1, <1>3, <1>4, <2>1, <2>2, ToldWhere
<1>5. CASE q # p
    <2>1. Gets(q, <<>>)
        BY <1>1, <1>5, TransferGets
    <2>2. QED
        BY <1>1, <1>3, <1>5, <2>1, LeftThere
<1>6. QED
    BY <1>4, <1>5

LEMMA RespawnPlaces ==
    ASSUME ViewInv, NEW p, RespawnStep(p), NEW q \in running, Placed(q), 1 \notin Waits(q)
    PROVE  TickPlaces(q)
<1>1. Tables /\ q \in Players /\ mobs \subseteq DOMAIN MobHome
    BY DEF ViewInv, Tables
<1> DEFINE cs == Recentred(chunk_states[p], Spawn)
           dim == world[p].dimension
           place == [at |-> Spawn, dimension |-> dim]
<1>2. /\ MovesOnly(p, place)
      /\ ResyncEvents(chunk_states[p], dim, cs) \in Seq(Event)
    BY DEF RespawnStep, MovesOnly
<1>3. /\ p \in Online' /\ client' = client /\ heard' = heard \cup {p} /\ p \in Online
      /\ q \in Online /\ q # p => q \in Online' /\ world'[q] = world[q]
    BY <1>2, MovesOne DEF MovesOnly
<1>4. dim \in Habitable
    BY <1>1, <1>3, BeforeSound
<1> HIDE DEF cs, place, dim
<1>5. CASE q = p
    <2>1. Asks(RespawnEvents(chunk_states[p], dim, cs))
        BY <1>1, <1>2, <1>4, RespawnAsks
    <2>2. Gets(q, RespawnEvents(chunk_states[p], dim, cs))
        BY <1>1, <1>5, RespawnGets DEF cs, dim
    <2>3. QED
        BY <1>1, <1>3, <1>5, <2>1, <2>2, ToldWhere
<1>6. CASE q # p
    <2>1. Gets(q, <<>>)
        BY <1>1, <1>6, RespawnGets
    <2>2. QED
        BY <1>1, <1>3, <1>6, <2>1, LeftThere
<1>7. QED
    BY <1>5, <1>6

\* A player is where their client said it was.
LEMMA PutThere ==
    ASSUME NEW q, NEW s, ViewInv, messages # <<>>, q \in Players, Gets(q, s), client' = client,
           1 \in Waits(q), world'[q].at = Head(messages).value, q \in heard' => q \in Online'
    PROVE  TickPlaces(q)
<1>1. Asks(events[q]) => Asks(events'[q])
    BY Got DEF ViewInv
<1>2. Head(messages) = messages[1]
    BY QueueTaken DEF ViewInv, MessagesSound
<1>3. QED
    BY <1>1, <1>2 DEF TickPlaces

LEMMA StayPlaces ==
    ASSUME ViewInv, messages # <<>>, NEW p, NEW raw, NEW new, StayStep(p, raw, new),
           NEW q \in running, Placed(q)
    PROVE  TickPlaces(q)
<1>1. Tables /\ MessagesSound /\ q \in Players
    BY DEF ViewInv, Tables
<1>2. /\ p = Head(messages).player /\ raw = Head(messages).value
      /\ Head(messages).type = "PlayerPositionUpdate"
      /\ client' = client /\ heard' = heard /\ world' = world /\ new = world[p].at
    BY DEF StayStep, PositionStep
<1>3. 1 \in Waits(q) <=> q = p
    BY <1>1, <1>2, FirstWaits
<1>4. Online' = Online /\ (q \in heard' => q \in Online')
    BY <1>2 DEF Online, Placed
<1>5. CASE q # p
    <2>1. Gets(q, <<>>)
        BY <1>1, <1>5, StayGets
    <2>2. QED
        BY <1>1, <1>2, <1>3, <1>4, <1>5, <2>1, LeftThere
<1>6. CASE q = p
    <2>1. Gets(q, Own(raw, new))
        BY <1>1, <1>6, StayGets
    <2>2. CASE raw # new
        BY <1>1, <1>2, <1>4, <2>1, <2>2, OwnAsks, ToldWhere
    <2>3. CASE raw = new
        <3>1. world'[q].at = Head(messages).value
            BY <1>2, <1>6, <2>3
        <3>2. QED
            BY <1>1, <1>2, <1>3, <1>4, <1>6, <2>1, <3>1, PutThere
    <2>4. QED
        BY <2>2, <2>3
<1>7. QED
    BY <1>5, <1>6

LEMMA GoPlaces ==
    ASSUME ViewInv, messages # <<>>, NEW p, NEW raw, NEW new, GoStep(p, raw, new),
           NEW q \in running, Placed(q)
    PROVE  TickPlaces(q)
<1>1. Tables /\ MessagesSound /\ q \in Players
    BY DEF ViewInv, Tables
<1> DEFINE place == [at |-> new, dimension |-> world[p].dimension]
<1>2. /\ p = Head(messages).player /\ raw = Head(messages).value
      /\ Head(messages).type = "PlayerPositionUpdate"
      /\ MovesOnly(p, place)
      /\ Own(raw, new) \in Seq(Event) /\ Centering(p, new) \in Seq(Event)
    BY DEF GoStep, PositionStep, MovesOnly
<1>3. /\ p \in Online' /\ client' = client /\ heard' = heard \cup {p} /\ world'[p].at = new
      /\ q \in Online /\ q # p => q \in Online' /\ world'[q] = world[q]
    BY <1>2, MovesOne DEF MovesOnly
<1> HIDE DEF place
<1>4. 1 \in Waits(q) <=> q = p
    BY <1>1, <1>2, FirstWaits
<1>5. CASE q # p
    <2>1. \E s : Gets(q, s)
        BY <1>1, <1>5, GoGets
    <2>2. QED
        BY <1>1, <1>3, <1>4, <1>5, <2>1, LeftThere
<1>6. CASE q = p
    <2>1. Gets(q, GoEvents(p, raw, new))
        BY <1>1, <1>6, GoGets
    <2>2. CASE raw # new
        <3>1. Asks(GoEvents(p, raw, new))
            BY <1>2, <2>2, GoAsks
        <3>2. QED
            BY <1>1, <1>3, <1>6, <2>1, <3>1, ToldWhere
    <2>3. CASE raw = new
        <3>1. world'[q].at = Head(messages).value
            BY <1>2, <1>3, <1>6, <2>3
        <3>2. QED
            BY <1>1, <1>3, <1>4, <1>6, <2>1, <3>1, PutThere
    <2>4. QED
        BY <2>2, <2>3
<1>7. QED
    BY <1>5, <1>6

LEMMA PortalPlaces ==
    ASSUME ViewInv, messages # <<>>, NEW p, NEW raw, NEW new, NEW dest,
           PortalStep(p, raw, new, dest), NEW q \in running, Placed(q)
    PROVE  TickPlaces(q)
<1>1. Tables /\ MessagesSound /\ q \in Players /\ mobs \subseteq DOMAIN MobHome
    BY DEF ViewInv, Tables
<1> DEFINE place == [at |-> Spawn, dimension |-> dest]
           cs == update_center(chunk_states[p], chunk_from_world(new))
           there == Recentred(cs, Spawn)
           transfer == TransferEvents(cs, dest, there)
<1>2. /\ p = Head(messages).player /\ Head(messages).type = "PlayerPositionUpdate"
      /\ MovesOnly(p, place) /\ dest \in EnabledDimensions
      /\ ResyncEvents(cs, dest, there) \in Seq(Event)
    BY DEF PortalStep, PositionStep, MovesOnly
<1>3. /\ p \in Online' /\ client' = client /\ heard' = heard \cup {p}
      /\ q \in Online /\ q # p => q \in Online' /\ world'[q] = world[q]
    BY <1>2, MovesOne DEF MovesOnly
<1>4. /\ GoEvents(p, raw, new) \in Seq(Event) /\ transfer \in Seq(Event)
      /\ q = p => Gets(q, GoEvents(p, raw, new) \o transfer)
      /\ \E s : Gets(q, s)
    BY <1>1, PortalGets
<1> HIDE DEF place, cs, there
<1>5. Asks(transfer)
    BY <1>1, <1>2, TransferAsks
<1> HIDE DEF transfer
<1>6. 1 \in Waits(q) <=> q = p
    BY <1>1, <1>2, FirstWaits
<1>7. CASE q # p
    BY <1>1, <1>3, <1>4, <1>6, <1>7, LeftThere
<1>8. CASE q = p
    <2>1. Asks(GoEvents(p, raw, new) \o transfer)
        BY <1>4, <1>5, AsksMore
    <2>2. QED
        BY <1>1, <1>3, <1>4, <1>8, <2>1, ToldWhere
<1>9. QED
    BY <1>7, <1>8

LEMMA ReceivePlaces ==
    ASSUME ViewInv, Receive
    PROVE  /\ messages # <<>> /\ messages' = Tail(messages)
           /\ client' = client /\ running' = running
           /\ \A q \in running : Placed(q) => TickPlaces(q)
<1> DEFINE type == Head(messages).type
           Takes(kind) == /\ type = kind /\ messages' = Tail(messages)
                          /\ client' = client /\ running' = running
<1>1. messages # <<>> /\ MessagesSound
    BY DEF Receive, ViewInv
<1>2. SUFFICES /\ messages' = Tail(messages) /\ client' = client /\ running' = running
               /\ \A q \in running : Placed(q) => TickPlaces(q)
    BY <1>1
<1>3. type # "PlayerPositionUpdate" => \A q : 1 \notin Waits(q)
    BY <1>1, FirstWaits
<1>4. CASE PlayerJoined
    <2>1. Takes("PlayerJoined")
        BY <1>4 DEF PlayerJoined, Handles
    <2>2. PICK p, at : JoinStep(p, at)
        BY <1>4, PlayerJoinedStep
    <2>3. QED
        BY <1>3, <2>1, <2>2, JoinPlaces
<1>5. CASE PlayerLeft
    <2>1. Takes("PlayerLeft")
        BY <1>5 DEF PlayerLeft, Handles
    <2>2. PICK p : LeaveStep(p)
        BY <1>5, PlayerLeftStep
    <2>3. QED
        BY <1>3, <2>1, <2>2, LeavePlaces
<1>6. CASE SetBlock
    <2>1. Takes("SetBlock")
        BY <1>6 DEF SetBlock, Handles
    <2>2. PICK dim, at, state : SetBlockStep(dim, at, state)
        BY <1>6, SetBlockStepKeeps
    <2>3. QED
        BY <1>3, <2>1, <2>2, SetBlockPlaces
<1>7. CASE SetClientViewDistance
    <2>1. Takes("SetClientViewDistance")
        BY <1>7 DEF SetClientViewDistance, Handles
    <2>2. IdleStep \/ \E p, cs : DistanceStep(p, cs)
        BY <1>7, SetClientViewDistanceStep
    <2>3. QED
        BY <1>3, <2>1, <2>2, IdlePlaces, DistancePlaces
<1>8. CASE ChatMessage
    <2>1. Takes("ChatMessage")
        BY <1>8 DEF ChatMessage, Handles
    <2>2. IdleStep \/ \E p, dest : TransferStep(p, dest)
        BY <1>8, ChatMessageStep
    <2>3. QED
        BY <1>3, <2>1, <2>2, IdlePlaces, TransferPlaces
<1>9. CASE ClientStatus
    <2>1. Takes("ClientStatus")
        BY <1>9 DEF ClientStatus, Handles
    <2>2. IdleStep \/ \E p : RespawnStep(p)
        BY <1>9, ClientStatusStep
    <2>3. QED
        BY <1>3, <2>1, <2>2, IdlePlaces, RespawnPlaces
<1>10. CASE InteractEntity
    <2>1. Takes("InteractEntity")
        BY <1>10 DEF InteractEntity, Handles
    <2>2. IdleStep \/ \E id : KillStep(id)
        BY <1>10, InteractEntityStep
    <2>3. QED
        BY <1>3, <2>1, <2>2, IdlePlaces, KillPlaces
<1>11. CASE PlayerPositionUpdate
    <2>1. Takes("PlayerPositionUpdate")
        BY <1>11 DEF PlayerPositionUpdate, Handles
    <2>2. \/ IdleStep /\ Head(messages).player \notin Online
          \/ \E p, raw, new : \/ StayStep(p, raw, new) \/ GoStep(p, raw, new)
                             \/ \E dest : PortalStep(p, raw, new, dest)
        BY <1>11, PlayerPositionUpdateStep
    <2>3. ASSUME IdleStep, Head(messages).player \notin Online, NEW q \in running, Placed(q)
          PROVE  TickPlaces(q)
        <3>1. CASE 1 \notin Waits(q)
            BY <2>3, <3>1, IdlePlaces
        <3>2. CASE 1 \in Waits(q)
            <4>1. q \notin heard
                BY <1>1, <2>3, <3>2, FirstWaits DEF Placed
            <4>2. heard' = heard /\ events' = events
                BY <2>3 DEF IdleStep, marks
            <4>3. QED
                BY <4>1, <4>2 DEF TickPlaces
        <3>3. QED
            BY <3>1, <3>2
    <2>4. QED
        BY <1>1, <2>1, <2>2, <2>3, StayPlaces, GoPlaces, PortalPlaces
<1>12. QED
    BY <1>4, <1>5, <1>6, <1>7, <1>8, <1>9, <1>10, <1>11 DEF Receive

LEMMA ReceiveKeepsPlaces ==
    ASSUME ViewInv, PlacesInv, Receive
    PROVE  PlacesInv'
<1>1. /\ messages # <<>> /\ messages' = Tail(messages)
      /\ client' = client /\ running' = running
      /\ \A q \in running : Placed(q) => TickPlaces(q)
    BY ReceivePlaces
<1>2. ASSUME NEW q \in running PROVE Placed(q)'
    <2>1. Placed(q) /\ TickPlaces(q) /\ MessagesSound
        BY <1>1 DEF PlacesInv, ViewInv
    <2>2. QED
        BY <1>1, <2>1, TickPlaced
<1>3. QED
    BY <1>1, <1>2 DEF PlacesInv, ClientTable

\* What a step of a session or of the clock does to the players it is not about.
LEMMA NotAbout ==
    ASSUME NEW q, Placed(q), events'[q] = events[q], client'[q] = client[q],
           UNCHANGED <<world, heard>>, Waits(q)' = Waits(q),
           \A i \in Waits(q) : messages'[i] = messages[i]
    PROVE  Placed(q)'
<1>1. Online' = Online
    BY DEF Online
<1>2. PlaceTold(q)'
    BY DEF Placed, PlaceTold
<1>3. PlaceAgreed(q) => PlaceAgreed(q)'
    BY DEF PlaceAgreed
<1>4. QED
    BY <1>1, <1>2, <1>3 DEF Placed

\* A message that says nothing of where q is.
LEMMA OtherMessage ==
    ASSUME MessagesSound, NEW m, messages' = Append(messages, m), NEW q,
           m.player # q \/ m.type # "PlayerPositionUpdate"
    PROVE  Waits(q)' = Waits(q) /\ \A i \in Waits(q) : messages'[i] = messages[i]
<1>1. /\ Len(messages) \in Nat /\ Len(messages') = Len(messages) + 1
      /\ \A i \in 1..Len(messages) : messages'[i] = messages[i]
      /\ messages'[Len(messages) + 1] = m
    BY QueueAppended DEF MessagesSound
<1>2. \A i : i \in Waits(q)' <=> i \in Waits(q)
    BY <1>1 DEF Waits
<1>3. QED
    BY <1>1, <1>2 DEF Waits

\* The client of p shows something else.
LEMMA OneClient ==
    ASSUME ClientTable, NEW p \in Players, NEW v, IsView(v), client' = With(client, p, v)
    PROVE  /\ ClientTable' /\ client'[p] = v
           /\ \A q \in Players : q # p => client'[q] = client[q]
BY DEF ClientTable, With

LEMMA TellKeepsPlaces ==
    ASSUME ViewInv, PlacesInv, NEW p, NEW m, TellStep(p, m)
    PROVE  PlacesInv'
<1>1. /\ p \in running /\ m.player = p /\ messages' = Append(messages, m)
      /\ events' = events /\ world' = world /\ heard' = heard /\ running' = running
    BY DEF TellStep, tick
<1>2. MessagesSound /\ ClientTable /\ running \subseteq Players
    BY DEF ViewInv, Tables, PlacesInv
<1>3. /\ ClientTable' /\ \A q \in Players : q # p => client'[q] = client[q]
      /\ \/ client' = client /\ m.type # "PlayerPositionUpdate"
         \/ m.type = "PlayerPositionUpdate" /\ client'[p].at = m.value
    <2>1. CASE client' = client /\ m.type # "PlayerPositionUpdate"
        BY <1>2, <2>1 DEF ClientTable
    <2>2. CASE m.type = "PlayerPositionUpdate" /\ client' = [client EXCEPT ![p].at = m.value]
        <3> DEFINE v == [client[p] EXCEPT !.at = m.value]
                   c == client[p]
        <3>1. client' = With(client, p, v)
            BY <2>2 DEF With
        <3>2. IsView(c)
            BY <1>1, <1>2 DEF ClientTable
        <3>3. v = ViewOf(c.session_dimension, c.dimension, m.value, c.center, c.chunks, c.players, c.mobs)
            <4> HIDE DEF c
            <4>1. [c EXCEPT !.at = m.value]
                    = ViewOf(c.session_dimension, c.dimension, m.value, c.center, c.chunks, c.players, c.mobs)
                BY <3>2, ViewElsewhere DEF IsView
            <4>2. QED
                BY <4>1 DEF c
        <3> HIDE DEF v, c
        <3>4. IsView(v) /\ v.at = m.value
            BY <3>3, ViewFields
        <3>5. QED
            BY <1>1, <1>2, <2>2, <3>1, <3>4, OneClient
    <2>3. QED
        BY <2>1, <2>2 DEF TellStep
<1>4. ASSUME NEW q \in running PROVE Placed(q)'
    <2>1. Placed(q) /\ q \in Players
        BY <1>2 DEF PlacesInv
    <2>2. CASE q # p \/ m.type # "PlayerPositionUpdate"
        <3>1. Waits(q)' = Waits(q) /\ \A i \in Waits(q) : messages'[i] = messages[i]
            BY <1>1, <1>2, <2>2, OtherMessage
        <3>2. client'[q] = client[q]
            BY <1>3, <2>1, <2>2
        <3>3. QED
            BY <1>1, <2>1, <3>1, <3>2, NotAbout
    <2>3. CASE q = p /\ m.type = "PlayerPositionUpdate"
        <3> DEFINE last == Len(messages) + 1
        <3>1. last \in Nat /\ Len(messages') = last /\ messages'[last] = m /\ last \in 1..last
            BY <1>1, <1>2, QueueAppended DEF MessagesSound
        <3>2. last \in Waits(q)' /\ \A i \in Waits(q)' : i \in 1..last
            BY <1>1, <2>3, <3>1 DEF Waits
        <3> HIDE DEF last
        <3>3. ASSUME NEW i \in Waits(q)', \A j \in Waits(q)' : j <= i
              PROVE  messages'[i].value = client'[q].at
            <4>1. i = last
                BY <3>1, <3>2, <3>3
            <4>2. QED
                BY <1>3, <2>3, <3>1, <4>1
        <3>4. PlaceTold(q)' /\ PlaceAgreed(q)'
            BY <3>2, <3>3 DEF PlaceTold, PlaceAgreed
        <3>5. q \in heard' => q \in Online'
            BY <1>1, <2>1 DEF Placed, Online
        <3>6. QED
            BY <3>4, <3>5 DEF Placed
    <2>4. QED
        BY <2>2, <2>3
<1>5. QED
    BY <1>1, <1>3, <1>4 DEF PlacesInv

LEMMA ConnectKeepsPlaces ==
    ASSUME ViewInv, PlacesInv, NEW p \in Players, Connect(p)
    PROVE  PlacesInv'
<1> DEFINE m == Message(p, "PlayerJoined", "join")
<1>1. /\ messages' = Append(messages, m) /\ running' = running \cup {p} /\ client' = client
      /\ events' = events /\ world' = world /\ heard' = heard
      /\ p \notin heard /\ \A i \in DOMAIN messages : messages[i].player # p
    BY DEF Connect, Send, tick
<1>2. m.type # "PlayerPositionUpdate"
    BY DEF Message
<1> HIDE DEF m
<1>3. MessagesSound /\ DOMAIN messages = 1..Len(messages)
    BY LenProperties DEF ViewInv, MessagesSound, IsQueue
<1>4. ASSUME NEW q
      PROVE  Waits(q)' = Waits(q) /\ \A i \in Waits(q) : messages'[i] = messages[i]
    BY <1>1, <1>2, <1>3, OtherMessage
<1>5. ASSUME NEW q \in running PROVE Placed(q)'
    BY <1>1, <1>4, NotAbout DEF PlacesInv
<1>6. Placed(p)'
    <2>1. Waits(p)' = {}
        BY <1>1, <1>3, <1>4 DEF Waits
    <2>2. QED
        BY <1>1, <2>1 DEF Placed, PlaceTold
<1>7. QED
    BY <1>1, <1>5, <1>6 DEF PlacesInv, ClientTable

LEMMA DisconnectKeepsPlaces ==
    ASSUME ViewInv, PlacesInv, NEW p \in Players, Disconnect(p)
    PROVE  PlacesInv'
<1> DEFINE m == Message(p, "PlayerLeft", "left")
<1>1. /\ messages' = Append(messages, m) /\ running' = running \ {p} /\ client' = client
      /\ events' = [events EXCEPT ![p] = <<>>] /\ world' = world /\ heard' = heard
    BY DEF Disconnect
<1>2. m.type # "PlayerPositionUpdate"
    BY DEF Message
<1> HIDE DEF m
<1>3. MessagesSound /\ DOMAIN events = Players /\ running \subseteq Players
    BY BeforeSound DEF ViewInv, Tables
<1>4. ASSUME NEW q
      PROVE  Waits(q)' = Waits(q) /\ \A i \in Waits(q) : messages'[i] = messages[i]
    BY <1>1, <1>2, <1>3, OtherMessage
<1>5. ASSUME NEW q \in running' PROVE Placed(q)'
    <2>1. Placed(q) /\ events'[q] = events[q]
        BY <1>1, <1>3 DEF PlacesInv
    <2>2. QED
        BY <1>1, <1>4, <2>1, NotAbout
<1>6. QED
    BY <1>1, <1>5 DEF PlacesInv, ClientTable

LEMMA QuietKeepsPlaces ==
    ASSUME PlacesInv, \/ \E p \in Players : Death(p)
                      \/ Cooldown
                      \/ UNCHANGED vars
    PROVE  PlacesInv'
<1>1. UNCHANGED <<messages, running, client, events, world, heard>>
    <2>1. CASE \E p \in Players : Death(p)
        BY <2>1 DEF Death, tick
    <2>2. CASE Cooldown
        BY <2>2 DEF Cooldown, marks
    <2>3. CASE UNCHANGED vars
        BY <2>3 DEF vars, tick, marks
    <2>4. QED
        BY <2>1, <2>2, <2>3
<1>2. ASSUME NEW q \in running PROVE Placed(q)'
    <2>1. Waits(q)' = Waits(q)
        BY <1>1 DEF Waits
    <2>2. QED
        BY <1>1, <2>1, NotAbout DEF PlacesInv
<1>3. QED
    BY <1>1, <1>2 DEF PlacesInv, ClientTable

LEMMA PollKeepsPlaces ==
    ASSUME ViewInv, PlacesInv, NEW p \in Players, PollEvents(p)
    PROVE  PlacesInv'
<1> DEFINE answers == Polled(p).answers
           n == Len(messages)
           k == Len(answers)
           v == Drained(p)
<1>1. /\ p \in running /\ client' = [client EXCEPT ![p] = Drained(p)]
      /\ events' = [events EXCEPT ![p] = <<>>]
      /\ world' = world /\ heard' = heard /\ running' = running
    BY DEF PollEvents, marks
<1>2. /\ MessagesSound /\ ClientTable /\ running \subseteq Players
      /\ events \in [Players -> Seq(Event)]
    BY BeforeSound DEF ViewInv, Tables, PlacesInv
<1>3. /\ n \in Nat /\ k \in Nat /\ Len(messages') = n + k
      /\ \A i \in 1..n : messages'[i] = messages[i]
      /\ \A i \in 1..k : messages'[n + i] = PositionUpdate(p, answers[i])
    BY <1>2, AnswersQueued
<1>4. /\ IsView(v)
      /\ AnsweredFor(client[p], Polled(p), events[p], Len(events[p]))
    <2>1. Polled(p) = AllHandled(Showing(client[p]), events[p])
        BY DEF Polled, AllHandled, Showing
    <2>2. ButForAt(client[p], client[p])
        BY <1>2, Itself DEF ClientTable
    <2>3. PICK s \in Seq(Event) : s = events[p]
        BY <1>2
    <2>4. PICK c : c = client[p]
        OBVIOUS
    <2>5. ButForAt(AllHandled(Showing(c), s).view, AllHandled(Showing(c), s).view)
        BY <2>2, <2>4, AllAnswered
    <2>6. AnsweredFor(c, AllHandled(Showing(c), s), s, Len(s))
        BY <2>2, <2>4, AllAnswered
    <2>7. QED
        BY <2>1, <2>3, <2>4, <2>5, <2>6, Itself DEF Drained
<1>5. /\ answers \in Seq(Inside)
      /\ ~Asks(events[p]) => answers = <<>> /\ v.at = client[p].at
      /\ Asks(events[p]) => answers # <<>> /\ answers[k] = v.at
    BY <1>4, Zenon DEF AnsweredFor, Asks, Drained
<1>6. /\ ClientTable' /\ client'[p] = v
      /\ \A q \in Players : q # p => client'[q] = client[q]
    <2>1. client' = With(client, p, v)
        BY <1>1 DEF With
    <2> HIDE DEF v
    <2>2. QED
        BY <1>2, <1>4, <2>1, OneClient
<1>7. ASSUME NEW q \in Players, q # p
      PROVE  Waits(q)' = Waits(q) /\ \A i \in Waits(q) : messages'[i] = messages[i]
    <2>1. ASSUME NEW i \in n + 1..n + k PROVE messages'[i].player = p
        <3>1. i - n \in 1..k /\ n + (i - n) = i
            BY <1>3
        <3>2. messages'[i] = PositionUpdate(p, answers[i - n])
            BY <1>3, <3>1
        <3>3. QED
            BY <3>2 DEF PositionUpdate, Message
    <2> HIDE DEF n, k, answers
    <2>2. 1..Len(messages') = (1..n) \cup (n + 1..n + k) /\ 1..n = 1..Len(messages)
        BY <1>3 DEF n
    <2>3. QED
        BY <1>3, <1>7, <2>1, <2>2 DEF Waits
<1>8. ASSUME NEW q \in running, q # p PROVE Placed(q)'
    <2>1. Placed(q) /\ events'[q] = events[q] /\ client'[q] = client[q]
        BY <1>1, <1>2, <1>6, <1>8 DEF PlacesInv
    <2>2. QED
        BY <1>1, <1>2, <1>7, <1>8, <2>1, NotAbout
<1>9. Placed(p)'
    <2>1. /\ Placed(p) /\ events'[p] = <<>>
          /\ p \in heard' => p \in Online'
        BY <1>1, <1>2 DEF PlacesInv, Placed, Online
    <2>2. CASE Asks(events[p])
        <3>1. k \in 1..k /\ n + k \in 1..n + k
            BY <1>3, <1>5, <2>2, EmptySeq
        <3>2. messages'[n + k] = PositionUpdate(p, answers[k])
            BY <1>3, <3>1
        <3>3. /\ messages'[n + k].player = p /\ messages'[n + k].type = "PlayerPositionUpdate"
              /\ messages'[n + k].value = answers[k]
            BY <3>2 DEF PositionUpdate, Message
        <3>4. n + k \in Waits(p)' /\ \A i \in Waits(p)' : i \in 1..n + k
            BY <1>3, <3>1, <3>3 DEF Waits
        <3>5. messages'[n + k].value = client'[p].at
            BY <1>5, <1>6, <2>2, <3>3
        <3> DEFINE last == n + k
        <3> HIDE DEF n, k, v, answers
        <3>6. last \in Nat
            BY <1>3
        <3> HIDE DEF last
        <3>7. ASSUME NEW i \in Waits(p)', \A j \in Waits(p)' : j <= i
              PROVE  messages'[i].value = client'[p].at
            <4>1. i = last
                BY <3>4, <3>6, <3>7 DEF last
            <4>2. QED
                BY <3>5, <4>1 DEF last
        <3>8. PlaceTold(p)' /\ PlaceAgreed(p)'
            BY <3>4, <3>7 DEF PlaceTold, PlaceAgreed
        <3>9. QED
            BY <2>1, <3>8 DEF Placed
    <2>3. CASE ~Asks(events[p])
        <3>1. k = 0 /\ client'[p].at = client[p].at
            BY <1>5, <1>6, <2>3, EmptySeq
        <3>2. Len(messages') = n
            BY <1>3, <3>1
        <3>3. Waits(p)' = Waits(p) /\ \A i \in Waits(p) : messages'[i] = messages[i]
            BY <1>3, <3>2 DEF Waits
        <3>4. PlaceTold(p)'
            BY <2>1, <2>3, <3>1, <3>3 DEF Placed, PlaceTold
        <3>5. p \in heard => PlaceAgreed(p)'
            BY <1>1, <2>1, <2>3, <3>1, <3>3 DEF Placed, PlaceAgreed
        <3>6. QED
            BY <1>1, <2>1, <3>4, <3>5 DEF Placed
    <2>4. QED
        BY <2>2, <2>3
<1>10. QED
    BY <1>1, <1>6, <1>8, <1>9 DEF PlacesInv

-----------------------------------------------------------------------------
(* The invariant, and what it says *)

LEMMA PlacesInit == Init => PlacesInv
<1>1. SUFFICES ASSUME Init PROVE PlacesInv
    OBVIOUS
<1>2. client = [p \in Players |-> Joined] /\ running = {}
    BY <1>1, Zenon DEF Init
<1>3. IsView(Joined)
    <2> DEFINE chunks == [c \in desired_chunks(<<0, 0>>, InitialRadius) |-> Terrain("Overworld", c)]
    <2>1. Joined = ViewOf("Overworld", "Overworld", Spawn, <<0, 0>>, chunks, <<>>, {})
        BY Zenon DEF Joined, ViewOf
    <2> HIDE DEF chunks
    <2>2. QED
        BY <2>1, ViewFields
<1>4. ClientTable
    BY <1>2, <1>3 DEF ClientTable
<1>5. QED
    BY <1>2, <1>4 DEF PlacesInv

LEMMA PlacesNext == ViewInv /\ PlacesInv /\ [Next]_vars => PlacesInv'
<1> SUFFICES ASSUME ViewInv, PlacesInv, [Next]_vars PROVE PlacesInv'
    OBVIOUS
<1>1. CASE Receive
    BY <1>1, ReceiveKeepsPlaces
<1>2. CASE Cooldown
    BY <1>2, QuietKeepsPlaces
<1>3. ASSUME NEW p \in Players, Connect(p) PROVE PlacesInv'
    BY <1>3, ConnectKeepsPlaces
<1>4. ASSUME NEW p \in Players, Tells(p) PROVE PlacesInv'
    BY <1>4, ClientTells, TellKeepsPlaces
<1>5. ASSUME NEW p \in Players, Disconnect(p) PROVE PlacesInv'
    BY <1>5, DisconnectKeepsPlaces
<1>6. ASSUME NEW p \in Players, PollEvents(p) PROVE PlacesInv'
    BY <1>6, PollKeepsPlaces
<1>7. ASSUME NEW p \in Players, Death(p) PROVE PlacesInv'
    BY <1>7, QuietKeepsPlaces
<1>8. CASE UNCHANGED vars
    BY <1>8, QuietKeepsPlaces
<1>9. QED
    BY <1>1, <1>2, <1>3, <1>4, <1>5, <1>6, <1>7, <1>8 DEF Next, Tells

THEOREM PlacesInvariant == Spec => []PlacesInv
<1>1. ViewInv /\ PlacesInv /\ [Next]_vars => PlacesInv'
    BY PlacesNext
<1>2. QED
    BY <1>1, PlacesInit, ViewInvariant, PTL DEF Spec

\* When nothing of a player is under way in either direction, the client and the
\* tick thread agree on where they are, once they have moved: every correction,
\* transfer and respawn reaches the client before it is asked again, and what the
\* client did in between is overtaken.
THEOREM PositionsAlwaysAgree == Spec => []PositionsAgree
<1>1. ViewInv /\ PlacesInv => PositionsAgree
    <2>1. SUFFICES ASSUME ViewInv, PlacesInv, NEW p \in Playing \cap heard, events[p] = <<>>,
                          \A i \in DOMAIN messages :
                              messages[i].player = p => messages[i].type # "PlayerPositionUpdate"
                   PROVE  client[p].at = world[p].at
        BY DEF PositionsAgree
    <2>2. PlaceAgreed(p)
        BY <2>1 DEF Playing, PlacesInv, Placed
    <2>3. ~Asks(events[p])
        BY <2>1, AsksOne
    <2>4. DOMAIN messages = 1..Len(messages)
        BY LenProperties DEF ViewInv, MessagesSound, IsQueue
    <2>5. Waits(p) = {}
        BY <2>1, <2>4 DEF Waits
    <2>6. QED
        BY <2>2, <2>3, <2>5 DEF PlaceAgreed
<1>2. QED
    BY <1>1, ViewInvariant, PlacesInvariant, PTL

-----------------------------------------------------------------------------
(* The chunks of a client *)

\* A chunk as the world has it, and some of them.
Actual(o, d, c) == [dimension |-> d, blocks |-> [b \in Blocks(c) |-> get_block(o, d, b)]]
Actuals(o, d, S) == [c \in S |-> Actual(o, d, c)]

LEMMA Division ==
    ASSUME NEW n \in Int, NEW w \in Nat, w > 0
    PROVE  w * (n \div w) <= n /\ n < w * (n \div w) + w
OBVIOUS

\* What lies in a chunk of the garden lies in the garden.
LEMMA WithinLimits ==
    ASSUME NEW n \in Int, -GardenRadius <= n \div ChunkWidth, n \div ChunkWidth <= GardenRadius
    PROVE  min_block <= n /\ n <= max_block
<1> DEFINE k == n \div ChunkWidth
           w == ChunkWidth
           r == GardenRadius
<1>1. w \in Nat /\ w > 0 /\ r \in Nat
    BY GardenAssumption
<1>2. k \in Int /\ w * k <= n /\ n < w * k + w
    BY <1>1, Division
<1>3. -r <= k /\ k <= r
    OBVIOUS
<1>4. min_block = -(r * w) /\ max_block = r * w + w - 1
    BY DEF min_block, max_block
<1> HIDE DEF k, w, r
<1>5. (k + r) * w >= 0 /\ (r - k) * w >= 0
    BY <1>1, <1>2, <1>3
<1>6. (k + r) * w = w * k + r * w /\ (r - k) * w = r * w - w * k
    BY <1>1, <1>2
<1>7. w * k \in Int /\ r * w \in Int
    BY <1>1, <1>2
<1>8. QED
    BY <1>1, <1>2, <1>4, <1>5, <1>6, <1>7

LEMMA ColumnsSound == Columns \subseteq Position
<1>1. ASSUME NEW b \in UNION {DOMAIN Pack[d] : d \in DimensionId} PROVE b \in Position
    BY GardenAssumption DEF Position
<1>2. ASSUME NEW b \in {c[1] : c \in Changes} PROVE b \in Position
    BY ViewAssumption DEF Position
<1>3. QED
    BY <1>1, <1>2 DEF Columns

LEMMA BlocksInside ==
    ASSUME NEW c, c \in Chunks, NEW b, b \in Blocks(c)
    PROVE  b = clamp_horizontal(b) /\ chunk_from_world(b) = c
<1>1. b \in Columns /\ chunk_from_world(b) = c
    BY DEF Blocks
<1>2. b \in Position
    BY <1>1, ColumnsSound
<1>3. PICK i \in (-GardenRadius)..GardenRadius, j \in (-GardenRadius)..GardenRadius : c = <<0 + i, 0 + j>>
    BY DEF Chunks, desired_chunks
<1>4. GardenRadius \in Nat
    BY GardenAssumption
<1>5. b[1] \in Int /\ b[2] \in Int /\ b[1] \div ChunkWidth = i /\ b[2] \div ChunkWidth = j
    BY <1>1, <1>2, <1>3, <1>4 DEF Position, chunk_from_world
<1>6. min_block <= b[1] /\ b[1] <= max_block /\ min_block <= b[2] /\ b[2] <= max_block
    BY <1>4, <1>5, WithinLimits
<1>7. b \in Inside
    BY <1>2, <1>6, InsideLimits
<1>8. QED
    BY <1>1, <1>7 DEF Inside

\* Terrain with its deltas is what the world has.
LEMMA LoadedActual ==
    ASSUME NEW o, NEW d, NEW c, c \in Chunks, NEW T, c \in T
    PROVE  Rebuilt(Terrain(d, c), get_client_block_deltas(o, d, T)) = Actual(o, d, c)
<1> DEFINE deltas == get_client_block_deltas(o, d, T)
           flat == [b \in Blocks(c) |-> "flat"]
           built == [b \in Blocks(c) |-> IF b \in DOMAIN deltas THEN deltas[b] ELSE "flat"]
<1>1. Rebuilt(Terrain(d, c), deltas) = [dimension |-> d, blocks |-> built]
    <2> HIDE DEF deltas
    <2>1. Terrain(d, c) = [dimension |-> d, blocks |-> flat]
        BY DEF Terrain
    <2>2. QED
        BY <2>1 DEF Rebuilt
<1>2. ASSUME NEW b \in Blocks(c)
      PROVE  built[b] = get_block(o, d, b)
    <2>1. b = clamp_horizontal(b) /\ chunk_from_world(b) \in T
        BY BlocksInside
    <2>2. b \in DOMAIN deltas <=> b \in DOMAIN Pack[d] \cup DOMAIN o[d]
        BY <2>1 DEF get_client_block_deltas
    <2>3. b \in DOMAIN deltas => deltas[b] = get_block(o, d, b)
        BY DEF get_client_block_deltas
    <2>4. b \notin DOMAIN Pack[d] \cup DOMAIN o[d] => get_block(o, d, b) = "flat"
        BY <2>1 DEF get_block
    <2> HIDE DEF deltas
    <2>5. QED
        BY <2>2, <2>3, <2>4
<1>3. built = [b \in Blocks(c) |-> get_block(o, d, b)]
    <2> HIDE DEF deltas
    <2>1. QED
        BY <1>2
<1>4. QED
    BY <1>1, <1>3, Zenon DEF Actual, deltas

\* Deltas of other chunks leave it as it is.
LEMMA OtherActual ==
    ASSUME NEW o, NEW d, NEW c, c \in Chunks, NEW T, c \notin T
    PROVE  Rebuilt(Actual(o, d, c), get_client_block_deltas(o, d, T)) = Actual(o, d, c)
<1> DEFINE deltas == get_client_block_deltas(o, d, T)
           old == [b \in Blocks(c) |-> get_block(o, d, b)]
           built == [b \in Blocks(c) |-> IF b \in DOMAIN deltas THEN deltas[b] ELSE old[b]]
<1>1. Rebuilt(Actual(o, d, c), deltas) = [dimension |-> d, blocks |-> built]
    <2> HIDE DEF deltas
    <2>1. Actual(o, d, c) = [dimension |-> d, blocks |-> old]
        BY Zenon DEF Actual
    <2> HIDE DEF old
    <2>2. Rebuilt([dimension |-> d, blocks |-> old], deltas)
            = [dimension |-> d, blocks |->
               [b \in DOMAIN old |-> IF b \in DOMAIN deltas THEN deltas[b] ELSE old[b]]]
        BY DEF Rebuilt
    <2>3. DOMAIN old = Blocks(c)
        BY DEF old
    <2>4. QED
        BY <2>1, <2>2, <2>3
<1>2. ASSUME NEW b \in Blocks(c)
      PROVE  b \notin DOMAIN deltas
    BY BlocksInside DEF get_client_block_deltas
<1> HIDE DEF deltas
<1>3. built = old
    BY <1>2
<1>4. QED
    BY <1>1, <1>3, Zenon DEF Actual, deltas

\* The deltas of one block.
Single(at, state) == [c \in {at} |-> state]

\* A block that is set shows in its chunk; one of another dimension does not matter.
LEMMA SetActual ==
    ASSUME NEW o, o \in [DimensionId -> Deltas], NEW d, d \in DimensionId, NEW c, NEW at, NEW state
    PROVE  Rebuilt(Actual(o, d, c), Single(at, state)) = Actual(set_block(o, d, at, state), d, c)
<1> DEFINE deltas == Single(at, state)
           new == set_block(o, d, at, state)
           old == [b \in Blocks(c) |-> get_block(o, d, b)]
           built == [b \in Blocks(c) |-> IF b \in DOMAIN deltas THEN deltas[b] ELSE old[b]]
<1>1. Rebuilt(Actual(o, d, c), deltas) = [dimension |-> d, blocks |-> built]
    <2>1. Actual(o, d, c) = [dimension |-> d, blocks |-> old]
        BY Zenon DEF Actual
    <2> HIDE DEF old
    <2>2. Rebuilt([dimension |-> d, blocks |-> old], deltas)
            = [dimension |-> d, blocks |->
               [b \in DOMAIN old |-> IF b \in DOMAIN deltas THEN deltas[b] ELSE old[b]]]
        BY DEF Rebuilt
    <2>3. DOMAIN old = Blocks(c)
        BY DEF old
    <2>4. QED
        BY <2>1, <2>2, <2>3
<1>2. new[d] = [b \in DOMAIN o[d] \cup {at} |-> IF b = at THEN state ELSE o[d][b]]
    BY DEF set_block
<1> HIDE DEF new
<1>3. ASSUME NEW b \in Blocks(c)
      PROVE  built[b] = get_block(new, d, b)
    BY <1>2 DEF get_block, Single
<1> HIDE DEF deltas
<1>4. built = [b \in Blocks(c) |-> get_block(new, d, b)]
    BY <1>3
<1>5. QED
    BY <1>1, <1>4, Zenon DEF Actual, new, deltas

LEMMA SetElsewhere ==
    ASSUME NEW o, o \in [DimensionId -> Deltas], NEW e, NEW d, d \in DimensionId, d # e,
           NEW S, NEW at, NEW state
    PROVE  Actuals(set_block(o, e, at, state), d, S) = Actuals(o, d, S)
<1>1. set_block(o, e, at, state)[d] = o[d]
    BY DEF set_block
<1>2. \A b : get_block(set_block(o, e, at, state), d, b) = get_block(o, d, b)
    BY <1>1 DEF get_block
<1>3. QED
    BY <1>2 DEF Actuals, Actual

-----------------------------------------------------------------------------
(* What a client shows of the events of a step *)

\* What a client shows, wherever it is itself.
Looks(v, d, center, chunks, players, ids) ==
    \E at : v = ViewOf(d, d, at, center, chunks, players, ids)

LEMMA LooksView ==
    ASSUME NEW v, NEW d, NEW center, NEW chunks, NEW players, NEW ids,
           Looks(v, d, center, chunks, players, ids)
    PROVE  /\ v.session_dimension = d /\ v.dimension = d /\ v.center = center
           /\ v.chunks = chunks /\ v.players = players /\ v.mobs = ids
<1>1. PICK at : v = ViewOf(d, d, at, center, chunks, players, ids)
    BY DEF Looks
<1>2. QED
    BY <1>1, ViewFields

\* A view that differs in where its client is looks the same.
LEMMA LooksAlike ==
    ASSUME NEW v, NEW w, ButForAt(v, w), NEW d, NEW center, NEW chunks, NEW players, NEW ids,
           Looks(v, d, center, chunks, players, ids)
    PROVE  Looks(w, d, center, chunks, players, ids)
<1>1. PICK a, dim, at, there, c, cs, ps, is :
         v = ViewOf(a, dim, at, c, cs, ps, is) /\ w = ViewOf(a, dim, there, c, cs, ps, is)
    BY DEF ButForAt
<1>2. a = d /\ dim = d /\ c = center /\ cs = chunks /\ ps = players /\ is = ids
    BY <1>1, LooksView, ViewFields
<1>3. QED
    BY <1>1, <1>2 DEF Looks

LEMMA LookLoad ==
    ASSUME NEW v, NEW d, NEW center, NEW chunks, NEW players, NEW ids, NEW T,
           Looks(v, d, center, chunks, players, ids)
    PROVE  Looks(Shown(v, LoadChunk(T)), d, center, Loaded(chunks, d, T), players, ids)
BY ShownLoad DEF Looks

LEMMA LookUnload ==
    ASSUME NEW v, NEW d, NEW center, NEW chunks, NEW players, NEW ids, NEW T,
           Looks(v, d, center, chunks, players, ids)
    PROVE  Looks(Shown(v, UnloadChunk(T)), d, center, Without(chunks, T), players, ids)
BY ShownUnload DEF Looks

LEMMA LookBlocks ==
    ASSUME NEW v, NEW d, NEW center, NEW chunks, NEW players, NEW ids, NEW deltas,
           Looks(v, d, center, chunks, players, ids)
    PROVE  Looks(Shown(v, ChunkBlockOverrides(deltas)), d, center, Built(chunks, deltas), players, ids)
BY ShownBlocks DEF Looks

LEMMA LookCenter ==
    ASSUME NEW v, NEW d, NEW center, NEW chunks, NEW players, NEW ids, NEW new,
           Looks(v, d, center, chunks, players, ids)
    PROVE  Looks(Shown(v, SetCenterChunk(new)), d, new, chunks, players, ids)
BY ShownCenter DEF Looks

LEMMA LookJoined ==
    ASSUME NEW v, NEW d, NEW center, NEW chunks, NEW players, NEW ids, NEW p, NEW at,
           Looks(v, d, center, chunks, players, ids)
    PROVE  Looks(Shown(v, PlayerJoinedEvent(p, at)), d, center, chunks, Spawned(players, p, at), ids)
BY ShownJoined DEF Looks

LEMMA LookLeft ==
    ASSUME NEW v, NEW d, NEW center, NEW chunks, NEW players, NEW ids, NEW p,
           Looks(v, d, center, chunks, players, ids)
    PROVE  Looks(Shown(v, PlayerLeftEvent(p)), d, center, chunks, Without(players, {p}), ids \ {p})
<1>1. PICK at : v = ViewOf(d, d, at, center, chunks, players, ids)
    BY DEF Looks
<1>2. Shown(ViewOf(d, d, at, center, chunks, players, ids), PlayerLeftEvent(p))
        = ViewOf(d, d, at, center, chunks, Without(players, {p}), ids \ {p})
    BY DEF ViewOf, Shown, PlayerLeftEvent, send_remove_entities
<1>3. Shown(v, PlayerLeftEvent(p)) = ViewOf(d, d, at, center, chunks, Without(players, {p}), ids \ {p})
    BY <1>1, <1>2, Zenon
<1>4. QED
    BY <1>3, Zenon DEF Looks

LEMMA LookMovement ==
    ASSUME NEW v, NEW d, NEW center, NEW chunks, NEW players, NEW ids, NEW p, NEW old, NEW new,
           Looks(v, d, center, chunks, players, ids)
    PROVE  Looks(Shown(v, EntityMovement(p, old, new)), d, center, chunks,
                 Followed(players, p, old, new), ids)
BY ShownMovement DEF Looks

LEMMA LookSpawn ==
    ASSUME NEW v, NEW d, NEW center, NEW chunks, NEW players, NEW ids, NEW more,
           Looks(v, d, center, chunks, players, ids)
    PROVE  Looks(Shown(v, SpawnMob(more)), d, center, chunks, players, ids \cup more)
BY ShownSpawn DEF Looks

LEMMA LookRemove ==
    ASSUME NEW v, NEW d, NEW center, NEW chunks, NEW players, NEW ids, NEW gone,
           Looks(v, d, center, chunks, players, ids)
    PROVE  Looks(Shown(v, RemoveEntities(gone)), d, center, chunks, Without(players, gone), ids \ gone)
BY ShownRemove DEF Looks

LEMMA LookSynchronize ==
    ASSUME NEW v, NEW d, NEW center, NEW chunks, NEW players, NEW ids, NEW new,
           Looks(v, d, center, chunks, players, ids)
    PROVE  Looks(Shown(v, SynchronizePosition(new)), d, center, chunks, players, ids)
BY ShownSynchronize DEF Looks

LEMMA LookRespawn ==
    ASSUME NEW v, NEW d, NEW center, NEW chunks, NEW players, NEW ids, NEW dest, NEW new, NEW defer,
           defer \in BOOLEAN, Looks(v, d, center, chunks, players, ids)
    PROVE  /\ dest = d => Looks(Shown(v, RespawnPlayer(dest, new, defer)), d, center, chunks, players, ids)
           /\ dest # d => Looks(Shown(v, RespawnPlayer(dest, new, defer)), dest, center, <<>>, <<>>, {})
<1>1. PICK at : v = ViewOf(d, d, at, center, chunks, players, ids)
    BY DEF Looks
<1>2. dest = d => Shown(v, RespawnPlayer(dest, new, defer)) =
                    ViewOf(d, d, IF defer THEN at ELSE new, center, chunks, players, ids)
    BY <1>1, ShownRespawn
<1>3. dest # d => Shown(v, RespawnPlayer(dest, new, defer)) =
                    ViewOf(dest, dest, IF defer THEN at ELSE new, center, <<>>, <<>>, {})
    BY <1>1, ShownRespawn
<1>4. QED
    BY <1>2, <1>3 DEF Looks

LEMMA OneShown ==
    ASSUME NEW h, NEW e
    PROVE  AllHandled(h, <<e>>).view = Shown(h.view, e)
<1>1. AllHandled(h, <<e>>) = Handled(h, e)
    BY OneHandled, Zenon
<1>2. Handled(h, e).view = Shown(h.view, e)
    BY DEF Handled
<1>3. QED
    BY <1>1, <1>2, Zenon

LEMMA BothShown ==
    ASSUME NEW h, NEW a, NEW b, a \in Seq(Event), b \in Seq(Event)
    PROVE  AllHandled(h, a \o b) = AllHandled(AllHandled(h, a), b)
BY MoreHandled

\* What is shown of two sequences is what the one shows, and then the other.
Splits(h, a, b) == AllHandled(h, a \o b) = AllHandled(AllHandled(h, a), b)

LEMMA Split ==
    ASSUME NEW h, NEW a, NEW b, a \in Seq(Event), b \in Seq(Event)
    PROVE  Splits(h, a, b)
BY MoreHandled DEF Splits

\* Loading chunks, with the deltas if there are any, shows them as they are.
LEMMA LoadedBuilt ==
    ASSUME NEW o, NEW d, NEW S, NEW T, S \subseteq Chunks, T \subseteq Chunks
    PROVE  /\ Built(Loaded(Actuals(o, d, S), d, T), get_client_block_deltas(o, d, T))
                = Actuals(o, d, S \cup T)
           /\ get_client_block_deltas(o, d, T) = <<>> =>
                Loaded(Actuals(o, d, S), d, T) = Actuals(o, d, S \cup T)
<1> DEFINE deltas == get_client_block_deltas(o, d, T)
           loaded == Loaded(Actuals(o, d, S), d, T)
<1>1. /\ DOMAIN loaded = S \cup T
      /\ \A c \in S \cup T : loaded[c] = IF c \in T THEN Terrain(d, c) ELSE Actual(o, d, c)
      /\ loaded = [c \in S \cup T |-> loaded[c]]
    BY DEF Loaded, Actuals
<1> HIDE DEF loaded
<1>2. ASSUME NEW c \in S \cup T
      PROVE  Rebuilt(loaded[c], deltas) = Actual(o, d, c)
    <2>1. CASE c \in T
        BY <1>1, <2>1, LoadedActual
    <2>2. CASE c \notin T
        BY <1>1, <2>2, OtherActual
    <2>3. QED
        BY <2>1, <2>2
<1>3. Built(loaded, deltas) = Actuals(o, d, S \cup T)
    <2> HIDE DEF deltas
    <2>1. QED
        BY <1>1, <1>2 DEF Built, Actuals
<1>4. ASSUME deltas = <<>>
      PROVE  loaded = Actuals(o, d, S \cup T)
    <2>1. ASSUME NEW c \in S \cup T
          PROVE  loaded[c] = Actual(o, d, c)
        <3>1. CASE c \in T
            <4>1. Rebuilt(Terrain(d, c), <<>>) = Terrain(d, c)
                <5> DEFINE flat == [b \in Blocks(c) |-> "flat"]
                <5>1. Terrain(d, c) = [dimension |-> d, blocks |-> flat]
                    BY DEF Terrain
                <5>2. flat = [b \in DOMAIN flat |-> flat[b]]
                    OBVIOUS
                <5> HIDE DEF flat
                <5>3. Rebuilt([dimension |-> d, blocks |-> flat], <<>>) = [dimension |-> d, blocks |-> flat]
                    BY <5>2 DEF Rebuilt
                <5>4. QED
                    BY <5>1, <5>3
            <4>2. QED
                BY <1>1, <1>2, <1>4, <3>1, <4>1
        <3>2. CASE c \notin T
            BY <1>1, <3>2
        <3>3. QED
            BY <3>1, <3>2
    <2> HIDE DEF deltas
    <2>2. QED
        BY <1>1, <2>1 DEF Actuals
<1>5. QED
    BY <1>3, <1>4 DEF loaded

\* The deltas and events of ViewInv, once more: the chunk events are events.
LEMMA ChunkEvents ==
    ASSUME NEW d, NEW T, T \subseteq Chunks, d \in DimensionId, overrides \in [DimensionId -> Deltas]
    PROVE  /\ LoadChunk(T) \in Event /\ UnloadChunk(T) \in Event
           /\ ChunkBlockOverrides(get_client_block_deltas(overrides, d, T)) \in Event
<1>1. LoadChunk(T) \in Event /\ UnloadChunk(T) \in Event
    BY DEF LoadChunk, UnloadChunk, Event
<1> DEFINE deltas == get_client_block_deltas(overrides, d, T)
<1>2. deltas \in Deltas
    BY ClientBlockDeltas
<1> HIDE DEF deltas
<1>3. ChunkBlockOverrides(deltas) \in Event
    BY <1>2 DEF ChunkBlockOverrides, Event
<1>4. QED
    BY <1>1, <1>3 DEF deltas

LEMMA LookChunks ==
    ASSUME NEW h, NEW d, NEW center, NEW S, NEW players, NEW ids, NEW T,
           S \subseteq Chunks, T \subseteq Chunks, d \in DimensionId,
           overrides \in [DimensionId -> Deltas],
           Looks(h.view, d, center, Actuals(overrides, d, S), players, ids)
    PROVE  Looks(AllHandled(h, send_chunk_to_session(overrides, d, T)).view,
                 d, center, Actuals(overrides, d, S \cup T), players, ids)
<1> DEFINE deltas == get_client_block_deltas(overrides, d, T)
           load == <<LoadChunk(T)>>
           build == <<ChunkBlockOverrides(deltas)>>
           sent == send_chunk_to_session(overrides, d, T)
           old == Actuals(overrides, d, S)
           new == Actuals(overrides, d, S \cup T)
           k == AllHandled(h, load)
           loaded == Loaded(old, d, T)
<1>1. load \in Seq(Event) /\ build \in Seq(Event)
    BY ChunkEvents, OneEvent
<1>2. Looks(k.view, d, center, loaded, players, ids)
    BY OneShown, LookLoad, Zenon
<1>3. AllHandled(k, build).view = Shown(k.view, ChunkBlockOverrides(deltas))
    BY OneShown
<1>4. Built(loaded, deltas) = new /\ (deltas = <<>> => loaded = new)
    BY LoadedBuilt
<1>5. CASE T = {}
    <2>1. sent = <<>>
        BY <1>5 DEF send_chunk_to_session, If
    <2>2. AllHandled(h, sent) = h
        BY <2>1, NothingHandled
    <2>3. new = old
        BY <1>5
    <2>4. QED
        BY <2>2, <2>3
<1>6. CASE T # {} /\ deltas = <<>>
    <2>1. sent = load \o <<>>
        BY <1>6 DEF send_chunk_to_session, If
    <2>2. sent = load
        BY <1>1, <2>1, ConcatEmptySeq
    <2>3. QED
        BY <1>2, <1>4, <1>6, <2>2
<1>7. CASE T # {} /\ deltas # <<>>
    <2>1. sent = load \o build
        BY <1>7 DEF send_chunk_to_session, If
    <2> HIDE DEF load, build, deltas, sent, old, new, loaded
    <2>2. AllHandled(h, sent) = AllHandled(k, build)
        BY <1>1, <2>1, BothShown
    <2> HIDE DEF k
    <2>3. Looks(Shown(k.view, ChunkBlockOverrides(deltas)), d, center, Built(loaded, deltas), players, ids)
        BY <1>2, LookBlocks
    <2>4. QED
        BY <1>3, <1>4, <2>2, <2>3 DEF sent, new
<1>8. QED
    BY <1>5, <1>6, <1>7

LEMMA LookUnloaded ==
    ASSUME NEW h, NEW d, NEW center, NEW S, NEW players, NEW ids, NEW T, NEW o,
           Looks(h.view, d, center, Actuals(o, d, S), players, ids)
    PROVE  Looks(AllHandled(h, Unload(T)).view, d, center, Actuals(o, d, S \ T), players, ids)
<1>1. Without(Actuals(o, d, S), T) = Actuals(o, d, S \ T)
    BY DEF Without, Actuals
<1>2. CASE T = {}
    <2>1. AllHandled(h, Unload(T)) = h /\ S \ T = S
        BY <1>2, NothingHandled DEF Unload, If
    <2>2. QED
        BY <2>1
<1>3. CASE T # {}
    <2>1. AllHandled(h, Unload(T)).view = Shown(h.view, UnloadChunk(T))
        BY <1>3, OneShown DEF Unload, If
    <2>2. Looks(Shown(h.view, UnloadChunk(T)), d, center, Without(Actuals(o, d, S), T), players, ids)
        BY LookUnload
    <2>3. QED
        BY <1>1, <2>1, <2>2
<1>4. QED
    BY <1>2, <1>3

\* Another window.
LEMMA LookWindow ==
    ASSUME NEW h, NEW d, NEW center, NEW players, NEW ids, NEW before, NEW cs, NEW recentred,
           before \in Windows, cs \in Windows, recentred \in BOOLEAN, d \in DimensionId,
           overrides \in [DimensionId -> Deltas],
           Looks(h.view, d, center, Actuals(overrides, d, before.loaded_chunks), players, ids)
    PROVE  Looks(AllHandled(h, WindowEvents(before, d, cs, recentred)).view,
                 d, IF recentred THEN cs.center ELSE center,
                 Actuals(overrides, d, cs.loaded_chunks), players, ids)
<1> DEFINE old == before.loaded_chunks
           new == cs.loaded_chunks
           o == overrides
           there == IF recentred THEN cs.center ELSE center
           a == If(recentred, <<SetCenterChunk(cs.center)>>)
           b == send_chunk_to_session(o, d, new \ old)
           c == Unload(old \ new)
           k == AllHandled(h, a)
           l == AllHandled(k, b)
<1>1. old \subseteq Chunks /\ new \subseteq Chunks /\ cs.center \in Position
    BY DEF Windows, ChunkStates
<1>2. a \in Seq(Event)
    <2>1. SetCenterChunk(cs.center) \in Event
        BY <1>1 DEF SetCenterChunk, Event
    <2>2. QED
        BY <2>1, OneEvent, EventsIf
<1>3. b \in Seq(Event) /\ c \in Seq(Event)
    BY <1>1, SendChunkEvents, UnloadEvents
<1>4. WindowEvents(before, d, cs, recentred) = a \o b \o c
    BY Zenon DEF WindowEvents
<1>5. Looks(k.view, d, there, Actuals(o, d, old), players, ids)
    <2>1. CASE recentred
        <3>1. k.view = Shown(h.view, SetCenterChunk(cs.center))
            BY <2>1, OneShown DEF If
        <3>2. QED
            BY <2>1, <3>1, LookCenter
    <2>2. CASE ~recentred
        <3>1. k = h
            BY <2>2, NothingHandled DEF If
        <3>2. QED
            BY <2>2, <3>1
    <2>3. QED
        BY <2>1, <2>2
<1>6. AllHandled(h, a \o b \o c) = AllHandled(l, c)
    <2> HIDE DEF a, b, c, k, l
    <2>1. a \o b \in Seq(Event)
        BY <1>2, <1>3, MoreEvents
    <2> DEFINE ab == a \o b
    <2>2. Splits(h, a, b)
        BY <1>2, <1>3, Split
    <2> HIDE DEF ab
    <2>3. Splits(h, ab, c)
        BY <1>3, <2>1, Split DEF ab
    <2>4. QED
        BY <2>2, <2>3, Zenon DEF Splits, ab, k, l
<1> HIDE DEF a, k, there
<1>7. Looks(l.view, d, there, Actuals(o, d, old \cup (new \ old)), players, ids)
    BY <1>1, <1>5, LookChunks
<1> HIDE DEF b, l
<1>8. Looks(AllHandled(l, c).view, d, there, Actuals(o, d, (old \cup (new \ old)) \ (old \ new)), players, ids)
    BY <1>7, LookUnloaded
<1>9. (old \cup (new \ old)) \ (old \ new) = new
    OBVIOUS
<1>10. QED
    BY <1>4, <1>6, <1>8, <1>9 DEF there

\* Everything once more, to a client that may have lost what it had.
LEMMA LookResync ==
    ASSUME NEW h, NEW d, NEW center, NEW players, NEW ids, NEW before, NEW cs, NEW S,
           before \in Windows, cs \in Windows, S \subseteq before.loaded_chunks, d \in DimensionId,
           overrides \in [DimensionId -> Deltas],
           Looks(h.view, d, center, Actuals(overrides, d, S), players, ids)
    PROVE  Looks(AllHandled(h, ResyncEvents(before, d, cs)).view,
                 d, cs.center, Actuals(overrides, d, cs.loaded_chunks), players, ids)
<1> DEFINE old == before.loaded_chunks
           new == cs.loaded_chunks
           here == cs.center
           o == overrides
           s1 == <<SetCenterChunk(here)>>
           s2 == Unload(old \ new)
           s3 == Unload(old \cap new)
           s4 == send_chunk_to_session(o, d, old \cap new)
           s5 == send_chunk_to_session(o, d, new \ old)
           h1 == AllHandled(h, s1)
           h2 == AllHandled(h1, s2)
           h3 == AllHandled(h2, s3)
           h4 == AllHandled(h3, s4)
           S2 == S \ (old \ new)
           S3 == S2 \ (old \cap new)
           S4 == S3 \cup (old \cap new)
<1>1. old \subseteq Chunks /\ new \subseteq Chunks /\ here \in Position
    BY DEF Windows, ChunkStates
<1>2. s1 \in Seq(Event)
    <2>1. SetCenterChunk(here) \in Event
        BY <1>1 DEF SetCenterChunk, Event
    <2>2. QED
        BY <2>1, OneEvent
<1>3. s2 \in Seq(Event) /\ s3 \in Seq(Event)
    BY <1>1, UnloadEvents
<1>4. s4 \in Seq(Event) /\ s5 \in Seq(Event)
    BY <1>1, SendChunkEvents
<1>5. ResyncEvents(before, d, cs) = s1 \o s2 \o s3 \o s4 \o s5
    BY Zenon DEF ResyncEvents
<1>6. AllHandled(h, s1 \o s2 \o s3 \o s4 \o s5) = AllHandled(h4, s5)
    <2> HIDE DEF s1, s2, s3, s4, s5, h1, h2, h3, h4
    <2> DEFINE a == s1 \o s2
               b == a \o s3
               c == b \o s4
    <2>1. a \in Seq(Event)
        BY <1>2, <1>3, MoreEvents
    <2> HIDE DEF a
    <2>2. b \in Seq(Event)
        BY <1>3, <2>1, MoreEvents
    <2> HIDE DEF b
    <2>3. c \in Seq(Event)
        BY <1>4, <2>2, MoreEvents
    <2> HIDE DEF c
    <2>4. Splits(h, c, s5)
        BY <1>4, <2>3, Split
    <2>5. Splits(h, b, s4)
        BY <1>4, <2>2, Split
    <2>6. Splits(h, a, s3)
        BY <1>3, <2>1, Split
    <2>7. Splits(h, s1, s2)
        BY <1>2, <1>3, Split
    <2>8. AllHandled(h, c) = h4
        BY <2>5, <2>6, <2>7, Zenon DEF Splits, a, b, c, h1, h2, h3, h4
    <2>9. AllHandled(h, c \o s5) = AllHandled(h4, s5)
        BY <2>4, <2>8, Zenon DEF Splits
    <2>10. QED
        BY <2>9, Zenon DEF a, b, c
<1>7. Looks(h1.view, d, here, Actuals(o, d, S), players, ids)
    <2>1. h1.view = Shown(h.view, SetCenterChunk(here))
        BY OneShown
    <2>2. QED
        BY <2>1, LookCenter
<1> HIDE DEF s1, h1
<1>8. Looks(h2.view, d, here, Actuals(o, d, S2), players, ids)
    BY <1>7, LookUnloaded
<1> HIDE DEF s2, h2
<1>9. Looks(h3.view, d, here, Actuals(o, d, S3), players, ids)
    BY <1>8, LookUnloaded
<1> HIDE DEF s3, h3
<1>10. S3 \subseteq Chunks /\ S4 \subseteq Chunks
    BY <1>1
<1>11. Looks(h4.view, d, here, Actuals(o, d, S4), players, ids)
    BY <1>1, <1>9, <1>10, LookChunks
<1> HIDE DEF s4, h4
<1>12. Looks(AllHandled(h4, s5).view, d, here, Actuals(o, d, S4 \cup (new \ old)), players, ids)
    BY <1>1, <1>10, <1>11, LookChunks
<1>13. S4 \cup (new \ old) = new
    OBVIOUS
<1>14. QED
    BY <1>5, <1>6, <1>12, <1>13

-----------------------------------------------------------------------------
(* Mobs and players a client shows *)

LivingIn(d) == {m \in mobs : MobHome[m] = d}

IsTable(f) == f = [x \in DOMAIN f |-> f[x]]

LEMMA LookMobs ==
    ASSUME NEW h, NEW d, NEW center, NEW chunks, NEW players, NEW ids, NEW e,
           mobs \subseteq DOMAIN MobHome, IsTable(players), DOMAIN players \subseteq Players,
           ids \subseteq mobs,
           Looks(h.view, d, center, chunks, players, ids)
    PROVE  Looks(AllHandled(h, SyncMobs(e)).view, d, center, chunks, players, LivingIn(e))
<1> DEFINE a == If(mobs # {}, <<RemoveEntities(mobs)>>)
           b == <<SpawnMob(LivingIn(e))>>
           k == AllHandled(h, a)
<1>1. RemoveEntities(mobs) \in Event /\ SpawnMob(LivingIn(e)) \in Event
    BY DEF RemoveEntities, SpawnMob, LivingIn, Event
<1>2. a \in Seq(Event) /\ b \in Seq(Event)
    BY <1>1, OneEvent, EventsIf
<1>3. SyncMobs(e) = a \o b
    BY Zenon DEF SyncMobs, LivingIn
<1>4. Looks(k.view, d, center, chunks, players, {})
    <2>1. CASE mobs = {}
        <3>1. k = h /\ ids = {}
            BY <2>1, NothingHandled DEF If
        <3>2. QED
            BY <3>1
    <2>2. CASE mobs # {}
        <3>1. k.view = Shown(h.view, RemoveEntities(mobs))
            BY <2>2, OneShown DEF If
        <3>2. Looks(Shown(h.view, RemoveEntities(mobs)), d, center, chunks,
                    Without(players, mobs), ids \ mobs)
            BY LookRemove
        <3>3. DOMAIN players \ mobs = DOMAIN players
            BY ViewAssumption
        <3>4. Without(players, mobs) = players
            BY <3>3 DEF Without, IsTable
        <3>5. ids \ mobs = {}
            OBVIOUS
        <3>6. QED
            BY <3>1, <3>2, <3>4, <3>5
    <2>3. QED
        BY <2>1, <2>2
<1>5. AllHandled(h, a \o b) = AllHandled(k, b)
    <2> HIDE DEF a, b
    <2>1. QED
        BY <1>2, BothShown
<1> HIDE DEF a, k
<1>6. AllHandled(k, b).view = Shown(k.view, SpawnMob(LivingIn(e)))
    BY OneShown
<1>7. Looks(Shown(k.view, SpawnMob(LivingIn(e))), d, center, chunks, players, {} \cup LivingIn(e))
    <2>1. PICK none : none = {}
        OBVIOUS
    <2>2. Looks(k.view, d, center, chunks, players, none)
        BY <1>4, <2>1
    <2>3. Looks(Shown(k.view, SpawnMob(LivingIn(e))), d, center, chunks, players, none \cup LivingIn(e))
        BY <2>2, LookSpawn
    <2>4. QED
        BY <2>1, <2>3
<1>8. {} \cup LivingIn(e) = LivingIn(e)
    OBVIOUS
<1>9. QED
    BY <1>3, <1>5, <1>6, <1>7, <1>8

\* A client that begins anew, or stays in its dimension, and is sent everything.
LEMMA LookRenewed ==
    ASSUME NEW h, NEW d, NEW center, NEW players, NEW ids, NEW before, NEW cs, NEW dest, NEW defer,
           before \in Windows, cs \in Windows, d \in DimensionId, dest \in DimensionId,
           defer \in BOOLEAN, overrides \in [DimensionId -> Deltas],
           IsTable(players), ids \subseteq mobs,
           NEW a, a = <<RespawnPlayer(dest, Spawn, defer)>>,
           Looks(h.view, d, center, Actuals(overrides, d, before.loaded_chunks), players, ids)
    PROVE  \E others, more :
             /\ IsTable(others) /\ DOMAIN others \subseteq DOMAIN players /\ more \subseteq mobs
             /\ Looks(AllHandled(AllHandled(h, a), ResyncEvents(before, dest, cs)).view,
                      dest, cs.center, Actuals(overrides, dest, cs.loaded_chunks), others, more)
<1> DEFINE e == RespawnPlayer(dest, Spawn, defer)
           k == AllHandled(h, a)
           o == overrides
           old == before.loaded_chunks
<1>1. k.view = Shown(h.view, e)
    BY OneShown, Zenon
<1>2. CASE dest = d
    <2>1. Looks(Shown(h.view, e), d, center, Actuals(o, d, old), players, ids)
        BY <1>2, LookRespawn
    <2>2. Looks(k.view, dest, center, Actuals(o, dest, old), players, ids)
        BY <1>1, <1>2, <2>1
    <2> HIDE DEF k
    <2>3. Looks(AllHandled(k, ResyncEvents(before, dest, cs)).view,
                dest, cs.center, Actuals(o, dest, cs.loaded_chunks), players, ids)
        BY <2>2, LookResync
    <2>4. QED
        BY <2>3, Zenon DEF k
<1>3. CASE dest # d
    <2>1. Looks(Shown(h.view, e), dest, center, <<>>, <<>>, {})
        BY <1>3, LookRespawn
    <2>2. PICK none, empty : none = {} /\ empty = <<>>
        OBVIOUS
    <2>3. Actuals(o, dest, none) = <<>>
        BY <2>2 DEF Actuals
    <2>4. Looks(k.view, dest, center, Actuals(o, dest, none), empty, none)
        BY <1>1, <2>1, <2>2, <2>3
    <2> HIDE DEF k
    <2>5. Looks(AllHandled(k, ResyncEvents(before, dest, cs)).view,
                dest, cs.center, Actuals(o, dest, cs.loaded_chunks), empty, none)
        <3>1. none \subseteq before.loaded_chunks
            BY <2>2
        <3>2. QED
            BY <2>4, <3>1, LookResync
    <2>6. IsTable(empty) /\ DOMAIN empty \subseteq DOMAIN players /\ none \subseteq mobs
        BY <2>2 DEF IsTable
    <2>7. QED
        BY <2>5, <2>6, Zenon DEF k
<1>4. QED
    BY <1>2, <1>3

\* Three sequences, one after the other.
LEMMA ThriceShown ==
    ASSUME NEW h, NEW a, NEW b, NEW c, a \in Seq(Event), b \in Seq(Event), c \in Seq(Event)
    PROVE  AllHandled(h, a \o b \o c) = AllHandled(AllHandled(AllHandled(h, a), b), c)
<1> DEFINE ab == a \o b
<1>1. ab \in Seq(Event)
    BY MoreEvents
<1>2. Splits(h, a, b)
    BY Split
<1> HIDE DEF ab
<1>3. Splits(h, ab, c)
    BY <1>1, Split
<1>4. QED
    BY <1>2, <1>3, Zenon DEF Splits, ab

LEMMA LookTransfer ==
    ASSUME NEW h, NEW d, NEW center, NEW players, NEW ids, NEW before, NEW cs, NEW dest,
           before \in Windows, cs \in Windows, d \in DimensionId, dest \in EnabledDimensions,
           ResyncEvents(before, dest, cs) \in Seq(Event), Arrival(dest) \in Seq(Event),
           Tables, IsTable(players), DOMAIN players \subseteq Players, ids \subseteq mobs,
           Looks(h.view, d, center, Actuals(overrides, d, before.loaded_chunks), players, ids)
    PROVE  \E others :
             /\ IsTable(others) /\ DOMAIN others \subseteq DOMAIN players
             /\ Looks(AllHandled(h, TransferEvents(before, dest, cs)).view,
                      dest, cs.center, Actuals(overrides, dest, cs.loaded_chunks), others, LivingIn(dest))
<1> DEFINE a == <<RespawnPlayer(dest, Spawn, TRUE)>>
           b == ResyncEvents(before, dest, cs)
           c == Arrival(dest)
           s == <<SynchronizePosition(Spawn)>>
           m == SyncMobs(dest)
           k == AllHandled(AllHandled(h, a), b)
           l == AllHandled(k, s)
           chunks == Actuals(overrides, dest, cs.loaded_chunks)
<1>1. /\ dest \in DimensionId /\ dest \in Habitable
      /\ overrides \in [DimensionId -> Deltas] /\ mobs \subseteq DOMAIN MobHome
    BY HabitableDimensions DEF Tables, Habitable
<1>2. a \in Seq(Event) /\ b \in Seq(Event) /\ c \in Seq(Event)
    BY <1>1, RespawnEvent
<1>3. s \in Seq(Event) /\ m \in Seq(Event)
    <2>1. SynchronizePosition(Spawn) \in Event
        BY SpawnInside DEF SynchronizePosition, Event, SynchronizingEvent
    <2>2. QED
        BY <1>1, <2>1, OneEvent, SyncMobsEvents
<1>4. AllHandled(h, TransferEvents(before, dest, cs)) = AllHandled(l, m)
    <2>1. TransferEvents(before, dest, cs) = a \o b \o c /\ c = s \o m
        BY Zenon DEF TransferEvents, Arrival
    <2> HIDE DEF a, b, c, s, m
    <2>2. AllHandled(h, a \o b \o c) = AllHandled(k, c)
        BY <1>2, ThriceShown
    <2> HIDE DEF k
    <2>3. Splits(k, s, m)
        BY <1>3, Split
    <2>4. QED
        BY <2>1, <2>2, <2>3, Zenon DEF Splits, l
<1>5. PICK others, more :
        /\ IsTable(others) /\ DOMAIN others \subseteq DOMAIN players /\ more \subseteq mobs
        /\ Looks(k.view, dest, cs.center, chunks, others, more)
    <2>1. PICK defer \in BOOLEAN : defer = TRUE
        OBVIOUS
    <2>2. PICK one : one = a /\ one = <<RespawnPlayer(dest, Spawn, defer)>>
        BY <2>1
    <2>3. \E others, more :
            /\ IsTable(others) /\ DOMAIN others \subseteq DOMAIN players /\ more \subseteq mobs
            /\ Looks(AllHandled(AllHandled(h, one), ResyncEvents(before, dest, cs)).view,
                     dest, cs.center, Actuals(overrides, dest, cs.loaded_chunks), others, more)
        BY <1>1, <2>2, LookRenewed
    <2>4. QED
        BY <2>2, <2>3, Zenon
<1> HIDE DEF k
<1>6. l.view = Shown(k.view, SynchronizePosition(Spawn))
    BY OneShown
<1> HIDE DEF chunks
<1>7. Looks(l.view, dest, cs.center, chunks, others, more)
    BY <1>5, <1>6, LookSynchronize
<1> HIDE DEF l
<1>8. Looks(AllHandled(l, m).view, dest, cs.center, chunks, others, LivingIn(dest))
    BY <1>1, <1>5, <1>7, LookMobs
<1>9. QED
    BY <1>4, <1>5, <1>8, Zenon DEF chunks

LEMMA LookReborn ==
    ASSUME NEW h, NEW d, NEW center, NEW players, NEW ids, NEW before, NEW cs,
           before \in Windows, cs \in Windows, d \in Habitable,
           ResyncEvents(before, d, cs) \in Seq(Event), SyncMobs(d) \in Seq(Event),
           Tables, IsTable(players), DOMAIN players \subseteq Players, ids \subseteq mobs,
           Looks(h.view, d, center, Actuals(overrides, d, before.loaded_chunks), players, ids)
    PROVE  \E others :
             /\ IsTable(others) /\ DOMAIN others \subseteq DOMAIN players
             /\ Looks(AllHandled(h, RespawnEvents(before, d, cs)).view,
                      d, cs.center, Actuals(overrides, d, cs.loaded_chunks), others, LivingIn(d))
<1> DEFINE a == <<RespawnPlayer(d, Spawn, FALSE)>>
           b == ResyncEvents(before, d, cs)
           m == SyncMobs(d)
           k == AllHandled(AllHandled(h, a), b)
           chunks == Actuals(overrides, d, cs.loaded_chunks)
<1>1. /\ d \in DimensionId
      /\ overrides \in [DimensionId -> Deltas] /\ mobs \subseteq DOMAIN MobHome
    BY HabitableDimensions DEF Tables
<1>2. a \in Seq(Event) /\ b \in Seq(Event) /\ m \in Seq(Event)
    BY RespawnEvent
<1>3. AllHandled(h, RespawnEvents(before, d, cs)) = AllHandled(k, m)
    <2>1. RespawnEvents(before, d, cs) = a \o b \o m
        BY Zenon DEF RespawnEvents
    <2> HIDE DEF a, b, m
    <2>2. QED
        BY <1>2, <2>1, ThriceShown
<1>4. PICK others, more :
        /\ IsTable(others) /\ DOMAIN others \subseteq DOMAIN players /\ more \subseteq mobs
        /\ Looks(k.view, d, cs.center, chunks, others, more)
    <2>1. PICK defer \in BOOLEAN : defer = FALSE
        OBVIOUS
    <2>2. PICK one : one = a /\ one = <<RespawnPlayer(d, Spawn, defer)>>
        BY <2>1
    <2> HIDE DEF a, b, m, k, chunks
    <2>3. \E others, more :
            /\ IsTable(others) /\ DOMAIN others \subseteq DOMAIN players /\ more \subseteq mobs
            /\ Looks(AllHandled(AllHandled(h, one), ResyncEvents(before, d, cs)).view,
                     d, cs.center, Actuals(overrides, d, cs.loaded_chunks), others, more)
        BY <1>1, <2>2, LookRenewed
    <2>4. QED
        BY <2>2, <2>3, Zenon DEF k, b, chunks
<1> HIDE DEF k, chunks
<1>5. Looks(AllHandled(k, m).view, d, cs.center, chunks, others, LivingIn(d))
    BY <1>1, <1>4, LookMobs
<1>6. QED
    BY <1>3, <1>4, <1>5, Zenon DEF chunks

LEMMA LookOwn ==
    ASSUME NEW h, NEW d, NEW center, NEW chunks, NEW players, NEW ids, NEW raw, NEW new,
           Looks(h.view, d, center, chunks, players, ids)
    PROVE  Looks(AllHandled(h, Own(raw, new)).view, d, center, chunks, players, ids)
<1>1. CASE new = raw
    <2>1. AllHandled(h, Own(raw, new)) = h
        BY <1>1, NothingHandled DEF Own, If
    <2>2. QED
        BY <2>1
<1>2. CASE new # raw
    <2>1. Own(raw, new) = <<SynchronizePosition(new)>>
        BY <1>2 DEF Own, If
    <2>2. AllHandled(h, Own(raw, new)).view = Shown(h.view, SynchronizePosition(new))
        BY <2>1, OneShown, Zenon
    <2>3. QED
        BY <2>2, LookSynchronize
<1>3. QED
    BY <1>1, <1>2

\* A player who goes somewhere, and the window with them.
LEMMA LookGone ==
    ASSUME NEW h, NEW p, NEW raw, NEW new, NEW players, NEW ids, NEW d, NEW before, NEW cs,
           before = chunk_states[p], d = world[p].dimension,
           cs = update_center(before, chunk_from_world(new)),
           before \in Windows, cs \in Windows, d \in DimensionId,
           overrides \in [DimensionId -> Deltas],
           Own(raw, new) \in Seq(Event), Centering(p, new) \in Seq(Event),
           Looks(h.view, d, before.center, Actuals(overrides, d, before.loaded_chunks), players, ids)
    PROVE  Looks(AllHandled(h, GoEvents(p, raw, new)).view,
                 d, cs.center, Actuals(overrides, d, cs.loaded_chunks), players, ids)
<1> DEFINE a == Own(raw, new)
           b == Centering(p, new)
           k == AllHandled(h, a)
           recentred == before.center # chunk_from_world(new)
<1>1. AllHandled(h, GoEvents(p, raw, new)) = AllHandled(k, b)
    <2>1. Splits(h, a, b)
        BY Split
    <2>2. QED
        BY <2>1, Zenon DEF Splits, GoEvents
<1>2. Looks(k.view, d, before.center, Actuals(overrides, d, before.loaded_chunks), players, ids)
    BY LookOwn
<1>3. b = WindowEvents(before, d, cs, recentred) /\ recentred \in BOOLEAN
    BY DEF Centering
<1>4. ~recentred => cs.center = before.center
    BY DEF update_center
<1> HIDE DEF a, b, k, recentred
<1>5. Looks(AllHandled(k, WindowEvents(before, d, cs, recentred)).view, d,
            IF recentred THEN cs.center ELSE before.center,
            Actuals(overrides, d, cs.loaded_chunks), players, ids)
    BY <1>2, <1>3, LookWindow
<1>6. (IF recentred THEN cs.center ELSE before.center) = cs.center
    BY <1>4
<1>7. QED
    BY <1>1, <1>3, <1>5, <1>6

\* A block is set in the dimension of a player.
LEMMA LookBuilt ==
    ASSUME NEW h, NEW d, NEW center, NEW S, NEW players, NEW ids, NEW at, NEW state,
           d \in DimensionId, overrides \in [DimensionId -> Deltas],
           Looks(h.view, d, center, Actuals(overrides, d, S), players, ids)
    PROVE  Looks(AllHandled(h, <<BlockUpdate(at, state)>>).view, d, center,
                 Actuals(set_block(overrides, d, at, state), d, S), players, ids)
<1> DEFINE deltas == Single(at, state)
           old == Actuals(overrides, d, S)
           new == Actuals(set_block(overrides, d, at, state), d, S)
<1>1. AllHandled(h, <<BlockUpdate(at, state)>>).view = Shown(h.view, BlockUpdate(at, state))
    BY OneShown
<1>2. BlockUpdate(at, state) = ChunkBlockOverrides(deltas)
    BY DEF BlockUpdate, ChunkBlockOverrides, Single
<1>3. Built(old, deltas) = new
    <2>1. ASSUME NEW c \in S
          PROVE  Rebuilt(Actual(overrides, d, c), deltas) = Actual(set_block(overrides, d, at, state), d, c)
        BY SetActual
    <2> HIDE DEF deltas
    <2>2. QED
        BY <2>1 DEF Built, Actuals
<1> HIDE DEF deltas, old
<1>4. Looks(Shown(h.view, ChunkBlockOverrides(deltas)), d, center, Built(old, deltas), players, ids)
    BY LookBlocks DEF old
<1>5. QED
    BY <1>1, <1>2, <1>3, <1>4

\* A mob dies in the dimension of a player.
LEMMA LookKilled ==
    ASSUME NEW h, NEW d, NEW center, NEW chunks, NEW players, NEW id,
           mobs \subseteq DOMAIN MobHome, id \in mobs,
           IsTable(players), DOMAIN players \subseteq Players,
           Looks(h.view, d, center, chunks, players, LivingIn(d))
    PROVE  Looks(AllHandled(h, <<RemoveEntities({id})>>).view, d, center, chunks, players,
                 {m \in mobs \ {id} : MobHome[m] = d})
<1> DEFINE one == {id}
<1>1. AllHandled(h, <<RemoveEntities({id})>>).view = Shown(h.view, RemoveEntities(one))
    BY OneShown
<1>2. DOMAIN players \ one = DOMAIN players
    BY ViewAssumption
<1>3. Without(players, one) = players
    BY <1>2 DEF Without, IsTable
<1>4. LivingIn(d) \ one = {m \in mobs \ one : MobHome[m] = d}
    BY DEF LivingIn
<1>5. Looks(Shown(h.view, RemoveEntities(one)), d, center, chunks, Without(players, one), LivingIn(d) \ one)
    <2> HIDE DEF one
    <2>1. QED
        BY LookRemove
<1>6. QED
    BY <1>1, <1>3, <1>4, <1>5

LEMMA NudgedThere ==
    ASSUME NEW old \in Inside, NEW new \in Inside
    PROVE  Nudged(old, old, new) = new
<1>1. old \in Position /\ new \in Position
    BY DEF Inside
<1>2. old[1] + (new[1] - old[1]) = new[1] /\ old[2] + (new[2] - old[2]) = new[2]
      /\ new = <<new[1], new[2]>>
    BY <1>1 DEF Position
<1>3. QED
    BY <1>2 DEF Nudged, Delta

-----------------------------------------------------------------------------
(* What a player who joins is shown *)

InitialChunks == desired_chunks(<<0, 0>>, InitialRadius)

\* Where some players are, and the first k of a sequence of players.
Seen(S) == [q \in S |-> world[q].at]
FirstOf(all, k) == {all[i] : i \in 1..k}

\* The events that say where the players of a sequence are.
Greets(s, all) == \A i \in 1..Len(s) : s[i] = PlayerJoinedEvent(all[i], world[all[i]].at)

LEMMA LookGreeted ==
    ASSUME NEW h, NEW d, NEW center, NEW chunks, NEW ids, NEW s, NEW all, NEW nobody,
           s \in Seq(Event), Greets(s, all), nobody = <<>>,
           Looks(h.view, d, center, chunks, nobody, ids)
    PROVE  Looks(AllHandled(h, s).view, d, center, chunks, Seen(FirstOf(all, Len(s))), ids)
<1> DEFINE n == Len(s)
<1>1. n \in Nat
    BY LenProperties
<1>2. PICK f : IsRun(f, h, s, n) /\ f[n] = AllHandled(h, s)
    BY FoldIsRun
<1> DEFINE T == {k \in Nat : k <= n => Looks(f[k].view, d, center, chunks, Seen(FirstOf(all, k)), ids)}
<1>3. 0 \in T
    <2>1. Seen(FirstOf(all, 0)) = nobody
        <3>1. FirstOf(all, 0) = {}
            BY DEF FirstOf
        <3>2. QED
            BY <3>1 DEF Seen
    <2>2. f[0] = h
        BY <1>2 DEF IsRun
    <2>3. QED
        BY <2>1, <2>2
<1>4. ASSUME NEW k \in Nat, k \in T
      PROVE  k + 1 \in T
    <2> SUFFICES ASSUME k + 1 <= n
                 PROVE  Looks(f[k + 1].view, d, center, chunks, Seen(FirstOf(all, k + 1)), ids)
        OBVIOUS
    <2> DEFINE q == all[k + 1]
               at == world[q].at
               before == Seen(FirstOf(all, k))
    <2>1. k + 1 \in 1..n /\ (k + 1) - 1 = k /\ k <= n
        BY <1>1
    <2>2. f[k + 1] = Handled(f[k], s[k + 1]) /\ s[k + 1] = PlayerJoinedEvent(q, at)
        BY <1>2, <2>1 DEF IsRun, Greets
    <2>3. f[k + 1].view = Shown(f[k].view, PlayerJoinedEvent(q, at))
        BY <2>2 DEF Handled
    <2>4. Looks(f[k].view, d, center, chunks, before, ids)
        BY <1>4, <2>1
    <2>5. Spawned(before, q, at) = Seen(FirstOf(all, k + 1))
        <3>1. FirstOf(all, k + 1) = FirstOf(all, k) \cup {q}
            BY UpToNext DEF FirstOf
        <3>2. QED
            BY <3>1 DEF Spawned, Seen
    <2> HIDE DEF q, at, before
    <2>6. Looks(Shown(f[k].view, PlayerJoinedEvent(q, at)), d, center, chunks, Spawned(before, q, at), ids)
        BY <2>4, LookJoined
    <2>7. QED
        BY <2>3, <2>5, <2>6
<1>5. n \in T
    <2> HIDE DEF n, T
    <2>1. QED
        BY <1>1, <1>3, <1>4, Induction
<1>6. QED
    BY <1>1, <1>2, <1>5

\* The client that has been sent the join sequence.
LEMMA JoinedLooks ==
    ASSUME NEW v, ButForAt(v, Joined), NEW nobody, NEW none, nobody = <<>>, none = {}
    PROVE  Looks(v, "Overworld", <<0, 0>>,
                 Loaded(Actuals(overrides, "Overworld", none), "Overworld", InitialChunks),
                 nobody, none)
<1> DEFINE chunks == [c \in InitialChunks |-> Terrain("Overworld", c)]
<1>1. Loaded(Actuals(overrides, "Overworld", none), "Overworld", InitialChunks) = chunks
    <2>1. DOMAIN Actuals(overrides, "Overworld", none) = {}
        BY DEF Actuals
    <2>2. QED
        BY <2>1 DEF Loaded
<1>2. Joined = ViewOf("Overworld", "Overworld", Spawn, <<0, 0>>, chunks, <<>>, {})
    BY Zenon DEF Joined, ViewOf, InitialChunks
<1> HIDE DEF chunks
<1>3. Looks(Joined, "Overworld", <<0, 0>>, chunks, nobody, none)
    BY <1>2 DEF Looks
<1>4. ButForAt(Joined, v)
    BY DEF ButForAt
<1>5. PICK j : j = Joined
    OBVIOUS
<1>6. PICK here : here = <<0, 0>>
    OBVIOUS
<1>7. Looks(v, "Overworld", here, chunks, nobody, none)
    BY <1>3, <1>4, <1>5, <1>6, LooksAlike
<1>8. QED
    BY <1>1, <1>6, <1>7

LEMMA LookWelcome ==
    ASSUME NEW h, NEW center, NEW others, NEW nobody, NEW none, Tables, others \subseteq Online,
           nobody = <<>>, none = {},
           Looks(h.view, "Overworld", center,
                 Loaded(Actuals(overrides, "Overworld", none), "Overworld", InitialChunks), nobody, none)
    PROVE  Looks(AllHandled(h, WelcomeEvents(others)).view, "Overworld", center,
                 Actuals(overrides, "Overworld", InitialChunks), Seen(others), LivingIn("Overworld"))
<1> DEFINE all == SetToSeq(others)
           d == "Overworld"
           deltas == get_client_block_deltas(overrides, d, InitialChunks)
           a == [i \in DOMAIN all |-> PlayerJoinedEvent(all[i], world[all[i]].at)]
           build == <<ChunkBlockOverrides(deltas)>>
           b == If(deltas # <<>>, build)
           c == SyncMobs(d)
           k == AllHandled(h, a)
           l == AllHandled(k, b)
           bare == Loaded(Actuals(overrides, d, none), d, InitialChunks)
           chunks == Actuals(overrides, d, InitialChunks)
<1>1. a \in Seq(Event) /\ b \in Seq(Event) /\ c \in Seq(Event)
    BY WelcomeSound, Zenon DEF InitialChunks
<1>2. AllHandled(h, WelcomeEvents(others)) = AllHandled(l, c)
    <2>1. WelcomeEvents(others) = a \o b \o c
        BY Zenon DEF WelcomeEvents, InitialChunks
    <2> HIDE DEF a, b, c
    <2>2. QED
        BY <1>1, <2>1, ThriceShown
<1>3. /\ DOMAIN all = 1..Len(all) /\ Len(all) \in Nat /\ others = FirstOf(all, Len(all))
    <2>1. IsFiniteSet(others) /\ others \subseteq Players
        BY ViewAssumption, FS_Subset DEF Tables
    <2>2. /\ all \in Seq(others) /\ Len(all) = Cardinality(others)
          /\ DOMAIN all = 1..Cardinality(others) /\ Cardinality(others) \in Nat
          /\ \A x \in others : \E i \in 1..Cardinality(others) : all[i] = x
        BY <2>1, AllInSequence
    <2> HIDE DEF all
    <2>3. \A i \in 1..Len(all) : all[i] \in others
        BY <2>2, ElementOfSeq
    <2>4. QED
        BY <2>2, <2>3 DEF FirstOf
<1>4. Len(a) = Len(all) /\ Greets(a, all)
    <2>1. DOMAIN a = 1..Len(all)
        BY <1>3
    <2>2. Len(a) = Len(all)
        BY <1>1, <1>3, <2>1, LenProperties
    <2>3. \A i \in 1..Len(all) : a[i] = PlayerJoinedEvent(all[i], world[all[i]].at)
        BY <1>3
    <2> HIDE DEF a
    <2>4. QED
        BY <2>2, <2>3 DEF Greets
<1> HIDE DEF a, all, bare
<1>5. Looks(k.view, d, center, bare, Seen(FirstOf(all, Len(a))), none)
    BY <1>1, <1>4, LookGreeted DEF bare
<1>6. Looks(k.view, d, center, bare, Seen(others), none)
    BY <1>3, <1>4, <1>5
<1> HIDE DEF k
<1>7. Built(bare, deltas) = chunks /\ (deltas = <<>> => bare = chunks)
    <2>1. InitialChunks \subseteq Chunks /\ none \subseteq Chunks
        BY JoinWindow DEF InitialChunks, Windows, ChunkStates
    <2>2. none \cup InitialChunks = InitialChunks
        OBVIOUS
    <2>3. QED
        BY <2>1, <2>2, LoadedBuilt DEF bare
<1>8. Looks(l.view, d, center, chunks, Seen(others), none)
    <2>1. CASE deltas = <<>>
        <3>1. l = k
            BY <2>1, NothingHandled DEF If
        <3>2. QED
            BY <1>6, <1>7, <2>1, <3>1
    <2>2. CASE deltas # <<>>
        <3>1. l.view = Shown(k.view, ChunkBlockOverrides(deltas))
            BY <2>2, OneShown DEF If
        <3> HIDE DEF deltas, chunks, l
        <3>2. Looks(Shown(k.view, ChunkBlockOverrides(deltas)), d, center,
                    Built(bare, deltas), Seen(others), none)
            BY <1>6, LookBlocks
        <3>3. QED
            BY <1>7, <3>1, <3>2
    <2>3. QED
        BY <2>1, <2>2
<1> HIDE DEF l, chunks
<1>9. Looks(AllHandled(l, c).view, d, center, chunks, Seen(others), LivingIn(d))
    <2>1. IsTable(Seen(others)) /\ DOMAIN Seen(others) \subseteq Players /\ none \subseteq mobs
        BY DEF Tables, Seen, IsTable
    <2>2. mobs \subseteq DOMAIN MobHome
        BY DEF Tables
    <2>3. QED
        BY <1>8, <2>1, <2>2, LookMobs
<1>10. QED
    BY <1>2, <1>9 DEF chunks

-----------------------------------------------------------------------------
(* What every client shows *)

\* The others a client shows: players who are online, and of those who have neither
\* died nor changed dimension all, where they are.
Peers(q, players) ==
    /\ IsTable(players) /\ DOMAIN players \subseteq Online \ {q}
    /\ q \in settled => \A r \in (Online \cap settled) \ {q} :
                          r \in DOMAIN players /\ players[r] = world[r].at

\* The client of a player, once it has been sent what waits.
ShowsRight(q) ==
    LET d == world[q].dimension
    IN \E players :
         /\ Peers(q, players)
         /\ Looks(Drained(q), d, chunk_states[q].center,
                  Actuals(overrides, d, chunk_states[q].loaded_chunks), players, LivingIn(d))

\* The client of a session that has not been joined yet.
NewClient(q) == events[q] = <<>> /\ ButForAt(client[q], Joined)

ClientReady(q) == (q \in Online => ShowsRight(q)) /\ (q \notin Online => NewClient(q))

\* A session that runs no longer, or has not been begun.
HasLeft(q) == \E i \in 1..Len(messages) : messages[i].player = q /\ messages[i].type = "PlayerLeft"

ClientGone(q) ==
    /\ events[q] = <<>>
    /\ client[q] = Joined \/ q \in Online \cup heard \/ HasLeft(q)

\* Who has not changed dimension is where everybody joins.
SettledHere == \A q \in Online \cap settled : world[q].dimension = "Overworld"

ShownInv ==
    /\ SettledHere
    /\ \A q \in running : ClientReady(q)
    /\ \A q \in Players \ running : ClientGone(q)

\* The steps of the tick thread.
TickStep ==
    \/ \E p, at : JoinStep(p, at)
    \/ LeaveStep(Head(messages).player)
    \/ \E dim, at, state : SetBlockStep(dim, at, state)
    \/ IdleStep
    \/ \E p, cs : DistanceStep(p, cs)
    \/ \E id : KillStep(id)
    \/ \E p, dest : TransferStep(p, dest)
    \/ \E p : RespawnStep(p)
    \/ \E p, raw, new : \/ StayStep(p, raw, new) \/ GoStep(p, raw, new)
                       \/ \E dest : PortalStep(p, raw, new, dest)

LEMMA ReceiveSteps ==
    ASSUME ViewInv, Receive
    PROVE  /\ TickStep /\ ViewInv' /\ messages # <<>> /\ messages' = Tail(messages)
           /\ client' = client /\ running' = running
           /\ Head(messages).type = "PlayerLeft" => Head(messages).player \in heard'
<1> DEFINE type == Head(messages).type
           Takes(kind) == /\ type = kind /\ messages' = Tail(messages)
                          /\ client' = client /\ running' = running
<1>1. messages # <<>>
    BY DEF Receive
<1>2. CASE PlayerJoined
    <2>1. Takes("PlayerJoined")
        BY <1>2 DEF PlayerJoined, Handles
    <2>2. QED
        BY <1>1, <1>2, <2>1, PlayerJoinedStep DEF TickStep
<1>3. CASE PlayerLeft
    <2>1. Takes("PlayerLeft")
        BY <1>3 DEF PlayerLeft, Handles
    <2>2. LeaveStep(Head(messages).player) /\ ViewInv'
        BY <1>3, PlayerLeftStep
    <2>3. Head(messages).player \in heard'
        BY <2>2 DEF LeaveStep
    <2>4. QED
        BY <1>1, <2>1, <2>2, <2>3 DEF TickStep
<1>4. CASE SetBlock
    <2>1. Takes("SetBlock")
        BY <1>4 DEF SetBlock, Handles
    <2>2. QED
        BY <1>1, <1>4, <2>1, SetBlockStepKeeps DEF TickStep
<1>5. CASE SetClientViewDistance
    <2>1. Takes("SetClientViewDistance")
        BY <1>5 DEF SetClientViewDistance, Handles
    <2>2. QED
        BY <1>1, <1>5, <2>1, SetClientViewDistanceStep DEF TickStep
<1>6. CASE ChatMessage
    <2>1. Takes("ChatMessage")
        BY <1>6 DEF ChatMessage, Handles
    <2>2. QED
        BY <1>1, <1>6, <2>1, ChatMessageStep DEF TickStep
<1>7. CASE ClientStatus
    <2>1. Takes("ClientStatus")
        BY <1>7 DEF ClientStatus, Handles
    <2>2. QED
        BY <1>1, <1>7, <2>1, ClientStatusStep DEF TickStep
<1>8. CASE InteractEntity
    <2>1. Takes("InteractEntity")
        BY <1>8 DEF InteractEntity, Handles
    <2>2. QED
        BY <1>1, <1>8, <2>1, InteractEntityStep DEF TickStep
<1>9. CASE PlayerPositionUpdate
    <2>1. Takes("PlayerPositionUpdate")
        BY <1>9 DEF PlayerPositionUpdate, Handles
    <2>2. QED
        BY <1>1, <1>9, <2>1, PlayerPositionUpdateStep DEF TickStep
<1>10. QED
    BY <1>2, <1>3, <1>4, <1>5, <1>6, <1>7, <1>8, <1>9 DEF Receive

\* To a session whose thread does not run nothing is sent.
LEMMA SentSilent ==
    ASSUME NEW ev, NEW S, NEW s, NEW q, q \in Players, q \notin running
    PROVE  SentTo(ev, S, s)[q] = ev[q]
BY DEF SentTo

LEMMA TickSilent ==
    ASSUME ViewInv, TickStep, NEW q, q \in Players, q \notin running
    PROVE  events'[q] = events[q]
<1>1. ASSUME NEW ev, NEW p, NEW before, NEW dest, NEW cs
      PROVE  TransferredTo(ev, p, before, dest, cs)[q] = ev[q]
    BY SentSilent DEF TransferredTo
<1>2. ASSUME NEW p, NEW raw, NEW new
      PROVE  MovedEvents(p, raw, new)[q] = events[q] /\ GoneEvents(p, raw, new)[q] = events[q]
    BY SentSilent DEF MovedEvents, GoneEvents
<1>3. ASSUME NEW p, NEW at, JoinStep(p, at) PROVE events'[q] = events[q]
    BY <1>3, SentSilent DEF JoinStep
<1>4. ASSUME LeaveStep(Head(messages).player) PROVE events'[q] = events[q]
    BY <1>4, SentSilent DEF LeaveStep
<1>5. ASSUME NEW dim, NEW at, NEW state, SetBlockStep(dim, at, state) PROVE events'[q] = events[q]
    BY <1>5, SentSilent DEF SetBlockStep
<1>6. ASSUME IdleStep PROVE events'[q] = events[q]
    BY <1>6 DEF IdleStep
<1>7. ASSUME NEW p, NEW cs, DistanceStep(p, cs) PROVE events'[q] = events[q]
    <2>1. PICK s : s = WindowEvents(chunk_states[p], world[p].dimension, cs, FALSE)
        OBVIOUS
    <2>2. events' = SentTo(events, {p}, s)
        BY <1>7, <2>1, Zenon DEF DistanceStep
    <2>3. QED
        BY <2>2, SentSilent
<1>8. ASSUME NEW id, KillStep(id) PROVE events'[q] = events[q]
    BY <1>8, SentSilent DEF KillStep
<1>9. ASSUME NEW p, NEW dest, TransferStep(p, dest) PROVE events'[q] = events[q]
    BY <1>1, <1>9 DEF TransferStep
<1>10. ASSUME NEW p, RespawnStep(p) PROVE events'[q] = events[q]
    BY <1>10, SentSilent DEF RespawnStep
<1>11. ASSUME NEW p, NEW raw, NEW new, StayStep(p, raw, new) PROVE events'[q] = events[q]
    BY <1>2, <1>11 DEF StayStep
<1>12. ASSUME NEW p, NEW raw, NEW new, GoStep(p, raw, new) PROVE events'[q] = events[q]
    BY <1>2, <1>12 DEF GoStep
<1>13. ASSUME NEW p, NEW raw, NEW new, NEW dest, PortalStep(p, raw, new, dest) PROVE events'[q] = events[q]
    BY <1>1, <1>2, <1>13 DEF PortalStep
<1>14. QED
    BY <1>3, <1>4, <1>5, <1>6, <1>7, <1>8, <1>9, <1>10, <1>11, <1>12, <1>13 DEF TickStep

\* Who is online stays so or has been heard of; and nobody settles again.
LEMMA TickMarks ==
    ASSUME ViewInv, SettledHere, TickStep
    PROVE  /\ Online \cup heard \subseteq Online' \cup heard'
           /\ settled' \subseteq settled /\ SettledHere'
<1> DEFINE Marks == /\ Online \cup heard \subseteq Online' \cup heard'
                    /\ settled' \subseteq settled /\ SettledHere'
<1>1. Tables
    BY DEF ViewInv
<1>2. ASSUME world' = world, heard' = heard, settled' = settled PROVE Marks
    BY <1>2 DEF Online, SettledHere
<1>3. ASSUME NEW p, NEW place, p \in Online, world' = With(world, p, place),
             heard' = heard \cup {p}, settled' = settled \ {p}
      PROVE  Marks
    BY <1>3 DEF With, Online, SettledHere
<1>4. ASSUME NEW p, NEW at, JoinStep(p, at) PROVE Marks
    BY <1>4 DEF JoinStep, marks, Put, Online, SettledHere
<1>5. ASSUME LeaveStep(Head(messages).player) PROVE Marks
    BY <1>5 DEF LeaveStep, Without, Online, SettledHere
<1>6. ASSUME NEW dim, NEW at, NEW state, SetBlockStep(dim, at, state) PROVE Marks
    BY <1>2, <1>6 DEF SetBlockStep, marks
<1>7. ASSUME IdleStep PROVE Marks
    BY <1>2, <1>7 DEF IdleStep, marks
<1>8. ASSUME NEW p, NEW cs, DistanceStep(p, cs) PROVE Marks
    BY <1>2, <1>8 DEF DistanceStep, marks
<1>9. ASSUME NEW id, KillStep(id) PROVE Marks
    BY <1>2, <1>9 DEF KillStep, marks
<1>10. ASSUME NEW p, NEW dest, TransferStep(p, dest) PROVE Marks
    BY <1>3, <1>10 DEF TransferStep
<1>11. ASSUME NEW p, RespawnStep(p) PROVE Marks
    BY <1>3, <1>11 DEF RespawnStep
<1>12. ASSUME NEW p, NEW raw, NEW new, StayStep(p, raw, new) PROVE Marks
    BY <1>2, <1>12 DEF StayStep
<1>13. ASSUME NEW p, NEW raw, NEW new, GoStep(p, raw, new) PROVE Marks
    BY <1>13 DEF GoStep, PositionStep, With, Online, SettledHere
<1>14. ASSUME NEW p, NEW raw, NEW new, NEW dest, PortalStep(p, raw, new, dest) PROVE Marks
    BY <1>3, <1>14 DEF PortalStep, PositionStep
<1>15. QED
    BY <1>4, <1>5, <1>6, <1>7, <1>8, <1>9, <1>10, <1>11, <1>12, <1>13, <1>14 DEF TickStep

-----------------------------------------------------------------------------
(* What each step of the tick thread makes of it *)

LEMMA NowShows ==
    ASSUME NEW q, NEW s, NEW d, NEW center, NEW S, NEW players, NEW ids, q \in Players, Tables,
           Gets(q, s), client' = client, d = world'[q].dimension, center = chunk_states'[q].center,
           S = chunk_states'[q].loaded_chunks, ids = {m \in mobs' : MobHome[m] = d},
           Peers(q, players)',
           Looks(AllHandled(Polled(q), s).view, d, center, Actuals(overrides', d, S), players, ids)
    PROVE  ShowsRight(q)'
<1>1. Polled(q)' = AllHandled(Polled(q), s)
    BY Got
<1>2. Drained(q)' = AllHandled(Polled(q), s).view
    BY <1>1 DEF Drained
<1>3. Looks(Drained(q)', d, center, Actuals(overrides', d, S), players, ids)
    BY <1>2
<1>4. QED
    BY <1>3, Zenon DEF ShowsRight, LivingIn

\* What a client has been sent shows, with nothing more.
LEMMA ShowsStill ==
    ASSUME NEW q, NEW d, NEW S, q \in Players, Tables, ShowsRight(q), Gets(q, <<>>), client' = client,
           d = world[q].dimension, S = chunk_states[q].loaded_chunks,
           world'[q].dimension = d, chunk_states'[q] = chunk_states[q],
           Actuals(overrides', d, S) = Actuals(overrides, d, S),
           {m \in mobs' : MobHome[m] = d} = LivingIn(d),
           \A players : Peers(q, players) => Peers(q, players)'
    PROVE  ShowsRight(q)'
<1> DEFINE center == chunk_states[q].center
<1>1. PICK players :
          /\ Peers(q, players)
          /\ Looks(Drained(q), d, center,
                   Actuals(overrides, d, S), players, LivingIn(d))
    BY DEF ShowsRight
<1>2. AllHandled(Polled(q), <<>>).view = Drained(q)
    BY NothingHandled DEF Drained
<1>3. Looks(AllHandled(Polled(q), <<>>).view, d, center, Actuals(overrides', d, S), players, LivingIn(d))
    BY <1>1, <1>2
<1>4. PICK s, ids : s = <<>> /\ ids = LivingIn(d)
    OBVIOUS
<1>5. Gets(q, s) /\ Looks(AllHandled(Polled(q), s).view, d, center, Actuals(overrides', d, S), players, ids)
    BY <1>3, <1>4
<1>6. d = world'[q].dimension /\ center = chunk_states'[q].center /\ S = chunk_states'[q].loaded_chunks
    OBVIOUS
<1>7. ids = {m \in mobs' : MobHome[m] = d}
    BY <1>4
<1>8. Peers(q, players)'
    BY <1>1
<1> HIDE DEF center
<1>9. QED
    BY <1>5, <1>6, <1>7, <1>8, NowShows

\* Players who stay are shown where they were.
LEMMA PeersStay ==
    ASSUME NEW q, NEW players, Peers(q, players), Online \subseteq Online', settled' \subseteq settled,
           \A r \in (Online' \cap settled') \ {q} : q \in settled' => r \in Online /\ world'[r].at = world[r].at
    PROVE  Peers(q, players)'
BY DEF Peers

LEMMA IsReady ==
    ASSUME NEW q, q \in Players, Tables, ClientReady(q), q \in Online' <=> q \in Online,
           q \in Online /\ ShowsRight(q) => ShowsRight(q)',
           q \notin Online => Gets(q, <<>>), client' = client
    PROVE  ClientReady(q)'
<1>1. CASE q \in Online
    BY <1>1 DEF ClientReady
<1>2. CASE q \notin Online
    <2>1. events'[q] = events[q] \o <<>> /\ events[q] = <<>> /\ ButForAt(client[q], Joined)
        BY <1>2 DEF Gets, ClientReady, NewClient
    <2>2. events'[q] = <<>>
        BY <2>1, ConcatEmptySeq, EmptySeq
    <2>3. NewClient(q)'
        BY <2>1, <2>2 DEF NewClient, Joined, Terrain, Blocks
    <2>4. QED
        BY <1>2, <2>3 DEF ClientReady
<1>3. QED
    BY <1>1, <1>2

LEMMA SetBlockShows ==
    ASSUME ViewInv, NEW dim, NEW at, NEW state, SetBlockStep(dim, at, state),
           NEW q, q \in running, ClientReady(q)
    PROVE  ClientReady(q)'
<1>1. Tables /\ q \in Players /\ overrides \in [DimensionId -> Deltas]
    BY DEF ViewInv, Tables
<1>2. /\ dim \in DimensionId /\ overrides' = set_block(overrides, dim, at, state)
      /\ world' = world /\ chunk_states' = chunk_states /\ mobs' = mobs /\ client' = client
      /\ settled' = settled
    BY DEF SetBlockStep, marks
<1>3. Online' = Online
    BY <1>2 DEF Online
<1>4. \A players : Peers(q, players) => Peers(q, players)'
    BY <1>2, <1>3, PeersStay
<1> DEFINE d == world[q].dimension
           center == chunk_states[q].center
           S == chunk_states[q].loaded_chunks
           s == <<BlockUpdate(at, state)>>
<1>5. ASSUME q \in Online, ShowsRight(q) PROVE ShowsRight(q)'
    <2>1. d \in DimensionId
        BY <1>1, <1>5, BeforeSound, HabitableDimensions
    <2>2. CASE d # dim
        <3>1. Gets(q, <<>>)
            BY <1>1, <2>2, SetBlockGets, InDimensionOnline
        <3>2. Actuals(overrides', d, S) = Actuals(overrides, d, S)
            <4> HIDE DEF d, S
            <4>1. QED
                BY <1>1, <1>2, <2>1, <2>2, SetElsewhere
        <3>3. {m \in mobs' : MobHome[m] = d} = LivingIn(d)
            BY <1>2 DEF LivingIn
        <3>4. world'[q].dimension = d /\ chunk_states'[q] = chunk_states[q]
            BY <1>2
        <3>5. QED
            BY <1>1, <1>2, <1>4, <1>5, <3>1, <3>2, <3>3, <3>4, ShowsStill
    <2>3. CASE d = dim
        <3>1. Gets(q, s)
            BY <1>1, <1>5, <2>3, SetBlockGets, InDimensionOnline
        <3>2. PICK players :
                  /\ Peers(q, players)
                  /\ Looks(Drained(q), d, center,
                           Actuals(overrides, d, S), players, LivingIn(d))
            BY <1>5 DEF ShowsRight
        <3>3. Peers(q, players)'
            BY <1>4, <3>2
        <3>4. PICK ids : ids = LivingIn(d)
            OBVIOUS
        <3>5. ids = {m \in mobs' : MobHome[m] = d}
            BY <1>2, <3>4 DEF LivingIn
        <3>6. d = world'[q].dimension /\ center = chunk_states'[q].center /\ S = chunk_states'[q].loaded_chunks
            BY <1>2
        <3> HIDE DEF d, center, S, s
        <3>7. Looks(AllHandled(Polled(q), s).view, d, center,
                    Actuals(set_block(overrides, d, at, state), d, S), players, ids)
            BY <1>1, <2>1, <3>2, <3>4, LookBuilt DEF Drained, s
        <3>8. Looks(AllHandled(Polled(q), s).view, d, center, Actuals(overrides', d, S), players, ids)
            BY <1>2, <2>3, <3>7
        <3>9. QED
            BY <1>1, <1>2, <3>1, <3>3, <3>5, <3>6, <3>8, NowShows
    <2>4. QED
        BY <2>2, <2>3
<1>6. q \notin Online => Gets(q, <<>>)
    BY <1>1, SetBlockGets, InDimensionOnline
<1>7. QED
    BY <1>1, <1>2, <1>3, <1>5, <1>6, IsReady

LEMMA IdleShows ==
    ASSUME ViewInv, IdleStep, NEW q, q \in running, ClientReady(q)
    PROVE  ClientReady(q)'
<1>1. Tables /\ q \in Players /\ Gets(q, <<>>)
    BY IdleGets DEF ViewInv, Tables
<1>2. /\ overrides' = overrides /\ world' = world /\ chunk_states' = chunk_states /\ mobs' = mobs
      /\ client' = client /\ settled' = settled /\ Online' = Online
    BY DEF IdleStep, marks, Online
<1>3. \A players : Peers(q, players) => Peers(q, players)'
    BY <1>2, PeersStay
<1> DEFINE d == world[q].dimension
           S == chunk_states[q].loaded_chunks
<1>4. {m \in mobs' : MobHome[m] = d} = LivingIn(d) /\ Actuals(overrides', d, S) = Actuals(overrides, d, S)
    BY <1>2 DEF LivingIn
<1>5. ASSUME ShowsRight(q) PROVE ShowsRight(q)'
    BY <1>1, <1>2, <1>3, <1>4, <1>5, ShowsStill
<1>6. QED
    BY <1>1, <1>2, <1>5, IsReady

LEMMA DistanceShows ==
    ASSUME ViewInv, NEW p, NEW new, DistanceStep(p, new), NEW q, q \in running, ClientReady(q)
    PROVE  ClientReady(q)'
<1>1. Tables /\ q \in Players /\ overrides \in [DimensionId -> Deltas]
    BY DEF ViewInv, Tables
<1>2. /\ overrides' = overrides /\ world' = world /\ mobs' = mobs /\ client' = client
      /\ settled' = settled /\ Online' = Online
      /\ p \in Online /\ new \in Windows /\ new.center = chunk_states[p].center
      /\ chunk_states' = With(chunk_states, p, new)
    BY DEF DistanceStep, marks, Online
<1>3. \A players : Peers(q, players) => Peers(q, players)'
    BY <1>2, PeersStay
<1> DEFINE d == world[q].dimension
           before == chunk_states[q]
           S == before.loaded_chunks
           center == before.center
           s == WindowEvents(before, d, new, FALSE)
<1>4. \A e : {m \in mobs' : MobHome[m] = e} = LivingIn(e)
    BY <1>2 DEF LivingIn
<1>5. ASSUME q \in Online, ShowsRight(q), q # p PROVE ShowsRight(q)'
    <2>1. Gets(q, <<>>)
        BY <1>1, <1>5, DistanceGets
    <2>2. chunk_states'[q] = chunk_states[q]
        BY <1>1, <1>2, <1>5, BeforeSound DEF With
    <2>3. Actuals(overrides', d, S) = Actuals(overrides, d, S) /\ {m \in mobs' : MobHome[m] = d} = LivingIn(d)
        BY <1>2, <1>4
    <2>4. QED
        BY <1>1, <1>2, <1>3, <1>5, <2>1, <2>2, <2>3, ShowsStill
<1>6. ASSUME q \in Online, ShowsRight(q), q = p PROVE ShowsRight(q)'
    <2>1. Gets(q, s)
        BY <1>1, <1>6, DistanceGets
    <2>2. before \in Windows /\ d \in DimensionId /\ chunk_states'[q] = new
        BY <1>1, <1>2, <1>6, BeforeSound, HabitableDimensions DEF With
    <2>3. PICK players :
              /\ Peers(q, players)
              /\ Looks(Drained(q), d, center,
                       Actuals(overrides, d, S), players, LivingIn(d))
        BY <1>6 DEF ShowsRight
    <2>4. Peers(q, players)'
        BY <1>3, <2>3
    <2>5. PICK ids, recentred : ids = LivingIn(d) /\ recentred = FALSE
        OBVIOUS
    <2>6. ids = {m \in mobs' : MobHome[m] = d}
        BY <1>4, <2>5
    <2>7. center = new.center
        BY <1>2, <1>6
    <2>8. Looks(AllHandled(Polled(q), s).view, d, center, Actuals(overrides, d, new.loaded_chunks),
                players, ids)
        <3>1. Looks(Polled(q).view, d, center, Actuals(overrides, d, S), players, ids)
            BY <2>3, <2>5 DEF Drained
        <3> HIDE DEF d, before, s
        <3>2. Looks(AllHandled(Polled(q), WindowEvents(before, d, new, recentred)).view, d,
                    IF recentred THEN new.center ELSE before.center,
                    Actuals(overrides, d, new.loaded_chunks), players, ids)
            <4>1. recentred \in BOOLEAN
                BY <2>5
            <4>2. QED
                BY <1>1, <1>2, <2>2, <3>1, <4>1, LookWindow
        <3>3. QED
            BY <2>5, <3>2 DEF s
    <2> HIDE DEF s, d, before
    <2>9. PICK T : T = new.loaded_chunks
        OBVIOUS
    <2>10. /\ d = world'[q].dimension /\ center = chunk_states'[q].center /\ T = chunk_states'[q].loaded_chunks
           /\ Looks(AllHandled(Polled(q), s).view, d, center, Actuals(overrides', d, T), players, ids)
        BY <1>2, <2>2, <2>7, <2>8, <2>9 DEF d
    <2> HIDE DEF center
    <2>11. QED
        BY <1>1, <1>2, <2>1, <2>4, <2>6, <2>10, NowShows
<1>7. q \notin Online => Gets(q, <<>>)
    BY <1>1, <1>2, DistanceGets
<1>8. QED
    BY <1>1, <1>2, <1>5, <1>6, <1>7, IsReady

LEMMA KillShows ==
    ASSUME ViewInv, NEW id, KillStep(id), NEW q, q \in running, ClientReady(q)
    PROVE  ClientReady(q)'
<1>1. Tables /\ q \in Players /\ mobs \subseteq DOMAIN MobHome /\ Online \subseteq Players
    BY DEF ViewInv, Tables
<1>2. /\ overrides' = overrides /\ world' = world /\ chunk_states' = chunk_states /\ client' = client
      /\ settled' = settled /\ Online' = Online /\ id \in mobs /\ mobs' = mobs \ {id}
    BY DEF KillStep, marks, Online
<1>3. \A players : Peers(q, players) => Peers(q, players)'
    BY <1>2, PeersStay
<1> DEFINE d == world[q].dimension
           center == chunk_states[q].center
           S == chunk_states[q].loaded_chunks
           s == <<RemoveEntities({id})>>
<1>4. ASSUME q \in Online, ShowsRight(q) PROVE ShowsRight(q)'
    <2>1. CASE d # MobHome[id]
        <3>1. Gets(q, <<>>)
            BY <1>1, <2>1, KillGets, InDimensionOnline
        <3>2. {m \in mobs' : MobHome[m] = d} = LivingIn(d)
            BY <1>2, <2>1 DEF LivingIn
        <3>3. Actuals(overrides', d, S) = Actuals(overrides, d, S)
            BY <1>2
        <3>4. world'[q].dimension = d /\ chunk_states'[q] = chunk_states[q]
            BY <1>2
        <3>5. QED
            BY <1>1, <1>2, <1>3, <1>4, <3>1, <3>2, <3>3, <3>4, ShowsStill
    <2>2. CASE d = MobHome[id]
        <3>1. Gets(q, s)
            BY <1>1, <1>4, <2>2, KillGets, InDimensionOnline
        <3>2. PICK players :
                  /\ Peers(q, players)
                  /\ Looks(Drained(q), d, center,
                           Actuals(overrides, d, S), players, LivingIn(d))
            BY <1>4 DEF ShowsRight
        <3>3. Peers(q, players)' /\ IsTable(players) /\ DOMAIN players \subseteq Players
            BY <1>1, <1>3, <3>2 DEF Peers
        <3>4. PICK ids : ids = {m \in mobs \ {id} : MobHome[m] = d}
            OBVIOUS
        <3>5. ids = {m \in mobs' : MobHome[m] = d}
            BY <1>2, <3>4
        <3>6. d = world'[q].dimension /\ center = chunk_states'[q].center /\ S = chunk_states'[q].loaded_chunks
            BY <1>2
        <3>7. PICK chunks : chunks = Actuals(overrides, d, S)
            OBVIOUS
        <3> HIDE DEF d, center, S, s
        <3>8. Looks(AllHandled(Polled(q), s).view, d, center, chunks, players, ids)
            BY <1>1, <1>2, <3>2, <3>3, <3>4, <3>7, LookKilled DEF Drained, s
        <3>9. Looks(AllHandled(Polled(q), s).view, d, center, Actuals(overrides', d, S), players, ids)
            BY <1>2, <3>7, <3>8
        <3>10. QED
            BY <1>1, <1>2, <3>1, <3>3, <3>5, <3>6, <3>9, NowShows
    <2>3. QED
        BY <2>1, <2>2
<1>5. q \notin Online => Gets(q, <<>>)
    BY <1>1, KillGets, InDimensionOnline
<1>6. QED
    BY <1>1, <1>2, <1>4, <1>5, IsReady

\* A step of another player, of which a client hears nothing.
LEMMA BystanderShows ==
    ASSUME ViewInv, NEW q, q \in Players, ShowsRight(q), Gets(q, <<>>), client' = client,
           overrides' = overrides, mobs' = mobs,
           world'[q].dimension = world[q].dimension, chunk_states'[q] = chunk_states[q],
           \A players : Peers(q, players) => Peers(q, players)'
    PROVE  ShowsRight(q)'
<1> DEFINE d == world[q].dimension
           S == chunk_states[q].loaded_chunks
<1>1. Tables
    BY DEF ViewInv
<1>2. {m \in mobs' : MobHome[m] = d} = LivingIn(d) /\ Actuals(overrides', d, S) = Actuals(overrides, d, S)
    BY DEF LivingIn
<1>3. QED
    BY <1>1, <1>2, ShowsStill

\* What a player shows who has been put elsewhere: no one else is known to be where
\* they are.
LEMMA MovedShows ==
    ASSUME ViewInv, NEW q, NEW s, NEW d, NEW cs, NEW others, q \in Players,
           Gets(q, s), client' = client, overrides' = overrides, mobs' = mobs,
           d = world'[q].dimension, cs = chunk_states'[q], Peers(q, others)',
           Looks(AllHandled(Polled(q), s).view, d, cs.center,
                 Actuals(overrides, d, cs.loaded_chunks), others, LivingIn(d))
    PROVE  ShowsRight(q)'
<1>1. Tables
    BY DEF ViewInv
<1>2. PICK center, S, ids : center = cs.center /\ S = cs.loaded_chunks /\ ids = LivingIn(d)
    OBVIOUS
<1>3. ids = {m \in mobs' : MobHome[m] = d}
    BY <1>2 DEF LivingIn
<1>4. Looks(AllHandled(Polled(q), s).view, d, center, Actuals(overrides', d, S), others, ids)
    BY <1>2
<1>5. center = chunk_states'[q].center /\ S = chunk_states'[q].loaded_chunks
    BY <1>2
<1>6. QED
    BY <1>1, <1>3, <1>4, <1>5, NowShows

LEMMA TransferShows ==
    ASSUME ViewInv, NEW p, NEW dest, TransferStep(p, dest), NEW q, q \in running, ClientReady(q)
    PROVE  ClientReady(q)'
<1> DEFINE place == [at |-> Spawn, dimension |-> dest]
           cs == Recentred(chunk_states[p], Spawn)
           before == chunk_states[p]
           d == world[p].dimension
           center == before.center
           s == TransferEvents(before, dest, cs)
<1>1. Tables /\ q \in Players /\ Online \subseteq Players /\ overrides \in [DimensionId -> Deltas]
    BY DEF ViewInv, Tables
<1>2. /\ overrides' = overrides /\ mobs' = mobs /\ client' = client
      /\ settled' = settled \ {p} /\ chunk_states' = With(chunk_states, p, cs)
      /\ dest \in EnabledDimensions /\ p \in Online /\ cs \in Windows
      /\ ResyncEvents(before, dest, cs) \in Seq(Event) /\ Arrival(dest) \in Seq(Event)
      /\ MovesOnly(p, place)
    BY DEF TransferStep, MovesOnly
<1>3. /\ Online' = Online /\ world'[p] = place
      /\ \A r \in Online : r # p => world'[r] = world[r] /\ chunk_states'[r] = chunk_states[r]
      /\ chunk_states'[p] = cs
    BY <1>1, <1>2, BeforeSound DEF MovesOnly, With, Online
<1>4. ASSUME q \in Online, ShowsRight(q), q # p PROVE ShowsRight(q)'
    <2>1. Gets(q, <<>>)
        BY <1>1, <1>4, TransferGets
    <2>2. world'[q] = world[q] /\ chunk_states'[q] = chunk_states[q]
        BY <1>3, <1>4
    <2>3. \A players : Peers(q, players) => Peers(q, players)'
        BY <1>2, <1>3, PeersStay
    <2>4. QED
        BY <1>1, <1>2, <1>4, <2>1, <2>2, <2>3, BystanderShows
<1>5. ASSUME q \in Online, ShowsRight(q), q = p PROVE ShowsRight(q)'
    <2>1. Gets(q, s)
        BY <1>1, <1>5, TransferGets
    <2>2. before \in Windows /\ d \in DimensionId
        BY <1>1, <1>2, BeforeSound, HabitableDimensions
    <2>3. PICK players :
              /\ Peers(q, players)
              /\ Looks(Drained(q), d, center,
                       Actuals(overrides, d, before.loaded_chunks), players, LivingIn(d))
        BY <1>5 DEF ShowsRight
    <2>4. PICK ids : ids = LivingIn(d)
        OBVIOUS
    <2>5. IsTable(players) /\ DOMAIN players \subseteq Players /\ ids \subseteq mobs
        BY <1>1, <2>3, <2>4 DEF Peers, LivingIn
    <2>6. world'[q].dimension = dest /\ chunk_states'[q] = cs
        BY <1>3, <1>5
    <2> HIDE DEF cs, before, d, center
    <2>7. PICK others : /\ IsTable(others) /\ DOMAIN others \subseteq DOMAIN players
                        /\ Looks(AllHandled(Polled(q), s).view, dest, cs.center,
                                 Actuals(overrides, dest, cs.loaded_chunks), others, LivingIn(dest))
        BY <1>1, <1>2, <2>2, <2>3, <2>4, <2>5, LookTransfer DEF Drained
    <2>8. Peers(q, others)'
        BY <1>2, <1>3, <1>5, <2>3, <2>7 DEF Peers
    <2> HIDE DEF s
    <2>9. QED
        BY <1>1, <1>2, <2>1, <2>6, <2>7, <2>8, MovedShows
<1>6. q \notin Online => Gets(q, <<>>)
    BY <1>1, <1>2, TransferGets
<1>7. QED
    BY <1>1, <1>2, <1>3, <1>4, <1>5, <1>6, IsReady

LEMMA RespawnShows ==
    ASSUME ViewInv, NEW p, RespawnStep(p), NEW q, q \in running, ClientReady(q)
    PROVE  ClientReady(q)'
<1> DEFINE d == world[p].dimension
           place == [at |-> Spawn, dimension |-> d]
           cs == Recentred(chunk_states[p], Spawn)
           before == chunk_states[p]
           center == before.center
           s == RespawnEvents(before, d, cs)
<1>1. Tables /\ q \in Players /\ Online \subseteq Players /\ overrides \in [DimensionId -> Deltas]
    BY DEF ViewInv, Tables
<1>2. /\ overrides' = overrides /\ mobs' = mobs /\ client' = client
      /\ settled' = settled \ {p} /\ chunk_states' = With(chunk_states, p, cs)
      /\ p \in Online /\ cs \in Windows
      /\ ResyncEvents(before, d, cs) \in Seq(Event) /\ SyncMobs(d) \in Seq(Event)
      /\ MovesOnly(p, place)
    BY DEF RespawnStep, MovesOnly
<1>3. /\ Online' = Online /\ world'[p] = place
      /\ \A r \in Online : r # p => world'[r] = world[r] /\ chunk_states'[r] = chunk_states[r]
      /\ chunk_states'[p] = cs
    BY <1>1, <1>2, BeforeSound DEF MovesOnly, With, Online
<1>4. ASSUME q \in Online, ShowsRight(q), q # p PROVE ShowsRight(q)'
    <2>1. Gets(q, <<>>)
        BY <1>1, <1>4, RespawnGets
    <2>2. world'[q] = world[q] /\ chunk_states'[q] = chunk_states[q]
        BY <1>3, <1>4
    <2>3. \A players : Peers(q, players) => Peers(q, players)'
        BY <1>2, <1>3, PeersStay
    <2>4. QED
        BY <1>1, <1>2, <1>4, <2>1, <2>2, <2>3, BystanderShows
<1>5. ASSUME q \in Online, ShowsRight(q), q = p PROVE ShowsRight(q)'
    <2>1. Gets(q, s)
        BY <1>1, <1>5, RespawnGets
    <2>2. before \in Windows /\ d \in Habitable
        BY <1>1, <1>2, BeforeSound
    <2>3. PICK players :
              /\ Peers(q, players)
              /\ Looks(Drained(q), d, center,
                       Actuals(overrides, d, before.loaded_chunks), players, LivingIn(d))
        BY <1>5 DEF ShowsRight
    <2>4. PICK ids : ids = LivingIn(d)
        OBVIOUS
    <2>5. IsTable(players) /\ DOMAIN players \subseteq Players /\ ids \subseteq mobs
        BY <1>1, <2>3, <2>4 DEF Peers, LivingIn
    <2>6. world'[q].dimension = d /\ chunk_states'[q] = cs
        BY <1>3, <1>5
    <2> HIDE DEF cs, before, d, center
    <2>7. PICK others : /\ IsTable(others) /\ DOMAIN others \subseteq DOMAIN players
                        /\ Looks(AllHandled(Polled(q), s).view, d, cs.center,
                                 Actuals(overrides, d, cs.loaded_chunks), others, LivingIn(d))
        BY <1>1, <1>2, <2>2, <2>3, <2>4, <2>5, LookReborn DEF Drained
    <2>8. Peers(q, others)'
        BY <1>2, <1>3, <1>5, <2>3, <2>7 DEF Peers
    <2> HIDE DEF s
    <2>9. QED
        BY <1>1, <1>2, <2>1, <2>6, <2>7, <2>8, MovedShows
<1>6. q \notin Online => Gets(q, <<>>)
    BY <1>1, <1>2, RespawnGets
<1>7. QED
    BY <1>1, <1>2, <1>3, <1>4, <1>5, <1>6, IsReady

LEMMA StayShows ==
    ASSUME ViewInv, NEW p, NEW raw, NEW new, StayStep(p, raw, new), NEW q, q \in running, ClientReady(q)
    PROVE  ClientReady(q)'
<1> DEFINE d == world[q].dimension
           cs == chunk_states[q]
<1>1. Tables /\ q \in Players
    BY DEF ViewInv, Tables
<1>2. /\ overrides' = overrides /\ world' = world /\ chunk_states' = chunk_states /\ mobs' = mobs
      /\ client' = client /\ settled' = settled /\ Online' = Online /\ p \in Online
    BY DEF StayStep, PositionStep, Online
<1>3. \A players : Peers(q, players) => Peers(q, players)'
    BY <1>2, PeersStay
<1>4. ASSUME q \in Online, ShowsRight(q), q # p PROVE ShowsRight(q)'
    <2>1. Gets(q, <<>>)
        BY <1>1, <1>4, StayGets
    <2>2. QED
        BY <1>1, <1>2, <1>3, <1>4, <2>1, BystanderShows
<1>5. ASSUME q \in Online, ShowsRight(q), q = p PROVE ShowsRight(q)'
    <2>1. Gets(q, Own(raw, new))
        BY <1>1, <1>5, StayGets
    <2>2. PICK players :
              /\ Peers(q, players)
              /\ Looks(Drained(q), d, cs.center,
                       Actuals(overrides, d, cs.loaded_chunks), players, LivingIn(d))
        BY <1>5 DEF ShowsRight
    <2>3. Peers(q, players)'
        BY <1>3, <2>2
    <2>4. d = world'[q].dimension /\ cs = chunk_states'[q]
        BY <1>2
    <2> HIDE DEF d, cs
    <2>5. Looks(AllHandled(Polled(q), Own(raw, new)).view, d, cs.center,
                Actuals(overrides, d, cs.loaded_chunks), players, LivingIn(d))
        BY <2>2, LookOwn DEF Drained
    <2>6. QED
        BY <1>1, <1>2, <2>1, <2>3, <2>4, <2>5, MovedShows
<1>6. q \notin Online => Gets(q, <<>>)
    BY <1>1, <1>2, StayGets
<1>7. QED
    BY <1>1, <1>2, <1>4, <1>5, <1>6, IsReady

\* Who is shown another player where they were shows them where they go.
LEMMA PeersFollow ==
    ASSUME NEW q, NEW p, NEW players, NEW old, NEW new, NEW after, Peers(q, players), p # q,
           old \in Inside, new \in Inside, old = world[p].at, after = Followed(players, p, old, new),
           Online' = Online, settled' \subseteq settled, p \in settled' => world'[p].at = new,
           \A r \in Online : r # p => world'[r] = world[r]
    PROVE  Peers(q, after)'
<1>1. /\ DOMAIN after = DOMAIN players /\ IsTable(after)
      /\ \A r \in DOMAIN players : r # p => after[r] = players[r]
      /\ p \in DOMAIN players => after[p] = Nudged(players[p], old, new)
    BY DEF Followed, Peers, IsTable
<1>2. Nudged(old, old, new) = new
    BY NudgedThere
<1>3. ASSUME q \in settled', NEW r \in (Online' \cap settled') \ {q}
      PROVE  r \in DOMAIN after /\ after[r] = world'[r].at
    <2>1. r \in DOMAIN players /\ players[r] = world[r].at
        BY <1>3 DEF Peers
    <2>2. QED
        BY <1>1, <1>2, <1>3, <2>1
<1>4. DOMAIN after \subseteq Online' \ {q}
    BY <1>1 DEF Peers
<1>5. QED
    BY <1>1, <1>3, <1>4 DEF Peers

\* A client is told of the move of another player.
LEMMA FollowShows ==
    ASSUME ViewInv, NEW q, NEW p, NEW new, NEW s, q \in Players, ShowsRight(q), p # q,
           p \in Online, new \in Inside, s = <<EntityMovement(p, world[p].at, new)>>,
           Gets(q, s), client' = client, overrides' = overrides, mobs' = mobs, Online' = Online,
           settled' \subseteq settled, p \in settled' => world'[p].at = new,
           \A r \in Online : r # p => world'[r] = world[r], q \in Online,
           chunk_states'[q] = chunk_states[q]
    PROVE  ShowsRight(q)'
<1> DEFINE d == world[q].dimension
           cs == chunk_states[q]
           chunks == Actuals(overrides, d, cs.loaded_chunks)
           old == world[p].at
<1>1. PICK players : Peers(q, players) /\ Looks(Drained(q), d, cs.center, chunks, players, LivingIn(d))
    BY DEF ShowsRight
<1>2. old \in Inside
    BY BeforeSound DEF ViewInv
<1>3. PICK after : after = Followed(players, p, old, new)
    OBVIOUS
<1>4. Peers(q, after)'
    BY <1>1, <1>2, <1>3, PeersFollow
<1>5. AllHandled(Polled(q), s).view = Shown(Drained(q), EntityMovement(p, old, new))
    BY OneShown DEF Drained
<1>6. d = world'[q].dimension /\ cs = chunk_states'[q]
    OBVIOUS
<1> HIDE DEF d, cs, old
<1>7. Looks(Shown(Drained(q), EntityMovement(p, old, new)), d, cs.center, chunks, after, LivingIn(d))
    <2> HIDE DEF chunks
    <2>1. QED
        BY <1>1, <1>3, LookMovement
<1>8. Looks(AllHandled(Polled(q), s).view, d, cs.center,
            Actuals(overrides, d, cs.loaded_chunks), after, LivingIn(d))
    BY <1>5, <1>7
<1>9. QED
    BY <1>4, <1>6, <1>8, MovedShows

LEMMA GoShows ==
    ASSUME ViewInv, SettledHere, NEW p, NEW raw, NEW new, GoStep(p, raw, new),
           NEW q, q \in running, ClientReady(q)
    PROVE  ClientReady(q)'
<1> DEFINE place == [at |-> new, dimension |-> world[p].dimension]
           before == chunk_states[p]
           cs == update_center(before, chunk_from_world(new))
           d == world[p].dimension
           near == InDimension(Before, d)
           s == GoEvents(p, raw, new)
<1>1. Tables /\ q \in Players /\ overrides \in [DimensionId -> Deltas]
    BY DEF ViewInv, Tables
<1>2. /\ overrides' = overrides /\ mobs' = mobs /\ client' = client /\ settled' = settled
      /\ chunk_states' = With(chunk_states, p, cs) /\ world' = With(world, p, place)
      /\ p \in Online /\ cs \in Windows /\ new \in Inside
      /\ Own(raw, new) \in Seq(Event) /\ Centering(p, new) \in Seq(Event)
    BY DEF GoStep, PositionStep
<1>3. /\ Online' = Online /\ world'[p] = place
      /\ \A r \in Online : r # p => world'[r] = world[r] /\ chunk_states'[r] = chunk_states[r]
      /\ chunk_states'[p] = cs
    BY <1>1, <1>2, BeforeSound DEF With, Online
<1>4. ASSUME q \in Online, ShowsRight(q), q # p, q \in near PROVE ShowsRight(q)'
    <2>1. PICK move : move = <<EntityMovement(p, world[p].at, new)>>
        OBVIOUS
    <2>2. Gets(q, move)
        BY <1>1, <1>4, <2>1, GoGets
    <2>3. world'[p].at = new /\ chunk_states'[q] = chunk_states[q] /\ settled' \subseteq settled
        BY <1>2, <1>3, <1>4
    <2>4. \A r \in Online : r # p => world'[r] = world[r]
        BY <1>3
    <2> HIDE DEF place, before, cs, d, near, s
    <2>5. QED
        BY <1>1, <1>2, <1>3, <1>4, <2>1, <2>2, <2>3, <2>4, FollowShows
<1>5. ASSUME q \in Online, ShowsRight(q), q # p, q \notin near PROVE ShowsRight(q)'
    <2>1. Gets(q, <<>>)
        BY <1>1, <1>5, GoGets
    <2>2. world'[q] = world[q] /\ chunk_states'[q] = chunk_states[q]
        BY <1>3, <1>5
    <2>3. ~(q \in settled /\ p \in settled)
        BY <1>1, <1>2, <1>5, InDimensionOnline DEF SettledHere
    <2>4. \A players : Peers(q, players) => Peers(q, players)'
        BY <1>2, <1>3, <2>3, PeersStay
    <2>5. QED
        BY <1>1, <1>2, <1>5, <2>1, <2>2, <2>4, BystanderShows
<1>6. ASSUME q \in Online, ShowsRight(q), q = p PROVE ShowsRight(q)'
    <2>1. Gets(q, s)
        BY <1>1, <1>6, GoGets
    <2>2. before \in Windows /\ d \in DimensionId
        BY <1>1, <1>2, BeforeSound, HabitableDimensions
    <2>3. PICK players :
              /\ Peers(q, players)
              /\ Looks(Drained(q), d, before.center,
                       Actuals(overrides, d, before.loaded_chunks), players, LivingIn(d))
        BY <1>6 DEF ShowsRight
    <2>4. Peers(q, players)'
        BY <1>2, <1>3, <1>6, <2>3, PeersStay
    <2>5. world'[q].dimension = d /\ chunk_states'[q] = cs
        BY <1>3, <1>6
    <2>6. /\ cs = update_center(before, chunk_from_world(new))
          /\ before = chunk_states[p] /\ d = world[p].dimension
        OBVIOUS
    <2> HIDE DEF cs, before, d
    <2>7. Looks(AllHandled(Polled(q), s).view, d, cs.center,
                Actuals(overrides, d, cs.loaded_chunks), players, LivingIn(d))
        BY <1>1, <1>2, <2>2, <2>3, <2>6, LookGone DEF Drained
    <2> HIDE DEF s
    <2>8. QED
        BY <1>1, <1>2, <2>1, <2>4, <2>5, <2>7, MovedShows
<1>7. q \notin Online => Gets(q, <<>>)
    BY <1>1, <1>2, GoGets, InDimensionOnline
<1>8. QED
    BY <1>1, <1>2, <1>3, <1>4, <1>5, <1>6, <1>7, IsReady

\* A player who goes through a portal.
LEMMA LookPortal ==
    ASSUME NEW h, NEW p, NEW raw, NEW new, NEW players, NEW d, NEW before, NEW cs, NEW there, NEW dest,
           NEW e, before = chunk_states[p], d = world[p].dimension,
           cs = update_center(before, chunk_from_world(new)),
           before \in Windows, cs \in Windows, there \in Windows, d \in DimensionId,
           dest \in EnabledDimensions, Tables, Own(raw, new) \in Seq(Event), Centering(p, new) \in Seq(Event),
           GoEvents(p, raw, new) \in Seq(Event), e \in Seq(Event), e = TransferEvents(cs, dest, there),
           ResyncEvents(cs, dest, there) \in Seq(Event), Arrival(dest) \in Seq(Event),
           IsTable(players), DOMAIN players \subseteq Players,
           Looks(h.view, d, before.center, Actuals(overrides, d, before.loaded_chunks), players, LivingIn(d))
    PROVE  \E others :
             /\ IsTable(others) /\ DOMAIN others \subseteq DOMAIN players
             /\ Looks(AllHandled(h, GoEvents(p, raw, new) \o e).view, dest, there.center,
                      Actuals(overrides, dest, there.loaded_chunks), others, LivingIn(dest))
<1> DEFINE a == GoEvents(p, raw, new)
<1>1. PICK k, ids, center : k = AllHandled(h, a) /\ ids = LivingIn(d) /\ center = cs.center
    OBVIOUS
<1>2. overrides \in [DimensionId -> Deltas] /\ ids \subseteq mobs
    BY <1>1 DEF Tables, LivingIn
<1>3. Looks(AllHandled(h, a).view, d, cs.center, Actuals(overrides, d, cs.loaded_chunks), players, ids)
    BY <1>1, <1>2, LookGone
<1> HIDE DEF a
<1>4. Looks(k.view, d, center, Actuals(overrides, d, cs.loaded_chunks), players, ids)
    BY <1>1, <1>3
<1>5. \E others :
        /\ IsTable(others) /\ DOMAIN others \subseteq DOMAIN players
        /\ Looks(AllHandled(k, TransferEvents(cs, dest, there)).view, dest, there.center,
                 Actuals(overrides, dest, there.loaded_chunks), others, LivingIn(dest))
    BY <1>2, <1>4, LookTransfer
<1>6. AllHandled(h, a \o e) = AllHandled(k, e)
    <2>1. Splits(h, a, e)
        BY Split DEF a
    <2>2. QED
        BY <1>1, <2>1, Zenon DEF Splits
<1>7. QED
    BY <1>5, <1>6 DEF a

LEMMA PortalShows ==
    ASSUME ViewInv, NEW p, NEW raw, NEW new, NEW dest, PortalStep(p, raw, new, dest),
           NEW q, q \in running, ClientReady(q)
    PROVE  ClientReady(q)'
<1> DEFINE place == [at |-> Spawn, dimension |-> dest]
           before == chunk_states[p]
           cs == update_center(before, chunk_from_world(new))
           there == Recentred(cs, Spawn)
           d == world[p].dimension
           near == InDimension(Before, d)
           a == GoEvents(p, raw, new)
           b == TransferEvents(cs, dest, there)
           s == a \o b
<1>1. Tables /\ q \in Players /\ Online \subseteq Players /\ overrides \in [DimensionId -> Deltas]
    BY DEF ViewInv, Tables
<1>2. /\ overrides' = overrides /\ mobs' = mobs /\ client' = client /\ settled' = settled \ {p}
      /\ chunk_states' = With(chunk_states, p, there) /\ world' = With(world, p, place)
      /\ p \in Online /\ cs \in Windows /\ there \in Windows /\ new \in Inside
      /\ dest \in EnabledDimensions
      /\ Own(raw, new) \in Seq(Event) /\ Centering(p, new) \in Seq(Event)
      /\ ResyncEvents(cs, dest, there) \in Seq(Event) /\ Arrival(dest) \in Seq(Event)
    BY DEF PortalStep, PositionStep
<1>3. /\ Online' = Online /\ world'[p] = place
      /\ \A r \in Online : r # p => world'[r] = world[r] /\ chunk_states'[r] = chunk_states[r]
      /\ chunk_states'[p] = there
    BY <1>1, <1>2, BeforeSound DEF With, Online
<1>4. ASSUME q \in Online, ShowsRight(q), q # p, q \in near PROVE ShowsRight(q)'
    <2>1. PICK move : move = <<EntityMovement(p, world[p].at, new)>>
        OBVIOUS
    <2>2. Gets(q, move)
        BY <1>1, <1>4, <2>1, PortalGets
    <2>3. p \notin settled' /\ chunk_states'[q] = chunk_states[q] /\ settled' \subseteq settled
        BY <1>2, <1>3, <1>4
    <2>4. \A r \in Online : r # p => world'[r] = world[r]
        BY <1>3
    <2> HIDE DEF place, before, cs, there, d, near, a, b, s
    <2>5. QED
        BY <1>1, <1>2, <1>3, <1>4, <2>1, <2>2, <2>3, <2>4, FollowShows
<1>5. ASSUME q \in Online, ShowsRight(q), q # p, q \notin near PROVE ShowsRight(q)'
    <2>1. Gets(q, <<>>)
        BY <1>1, <1>5, PortalGets
    <2>2. world'[q] = world[q] /\ chunk_states'[q] = chunk_states[q]
        BY <1>3, <1>5
    <2>3. \A players : Peers(q, players) => Peers(q, players)'
        BY <1>2, <1>3, PeersStay
    <2>4. QED
        BY <1>1, <1>2, <1>5, <2>1, <2>2, <2>3, BystanderShows
<1>6. ASSUME q \in Online, ShowsRight(q), q = p PROVE ShowsRight(q)'
    <2>1. Gets(q, s) /\ a \in Seq(Event) /\ b \in Seq(Event)
        BY <1>1, <1>6, PortalGets
    <2>2. before \in Windows /\ d \in DimensionId
        BY <1>1, <1>2, BeforeSound, HabitableDimensions
    <2>3. PICK players :
              /\ Peers(q, players)
              /\ Looks(Drained(q), d, before.center,
                       Actuals(overrides, d, before.loaded_chunks), players, LivingIn(d))
        BY <1>6 DEF ShowsRight
    <2>4. IsTable(players) /\ DOMAIN players \subseteq Players
        BY <1>1, <2>3 DEF Peers
    <2>5. world'[q].dimension = dest /\ chunk_states'[q] = there
        BY <1>3, <1>6
    <2>6. /\ cs = update_center(before, chunk_from_world(new))
          /\ before = chunk_states[p] /\ d = world[p].dimension
        OBVIOUS
    <2>7. PICK e : e = b /\ e = TransferEvents(cs, dest, there)
        OBVIOUS
    <2> HIDE DEF cs, there, before, d, b
    <2>8. PICK others : /\ IsTable(others) /\ DOMAIN others \subseteq DOMAIN players
                        /\ Looks(AllHandled(Polled(q), a \o e).view, dest, there.center,
                                 Actuals(overrides, dest, there.loaded_chunks), others, LivingIn(dest))
        BY <1>1, <1>2, <2>1, <2>2, <2>3, <2>4, <2>6, <2>7, LookPortal DEF Drained
    <2>9. Peers(q, others)'
        BY <1>2, <1>3, <1>6, <2>3, <2>8 DEF Peers
    <2> HIDE DEF s
    <2>10. QED
        BY <1>1, <1>2, <2>1, <2>5, <2>7, <2>8, <2>9, MovedShows DEF s
<1>7. q \notin Online => Gets(q, <<>>)
    BY <1>1, <1>2, PortalGets, InDimensionOnline
<1>8. QED
    BY <1>1, <1>2, <1>3, <1>4, <1>5, <1>6, <1>7, IsReady

\* A player who has been shown the join sequence, and is told the rest.
LEMMA WelcomeShows ==
    ASSUME ViewInv, SettledHere, NEW q, NEW at, JoinStep(q, at), q \in running, NewClient(q)
    PROVE  ShowsRight(q)'
<1> DEFINE others == InDimension(Before, "Overworld")
           s == WelcomeEvents(others)
<1>1. Tables /\ q \in Players /\ Online \subseteq Players
    BY DEF ViewInv, Tables
<1>2. PICK d, center, cs, nobody, none :
        /\ d = "Overworld" /\ center = <<0, 0>> /\ cs = PlayerChunkState(ServerViewDistance)
        /\ nobody = <<>> /\ none = {}
    OBVIOUS
<1>3. /\ overrides' = overrides /\ mobs' = mobs /\ client' = client /\ settled' = settled
      /\ q \notin Online /\ others \subseteq Online
      /\ world' = Put(world, q, [at |-> at, dimension |-> "Overworld"])
      /\ chunk_states' = Put(chunk_states, q, PlayerChunkState(ServerViewDistance))
    BY DEF JoinStep, marks
<1>4. /\ Online' = Online \cup {q} /\ d = world'[q].dimension /\ cs = chunk_states'[q]
      /\ \A r \in Online : world'[r] = world[r]
    BY <1>2, <1>3 DEF Put, Online
<1>5. cs.center = center /\ cs.loaded_chunks = InitialChunks
    BY <1>2, JoinWindow DEF PlayerChunkState, InitialChunks
<1>6. Gets(q, s)
    BY <1>1, JoinGets
<1>7. Polled(q).view = client[q]
    <2>1. Polled(q) = AllHandled(Showing(client[q]), <<>>)
        BY DEF NewClient, Polled, AllHandled, Showing
    <2>2. Polled(q) = Showing(client[q])
        BY <2>1, NothingHandled
    <2>3. QED
        BY <2>2 DEF Showing
<1>8. Looks(client[q], d, center, Loaded(Actuals(overrides, d, none), d, InitialChunks), nobody, none)
    <2>1. PICK v : v = client[q]
        OBVIOUS
    <2>2. ButForAt(v, Joined)
        BY <2>1 DEF NewClient
    <2>3. QED
        BY <1>2, <2>1, <2>2, JoinedLooks
<1>9. Looks(AllHandled(Polled(q), s).view, d, center, Actuals(overrides, d, InitialChunks),
            Seen(others), LivingIn(d))
    <2>1. PICK all : all = others
        OBVIOUS
    <2> HIDE DEF others
    <2>2. Looks(AllHandled(Polled(q), WelcomeEvents(all)).view, d, center, Actuals(overrides, d, InitialChunks),
                Seen(all), LivingIn(d))
        BY <1>1, <1>2, <1>3, <1>7, <1>8, <2>1, LookWelcome
    <2>3. QED
        BY <2>1, <2>2
<1>10. \A r \in Online \cap settled : r \in others
    BY <1>1, InDimensionOnline DEF SettledHere
<1> HIDE DEF others
<1>11. PICK seen : seen = Seen(others)
    OBVIOUS
<1>12. Peers(q, seen)'
    <2>1. /\ IsTable(seen) /\ DOMAIN seen = others
          /\ \A r \in others : seen[r] = world[r].at
        BY <1>11 DEF Seen, IsTable
    <2>2. QED
        BY <1>3, <1>4, <1>10, <2>1 DEF Peers
<1> HIDE DEF s
<1>13. QED
    BY <1>1, <1>3, <1>4, <1>5, <1>6, <1>9, <1>11, <1>12, MovedShows

LEMMA JoinShows ==
    ASSUME ViewInv, SettledHere, NEW p, NEW at, JoinStep(p, at), NEW q, q \in running, ClientReady(q)
    PROVE  ClientReady(q)'
<1> DEFINE others == InDimension(Before, "Overworld")
           d == world[q].dimension
           cs == chunk_states[q]
           chunks == Actuals(overrides, d, cs.loaded_chunks)
<1>1. Tables /\ q \in Players
    BY DEF ViewInv, Tables
<1>2. /\ overrides' = overrides /\ mobs' = mobs /\ client' = client /\ settled' = settled
      /\ p \notin Online
      /\ world' = Put(world, p, [at |-> at, dimension |-> "Overworld"])
      /\ chunk_states' = Put(chunk_states, p, PlayerChunkState(ServerViewDistance))
    BY DEF JoinStep, marks
<1>3. /\ Online' = Online \cup {p} /\ world'[p].at = at
      /\ \A r \in Online : world'[r] = world[r] /\ chunk_states'[r] = chunk_states[r]
    BY <1>1, <1>2, BeforeSound DEF Put, Online
<1>4. CASE q = p
    <2>1. NewClient(q)
        BY <1>2, <1>4 DEF ClientReady
    <2>2. ShowsRight(q)'
        BY <1>4, <2>1, WelcomeShows
    <2>3. QED
        BY <1>3, <1>4, <2>2 DEF ClientReady
<1>5. ASSUME q \in Online, ShowsRight(q), q \notin others PROVE ShowsRight(q)'
    <2>1. Gets(q, <<>>)
        BY <1>1, <1>2, <1>5, JoinGets
    <2>2. world'[q] = world[q] /\ chunk_states'[q] = chunk_states[q] /\ q \notin settled'
        BY <1>1, <1>2, <1>3, <1>5, InDimensionOnline DEF SettledHere
    <2>3. \A players : Peers(q, players) => Peers(q, players)'
        BY <1>3, <2>2 DEF Peers
    <2>4. QED
        BY <1>1, <1>2, <1>5, <2>1, <2>2, <2>3, BystanderShows
<1>6. ASSUME q \in Online, ShowsRight(q), q \in others PROVE ShowsRight(q)'
    <2>1. PICK s : s = <<PlayerJoinedEvent(p, at)>>
        OBVIOUS
    <2>2. Gets(q, s) /\ q # p
        BY <1>1, <1>2, <1>6, <2>1, JoinGets
    <2>3. PICK players : Peers(q, players) /\ Looks(Drained(q), d, cs.center, chunks, players, LivingIn(d))
        BY <1>6 DEF ShowsRight
    <2>4. PICK after : after = Spawned(players, p, at)
        OBVIOUS
    <2>5. Peers(q, after)'
        <3>1. /\ DOMAIN after = DOMAIN players \cup {p} /\ IsTable(after) /\ after[p] = at
              /\ \A r \in DOMAIN players : r # p => after[r] = players[r]
            BY <2>4 DEF Spawned, IsTable
        <3>2. DOMAIN after \subseteq Online' \ {q}
            BY <1>3, <2>2, <2>3, <3>1 DEF Peers
        <3>3. ASSUME q \in settled', NEW r \in (Online' \cap settled') \ {q}
              PROVE  r \in DOMAIN after /\ after[r] = world'[r].at
            <4>1. CASE r = p
                BY <1>3, <3>1, <4>1
            <4>2. CASE r # p
                <5>1. r \in DOMAIN players /\ players[r] = world[r].at
                    BY <1>2, <1>3, <2>3, <3>3, <4>2 DEF Peers
                <5>2. QED
                    BY <1>3, <3>1, <3>3, <4>2, <5>1
            <4>3. QED
                BY <4>1, <4>2
        <3>4. QED
            BY <3>1, <3>2, <3>3 DEF Peers
    <2>6. AllHandled(Polled(q), s).view = Shown(Drained(q), PlayerJoinedEvent(p, at))
        BY <2>1, OneShown DEF Drained
    <2>7. d = world'[q].dimension /\ cs = chunk_states'[q]
        BY <1>3, <1>6
    <2> HIDE DEF d, cs
    <2>8. Looks(Shown(Drained(q), PlayerJoinedEvent(p, at)), d, cs.center, chunks, after, LivingIn(d))
        <3> HIDE DEF chunks
        <3>1. QED
            BY <2>3, <2>4, LookJoined
    <2>9. Looks(AllHandled(Polled(q), s).view, d, cs.center,
                Actuals(overrides, d, cs.loaded_chunks), after, LivingIn(d))
        BY <2>6, <2>8
    <2>10. QED
        BY <1>1, <1>2, <2>2, <2>5, <2>7, <2>9, MovedShows
<1>7. q \notin Online /\ q # p => Gets(q, <<>>)
    BY <1>1, <1>2, JoinGets, InDimensionOnline
<1>8. CASE q # p
    <2>1. q \in Online' <=> q \in Online
        BY <1>3, <1>8
    <2>2. QED
        BY <1>1, <1>2, <1>5, <1>6, <1>7, <1>8, <2>1, IsReady
<1>9. QED
    BY <1>4, <1>8

LEMMA LeaveShows ==
    ASSUME ViewInv, NEW p, LeaveStep(p), NEW q, q \in running, ClientReady(q)
    PROVE  ClientReady(q)'
<1> DEFINE d == world[q].dimension
           cs == chunk_states[q]
           chunks == Actuals(overrides, d, cs.loaded_chunks)
<1>1. Tables /\ q \in Players
    BY DEF ViewInv, Tables
<1>2. /\ overrides' = overrides /\ mobs' = mobs /\ client' = client /\ settled' = settled
      /\ p \in Players /\ q # p
      /\ world' = Without(world, {p}) /\ chunk_states' = Without(chunk_states, {p})
    BY DEF LeaveStep
<1>3. /\ Online' = Online \ {p}
      /\ \A r \in Online : r # p => world'[r] = world[r] /\ chunk_states'[r] = chunk_states[r]
    BY <1>1, <1>2, BeforeSound DEF Without, Online
<1>4. ASSUME q \in Online, ShowsRight(q), p \notin Online PROVE ShowsRight(q)'
    <2>1. Gets(q, <<>>)
        BY <1>1, <1>4, LeaveGets
    <2>2. world'[q] = world[q] /\ chunk_states'[q] = chunk_states[q] /\ Online' = Online
        BY <1>2, <1>3, <1>4
    <2>3. \A players : Peers(q, players) => Peers(q, players)'
        BY <1>2, <1>3, <1>4, <2>2, PeersStay
    <2>4. QED
        BY <1>1, <1>2, <1>4, <2>1, <2>2, <2>3, BystanderShows
<1>5. ASSUME q \in Online, ShowsRight(q), p \in Online PROVE ShowsRight(q)'
    <2>1. PICK s, one : s = <<PlayerLeftEvent(p)>> /\ one = {p}
        OBVIOUS
    <2>2. Gets(q, s)
        BY <1>1, <1>5, <2>1, LeaveGets
    <2>3. PICK players : Peers(q, players) /\ Looks(Drained(q), d, cs.center, chunks, players, LivingIn(d))
        BY <1>5 DEF ShowsRight
    <2>4. PICK after : after = Without(players, one)
        OBVIOUS
    <2>5. Peers(q, after)'
        <3>1. /\ DOMAIN after = DOMAIN players \ {p} /\ IsTable(after)
              /\ \A r \in DOMAIN players : r # p => after[r] = players[r]
            BY <2>1, <2>4 DEF Without, IsTable
        <3>2. QED
            BY <1>2, <1>3, <2>3, <3>1 DEF Peers
    <2>6. AllHandled(Polled(q), s).view = Shown(Drained(q), PlayerLeftEvent(p))
        BY <2>1, OneShown DEF Drained
    <2>7. d = world'[q].dimension /\ cs = chunk_states'[q]
        BY <1>2, <1>3, <1>5
    <2>8. LivingIn(d) \ one = LivingIn(d)
        BY <1>1, <1>2, <2>1, ViewAssumption DEF Tables, LivingIn
    <2> HIDE DEF d, cs
    <2>9. Looks(Shown(Drained(q), PlayerLeftEvent(p)), d, cs.center, chunks, after, LivingIn(d))
        <3> HIDE DEF chunks
        <3>1. PICK ids : ids = LivingIn(d)
            OBVIOUS
        <3>2. Looks(Shown(Drained(q), PlayerLeftEvent(p)), d, cs.center,
                    chunks, Without(players, {p}), ids \ {p})
            BY <2>3, <3>1, LookLeft
        <3>3. QED
            BY <2>1, <2>4, <2>8, <3>1, <3>2
    <2>10. Looks(AllHandled(Polled(q), s).view, d, cs.center,
                 Actuals(overrides, d, cs.loaded_chunks), after, LivingIn(d))
        BY <2>6, <2>9
    <2>11. QED
        BY <1>1, <1>2, <2>2, <2>5, <2>7, <2>10, MovedShows
<1>6. q \notin Online => Gets(q, <<>>)
    BY <1>1, LeaveGets
<1>7. QED
    BY <1>1, <1>2, <1>3, <1>4, <1>5, <1>6, IsReady

LEMMA TickShows ==
    ASSUME ViewInv, SettledHere, TickStep, NEW q, q \in running, ClientReady(q)
    PROVE  ClientReady(q)'
<1>1. ASSUME NEW p, NEW at, JoinStep(p, at) PROVE ClientReady(q)'
    BY <1>1, JoinShows
<1>2. ASSUME LeaveStep(Head(messages).player) PROVE ClientReady(q)'
    BY <1>2, LeaveShows
<1>3. ASSUME NEW dim, NEW at, NEW state, SetBlockStep(dim, at, state) PROVE ClientReady(q)'
    BY <1>3, SetBlockShows
<1>4. ASSUME IdleStep PROVE ClientReady(q)'
    BY <1>4, IdleShows
<1>5. ASSUME NEW p, NEW cs, DistanceStep(p, cs) PROVE ClientReady(q)'
    BY <1>5, DistanceShows
<1>6. ASSUME NEW id, KillStep(id) PROVE ClientReady(q)'
    BY <1>6, KillShows
<1>7. ASSUME NEW p, NEW dest, TransferStep(p, dest) PROVE ClientReady(q)'
    BY <1>7, TransferShows
<1>8. ASSUME NEW p, RespawnStep(p) PROVE ClientReady(q)'
    BY <1>8, RespawnShows
<1>9. ASSUME NEW p, NEW raw, NEW new, StayStep(p, raw, new) PROVE ClientReady(q)'
    BY <1>9, StayShows
<1>10. ASSUME NEW p, NEW raw, NEW new, GoStep(p, raw, new) PROVE ClientReady(q)'
    BY <1>10, GoShows
<1>11. ASSUME NEW p, NEW raw, NEW new, NEW dest, PortalStep(p, raw, new, dest) PROVE ClientReady(q)'
    BY <1>11, PortalShows
<1>12. QED
    BY <1>1, <1>2, <1>3, <1>4, <1>5, <1>6, <1>7, <1>8, <1>9, <1>10, <1>11, Zenon DEF TickStep

\* Who is gone stays so, until the tick thread has been told and after.
LEMMA StaysGone ==
    ASSUME NEW q, ClientGone(q), events'[q] = events[q], client'[q] = client[q],
           Online \cup heard \subseteq Online' \cup heard',
           HasLeft(q) => HasLeft(q)' \/ q \in heard'
    PROVE  ClientGone(q)'
<1>1. PICK joined : joined = Joined
    OBVIOUS
<1>2. joined' = Joined'
    BY <1>1 DEF Joined, Terrain, Blocks
<1>3. QED
    BY <1>1, <1>2 DEF ClientGone

LEMMA ReceiveKeepsShown ==
    ASSUME ViewInv, ShownInv, Receive
    PROVE  ShownInv'
<1>1. /\ TickStep /\ ViewInv' /\ messages # <<>> /\ messages' = Tail(messages)
      /\ client' = client /\ running' = running
      /\ Head(messages).type = "PlayerLeft" => Head(messages).player \in heard'
    BY ReceiveSteps
<1>2. /\ Online \cup heard \subseteq Online' \cup heard' /\ SettledHere /\ SettledHere'
    BY <1>1, TickMarks DEF ShownInv
<1>3. ASSUME NEW q \in running PROVE ClientReady(q)'
    BY <1>1, <1>2, TickShows DEF ShownInv
<1>4. ASSUME NEW q \in Players \ running PROVE ClientGone(q)'
    <2>1. ClientGone(q) /\ events'[q] = events[q]
        BY <1>1, TickSilent DEF ShownInv
    <2>2. ASSUME HasLeft(q) PROVE HasLeft(q)' \/ q \in heard'
        <3>1. PICK i \in 1..Len(messages) : messages[i].player = q /\ messages[i].type = "PlayerLeft"
            BY <2>2 DEF HasLeft
        <3>2. /\ Len(messages) \in Nat /\ Len(messages') = Len(messages) - 1 /\ Head(messages) = messages[1]
              /\ \A j \in 1..Len(messages') : messages'[j] = messages[j + 1]
            BY <1>1, QueueTaken DEF ViewInv, MessagesSound
        <3>3. CASE i = 1
            BY <1>1, <3>1, <3>2, <3>3
        <3>4. CASE i # 1
            <4>1. i - 1 \in 1..Len(messages') /\ (i - 1) + 1 = i
                BY <3>1, <3>2, <3>4
            <4>2. messages'[i - 1] = messages[i]
                BY <3>2, <4>1
            <4>3. QED
                BY <3>1, <4>1, <4>2 DEF HasLeft
        <3>5. QED
            BY <3>3, <3>4
    <2>3. QED
        BY <1>1, <1>2, <2>1, <2>2, StaysGone
<1>5. QED
    BY <1>1, <1>2, <1>3, <1>4 DEF ShownInv

-----------------------------------------------------------------------------
(* The steps of the sessions, and of the clock *)

\* A client that shows the same, wherever it is.
LEMMA ReadyAlike ==
    ASSUME Tables, NEW q, q \in Players, ClientReady(q), ButForAt(client[q], client'[q]),
           events'[q] = events[q], UNCHANGED <<world, chunk_states, overrides, mobs, settled>>
    PROVE  ClientReady(q)'
<1>1. events[q] \in Seq(Event) /\ Online' = Online
    BY BeforeSound DEF Online
<1>2. PICK s, v, w : s \in Seq(Event) /\ s = events[q] /\ v = client[q] /\ w = client'[q]
    BY <1>1
<1>3. ASSUME q \in Online PROVE ShowsRight(q)'
    <2> DEFINE d == world[q].dimension
               center == chunk_states[q].center
               chunks == Actuals(overrides, d, chunk_states[q].loaded_chunks)
    <2>1. PICK players : Peers(q, players) /\ Looks(Drained(q), d, center, chunks, players, LivingIn(d))
        BY <1>3 DEF ClientReady, ShowsRight
    <2>2. Drained(q) = AllHandled(Showing(v), s).view /\ Drained(q)' = AllHandled(Showing(w), s).view
        BY <1>2 DEF Drained, Polled, AllHandled, Showing
    <2>3. ButForAt(AllHandled(Showing(v), s).view, AllHandled(Showing(w), s).view)
        BY <1>2, AllAnswered
    <2>4. PICK a, b : a = Drained(q) /\ b = Drained(q)' /\ ButForAt(a, b)
        BY <2>2, <2>3
    <2>5. PICK ids, e, c, cs : ids = LivingIn(d) /\ e = d /\ c = center /\ cs = chunks
        OBVIOUS
    <2>6. Looks(b, e, c, cs, players, ids)
        BY <2>1, <2>4, <2>5, LooksAlike
    <2>7. /\ e = world'[q].dimension /\ c = chunk_states'[q].center /\ ids = {m \in mobs' : MobHome[m] = e}
          /\ cs = Actuals(overrides', e, chunk_states'[q].loaded_chunks)
        BY <2>5 DEF LivingIn
    <2>8. Peers(q, players)'
        BY <1>1, <2>1 DEF Peers
    <2>9. QED
        BY <2>4, <2>6, <2>7, <2>8, Zenon DEF ShowsRight, LivingIn
<1>4. ASSUME q \notin Online PROVE NewClient(q)'
    <2>1. events[q] = <<>> /\ ButForAt(v, Joined)
        BY <1>2, <1>4 DEF ClientReady, NewClient
    <2>2. PICK j : j = Joined
        OBVIOUS
    <2>3. j' = Joined'
        BY <2>2 DEF Joined, Terrain, Blocks
    <2>4. ButForAt(w, j)
        <3>1. PICK t, dim, at, there, center, chunks, players, ids :
                /\ v = ViewOf(t, dim, at, center, chunks, players, ids)
                /\ j = ViewOf(t, dim, there, center, chunks, players, ids)
            BY <2>1, <2>2 DEF ButForAt
        <3>2. PICK t2, dim2, at2, there2, center2, chunks2, players2, ids2 :
                /\ v = ViewOf(t2, dim2, at2, center2, chunks2, players2, ids2)
                /\ w = ViewOf(t2, dim2, there2, center2, chunks2, players2, ids2)
            BY <1>2 DEF ButForAt
        <3>3. t2 = t /\ dim2 = dim /\ center2 = center /\ chunks2 = chunks /\ players2 = players /\ ids2 = ids
            <4>1. /\ v.session_dimension = t /\ v.dimension = dim /\ v.center = center
                  /\ v.chunks = chunks /\ v.players = players /\ v.mobs = ids
                BY <3>1, ViewFields
            <4>2. /\ v.session_dimension = t2 /\ v.dimension = dim2 /\ v.center = center2
                  /\ v.chunks = chunks2 /\ v.players = players2 /\ v.mobs = ids2
                BY <3>2, ViewFields
            <4>3. QED
                BY <4>1, <4>2
        <3>4. QED
            BY <3>1, <3>2, <3>3 DEF ButForAt
    <2>5. QED
        BY <1>2, <2>1, <2>3, <2>4 DEF NewClient
<1>5. QED
    BY <1>1, <1>3, <1>4 DEF ClientReady

LEMMA StillLeft ==
    ASSUME MessagesSound, NEW m, messages' = Append(messages, m), NEW q, HasLeft(q)
    PROVE  HasLeft(q)'
<1>1. /\ Len(messages) \in Nat /\ Len(messages') = Len(messages) + 1
      /\ \A i \in 1..Len(messages) : messages'[i] = messages[i]
    BY QueueAppended DEF MessagesSound
<1>2. QED
    BY <1>1 DEF HasLeft

\* What a step of a session or of the clock keeps of the tick thread's tables.
LEMMA SettledStill ==
    ASSUME SettledHere, UNCHANGED <<world, settled, heard>>
    PROVE  SettledHere' /\ Online \cup heard \subseteq Online' \cup heard'
BY DEF SettledHere, Online

LEMMA TellKeepsShown ==
    ASSUME ViewInv, PlacesInv, ShownInv, NEW p, NEW m, TellStep(p, m)
    PROVE  ShownInv'
<1>1. /\ p \in running /\ messages' = Append(messages, m)
      /\ UNCHANGED <<events, running, world, chunk_states, overrides, mobs, settled, heard>>
    BY DEF TellStep, tick
<1>2. MessagesSound /\ Tables /\ ClientTable /\ running \subseteq Players
    BY DEF ViewInv, Tables, PlacesInv
<1>3. SettledHere' /\ Online \cup heard \subseteq Online' \cup heard'
    BY <1>1, SettledStill DEF ShownInv
<1>4. ASSUME NEW q \in Players
      PROVE  ButForAt(client[q], client'[q]) /\ (q # p => client'[q] = client[q])
    <2>1. IsView(client[q])
        BY <1>2 DEF ClientTable
    <2>2. ButForAt(client[q], client[q])
        BY <2>1, Itself
    <2>3. CASE client' = client
        BY <2>2, <2>3
    <2>4. CASE client' = [client EXCEPT ![p].at = m.value]
        <3>1. q # p => client'[q] = client[q]
            BY <1>2, <2>4 DEF ClientTable
        <3>2. CASE q # p
            BY <2>2, <3>1, <3>2
        <3>3. CASE q = p
            <4>1. PICK v, w, new : v = client[q] /\ w = client'[q] /\ new = m.value
                OBVIOUS
            <4>2. w = [v EXCEPT !.at = new]
                BY <1>2, <2>4, <3>3, <4>1 DEF ClientTable
            <4>3. v = ViewOf(v.session_dimension, v.dimension, v.at, v.center, v.chunks, v.players, v.mobs)
                BY <2>1, <4>1 DEF IsView
            <4>4. w = ViewOf(v.session_dimension, v.dimension, new, v.center, v.chunks, v.players, v.mobs)
                BY <4>2, <4>3, ViewElsewhere
            <4>5. ButForAt(v, w)
                BY <4>3, <4>4, Alike
            <4>6. QED
                BY <3>3, <4>1, <4>5
        <3>4. QED
            BY <3>2, <3>3
    <2>5. QED
        BY <2>3, <2>4 DEF TellStep
<1>5. ASSUME NEW q \in running PROVE ClientReady(q)'
    BY <1>1, <1>2, <1>4, ReadyAlike DEF ShownInv
<1>6. ASSUME NEW q \in Players \ running PROVE ClientGone(q)'
    <2>1. ClientGone(q) /\ client'[q] = client[q] /\ events'[q] = events[q]
        BY <1>1, <1>4 DEF ShownInv
    <2>2. HasLeft(q) => HasLeft(q)'
        BY <1>1, <1>2, StillLeft
    <2>3. QED
        BY <1>3, <2>1, <2>2, StaysGone
<1>7. QED
    BY <1>1, <1>3, <1>5, <1>6 DEF ShownInv

LEMMA ConnectKeepsShown ==
    ASSUME ViewInv, PlacesInv, ShownInv, NEW p \in Players, Connect(p)
    PROVE  ShownInv'
<1> DEFINE m == Message(p, "PlayerJoined", "join")
<1>1. /\ messages' = Append(messages, m) /\ running' = running \cup {p}
      /\ p \notin running \cup Online /\ p \notin heard
      /\ \A i \in DOMAIN messages : messages[i].player # p
      /\ UNCHANGED <<client, events, world, chunk_states, overrides, mobs, settled, heard>>
    BY DEF Connect, Send, tick
<1> HIDE DEF m
<1>2. MessagesSound /\ Tables /\ running \subseteq Players /\ DOMAIN messages = 1..Len(messages)
    BY LenProperties DEF ViewInv, MessagesSound, IsQueue, Tables
<1>3. SettledHere' /\ Online \cup heard \subseteq Online' \cup heard'
    BY <1>1, SettledStill DEF ShownInv
<1>4. ASSUME NEW q \in Players PROVE ButForAt(client[q], client'[q])
    BY <1>1, Itself DEF PlacesInv, ClientTable
<1>5. ASSUME NEW q \in running PROVE ClientReady(q)'
    BY <1>1, <1>2, <1>4, ReadyAlike DEF ShownInv
<1>6. ClientReady(p)'
    <2>1. ~HasLeft(p)
        BY <1>1, <1>2 DEF HasLeft
    <2>2. events[p] = <<>> /\ client[p] = Joined
        BY <1>1, <2>1 DEF ShownInv, ClientGone
    <2>3. PICK j : j = Joined
        OBVIOUS
    <2>4. j' = Joined'
        BY <2>3 DEF Joined, Terrain, Blocks
    <2>5. ButForAt(client'[p], j)
        BY <1>1, <1>4, <2>2, <2>3
    <2>6. NewClient(p)'
        BY <1>1, <2>2, <2>4, <2>5 DEF NewClient
    <2>7. p \notin Online'
        BY <1>1 DEF Online
    <2>8. QED
        BY <2>6, <2>7 DEF ClientReady
<1>7. ASSUME NEW q \in Players \ running' PROVE ClientGone(q)'
    <2>1. ClientGone(q)
        BY <1>1 DEF ShownInv
    <2>2. HasLeft(q) => HasLeft(q)'
        BY <1>1, <1>2, StillLeft
    <2>3. QED
        BY <1>1, <1>3, <2>1, <2>2, StaysGone
<1>8. QED
    BY <1>1, <1>3, <1>5, <1>6, <1>7 DEF ShownInv

LEMMA DisconnectKeepsShown ==
    ASSUME ViewInv, PlacesInv, ShownInv, NEW p \in Players, Disconnect(p)
    PROVE  ShownInv'
<1> DEFINE m == Message(p, "PlayerLeft", "left")
<1>1. /\ messages' = Append(messages, m) /\ running' = running \ {p}
      /\ events' = [events EXCEPT ![p] = <<>>]
      /\ UNCHANGED <<client, world, chunk_states, overrides, mobs, settled, heard>>
    BY DEF Disconnect
<1>2. m.player = p /\ m.type = "PlayerLeft"
    BY DEF Message
<1> HIDE DEF m
<1>3. MessagesSound /\ Tables /\ running \subseteq Players /\ DOMAIN events = Players
    BY BeforeSound DEF ViewInv, Tables
<1>4. SettledHere' /\ Online \cup heard \subseteq Online' \cup heard'
    BY <1>1, SettledStill DEF ShownInv
<1>5. ASSUME NEW q \in running' PROVE ClientReady(q)'
    <2>1. q \in running /\ q \in Players /\ events'[q] = events[q]
        BY <1>1, <1>3
    <2>2. ButForAt(client[q], client'[q])
        BY <1>1, <2>1, Itself DEF PlacesInv, ClientTable
    <2>3. QED
        BY <1>1, <1>3, <2>1, <2>2, ReadyAlike DEF ShownInv
<1>6. ClientGone(p)'
    <2>1. /\ Len(messages) \in Nat /\ Len(messages') = Len(messages) + 1
          /\ messages'[Len(messages) + 1] = m
        BY <1>1, <1>3, QueueAppended DEF MessagesSound
    <2>2. HasLeft(p)'
        BY <1>2, <2>1 DEF HasLeft
    <2>3. QED
        BY <1>1, <1>3, <2>2 DEF ClientGone
<1>7. ASSUME NEW q \in Players \ running', q # p PROVE ClientGone(q)'
    <2>1. ClientGone(q) /\ events'[q] = events[q]
        BY <1>1, <1>3, <1>7 DEF ShownInv
    <2>2. HasLeft(q) => HasLeft(q)'
        BY <1>1, <1>3, StillLeft
    <2>3. QED
        BY <1>1, <1>4, <2>1, <2>2, StaysGone
<1>8. QED
    BY <1>1, <1>4, <1>5, <1>6, <1>7 DEF ShownInv

LEMMA PollKeepsShown ==
    ASSUME ViewInv, PlacesInv, ShownInv, NEW p \in Players, PollEvents(p)
    PROVE  ShownInv'
<1>1. /\ p \in running /\ events[p] # <<>>
      /\ client' = [client EXCEPT ![p] = Drained(p)] /\ events' = [events EXCEPT ![p] = <<>>]
      /\ UNCHANGED <<running, world, chunk_states, overrides, mobs, settled, heard>>
    BY DEF PollEvents, marks
<1>2. /\ MessagesSound /\ Tables /\ ClientTable /\ running \subseteq Players
      /\ events \in [Players -> Seq(Event)] /\ Online' = Online
    BY <1>1, BeforeSound DEF ViewInv, Tables, PlacesInv, Online
<1>3. SettledHere' /\ Online \cup heard \subseteq Online' \cup heard'
    BY <1>1, SettledStill DEF ShownInv
<1>4. /\ events'[p] = <<>> /\ client'[p] = Drained(p)
      /\ \A q \in Players : q # p => events'[q] = events[q] /\ client'[q] = client[q]
    BY <1>1, <1>2 DEF ClientTable
<1>5. ASSUME NEW q \in running, q # p PROVE ClientReady(q)'
    <2>1. ButForAt(client[q], client'[q])
        BY <1>2, <1>4, <1>5, Itself DEF ClientTable
    <2>2. QED
        BY <1>1, <1>2, <1>4, <1>5, <2>1, ReadyAlike DEF ShownInv
<1>6. ClientReady(p)'
    <2>1. p \in Online /\ ShowsRight(p)
        BY <1>1 DEF ShownInv, ClientReady, NewClient
    <2>2. Drained(p)' = Drained(p)
        <3>1. Polled(p)' = AllHandled(Showing(client'[p]), <<>>)
            BY <1>4 DEF Polled, AllHandled, Showing
        <3>2. Polled(p)' = Showing(Drained(p))
            BY <1>4, <3>1, NothingHandled
        <3>3. QED
            BY <3>2 DEF Drained, Showing
    <2> DEFINE d == world[p].dimension
               center == chunk_states[p].center
               chunks == Actuals(overrides, d, chunk_states[p].loaded_chunks)
    <2>3. PICK players : Peers(p, players) /\ Looks(Drained(p), d, center, chunks, players, LivingIn(d))
        BY <2>1 DEF ShowsRight
    <2>4. PICK ids, e, c, cs : ids = LivingIn(d) /\ e = d /\ c = center /\ cs = chunks
        OBVIOUS
    <2>5. Looks(Drained(p)', e, c, cs, players, ids)
        BY <2>2, <2>3, <2>4
    <2>6. /\ e = world'[p].dimension /\ c = chunk_states'[p].center /\ ids = {x \in mobs' : MobHome[x] = e}
          /\ cs = Actuals(overrides', e, chunk_states'[p].loaded_chunks)
        BY <1>1, <2>4 DEF LivingIn
    <2>7. Peers(p, players)'
        BY <1>1, <1>2, <2>3 DEF Peers
    <2>8. ShowsRight(p)'
        BY <2>5, <2>6, <2>7, Zenon DEF ShowsRight, LivingIn
    <2>9. QED
        BY <1>2, <2>1, <2>8 DEF ClientReady
<1>7. ASSUME NEW q \in Players \ running PROVE ClientGone(q)'
    <2>1. ClientGone(q) /\ events'[q] = events[q] /\ client'[q] = client[q]
        BY <1>1, <1>4 DEF ShownInv
    <2>2. HasLeft(q) => HasLeft(q)'
        <3>1. /\ Len(messages) \in Nat /\ Len(Polled(p).answers) \in Nat
              /\ Len(messages') = Len(messages) + Len(Polled(p).answers)
              /\ \A i \in 1..Len(messages) : messages'[i] = messages[i]
            BY <1>2, AnswersQueued
        <3>2. \A i \in 1..Len(messages) : i \in 1..Len(messages')
            BY <3>1
        <3>3. QED
            BY <3>1, <3>2 DEF HasLeft
    <2>3. QED
        BY <1>3, <2>1, <2>2, StaysGone
<1>8. QED
    BY <1>1, <1>3, <1>5, <1>6, <1>7 DEF ShownInv

LEMMA QuietKeepsShown ==
    ASSUME ViewInv, PlacesInv, ShownInv, \/ \E p \in Players : Death(p)
                                         \/ Cooldown
                                         \/ UNCHANGED vars
    PROVE  ShownInv'
<1>1. UNCHANGED <<messages, running, client, events, world, chunk_states, overrides, mobs, settled, heard>>
    <2>1. CASE \E p \in Players : Death(p)
        BY <2>1 DEF Death, tick
    <2>2. CASE Cooldown
        BY <2>2 DEF Cooldown, marks
    <2>3. CASE UNCHANGED vars
        BY <2>3 DEF vars, tick, marks
    <2>4. QED
        BY <2>1, <2>2, <2>3
<1>2. Tables /\ running \subseteq Players
    BY DEF ViewInv, Tables
<1>3. SettledHere' /\ Online \cup heard \subseteq Online' \cup heard'
    BY <1>1, SettledStill DEF ShownInv
<1>4. ASSUME NEW q \in running PROVE ClientReady(q)'
    <2>1. ButForAt(client[q], client'[q])
        BY <1>1, <1>2, Itself DEF PlacesInv, ClientTable
    <2>2. QED
        BY <1>1, <1>2, <2>1, ReadyAlike DEF ShownInv
<1>5. ASSUME NEW q \in Players \ running PROVE ClientGone(q)'
    <2>1. HasLeft(q) => HasLeft(q)'
        BY <1>1 DEF HasLeft
    <2>2. QED
        BY <1>1, <1>3, <2>1, StaysGone DEF ShownInv
<1>6. QED
    BY <1>1, <1>3, <1>4, <1>5 DEF ShownInv

-----------------------------------------------------------------------------
(* The invariant, and what it says of every client *)

LEMMA ShownInit == Init => ShownInv
<1>1. SUFFICES ASSUME Init PROVE ShownInv
    OBVIOUS
<1>2. /\ world = <<>> /\ events = [p \in Players |-> <<>>] /\ client = [p \in Players |-> Joined]
      /\ running = {}
    BY <1>1, Zenon DEF Init
<1>3. SettledHere
    <2>1. Online = {}
        BY <1>2 DEF Online
    <2>2. QED
        BY <2>1 DEF SettledHere
<1>4. \A q \in Players : ClientGone(q)
    BY <1>2 DEF ClientGone
<1>5. QED
    BY <1>2, <1>3, <1>4 DEF ShownInv

LEMMA ShownNext == ViewInv /\ PlacesInv /\ ShownInv /\ [Next]_vars => ShownInv'
<1> SUFFICES ASSUME ViewInv, PlacesInv, ShownInv, [Next]_vars PROVE ShownInv'
    OBVIOUS
<1>1. CASE Receive
    BY <1>1, ReceiveKeepsShown
<1>2. CASE Cooldown
    BY <1>2, QuietKeepsShown
<1>3. ASSUME NEW p \in Players, Connect(p) PROVE ShownInv'
    BY <1>3, ConnectKeepsShown
<1>4. ASSUME NEW p \in Players, Tells(p) PROVE ShownInv'
    BY <1>4, ClientTells, TellKeepsShown
<1>5. ASSUME NEW p \in Players, Disconnect(p) PROVE ShownInv'
    BY <1>5, DisconnectKeepsShown
<1>6. ASSUME NEW p \in Players, PollEvents(p) PROVE ShownInv'
    BY <1>6, PollKeepsShown
<1>7. ASSUME NEW p \in Players, Death(p) PROVE ShownInv'
    BY <1>7, QuietKeepsShown
<1>8. CASE UNCHANGED vars
    BY <1>8, QuietKeepsShown
<1>9. QED
    BY <1>1, <1>2, <1>3, <1>4, <1>5, <1>6, <1>7, <1>8 DEF Next, Tells

\* Of every session that runs and has been joined, the events that wait make its client
\* show what the tick thread has of the world: the joins, moves, transfers, respawns,
\* blocks and deaths of anybody, whatever has been sent before and not been polled.
THEOREM ShownInvariant == Spec => []ShownInv
<1>1. ViewInv /\ PlacesInv /\ ShownInv /\ [Next]_vars => ShownInv'
    BY ShownNext
<1>2. QED
    BY <1>1, ShownInit, ViewInvariant, PlacesInvariant, PTL DEF Spec

LEMMA PlayingShown ==
    ASSUME ShownInv, NEW p, p \in Playing
    PROVE  LET v == Drained(p)
               d == world[p].dimension
           IN /\ v.dimension = d /\ v.center = chunk_states[p].center
              /\ v.chunks = Actuals(overrides, d, chunk_states[p].loaded_chunks)
              /\ v.mobs = LivingIn(d) /\ Peers(p, v.players)
<1> DEFINE v == Drained(p)
           d == world[p].dimension
           center == chunk_states[p].center
           chunks == Actuals(overrides, d, chunk_states[p].loaded_chunks)
<1>1. ShowsRight(p)
    BY DEF Playing, ShownInv, ClientReady
<1>2. PICK players : Peers(p, players) /\ Looks(v, d, center, chunks, players, LivingIn(d))
    BY <1>1 DEF ShowsRight
<1> HIDE DEF v, d, center, chunks
<1>3. /\ v.dimension = d /\ v.center = center /\ v.chunks = chunks
      /\ v.players = players /\ v.mobs = LivingIn(d)
    BY <1>2, LooksView
<1>4. QED
    BY <1>2, <1>3 DEF v, d, center, chunks

\* Once it has polled what waits, a client has exactly the chunks the server believes
\* it has, around the same centre, and their terrain is that of the dimension the
\* player is in: no window that moves, shrinks or is sent anew after a transfer leaves
\* a hole, a chunk too many or the terrain of another dimension.
THEOREM WindowAlwaysShown == Spec => []WindowShown
<1>1. ShownInv => WindowShown
    <2>1. SUFFICES ASSUME ShownInv, NEW p \in Playing
                   PROVE  LET v == Drained(p)
                          IN /\ DOMAIN v.chunks = chunk_states[p].loaded_chunks
                             /\ v.center = chunk_states[p].center
                             /\ v.dimension = world[p].dimension
                             /\ \A c \in DOMAIN v.chunks : v.chunks[c].dimension = world[p].dimension
        BY Zenon DEF WindowShown
    <2> DEFINE v == Drained(p)
    <2>2. /\ v.dimension = world[p].dimension /\ v.center = chunk_states[p].center
          /\ v.chunks = Actuals(overrides, world[p].dimension, chunk_states[p].loaded_chunks)
        BY <2>1, PlayingShown
    <2> HIDE DEF v
    <2>3. QED
        BY <2>2 DEF Actuals, Actual, v
<1>2. QED
    BY <1>1, ShownInvariant, PTL

\* Every block of those chunks is shown as the world has it: what was built before the
\* chunk was sent comes with it, what is built afterwards is told, and a chunk that is
\* loaded again is not shown as it was left.
THEOREM BlocksAlwaysShown == Spec => []BlocksShown
<1>1. ShownInv => BlocksShown
    <2>1. SUFFICES ASSUME ShownInv, NEW p \in Playing,
                          NEW c \in DOMAIN Drained(p).chunks, NEW b \in DOMAIN Drained(p).chunks[c].blocks
                   PROVE  Drained(p).chunks[c].blocks[b] = get_block(overrides, world[p].dimension, b)
        BY Zenon DEF BlocksShown
    <2>2. Drained(p).chunks = Actuals(overrides, world[p].dimension, chunk_states[p].loaded_chunks)
        BY <2>1, PlayingShown
    <2>3. QED
        BY <2>1, <2>2 DEF Actuals, Actual
<1>2. QED
    BY <1>1, ShownInvariant, PTL

\* A client shows the living mobs of its dimension, nobody who has left, and of the
\* players who have neither died nor changed dimension all, where they are: the moves
\* it is told of, as differences or as positions, add up to where the server has them.
THEOREM EntitiesAlwaysShown == Spec => []EntitiesShown
<1>1. ShownInv => EntitiesShown
    <2>1. SUFFICES ASSUME ShownInv, NEW p \in Playing
                   PROVE  LET v == Drained(p)
                          IN /\ v.mobs = {m \in mobs : MobHome[m] = world[p].dimension}
                             /\ DOMAIN v.players \subseteq Online \ {p}
                             /\ p \in settled => \A q \in (Online \cap settled) \ {p} :
                                  q \in DOMAIN v.players /\ v.players[q] = world[q].at
        BY Zenon DEF EntitiesShown
    <2> DEFINE v == Drained(p)
    <2>2. v.mobs = LivingIn(world[p].dimension) /\ Peers(p, v.players)
        BY <2>1, PlayingShown
    <2> HIDE DEF v
    <2>3. QED
        BY <2>2 DEF Peers, LivingIn, v
<1>2. QED
    BY <1>1, ShownInvariant, PTL

=============================================================================
