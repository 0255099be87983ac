----------------------------- MODULE ClientView -----------------------------
(***************************************************************************)
(* What the clients are shown of the world: the chunks around them with    *)
(* their blocks, the other players, the mobs, and where they stand.        *)
(*                                                                         *)
(* The tick thread keeps the world and, for each player, what it believes  *)
(* the client has loaded; everything reaches the client as events on the   *)
(* channel of its session, which poll_events turns into packets, all that  *)
(* are there in one go.  The client's packets reach the tick thread        *)
(* through one channel.  The messages between client and session are       *)
(* handled where they are sent: a delay there is a delay in the channel.   *)
(* What the client does with a packet is that of the game, external.       *)
(***************************************************************************)
EXTENDS Garden, Sequences, SequencesExt

CONSTANTS
    Players,             \* entity ids of sessions
    InitialRadius,       \* INITIAL_CHUNK_RADIUS, and the 2 of the join: 2
    ServerViewDistance,  \* of the configuration
    ViewDistances,       \* what a client may ask for
    Places,              \* where a client may want to go
    SavedPlaces,         \* where a saved player may have been
    Changes,             \* blocks set by players and mods: <<column, state>>
    MobHome,             \* the mobs, with the dimension each lives in
    MaxDelta,            \* the longest relative move: 7.999 blocks
    PortalCooldownTicks,
    MaxMessages,         \* bound: messages under way to the tick thread
    MaxEvents,           \* bound: events waiting when the tick thread goes on
    MaxActs              \* bound: what the clients do, and deaths

ASSUME ViewAssumption ==
    /\ {InitialRadius, MaxDelta, PortalCooldownTicks} \subseteq Nat
    /\ {MaxMessages, MaxEvents, MaxActs} \subseteq Nat
    /\ ServerViewDistance \in Int /\ ViewDistances \subseteq Int
    /\ InitialRadius <= GardenRadius
    /\ \A m \in DOMAIN MobHome : MobHome[m] \in DimensionId
    /\ Places \cup SavedPlaces \subseteq Int \X Int
    /\ Changes \subseteq (Int \X Int) \X BlockState
    /\ IsFiniteSet(Players) /\ Players \cap DOMAIN MobHome = {}

VARIABLES
    world,            \* of those online: position and dimension
    chunk_states,     \* of those online: PlayerChunkState
    portal_cooldowns,
    is_dead,
    overrides,        \* overrides_by_dim
    mobs,             \* those alive
    messages,         \* to the tick thread
    events,           \* of each session
    client,           \* of each session: what its client shows
    running,          \* sessions whose thread runs
    heard,            \* players that have been moved since their join
    settled,          \* players that have never respawned or changed dimension
    acts              \* a count, for the bound

tick == <<world, chunk_states, portal_cooldowns, events>>
marks == <<heard, settled, acts>>
vars == <<tick, is_dead, overrides, mobs, messages, client, running, marks>>

Online == DOMAIN world
Columns == {c[1] : c \in Changes} \cup UNION {DOMAIN Pack[d] : d \in DimensionId}

-----------------------------------------------------------------------------
(***************************************************************************)
(* PlayerChunkState.                                                       *)
(***************************************************************************)
Within(n, low, high) == IF n < low THEN low ELSE IF n > high THEN high ELSE n

desired_chunk_set(cs) ==
    {c \in desired_chunks(cs.center, cs.view_distance) : contains_chunk(c)}

PlayerChunkState(server_view_distance) ==
    LET clamped == Within(server_view_distance, 0, InitialRadius)
    IN [center |-> <<0, 0>>,
        view_distance |-> Within(clamped, 0, GardenRadius),
        loaded_chunks |-> {c \in desired_chunks(<<0, 0>>, Within(InitialRadius, 0, GardenRadius)) :
                              contains_chunk(c)}]

Reloaded(cs) == [cs EXCEPT !.loaded_chunks = desired_chunk_set(cs)]

\* Mutant: the window of before is kept.
KeepWindow(cs, center) == [cs EXCEPT !.center = center]

\* The window stays as it is, even where it is not the desired one, while
\* the centre does.
update_center(cs, center) ==
    IF cs.center = center THEN cs ELSE Reloaded([cs EXCEPT !.center = center])

\* Mutant: as large as the client likes.
AnyViewDistance(cs, n) ==
    IF cs.view_distance = n THEN cs ELSE Reloaded([cs EXCEPT !.view_distance = n])

\* The garden is the limit, not the distance of the configuration.
update_view_distance(cs, n) ==
    LET new == Within(n, 0, GardenRadius)
    IN IF cs.view_distance = new THEN cs ELSE Reloaded([cs EXCEPT !.view_distance = new])

-----------------------------------------------------------------------------
(***************************************************************************)
(* The events of a session.  Those for several chunks or mobs at once      *)
(* stand for one each, in any order: the code takes them from a set.       *)
(***************************************************************************)
LoadChunk(chunks)      == [type |-> "LoadChunk", chunks |-> chunks]
UnloadChunk(chunks)    == [type |-> "UnloadChunk", chunks |-> chunks]
ChunkBlockOverrides(d) == [type |-> "ChunkBlockOverrides", deltas |-> d]
BlockUpdate(at, state) == [type |-> "ChunkBlockOverrides", deltas |-> [c \in {at} |-> state]]
SetCenterChunk(center) == [type |-> "SetCenterChunk", center |-> center]
PlayerJoinedEvent(p, at) == [type |-> "PlayerJoined", player |-> p, at |-> at]
PlayerLeftEvent(p)     == [type |-> "PlayerLeft", player |-> p]
EntityMovement(p, old, new) == [type |-> "EntityMovement", player |-> p, old |-> old, new |-> new]
SpawnMob(ids)          == [type |-> "SpawnMob", ids |-> ids]
RemoveEntities(ids)    == [type |-> "RemoveEntities", ids |-> ids]
SynchronizePosition(at) == [type |-> "SynchronizePosition", at |-> at]
RespawnPlayer(dim, at, defer) ==
    [type |-> "RespawnPlayer", dimension |-> dim, at |-> at, defer_position_sync |-> defer]

If(condition, sequence) == IF condition THEN sequence ELSE <<>>

\* Mutant: the terrain without what has been built on it.
SendBareChunk(o, dim, chunks) == If(chunks # {}, <<LoadChunk(chunks)>>)

send_chunk_to_session(o, dim, chunks) ==
    LET deltas == get_client_block_deltas(o, dim, chunks)
    IN If(chunks # {}, <<LoadChunk(chunks)>> \o If(deltas # <<>>, <<ChunkBlockOverrides(deltas)>>))

Unload(chunks) == If(chunks # {}, <<UnloadChunk(chunks)>>)

SyncMobs(dim) ==
    If(mobs # {}, <<RemoveEntities(mobs)>>)
        \o <<SpawnMob({m \in mobs : MobHome[m] = dim})>>

-----------------------------------------------------------------------------
(***************************************************************************)
(* What a client shows.  session_dimension is PlayerSession::dimension, by *)
(* which the chunks are generated.                                         *)
(***************************************************************************)
Blocks(c) == {b \in Columns : chunk_from_world(b) = c}
Terrain(dim, c) == [dimension |-> dim, blocks |-> [b \in Blocks(c) |-> "flat"]]

\* send_join_game, send_join_sequence, send_initial_chunks and
\* send_synchronize_position
Joined ==
    [session_dimension |-> "Overworld", dimension |-> "Overworld", at |-> Spawn, center |-> <<0, 0>>,
     chunks |-> [c \in desired_chunks(<<0, 0>>, InitialRadius) |-> Terrain("Overworld", c)],
     players |-> <<>>, mobs |-> {}]

Without(f, S) == [x \in DOMAIN f \ S |-> f[x]]

send_single_chunk(v, chunks) ==
    [v EXCEPT !.chunks = [c \in DOMAIN @ \cup chunks |->
                            IF c \in chunks THEN Terrain(v.session_dimension, c) ELSE @[c]]]

\* A client ignores blocks of chunks it does not have.
Rebuilt(chunk, deltas) ==
    [chunk EXCEPT !.blocks = [b \in DOMAIN @ |-> IF b \in DOMAIN deltas THEN deltas[b] ELSE @[b]]]

send_block_update(v, deltas) == [v EXCEPT !.chunks = [c \in DOMAIN @ |-> Rebuilt(@[c], deltas)]]

send_spawn_player(v, p, at) ==
    [v EXCEPT !.players = [q \in DOMAIN @ \cup {p} |-> IF q = p THEN at ELSE @[q]]]

send_remove_entities(v, ids) ==
    [v EXCEPT !.players = Without(@, ids), !.mobs = @ \ ids]

Delta(old, new) == <<new[1] - old[1], new[2] - old[2]>>
Abs(n) == IF n < 0 THEN -n ELSE n

\* A short move is told as a difference, a long one as the new position; of
\* an entity it does not have the client ignores both.
send_entity_movement(v, p, old, new) ==
    LET d == Delta(old, new)
        far == Abs(d[1]) > MaxDelta \/ Abs(d[2]) > MaxDelta
    IN IF p \notin DOMAIN v.players THEN v
       ELSE [v EXCEPT !.players[p] = IF far THEN new ELSE <<@[1] + d[1], @[2] + d[2]>>]

\* With another dimension the client begins anew; a respawn in the same one
\* keeps what it shows.
send_respawn(v, dim) ==
    IF dim = v.dimension THEN [v EXCEPT !.session_dimension = dim]
    ELSE [v EXCEPT !.session_dimension = dim, !.dimension = dim,
                   !.chunks = <<>>, !.players = <<>>, !.mobs = {}]

Shown(v, e) ==
    CASE e.type = "LoadChunk"           -> send_single_chunk(v, e.chunks)
      [] e.type = "UnloadChunk"         -> [v EXCEPT !.chunks = Without(@, e.chunks)]
      [] e.type = "ChunkBlockOverrides" -> send_block_update(v, e.deltas)
      [] e.type = "SetCenterChunk"      -> [v EXCEPT !.center = e.center]
      [] e.type = "PlayerJoined"        -> send_spawn_player(v, e.player, e.at)
      [] e.type = "PlayerLeft"          -> send_remove_entities(v, {e.player})
      [] e.type = "EntityMovement"      -> send_entity_movement(v, e.player, e.old, e.new)
      [] e.type = "SpawnMob"            -> [v EXCEPT !.mobs = @ \cup e.ids]
      [] e.type = "RemoveEntities"      -> send_remove_entities(v, e.ids)
      [] e.type = "SynchronizePosition" -> [v EXCEPT !.at = e.at]
      [] e.type = "RespawnPlayer"       ->
           [send_respawn(v, e.dimension) EXCEPT !.at = IF e.defer_position_sync THEN @ ELSE e.at]

Synchronizes(e) ==
    \/ e.type = "SynchronizePosition"
    \/ e.type = "RespawnPlayer" /\ ~e.defer_position_sync

\* One event after the other; each new position is answered with it.
Handled(h, e) ==
    [view |-> Shown(h.view, e),
     answers |-> IF Synchronizes(e) THEN Append(h.answers, e.at) ELSE h.answers]

Polled(p) == FoldLeft(Handled, [view |-> client[p], answers |-> <<>>], events[p])

\* What the client of p shows once it has been sent all that is waiting.
Drained(p) == Polled(p).view

-----------------------------------------------------------------------------
Init ==
    /\ world = <<>> /\ chunk_states = <<>> /\ portal_cooldowns = <<>>
    /\ is_dead = {}
    /\ overrides = [d \in DimensionId |-> <<>>]
    /\ mobs = DOMAIN MobHome
    /\ messages = <<>>
    /\ events = [p \in Players |-> <<>>]
    /\ client = [p \in Players |-> Joined]
    /\ running = {}
    /\ heard = {} /\ settled = Players /\ acts = 0

Message(p, type, value) == [player |-> p, type |-> type, value |-> value]
PositionUpdate(p, at) == Message(p, "PlayerPositionUpdate", at)
Room == Len(messages) < MaxMessages

-----------------------------------------------------------------------------
(***************************************************************************)
(* The sessions and their clients.                                         *)
(***************************************************************************)
Send(m) ==
    /\ Room
    /\ messages' = Append(messages, m)
    /\ UNCHANGED <<tick, is_dead, overrides, mobs, heard, settled>>

Act == acts < MaxActs /\ acts' = acts + 1

\* A session is begun once.  It polls only after the join sequence.
Connect(p) ==
    /\ p \notin running \cup Online
    /\ p \in settled /\ p \notin heard
    /\ \A i \in DOMAIN messages : messages[i].player # p
    /\ Send(Message(p, "PlayerJoined", "join"))
    /\ Act
    /\ running' = running \cup {p}
    /\ UNCHANGED client

ClientMoves(p) ==
    /\ Act
    /\ p \in running
    /\ UNCHANGED running
    /\ \E at \in Places :
         /\ Send(PositionUpdate(p, at))
         /\ client' = [client EXCEPT ![p].at = at]

ClientInformation(p) ==
    /\ Act
    /\ p \in running
    /\ UNCHANGED running
    /\ \E n \in ViewDistances : Send(Message(p, "SetClientViewDistance", n))
    /\ UNCHANGED client

ClientSetsBlock(p) ==
    /\ Act
    /\ p \in running
    /\ UNCHANGED running
    /\ \E c \in Changes : Send(Message(p, "SetBlock", c))
    /\ UNCHANGED client

ClientTypes(p) ==
    /\ Act
    /\ p \in running
    /\ UNCHANGED running
    /\ \E d \in DimensionId : Send(Message(p, "ChatMessage", d))
    /\ UNCHANGED client

ClientRespawns(p) ==
    /\ Act
    /\ p \in running
    /\ UNCHANGED running
    /\ p \in is_dead
    /\ Send(Message(p, "ClientStatus", 0))
    /\ UNCHANGED client

ClientAttacks(p) ==
    /\ Act
    /\ p \in running
    /\ UNCHANGED running
    /\ \E m \in client[p].mobs : Send(Message(p, "InteractEntity", m))
    /\ UNCHANGED client

\* The thread ends; what waits on its channel is lost.
Disconnect(p) ==
    /\ Act
    /\ p \in running
    /\ messages' = Append(messages, Message(p, "PlayerLeft", "left"))
    /\ running' = running \ {p}
    /\ events' = [events EXCEPT ![p] = <<>>]
    /\ UNCHANGED <<world, chunk_states, portal_cooldowns, is_dead, overrides, mobs, client, heard,
                   settled>>

\* poll_events
PollEvents(p) ==
    /\ p \in running
    /\ events[p] # <<>>
    /\ LET answers == Polled(p).answers
       IN messages' = messages \o [i \in DOMAIN answers |-> PositionUpdate(p, answers[i])]
    /\ client' = [client EXCEPT ![p] = Drained(p)]
    /\ events' = [events EXCEPT ![p] = <<>>]
    /\ UNCHANGED <<world, chunk_states, portal_cooldowns, is_dead, overrides, mobs, running, marks>>

-----------------------------------------------------------------------------
(***************************************************************************)
(* The tick thread.  A handler is a sequence of changes to what it keeps   *)
(* of the players and to the channels, a record t of both.                 *)
(***************************************************************************)
Before == [world |-> world, chunk_states |-> chunk_states,
           cooldowns |-> portal_cooldowns, events |-> events]

After(t) ==
    /\ world' = t.world
    /\ chunk_states' = t.chunk_states
    /\ portal_cooldowns' = t.cooldowns
    /\ events' = t.events

\* To a session whose thread has ended nothing is sent.
To(t, S, sequence) ==
    [t EXCEPT !.events = [q \in Players |->
        IF q \in S \cap running THEN @[q] \o sequence ELSE @[q]]]

InDimension(t, d) == {q \in DOMAIN t.world : t.world[q].dimension = d}

Put(f, p, v) == [q \in DOMAIN f \cup {p} |-> IF q = p THEN v ELSE f[q]]

\* Mutant: what is around the player in both dimensions is not sent again.
ResyncNewChunks(t, p, at) ==
    LET old == t.chunk_states[p].loaded_chunks
        cs == Reloaded([t.chunk_states[p] EXCEPT !.center = chunk_from_world(at)])
    IN To([t EXCEPT !.chunk_states[p] = cs], {p},
          <<SetCenterChunk(cs.center)>>
            \o Unload(old \ cs.loaded_chunks)
            \o send_chunk_to_session(overrides, t.world[p].dimension, cs.loaded_chunks \ old))

\* What stays in the window is unloaded and sent again: its terrain may be
\* that of another dimension.
resync_player_chunks(t, p, at) ==
    LET old == t.chunk_states[p].loaded_chunks
        cs == Reloaded([t.chunk_states[p] EXCEPT !.center = chunk_from_world(at)])
        dim == t.world[p].dimension
    IN To([t EXCEPT !.chunk_states[p] = cs], {p},
          <<SetCenterChunk(cs.center)>>
            \o Unload(old \ cs.loaded_chunks)
            \o Unload(old \cap cs.loaded_chunks)
            \o send_chunk_to_session(overrides, dim, old \cap cs.loaded_chunks)
            \o send_chunk_to_session(overrides, dim, cs.loaded_chunks \ old))

Transfers(t, p, dest) ==
    dest \in EnabledDimensions /\ p \in DOMAIN t.world /\ t.world[p].dimension # dest

transfer_player_dimension(t, p, dest) ==
    LET moved == [t EXCEPT !.world[p] = [at |-> Spawn, dimension |-> dest],
                           !.cooldowns = Put(@, p, PortalCooldownTicks)]
        told == To(moved, {p}, <<RespawnPlayer(dest, Spawn, TRUE)>>)
    IN To(resync_player_chunks(told, p, Spawn), {p},
          <<SynchronizePosition(Spawn)>> \o SyncMobs(dest))

Window(t, p, cs, recentred) ==
    LET old == t.chunk_states[p].loaded_chunks
    IN To([t EXCEPT !.chunk_states[p] = cs], {p},
          If(recentred, <<SetCenterChunk(cs.center)>>)
            \o send_chunk_to_session(overrides, t.world[p].dimension, cs.loaded_chunks \ old)
            \o Unload(old \ cs.loaded_chunks))

\* resolve_movement lets a player go where they want or stops them, along
\* each axis.
Resolved(old, asked) == {<<x, z>> : x \in {old[1], asked[1]}, z \in {old[2], asked[2]}}

\* Mutant: a corrected position is kept from the client.
MovedSilently(t, p, raw, new) ==
    LET old == t.world[p].at
    IN To([t EXCEPT !.world[p].at = new], InDimension(t, t.world[p].dimension) \ {p},
          If(new # old, <<EntityMovement(p, old, new)>>))

Moved(t, p, raw, new) ==
    LET old == t.world[p].at
        dim == t.world[p].dimension
        placed == [t EXCEPT !.world[p].at = new]
        told == To(placed, {p}, If(new # raw, <<SynchronizePosition(new)>>))
    IN To(told, InDimension(t, dim) \ {p}, If(new # old, <<EntityMovement(p, old, new)>>))

Handles(type, m) == messages # <<>> /\ m.type = type /\ messages' = Tail(messages)
Room2 == \A p \in Players : Len(events[p]) <= MaxEvents

PlayerJoined ==
    \E m \in {Head(messages)}, at \in {Spawn} \cup {clamp_horizontal(s) : s \in SavedPlaces} :
      LET p == m.player
          others == InDimension(Before, "Overworld")
          deltas == get_client_block_deltas(overrides, "Overworld",
                                            desired_chunks(<<0, 0>>, InitialRadius))
          added == [Before EXCEPT !.world = Put(@, p, [at |-> at, dimension |-> "Overworld"]),
                                  !.chunk_states = Put(@, p, PlayerChunkState(ServerViewDistance))]
          all == SetToSeq(others)
      IN /\ Handles("PlayerJoined", m)
         /\ After(To(To(added, others, <<PlayerJoinedEvent(p, at)>>), {p},
                     [i \in DOMAIN all |-> PlayerJoinedEvent(all[i], world[all[i]].at)]
                       \o If(deltas # <<>>, <<ChunkBlockOverrides(deltas)>>)
                       \o SyncMobs("Overworld")))
         /\ UNCHANGED <<is_dead, overrides, mobs, client, running, marks>>

\* Mutant: the others are not told of it.
PlayerLeftSilently ==
    \E m \in {Head(messages)} :
      /\ Handles("PlayerLeft", m)
      /\ world' = Without(world, {m.player})
      /\ chunk_states' = Without(chunk_states, {m.player})
      /\ portal_cooldowns' = Without(portal_cooldowns, {m.player})
      /\ is_dead' = is_dead \ {m.player}
      /\ heard' = heard \cup {m.player}
      /\ UNCHANGED <<events, overrides, mobs, client, running, settled, acts>>

PlayerLeft ==
    \E m \in {Head(messages)} :
      LET p == m.player
          gone == [Before EXCEPT !.world = Without(@, {p}), !.chunk_states = Without(@, {p}),
                                 !.cooldowns = Without(@, {p})]
      IN /\ Handles("PlayerLeft", m)
         /\ After(To(gone, DOMAIN gone.world, If(p \in Online, <<PlayerLeftEvent(p)>>)))
         /\ is_dead' = is_dead \ {p}
         /\ heard' = heard \cup {p}
         /\ UNCHANGED <<overrides, mobs, client, running, settled, acts>>

PlayerPositionUpdate ==
    \E m \in {Head(messages)} :
      /\ Handles("PlayerPositionUpdate", m)
      /\ IF m.player \notin Online THEN UNCHANGED <<tick, heard, settled>>
         ELSE \E new \in Resolved(world[m.player].at, clamp_horizontal(m.value)) :
                LET p == m.player
                    dim == world[p].dimension
                    center == chunk_from_world(new)
                    moved == Moved(Before, p, m.value, new)
                    seen == IF new = world[p].at THEN moved
                            ELSE Window(moved, p, update_center(chunk_states[p], center),
                                        chunk_states[p].center # center)
                    off == p \notin DOMAIN portal_cooldowns \/ portal_cooldowns[p] = 0
                    dest == {d \in portal_destination(dim, get_block(overrides, dim, new)) :
                               new # world[p].at /\ off /\ Transfers(Before, p, d)}
                IN /\ After(IF dest = {} THEN seen
                            ELSE transfer_player_dimension(seen, p, CHOOSE d \in dest : TRUE))
                   /\ heard' = IF new = world[p].at THEN heard ELSE heard \cup {p}
                   /\ settled' = IF dest = {} THEN settled ELSE settled \ {p}
      /\ UNCHANGED <<is_dead, overrides, mobs, client, running, acts>>

\* broadcast_block_update
SetBlock ==
    \E m \in {Head(messages)} :
      LET dim == IF m.player \in Online THEN world[m.player].dimension ELSE "Overworld"
          at == m.value[1]
          state == m.value[2]
      IN /\ Handles("SetBlock", m)
         /\ overrides' = set_block(overrides, dim, at, state)
         /\ After(To(Before, InDimension(Before, dim), <<BlockUpdate(at, state)>>))
         /\ UNCHANGED <<is_dead, mobs, client, running, marks>>

SetClientViewDistance ==
    \E m \in {Head(messages)} :
      /\ Handles("SetClientViewDistance", m)
      /\ After(IF m.player \notin Online THEN Before
               ELSE Window(Before, m.player,
                           update_view_distance(chunk_states[m.player], m.value), FALSE))
      /\ UNCHANGED <<is_dead, overrides, mobs, client, running, marks>>

ChatMessage ==
    \E m \in {Head(messages)} :
      LET p == m.player
          transfers == Transfers(Before, p, m.value)
      IN /\ Handles("ChatMessage", m)
         /\ After(IF transfers THEN transfer_player_dimension(Before, p, m.value) ELSE Before)
         /\ heard' = IF transfers THEN heard \cup {p} ELSE heard
         /\ settled' = IF transfers THEN settled \ {p} ELSE settled
         /\ UNCHANGED <<is_dead, overrides, mobs, client, running, acts>>

\* Nobody else is told that the player is elsewhere now.
ClientStatus ==
    \E m \in {Head(messages)} :
      LET p == m.player
          placed == [Before EXCEPT !.world[p].at = Spawn]
          dim == world[p].dimension
          told == To(placed, {p}, <<RespawnPlayer(dim, Spawn, FALSE)>>)
      IN /\ Handles("ClientStatus", m)
         /\ IF p \in is_dead
            THEN /\ After(To(resync_player_chunks(told, p, Spawn), {p}, SyncMobs(dim)))
                 /\ is_dead' = is_dead \ {p}
                 /\ heard' = heard \cup {p}
                 /\ settled' = settled \ {p}
            ELSE UNCHANGED <<tick, is_dead, heard, settled>>
         /\ UNCHANGED <<overrides, mobs, client, running, acts>>

\* In reach or not, and dead of it or not.
InteractEntity ==
    \E m \in {Head(messages)}, died \in BOOLEAN :
      LET hit == m.player \in Online /\ m.value \in mobs
                   /\ MobHome[m.value] = world[m.player].dimension
      IN /\ Handles("InteractEntity", m)
         /\ IF hit /\ died
            THEN /\ mobs' = mobs \ {m.value}
                 /\ After(To(Before, InDimension(Before, MobHome[m.value]),
                             <<RemoveEntities({m.value})>>))
            ELSE UNCHANGED <<tick, mobs>>
         /\ UNCHANGED <<is_dead, overrides, client, running, marks>>

\* A mob, lava or the void kills a player.
Death(p) ==
    /\ p \in Online \ is_dead
    /\ Act
    /\ is_dead' = is_dead \cup {p}
    /\ UNCHANGED <<tick, overrides, mobs, messages, client, running, heard, settled>>

Cooldown ==
    /\ \E p \in DOMAIN portal_cooldowns : portal_cooldowns[p] > 0
    /\ portal_cooldowns' = [p \in DOMAIN portal_cooldowns |->
                              IF portal_cooldowns[p] > 0 THEN portal_cooldowns[p] - 1 ELSE 0]
    /\ UNCHANGED <<world, chunk_states, events, is_dead, overrides, mobs, messages, client, running,
                   marks>>

Receive ==
    /\ messages # <<>>
    /\ Room2
    /\ \/ PlayerJoined \/ PlayerLeft \/ PlayerPositionUpdate \/ SetBlock
       \/ SetClientViewDistance \/ ChatMessage \/ ClientStatus \/ InteractEntity

Next ==
    \/ Receive \/ Cooldown
    \/ \E p \in Players :
         \/ Connect(p) \/ ClientMoves(p) \/ ClientInformation(p) \/ ClientSetsBlock(p)
         \/ ClientTypes(p) \/ ClientRespawns(p) \/ ClientAttacks(p) \/ Disconnect(p)
         \/ PollEvents(p) \/ Death(p)

Spec == Init /\ [][Next]_vars

-----------------------------------------------------------------------------
(***************************************************************************)
(* Properties.                                                             *)
(***************************************************************************)
\* The players a client is played by.
Playing == Online \cap running

\* The tables agree on who is online, and no window is larger than the garden.
\* (tick.rs:216-247, the fields of PlayerChunkState)
TypeOK ==
    /\ DOMAIN chunk_states = Online /\ Online \subseteq Players
    /\ DOMAIN portal_cooldowns \subseteq Online /\ is_dead \subseteq Online
    /\ \A p \in Online :
         /\ world[p].at = clamp_horizontal(world[p].at)
         /\ world[p].dimension \in EnabledDimensions \cup {"Overworld"}
         /\ chunk_states[p].view_distance \in 0..GardenRadius
         /\ \A c \in chunk_states[p].loaded_chunks : contains_chunk(c)
    /\ mobs \subseteq DOMAIN MobHome

\* Once it has been sent what is waiting, a client has exactly the chunks the
\* server believes it has, around the same centre, and the terrain of each is
\* that of the dimension the player is in.  (tick.rs:764-828, session.rs:748-781)
WindowShown ==
    \A p \in Playing :
      LET v == Drained(p)
      IN /\ DOMAIN v.chunks = chunk_states[p].loaded_chunks
         /\ v.center = chunk_states[p].center
         /\ v.dimension = world[p].dimension
         /\ \A c \in DOMAIN v.chunks : v.chunks[c].dimension = world[p].dimension

\* Every block of those chunks is shown as the world has it, whoever set it and
\* whenever the chunk was sent.  (tick.rs:699-745, world.rs get_block)
BlocksShown ==
    \A p \in Playing :
      LET v == Drained(p)
      IN \A c \in DOMAIN v.chunks : \A b \in DOMAIN v.chunks[c].blocks :
           v.chunks[c].blocks[b] = get_block(overrides, world[p].dimension, b)

\* A client shows the living mobs of its dimension, nobody who has left, and
\* two players who have neither died nor changed dimension show each other
\* where they are.  (tick.rs:900-929, 1091-1125, 1179-1185, 1244-1266)
EntitiesShown ==
    \A p \in Playing :
      LET v == Drained(p)
      IN /\ v.mobs = {m \in mobs : MobHome[m] = world[p].dimension}
         /\ DOMAIN v.players \subseteq Online \ {p}
         /\ p \in settled => \A q \in (Online \cap settled) \ {p} :
              q \in DOMAIN v.players /\ v.players[q] = world[q].at

\* No hole opens around a player: once they have moved, the chunks in view of
\* where they are are loaded.  (tick.rs:1268-1296; before that the window is
\* around the spawn, wherever a saved player is: tick.rs:1027)
WindowFollows ==
    \A p \in Online :
      /\ desired_chunk_set(chunk_states[p]) \subseteq chunk_states[p].loaded_chunks
      /\ p \in heard => chunk_states[p].center = chunk_from_world(world[p].at)

\* When nothing of a player is under way in either direction, client and server
\* agree on where they are, unless they have not moved since they joined.
\* (tick.rs:1213-1240, session.rs:1190-1216)
PositionsAgree ==
    \A p \in Playing \cap heard :
      events[p] = <<>> /\ (\A i \in DOMAIN messages :
                             messages[i].player = p => messages[i].type # "PlayerPositionUpdate")
        => client[p].at = world[p].at

=============================================================================
