---------------------------- MODULE TickPlayers ----------------------------
(***************************************************************************)
(* The authoritative tick thread and the player sessions that feed it.     *)
(*                                                                         *)
(* Every connection in the Play state owns a PlayerSession on a thread of  *)
(* its own.  The sessions, and the thread that stops the server, send      *)
(* TickMessages into one FIFO channel; the tick thread drains it and runs  *)
(* the periodic tasks.  The tick thread keeps what it knows of a player in *)
(* seven maps keyed by entity id and in an atomic player count; this       *)
(* module is about those maps staying in step while players join, leave,   *)
(* die, dig, open chests, change dimension and reconnect, and while the    *)
(* server stops.                                                           *)
(*                                                                         *)
(* Abstractions.  The maps whose values no property here needs are the     *)
(* sets of their keys.  Everything persisted of a player is one number,    *)
(* progress, that every saved change raises.  Conditions on positions,     *)
(* items and dimensions (which chest, whether a destination is enabled,    *)
(* who is hurt in a tick) are nondeterministic choices.                    *)
(***************************************************************************)
EXTENDS Integers, Sequences, FiniteSets

CONSTANTS
    Entity,       \* the entity ids EntityIdAllocator hands out, one per session
    NoEntity,     \* the entity field of the Shutdown message, which has none
    User,         \* offline-mode UUIDs
    UserOf,       \* the UUID each session logs in as
    Overlap,      \* may a user log in while a session of theirs is still known?
    BreakTicks,   \* DEFAULT_BLOCK_HARDNESS_TICKS
    MaxProgress,  \* bound: how often a player's saved data changes
    QueueCap      \* bound: gameplay messages are sent while the queue is shorter

ASSUME ConstantsAssumption ==
    /\ NoEntity \notin Entity
    /\ IsFiniteSet(Entity)
    /\ UserOf \in [Entity -> User]
    /\ Overlap \in BOOLEAN
    /\ BreakTicks \in Nat \ {0}
    /\ MaxProgress \in Nat
    /\ QueueCap \in Nat

VARIABLES
    session,           \* per entity id: the session thread that holds it
    stopper,           \* the thread inside TickHandle::shutdown
    queue,             \* the TickMessage channel
    phase,             \* where the tick thread is in its main loop
    players,           \* keys of World::players
    session_senders,   \* keys
    chunk_states,      \* keys
    inventories,       \* entity id -> [progress, is_dead]
    break_progress,    \* entity id -> ticks_elapsed
    open_windows,      \* keys
    portal_cooldowns,  \* keys
    player_count,      \* the AtomicUsize the status reply reports
    saved_players      \* UUID -> progress; every change of it is written to disk

perPlayer == <<players, session_senders, chunk_states, inventories,
               break_progress, open_windows, portal_cooldowns, player_count>>
vars == <<session, stopper, queue, phase, perPlayer, saved_players>>

-----------------------------------------------------------------------------
(* Messages and maps *)

Gameplay == {"DigStart", "DigStop", "SetCreativeSlot", "OpenChest",
             "CloseContainer", "Dimension", "Respawn"}
MessageType == Gameplay \cup {"PlayerJoined", "PlayerLeft", "Shutdown"}
Message == [type : MessageType, e : Entity \cup {NoEntity}]
Msg(t, e) == [type |-> t, e |-> e]

Inventory == [progress : 0..MaxProgress, is_dead : BOOLEAN]

Put(f, k, v) == [x \in DOMAIN f \cup {k} |-> IF x = k THEN v ELSE f[x]]
Without(f, S) == [x \in DOMAIN f \ S |-> f[x]]

\* The tick thread has dropped its end of the channel.
Stopped == phase = "stopped"
ShutdownFlag == stopper # "idle"

Queued(t, e) == \E i \in 1..Len(queue) : queue[i] = Msg(t, e)

\* Nothing of this session is left on the server.
Gone(e) ==
    \/ session[e] = "unused"
    \/ session[e] = "closed" /\ e \notin players /\ ~Queued("PlayerLeft", e)

Init ==
    /\ session = [e \in Entity |-> "unused"]
    /\ stopper = "idle"
    /\ queue = <<>>
    /\ phase = "check"
    /\ players = {}
    /\ session_senders = {}
    /\ chunk_states = {}
    /\ inventories = [e \in {} |-> 0]
    /\ break_progress = [e \in {} |-> 0]
    /\ open_windows = {}
    /\ portal_cooldowns = {}
    /\ player_count = 0
    /\ saved_players = [u \in User |-> 0]

-----------------------------------------------------------------------------
(* Session threads *)

\* PlayerSession::new: the login is over and the session registers itself.
\* Sending fails once the tick thread is gone, and no session is created.
Connect(e) ==
    /\ session[e] = "unused"
    /\ ~Stopped
    /\ Overlap \/ \A f \in Entity : UserOf[f] = UserOf[e] => Gone(f)
    /\ session' = [session EXCEPT ![e] = "live"]
    /\ queue' = Append(queue, Msg("PlayerJoined", e))
    /\ UNCHANGED <<stopper, phase, perPlayer, saved_players>>

\* Mutant: something that holds the sender outlives the session.
SendLate(e, t) ==
    /\ session[e] # "unused"
    /\ ~Stopped
    /\ Len(queue) < QueueCap
    /\ queue' = Append(queue, Msg(t, e))
    /\ UNCHANGED <<session, stopper, phase, perPlayer, saved_players>>

\* A gameplay packet becomes a message of the tick thread.
Send(e, t) ==
    /\ session[e] = "live"
    /\ ~Stopped
    /\ Len(queue) < QueueCap
    /\ queue' = Append(queue, Msg(t, e))
    /\ UNCHANGED <<session, stopper, phase, perPlayer, saved_players>>

\* Mutants: shutdown() called by hand as well as by Drop; no Drop at all.
DisconnectTwice(e) ==
    /\ session[e] = "live"
    /\ session' = [session EXCEPT ![e] = "closed"]
    /\ queue' = queue \o <<Msg("PlayerLeft", e), Msg("PlayerLeft", e)>>
    /\ UNCHANGED <<stopper, phase, perPlayer, saved_players>>
DisconnectSilently(e) ==
    /\ session[e] = "live"
    /\ session' = [session EXCEPT ![e] = "closed"]
    /\ UNCHANGED <<stopper, queue, phase, perPlayer, saved_players>>

\* The play loop ends, for whatever reason, and Drop sends PlayerLeft.
Disconnect(e) ==
    /\ session[e] = "live"
    /\ session' = [session EXCEPT ![e] = "closed"]
    /\ queue' = IF Stopped THEN queue ELSE Append(queue, Msg("PlayerLeft", e))
    /\ UNCHANGED <<stopper, phase, perPlayer, saved_players>>

-----------------------------------------------------------------------------
(* TickHandle::shutdown: first the flag, then the message *)

RaiseFlag ==
    /\ stopper = "idle"
    /\ stopper' = "flagged"
    /\ UNCHANGED <<session, queue, phase, perPlayer, saved_players>>

\* Mutant: only the flag.
SendNothing ==
    /\ stopper = "flagged"
    /\ stopper' = "sent"
    /\ UNCHANGED <<session, queue, phase, perPlayer, saved_players>>

SendShutdown ==
    /\ stopper = "flagged"
    /\ stopper' = "sent"
    /\ queue' = IF Stopped THEN queue ELSE Append(queue, Msg("Shutdown", NoEntity))
    /\ UNCHANGED <<session, phase, perPlayer, saved_players>>

-----------------------------------------------------------------------------
(* Handlers of the tick thread.  Each takes the head of the queue. *)

Receive(t, e) ==
    /\ phase = "drain"
    /\ queue # <<>>
    /\ Head(queue) = Msg(t, e)
    /\ queue' = Tail(queue)
    /\ UNCHANGED <<session, stopper, phase>>

\* Mutant: a returning player starts from scratch.
RestoredFresh(e) == 0

\* What the new inventory takes over from saved_players.
Restored(e) == saved_players[UserOf[e]]

PlayerJoined(e) ==
    /\ Receive("PlayerJoined", e)
    /\ players' = players \cup {e}
    /\ session_senders' = session_senders \cup {e}
    /\ chunk_states' = chunk_states \cup {e}
    /\ inventories' = Put(inventories, e, [progress |-> Restored(e), is_dead |-> FALSE])
    /\ player_count' = player_count + 1
    /\ UNCHANGED <<break_progress, open_windows, portal_cooldowns, saved_players>>

\* Mutant: a dig in progress outlives its player.
ForgetAllButDig(e) ==
    /\ players' = players \ {e}
    /\ session_senders' = session_senders \ {e}
    /\ chunk_states' = chunk_states \ {e}
    /\ inventories' = Without(inventories, {e})
    /\ open_windows' = open_windows \ {e}
    /\ portal_cooldowns' = portal_cooldowns \ {e}
    /\ UNCHANGED break_progress

Forget(e) ==
    /\ players' = players \ {e}
    /\ session_senders' = session_senders \ {e}
    /\ chunk_states' = chunk_states \ {e}
    /\ inventories' = Without(inventories, {e})
    /\ break_progress' = Without(break_progress, {e})
    /\ open_windows' = open_windows \ {e}
    /\ portal_cooldowns' = portal_cooldowns \ {e}

\* Mutant: the maps forget the player first, and nothing is left to save.
PlayerLeftUnsaved(e) ==
    /\ Receive("PlayerLeft", e)
    /\ Forget(e)
    /\ player_count' = player_count - 1
    /\ UNCHANGED saved_players

\* The player's data is collected and saved before the maps forget the player.
PlayerLeft(e) ==
    /\ Receive("PlayerLeft", e)
    /\ saved_players' =
           IF e \in players \cap DOMAIN inventories
           THEN [saved_players EXCEPT ![UserOf[e]] = inventories[e].progress]
           ELSE saved_players
    /\ Forget(e)
    /\ player_count' = player_count - 1

\* Mutant: the death screen does not stop a dig.
RefusesUnknown(e) == e \notin DOMAIN inventories

\* DigBlock is refused for the dead and the unknown; the refusal clears the dig.
RefusesDig(e) == e \notin DOMAIN inventories \/ inventories[e].is_dead

DigStart(e) ==
    /\ Receive("DigStart", e)
    /\ break_progress' = IF RefusesDig(e) THEN Without(break_progress, {e})
                                          ELSE Put(break_progress, e, 0)
    /\ UNCHANGED <<players, session_senders, chunk_states, inventories,
                   open_windows, portal_cooldowns, player_count, saved_players>>

DigStop(e) ==
    /\ Receive("DigStop", e)
    /\ break_progress' = Without(break_progress, {e})
    /\ UNCHANGED <<players, session_senders, chunk_states, inventories,
                   open_windows, portal_cooldowns, player_count, saved_players>>

\* Stands for every message that changes what is persisted of a player.
SetCreativeSlot(e) ==
    /\ Receive("SetCreativeSlot", e)
    /\ inventories' =
           IF e \in DOMAIN inventories /\ inventories[e].progress < MaxProgress
           THEN [inventories EXCEPT ![e].progress = @ + 1]
           ELSE inventories
    /\ UNCHANGED <<players, session_senders, chunk_states, break_progress,
                   open_windows, portal_cooldowns, player_count, saved_players>>

\* PlaceBlock on a chest: open_chest_for_player's early returns are the guard.
OpenChest(e) ==
    /\ Receive("OpenChest", e)
    /\ open_windows' = IF e \in DOMAIN inventories /\ e \in session_senders
                       THEN open_windows \cup {e} ELSE open_windows
    /\ UNCHANGED <<players, session_senders, chunk_states, inventories,
                   break_progress, portal_cooldowns, player_count, saved_players>>

\* The window id of the message may or may not be the open one.
CloseContainer(e) ==
    /\ Receive("CloseContainer", e)
    /\ open_windows' \in {open_windows, open_windows \ {e}}
    /\ UNCHANGED <<players, session_senders, chunk_states, inventories,
                   break_progress, portal_cooldowns, player_count, saved_players>>

\* A "/dim" command: transfer_player_dimension, which does nothing for a
\* destination that is disabled or is where the player stands.
Dimension(e) ==
    /\ Receive("Dimension", e)
    /\ \/ /\ e \in players
          /\ open_windows' = open_windows \ {e}
          /\ portal_cooldowns' = portal_cooldowns \cup {e}
       \/ UNCHANGED <<open_windows, portal_cooldowns>>
    /\ UNCHANGED <<players, session_senders, chunk_states, inventories,
                   break_progress, player_count, saved_players>>

\* ClientStatus 0, which only a dead player's inventory reacts to.
Respawn(e) ==
    /\ Receive("Respawn", e)
    /\ IF e \in DOMAIN inventories /\ inventories[e].is_dead
       THEN /\ inventories' = [inventories EXCEPT ![e].is_dead = FALSE]
            /\ break_progress' = Without(break_progress, {e})
       ELSE UNCHANGED <<inventories, break_progress>>
    /\ UNCHANGED <<players, session_senders, chunk_states, open_windows,
                   portal_cooldowns, player_count, saved_players>>

\* Mutant: only those who already left are written.
MergedNobody(s) == s = saved_players

\* merge_online_into_saved: of two entities of one user, the one the map yields
\* last is kept.
Merged(s) ==
    \A u \in User :
        LET online == {e \in players \cap DOMAIN inventories : UserOf[e] = u}
        IN  IF online = {} THEN s[u] = saved_players[u]
            ELSE \E e \in online : s[u] = inventories[e].progress
SavedStates == [User -> 0..MaxProgress]

\* The Shutdown message saves and leaves the loop; what is queued behind is lost.
Shutdown ==
    /\ phase = "drain"
    /\ queue # <<>>
    /\ Head(queue) = Msg("Shutdown", NoEntity)
    /\ saved_players' \in SavedStates
    /\ Merged(saved_players')
    /\ phase' = "stopped"
    /\ queue' = <<>>
    /\ UNCHANGED <<session, stopper, perPlayer>>

-----------------------------------------------------------------------------
(* The main loop of the tick thread *)

Alive == {e \in DOMAIN inventories : ~inventories[e].is_dead}

\* Digs after clear_break_animation for those who died in this tick.  A player
\* who starved is only cleared together with the message to their session.
DigsLeft(slain, starved) ==
    Without(break_progress, slain \cup (starved \cap session_senders))

\* Mutant: one tick too many.
FinishedLate(digs) == {e \in DOMAIN digs : digs[e] > BreakTicks}

Finished(digs) == {e \in DOMAIN digs : digs[e] >= BreakTicks}

\* The channel is empty: damage, dig progress, autosave if it is due, mods.
Tick(slain, starved, closed, due) ==
    LET digs == [e \in DOMAIN DigsLeft(slain, starved) |-> break_progress[e] + 1]
        done == Finished(digs)
    IN  /\ phase = "drain"
        /\ queue = <<>>
        /\ done = {} => closed = {}
        /\ inventories' = [e \in DOMAIN inventories |->
               IF e \in slain \cup starved THEN [inventories[e] EXCEPT !.is_dead = TRUE]
                                           ELSE inventories[e]]
        /\ break_progress' = Without(digs, done)
        /\ open_windows' = open_windows \ closed
        /\ IF due THEN saved_players' \in SavedStates /\ Merged(saved_players')
                  ELSE UNCHANGED saved_players
        /\ phase' = "check"
        /\ UNCHANGED <<session, stopper, queue, players, session_senders,
                       chunk_states, portal_cooldowns, player_count>>

\* The loop condition reads the flag once per tick.
EnterTick ==
    /\ phase = "check"
    /\ ~ShutdownFlag
    /\ phase' = "drain"
    /\ UNCHANGED <<session, stopper, queue, perPlayer, saved_players>>

FlushAndStop ==
    /\ phase = "check"
    /\ ShutdownFlag
    /\ saved_players' \in SavedStates
    /\ Merged(saved_players')
    /\ phase' = "stopped"
    /\ queue' = <<>>
    /\ UNCHANGED <<session, stopper, perPlayer>>

-----------------------------------------------------------------------------
Handle(e) ==
    \/ PlayerJoined(e)
    \/ PlayerLeft(e)
    \/ DigStart(e)
    \/ DigStop(e)
    \/ SetCreativeSlot(e)
    \/ OpenChest(e)
    \/ CloseContainer(e)
    \/ Dimension(e)
    \/ Respawn(e)

Periodic ==
    \E slain \in SUBSET Alive, closed \in SUBSET open_windows, due \in BOOLEAN :
        \E starved \in SUBSET (Alive \ slain) : Tick(slain, starved, closed, due)

TickThread == (\E e \in Entity : Handle(e)) \/ Shutdown \/ Periodic
              \/ EnterTick \/ FlushAndStop

Next ==
    \/ \E e \in Entity : Connect(e)
    \/ \E e \in Entity, t \in Gameplay : Send(e, t)
    \/ \E e \in Entity : Disconnect(e)
    \/ RaiseFlag
    \/ SendShutdown
    \/ TickThread

Spec == Init /\ [][Next]_vars

\* The tick thread runs whenever it can, and so does a thread that has begun to
\* stop the server.  Nothing makes a player log in, act or leave.
FairSpec == Spec /\ WF_vars(TickThread) /\ WF_vars(SendShutdown)

-----------------------------------------------------------------------------
(* Properties *)

\* Every variable has its type; a dig that is kept is not finished.
TypeOK ==
    /\ session \in [Entity -> {"unused", "live", "closed"}]
    /\ stopper \in {"idle", "flagged", "sent"}
    /\ queue \in Seq(Message)
    /\ phase \in {"check", "drain", "stopped"}
    /\ players \subseteq Entity
    /\ session_senders \subseteq Entity
    /\ chunk_states \subseteq Entity
    /\ DOMAIN inventories \subseteq Entity
    /\ inventories \in [DOMAIN inventories -> Inventory]
    /\ DOMAIN break_progress \subseteq Entity
    /\ break_progress \in [DOMAIN break_progress -> 0 .. BreakTicks - 1]
    /\ open_windows \subseteq Entity
    /\ portal_cooldowns \subseteq Entity
    /\ player_count \in Int
    /\ saved_players \in SavedStates

\* The seven maps describe the same players: the four that every player has
\* hold the same keys, and a dig, a window or a cooldown belongs to a player
\* who is still online (a leaver's entry would stay for the server's lifetime,
\* and a stale dig would still break its block).
MapsAgree ==
    /\ session_senders = players
    /\ chunk_states = players
    /\ DOMAIN inventories = players
    /\ DOMAIN break_progress \subseteq players
    /\ open_windows \subseteq players
    /\ portal_cooldowns \subseteq players

\* The count the status reply reports is the number of players the tick thread
\* knows.  The decrement of PlayerLeft is unconditional, on an unsigned atomic:
\* one PlayerLeft too many would wrap it.
CountIsOnline == player_count = Cardinality(players)

\* e is online, or will be once the messages ahead are handled.
Known(e) == e \in players \/ Queued("PlayerJoined", e)

\* What the handlers silently rely on: through the shared channel every session
\* still shows PlayerJoined before anything else and PlayerLeft after it, both
\* once, so no handler runs for an entity id that is not online, and none is
\* announced twice.
SessionsInOrder ==
    /\ \A i, j \in 1..Len(queue) :
           queue[i].e \in Entity /\ queue[j].e = queue[i].e =>
               /\ queue[i].type = "PlayerJoined" => i <= j
               /\ queue[i].type = "PlayerLeft" => j <= i
    /\ \A i \in 1..Len(queue) :
           queue[i].e \in Entity =>
               /\ session[queue[i].e] # "unused"
               /\ queue[i].type = "PlayerJoined" => queue[i].e \notin players
               /\ queue[i].type # "PlayerJoined" => Known(queue[i].e)
               /\ queue[i].type = "PlayerLeft" => session[queue[i].e] = "closed"
    /\ \A e \in Entity :
           /\ session[e] = "live" /\ ~Stopped => Known(e)
           /\ e \in players => session[e] # "unused"

\* Nobody digs from the death screen, whatever killed them and whatever was
\* still queued when they died.
DeadDoNotDig == \A e \in DOMAIN break_progress :
                    e \in DOMAIN inventories => ~inventories[e].is_dead

\* However the loop ended, whoever was online has been saved: for each of them
\* the file holds what the tick thread last knew (of one of their sessions).
StoppedKeepsEveryone ==
    Stopped => \A e \in players : \E f \in players :
                   /\ UserOf[f] = UserOf[e]
                   /\ saved_players[UserOf[e]] = inventories[f].progress

\* A save never takes back what an earlier save of the same user recorded
\* (PlayerLeft: "so reconnect (even in the same process) and autosave cannot
\* wipe them").
SavedNeverRegresses ==
    [][\A u \in User : saved_players'[u] >= saved_players[u]]_vars

\* The tick thread keeps the register of players that PlayerRegistry describes:
\* whatever is in the channel, each session is entered and left once, counted
\* while it is entered, begins with what was stored of its user and is stored at
\* its leave and at a stop, and nothing is done for a session that is not there.
\* (tick.rs:1009-1080, 1155-1190)
Register ==
    INSTANCE PlayerRegistry WITH
        Session <- Entity,
        online <- players,
        held <- [e \in DOMAIN inventories |-> inventories[e].progress],
        count <- player_count,
        stored <- saved_players,
        met <- {e \in Entity : session[e] # "unused" /\ ~Queued("PlayerJoined", e)},
        open <- ~Stopped
KeepsRegister == Register!Spec

\* Once a session has ended, the tick thread eventually forgets its player, no
\* matter how many messages the others keep sending.
LeaverForgotten ==
    \A e \in Entity : session[e] = "closed" ~> (e \notin players \/ Stopped)

\* A requested shutdown ends the tick thread even if the channel never runs
\* empty, so that the loop condition is not read again.
ShutdownTerminates == ShutdownFlag ~> Stopped

=============================================================================
