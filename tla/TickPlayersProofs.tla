------------------------- MODULE TickPlayersProofs -------------------------
(***************************************************************************)
(* Proofs about TickPlayers, for every set of sessions and users and every *)
(* bound.  The per-player maps agree and the player count is right because *)
(* of the order of the messages in the channel (SessionsInOrder): a        *)
(* PlayerLeft is only handled for a player who is online, and a            *)
(* PlayerJoined only for one who is not.                                   *)
(***************************************************************************)
EXTENDS TickPlayers, TLAPS, SequenceTheorems, FiniteSetTheorems

-----------------------------------------------------------------------------
(* The channel *)

\* What appending to the channel does to its elements.
LEMMA AppendToQueue ==
    ASSUME NEW q \in Seq(Message), NEW m \in Message
    PROVE  /\ Append(q, m) \in Seq(Message)
           /\ Len(q) \in Nat
           /\ Len(Append(q, m)) = Len(q) + 1
           /\ \A i \in 1..Len(q) : Append(q, m)[i] = q[i]
           /\ Append(q, m)[Len(q) + 1] = m
           /\ \A i \in 1..Len(q) : q[i] \in Message
<1>1. Len(q) \in Nat
    BY LenProperties
<1>2. \A i \in 1..Len(q) : q[i] \in Message
    BY ElementOfSeq
<1>3. QED
    BY <1>1, <1>2, AppendProperties

\* What handling the head of the channel does to its elements.
LEMMA TakeFromQueue ==
    ASSUME NEW q \in Seq(Message), q # <<>>
    PROVE  /\ Tail(q) \in Seq(Message)
           /\ Len(q) \in Nat \ {0}
           /\ Len(Tail(q)) = Len(q) - 1
           /\ \A i \in 1..Len(Tail(q)) : Tail(q)[i] = q[i + 1]
           /\ Head(q) = q[1]
           /\ \A i \in 1..Len(q) : q[i] \in Message
<1>1. Len(q) \in Nat \ {0}
    BY EmptySeq
<1>2. \A i \in 1..Len(q) : q[i] \in Message
    BY ElementOfSeq
<1>3. QED
    BY <1>1, <1>2, HeadTailProperties

\* A well-formed message.
LEMMA MsgType ==
    ASSUME NEW t \in MessageType, NEW e \in Entity \cup {NoEntity}
    PROVE  /\ Msg(t, e) \in Message
           /\ Msg(t, e).type = t
           /\ Msg(t, e).e = e
BY DEF Msg, Message

-----------------------------------------------------------------------------
(* Type correctness *)

\* The types of the two maps with values, as predicates of a map.
InventoriesOK(f) == DOMAIN f \subseteq Entity /\ f \in [DOMAIN f -> Inventory]
DigsOK(f) == DOMAIN f \subseteq Entity /\ f \in [DOMAIN f -> 0 .. BreakTicks - 1]

\* The keys of a map after an insertion and after a removal.
LEMMA MapKeys ==
    /\ \A f, S : /\ DOMAIN Without(f, S) = DOMAIN f \ S
                 /\ \A x \in DOMAIN f \ S : Without(f, S)[x] = f[x]
    /\ \A f, k, v : /\ DOMAIN Put(f, k, v) = DOMAIN f \cup {k}
                    /\ Put(f, k, v)[k] = v
                    /\ \A x \in DOMAIN f \ {k} : Put(f, k, v)[x] = f[x]
BY DEF Without, Put

\* Starting, dropping and forgetting digs keeps the type of the dig map.
LEMMA DigTypes ==
    ASSUME NEW f, DigsOK(f)
    PROVE  /\ \A S : DigsOK(Without(f, S))
           /\ \A e \in Entity : DigsOK(Put(f, e, 0))
<1>1. 0 \in 0 .. BreakTicks - 1
    BY ConstantsAssumption
<1>2. QED
    BY <1>1 DEF DigsOK, Without, Put

\* Every change the handlers make to the inventories keeps their type.
LEMMA InventoryTypes ==
    ASSUME NEW f, InventoriesOK(f)
    PROVE  /\ \A S : InventoriesOK(Without(f, S))
           /\ \A e \in Entity, v \in Inventory : InventoriesOK(Put(f, e, v))
           /\ \A e \in DOMAIN f, b \in BOOLEAN : InventoriesOK([f EXCEPT ![e].is_dead = b])
           /\ \A e \in DOMAIN f : f[e].progress < MaxProgress
                                  => InventoriesOK([f EXCEPT ![e].progress = @ + 1])
           /\ \A S : InventoriesOK([e \in DOMAIN f |->
                         IF e \in S THEN [f[e] EXCEPT !.is_dead = TRUE] ELSE f[e]])
<1>1. \A S : InventoriesOK(Without(f, S))
    BY DEF InventoriesOK, Without
<1>2. \A e \in Entity, v \in Inventory : InventoriesOK(Put(f, e, v))
    BY DEF InventoriesOK, Put
<1>3. \A e \in DOMAIN f, b \in BOOLEAN : InventoriesOK([f EXCEPT ![e].is_dead = b])
    BY DEF InventoriesOK, Inventory
<1>4. \A e \in DOMAIN f : f[e].progress < MaxProgress
                          => InventoriesOK([f EXCEPT ![e].progress = @ + 1])
    BY ConstantsAssumption DEF InventoriesOK, Inventory
<1>5. \A S : InventoriesOK([e \in DOMAIN f |->
                 IF e \in S THEN [f[e] EXCEPT !.is_dead = TRUE] ELSE f[e]])
    BY DEF InventoriesOK, Inventory
<1>6. QED
    BY <1>1, <1>2, <1>3, <1>4, <1>5

\* A handler takes one message and touches neither the other threads nor the
\* loop's phase.
LEMMA ReceiveTypes ==
    ASSUME TypeOK, NEW t, NEW e, Receive(t, e)
    PROVE  /\ queue \in Seq(Message) /\ queue # <<>>
           /\ queue' = Tail(queue) /\ queue' \in Seq(Message)
           /\ Head(queue).type = t /\ Head(queue).e = e
           /\ UNCHANGED <<session, stopper, phase>>
           /\ phase = "drain"
BY TakeFromQueue DEF Receive, TypeOK, Msg

\* The initial state is well typed.
LEMMA InitTypeOK == Init => TypeOK
<1> SUFFICES ASSUME Init PROVE TypeOK
    OBVIOUS
<1>1. queue \in Seq(Message)
    BY EmptySeq DEF Init
<1>2. saved_players \in SavedStates
    BY ConstantsAssumption DEF Init, SavedStates
<1>3. inventories \in [DOMAIN inventories -> Inventory]
    BY DEF Init
<1>4. break_progress \in [DOMAIN break_progress -> 0 .. BreakTicks - 1]
    BY DEF Init
<1>5. QED
    BY <1>1, <1>2, <1>3, <1>4 DEF Init, TypeOK

\* Every step keeps the types.
LEMMA NextTypeOK == TypeOK /\ [Next]_vars => TypeOK'
<1> SUFFICES ASSUME TypeOK, [Next]_vars PROVE TypeOK'
    OBVIOUS
<1> USE ConstantsAssumption
<1>0. InventoriesOK(inventories) /\ DigsOK(break_progress)
    BY DEF TypeOK, InventoriesOK, DigsOK
<1>1. ASSUME NEW e \in Entity, Connect(e) PROVE TypeOK'
    BY <1>1, AppendToQueue, MsgType DEF Connect, TypeOK, perPlayer, MessageType
<1>2. ASSUME NEW e \in Entity, NEW t \in Gameplay, Send(e, t) PROVE TypeOK'
    BY <1>2, AppendToQueue, MsgType DEF Send, TypeOK, perPlayer, MessageType
<1>3. ASSUME NEW e \in Entity, Disconnect(e) PROVE TypeOK'
    BY <1>3, AppendToQueue, MsgType DEF Disconnect, TypeOK, perPlayer, MessageType
<1>4. CASE RaiseFlag
    BY <1>4 DEF RaiseFlag, TypeOK, perPlayer
<1>5. CASE SendShutdown
    BY <1>5, AppendToQueue, MsgType DEF SendShutdown, TypeOK, perPlayer, MessageType
<1>6. \* What is left to show of a handler's step.
      ASSUME NEW e \in Entity, NEW t, Receive(t, e),
             InventoriesOK(inventories'), DigsOK(break_progress'),
             players' \subseteq Entity, session_senders' \subseteq Entity,
             chunk_states' \subseteq Entity, open_windows' \subseteq Entity,
             portal_cooldowns' \subseteq Entity, player_count' \in Int,
             saved_players' \in SavedStates
      PROVE  TypeOK'
    BY <1>6, ReceiveTypes DEF TypeOK, InventoriesOK, DigsOK
<1>7. ASSUME NEW e \in Entity, PlayerJoined(e) PROVE TypeOK'
  <2>1. [progress |-> Restored(e), is_dead |-> FALSE] \in Inventory
    BY DEF Restored, Inventory, TypeOK, SavedStates
  <2>2. InventoriesOK(inventories')
    BY <1>0, <1>7, <2>1, InventoryTypes DEF PlayerJoined
  <2>3. Receive("PlayerJoined", e) /\ player_count' \in Int
    BY <1>7 DEF PlayerJoined, TypeOK
  <2>4. QED
    BY <1>0, <1>6, <1>7, <2>2, <2>3 DEF PlayerJoined, TypeOK
<1>8. ASSUME NEW e \in Entity, PlayerLeft(e) PROVE TypeOK'
  <2>1. saved_players' \in SavedStates
    BY <1>8 DEF PlayerLeft, TypeOK, SavedStates, Inventory
  <2>2. InventoriesOK(inventories') /\ DigsOK(break_progress')
    BY <1>0, <1>8, InventoryTypes, DigTypes DEF PlayerLeft, Forget
  <2>3. Receive("PlayerLeft", e) /\ player_count' \in Int
    BY <1>8 DEF PlayerLeft, TypeOK
  <2>4. QED
    BY <1>6, <1>8, <2>1, <2>2, <2>3 DEF PlayerLeft, Forget, TypeOK
<1>9. ASSUME NEW e \in Entity, DigStart(e) PROVE TypeOK'
  <2>1. Receive("DigStart", e) /\ DigsOK(break_progress')
    BY <1>0, <1>9, DigTypes DEF DigStart
  <2>2. QED
    BY <1>0, <1>6, <1>9, <2>1 DEF DigStart, TypeOK
<1>10. ASSUME NEW e \in Entity, DigStop(e) PROVE TypeOK'
  <2>1. Receive("DigStop", e) /\ DigsOK(break_progress')
    BY <1>0, <1>10, DigTypes DEF DigStop
  <2>2. QED
    BY <1>0, <1>6, <1>10, <2>1 DEF DigStop, TypeOK
<1>11. ASSUME NEW e \in Entity, SetCreativeSlot(e) PROVE TypeOK'
  <2>1. Receive("SetCreativeSlot", e) /\ InventoriesOK(inventories')
    BY <1>0, <1>11, InventoryTypes DEF SetCreativeSlot
  <2>2. QED
    BY <1>0, <1>6, <1>11, <2>1 DEF SetCreativeSlot, TypeOK
<1>12. ASSUME NEW e \in Entity, OpenChest(e) PROVE TypeOK'
  <2>1. Receive("OpenChest", e)
    BY <1>12 DEF OpenChest
  <2>2. QED
    BY <1>0, <1>6, <1>12, <2>1 DEF OpenChest, TypeOK
<1>13. ASSUME NEW e \in Entity, CloseContainer(e) PROVE TypeOK'
  <2>1. Receive("CloseContainer", e)
    BY <1>13 DEF CloseContainer
  <2>2. QED
    BY <1>0, <1>6, <1>13, <2>1 DEF CloseContainer, TypeOK
<1>14. ASSUME NEW e \in Entity, Dimension(e) PROVE TypeOK'
  <2>1. Receive("Dimension", e)
    BY <1>14 DEF Dimension
  <2>2. QED
    BY <1>0, <1>6, <1>14, <2>1 DEF Dimension, TypeOK
<1>15. ASSUME NEW e \in Entity, Respawn(e) PROVE TypeOK'
  <2>1. Receive("Respawn", e)
    BY <1>15 DEF Respawn
  <2>2. CASE e \in DOMAIN inventories /\ inventories[e].is_dead
    <3>1. InventoriesOK([inventories EXCEPT ![e].is_dead = FALSE])
        BY <1>0, <2>2, InventoryTypes
    <3>2. inventories' = [inventories EXCEPT ![e].is_dead = FALSE]
        BY <1>15, <2>2 DEF Respawn
    <3>3. InventoriesOK(inventories')
        BY <3>1, <3>2
    <3>4. DigsOK(break_progress')
        BY <1>0, <1>15, <2>2, DigTypes DEF Respawn
    <3>5. QED
        BY <1>6, <1>15, <2>1, <3>3, <3>4 DEF Respawn, TypeOK
  <2>3. CASE ~(e \in DOMAIN inventories /\ inventories[e].is_dead)
    BY <1>0, <1>6, <1>15, <2>1, <2>3 DEF Respawn, TypeOK
  <2>4. QED
    BY <2>2, <2>3
<1>16. CASE Shutdown
    BY <1>16, EmptySeq DEF Shutdown, TypeOK, perPlayer
<1>17. ASSUME NEW slain \in SUBSET Alive, NEW closed \in SUBSET open_windows,
              NEW due \in BOOLEAN, NEW starved \in SUBSET (Alive \ slain),
              Tick(slain, starved, closed, due)
       PROVE  TypeOK'
  <2> DEFINE left == DigsLeft(slain, starved)
             digs == [e \in DOMAIN left |-> break_progress[e] + 1]
  <2>1. DOMAIN digs \subseteq DOMAIN break_progress
    BY MapKeys DEF DigsLeft
  <2>2. \A e \in DOMAIN digs : digs[e] = break_progress[e] + 1
    OBVIOUS
  <2>3. \A e \in DOMAIN break_progress : break_progress[e] \in 0 .. BreakTicks - 1
    BY DEF TypeOK
  <2>4. break_progress' = Without(digs, Finished(digs))
    BY <1>17 DEF Tick
  <2> HIDE DEF digs
  <2>5. DigsOK(break_progress')
    <3>1. \A e \in DOMAIN digs \ Finished(digs) : digs[e] \in 0 .. BreakTicks - 1
        BY <2>1, <2>2, <2>3 DEF Finished
    <3>2. DOMAIN digs \subseteq Entity
        BY <2>1 DEF TypeOK
    <3>3. QED
        BY <2>4, <3>1, <3>2 DEF DigsOK, Without
  <2>6. InventoriesOK(inventories')
    BY <1>0, <1>17, InventoryTypes DEF Tick
  <2>7. saved_players' \in SavedStates
    BY <1>17 DEF Tick, TypeOK
  <2>8. QED
    BY <1>17, <2>5, <2>6, <2>7 DEF Tick, TypeOK, InventoriesOK, DigsOK
<1>18. CASE EnterTick
    BY <1>18 DEF EnterTick, TypeOK, perPlayer
<1>19. CASE FlushAndStop
    BY <1>19, EmptySeq DEF FlushAndStop, TypeOK, perPlayer
<1>20. CASE UNCHANGED vars
    BY <1>20 DEF vars, perPlayer, TypeOK
<1>21. ASSUME NEW e \in Entity, Handle(e) PROVE TypeOK'
    BY <1>7, <1>8, <1>9, <1>10, <1>11, <1>12, <1>13, <1>14, <1>15, <1>21 DEF Handle
<1>22. CASE Periodic
    BY <1>17, <1>22 DEF Periodic
<1>23. QED
    BY <1>1, <1>2, <1>3, <1>4, <1>5, <1>16, <1>18, <1>19, <1>20, <1>21, <1>22
    DEF Next, TickThread

\* Every variable keeps its type, and a dig that is kept is not finished: the
\* tick that completes a dig also removes it.
THEOREM TypeCorrect == Spec => []TypeOK
BY InitTypeOK, NextTypeOK, PTL DEF Spec

-----------------------------------------------------------------------------
(* The maps agree *)

\* The handlers and the tick keep the seven maps in step.
LEMMA NextMapsAgree == TypeOK /\ MapsAgree /\ [Next]_vars => MapsAgree'
<1> SUFFICES ASSUME TypeOK, MapsAgree, [Next]_vars PROVE MapsAgree'
    OBVIOUS
<1>1. CASE UNCHANGED perPlayer
    BY <1>1 DEF MapsAgree, perPlayer
<1>2. ASSUME NEW e \in Entity, Handle(e) PROVE MapsAgree'
  <2>1. CASE PlayerJoined(e)
    BY <2>1, MapKeys DEF PlayerJoined, MapsAgree
  <2>2. CASE PlayerLeft(e)
    <3>1. /\ DOMAIN inventories' = DOMAIN inventories \ {e}
          /\ DOMAIN break_progress' = DOMAIN break_progress \ {e}
        BY <2>2, MapKeys DEF PlayerLeft, Forget
    <3>2. QED
        BY <2>2, <3>1 DEF PlayerLeft, Forget, MapsAgree
  <2>3. CASE DigStart(e)
    <3>1. CASE RefusesDig(e)
        BY <2>3, <3>1, MapKeys DEF DigStart, MapsAgree
    <3>2. CASE ~RefusesDig(e)
      <4>1. DOMAIN break_progress' = DOMAIN break_progress \cup {e} /\ e \in DOMAIN inventories
        BY <2>3, <3>2, MapKeys DEF DigStart, RefusesDig
      <4>2. QED
        BY <2>3, <4>1 DEF DigStart, MapsAgree
    <3>3. QED
        BY <3>1, <3>2
  <2>4. CASE DigStop(e)
    BY <2>4, MapKeys DEF DigStop, MapsAgree
  <2>5. CASE SetCreativeSlot(e)
    BY <2>5 DEF SetCreativeSlot, MapsAgree
  <2>6. CASE OpenChest(e)
    BY <2>6 DEF OpenChest, MapsAgree
  <2>7. CASE CloseContainer(e)
    BY <2>7 DEF CloseContainer, MapsAgree
  <2>8. CASE Dimension(e)
    BY <2>8 DEF Dimension, MapsAgree
  <2>9. CASE Respawn(e)
    <3>1. DOMAIN inventories' = DOMAIN inventories
        BY <2>9 DEF Respawn
    <3>2. DOMAIN break_progress' \subseteq DOMAIN break_progress
      <4>1. break_progress' = break_progress \/ break_progress' = Without(break_progress, {e})
        BY <2>9 DEF Respawn
      <4>2. QED
        BY <4>1 DEF Without
    <3>3. QED
        BY <2>9, <3>1, <3>2 DEF Respawn, MapsAgree
  <2>10. QED
    BY <1>2, <2>1, <2>2, <2>3, <2>4, <2>5, <2>6, <2>7, <2>8, <2>9 DEF Handle
<1>3. CASE Periodic
  <2>1. PICK slain \in SUBSET Alive, closed \in SUBSET open_windows, due \in BOOLEAN,
             starved \in SUBSET Alive : Tick(slain, starved, closed, due)
    BY <1>3 DEF Periodic
  <2> DEFINE left == DigsLeft(slain, starved)
             digs == [e \in DOMAIN left |-> break_progress[e] + 1]
  <2>2. DOMAIN inventories' = DOMAIN inventories
    BY <2>1 DEF Tick
  <2>3. DOMAIN left \subseteq DOMAIN break_progress
    BY DEF DigsLeft, Without
  <2>4. break_progress' = Without(digs, Finished(digs))
    BY <2>1 DEF Tick
  <2>5. DOMAIN break_progress' \subseteq DOMAIN left
    <3>1. DOMAIN digs = DOMAIN left
        OBVIOUS
    <3> HIDE DEF digs
    <3>2. QED
        BY <2>4, <3>1 DEF Without
  <2>6. QED
    BY <2>1, <2>2, <2>3, <2>5 DEF Tick, MapsAgree
<1>4. QED
    BY <1>1, <1>2, <1>3
    DEF Next, TickThread, Connect, Send, Disconnect, RaiseFlag, SendShutdown,
        Shutdown, EnterTick, FlushAndStop, vars, perPlayer

\* The maps of the tick thread always describe the same players.
THEOREM MapsAlwaysAgree == Spec => []MapsAgree
<1>1. Init => MapsAgree
    BY DEF Init, MapsAgree
<1>2. QED
    BY <1>1, TypeCorrect, NextMapsAgree, PTL DEF Spec

-----------------------------------------------------------------------------
(* The order of the messages *)

\* The three parts of SessionsInOrder, for any channel q, map s of session
\* states, set p of online players and phase ph.
Announced(q, p, e) ==
    e \in p \/ \E i \in 1..Len(q) : q[i].type = "PlayerJoined" /\ q[i].e = e
JoinFirstLeaveLast(q) ==
    \A i, j \in 1..Len(q) :
        q[i].e \in Entity /\ q[j].e = q[i].e =>
            /\ q[i].type = "PlayerJoined" => i <= j
            /\ q[i].type = "PlayerLeft" => j <= i
SendersFit(q, s, p) ==
    \A i \in 1..Len(q) :
        q[i].e \in Entity =>
            /\ s[q[i].e] # "unused"
            /\ q[i].type = "PlayerJoined" => q[i].e \notin p
            /\ q[i].type # "PlayerJoined" => Announced(q, p, q[i].e)
            /\ q[i].type = "PlayerLeft" => s[q[i].e] = "closed"
SessionsFit(q, s, p, ph) ==
    \A e \in Entity : /\ s[e] = "live" /\ ph # "stopped" => Announced(q, p, e)
                      /\ e \in p => s[e] # "unused"
InOrder(q, s, p, ph) ==
    JoinFirstLeaveLast(q) /\ SendersFit(q, s, p) /\ SessionsFit(q, s, p, ph)

\* A queued message is found by its two fields.
LEMMA QueuedFields ==
    ASSUME queue \in Seq(Message), NEW e
    PROVE  Known(e) <=> Announced(queue, players, e)
<1>1. \A i \in 1..Len(queue) : queue[i] \in Message
    BY AppendToQueue, ElementOfSeq
<1>2. QED
    BY <1>1 DEF Known, Announced, Queued, Msg, Message

LEMMA InOrderIsSessionsInOrder ==
    queue \in Seq(Message) =>
        (SessionsInOrder <=> InOrder(queue, session, players, phase))
BY QueuedFields
DEF SessionsInOrder, InOrder, JoinFirstLeaveLast, SendersFit, SessionsFit, Stopped

\* A session that was not there announces itself: nothing of it is queued yet.
LEMMA JoinKeepsOrder ==
    ASSUME NEW q \in Seq(Message), NEW s, NEW p, NEW ph, InOrder(q, s, p, ph),
           NEW e \in Entity, s \in [Entity -> {"unused", "live", "closed"}],
           s[e] = "unused"
    PROVE  InOrder(Append(q, Msg("PlayerJoined", e)), [s EXCEPT ![e] = "live"], p, ph)
<1> DEFINE m == Msg("PlayerJoined", e)
           r == Append(q, m)
           z == [s EXCEPT ![e] = "live"]
<1>1. m \in Message /\ m.type = "PlayerJoined" /\ m.e = e
    BY MsgType DEF MessageType
<1> HIDE DEF m
<1>2. /\ Len(q) \in Nat /\ Len(r) = Len(q) + 1 /\ r[Len(q) + 1] = m
      /\ \A i \in 1..Len(q) : r[i] = q[i]
    BY <1>1, AppendToQueue
<1>3. z[e] = "live" /\ \A f \in Entity : f # e => z[f] = s[f]
    OBVIOUS
<1> HIDE DEF r, z
<1>4. \A i \in 1..Len(q) : q[i].e # e
    BY DEF InOrder, SendersFit
<1>5. e \notin p
    BY DEF InOrder, SessionsFit
<1>6. \A f : Announced(r, p, f) <=> Announced(q, p, f) \/ f = e
    BY <1>1, <1>2 DEF Announced
<1>7. JoinFirstLeaveLast(r)
    BY <1>1, <1>2, <1>4 DEF InOrder, JoinFirstLeaveLast
<1>8. SendersFit(r, z, p)
    BY <1>1, <1>2, <1>3, <1>4, <1>5, <1>6 DEF InOrder, SendersFit
<1>9. SessionsFit(r, z, p, ph)
    BY <1>3, <1>5, <1>6 DEF InOrder, SessionsFit
<1>10. QED
    BY <1>7, <1>8, <1>9 DEF InOrder, m, r, z

\* A live session sends something that is neither of the two announcements.
LEMMA SendKeepsOrder ==
    ASSUME NEW q \in Seq(Message), NEW s, NEW p, NEW ph, InOrder(q, s, p, ph),
           NEW m \in Message, m.type \notin {"PlayerJoined", "PlayerLeft"},
           m.e \in Entity => s[m.e] = "live" /\ ph # "stopped"
    PROVE  InOrder(Append(q, m), s, p, ph)
<1> DEFINE r == Append(q, m)
<1>1. /\ Len(q) \in Nat /\ Len(r) = Len(q) + 1 /\ r[Len(q) + 1] = m
      /\ \A i \in 1..Len(q) : r[i] = q[i]
    BY AppendToQueue
<1> HIDE DEF r
<1>2. \A f : Announced(r, p, f) <=> Announced(q, p, f)
    BY <1>1 DEF Announced
<1>3. JoinFirstLeaveLast(r)
    BY <1>1 DEF InOrder, JoinFirstLeaveLast, SendersFit
<1>4. SendersFit(r, s, p)
    BY <1>1, <1>2 DEF InOrder, SendersFit, SessionsFit
<1>5. SessionsFit(r, s, p, ph)
    BY <1>2 DEF InOrder, SessionsFit
<1>6. QED
    BY <1>3, <1>4, <1>5 DEF InOrder, r

\* A live session leaves: from now on it sends nothing.
LEMMA LeaveKeepsOrder ==
    ASSUME NEW q \in Seq(Message), NEW s, NEW p, NEW ph, InOrder(q, s, p, ph),
           NEW e \in Entity, s \in [Entity -> {"unused", "live", "closed"}],
           s[e] = "live"
    PROVE  /\ InOrder(q, [s EXCEPT ![e] = "closed"], p, ph)
           /\ ph # "stopped" =>
              InOrder(Append(q, Msg("PlayerLeft", e)), [s EXCEPT ![e] = "closed"], p, ph)
<1> DEFINE m == Msg("PlayerLeft", e)
           r == Append(q, m)
           z == [s EXCEPT ![e] = "closed"]
<1>1. m \in Message /\ m.type = "PlayerLeft" /\ m.e = e
    BY MsgType DEF MessageType
<1> HIDE DEF m
<1>2. /\ Len(q) \in Nat /\ Len(r) = Len(q) + 1 /\ r[Len(q) + 1] = m
      /\ \A i \in 1..Len(q) : r[i] = q[i]
    BY <1>1, AppendToQueue
<1>3. z[e] = "closed" /\ \A f \in Entity : f # e => z[f] = s[f]
    OBVIOUS
<1> HIDE DEF r, z
<1>4. \A i \in 1..Len(q) : q[i].e = e => q[i].type # "PlayerLeft"
    BY DEF InOrder, SendersFit
<1>5. \A f : Announced(r, p, f) <=> Announced(q, p, f)
    BY <1>1, <1>2 DEF Announced
<1>6. JoinFirstLeaveLast(r)
    BY <1>1, <1>2, <1>4 DEF InOrder, JoinFirstLeaveLast
<1>7. SendersFit(q, z, p) /\ SessionsFit(q, z, p, ph)
    BY <1>3 DEF InOrder, SendersFit, SessionsFit
<1>8. ASSUME ph # "stopped" PROVE SendersFit(r, z, p)
    BY <1>1, <1>2, <1>3, <1>5, <1>8 DEF InOrder, SendersFit, SessionsFit
<1>9. SessionsFit(r, z, p, ph)
    BY <1>3, <1>5 DEF InOrder, SessionsFit
<1>10. QED
    BY <1>6, <1>7, <1>8, <1>9 DEF InOrder, m, r, z

\* The tick thread takes the head of the channel and updates the players.
LEMMA TakeKeepsOrder ==
    ASSUME NEW q \in Seq(Message), q # <<>>, NEW s, NEW p, NEW p2, NEW ph,
           InOrder(q, s, p, ph), Head(q).e \in Entity,
           p2 = CASE Head(q).type = "PlayerJoined" -> p \cup {Head(q).e}
                  [] Head(q).type = "PlayerLeft" -> p \ {Head(q).e}
                  [] OTHER -> p
    PROVE  InOrder(Tail(q), s, p2, ph)
<1> DEFINE r == Tail(q)
           h == Head(q)
<1>1. /\ Len(q) \in Nat \ {0} /\ Len(r) = Len(q) - 1 /\ q[1] = h
      /\ \A i \in 1..Len(r) : r[i] = q[i + 1]
    BY TakeFromQueue
<1>2. /\ h.type = "PlayerJoined" => p2 = p \cup {h.e}
      /\ h.type = "PlayerLeft" => p2 = p \ {h.e}
      /\ h.type \notin {"PlayerJoined", "PlayerLeft"} => p2 = p
    OBVIOUS
<1>3. h.e \in Entity
    OBVIOUS
<1> HIDE DEF r, h
<1>4. \A i \in 1..Len(r) : i \in 1..Len(q) /\ i + 1 \in 1..Len(q)
    BY <1>1
<1>5. 1 \in 1..Len(q)
    BY <1>1
<1>6. h.type = "PlayerLeft" => \A i \in 1..Len(r) : r[i].e # h.e
    BY <1>1, <1>3, <1>4, <1>5 DEF InOrder, JoinFirstLeaveLast
<1>7. \A i \in 1..Len(r) : r[i].e = h.e => r[i].type # "PlayerJoined"
    BY <1>1, <1>3, <1>4, <1>5 DEF InOrder, JoinFirstLeaveLast
<1>8. \A f \in Entity : f # h.e \/ h.type # "PlayerLeft" =>
          (Announced(q, p, f) => Announced(r, p2, f))
  <2>1. SUFFICES ASSUME NEW f \in Entity, f # h.e \/ h.type # "PlayerLeft",
                        NEW i \in 1..Len(q), q[i].type = "PlayerJoined", q[i].e = f,
                        f \notin p2
                 PROVE  \E k \in 1..Len(r) : r[k].type = "PlayerJoined" /\ r[k].e = f
    BY <1>2 DEF Announced
  <2>2. i # 1
    BY <1>1, <1>2, <2>1
  <2>3. i - 1 \in 1..Len(r) /\ r[i - 1] = q[i]
    BY <1>1, <2>1, <2>2
  <2>4. QED
    BY <2>1, <2>3
<1>9. JoinFirstLeaveLast(r)
    BY <1>1, <1>4 DEF InOrder, JoinFirstLeaveLast
<1>10. SendersFit(r, s, p2)
  <2> SUFFICES ASSUME NEW i \in 1..Len(r), r[i].e \in Entity
               PROVE  /\ s[r[i].e] # "unused"
                      /\ r[i].type = "PlayerJoined" => r[i].e \notin p2
                      /\ r[i].type # "PlayerJoined" => Announced(r, p2, r[i].e)
                      /\ r[i].type = "PlayerLeft" => s[r[i].e] = "closed"
    BY DEF SendersFit
  <2>1. /\ s[r[i].e] # "unused"
        /\ r[i].type = "PlayerJoined" => r[i].e \notin p
        /\ r[i].type # "PlayerJoined" => Announced(q, p, r[i].e)
        /\ r[i].type = "PlayerLeft" => s[r[i].e] = "closed"
    BY <1>1, <1>4 DEF InOrder, SendersFit
  <2>2. r[i].type = "PlayerJoined" => r[i].e \notin p2
    BY <1>2, <1>7, <2>1
  <2>3. r[i].type # "PlayerJoined" => Announced(r, p2, r[i].e)
    BY <1>6, <1>8, <2>1
  <2>4. QED
    BY <2>1, <2>2, <2>3
<1>11. SessionsFit(r, s, p2, ph)
  <2>1. h.type = "PlayerJoined" => s[h.e] # "unused"
    BY <1>1, <1>3, <1>5 DEF InOrder, SendersFit
  <2>2. h.type = "PlayerLeft" => s[h.e] = "closed"
    BY <1>1, <1>3, <1>5 DEF InOrder, SendersFit
  <2>3. QED
    BY <1>2, <1>8, <2>1, <2>2 DEF InOrder, SessionsFit
<1>12. QED
    BY <1>9, <1>10, <1>11 DEF InOrder, r

\* Every step keeps the messages in order.
LEMMA NextSessionsInOrder ==
    TypeOK /\ MapsAgree /\ SessionsInOrder /\ [Next]_vars => SessionsInOrder'
<1> SUFFICES ASSUME TypeOK, MapsAgree, SessionsInOrder, [Next]_vars
             PROVE  SessionsInOrder'
    OBVIOUS
<1> USE ConstantsAssumption
<1>1. queue \in Seq(Message) /\ session \in [Entity -> {"unused", "live", "closed"}]
    BY DEF TypeOK
<1>2. InOrder(queue, session, players, phase)
    BY <1>1, InOrderIsSessionsInOrder
<1>3. TypeOK'
    BY NextTypeOK
<1>4. SUFFICES InOrder(queue', session', players', phase')
  <2>1. (queue \in Seq(Message))'
    BY <1>3 DEF TypeOK
  <2>2. (InOrder(queue, session, players, phase))' => SessionsInOrder'
    BY <2>1, InOrderIsSessionsInOrder, PTL
  <2>3. QED
    BY <2>2
<1>5. ASSUME NEW e \in Entity, Connect(e)
      PROVE  InOrder(queue', session', players', phase')
    BY <1>1, <1>2, <1>5, JoinKeepsOrder DEF Connect, perPlayer
<1>6. ASSUME NEW e \in Entity, NEW t \in Gameplay, Send(e, t)
      PROVE  InOrder(queue', session', players', phase')
  <2>1. Msg(t, e) \in Message /\ Msg(t, e).type = t /\ Msg(t, e).e = e
    BY MsgType DEF MessageType
  <2>2. t \notin {"PlayerJoined", "PlayerLeft"}
    BY DEF Gameplay
  <2>3. QED
    BY <1>1, <1>2, <1>6, <2>1, <2>2, SendKeepsOrder DEF Send, perPlayer, Stopped
<1>7. ASSUME NEW e \in Entity, Disconnect(e)
      PROVE  InOrder(queue', session', players', phase')
    BY <1>1, <1>2, <1>7, LeaveKeepsOrder DEF Disconnect, perPlayer, Stopped
<1>8. CASE SendShutdown
  <2>1. LET m == Msg("Shutdown", NoEntity)
        IN  m \in Message /\ m.type = "Shutdown" /\ m.e = NoEntity
    BY MsgType DEF MessageType
  <2>2. QED
    BY <1>1, <1>2, <1>8, <2>1, SendKeepsOrder DEF SendShutdown, perPlayer
<1>9. ASSUME NEW e \in Entity, Handle(e)
      PROVE  InOrder(queue', session', players', phase')
  <2>1. ASSUME NEW t, Receive(t, e),
               players' = CASE t = "PlayerJoined" -> players \cup {e}
                            [] t = "PlayerLeft" -> players \ {e}
                            [] OTHER -> players
        PROVE  InOrder(queue', session', players', phase')
    <3>1. /\ queue # <<>> /\ queue' = Tail(queue)
          /\ Head(queue).type = t /\ Head(queue).e = e
          /\ UNCHANGED <<session, phase>>
        BY <2>1, ReceiveTypes
    <3>2. players' = CASE Head(queue).type = "PlayerJoined" -> players \cup {Head(queue).e}
                       [] Head(queue).type = "PlayerLeft" -> players \ {Head(queue).e}
                       [] OTHER -> players
        BY <2>1, <3>1
    <3>3. InOrder(Tail(queue), session, players', phase)
        BY <1>1, <1>2, <3>1, <3>2, TakeKeepsOrder
    <3>4. QED
        BY <3>1, <3>3
  <2>2. CASE PlayerJoined(e)
    BY <2>1, <2>2 DEF PlayerJoined
  <2>3. CASE PlayerLeft(e)
    BY <2>1, <2>3 DEF PlayerLeft, Forget
  <2>4. ASSUME NEW t \in Gameplay, Receive(t, e), UNCHANGED players
        PROVE  InOrder(queue', session', players', phase')
    BY <2>1, <2>4 DEF Gameplay
  <2>5. QED
    BY <1>9, <2>2, <2>3, <2>4
    DEF Handle, Gameplay, DigStart, DigStop, SetCreativeSlot, OpenChest,
        CloseContainer, Dimension, Respawn
<1>10. ASSUME queue' = <<>>, phase' = "stopped", UNCHANGED <<session, players>>
       PROVE  InOrder(queue', session', players', phase')
    BY <1>2, <1>10, EmptySeq
    DEF InOrder, JoinFirstLeaveLast, SendersFit, SessionsFit
<1>11. ASSUME UNCHANGED <<queue, session, players>>, phase' = "stopped" <=> phase = "stopped"
       PROVE  InOrder(queue', session', players', phase')
    BY <1>2, <1>11 DEF InOrder, JoinFirstLeaveLast, SendersFit, SessionsFit
<1>12. CASE Shutdown \/ FlushAndStop
    BY <1>10, <1>12 DEF Shutdown, FlushAndStop, perPlayer
<1>13. CASE RaiseFlag \/ Periodic \/ EnterTick \/ UNCHANGED vars
    BY <1>11, <1>13 DEF RaiseFlag, Periodic, Tick, EnterTick, vars, perPlayer
<1>14. QED
    BY <1>5, <1>6, <1>7, <1>8, <1>9, <1>12, <1>13 DEF Next, TickThread

\* Every session announces itself before and signs off after everything else it
\* sends, both once, also through the channel it shares with all the others.
THEOREM SessionsAlwaysInOrder == Spec => []SessionsInOrder
<1>1. Init => SessionsInOrder
    BY EmptySeq DEF Init, SessionsInOrder
<1>2. QED
    BY <1>1, TypeCorrect, MapsAlwaysAgree, NextSessionsInOrder, PTL DEF Spec

-----------------------------------------------------------------------------
(* The player count *)

\* What the order of the messages says of the one that is handled.
LEMMA ReceivesInOrder ==
    ASSUME TypeOK, SessionsInOrder, NEW t, NEW e \in Entity, Receive(t, e)
    PROVE  /\ t = "PlayerJoined" => e \notin players
           /\ t = "PlayerLeft" => e \in players
<1>1. /\ queue \in Seq(Message) /\ queue # <<>>
      /\ Head(queue).type = t /\ Head(queue).e = e
    BY ReceiveTypes
<1>2. 1 \in 1..Len(queue) /\ queue[1].type = t /\ queue[1].e = e
    BY <1>1, TakeFromQueue
<1>3. t = "PlayerJoined" => e \notin players
    BY <1>2 DEF SessionsInOrder
<1>4. ASSUME t = "PlayerLeft" PROVE e \in players
  <2>1. Announced(queue, players, e)
    BY <1>1, <1>2, <1>4, QueuedFields DEF SessionsInOrder
  <2>2. ASSUME NEW i \in 1..Len(queue), queue[i].type = "PlayerJoined", queue[i].e = e
        PROVE  FALSE
    BY <1>1, <1>2, <1>4, <2>2, TakeFromQueue DEF SessionsInOrder
  <2>3. QED
    BY <2>1, <2>2 DEF Announced
<1>5. QED
    BY <1>3, <1>4

\* The message order makes every join and every leave count exactly once.
LEMMA NextCountIsOnline ==
    TypeOK /\ SessionsInOrder /\ CountIsOnline /\ [Next]_vars => CountIsOnline'
<1> SUFFICES ASSUME TypeOK, SessionsInOrder, CountIsOnline, [Next]_vars
             PROVE  CountIsOnline'
    OBVIOUS
<1>1. IsFiniteSet(players)
    BY ConstantsAssumption, FS_Subset DEF TypeOK
<1>2. Cardinality(players) \in Nat
    BY <1>1, FS_CardinalityType
<1>3. ASSUME NEW e \in Entity, PlayerJoined(e) PROVE CountIsOnline'
  <2>1. e \notin players
    BY ReceivesInOrder, <1>3 DEF PlayerJoined
  <2>2. Cardinality(players \cup {e}) = Cardinality(players) + 1
    BY <1>1, <2>1, FS_AddElement
  <2>3. QED
    BY <1>2, <1>3, <2>2 DEF PlayerJoined, CountIsOnline
<1>4. ASSUME NEW e \in Entity, PlayerLeft(e) PROVE CountIsOnline'
  <2>1. e \in players
    BY ReceivesInOrder, <1>4 DEF PlayerLeft
  <2>2. Cardinality(players \ {e}) = Cardinality(players) - 1
    BY <1>1, <2>1, FS_RemoveElement
  <2>3. QED
    BY <1>2, <1>4, <2>2 DEF PlayerLeft, Forget, CountIsOnline
<1>5. CASE UNCHANGED <<players, player_count>>
    BY <1>5 DEF CountIsOnline
<1>6. QED
    BY <1>3, <1>4, <1>5
    DEF Next, TickThread, Handle, Connect, Send, Disconnect, RaiseFlag, SendShutdown,
        DigStart, DigStop, SetCreativeSlot, OpenChest, CloseContainer, Dimension,
        Respawn, Shutdown, Periodic, Tick, EnterTick, FlushAndStop, vars, perPlayer

\* The count in the status reply is right and never wraps.
THEOREM CountAlwaysRight == Spec => [](CountIsOnline /\ player_count \in Nat)
<1>1. Init => CountIsOnline
    BY FS_EmptySet DEF Init, CountIsOnline
<1>2. TypeOK /\ CountIsOnline => player_count \in Nat
    BY ConstantsAssumption, FS_Subset, FS_CardinalityType DEF TypeOK, CountIsOnline
<1>3. QED
    BY <1>1, <1>2, TypeCorrect, SessionsAlwaysInOrder, NextCountIsOnline, PTL DEF Spec

-----------------------------------------------------------------------------
(* The dead do not dig *)

\* Whatever kills a player, in whatever order with the dig messages.
LEMMA NextDeadDoNotDig ==
    TypeOK /\ MapsAgree /\ DeadDoNotDig /\ [Next]_vars => DeadDoNotDig'
<1> SUFFICES ASSUME TypeOK, MapsAgree, DeadDoNotDig, [Next]_vars PROVE DeadDoNotDig'
    OBVIOUS
<1>1. CASE UNCHANGED <<inventories, break_progress>>
    BY <1>1 DEF DeadDoNotDig
<1>2. ASSUME NEW e \in Entity, PlayerJoined(e) PROVE DeadDoNotDig'
    BY <1>2 DEF PlayerJoined, DeadDoNotDig, Put
<1>3. ASSUME NEW e \in Entity, PlayerLeft(e) PROVE DeadDoNotDig'
  <2>1. /\ inventories' = [x \in DOMAIN inventories \ {e} |-> inventories[x]]
        /\ DOMAIN break_progress' = DOMAIN break_progress \ {e}
    BY <1>3 DEF PlayerLeft, Forget, Without
  <2>2. QED
    BY <2>1 DEF DeadDoNotDig
<1>4. ASSUME NEW e \in Entity, DigStart(e) PROVE DeadDoNotDig'
  <2>1. UNCHANGED inventories
    BY <1>4 DEF DigStart
  <2>2. CASE RefusesDig(e)
    BY <1>4, <2>1, <2>2 DEF DigStart, DeadDoNotDig, Without
  <2>3. CASE ~RefusesDig(e)
    <3>1. DOMAIN break_progress' = DOMAIN break_progress \cup {e}
        BY <1>4, <2>3 DEF DigStart, Put
    <3>2. QED
        BY <2>1, <2>3, <3>1 DEF DeadDoNotDig, RefusesDig
  <2>4. QED
    BY <2>2, <2>3
<1>5. ASSUME NEW e \in Entity, DigStop(e) PROVE DeadDoNotDig'
    BY <1>5 DEF DigStop, DeadDoNotDig, Without
<1>6. ASSUME NEW e \in Entity, SetCreativeSlot(e) PROVE DeadDoNotDig'
    BY <1>6 DEF SetCreativeSlot, DeadDoNotDig, TypeOK, Inventory
<1>7. ASSUME NEW e \in Entity, Respawn(e) PROVE DeadDoNotDig'
  <2>1. CASE e \in DOMAIN inventories /\ inventories[e].is_dead
    <3>1. /\ inventories' = [inventories EXCEPT ![e].is_dead = FALSE]
          /\ DOMAIN break_progress' = DOMAIN break_progress \ {e}
        BY <1>7, <2>1 DEF Respawn, Without
    <3>2. QED
        BY <3>1 DEF DeadDoNotDig
  <2>2. CASE ~(e \in DOMAIN inventories /\ inventories[e].is_dead)
    BY <1>1, <1>7, <2>2 DEF Respawn
  <2>3. QED
    BY <2>1, <2>2
<1>8. CASE Periodic
  <2>1. PICK slain \in SUBSET Alive, closed \in SUBSET open_windows, due \in BOOLEAN,
             starved \in SUBSET Alive : Tick(slain, starved, closed, due)
    BY <1>8 DEF Periodic
  <2> DEFINE left == DigsLeft(slain, starved)
             digs == [e \in DOMAIN left |-> break_progress[e] + 1]
  <2>2. inventories' = [e \in DOMAIN inventories |->
               IF e \in slain \cup starved THEN [inventories[e] EXCEPT !.is_dead = TRUE]
                                           ELSE inventories[e]]
    BY <2>1 DEF Tick
  <2>3. starved \subseteq session_senders
    BY DEF Alive, MapsAgree
  <2>4. DOMAIN left = DOMAIN break_progress \ (slain \cup starved)
    BY <2>3 DEF DigsLeft, Without
  <2>5. break_progress' = Without(digs, Finished(digs)) /\ DOMAIN digs = DOMAIN left
    BY <2>1 DEF Tick
  <2> HIDE DEF left, digs
  <2>6. DOMAIN break_progress' \subseteq DOMAIN break_progress \ (slain \cup starved)
    BY <2>4, <2>5 DEF Without
  <2>7. QED
    BY <2>2, <2>6 DEF DeadDoNotDig
<1>9. QED
    BY <1>1, <1>2, <1>3, <1>4, <1>5, <1>6, <1>7, <1>8
    DEF Next, TickThread, Handle, Connect, Send, Disconnect, RaiseFlag, SendShutdown,
        OpenChest, CloseContainer, Dimension, Shutdown, EnterTick, FlushAndStop,
        vars, perPlayer

\* A dead player's dig is gone and stays gone until the respawn.
THEOREM DeadNeverDig == Spec => []DeadDoNotDig
<1>1. Init => DeadDoNotDig
    BY DEF Init, DeadDoNotDig
<1>2. QED
    BY <1>1, TypeCorrect, MapsAlwaysAgree, NextDeadDoNotDig, PTL DEF Spec

-----------------------------------------------------------------------------
(* Stopping saves everyone *)

\* Both ways out of the loop save the online players, and nothing is handled
\* afterwards.
LEMMA NextStoppedKeepsEveryone ==
    TypeOK /\ MapsAgree /\ StoppedKeepsEveryone /\ [Next]_vars => StoppedKeepsEveryone'
<1> SUFFICES ASSUME TypeOK, MapsAgree, StoppedKeepsEveryone, [Next]_vars
             PROVE  StoppedKeepsEveryone'
    OBVIOUS
<1>1. CASE UNCHANGED <<players, inventories, saved_players, phase>>
    BY <1>1 DEF StoppedKeepsEveryone, Stopped
<1>2. CASE phase' # "stopped"
    BY <1>2 DEF StoppedKeepsEveryone, Stopped
<1>3. CASE Shutdown \/ FlushAndStop
  <2>1. /\ Merged(saved_players')
        /\ UNCHANGED <<players, inventories>>
    BY <1>3 DEF Shutdown, FlushAndStop, perPlayer
  <2>2. ASSUME NEW e \in players
        PROVE  \E f \in players : /\ UserOf[f] = UserOf[e]
                                  /\ saved_players'[UserOf[e]] = inventories[f].progress
    <3>1. e \in DOMAIN inventories /\ UserOf[e] \in User
        BY ConstantsAssumption DEF TypeOK, MapsAgree
    <3>2. QED
        BY <2>1, <3>1 DEF Merged
  <2>3. QED
    BY <2>1, <2>2 DEF StoppedKeepsEveryone
<1>4. ASSUME NEW e \in Entity, Handle(e) PROVE phase' # "stopped"
    BY <1>4, ReceiveTypes
    DEF Handle, PlayerJoined, PlayerLeft, DigStart, DigStop, SetCreativeSlot,
        OpenChest, CloseContainer, Dimension, Respawn
<1>5. CASE Periodic \/ EnterTick
    BY <1>2, <1>5 DEF Periodic, Tick, EnterTick
<1>6. QED
    BY <1>1, <1>2, <1>3, <1>4, <1>5
    DEF Next, TickThread, Connect, Send, Disconnect, RaiseFlag, SendShutdown,
        vars, perPlayer

\* Once the tick thread has stopped, the players' file holds everyone who was
\* online, by the message or by the flag.
THEOREM StoppedAlwaysKeepsEveryone == Spec => []StoppedKeepsEveryone
<1>1. Init => StoppedKeepsEveryone
    BY DEF Init, StoppedKeepsEveryone
<1>2. QED
    BY <1>1, TypeCorrect, MapsAlwaysAgree, NextStoppedKeepsEveryone, PTL DEF Spec

-----------------------------------------------------------------------------
(* The register of players *)

\* The two values of PlayerRegistry that are not variables of TickPlayers.
Held == [e \in DOMAIN inventories |-> inventories[e].progress]
Met == {e \in Entity : session[e] # "unused" /\ ~Queued("PlayerJoined", e)}

\* A join is found by its two fields.
LEMMA QueuedJoin ==
    ASSUME NEW q \in Seq(Message), NEW e
    PROVE  (\E i \in 1..Len(q) : q[i] = Msg("PlayerJoined", e))
           <=> \E i \in 1..Len(q) : q[i].type = "PlayerJoined" /\ q[i].e = e
<1>1. \A i \in 1..Len(q) : q[i] \in Message
    BY ElementOfSeq
<1>2. QED
    BY <1>1 DEF Msg, Message

\* Nobody is met by a message being sent.
LEMMA SendMeetsNobody ==
    ASSUME TypeOK, NEW m \in Message, queue' = Append(queue, m) \/ queue' = queue,
           \A f \in Entity : \/ session'[f] = "unused" /\ session[f] = "unused"
                             \/ session'[f] # "unused" /\ session[f] # "unused"
                                /\ m # Msg("PlayerJoined", f)
                             \/ session[f] = "unused" /\ queue' = Append(queue, m)
                                /\ m = Msg("PlayerJoined", f)
    PROVE  Met' = Met
<1>1. queue \in Seq(Message)
    BY DEF TypeOK
<1>2. ASSUME NEW f \in Entity PROVE f \in Met' <=> f \in Met
  <2>1. CASE m # Msg("PlayerJoined", f)
    <3>1. Queued("PlayerJoined", f)' <=> Queued("PlayerJoined", f)
      BY <1>1, <2>1, AppendToQueue DEF Queued, Msg
    <3>2. QED
      BY <2>1, <3>1 DEF Met
  <2>2. CASE m = Msg("PlayerJoined", f) /\ queue' = Append(queue, m)
    <3>1. Queued("PlayerJoined", f)'
      BY <1>1, <2>2, AppendToQueue DEF Queued, Msg
    <3>2. QED
      BY <2>2, <3>1 DEF Met
  <2>3. QED
    BY <2>1, <2>2 DEF Met
<1>3. QED
    BY <1>2 DEF Met

\* A session is met when its join is handled, by that and nothing else.
LEMMA ReceiveMeets ==
    ASSUME TypeOK, SessionsInOrder, NEW t, NEW e \in Entity, Receive(t, e)
    PROVE  /\ t = "PlayerJoined" => e \notin Met /\ Met' = Met \cup {e}
           /\ t # "PlayerJoined" => Met' = Met
<1>1. /\ queue \in Seq(Message) /\ queue # <<>> /\ queue' = Tail(queue)
      /\ Head(queue).type = t /\ Head(queue).e = e /\ UNCHANGED session
    BY ReceiveTypes
<1>2. /\ Len(queue) \in Nat \ {0} /\ Len(queue') = Len(queue) - 1 /\ queue[1] = Head(queue)
      /\ \A i \in 1..Len(queue') : queue'[i] = queue[i + 1]
      /\ queue' \in Seq(Message)
    BY <1>1, TakeFromQueue
<1>3. \A f \in Entity : /\ Queued("PlayerJoined", f) <=>
                               \E i \in 1..Len(queue) : queue[i].type = "PlayerJoined" /\ queue[i].e = f
                        /\ Queued("PlayerJoined", f)' <=>
                               \E i \in 1..Len(queue') : queue'[i].type = "PlayerJoined" /\ queue'[i].e = f
    BY <1>1, <1>2, QueuedJoin DEF Queued, Msg
<1>4. ASSUME NEW f \in Entity, f # e \/ t # "PlayerJoined"
      PROVE  Queued("PlayerJoined", f)' <=> Queued("PlayerJoined", f)
  <2>1. ASSUME NEW i \in 1..Len(queue), queue[i].type = "PlayerJoined", queue[i].e = f
        PROVE  i - 1 \in 1..Len(queue') /\ queue'[i - 1] = queue[i]
    BY <1>1, <1>2, <1>4, <2>1
  <2>2. ASSUME NEW i \in 1..Len(queue')
        PROVE  i + 1 \in 1..Len(queue) /\ queue[i + 1] = queue'[i]
    BY <1>2, <2>2
  <2>3. QED
    BY <1>3, <2>1, <2>2
<1>5. ASSUME t = "PlayerJoined"
      PROVE  Queued("PlayerJoined", e) /\ ~Queued("PlayerJoined", e)' /\ session[e] # "unused"
  <2>1. 1 \in 1..Len(queue) /\ queue[1].type = "PlayerJoined" /\ queue[1].e = e
    BY <1>1, <1>2, <1>5
  <2>2. ASSUME NEW i \in 1..Len(queue'), queue'[i].type = "PlayerJoined", queue'[i].e = e
        PROVE  FALSE
    <3>1. i + 1 \in 1..Len(queue) /\ queue[i + 1] = queue'[i]
      BY <1>2, <2>2
    <3>2. i + 1 <= 1
      BY <2>1, <2>2, <3>1 DEF SessionsInOrder
    <3>3. QED
      BY <2>2, <3>2
  <2>3. session[e] # "unused"
    BY <2>1 DEF SessionsInOrder
  <2>4. QED
    BY <1>3, <2>1, <2>2, <2>3
<1>6. QED
    BY <1>1, <1>4, <1>5 DEF Met

\* Saving everyone online stores one session of each user.
LEMMA MergedStores ==
    ASSUME MapsAgree, Merged(saved_players')
    PROVE  Register!Store
BY DEF MapsAgree, Merged, Register!Store

\* What the register holds of a player changes only with their progress.
LEMMA HeldSame ==
    ASSUME DOMAIN inventories' = DOMAIN inventories,
           \A e \in DOMAIN inventories : inventories'[e].progress = inventories[e].progress
    PROVE  Held' = Held
BY DEF Held

\* The rest of a tick stores everything or nothing.
LEMMA TickStores ==
    ASSUME TypeOK, MapsAgree, Periodic
    PROVE  Register!StoreAll \/ UNCHANGED Register!vars
<1>0. PICK slain \in SUBSET Alive, closed \in SUBSET open_windows, due \in BOOLEAN :
               \E starved \in SUBSET (Alive \ slain) : Tick(slain, starved, closed, due)
    BY DEF Periodic
<1>1. PICK starved \in SUBSET (Alive \ slain) : Tick(slain, starved, closed, due)
    BY <1>0
<1>2. /\ inventories' = [e \in DOMAIN inventories |->
             IF e \in slain \cup starved THEN [inventories[e] EXCEPT !.is_dead = TRUE]
                                         ELSE inventories[e]]
      /\ phase = "drain" /\ phase' = "check"
      /\ UNCHANGED <<session, queue, players, player_count>>
      /\ IF due THEN saved_players' \in SavedStates /\ Merged(saved_players')
                ELSE UNCHANGED saved_players
    BY <1>1 DEF Tick
<1>3. \A e \in DOMAIN inventories : inventories[e] \in Inventory
    BY DEF TypeOK
<1>4. Held' = Held
  <2>1. \A e \in DOMAIN inventories : inventories'[e].progress = inventories[e].progress
    BY <1>2, <1>3 DEF Inventory
  <2>2. QED
    BY <1>2, <2>1, HeldSame
<1>5. Met' = Met
    BY <1>2 DEF Met, Queued
<1>6. Merged(saved_players') => Register!Store
    BY MergedStores
<1>7. QED
    BY <1>2, <1>4, <1>5, <1>6 DEF Register!StoreAll, Register!vars, Held, Met, Stopped

\* One step per handler: a join enters, a leave leaves, a changed inventory
\* changes, and nothing else is seen.
LEMMA HandleRegisters ==
    ASSUME TypeOK, MapsAgree, SessionsInOrder, NEW e \in Entity, Handle(e)
    PROVE  Register!Next \/ UNCHANGED Register!vars
<1>0. /\ DOMAIN inventories = players
      /\ \A f \in DOMAIN inventories : inventories[f] \in Inventory
      /\ player_count \in Int /\ UserOf \in [Entity -> User]
      /\ saved_players \in [User -> 0..MaxProgress]
    BY ConstantsAssumption DEF TypeOK, MapsAgree, SavedStates
<1>1. ASSUME NEW t, Receive(t, e)
      PROVE  /\ phase = "drain" /\ phase' = phase
             /\ t = "PlayerJoined" => e \notin Met /\ Met' = Met \cup {e} /\ e \notin players
             /\ t = "PlayerLeft" => e \in players
             /\ t # "PlayerJoined" => Met' = Met
    BY <1>1, ReceiveTypes, ReceiveMeets, ReceivesInOrder
<1>2. ASSUME Met' = Met, Held' = Held, phase = "drain", phase' = phase,
             UNCHANGED <<players, player_count, saved_players>>
      PROVE  UNCHANGED Register!vars
    BY <1>2 DEF Register!vars, Held, Met, Stopped
<1>3. CASE PlayerJoined(e)
  <2>1. /\ players' = players \cup {e} /\ player_count' = player_count + 1
        /\ inventories' = Put(inventories, e, [progress |-> saved_players[UserOf[e]], is_dead |-> FALSE])
        /\ UNCHANGED saved_players
    BY <1>3 DEF PlayerJoined, Restored
  <2>2. /\ phase = "drain" /\ phase' = phase
        /\ e \notin Met /\ Met' = Met \cup {e} /\ e \notin players
    BY <1>1, <1>3 DEF PlayerJoined
  <2>3. Held' = [t \in players' |-> IF t = e THEN saved_players[UserOf[e]] ELSE Held[t]]
    BY <1>0, <2>1 DEF Held, Put
  <2>4. Register!Enter(e)
    BY <2>1, <2>2, <2>3 DEF Register!Enter, Held, Met, Stopped
  <2>5. QED
    BY <2>4 DEF Register!Next
<1>4. CASE PlayerLeft(e)
  <2>1. /\ phase = "drain" /\ phase' = phase /\ e \in players /\ Met' = Met
    BY <1>1, <1>4 DEF PlayerLeft
  <2>2. /\ players' = players \ {e} /\ player_count' = player_count - 1
        /\ inventories' = Without(inventories, {e})
        /\ saved_players' = [saved_players EXCEPT ![UserOf[e]] = inventories[e].progress]
    BY <1>0, <1>4, <2>1 DEF PlayerLeft, Forget
  <2>3. Held' = [t \in players' |-> Held[t]] /\ Held[e] = inventories[e].progress
    BY <1>0, <2>1, <2>2 DEF Held, Without
  <2>4. Register!Leave(e)
    BY <2>1, <2>2, <2>3 DEF Register!Leave, Held, Met, Stopped
  <2>5. QED
    BY <2>4 DEF Register!Next
<1>5. CASE SetCreativeSlot(e)
  <2>1. /\ phase = "drain" /\ phase' = phase /\ Met' = Met
        /\ UNCHANGED <<players, player_count, saved_players>>
    BY <1>1, <1>5 DEF SetCreativeSlot
  <2>2. CASE e \in DOMAIN inventories /\ inventories[e].progress < MaxProgress
    <3>1. inventories' = [inventories EXCEPT ![e].progress = @ + 1]
      BY <1>5, <2>2 DEF SetCreativeSlot
    <3>2. Held' = [Held EXCEPT ![e] = @ + 1]
      BY <1>0, <2>2, <3>1 DEF Held, Inventory
    <3>3. Register!Change(e)
      BY <1>0, <2>1, <2>2, <3>2 DEF Register!Change, Held, Met, Stopped
    <3>4. QED
      BY <3>3 DEF Register!Next
  <2>3. CASE ~(e \in DOMAIN inventories /\ inventories[e].progress < MaxProgress)
    <3>1. inventories' = inventories
      BY <1>5, <2>3 DEF SetCreativeSlot
    <3>2. QED
      BY <1>2, <2>1, <3>1 DEF Held
  <2>4. QED
    BY <2>2, <2>3
<1>6. CASE Respawn(e)
  <2>1. /\ phase = "drain" /\ phase' = phase /\ Met' = Met
        /\ UNCHANGED <<players, player_count, saved_players>>
    BY <1>1, <1>6 DEF Respawn
  <2>2. inventories' = inventories \/ inventories' = [inventories EXCEPT ![e].is_dead = FALSE]
    BY <1>6 DEF Respawn
  <2>3. Held' = Held
    BY <1>0, <2>2, HeldSame DEF Inventory
  <2>4. QED
    BY <1>2, <2>1, <2>3
<1>7. CASE DigStart(e) \/ DigStop(e) \/ OpenChest(e) \/ CloseContainer(e) \/ Dimension(e)
  <2>1. /\ phase = "drain" /\ phase' = phase /\ Met' = Met
    BY <1>1, <1>7 DEF DigStart, DigStop, OpenChest, CloseContainer, Dimension
  <2>2. UNCHANGED <<players, inventories, player_count, saved_players>>
    BY <1>7 DEF DigStart, DigStop, OpenChest, CloseContainer, Dimension
  <2>3. QED
    BY <1>2, <2>1, <2>2 DEF Held
<1>8. QED
    BY <1>3, <1>4, <1>5, <1>6, <1>7 DEF Handle

\* Whatever is in the channel, each session is entered and left once, begins
\* with what was stored of its user and is stored at its leave and at a stop.
\* (tick.rs:1009-1080, 1155-1190)
THEOREM ImplementsPlayerRegistry == Spec => KeepsRegister
<1>1. Init => Register!Init
  <2> SUFFICES ASSUME Init PROVE Register!Init
    OBVIOUS
  <2>1. Held = [s \in {} |-> 0] /\ Met = {}
    BY DEF Init, Held, Met
  <2>2. QED
    BY <2>1 DEF Init, Register!Init, Held, Met, Stopped
<1>2. TypeOK /\ MapsAgree /\ SessionsInOrder /\ [Next]_vars => [Register!Next]_(Register!vars)
  <2> SUFFICES ASSUME TypeOK, MapsAgree, SessionsInOrder, [Next]_vars
               PROVE  Register!Next \/ UNCHANGED Register!vars
    OBVIOUS
  <2> USE DEF perPlayer
  <2>1. session \in [Entity -> {"unused", "live", "closed"}]
    BY DEF TypeOK
  <2>2. ASSUME Met' = Met, UNCHANGED <<players, inventories, player_count, saved_players, phase>>
        PROVE  UNCHANGED Register!vars
    BY <2>2 DEF Register!vars, Met, Stopped
  <2>3. ASSUME NEW e \in Entity, Connect(e) PROVE UNCHANGED Register!vars
    <3>1. Msg("PlayerJoined", e) \in Message
      BY MsgType DEF MessageType
    <3>2. \A f \in Entity : /\ f = e => session[f] = "unused" /\ session'[f] = "live"
                            /\ f # e => session'[f] = session[f]
                                        /\ Msg("PlayerJoined", e) # Msg("PlayerJoined", f)
      BY <2>1, <2>3 DEF Connect, Msg
    <3>3. Met' = Met
      BY <2>3, <3>1, <3>2, SendMeetsNobody DEF Connect
    <3>4. QED
      BY <2>2, <2>3, <3>3 DEF Connect
  <2>4. ASSUME NEW e \in Entity, NEW t \in Gameplay, Send(e, t) PROVE UNCHANGED Register!vars
    <3>1. Msg(t, e) \in Message /\ \A f \in Entity : Msg(t, e) # Msg("PlayerJoined", f)
      BY MsgType DEF MessageType, Msg, Gameplay
    <3>2. Met' = Met
      BY <2>4, <3>1, SendMeetsNobody DEF Send
    <3>3. QED
      BY <2>2, <2>4, <3>2 DEF Send
  <2>5. ASSUME NEW e \in Entity, Disconnect(e) PROVE UNCHANGED Register!vars
    <3>1. /\ Msg("PlayerLeft", e) \in Message
          /\ \A f \in Entity : Msg("PlayerLeft", e) # Msg("PlayerJoined", f)
      BY MsgType DEF MessageType, Msg
    <3>2. \A f \in Entity : session'[f] = "unused" <=> session[f] = "unused"
      BY <2>1, <2>5 DEF Disconnect
    <3>3. queue' = Append(queue, Msg("PlayerLeft", e)) \/ queue' = queue
      BY <2>5 DEF Disconnect
    <3>4. Met' = Met
      BY <3>1, <3>2, <3>3, SendMeetsNobody
    <3>5. QED
      BY <2>2, <2>5, <3>4 DEF Disconnect
  <2>6. CASE SendShutdown
    <3>1. /\ Msg("Shutdown", NoEntity) \in Message
          /\ \A f \in Entity : Msg("Shutdown", NoEntity) # Msg("PlayerJoined", f)
      BY MsgType DEF MessageType, Msg
    <3>2. UNCHANGED session /\ (queue' = Append(queue, Msg("Shutdown", NoEntity)) \/ queue' = queue)
      BY <2>6 DEF SendShutdown
    <3>3. Met' = Met
      BY <3>1, <3>2, SendMeetsNobody
    <3>4. QED
      BY <2>2, <2>6, <3>3 DEF SendShutdown
  <2>7. CASE RaiseFlag \/ EnterTick \/ UNCHANGED vars
    <3>1. UNCHANGED <<session, queue, players, inventories, player_count, saved_players>>
          /\ Stopped' = Stopped
      BY <2>7 DEF RaiseFlag, EnterTick, vars, Stopped
    <3>2. Met' = Met
      BY <3>1 DEF Met, Queued
    <3>3. QED
      BY <3>1, <3>2 DEF Register!vars, Met
  <2>8. CASE Shutdown \/ FlushAndStop
    <3>1. /\ Merged(saved_players') /\ phase # "stopped" /\ phase' = "stopped"
          /\ queue' = <<>>
          /\ UNCHANGED <<session, players, inventories, player_count>>
      BY <2>8 DEF Shutdown, FlushAndStop
    <3>2. Met \subseteq Met'
      BY <3>1 DEF Met, Queued
    <3>3. Register!Close
      BY <3>1, <3>2, MergedStores DEF Register!Close, Met, Stopped
    <3>4. QED
      BY <3>3 DEF Register!Next
  <2>9. CASE Periodic
    BY <2>9, TickStores DEF Register!Next
  <2>10. ASSUME NEW e \in Entity, Handle(e) PROVE Register!Next \/ UNCHANGED Register!vars
    BY <2>10, HandleRegisters
  <2>11. QED
    BY <2>3, <2>4, <2>5, <2>6, <2>7, <2>8, <2>9, <2>10 DEF Next, TickThread
<1>3. QED
    BY <1>1, <1>2, TypeCorrect, MapsAlwaysAgree, SessionsAlwaysInOrder, PTL
       DEF Spec, KeepsRegister, Register!Spec

-----------------------------------------------------------------------------
(* Saves never go back, if users do not overlap with themselves *)

\* Who has ended is known only as long as their leave is under way.
LeaveComes ==
    \A e \in Entity : session[e] = "closed" /\ Known(e) /\ ~Stopped => Queued("PlayerLeft", e)

\* Of two sessions of one user, one is over.
OneSession ==
    \A e, f \in Entity : e # f /\ UserOf[e] = UserOf[f] => Gone(e) \/ Gone(f)

\* What a player has is no older than what was saved of their user.
AheadOfSave == \A e \in players : saved_players[UserOf[e]] <= inventories[e].progress

\* What is queued after a message is sent.
LEMMA QueuedAfterSend ==
    ASSUME TypeOK, NEW m \in Message, queue' = Append(queue, m), NEW t, NEW e
    PROVE  Queued(t, e)' <=> Queued(t, e) \/ m = Msg(t, e)
<1>1. queue \in Seq(Message)
    BY DEF TypeOK
<1>2. /\ Len(queue) \in Nat /\ Len(queue') = Len(queue) + 1
      /\ \A i \in 1..Len(queue) : queue'[i] = queue[i]
      /\ queue'[Len(queue) + 1] = m
    BY <1>1, AppendToQueue
<1>3. QED
    BY <1>2 DEF Queued, Msg

\* What is queued after one is handled.
LEMMA QueuedAfterReceive ==
    ASSUME TypeOK, NEW t, NEW e, Receive(t, e), NEW t2, NEW f
    PROVE  /\ Queued(t, e)
           /\ Queued(t2, f)' => Queued(t2, f)
           /\ Msg(t2, f) # Msg(t, e) /\ Queued(t2, f) => Queued(t2, f)'
<1>1. queue \in Seq(Message) /\ queue # <<>> /\ queue' = Tail(queue) /\ Head(queue) = Msg(t, e)
    BY DEF Receive, TypeOK
<1>2. /\ Len(queue) \in Nat \ {0} /\ Len(queue') = Len(queue) - 1 /\ queue[1] = Msg(t, e)
      /\ \A i \in 1..Len(queue') : queue'[i] = queue[i + 1]
    BY <1>1, TakeFromQueue
<1>3. Queued(t, e)
    BY <1>2, 1 \in 1..Len(queue) DEF Queued
<1>4. ASSUME NEW i \in 1..Len(queue'), queue'[i] = Msg(t2, f) PROVE Queued(t2, f)
    BY <1>2, <1>4, i + 1 \in 1..Len(queue) DEF Queued
<1>5. ASSUME NEW i \in 1..Len(queue), queue[i] = Msg(t2, f), Msg(t2, f) # Msg(t, e)
      PROVE  Queued(t2, f)'
  <2>1. i # 1 /\ i - 1 \in 1..Len(queue') /\ queue'[i - 1] = queue[i]
    BY <1>2, <1>5
  <2>2. QED
    BY <1>5, <2>1 DEF Queued, Msg
<1>6. QED
    BY <1>3, <1>4, <1>5 DEF Queued, Msg

\* Which players a handled message adds and removes.
LEMMA HandledPlayers ==
    ASSUME TypeOK, NEW e \in Entity, Handle(e)
    PROVE  \E t : /\ Receive(t, e)
                  /\ players' = CASE t = "PlayerJoined" -> players \cup {e}
                                  [] t = "PlayerLeft" -> players \ {e}
                                  [] OTHER -> players
<1>1. ASSUME NEW t, Receive(t, e),
             t = "PlayerJoined" => players' = players \cup {e},
             t = "PlayerLeft" => players' = players \ {e},
             t \notin {"PlayerJoined", "PlayerLeft"} => players' = players
      PROVE  players' = CASE t = "PlayerJoined" -> players \cup {e}
                          [] t = "PlayerLeft" -> players \ {e}
                          [] OTHER -> players
    BY <1>1
<1>2. CASE PlayerJoined(e)
    BY <1>1, <1>2 DEF PlayerJoined
<1>3. CASE PlayerLeft(e)
    BY <1>1, <1>3 DEF PlayerLeft, Forget
<1>4. CASE DigStart(e)
    BY <1>1, <1>4 DEF DigStart
<1>5. CASE DigStop(e)
    BY <1>1, <1>5 DEF DigStop
<1>6. CASE SetCreativeSlot(e)
    BY <1>1, <1>6 DEF SetCreativeSlot
<1>7. CASE OpenChest(e)
    BY <1>1, <1>7 DEF OpenChest
<1>8. CASE CloseContainer(e)
    BY <1>1, <1>8 DEF CloseContainer
<1>9. CASE Dimension(e)
    BY <1>1, <1>9 DEF Dimension
<1>10. CASE Respawn(e)
    BY <1>1, <1>10 DEF Respawn
<1>11. QED
    BY <1>2, <1>3, <1>4, <1>5, <1>6, <1>7, <1>8, <1>9, <1>10 DEF Handle

\* The leave of a session that has ended is under way until it is handled.
LEMMA NextLeaveComes == TypeOK /\ SessionsInOrder /\ LeaveComes /\ [Next]_vars => LeaveComes'
<1> SUFFICES ASSUME TypeOK, SessionsInOrder, LeaveComes, [Next]_vars PROVE LeaveComes'
    OBVIOUS
<1> USE DEF perPlayer
<1>0. session \in [Entity -> {"unused", "live", "closed"}] /\ queue \in Seq(Message)
    BY DEF TypeOK
<1>1. ASSUME UNCHANGED <<session, queue, players>>, phase' = "stopped" <=> phase = "stopped"
      PROVE  LeaveComes'
    BY <1>1 DEF LeaveComes, Known, Queued, Stopped
<1>2. ASSUME NEW e \in Entity, Connect(e) PROVE LeaveComes'
  <2>1. Msg("PlayerJoined", e) \in Message
    BY MsgType DEF MessageType
  <2>2. \A f \in Entity : session'[f] = "closed" => f # e /\ session[f] = "closed"
    BY <1>0, <1>2 DEF Connect
  <2>3. ASSUME NEW f \in Entity, f # e, Known(f)' PROVE Known(f)
    BY <1>2, <2>1, <2>3, QueuedAfterSend DEF Connect, Known, Msg
  <2>4. \A f \in Entity : Queued("PlayerLeft", f) => Queued("PlayerLeft", f)'
    BY <1>2, <2>1, QueuedAfterSend DEF Connect
  <2>5. QED
    BY <1>2, <2>2, <2>3, <2>4 DEF Connect, LeaveComes, Stopped
<1>3. \* A message that is no join.
      ASSUME NEW m \in Message, queue' = Append(queue, m), m.type # "PlayerJoined",
             UNCHANGED <<players, phase>>,
             \A f \in Entity : session'[f] = "closed" =>
                 session[f] = "closed" \/ m = Msg("PlayerLeft", f)
      PROVE  LeaveComes'
  <2>1. \A f \in Entity : Queued("PlayerLeft", f)' <=> Queued("PlayerLeft", f) \/ m = Msg("PlayerLeft", f)
    BY <1>3, QueuedAfterSend
  <2>2. \A f \in Entity : Queued("PlayerJoined", f)' => Queued("PlayerJoined", f)
    BY <1>3, QueuedAfterSend DEF Msg
  <2>3. QED
    BY <1>3, <2>1, <2>2 DEF LeaveComes, Known, Stopped
<1>4. ASSUME NEW e \in Entity, NEW t \in Gameplay, Send(e, t) PROVE LeaveComes'
  <2>1. Msg(t, e) \in Message /\ Msg(t, e).type # "PlayerJoined"
    BY MsgType DEF MessageType, Gameplay
  <2>2. QED
    BY <1>3, <1>4, <2>1 DEF Send
<1>5. ASSUME NEW e \in Entity, Disconnect(e) PROVE LeaveComes'
  <2>1. Msg("PlayerLeft", e) \in Message /\ Msg("PlayerLeft", e).type # "PlayerJoined"
    BY MsgType DEF MessageType
  <2>2. \A f \in Entity : session'[f] = "closed" => session[f] = "closed" \/ f = e
    BY <1>0, <1>5 DEF Disconnect
  <2>3. CASE Stopped
    BY <1>5, <2>3 DEF Disconnect, LeaveComes, Stopped
  <2>4. CASE ~Stopped
    BY <1>3, <1>5, <2>1, <2>2, <2>4 DEF Disconnect
  <2>5. QED
    BY <2>3, <2>4
<1>6. CASE SendShutdown
  <2>1. /\ Msg("Shutdown", NoEntity) \in Message
        /\ Msg("Shutdown", NoEntity).type # "PlayerJoined"
    BY MsgType DEF MessageType
  <2>2. CASE Stopped
    BY <1>6, <2>2 DEF SendShutdown, LeaveComes, Stopped
  <2>3. CASE ~Stopped
    BY <1>3, <1>6, <2>1, <2>3 DEF SendShutdown
  <2>4. QED
    BY <2>2, <2>3
<1>7. CASE Shutdown \/ FlushAndStop
    BY <1>7 DEF Shutdown, FlushAndStop, LeaveComes, Stopped
<1>8. ASSUME NEW e \in Entity, Handle(e) PROVE LeaveComes'
  <2>1. PICK t : /\ Receive(t, e)
                 /\ players' = CASE t = "PlayerJoined" -> players \cup {e}
                                 [] t = "PlayerLeft" -> players \ {e}
                                 [] OTHER -> players
    BY <1>8, HandledPlayers
  <2>2. /\ UNCHANGED session /\ phase = "drain" /\ queue # <<>>
        /\ Head(queue).type = t /\ Head(queue).e = e
    BY <2>1, ReceiveTypes
  <2>3. SUFFICES ASSUME NEW f \in Entity, session[f] = "closed", Known(f)'
                 PROVE  Queued("PlayerLeft", f)'
    BY <2>2 DEF LeaveComes
  <2>4. Known(f)
    <3>1. f \in players' => f \in players \/ (t = "PlayerJoined" /\ f = e)
      BY <2>1
    <3>2. t = "PlayerJoined" => Queued("PlayerJoined", e)
      BY <2>1, QueuedAfterReceive
    <3>3. Queued("PlayerJoined", f)' => Queued("PlayerJoined", f)
      BY <2>1, QueuedAfterReceive
    <3>4. QED
      BY <2>3, <3>1, <3>2, <3>3 DEF Known
  <2>5. Queued("PlayerLeft", f)
    BY <2>2, <2>3, <2>4 DEF LeaveComes, Stopped
  <2>6. CASE Msg("PlayerLeft", f) # Msg(t, e)
    BY <2>1, <2>5, <2>6, QueuedAfterReceive
  <2>7. CASE Msg("PlayerLeft", f) = Msg(t, e)
    <3>1. t = "PlayerLeft" /\ f = e
      BY <2>7 DEF Msg
    <3>2. f \notin players' /\ e \in players
      BY <2>1, <3>1, ReceivesInOrder
    <3>3. Queued("PlayerJoined", f)
      BY <2>1, <2>3, <3>2, QueuedAfterReceive DEF Known
    <3>4. PICK i \in 1..Len(queue) : queue[i] = Msg("PlayerJoined", f)
      BY <3>3 DEF Queued
    <3>5. queue[i].type = "PlayerJoined" /\ queue[i].e = e
      BY <3>1, <3>4, MsgType DEF Msg
    <3>6. e \notin players
      BY <3>5 DEF SessionsInOrder
    <3>7. QED
      BY <3>2, <3>6
  <2>8. QED
    BY <2>6, <2>7
<1>9. CASE RaiseFlag \/ EnterTick \/ Periodic \/ UNCHANGED vars
    BY <1>1, <1>9 DEF RaiseFlag, EnterTick, Periodic, Tick, vars
<1>10. QED
    BY <1>2, <1>4, <1>5, <1>6, <1>7, <1>8, <1>9 DEF Next, TickThread

\* A session that is over stays so, unless its user logs in with it.
LEMMA GoneStays ==
    ASSUME TypeOK, SessionsInOrder, LeaveComes, [Next]_vars, NEW f \in Entity, Gone(f),
           ~Connect(f)
    PROVE  Gone(f)'
<1> USE DEF perPlayer
<1>0. session \in [Entity -> {"unused", "live", "closed"}]
    BY DEF TypeOK
<1>1. session'[f] = session[f]
  <2>1. CASE UNCHANGED session
    BY <2>1
  <2>2. ASSUME NEW e \in Entity, Connect(e) \/ Disconnect(e) PROVE session'[f] = session[f]
    BY <1>0, <2>2 DEF Connect, Disconnect, Gone
  <2>3. ASSUME NEW e \in Entity, Handle(e) PROVE UNCHANGED session
    BY <2>3, HandledPlayers, ReceiveTypes
  <2>4. QED
    BY <2>1, <2>2, <2>3 DEF Next, TickThread, Send, RaiseFlag, SendShutdown, Shutdown, Periodic,
                            Tick, EnterTick, FlushAndStop, vars
<1>2. CASE session[f] = "unused"
    BY <1>1, <1>2 DEF Gone
<1>3. CASE session[f] # "unused"
  <2>1. session[f] = "closed" /\ f \notin players /\ ~Queued("PlayerLeft", f)
    BY <1>3 DEF Gone
  <2>2. SUFFICES f \notin players' /\ ~Queued("PlayerLeft", f)'
    BY <1>1, <2>1 DEF Gone
  <2>3. ASSUME UNCHANGED <<queue, players>> PROVE f \notin players' /\ ~Queued("PlayerLeft", f)'
    BY <2>1, <2>3 DEF Queued
  <2>4. ASSUME NEW m \in Message, m # Msg("PlayerLeft", f),
               queue' = Append(queue, m) \/ queue' = queue, UNCHANGED players
        PROVE  f \notin players' /\ ~Queued("PlayerLeft", f)'
    BY <2>1, <2>3, <2>4, QueuedAfterSend
  <2>5. ASSUME NEW e \in Entity, Connect(e)
        PROVE  f \notin players' /\ ~Queued("PlayerLeft", f)'
    <3>1. Msg("PlayerJoined", e) \in Message /\ Msg("PlayerJoined", e) # Msg("PlayerLeft", f)
      BY MsgType DEF MessageType, Msg
    <3>2. QED
      BY <2>4, <2>5, <3>1 DEF Connect
  <2>6. ASSUME NEW e \in Entity, NEW t \in Gameplay, Send(e, t)
        PROVE  f \notin players' /\ ~Queued("PlayerLeft", f)'
    <3>1. Msg(t, e) \in Message /\ Msg(t, e) # Msg("PlayerLeft", f)
      BY MsgType DEF MessageType, Msg, Gameplay
    <3>2. QED
      BY <2>4, <2>6, <3>1 DEF Send
  <2>7. ASSUME NEW e \in Entity, Disconnect(e)
        PROVE  f \notin players' /\ ~Queued("PlayerLeft", f)'
    <3>1. e # f
      BY <2>1, <2>7 DEF Disconnect
    <3>2. Msg("PlayerLeft", e) \in Message /\ Msg("PlayerLeft", e) # Msg("PlayerLeft", f)
      BY <3>1, MsgType DEF MessageType, Msg
    <3>3. QED
      BY <2>4, <2>7, <3>2 DEF Disconnect
  <2>8. CASE SendShutdown
    <3>1. /\ Msg("Shutdown", NoEntity) \in Message
          /\ Msg("Shutdown", NoEntity) # Msg("PlayerLeft", f)
      BY MsgType DEF MessageType, Msg
    <3>2. QED
      BY <2>4, <2>8, <3>1 DEF SendShutdown
  <2>9. CASE Shutdown \/ FlushAndStop
    BY <2>1, <2>9 DEF Shutdown, FlushAndStop, Queued
  <2>10. ASSUME NEW e \in Entity, Handle(e)
         PROVE  f \notin players' /\ ~Queued("PlayerLeft", f)'
    <3>1. PICK t : /\ Receive(t, e)
                   /\ players' = CASE t = "PlayerJoined" -> players \cup {e}
                                   [] t = "PlayerLeft" -> players \ {e}
                                   [] OTHER -> players
      BY <2>10, HandledPlayers
    <3>2. ~Queued("PlayerLeft", f)'
      BY <2>1, <3>1, QueuedAfterReceive
    <3>3. ASSUME t = "PlayerJoined", e = f PROVE FALSE
      <4>1. Queued("PlayerJoined", f) /\ phase = "drain"
        BY <3>1, <3>3, QueuedAfterReceive, ReceiveTypes
      <4>2. QED
        BY <2>1, <4>1 DEF LeaveComes, Known, Stopped
    <3>4. QED
      BY <2>1, <3>1, <3>2, <3>3
  <2>11. CASE RaiseFlag \/ EnterTick \/ Periodic \/ UNCHANGED vars
    BY <2>3, <2>11 DEF RaiseFlag, EnterTick, Periodic, Tick, vars
  <2>12. QED
    BY <2>5, <2>6, <2>7, <2>8, <2>9, <2>10, <2>11 DEF Next, TickThread
<1>4. QED
    BY <1>2, <1>3

\* A user has one session at a time, where the login waits for the old one.
LEMMA NextOneSession ==
    ~Overlap /\ TypeOK /\ SessionsInOrder /\ LeaveComes /\ OneSession /\ [Next]_vars => OneSession'
<1> SUFFICES ASSUME ~Overlap, TypeOK, SessionsInOrder, LeaveComes, OneSession, [Next]_vars,
                    NEW e \in Entity, NEW f \in Entity, e # f, UserOf[e] = UserOf[f]
             PROVE  Gone(e)' \/ Gone(f)'
    BY DEF OneSession
<1>1. \A g \in Entity : Connect(g) =>
          /\ \A h \in Entity : UserOf[h] = UserOf[g] => Gone(h)
          /\ session' = [session EXCEPT ![g] = "live"]
    BY DEF Connect
<1>2. CASE Connect(e) \/ Connect(f)
  <2>1. Gone(e) /\ Gone(f)
    BY <1>1, <1>2
  <2>2. ~(Connect(e) /\ Connect(f))
    BY <1>1, session \in [Entity -> {"unused", "live", "closed"}],
       "live" # "unused" DEF TypeOK, Connect
  <2>3. QED
    BY <2>1, <2>2, GoneStays
<1>3. CASE ~Connect(e) /\ ~Connect(f)
    BY <1>3, GoneStays DEF OneSession
<1>4. QED
    BY <1>2, <1>3

\* Nobody who is online is behind what was saved.
LEMMA SaveStep ==
    ASSUME TypeOK, MapsAgree, SessionsInOrder, LeaveComes, OneSession, AheadOfSave, [Next]_vars
    PROVE  /\ AheadOfSave'
           /\ \A u \in User : saved_players'[u] >= saved_players[u]
<1> USE DEF perPlayer
<1>0. /\ DOMAIN inventories = players /\ players \subseteq Entity
      /\ \A e \in players : /\ inventories[e] \in Inventory /\ UserOf[e] \in User
                            /\ inventories[e].progress \in Nat
                            /\ saved_players[UserOf[e]] <= inventories[e].progress
      /\ saved_players \in [User -> 0..MaxProgress]
      /\ \A u \in User : saved_players[u] \in Nat
    BY ConstantsAssumption DEF TypeOK, MapsAgree, SavedStates, Inventory, AheadOfSave
<1>1. \A e, f \in players : UserOf[e] = UserOf[f] => e = f
  <2>1. \A e \in players : ~Gone(e)
    BY <1>0 DEF Gone, SessionsInOrder
  <2>2. QED
    BY <1>0, <2>1 DEF OneSession
<1>2. \* Nothing that counts changes, or someone gets ahead.
      ASSUME UNCHANGED <<players, saved_players>>,
             \A e \in players : /\ inventories'[e].progress \in Nat
                                /\ inventories'[e].progress >= inventories[e].progress
      PROVE  /\ AheadOfSave'
             /\ \A u \in User : saved_players'[u] >= saved_players[u]
  <2>1. ASSUME NEW e \in players PROVE saved_players[UserOf[e]] <= inventories'[e].progress
    BY <1>0, <1>2, <2>1
  <2>2. QED
    BY <1>0, <1>2, <2>1 DEF AheadOfSave
<1>3. ASSUME UNCHANGED <<players, inventories, saved_players>>
      PROVE  /\ AheadOfSave'
             /\ \A u \in User : saved_players'[u] >= saved_players[u]
    BY <1>0, <1>2, <1>3
<1>4. \* Everyone online is saved.
      ASSUME Merged(saved_players'), UNCHANGED players,
             \A e \in players : inventories'[e].progress = inventories[e].progress
      PROVE  /\ AheadOfSave'
             /\ \A u \in User : saved_players'[u] >= saved_players[u]
  <2>1. \A e \in players : saved_players'[UserOf[e]] = inventories[e].progress
    BY <1>0, <1>1, <1>4 DEF Merged
  <2>2. ASSUME NEW u \in User PROVE saved_players'[u] >= saved_players[u]
    <3>1. CASE \E e \in players : UserOf[e] = u
      BY <1>0, <2>1, <3>1
    <3>2. CASE ~\E e \in players : UserOf[e] = u
      <4>1. {e \in players \cap DOMAIN inventories : UserOf[e] = u} = {}
        BY <3>2
      <4>2. saved_players'[u] = saved_players[u]
        BY <1>4, <4>1 DEF Merged
      <4>3. QED
        BY <1>0, <4>2
    <3>3. QED
      BY <3>1, <3>2
  <2>3. ASSUME NEW e \in players PROVE saved_players'[UserOf[e]] <= inventories'[e].progress
    BY <1>0, <1>4, <2>1
  <2>4. QED
    BY <1>4, <2>2, <2>3 DEF AheadOfSave
<1>5. ASSUME NEW e \in Entity, Handle(e)
      PROVE  /\ AheadOfSave'
             /\ \A u \in User : saved_players'[u] >= saved_players[u]
  <2>1. CASE PlayerJoined(e)
    <3>1. /\ players' = players \cup {e} /\ UNCHANGED saved_players
          /\ inventories' = Put(inventories, e, [progress |-> saved_players[UserOf[e]], is_dead |-> FALSE])
      BY <2>1 DEF PlayerJoined, Restored
    <3>2. e \notin players
      BY <2>1, ReceivesInOrder DEF PlayerJoined
    <3>3. /\ \A f \in players : inventories'[f] = inventories[f]
          /\ inventories'[e].progress = saved_players[UserOf[e]]
      BY <1>0, <3>1, <3>2 DEF Put
    <3>4. UserOf[e] \in User
      BY ConstantsAssumption
    <3>5. saved_players[UserOf[e]] <= saved_players[UserOf[e]]
      BY <1>0, <3>4
    <3>6. \A f \in players \cup {e} : saved_players[UserOf[f]] <= inventories'[f].progress
      BY <1>0, <3>3, <3>5
    <3>7. AheadOfSave'
      BY <3>1, <3>6 DEF AheadOfSave
    <3>8. \A u \in User : saved_players[u] >= saved_players[u]
      BY <1>0
    <3>9. QED
      BY <3>1, <3>7, <3>8
  <2>2. CASE PlayerLeft(e)
    <3>1. e \in players
      BY <2>2, ReceivesInOrder DEF PlayerLeft
    <3>2. /\ players' = players \ {e} /\ inventories' = Without(inventories, {e})
          /\ saved_players' = [saved_players EXCEPT ![UserOf[e]] = inventories[e].progress]
      BY <1>0, <2>2, <3>1 DEF PlayerLeft, Forget
    <3>3. \A u \in User : saved_players'[u] = IF u = UserOf[e] THEN inventories[e].progress
                                                               ELSE saved_players[u]
      BY <1>0, <3>2
    <3>4. ASSUME NEW u \in User PROVE saved_players'[u] >= saved_players[u]
      BY <1>0, <3>1, <3>3
    <3>5. ASSUME NEW f \in players' PROVE saved_players'[UserOf[f]] <= inventories'[f].progress
      <4>1. f \in players /\ UserOf[f] # UserOf[e] /\ inventories'[f] = inventories[f]
        BY <1>0, <1>1, <3>1, <3>2 DEF Without
      <4>2. QED
        BY <1>0, <3>3, <4>1
    <3>6. QED
      BY <3>4, <3>5 DEF AheadOfSave
  <2>3. CASE SetCreativeSlot(e)
    <3>1. UNCHANGED <<players, saved_players>>
      BY <2>3 DEF SetCreativeSlot
    <3>2. \/ inventories' = inventories
          \/ e \in DOMAIN inventories /\ inventories' = [inventories EXCEPT ![e].progress = @ + 1]
      BY <2>3 DEF SetCreativeSlot
    <3>3. ASSUME NEW f \in players
          PROVE  /\ inventories'[f].progress \in Nat
                 /\ inventories'[f].progress >= inventories[f].progress
      BY <1>0, <3>2 DEF Inventory
    <3>4. QED
      BY <1>2, <3>1, <3>3
  <2>4. CASE Respawn(e)
    <3>1. UNCHANGED <<players, saved_players>>
      BY <2>4 DEF Respawn
    <3>2. inventories' = inventories \/ inventories' = [inventories EXCEPT ![e].is_dead = FALSE]
      BY <2>4 DEF Respawn
    <3>3. ASSUME NEW f \in players
          PROVE  /\ inventories'[f].progress \in Nat
                 /\ inventories'[f].progress >= inventories[f].progress
      BY <1>0, <3>2 DEF Inventory
    <3>4. QED
      BY <1>2, <3>1, <3>3
  <2>5. CASE DigStart(e) \/ DigStop(e) \/ OpenChest(e) \/ CloseContainer(e) \/ Dimension(e)
    BY <1>3, <2>5 DEF DigStart, DigStop, OpenChest, CloseContainer, Dimension
  <2>6. QED
    BY <1>5, <2>1, <2>2, <2>3, <2>4, <2>5 DEF Handle
<1>6. CASE Shutdown \/ FlushAndStop
    BY <1>4, <1>6 DEF Shutdown, FlushAndStop
<1>7. CASE Periodic
  <2>1. PICK slain \in SUBSET Alive, closed \in SUBSET open_windows, due \in BOOLEAN :
            \E starved \in SUBSET (Alive \ slain) : Tick(slain, starved, closed, due)
    BY <1>7 DEF Periodic
  <2>2. PICK starved \in SUBSET (Alive \ slain) : Tick(slain, starved, closed, due)
    BY <2>1
  <2>3. /\ UNCHANGED players
        /\ inventories' = [e \in DOMAIN inventories |->
               IF e \in slain \cup starved THEN [inventories[e] EXCEPT !.is_dead = TRUE]
                                           ELSE inventories[e]]
        /\ IF due THEN Merged(saved_players') ELSE UNCHANGED saved_players
    BY <2>2 DEF Tick
  <2>4. ASSUME NEW e \in players
        PROVE  /\ inventories'[e].progress \in Nat
               /\ inventories'[e].progress = inventories[e].progress
    BY <1>0, <2>3 DEF Inventory
  <2>5. QED
    BY <1>0, <1>2, <1>4, <2>3, <2>4
<1>8. CASE UNCHANGED <<players, inventories, saved_players>>
    BY <1>3, <1>8
<1>9. QED
    BY <1>5, <1>6, <1>7, <1>8
    DEF Next, TickThread, Connect, Send, Disconnect, RaiseFlag, SendShutdown, EnterTick, vars

\* If a login waits until the old session of its user is over, no save takes back
\* what an earlier one recorded, for any number of users and reconnects.
\* (tick.rs:1155-1163, world.rs:1003-1030)
THEOREM SavesNeverGoBack == ~Overlap => (Spec => SavedNeverRegresses)
<1> SUFFICES ASSUME ~Overlap PROVE Spec => SavedNeverRegresses
    OBVIOUS
<1>1. Init => LeaveComes /\ OneSession /\ AheadOfSave
    BY DEF Init, LeaveComes, OneSession, AheadOfSave, Gone
<1>2. LeaveComes /\ OneSession /\ AheadOfSave /\ TypeOK /\ MapsAgree /\ SessionsInOrder
      /\ [Next]_vars => LeaveComes' /\ OneSession' /\ AheadOfSave'
    BY NextLeaveComes, NextOneSession, SaveStep
<1>3. TypeOK /\ MapsAgree /\ SessionsInOrder /\ LeaveComes /\ OneSession /\ AheadOfSave
      /\ [Next]_vars => [\A u \in User : saved_players'[u] >= saved_players[u]]_vars
    BY SaveStep
<1>4. QED
    BY <1>1, <1>2, <1>3, TypeCorrect, MapsAlwaysAgree, SessionsAlwaysInOrder, PTL
       DEF Spec, SavedNeverRegresses

=============================================================================
