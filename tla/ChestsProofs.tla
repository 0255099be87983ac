---------------------------- MODULE ChestsProofs ----------------------------
(***************************************************************************)
(* Proofs about Chests, for all players, positions and window ids and      *)
(* every bound.  The store follows the blocks by one fact per handler; the *)
(* properties of the windows rest on what a step may do to one player      *)
(* (PlayerStep) and on the ids of the windows a player can still meet      *)
(* being told apart (IdsApart).                                            *)
(***************************************************************************)
EXTENDS Chests, QueueLemmas

-----------------------------------------------------------------------------
(* Type correctness *)

\* The id of the next window is one of the 255 that are not the inventory's.
LEMMA NextIdType == TypeOK => NextWindowId \in 1..WindowIds
BY ConstantsAssumption DEF TypeOK, NextWindowId

\* The fields of messages and events have their types.
LEMMA FieldTypes ==
    /\ \A m \in Message : /\ m.type = "PlaceBlock" => /\ m.clicked \in Spot
                                                      /\ m.target \in Spot
                                                      /\ m.block \in Block \ {"air"}
                          /\ m.type \in {"SetBlock", "DigStart", "DigStop"} => m.spot \in Spot
                          /\ m.type \in {"ClickContainer", "CloseContainer"} => m.window \in Window
    /\ \A e \in Event : e.window \in Window
BY DEF Message, Event

\* Closing windows keeps the types of the windows and of the events.
LEMMA CloseTypes ==
    ASSUME TypeOK, NEW S \in SUBSET Player, CloseFor(S)
    PROVE  /\ open_windows' \in [Player -> Window \cup {NoWindow}]
           /\ to_client' \in [Player -> Seq(Event)]
           /\ UNCHANGED <<next_window_id, opens>>
<1>1. \A p \in Player : open_windows[p] # NoWindow =>
          [type |-> "CloseContainer", window |-> open_windows[p]] \in Event
    BY DEF TypeOK, Event
<1>2. \A p \in Player : open_windows[p] # NoWindow =>
          Append(to_client[p], [type |-> "CloseContainer", window |-> open_windows[p]]) \in Seq(Event)
    BY <1>1, Appended DEF TypeOK
<1>3. QED
    BY <1>2 DEF CloseFor, TypeOK

\* Opening a window does.
LEMMA OpenTypes ==
    ASSUME TypeOK, NEW p \in Player, NEW q \in Pos, OpenChest(p, q)
    PROVE  /\ open_windows' \in [Player -> Window \cup {NoWindow}]
           /\ to_client' \in [Player -> Seq(Event)]
           /\ next_window_id' \in 0..WindowIds
           /\ opens' \in 0..MaxOpens
           /\ chests' \subseteq Pos
           /\ UNCHANGED <<dimension, blocks>>
<1> DEFINE w == [id |-> NextWindowId, pos |-> q]
<1>1. w \in Window
    BY NextIdType DEF Window
<1>2. [type |-> "OpenScreen", window |-> w] \in Event
    BY <1>1 DEF Event
<1>3. Append(to_client[p], [type |-> "OpenScreen", window |-> w]) \in Seq(Event)
    BY <1>2, Appended DEF TypeOK
<1>4. opens' \in 0..MaxOpens
    BY ConstantsAssumption DEF OpenChest, TypeOK
<1>5. QED
    BY <1>1, <1>3, <1>4, NextIdType DEF OpenChest, TypeOK

\* Breaking and placing a block do.
LEMMA BlockTypes ==
    ASSUME TypeOK, NEW q \in Pos
    PROVE  /\ Break(q) => /\ blocks' \in [Pos -> Block]
                          /\ chests' \subseteq Pos
                          /\ UNCHANGED <<dimension, next_window_id, opens>>
                          /\ open_windows' \in [Player -> Window \cup {NoWindow}]
                          /\ to_client' \in [Player -> Seq(Event)]
           /\ \A b \in Block : Place(q, b) => /\ blocks' \in [Pos -> Block]
                                              /\ chests' \subseteq Pos
                                              /\ UNCHANGED <<dimension, windows, to_client>>
<1>1. Viewers(q) \in SUBSET Player
    BY DEF Viewers
<1>2. "air" \in Block
    BY DEF Block
<1>3. QED
    BY <1>1, <1>2, CloseTypes DEF Break, Place, TypeOK

\* A client's message and a handled one keep the type of the channel.
LEMMA ChannelTypes ==
    ASSUME TypeOK, NEW p \in Player
    PROVE  /\ \A m \in Message : ClientSends(p, m) => to_tick' \in [Player -> Seq(Message)]
           /\ \A t : Receive(p, t) => /\ to_tick' \in [Player -> Seq(Message)]
                                      /\ Head(to_tick[p]) \in Message
                                      /\ Head(to_tick[p]).type = t
<1>1. \A m \in Message : Append(to_tick[p], m) \in Seq(Message)
    BY Appended DEF TypeOK
<1>2. to_tick[p] # <<>> => /\ Tail(to_tick[p]) \in Seq(Message)
                           /\ Head(to_tick[p]) \in Message
    BY Taken DEF TypeOK
<1>3. QED
    BY <1>1, <1>2 DEF ClientSends, Receive, TypeOK

\* The messages a client may send are messages.
LEMMA SentTypes ==
    /\ \A t \in {"SetBlock", "DigStart", "DigStop"}, s \in Spot : [type |-> t, spot |-> s] \in Message
    /\ \A t \in {"ClickContainer", "CloseContainer"}, w \in Window : [type |-> t, window |-> w] \in Message
BY DEF Message

\* TypeOK holds initially.
LEMMA InitTypeOK == Init => TypeOK
BY ConstantsAssumption, EmptySeq DEF Init, TypeOK, Pos, Block

\* TypeOK is inductive, one step per action.
LEMMA NextTypeOK == TypeOK /\ [Next]_vars => TypeOK'
<1> SUFFICES ASSUME TypeOK, [Next]_vars PROVE TypeOK'
    OBVIOUS
<1> USE DEF world, windows
<1>1. ASSUME NEW p \in Player, Act(p) PROVE TypeOK'
  <2>1. PICK m \in Message : ClientSends(p, m)
      BY <1>1, SentTypes DEF Act
  <2>2. QED
      BY <1>1, <2>1, ChannelTypes DEF Act, TypeOK
<1>2. ASSUME NEW p \in Player, Click(p) \/ CloseScreen(p) PROVE TypeOK'
  <2>1. screen[p] \in Window
      BY <1>2 DEF Click, CloseScreen, TypeOK
  <2>2. PICK m \in Message : ClientSends(p, m)
      BY <1>2, <2>1, SentTypes DEF Click, CloseScreen
  <2>3. QED
      BY <1>2, <2>2, ChannelTypes DEF Click, CloseScreen, TypeOK
<1>3. ASSUME NEW p \in Player, Die(p) PROVE TypeOK'
    BY <1>3 DEF Die, TypeOK
<1>4. ASSUME NEW p \in Player, ClientReceives(p) PROVE TypeOK'
  <2>1. Tail(to_client[p]) \in Seq(Event) /\ Head(to_client[p]) \in Event
      BY <1>4, Taken DEF ClientReceives, TypeOK
  <2>2. to_client' \in [Player -> Seq(Event)] /\ screen' \in [Player -> Window \cup {NoWindow}]
      BY <1>4, <2>1, FieldTypes DEF ClientReceives, TypeOK
  <2>3. QED
      BY <1>4, <2>2 DEF ClientReceives, TypeOK
<1>5. ASSUME NEW p \in Player, PlaceBlock(p) PROVE TypeOK'
  <2> DEFINE m == Head(to_tick[p])
             clicked == <<dimension[p], m.clicked>>
             target == <<dimension[p], m.target>>
  <2>1. /\ to_tick' \in [Player -> Seq(Message)]
        /\ m.clicked \in Spot /\ m.target \in Spot /\ m.block \in Block
      BY <1>5, ChannelTypes, FieldTypes DEF PlaceBlock
  <2>2. clicked \in Pos /\ target \in Pos
      BY <2>1 DEF TypeOK, Pos
  <2>3. CASE OpenChest(p, clicked)
      BY <1>5, <2>1, <2>2, <2>3, OpenTypes DEF PlaceBlock, TypeOK
  <2>4. CASE Place(target, m.block)
      BY <1>5, <2>1, <2>2, <2>4, BlockTypes DEF PlaceBlock, TypeOK
  <2>5. CASE UNCHANGED <<world, windows, to_client>>
      BY <1>5, <2>1, <2>5 DEF PlaceBlock, TypeOK
  <2>6. QED
      BY <1>5, <2>3, <2>4, <2>5 DEF PlaceBlock
<1>6. ASSUME NEW p \in Player, SetBlock(p) PROVE TypeOK'
  <2>1. to_tick' \in [Player -> Seq(Message)] /\ Head(to_tick[p]).spot \in Spot
      BY <1>6, ChannelTypes, FieldTypes DEF SetBlock
  <2>2. <<dimension[p], Head(to_tick[p]).spot>> \in Pos
      BY <2>1 DEF TypeOK, Pos
  <2>3. QED
      BY <1>6, <2>1, <2>2, BlockTypes DEF SetBlock, TypeOK
<1>7. ASSUME NEW p \in Player, DigStart(p) \/ DigStop(p) PROVE TypeOK'
  <2>1. /\ to_tick' \in [Player -> Seq(Message)]
        /\ Head(to_tick[p]).spot \in Spot
      BY <1>7, ChannelTypes, FieldTypes DEF DigStart, DigStop
  <2>2. QED
      BY <1>7, <2>1 DEF DigStart, DigStop, TypeOK
<1>8. ASSUME NEW p \in Player, ClickContainer(p) PROVE TypeOK'
  <2>1. to_tick' \in [Player -> Seq(Message)]
      BY <1>8, ChannelTypes DEF ClickContainer
  <2>2. open_windows[p] # NoWindow => open_windows[p].pos \in Pos
      BY DEF TypeOK, Window
  <2>3. chests' \subseteq Pos
      BY <1>8, <2>2 DEF ClickContainer, IsOpen, TypeOK
  <2>4. QED
      BY <1>8, <2>1, <2>3 DEF ClickContainer, TypeOK
<1>9. ASSUME NEW p \in Player, CloseContainer(p) PROVE TypeOK'
  <2>1. to_tick' \in [Player -> Seq(Message)]
      BY <1>9, ChannelTypes DEF CloseContainer
  <2>2. QED
      BY <1>9, <2>1 DEF CloseContainer, TypeOK
<1>10. ASSUME NEW p \in Player, FinishDig(p) PROVE TypeOK'
  <2>1. <<dimension[p], break_progress[p]>> \in Pos
      BY <1>10 DEF FinishDig, TypeOK, Pos
  <2>2. QED
      BY <1>10, <2>1, BlockTypes DEF FinishDig, TypeOK
<1>11. ASSUME NEW p \in Player, NEW d \in Dimension, Transfer(p, d) PROVE TypeOK'
  <2>1. {p} \in SUBSET Player
      OBVIOUS
  <2>2. QED
      BY <1>11, <2>1, CloseTypes DEF Transfer, TypeOK
<1>12. ASSUME NEW s \in Spot, NEW b \in Block, ModSetBlock(s, b) PROVE TypeOK'
  <2>1. <<Overworld, s>> \in Pos
      BY ConstantsAssumption DEF Pos
  <2>2. QED
      BY <1>12, <2>1, BlockTypes DEF ModSetBlock, TypeOK
<1>13. CASE UNCHANGED vars
    BY <1>13 DEF vars, TypeOK
<1>14. QED
    BY <1>1, <1>2, <1>3, <1>4, <1>5, <1>6, <1>7, <1>8, <1>9, <1>10, <1>11, <1>12, <1>13
    DEF Next, Client, Handle

\* Every variable has its type, in every instance: a window in use never has
\* the id 0 (open_chest_for_player's wrapping_add).
THEOREM TypeCorrect == Spec => []TypeOK
<1>1. QED
    BY InitTypeOK, NextTypeOK, PTL DEF Spec

-----------------------------------------------------------------------------
(* Blocks, store and windows *)

Backed == StoreMatchesBlocks /\ WindowsBacked /\ WindowsInReach

\* A broken block takes its content and its windows with it.
LEMMA BreakBacked ==
    ASSUME TypeOK, Backed, NEW q \in Pos, Break(q)
    PROVE  Backed'
<1> USE DEF Backed, Break, CloseFor, Viewers, TypeOK
<1>1. StoreMatchesBlocks'
    BY DEF StoreMatchesBlocks
<1>2. ASSUME NEW p \in Player, open_windows'[p] # NoWindow
      PROVE  /\ open_windows'[p] = open_windows[p]
             /\ open_windows[p].pos # q
    BY <1>2
<1>3. WindowsBacked' /\ WindowsInReach'
    BY <1>2 DEF WindowsBacked, WindowsInReach
<1>4. QED
    BY <1>1, <1>3

\* Placing a block never leaves a content in the air.
LEMMA PlaceBacked ==
    ASSUME TypeOK, Backed, NEW q \in Pos, NEW b \in Block \ {"air"}, Place(q, b)
    PROVE  Backed'
BY DEF Backed, Place, windows, StoreMatchesBlocks, WindowsBacked, WindowsInReach, TypeOK

\* A window is opened on a chest in reach.
LEMMA OpenBacked ==
    ASSUME TypeOK, Backed, NEW p \in Player, NEW q \in Pos,
           q[1] = dimension[p], blocks[q] = "chest", OpenChest(p, q)
    PROVE  Backed'
<1> USE DEF Backed, OpenChest, TypeOK
<1>1. StoreMatchesBlocks'
    BY DEF StoreMatchesBlocks
<1>2. ASSUME NEW r \in Player, open_windows'[r] # NoWindow
      PROVE  /\ open_windows'[r].pos \in chests'
             /\ open_windows'[r].pos[1] = dimension'[r]
  <2>1. CASE r = p
      BY <2>1
  <2>2. CASE r # p
      BY <1>2, <2>2 DEF WindowsBacked, WindowsInReach
  <2>3. QED
      BY <2>1, <2>2
<1>3. QED
    BY <1>1, <1>2 DEF WindowsBacked, WindowsInReach

\* The three properties hold initially.
LEMMA InitBacked == Init => Backed
BY DEF Init, Backed, StoreMatchesBlocks, WindowsBacked, WindowsInReach, Pos

\* Together they are inductive: a click needs WindowsBacked so as not to make a
\* content where there is no chest.
LEMMA NextBacked == TypeOK /\ Backed /\ [Next]_vars => Backed'
<1> SUFFICES ASSUME TypeOK, Backed, [Next]_vars PROVE Backed'
    OBVIOUS
<1> USE DEF world, windows
<1>0. UNCHANGED <<world, open_windows>> => Backed'
    BY DEF Backed, StoreMatchesBlocks, WindowsBacked, WindowsInReach
<1>1. ASSUME NEW p \in Player, Client(p) PROVE Backed'
    BY <1>0, <1>1 DEF Client, Act, Click, CloseScreen, Die, ClientReceives
<1>2. ASSUME NEW p \in Player, PlaceBlock(p) PROVE Backed'
  <2> DEFINE m == Head(to_tick[p])
             clicked == <<dimension[p], m.clicked>>
             target == <<dimension[p], m.target>>
  <2>1. m.clicked \in Spot /\ m.target \in Spot /\ m.block \in Block \ {"air"}
      BY <1>2, ChannelTypes, FieldTypes DEF PlaceBlock
  <2>2. clicked \in Pos /\ target \in Pos /\ clicked[1] = dimension[p]
      BY <2>1 DEF TypeOK, Pos
  <2>3. CASE blocks[clicked] = "chest" /\ OpenChest(p, clicked)
      BY <2>2, <2>3, OpenBacked
  <2>4. CASE Place(target, m.block)
      BY <2>1, <2>2, <2>4, PlaceBacked
  <2>5. QED
      BY <1>0, <1>2, <2>3, <2>4 DEF PlaceBlock
<1>3. ASSUME NEW p \in Player, SetBlock(p) PROVE Backed'
  <2>1. Head(to_tick[p]).spot \in Spot
      BY <1>3, ChannelTypes, FieldTypes DEF SetBlock
  <2>2. <<dimension[p], Head(to_tick[p]).spot>> \in Pos
      BY <2>1 DEF TypeOK, Pos
  <2>3. QED
      BY <1>3, <2>2, BreakBacked DEF SetBlock
<1>4. ASSUME NEW p \in Player, DigStart(p) \/ DigStop(p) PROVE Backed'
    BY <1>0, <1>4 DEF DigStart, DigStop
<1>5. ASSUME NEW p \in Player, ClickContainer(p) PROVE Backed'
  <2>1. chests' = chests
      BY <1>5 DEF ClickContainer, IsOpen, Backed, WindowsBacked
  <2>2. QED
      BY <1>0, <1>5, <2>1 DEF ClickContainer
<1>6. ASSUME NEW p \in Player, CloseContainer(p) PROVE Backed'
  <2>1. UNCHANGED world
      BY <1>6 DEF CloseContainer
  <2>2. ASSUME NEW r \in Player, open_windows'[r] # NoWindow
        PROVE  open_windows'[r] = open_windows[r]
      BY <1>6, <2>2 DEF CloseContainer, TypeOK
  <2>3. QED
      BY <2>1, <2>2 DEF Backed, StoreMatchesBlocks, WindowsBacked, WindowsInReach
<1>7. ASSUME NEW p \in Player, FinishDig(p) PROVE Backed'
  <2>1. <<dimension[p], break_progress[p]>> \in Pos
      BY <1>7 DEF FinishDig, TypeOK, Pos
  <2>2. QED
      BY <1>7, <2>1, BreakBacked DEF FinishDig
<1>8. ASSUME NEW p \in Player, NEW d \in Dimension, Transfer(p, d) PROVE Backed'
  <2>1. UNCHANGED <<blocks, chests>>
      BY <1>8 DEF Transfer
  <2>2. ASSUME NEW r \in Player, open_windows'[r] # NoWindow
        PROVE  open_windows'[r] = open_windows[r] /\ dimension'[r] = dimension[r]
      BY <1>8, <2>2 DEF Transfer, CloseFor, TypeOK
  <2>3. QED
      BY <2>1, <2>2 DEF Backed, StoreMatchesBlocks, WindowsBacked, WindowsInReach
<1>9. ASSUME NEW s \in Spot, NEW b \in Block, ModSetBlock(s, b) PROVE Backed'
  <2>1. <<Overworld, s>> \in Pos
      BY ConstantsAssumption DEF Pos
  <2>2. QED
      BY <1>9, <2>1, BreakBacked, PlaceBacked DEF ModSetBlock
<1>10. CASE UNCHANGED vars
    BY <1>0, <1>10 DEF vars
<1>11. QED
    BY <1>1, <1>2, <1>3, <1>4, <1>5, <1>6, <1>7, <1>8, <1>9, <1>10 DEF Next, Handle

LEMMA BackedInvariance == Spec => [](TypeOK /\ Backed)
BY InitTypeOK, NextTypeOK, InitBacked, NextBacked, PTL DEF Spec

\* In every instance the store has the content of every chest block and no
\* content in the air (ContainerStore::remove in break_block).
THEOREM StoreAlwaysMatches == Spec => []StoreMatchesBlocks
BY BackedInvariance, PTL DEF Backed

\* In every instance a chest in the store is behind every open window.
THEOREM WindowsAlwaysBacked == Spec => []WindowsBacked
BY BackedInvariance, PTL DEF Backed

\* In every instance nobody keeps a window into a dimension they have left
\* (close_open_window in transfer_player_dimension).
THEOREM WindowsAlwaysInReach == Spec => []WindowsInReach
BY BackedInvariance, PTL DEF Backed

-----------------------------------------------------------------------------
(* What a step may do to one player: window, screen and queues *)

Heard(p) == to_tick[p] # <<>> /\ to_tick'[p] = Tail(to_tick[p])
Told(p, t, w) == to_client'[p] = Append(to_client[p], [type |-> t, window |-> w])

\* Nothing but that a message of the player may be taken.
Stays(p) ==
    /\ open_windows'[p] = open_windows[p]
    /\ screen'[p] = screen[p]
    /\ to_client'[p] = to_client[p]
    /\ to_tick'[p] = to_tick[p] \/ Heard(p)

\* The client sends a message, closing its screen when that is what it says.
Sends(p, m) ==
    /\ to_tick'[p] = Append(to_tick[p], m)
    /\ open_windows'[p] = open_windows[p]
    /\ to_client'[p] = to_client[p]
    /\ m.type \in {"ClickContainer", "CloseContainer"} => m.window = screen[p] /\ screen[p] # NoWindow
    /\ screen'[p] = IF m.type = "CloseContainer" THEN NoWindow ELSE screen[p]

\* The death screen comes up.
Dies(p) ==
    /\ open_windows'[p] = open_windows[p]
    /\ screen'[p] = NoWindow
    /\ to_client'[p] = to_client[p]
    /\ to_tick'[p] = to_tick[p]

\* The client takes an event.
Hears(p) ==
    /\ open_windows'[p] = open_windows[p]
    /\ to_client[p] # <<>>
    /\ to_client'[p] = Tail(to_client[p])
    /\ screen'[p] = IF Head(to_client[p]).type = "OpenScreen"
                    THEN Head(to_client[p]).window ELSE NoWindow
    /\ to_tick'[p] = to_tick[p]

\* The player's own close is handled.
Closes(p) ==
    /\ Heard(p)
    /\ Head(to_tick[p]).type = "CloseContainer"
    /\ IsOpen(p, Head(to_tick[p]).window)
    /\ open_windows'[p] = NoWindow
    /\ screen'[p] = screen[p]
    /\ to_client'[p] = to_client[p]

\* The tick thread closes the window.
IsClosed(p) ==
    /\ open_windows[p] # NoWindow
    /\ open_windows'[p] = NoWindow
    /\ Told(p, "CloseContainer", open_windows[p])
    /\ screen'[p] = screen[p]
    /\ to_tick'[p] = to_tick[p] \/ Heard(p)

\* The tick thread opens one.
Opens(p, w) ==
    /\ w \in Window
    /\ w.id = NextWindowId
    /\ open_windows'[p] = w
    /\ Told(p, "OpenScreen", w)
    /\ screen'[p] = screen[p]
    /\ Heard(p)

Ordinary(p) ==
    Stays(p) \/ (\E m \in Message : Sends(p, m)) \/ Dies(p) \/ Hears(p) \/ Closes(p) \/ IsClosed(p)

\* A step without an opening, and one with an opening, for player p or another.
PlayerStep(p) ==
    \/ UNCHANGED <<opens, next_window_id>> /\ Ordinary(p)
    \/ /\ opens < MaxOpens
       /\ opens' = opens + 1
       /\ next_window_id' = NextWindowId
       /\ Stays(p) \/ \E w \in Window : Opens(p, w)

\* Closing the windows of a set of players.
LEMMA CloseStep ==
    ASSUME TypeOK, NEW S \in SUBSET Player, CloseFor(S), NEW p \in Player,
           screen'[p] = screen[p], to_tick'[p] = to_tick[p] \/ Heard(p)
    PROVE  PlayerStep(p)
BY DEF CloseFor, PlayerStep, Ordinary, Stays, IsClosed, Told, TypeOK

\* Every step is one of these for every player.
LEMMA PlayerSteps ==
    ASSUME TypeOK, [Next]_vars, NEW p \in Player
    PROVE  PlayerStep(p)
<1> USE DEF world, windows
<1>0. UNCHANGED windows /\ Ordinary(p) => PlayerStep(p)
    BY DEF PlayerStep
<1>a. \A r \in Player : \A t : Receive(r, t) => to_tick'[p] = to_tick[p] \/ Heard(p)
    BY DEF Receive, Heard, TypeOK
<1>1. ASSUME NEW r \in Player, Act(r) PROVE PlayerStep(p)
  <2>1. PICK m \in Message : m.type \notin {"ClickContainer", "CloseContainer"} /\ ClientSends(r, m)
      BY <1>1, SentTypes DEF Act
  <2>2. Sends(p, m) \/ Stays(p)
      BY <1>1, <2>1 DEF Act, ClientSends, Sends, Stays, TypeOK
  <2>3. QED
      BY <1>0, <1>1, <2>2 DEF Act, Ordinary
<1>2. ASSUME NEW r \in Player, Click(r) PROVE PlayerStep(p)
  <2> DEFINE m == [type |-> "ClickContainer", window |-> screen[r]]
  <2>1. m \in Message
      BY <1>2, SentTypes DEF Click, TypeOK
  <2>2. Sends(p, m) \/ Stays(p)
      BY <1>2, <2>1 DEF Click, ClientSends, Sends, Stays, TypeOK
  <2>3. QED
      BY <1>0, <1>2, <2>1, <2>2 DEF Click, Ordinary
<1>3. ASSUME NEW r \in Player, CloseScreen(r) PROVE PlayerStep(p)
  <2> DEFINE m == [type |-> "CloseContainer", window |-> screen[r]]
  <2>1. m \in Message
      BY <1>3, SentTypes DEF CloseScreen, TypeOK
  <2>2. Sends(p, m) \/ Stays(p)
      BY <1>3, <2>1 DEF CloseScreen, ClientSends, Sends, Stays, TypeOK
  <2>3. QED
      BY <1>0, <1>3, <2>1, <2>2 DEF CloseScreen, Ordinary
<1>4. ASSUME NEW r \in Player, Die(r) PROVE PlayerStep(p)
    BY <1>0, <1>4 DEF Die, Ordinary, Dies, Stays, TypeOK
<1>5. ASSUME NEW r \in Player, ClientReceives(r) PROVE PlayerStep(p)
  <2>1. Hears(p) \/ Stays(p)
      BY <1>5 DEF ClientReceives, Hears, Stays, TypeOK
  <2>2. QED
      BY <1>0, <1>5, <2>1 DEF ClientReceives, Ordinary
<1>6. ASSUME NEW r \in Player, PlaceBlock(r) PROVE PlayerStep(p)
  <2> DEFINE m == Head(to_tick[r])
             clicked == <<dimension[r], m.clicked>>
             w == [id |-> NextWindowId, pos |-> clicked]
  <2>1. to_tick'[p] = to_tick[p] \/ Heard(p)
      BY <1>6, <1>a DEF PlaceBlock
  <2>2. CASE OpenChest(r, clicked)
    <3>1. w \in Window
        BY <1>6, NextIdType, ChannelTypes, FieldTypes DEF PlaceBlock, TypeOK, Window, Pos
    <3>2. CASE r = p
      <4>1. Heard(p)
          BY <1>6, <3>2 DEF PlaceBlock, Receive, Heard, TypeOK
      <4>2. Opens(p, w)
          BY <1>6, <2>2, <3>1, <3>2, <4>1 DEF PlaceBlock, OpenChest, Opens, Told, TypeOK
      <4>3. QED
          BY <2>2, <3>1, <4>2 DEF OpenChest, PlayerStep
    <3>3. CASE r # p
      <4>1. Stays(p)
          BY <1>6, <2>1, <2>2, <3>3 DEF PlaceBlock, OpenChest, Stays, TypeOK
      <4>2. QED
          BY <2>2, <4>1 DEF OpenChest, PlayerStep
    <3>4. QED
        BY <3>2, <3>3
  <2>3. CASE UNCHANGED <<windows, to_client>>
      BY <1>0, <1>6, <2>1, <2>3 DEF PlaceBlock, Ordinary, Stays
  <2>4. QED
      BY <1>6, <2>2, <2>3 DEF PlaceBlock, Place
<1>7. ASSUME NEW q \in Pos, Break(q), screen' = screen, to_tick'[p] = to_tick[p] \/ Heard(p)
      PROVE  PlayerStep(p)
  <2>1. Viewers(q) \in SUBSET Player
      BY DEF Viewers
  <2>2. QED
      BY <1>7, <2>1, CloseStep DEF Break
<1>8. ASSUME NEW r \in Player, SetBlock(r) PROVE PlayerStep(p)
  <2>1. <<dimension[r], Head(to_tick[r]).spot>> \in Pos
      BY <1>8, ChannelTypes, FieldTypes DEF SetBlock, TypeOK, Pos
  <2>2. QED
      BY <1>8, <1>a, <1>7, <2>1 DEF SetBlock
<1>9. ASSUME NEW r \in Player, DigStart(r) \/ DigStop(r) \/ ClickContainer(r) PROVE PlayerStep(p)
  <2>1. UNCHANGED <<open_windows, screen, to_client, windows>>
      BY <1>9 DEF DigStart, DigStop, ClickContainer
  <2>2. to_tick'[p] = to_tick[p] \/ Heard(p)
      BY <1>9, <1>a DEF DigStart, DigStop, ClickContainer
  <2>3. QED
      BY <1>0, <2>1, <2>2 DEF Ordinary, Stays
<1>10. ASSUME NEW r \in Player, CloseContainer(r) PROVE PlayerStep(p)
  <2>1. to_tick'[p] = to_tick[p] \/ Heard(p)
      BY <1>10, <1>a DEF CloseContainer
  <2>2. CASE r = p /\ IsOpen(p, Head(to_tick[p]).window)
    <3>1. Closes(p)
        BY <1>10, <2>2 DEF CloseContainer, Receive, Heard, Closes, TypeOK
    <3>2. QED
        BY <1>10, <3>1 DEF CloseContainer, PlayerStep, Ordinary
  <2>3. CASE r # p \/ ~IsOpen(r, Head(to_tick[r]).window)
    <3>1. Stays(p)
        BY <1>10, <2>1, <2>3 DEF CloseContainer, Stays, TypeOK
    <3>2. QED
        BY <1>10, <3>1 DEF CloseContainer, PlayerStep, Ordinary
  <2>4. QED
      BY <2>2, <2>3
<1>11. ASSUME NEW r \in Player, FinishDig(r) PROVE PlayerStep(p)
  <2>1. <<dimension[r], break_progress[r]>> \in Pos
      BY <1>11 DEF FinishDig, TypeOK, Pos
  <2>2. QED
      BY <1>11, <1>7, <2>1 DEF FinishDig
<1>12. ASSUME NEW r \in Player, NEW d \in Dimension, Transfer(r, d) PROVE PlayerStep(p)
  <2>1. {r} \in SUBSET Player
      OBVIOUS
  <2>2. QED
      BY <1>12, <2>1, CloseStep DEF Transfer
<1>13. ASSUME NEW s \in Spot, NEW b \in Block, ModSetBlock(s, b) PROVE PlayerStep(p)
  <2>1. <<Overworld, s>> \in Pos
      BY ConstantsAssumption DEF Pos
  <2>2. CASE Break(<<Overworld, s>>)
      BY <1>13, <1>7, <2>1, <2>2 DEF ModSetBlock
  <2>3. CASE Place(<<Overworld, s>>, b)
      BY <1>0, <1>13, <2>3 DEF ModSetBlock, Place, Ordinary, Stays
  <2>4. QED
      BY <1>13, <2>2, <2>3 DEF ModSetBlock
<1>14. CASE UNCHANGED vars
    BY <1>0, <1>14 DEF vars, Ordinary, Stays
<1>15. QED
    BY <1>1, <1>2, <1>3, <1>4, <1>5, <1>6, <1>8, <1>9, <1>10, <1>11, <1>12, <1>13, <1>14
    DEF Next, Client, Handle

-----------------------------------------------------------------------------
(* The ids tell the windows of a player apart *)

\* n is the id of the k-th window opened, counting from LastId around.
NumberedAs(n, k) == n = LastId + k \/ n = LastId + k - WindowIds

CounterRight == NumberedAs(next_window_id, opens)

Named(m) == m.type \in {"ClickContainer", "CloseContainer"}

\* The player can still meet window w: it is open or shown, or a message or an
\* event under way names it.
Meets(p, w) ==
    \/ open_windows[p] = w
    \/ screen[p] = w
    \/ \E i \in 1..Len(to_tick[p]) : Named(to_tick[p][i]) /\ to_tick[p][i].window = w
    \/ \E i \in 1..Len(to_client[p]) : to_client[p][i].window = w

Issued(p) == \A w \in Window : Meets(p, w) => \E k \in 1..opens : NumberedAs(w.id, k)

IdsApart(p) == \A v, w \in Window : Meets(p, v) /\ Meets(p, w) /\ v.id = w.id => v = w

IdInv == CounterRight /\ \A p \in Player : Issued(p) /\ IdsApart(p)

\* The next id is the one of the next number, and no window the player can
\* still meet has it: that many windows have not been opened.
LEMMA NextIdFresh ==
    ASSUME TypeOK, CounterRight, opens < MaxOpens
    PROVE  /\ NumberedAs(NextWindowId, opens + 1)
           /\ \A k \in 1..opens : ~NumberedAs(NextWindowId, k)
<1>1. /\ WindowIds \in Nat \ {0} /\ LastId \in 0..WindowIds /\ MaxOpens \in 0..WindowIds
      /\ next_window_id \in 0..WindowIds /\ opens \in 0..MaxOpens
    BY ConstantsAssumption DEF TypeOK
<1>2. NumberedAs(NextWindowId, opens + 1)
    BY <1>1 DEF CounterRight, NumberedAs, NextWindowId
<1>3. ASSUME NEW k \in 1..opens PROVE ~NumberedAs(NextWindowId, k)
    BY <1>1, <1>2 DEF NumberedAs
<1>4. QED
    BY <1>2, <1>3

\* What a player can meet after a step was to be met before, or it is the window
\* that the step opens.
LEMMA MeetsBefore ==
    ASSUME TypeOK, NEW p \in Player, NEW w \in Window, Meets(p, w)'
    PROVE  /\ Ordinary(p) => Meets(p, w)
           /\ \A v \in Window : Opens(p, v) => Meets(p, w) \/ v = w
<1>1. to_tick[p] \in Seq(Message) /\ to_client[p] \in Seq(Event)
    BY DEF TypeOK
<1>2. ASSUME to_tick'[p] = to_tick[p] \/ Heard(p),
             NEW i \in 1..Len(to_tick'[p]), Named(to_tick'[p][i]), to_tick'[p][i].window = w
      PROVE  Meets(p, w)
  <2>1. CASE to_tick'[p] = to_tick[p]
      BY <1>2, <2>1 DEF Meets
  <2>2. CASE Heard(p)
    <3>1. to_tick[p] # <<>> /\ to_tick'[p] = Tail(to_tick[p])
        BY <2>2 DEF Heard
    <3>2. i \in 1..Len(Tail(to_tick[p]))
        BY <1>2, <3>1
    <3>3. PICK j \in 1..Len(to_tick[p]) : to_tick'[p][i] = to_tick[p][j]
        BY <1>1, <3>1, <3>2, TailElements
    <3>4. QED
        BY <1>2, <3>3 DEF Meets
  <2>3. QED
      BY <1>2, <2>1, <2>2
<1>3. ASSUME NEW m \in Message, Sends(p, m),
             NEW i \in 1..Len(to_tick'[p]), Named(to_tick'[p][i]), to_tick'[p][i].window = w
      PROVE  Meets(p, w)
    BY <1>1, <1>3, Appended DEF Sends, Meets, Named
<1>4. ASSUME to_client'[p] = to_client[p] \/ Hears(p),
             NEW i \in 1..Len(to_client'[p]), to_client'[p][i].window = w
      PROVE  Meets(p, w)
  <2>1. CASE to_client'[p] = to_client[p]
      BY <1>4, <2>1 DEF Meets
  <2>2. CASE Hears(p)
    <3>1. to_client[p] # <<>> /\ to_client'[p] = Tail(to_client[p])
        BY <2>2 DEF Hears
    <3>2. i \in 1..Len(Tail(to_client[p]))
        BY <1>4, <3>1
    <3>3. PICK j \in 1..Len(to_client[p]) : to_client'[p][i] = to_client[p][j]
        BY <1>1, <3>1, <3>2, TailElements
    <3>4. QED
        BY <1>4, <3>3 DEF Meets
  <2>3. QED
      BY <1>4, <2>1, <2>2
<1>5. ASSUME NEW t \in {"OpenScreen", "CloseContainer"}, NEW v \in Window, Told(p, t, v),
             NEW i \in 1..Len(to_client'[p]), to_client'[p][i].window = w
      PROVE  Meets(p, w) \/ v = w
  <2>1. [type |-> t, window |-> v] \in Event
      BY DEF Event
  <2>2. QED
      BY <1>1, <1>5, <2>1, Appended DEF Told, Meets
<1>6. w # NoWindow
    BY ConstantsAssumption DEF Window, Pos
<1>7. CASE Stays(p) \/ Dies(p) \/ Closes(p)
    BY <1>2, <1>4, <1>6, <1>7 DEF Stays, Dies, Closes, Meets
<1>8. ASSUME NEW m \in Message, Sends(p, m) PROVE Meets(p, w)
    BY <1>3, <1>4, <1>6, <1>8 DEF Sends, Meets
<1>9. CASE Hears(p)
  <2>1. to_client[p] # <<>> /\ Head(to_client[p]) = to_client[p][1] /\ 1 \in 1..Len(to_client[p])
      BY <1>1, <1>9, Taken DEF Hears
  <2>2. screen'[p] = w => Meets(p, w)
      BY <1>6, <1>9, <2>1 DEF Hears, Meets
  <2>3. QED
      BY <1>2, <1>4, <1>9, <2>2 DEF Hears, Meets
<1>10. CASE IsClosed(p)
  <2>1. open_windows[p] \in Window
      BY <1>10 DEF IsClosed, TypeOK
  <2>2. QED
      BY <1>2, <1>5, <1>6, <1>10, <2>1 DEF IsClosed, Meets
<1>11. ASSUME NEW v \in Window, Opens(p, v) PROVE Meets(p, w) \/ v = w
    BY <1>2, <1>5, <1>11 DEF Opens, Meets
<1>12. QED
    BY <1>7, <1>8, <1>9, <1>10, <1>11 DEF Ordinary

\* Initially no window can be met.
LEMMA InitIds == Init => IdInv
<1> SUFFICES ASSUME Init PROVE IdInv
    OBVIOUS
<1>1. CounterRight
    BY ConstantsAssumption DEF Init, CounterRight, NumberedAs
<1>2. ASSUME NEW p \in Player, NEW w \in Window PROVE ~Meets(p, w)
  <2>1. w # NoWindow
      BY ConstantsAssumption DEF Window, Pos
  <2>2. QED
      BY <2>1, EmptySeq DEF Init, Meets
<1>3. QED
    BY <1>1, <1>2 DEF IdInv, Issued, IdsApart

\* Every step keeps the ids apart.
LEMMA NextIds == TypeOK /\ IdInv /\ [Next]_vars => IdInv'
<1> SUFFICES ASSUME TypeOK, IdInv, [Next]_vars PROVE IdInv'
    OBVIOUS
<1>0. opens \in Nat
    BY ConstantsAssumption DEF TypeOK
<1>1. ASSUME NEW p \in Player PROVE Issued(p)' /\ IdsApart(p)'
  <2>1. PlayerStep(p) /\ Issued(p) /\ IdsApart(p) /\ CounterRight
      BY PlayerSteps DEF IdInv
  <2>2. CASE UNCHANGED <<opens, next_window_id>> /\ Ordinary(p)
    <3>1. ASSUME NEW w \in Window, Meets(p, w)' PROVE Meets(p, w)
        BY <2>2, <3>1, MeetsBefore
    <3>2. QED
        BY <2>1, <2>2, <3>1 DEF Issued, IdsApart
  <2>3. ASSUME opens < MaxOpens, opens' = opens + 1, Stays(p) PROVE Issued(p)' /\ IdsApart(p)'
    <3>1. ASSUME NEW w \in Window, Meets(p, w)' PROVE Meets(p, w)
        BY <2>3, <3>1, MeetsBefore DEF Ordinary
    <3>2. Issued(p)'
        BY <1>0, <2>1, <2>3, <3>1 DEF Issued, NumberedAs
    <3>3. QED
        BY <2>1, <3>1, <3>2 DEF IdsApart
  <2>4. ASSUME opens < MaxOpens, opens' = opens + 1, NEW v \in Window, Opens(p, v)
        PROVE  Issued(p)' /\ IdsApart(p)'
    <3>1. /\ v.id = NextWindowId
          /\ NumberedAs(v.id, opens + 1)
          /\ \A k \in 1..opens : ~NumberedAs(v.id, k)
        BY <2>1, <2>4, NextIdFresh DEF Opens
    <3>2. ASSUME NEW w \in Window, Meets(p, w)'
          PROVE  (Meets(p, w) /\ w.id # v.id) \/ w = v
        BY <2>1, <2>4, <3>1, <3>2, MeetsBefore DEF Issued
    <3>3. ASSUME NEW w \in Window, Meets(p, w)'
          PROVE  \E k \in 1..opens' : NumberedAs(w.id, k)
      <4>1. CASE w = v
          BY <1>0, <2>4, <3>1, <4>1
      <4>2. CASE Meets(p, w)
          BY <1>0, <2>1, <2>4, <4>2 DEF Issued
      <4>3. QED
          BY <3>2, <3>3, <4>1, <4>2
    <3>4. Issued(p)'
        BY <3>3 DEF Issued, NumberedAs
    <3>5. IdsApart(p)'
        BY <2>1, <3>2 DEF IdsApart
    <3>6. QED
        BY <3>4, <3>5
  <2>5. QED
      BY <2>1, <2>2, <2>3, <2>4 DEF PlayerStep
<1>2. ASSUME NEW p \in Player PROVE CounterRight'
  <2>1. CASE UNCHANGED <<opens, next_window_id>>
      BY <2>1 DEF IdInv, CounterRight, NumberedAs
  <2>2. CASE opens < MaxOpens /\ opens' = opens + 1 /\ next_window_id' = NextWindowId
      BY <2>2, NextIdFresh DEF IdInv, CounterRight, NumberedAs
  <2>3. QED
      BY <1>2, <2>1, <2>2, PlayerSteps DEF PlayerStep
<1>3. CASE Player = {}
  <2>1. UNCHANGED <<opens, next_window_id>>
      BY <1>3 DEF Next, ModSetBlock, Break, Place, CloseFor, windows, vars
  <2>2. QED
      BY <1>3, <2>1 DEF IdInv, CounterRight, NumberedAs
<1>4. QED
    BY <1>1, <1>2, <1>3 DEF IdInv

\* A click or a close that is accepted is for the window that is open.
LEMMA NamedIsOpen ==
    ASSUME TypeOK, IdInv, NEW p \in Player, NEW i \in 1..Len(to_tick[p]),
           Named(to_tick[p][i]), IsOpen(p, to_tick[p][i].window)
    PROVE  open_windows[p] = to_tick[p][i].window
<1>1. open_windows[p] \in Window
    BY DEF IsOpen, TypeOK
<1>2. to_tick[p][i] \in Message
    BY ElementOfSeq DEF TypeOK
<1>3. to_tick[p][i].window \in Window
    BY <1>2, FieldTypes DEF Named
<1>4. QED
    BY <1>1, <1>3 DEF IsOpen, IdInv, IdsApart, Meets

\* However late it comes, a click or a close is applied to the window it was
\* meant for, or to none (the id compared in handle_click_container).
THEOREM ClicksAlwaysHitTheirWindow == Spec => []ClicksHitTheirWindow
<1>1. TypeOK /\ IdInv => ClicksHitTheirWindow
    BY NamedIsOpen DEF ClicksHitTheirWindow, Named
<1>2. QED
    BY <1>1, InitTypeOK, NextTypeOK, InitIds, NextIds, PTL DEF Spec

-----------------------------------------------------------------------------
(* What the client shows *)

\* Event i under way opens window w.
OpensAt(p, i, w) == to_client[p][i].type = "OpenScreen" /\ to_client[p][i].window = w

\* The window that is not open is not shown either, once the events under way
\* are seen: the last of them, or the screen, says what is open.
LastEvent(p) == to_client[p][Len(to_client[p])]
ComingIsOpen(p) ==
    /\ to_client[p] = <<>> /\ screen[p] # NoWindow => open_windows[p] = screen[p]
    /\ to_client[p] # <<>> /\ LastEvent(p).type = "OpenScreen"
           => open_windows[p] = LastEvent(p).window

\* A window is shown once, and never again after the client has said that it
\* closes it.
ShownOnce(p) ==
    /\ \A i \in 1..Len(to_client[p]) : ~OpensAt(p, i, screen[p])
    /\ \A i, j \in 1..Len(to_client[p]) :
           i < j => ~(to_client[p][i].type = "OpenScreen" /\ OpensAt(p, j, to_client[p][i].window))

ClosedForGood(p) ==
    \A k \in 1..Len(to_tick[p]) : to_tick[p][k].type = "CloseContainer" =>
        /\ to_tick[p][k].window # screen[p]
        /\ \A i \in 1..Len(to_client[p]) : ~OpensAt(p, i, to_tick[p][k].window)

ScreenInv == \A p \in Player : ComingIsOpen(p) /\ ShownOnce(p) /\ ClosedForGood(p)

\* Initially nothing is shown.
LEMMA InitScreen == Init => ScreenInv
BY EmptySeq DEF Init, ScreenInv, ComingIsOpen, ShownOnce, ClosedForGood

\* A window that is opened is one the player could not meet before.
LEMMA OpenedIsNew ==
    ASSUME TypeOK, IdInv, opens < MaxOpens, NEW p \in Player, NEW w \in Window, Opens(p, w)
    PROVE  ~Meets(p, w)
BY NextIdFresh DEF IdInv, Issued, Opens

\* Opening a window keeps what the client shows right.
LEMMA OpenScreens ==
    ASSUME TypeOK, IdInv, opens < MaxOpens, NEW p \in Player, NEW w \in Window, Opens(p, w),
           ComingIsOpen(p), ShownOnce(p), ClosedForGood(p)
    PROVE  (ComingIsOpen(p) /\ ShownOnce(p) /\ ClosedForGood(p))'
<1> DEFINE e == [type |-> "OpenScreen", window |-> w]
           n == Len(to_client[p])
<1>1. to_tick[p] \in Seq(Message) /\ to_client[p] \in Seq(Event) /\ e \in Event
    BY DEF TypeOK, Event
<1>2. to_client'[p] = Append(to_client[p], e)
    BY DEF Opens, Told
<1>3. /\ n \in Nat /\ to_client'[p] # <<>> /\ Len(to_client'[p]) = n + 1
      /\ \A i \in 1..n : to_client'[p][i] = to_client[p][i]
      /\ to_client'[p][n + 1] = e
    BY <1>1, <1>2, Appended
<1>4. /\ to_tick[p] # <<>> /\ to_tick'[p] = Tail(to_tick[p])
      /\ screen'[p] = screen[p] /\ open_windows'[p] = w
    BY DEF Opens, Heard
<1>5. ~Meets(p, w)
    BY OpenedIsNew
<1>6. ComingIsOpen(p)'
    BY <1>3, <1>4 DEF ComingIsOpen, LastEvent
<1>7. ShownOnce(p)'
  <2>1. ASSUME NEW i \in 1..Len(to_client'[p]) PROVE ~OpensAt(p, i, screen[p])'
      BY <1>3, <1>4, <1>5, <2>1 DEF ShownOnce, OpensAt, Meets
  <2>2. ASSUME NEW i \in 1..Len(to_client'[p]), NEW j \in 1..Len(to_client'[p]), i < j,
               to_client'[p][i].type = "OpenScreen",
               to_client'[p][j].type = "OpenScreen",
               to_client'[p][j].window = to_client'[p][i].window
        PROVE  FALSE
    <3>1. i \in 1..n /\ (j = n + 1 \/ j \in 1..n)
        BY <1>3, <2>2
    <3>2. CASE j = n + 1
        BY <1>3, <1>5, <2>2, <3>1, <3>2 DEF Meets
    <3>3. CASE j \in 1..n
        BY <1>3, <2>2, <3>1, <3>3 DEF ShownOnce, OpensAt
    <3>4. QED
        BY <3>1, <3>2, <3>3
  <2>3. QED
      BY <2>1, <2>2 DEF ShownOnce, OpensAt
<1>8. ASSUME NEW k \in 1..Len(to_tick'[p]), to_tick'[p][k].type = "CloseContainer"
      PROVE  /\ to_tick'[p][k].window # screen'[p]
             /\ \A i \in 1..Len(to_client'[p]) : ~OpensAt(p, i, to_tick[p][k].window)'
  <2>1. k \in 1..Len(Tail(to_tick[p]))
      BY <1>4, <1>8
  <2>2. PICK j \in 1..Len(to_tick[p]) : to_tick'[p][k] = to_tick[p][j]
      BY <1>1, <1>4, <2>1, TailElements
  <2>3. to_tick[p][j].window # w
      BY <1>5, <1>8, <2>2 DEF Meets, Named
  <2>4. /\ to_tick[p][j].window # screen[p]
        /\ \A i \in 1..n : ~OpensAt(p, i, to_tick[p][j].window)
      BY <1>8, <2>2 DEF ClosedForGood
  <2>5. ASSUME NEW i \in 1..Len(to_client'[p]) PROVE ~OpensAt(p, i, to_tick[p][k].window)'
    <3>1. CASE i \in 1..n
        BY <1>3, <2>2, <2>4, <3>1 DEF OpensAt
    <3>2. CASE i = n + 1
        BY <1>3, <2>2, <2>3, <3>2 DEF OpensAt
    <3>3. QED
        BY <1>3, <3>1, <3>2
  <2>6. QED
      BY <1>4, <2>2, <2>4, <2>5
<1>9. QED
    BY <1>6, <1>7, <1>8 DEF ClosedForGood

\* So does everything else: the client's messages, its death, the events it
\* takes, and the windows that are closed.
LEMMA OtherScreens ==
    ASSUME TypeOK, IdInv, NEW p \in Player, Ordinary(p),
           ComingIsOpen(p), ShownOnce(p), ClosedForGood(p)
    PROVE  (ComingIsOpen(p) /\ ShownOnce(p) /\ ClosedForGood(p))'
<1> DEFINE n == Len(to_client[p])
<1>1. to_tick[p] \in Seq(Message) /\ to_client[p] \in Seq(Event)
    BY DEF TypeOK
<1>2. \A i \in 1..n : to_client[p][i] \in Event /\ to_client[p][i].window # NoWindow
  <2>1. \A i \in 1..n : to_client[p][i] \in Event
      BY <1>1, ElementOfSeq
  <2>2. NoWindow \notin Window
      BY ConstantsAssumption DEF Window, Pos
  <2>3. QED
      BY <2>1, <2>2, FieldTypes
<1>3. \A k \in 1..Len(to_tick[p]) : to_tick[p][k].type = "CloseContainer" =>
          to_tick[p][k].window # NoWindow
  <2>1. \A k \in 1..Len(to_tick[p]) : to_tick[p][k] \in Message
      BY <1>1, ElementOfSeq
  <2>2. NoWindow \notin Window
      BY ConstantsAssumption DEF Window, Pos
  <2>3. QED
      BY <2>1, <2>2, FieldTypes
<1>4. ASSUME to_tick'[p] = to_tick[p] \/ Heard(p), NEW k \in 1..Len(to_tick'[p])
      PROVE  \E j \in 1..Len(to_tick[p]) : to_tick'[p][k] = to_tick[p][j]
  <2>1. CASE Heard(p)
    <3>1. to_tick[p] # <<>> /\ to_tick'[p] = Tail(to_tick[p])
        BY <2>1 DEF Heard
    <3>2. k \in 1..Len(Tail(to_tick[p]))
        BY <1>4, <3>1
    <3>3. QED
        BY <1>1, <3>1, <3>2, TailElements
  <2>2. QED
      BY <1>4, <2>1
\* A screen that stays or goes, with the events as they are.
<1>5. ASSUME to_client'[p] = to_client[p], screen'[p] = screen[p] \/ screen'[p] = NoWindow
      PROVE  /\ ShownOnce(p)'
             /\ open_windows'[p] = open_windows[p] => ComingIsOpen(p)'
  <2>1. \A i \in 1..n : ~OpensAt(p, i, screen[p])'
      BY <1>2, <1>5 DEF ShownOnce, OpensAt
  <2>2. ShownOnce(p)'
      BY <1>5, <2>1 DEF ShownOnce, OpensAt
  <2>3. open_windows'[p] = open_windows[p] => ComingIsOpen(p)'
      BY <1>5 DEF ComingIsOpen, LastEvent
  <2>4. QED
      BY <2>2, <2>3
<1>6. ASSUME to_client'[p] = to_client[p], screen'[p] = screen[p] \/ screen'[p] = NoWindow,
             to_tick'[p] = to_tick[p] \/ Heard(p)
      PROVE  ClosedForGood(p)'
  <2>1. ASSUME NEW k \in 1..Len(to_tick'[p]), to_tick'[p][k].type = "CloseContainer"
        PROVE  /\ to_tick'[p][k].window # screen'[p]
               /\ \A i \in 1..Len(to_client'[p]) : ~OpensAt(p, i, to_tick[p][k].window)'
    <3>1. PICK j \in 1..Len(to_tick[p]) : to_tick'[p][k] = to_tick[p][j]
        BY <1>4, <1>6, <2>1
    <3>2. /\ to_tick[p][j].window # screen[p]
          /\ to_tick[p][j].window # NoWindow
          /\ \A i \in 1..n : ~OpensAt(p, i, to_tick[p][j].window)
        BY <1>3, <2>1, <3>1 DEF ClosedForGood
    <3>3. QED
        BY <1>6, <3>1, <3>2 DEF OpensAt
  <2>2. QED
      BY <2>1 DEF ClosedForGood
<1>7. CASE Stays(p) \/ Dies(p)
    BY <1>5, <1>6, <1>7 DEF Stays, Dies
<1>8. ASSUME NEW m \in Message, Sends(p, m)
      PROVE  (ComingIsOpen(p) /\ ShownOnce(p) /\ ClosedForGood(p))'
  <2>1. /\ to_client'[p] = to_client[p] /\ open_windows'[p] = open_windows[p]
        /\ screen'[p] = screen[p] \/ screen'[p] = NoWindow
        /\ to_tick'[p] = Append(to_tick[p], m)
      BY <1>8 DEF Sends
  <2>2. ASSUME NEW k \in 1..Len(to_tick'[p]), to_tick'[p][k].type = "CloseContainer"
        PROVE  /\ to_tick'[p][k].window # screen'[p]
               /\ \A i \in 1..Len(to_client'[p]) : ~OpensAt(p, i, to_tick[p][k].window)'
    <3>1. \/ to_tick'[p][k] = m
          \/ k \in 1..Len(to_tick[p]) /\ to_tick'[p][k] = to_tick[p][k]
        BY <1>1, <1>8, <2>1, <2>2, Appended
    <3>2. CASE to_tick'[p][k] = m
      <4>1. m.window = screen[p] /\ screen[p] # NoWindow /\ screen'[p] = NoWindow
          BY <1>8, <2>2, <3>2 DEF Sends
      <4>2. QED
          BY <2>1, <3>2, <4>1 DEF ShownOnce, OpensAt
    <3>3. CASE k \in 1..Len(to_tick[p]) /\ to_tick'[p][k] = to_tick[p][k]
      <4>1. /\ to_tick[p][k].window # screen[p]
            /\ to_tick[p][k].window # NoWindow
            /\ \A i \in 1..n : ~OpensAt(p, i, to_tick[p][k].window)
          BY <1>3, <2>2, <3>3 DEF ClosedForGood
      <4>2. QED
          BY <2>1, <3>3, <4>1 DEF OpensAt
    <3>4. QED
        BY <3>1, <3>2, <3>3
  <2>3. QED
      BY <1>5, <2>1, <2>2 DEF ClosedForGood
<1>9. ASSUME Hears(p) PROVE (ComingIsOpen(p) /\ ShownOnce(p) /\ ClosedForGood(p))'
  <2> DEFINE h == Head(to_client[p])
  <2>1. /\ to_client[p] # <<>> /\ to_client'[p] = Tail(to_client[p])
        /\ open_windows'[p] = open_windows[p] /\ to_tick'[p] = to_tick[p]
        /\ screen'[p] = IF h.type = "OpenScreen" THEN h.window ELSE NoWindow
      BY <1>9 DEF Hears
  <2>2. /\ n \in Nat \ {0} /\ h = to_client[p][1] /\ Len(to_client'[p]) = n - 1
        /\ \A i \in 1..n-1 : to_client'[p][i] = to_client[p][i + 1]
        /\ to_client'[p] \in Seq(Event)
      BY <1>1, <2>1, Taken
  <2>3. to_client'[p] = <<>> <=> n = 1
    <3>1. to_client'[p] = <<>> <=> Len(to_client'[p]) = 0
        BY <2>2, EmptySeq
    <3>2. QED
        BY <2>2, <3>1
  <2>4. ComingIsOpen(p)'
    <3>1. CASE n = 1
      <4>1. LastEvent(p) = h
          BY <2>2, <3>1 DEF LastEvent
      <4>2. QED
          BY <2>1, <2>3, <3>1, <4>1 DEF ComingIsOpen
    <3>2. CASE n # 1
      <4>1. LastEvent(p)' = LastEvent(p)
          BY <1>1, <2>1, <2>3, <3>2, LastOfTail DEF LastEvent
      <4>2. QED
          BY <2>1, <2>3, <3>2, <4>1 DEF ComingIsOpen
    <3>3. QED
        BY <3>1, <3>2
  <2>a. ASSUME NEW i \in 1..Len(to_client'[p])
        PROVE  i + 1 \in 1..n /\ to_client'[p][i] = to_client[p][i + 1]
      BY <2>2
  <2>5. ASSUME NEW i \in 1..Len(to_client'[p]) PROVE ~OpensAt(p, i, screen[p])'
    <3>1. i + 1 \in 1..n /\ 1 \in 1..n /\ 1 < i + 1 /\ to_client'[p][i] = to_client[p][i + 1]
        BY <2>2
    <3>2. CASE h.type = "OpenScreen"
      <4>1. ~OpensAt(p, i + 1, to_client[p][1].window)
          BY <2>2, <3>1, <3>2 DEF ShownOnce
      <4>2. QED
          BY <2>1, <2>2, <3>1, <3>2, <4>1 DEF OpensAt
    <3>3. CASE h.type # "OpenScreen"
        BY <1>2, <2>1, <3>1, <3>3 DEF OpensAt
    <3>4. QED
        BY <3>2, <3>3
  <2>6. ASSUME NEW i \in 1..Len(to_client'[p]), NEW j \in 1..Len(to_client'[p]), i < j,
               to_client'[p][i].type = "OpenScreen"
        PROVE  ~OpensAt(p, j, to_client[p][i].window)'
    <3>a. i + 1 \in 1..n /\ to_client'[p][i] = to_client[p][i + 1]
        BY <2>a
    <3>b. j + 1 \in 1..n /\ to_client'[p][j] = to_client[p][j + 1]
        BY <2>a
    <3>1. /\ i + 1 \in 1..n /\ j + 1 \in 1..n /\ i + 1 < j + 1
          /\ to_client'[p][i] = to_client[p][i + 1] /\ to_client'[p][j] = to_client[p][j + 1]
        BY <2>6, <3>a, <3>b
    <3>2. ~OpensAt(p, j + 1, to_client[p][i + 1].window)
        BY <2>6, <3>1 DEF ShownOnce
    <3>3. QED
        BY <3>1, <3>2 DEF OpensAt
  <2>7. ASSUME NEW k \in 1..Len(to_tick'[p]), to_tick'[p][k].type = "CloseContainer"
        PROVE  /\ to_tick'[p][k].window # screen'[p]
               /\ \A i \in 1..Len(to_client'[p]) : ~OpensAt(p, i, to_tick[p][k].window)'
    <3>1. /\ to_tick[p][k].window # NoWindow
          /\ \A i \in 1..n : ~OpensAt(p, i, to_tick[p][k].window)
        BY <1>3, <2>1, <2>7 DEF ClosedForGood
    <3>2. to_tick'[p][k].window # screen'[p]
        BY <2>1, <2>2, <3>1 DEF OpensAt
    <3>3. ASSUME NEW i \in 1..Len(to_client'[p]) PROVE ~OpensAt(p, i, to_tick[p][k].window)'
      <4>1. i + 1 \in 1..n /\ to_client'[p][i] = to_client[p][i + 1]
          BY <2>2
      <4>2. QED
          BY <2>1, <3>1, <4>1 DEF OpensAt
    <3>4. QED
        BY <3>2, <3>3
  <2>8. QED
      BY <2>4, <2>5, <2>6, <2>7 DEF ShownOnce, ClosedForGood
<1>10. CASE Closes(p)
  <2> DEFINE w == to_tick[p][1].window
  <2>1. /\ to_tick[p] # <<>> /\ Head(to_tick[p]) = to_tick[p][1] /\ 1 \in 1..Len(to_tick[p])
      BY <1>1, <1>10, Taken DEF Closes, Heard
  <2>2. open_windows[p] = w
      BY <1>10, <2>1, NamedIsOpen DEF Closes, Named
  <2>3. w # screen[p] /\ \A i \in 1..n : ~OpensAt(p, i, w)
      BY <1>10, <2>1 DEF Closes, ClosedForGood
  <2>4. to_client[p] # <<>> => n \in 1..n
      BY <1>1, EmptySeq
  <2>5. ComingIsOpen(p)'
      BY <1>10, <2>2, <2>3, <2>4 DEF Closes, ComingIsOpen, LastEvent, OpensAt
  <2>6. QED
      BY <1>5, <1>6, <1>10, <2>5 DEF Closes
<1>11. CASE IsClosed(p)
  <2> DEFINE e == [type |-> "CloseContainer", window |-> open_windows[p]]
  <2>1. e \in Event /\ to_client'[p] = Append(to_client[p], e) /\ screen'[p] = screen[p]
      BY <1>11 DEF IsClosed, Told, Event, TypeOK
  <2>2. /\ n \in Nat /\ to_client'[p] # <<>> /\ Len(to_client'[p]) = n + 1
        /\ \A i \in 1..n : to_client'[p][i] = to_client[p][i]
        /\ to_client'[p][n + 1] = e
      BY <1>1, <2>1, Appended
  <2>3. ASSUME NEW i \in 1..Len(to_client'[p]), to_client'[p][i].type = "OpenScreen"
        PROVE  i \in 1..n /\ to_client'[p][i] = to_client[p][i]
      BY <2>2, <2>3
  <2>4. ComingIsOpen(p)'
      BY <2>2 DEF ComingIsOpen, LastEvent
  <2>5. ASSUME NEW i \in 1..Len(to_client'[p]), NEW w, ~OpensAt(p, i, w) \/ i \notin 1..n
        PROVE  ~(to_client'[p][i].type = "OpenScreen" /\ to_client'[p][i].window = w)
      BY <2>3, <2>5 DEF OpensAt
  <2>6. ShownOnce(p)'
      BY <2>1, <2>3, <2>5 DEF ShownOnce, OpensAt
  <2>7. ASSUME NEW k \in 1..Len(to_tick'[p]), to_tick'[p][k].type = "CloseContainer"
        PROVE  /\ to_tick'[p][k].window # screen'[p]
               /\ \A i \in 1..Len(to_client'[p]) : ~OpensAt(p, i, to_tick[p][k].window)'
    <3>1. PICK j \in 1..Len(to_tick[p]) : to_tick'[p][k] = to_tick[p][j]
        BY <1>4, <1>11, <2>7 DEF IsClosed
    <3>2. /\ to_tick[p][j].window # screen[p]
          /\ \A i \in 1..n : ~OpensAt(p, i, to_tick[p][j].window)
        BY <2>7, <3>1 DEF ClosedForGood
    <3>3. QED
        BY <2>1, <2>5, <3>1, <3>2 DEF OpensAt
  <2>8. QED
      BY <2>4, <2>6, <2>7 DEF ClosedForGood
<1>12. QED
    BY <1>7, <1>8, <1>9, <1>10, <1>11 DEF Ordinary

\* What the client shows stays right.
LEMMA NextScreen == TypeOK /\ IdInv /\ ScreenInv /\ [Next]_vars => ScreenInv'
<1> SUFFICES ASSUME TypeOK, IdInv, ScreenInv, [Next]_vars PROVE ScreenInv'
    OBVIOUS
<1>1. ASSUME NEW p \in Player
      PROVE  (ComingIsOpen(p) /\ ShownOnce(p) /\ ClosedForGood(p))'
  <2>1. PlayerStep(p) /\ ComingIsOpen(p) /\ ShownOnce(p) /\ ClosedForGood(p)
      BY PlayerSteps DEF ScreenInv
  <2>2. CASE Ordinary(p) \/ Stays(p)
      BY <2>1, <2>2, OtherScreens DEF Ordinary
  <2>3. ASSUME opens < MaxOpens, NEW w \in Window, Opens(p, w)
        PROVE  (ComingIsOpen(p) /\ ShownOnce(p) /\ ClosedForGood(p))'
      BY <2>1, <2>3, OpenScreens
  <2>4. QED
      BY <2>1, <2>2, <2>3 DEF PlayerStep
<1>2. QED
    BY <1>1 DEF ScreenInv

\* Once a client has seen all events, a window it still shows is open: whoever
\* closes a window tells its player (close_open_window, notify_client).
THEOREM ShownAlwaysOpen == Spec => []ShownIsOpen
<1>1. ScreenInv => ShownIsOpen
    BY DEF ScreenInv, ComingIsOpen, ShownIsOpen
<1>2. QED
    BY <1>1, InitTypeOK, NextTypeOK, InitIds, NextIds, InitScreen, NextScreen, PTL DEF Spec

=============================================================================
