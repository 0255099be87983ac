------------------------------- MODULE Chests -------------------------------
(***************************************************************************)
(* Chests: the blocks, the container store beside them, the windows the    *)
(* tick thread believes are open and the screens the clients show.         *)
(*                                                                         *)
(* A client acts on the screen it shows while the tick thread may already  *)
(* have closed or replaced that window: the chest was broken, the player   *)
(* was moved to another dimension.  Messages to the tick thread and events *)
(* to the client of one player stay in order; those of different players   *)
(* do not wait for each other.                                             *)
(*                                                                         *)
(* Abstractions.  A block is air, a chest or anything else.  Of a chest's  *)
(* content only its presence in the store is kept: whether a click meets   *)
(* the stored chest or makes a new one with starter loot.  A dig may be    *)
(* complete at any time.  Survival and Creative are constant for a player. *)
(* A client is modelled by the packets the sessions accept; it closes      *)
(* whatever window it shows when told to close one, and forgets the window *)
(* without a word when the player dies.                                    *)
(***************************************************************************)
EXTENDS Naturals, Sequences, FiniteSets

CONSTANTS
    Player,
    Creative,    \* the players in Creative mode
    Dimension,
    Overworld,
    Spot,        \* block positions inside a dimension
    PackChests,  \* where the map packs have chests
    NoWindow,
    NoSpot,
    WindowIds,   \* the largest window id, u8::MAX
    LastId,      \* the id of the window opened last, before the behaviour starts
    MaxOpens,    \* bound: windows opened
    QueueCap     \* bound: messages of a player in flight

ASSUME ConstantsAssumption ==
    /\ Creative \subseteq Player
    /\ Overworld \in Dimension
    /\ NoSpot \notin Spot
    /\ NoWindow \notin [id : 1..WindowIds, pos : Dimension \X Spot]
    /\ PackChests \subseteq Dimension \X Spot
    /\ WindowIds \in Nat \ {0}
    /\ LastId \in 0..WindowIds
    /\ MaxOpens \in 0..WindowIds
    /\ QueueCap \in Nat

VARIABLES
    dimension,       \* Player -> the dimension World has them in
    blocks,          \* Pos -> block
    chests,          \* keys of ContainerStore::chests
    open_windows,    \* Player -> the OpenContainer, or NoWindow
    next_window_id,
    break_progress,  \* Player -> the spot being dug, or NoSpot
    to_tick,         \* Player -> messages under way to the tick thread
    to_client,       \* Player -> events under way to the client
    screen,          \* Player -> the window the client shows, or NoWindow
    opens            \* windows opened so far

world == <<dimension, blocks, chests>>
windows == <<open_windows, next_window_id, opens>>
vars == <<world, windows, break_progress, to_tick, to_client, screen>>

Pos == Dimension \X Spot
Block == {"air", "chest", "solid"}
Window == [id : 1..WindowIds, pos : Pos]
\* A click or a close names the window by its id; the whole window is kept to
\* tell which one the client meant.
Message == [type : {"PlaceBlock"}, clicked : Spot, target : Spot, block : Block \ {"air"}]
           \cup [type : {"SetBlock", "DigStart", "DigStop"}, spot : Spot]
           \cup [type : {"ClickContainer", "CloseContainer"}, window : Window]
Event == [type : {"OpenScreen", "CloseContainer"}, window : Window]

Init ==
    /\ dimension = [p \in Player |-> Overworld]
    /\ blocks = [q \in Pos |-> IF q \in PackChests THEN "chest" ELSE "solid"]
    /\ chests = PackChests
    /\ open_windows = [p \in Player |-> NoWindow]
    /\ next_window_id = LastId
    /\ break_progress = [p \in Player |-> NoSpot]
    /\ to_tick = [p \in Player |-> <<>>]
    /\ to_client = [p \in Player |-> <<>>]
    /\ screen = [p \in Player |-> NoWindow]
    /\ opens = 0

-----------------------------------------------------------------------------
(* Clients *)

ClientSends(p, m) ==
    /\ Len(to_tick[p]) < QueueCap
    /\ to_tick' = [to_tick EXCEPT ![p] = Append(@, m)]

\* A Creative client breaks a block at once, the others dig.
Act(p) ==
    /\ screen[p] = NoWindow
    /\ \/ \E m \in Message : m.type = "PlaceBlock" /\ ClientSends(p, m)
       \/ \E s \in Spot, t \in IF p \in Creative THEN {"SetBlock"} ELSE {"DigStart", "DigStop"} :
              ClientSends(p, [type |-> t, spot |-> s])
    /\ UNCHANGED <<world, windows, break_progress, to_client, screen>>

Click(p) ==
    /\ screen[p] # NoWindow
    /\ ClientSends(p, [type |-> "ClickContainer", window |-> screen[p]])
    /\ UNCHANGED <<world, windows, break_progress, to_client, screen>>

CloseScreen(p) ==
    /\ screen[p] # NoWindow
    /\ ClientSends(p, [type |-> "CloseContainer", window |-> screen[p]])
    /\ screen' = [screen EXCEPT ![p] = NoWindow]
    /\ UNCHANGED <<world, windows, break_progress, to_client>>

\* The death screen takes the place of the window.
Die(p) ==
    /\ screen[p] # NoWindow
    /\ screen' = [screen EXCEPT ![p] = NoWindow]
    /\ UNCHANGED <<world, windows, break_progress, to_tick, to_client>>

ClientReceives(p) ==
    /\ to_client[p] # <<>>
    /\ LET e == Head(to_client[p])
       IN  screen' = [screen EXCEPT ![p] = IF e.type = "OpenScreen" THEN e.window ELSE NoWindow]
    /\ to_client' = [to_client EXCEPT ![p] = Tail(@)]
    /\ UNCHANGED <<world, windows, break_progress, to_tick>>

-----------------------------------------------------------------------------
(* The store and the windows *)

Receive(p, t) ==
    /\ to_tick[p] # <<>>
    /\ Head(to_tick[p]).type = t
    /\ to_tick' = [to_tick EXCEPT ![p] = Tail(@)]

Viewers(q) == {p \in Player : open_windows[p] # NoWindow /\ open_windows[p].pos = q}

\* close_open_window with notify_client, for everyone in S who has a window.
CloseFor(S) ==
    LET had == {p \in S : open_windows[p] # NoWindow}
    IN  /\ open_windows' = [p \in Player |-> IF p \in had THEN NoWindow ELSE open_windows[p]]
        /\ to_client' = [p \in Player |->
               IF p \in had
               THEN Append(to_client[p], [type |-> "CloseContainer", window |-> open_windows[p]])
               ELSE to_client[p]]
        /\ UNCHANGED <<next_window_id, opens>>

\* Mutants: the chest goes but its windows stay; the store is not told; the
\* windows are closed but the clients are not told.
BreakUnderWindow(q) ==
    /\ blocks' = [blocks EXCEPT ![q] = "air"]
    /\ chests' = chests \ {q}
    /\ UNCHANGED <<dimension, windows, to_client>>
BreakKeepingStore(q) ==
    /\ blocks' = [blocks EXCEPT ![q] = "air"]
    /\ UNCHANGED <<dimension, chests>>
    /\ CloseFor(Viewers(q))
BreakSilently(q) ==
    /\ blocks' = [blocks EXCEPT ![q] = "air"]
    /\ chests' = chests \ {q}
    /\ open_windows' = [p \in Player |-> IF p \in Viewers(q) THEN NoWindow ELSE open_windows[p]]
    /\ UNCHANGED <<dimension, to_client, next_window_id, opens>>

\* A block becomes air: the store forgets the chest, its viewers are closed.
Break(q) ==
    /\ blocks' = [blocks EXCEPT ![q] = "air"]
    /\ chests' = chests \ {q}
    /\ UNCHANGED dimension
    /\ CloseFor(Viewers(q))

\* A block becomes something else, whatever was there; a chest is seeded.
Place(q, b) ==
    /\ blocks' = [blocks EXCEPT ![q] = b]
    /\ chests' = IF b = "chest" THEN chests \cup {q} ELSE chests
    /\ UNCHANGED <<dimension, windows, to_client>>

\* Mutant: the wrapped counter is used as it is.
WrappedId == IF next_window_id = WindowIds THEN 0 ELSE next_window_id + 1

\* The next id that is not zero.
NextWindowId == IF next_window_id = WindowIds THEN 1 ELSE next_window_id + 1

\* open_chest_for_player: the window replaces one that is open, chest_mut seeds
\* a chest the store does not know.
OpenChest(p, q) ==
    LET w == [id |-> NextWindowId, pos |-> q]
    IN  /\ opens < MaxOpens
        /\ opens' = opens + 1
        /\ next_window_id' = NextWindowId
        /\ chests' = chests \cup {q}
        /\ open_windows' = [open_windows EXCEPT ![p] = w]
        /\ to_client' = [to_client EXCEPT ![p] =
                             Append(@, [type |-> "OpenScreen", window |-> w])]
        /\ UNCHANGED <<dimension, blocks>>

-----------------------------------------------------------------------------
(* Handlers of the tick thread; positions are in the player's dimension now *)

PlaceBlock(p) ==
    /\ Receive(p, "PlaceBlock")
    /\ LET m == Head(to_tick[p])
           clicked == <<dimension[p], m.clicked>>
       IN  IF blocks[clicked] = "chest" THEN OpenChest(p, clicked)
           ELSE IF p \in Creative THEN Place(<<dimension[p], m.target>>, m.block)
           ELSE UNCHANGED <<world, windows, to_client>>
    /\ UNCHANGED <<break_progress, screen>>

SetBlock(p) ==
    /\ Receive(p, "SetBlock")
    /\ Break(<<dimension[p], Head(to_tick[p]).spot>>)
    /\ UNCHANGED <<break_progress, screen>>

DigStart(p) ==
    /\ Receive(p, "DigStart")
    /\ break_progress' = [break_progress EXCEPT ![p] = Head(to_tick[p]).spot]
    /\ UNCHANGED <<world, windows, to_client, screen>>

DigStop(p) ==
    /\ Receive(p, "DigStop")
    /\ break_progress' = [break_progress EXCEPT ![p] = NoSpot]
    /\ UNCHANGED <<world, windows, to_client, screen>>

\* Mutant: the player's window is taken, whichever the click was meant for.
Accepts(p, w) == open_windows[p] # NoWindow

\* The window ids are compared, and nothing else.
IsOpen(p, w) == open_windows[p] # NoWindow /\ open_windows[p].id = w.id

\* The slots are written through chest_mut, which seeds an unknown chest.
ClickContainer(p) ==
    /\ Receive(p, "ClickContainer")
    /\ chests' = IF IsOpen(p, Head(to_tick[p]).window)
                 THEN chests \cup {open_windows[p].pos} ELSE chests
    /\ UNCHANGED <<dimension, blocks, windows, break_progress, to_client, screen>>

CloseContainer(p) ==
    /\ Receive(p, "CloseContainer")
    /\ open_windows' = IF IsOpen(p, Head(to_tick[p]).window)
                       THEN [open_windows EXCEPT ![p] = NoWindow] ELSE open_windows
    /\ UNCHANGED <<world, next_window_id, opens, break_progress, to_client, screen>>

\* A dig completes, in the dimension the player is in by then.
FinishDig(p) ==
    /\ break_progress[p] # NoSpot
    /\ break_progress' = [break_progress EXCEPT ![p] = NoSpot]
    /\ Break(<<dimension[p], break_progress[p]>>)
    /\ UNCHANGED <<to_tick, screen>>

\* Mutant: the window comes along.
TransferWithWindow(p, d) ==
    /\ dimension[p] # d
    /\ dimension' = [dimension EXCEPT ![p] = d]
    /\ UNCHANGED <<blocks, chests, windows, break_progress, to_tick, to_client, screen>>

\* transfer_player_dimension, by a command or through a portal.
Transfer(p, d) ==
    /\ dimension[p] # d
    /\ CloseFor({p})
    /\ dimension' = [dimension EXCEPT ![p] = d]
    /\ UNCHANGED <<blocks, chests, break_progress, to_tick, screen>>

\* A mod's block change through the WorldFacade.
ModSetBlock(s, b) ==
    /\ IF b = "air" THEN Break(<<Overworld, s>>) ELSE Place(<<Overworld, s>>, b)
    /\ UNCHANGED <<break_progress, to_tick, screen>>

Handle(p) ==
    \/ PlaceBlock(p)
    \/ SetBlock(p)
    \/ DigStart(p)
    \/ DigStop(p)
    \/ ClickContainer(p)
    \/ CloseContainer(p)
    \/ FinishDig(p)
    \/ \E d \in Dimension : Transfer(p, d)

Client(p) == Act(p) \/ Click(p) \/ CloseScreen(p) \/ Die(p) \/ ClientReceives(p)

Next ==
    \/ \E p \in Player : Client(p) \/ Handle(p)
    \/ \E s \in Spot, b \in Block : ModSetBlock(s, b)

Spec == Init /\ [][Next]_vars

-----------------------------------------------------------------------------
(* Properties *)

\* Every variable has its type; a window id in use is never 0, the id of the
\* player's own inventory, also after the 8-bit counter has wrapped.
TypeOK ==
    /\ dimension \in [Player -> Dimension]
    /\ blocks \in [Pos -> Block]
    /\ chests \subseteq Pos
    /\ open_windows \in [Player -> Window \cup {NoWindow}]
    /\ next_window_id \in 0..WindowIds
    /\ break_progress \in [Player -> Spot \cup {NoSpot}]
    /\ to_tick \in [Player -> Seq(Message)]
    /\ to_client \in [Player -> Seq(Event)]
    /\ screen \in [Player -> Window \cup {NoWindow}]
    /\ opens \in 0..MaxOpens

\* Every chest block has its content in the store, and no content is left where
\* there is only air ("Removes chest contents when the block is destroyed").
StoreMatchesBlocks ==
    \A q \in Pos : /\ blocks[q] = "chest" => q \in chests
                   /\ q \in chests => blocks[q] # "air"

\* An open window has a chest in the store behind it.  The click handler would
\* silently make one, with starter loot, for a window that outlived its chest.
WindowsBacked ==
    \A p \in Player : open_windows[p] # NoWindow => open_windows[p].pos \in chests

\* Nobody keeps a window into a dimension they have left.
WindowsInReach ==
    \A p \in Player : open_windows[p] # NoWindow => open_windows[p].pos[1] = dimension[p]

\* However stale the client's screen was: a click or a close under way is
\* applied to the window it was meant for, or to none.
ClicksHitTheirWindow ==
    \A p \in Player : \A i \in 1..Len(to_tick[p]) :
        LET m == to_tick[p][i]
        IN  m.type \in {"ClickContainer", "CloseContainer"} /\ IsOpen(p, m.window)
            => open_windows[p] = m.window

\* Once a client has seen all events, a window it still shows is the one the
\* tick thread has open for it: its clicks are not dropped unnoticed.
ShownIsOpen ==
    \A p \in Player :
        to_client[p] = <<>> /\ screen[p] # NoWindow => open_windows[p] = screen[p]

=============================================================================
