------------------------------- MODULE Vitals -------------------------------
(***************************************************************************)
(* Health, hunger, death and respawn of one user, through the sessions     *)
(* they play one after the other.                                          *)
(*                                                                         *)
(* Where the player is matters as far as it hurts: on the ground, in lava  *)
(* or below the void line.  Mobs hit when they like.  A tick is one step,  *)
(* its periodic tasks in the order of the code; the messages the client    *)
(* sends after a drain wait for the next, so handlers and ticks alternate  *)
(* freely.  `screen` is what the client shows once it has received all     *)
(* that the tick thread has sent: the death screen opens with a death      *)
(* message or a health of 0 and closes with a Respawn packet.              *)
(***************************************************************************)
EXTENDS Naturals, Sequences, SequencesExt

CONSTANTS
    MaxHealth, MaxFood, MaxSaturation,  \* DEFAULT_HEALTH, DEFAULT_FOOD, ...
    MobDamage, LavaDamage, StarvationDamage,
    LavaInterval, FoodInterval,         \* in ticks
    MaxHits,                            \* bound: hits by mobs in one tick
    QueueCap                            \* bound: messages under way

ASSUME ConstantsAssumption ==
    /\ {MaxHealth, LavaInterval, FoodInterval} \subseteq Nat \ {0}
    /\ {MaxFood, MaxSaturation, LavaDamage, StarvationDamage, MaxHits, QueueCap} \subseteq Nat
    /\ MobDamage \subseteq Nat
    /\ FoodInterval % LavaInterval = 0

GameMode == {"survival", "creative", "spectator"}
Place == {"ground", "lava", "void"}
Message == Place \cup {"join", "respawn", "warp", "left"}

Vital == [health : 0..MaxHealth, food : 0..MaxFood, saturation : 0..MaxSaturation]
Full == [health |-> MaxHealth, food |-> MaxFood, saturation |-> MaxSaturation]
NoData == [gamemode |-> "none"]
PlayerData == [gamemode : GameMode, place : Place, vitals : Vital]

VARIABLES
    connected,  \* the client has a session
    messages,   \* of the client, to the tick thread
    online,     \* the tick thread has handled the join
    gamemode,
    place,      \* where the tick thread has the player
    vitals,     \* health, food and saturation of PlayerInventory
    is_dead,
    saved,      \* PlayerData of the user, or NoData
    clock,      \* tick_count, modulo FoodInterval once past 0
    told,       \* the vitals of the last SetHealth event
    announced,  \* CombatDeath events since the join or the last respawn
    screen      \* of the client: "alive" or "death"

body == <<vitals, is_dead, told, announced, screen>>
vars == <<connected, messages, online, gamemode, place, body, saved, clock>>

Init ==
    /\ connected = FALSE
    /\ messages = <<>>
    /\ online = FALSE
    /\ gamemode = "survival"
    /\ place = "ground"
    /\ vitals = Full
    /\ is_dead = FALSE
    /\ saved = NoData
    /\ clock = 0
    /\ told = Full
    /\ announced = 0
    /\ screen = "alive"

-----------------------------------------------------------------------------
(* The client *)

Connect ==
    /\ ~connected /\ ~online
    /\ messages = <<>>
    /\ connected' = TRUE
    /\ messages' = <<"join">>
    /\ UNCHANGED <<online, gamemode, place, body, saved, clock>>

\* Nobody types a command or walks into a portal on the death screen.
Send(m) ==
    /\ connected
    /\ Len(messages) < QueueCap
    /\ m = "warp" => screen = "alive"
    /\ messages' = Append(messages, m)
    /\ connected' = (m # "left")
    /\ UNCHANGED <<online, gamemode, place, body, saved, clock>>

-----------------------------------------------------------------------------
(* The messages of a tick *)

Receive(m) ==
    /\ messages # <<>>
    /\ Head(messages) = m
    /\ messages' = Tail(messages)
    /\ UNCHANGED <<connected, clock>>

SetHealth(v) ==
    /\ told' = v
    /\ screen' = IF v.health = 0 THEN "death" ELSE "alive"

\* The saved data is taken over; is_dead is not part of it.
PlayerJoined(mode) ==
    /\ Receive("join")
    /\ online' = TRUE
    /\ gamemode' = IF saved = NoData THEN mode ELSE saved.gamemode
    /\ place' = IF saved = NoData \/ saved.place = "void" THEN "ground" ELSE saved.place
    /\ vitals' = IF saved = NoData THEN Full ELSE saved.vitals
    /\ is_dead' = FALSE
    /\ SetHealth(vitals')
    /\ announced' = 0
    /\ UNCHANGED saved

PlayerLeft ==
    /\ Receive("left")
    /\ online' = FALSE
    /\ saved' = [gamemode |-> gamemode, place |-> place, vitals |-> vitals]
    /\ UNCHANGED <<gamemode, place, body>>

\* The dead are moved like the living.
PlayerPositionUpdate(p) ==
    /\ Receive(p)
    /\ place' = p
    /\ UNCHANGED <<online, gamemode, body, saved>>

\* Mutant: the client is not told of its new health.
RespawnSilently ==
    /\ Receive("respawn")
    /\ IF is_dead
       THEN /\ vitals' = Full
            /\ is_dead' = FALSE
            /\ place' = "ground"
            /\ announced' = 0
            /\ screen' = "alive"
            /\ UNCHANGED told
       ELSE UNCHANGED <<place, body>>
    /\ UNCHANGED <<online, gamemode, saved>>

\* ClientStatus with action 0.
ClientStatus ==
    /\ Receive("respawn")
    /\ IF is_dead
       THEN /\ vitals' = Full
            /\ is_dead' = FALSE
            /\ place' = "ground"
            /\ announced' = 0
            /\ SetHealth(Full)
       ELSE UNCHANGED <<place, body>>
    /\ UNCHANGED <<online, gamemode, saved>>

\* transfer_player_dimension, by a command or a portal: a Respawn packet, with
\* no word of the vitals.
Transfer ==
    /\ Receive("warp")
    /\ place' = "ground"
    /\ screen' = "alive"
    /\ UNCHANGED <<online, gamemode, vitals, is_dead, told, announced, saved>>

-----------------------------------------------------------------------------
(* The periodic tasks, as changes of the record of what they may change *)

\* Mutant: the result is not clamped at 0.
MinusUnclamped(a, b) == a - b

Minus(a, b) == IF a > b THEN a - b ELSE 0

Unharmed == gamemode \in {"creative", "spectator"}

\* Health is lost, and told; at 0 the player is dead, and that is told too.
Hurt(b, damage) ==
    LET v == [b.vitals EXCEPT !.health = Minus(@, damage)]
        dies == v.health = 0
    IN  [vitals |-> v, is_dead |-> dies, told |-> v,
         announced |-> IF dies THEN b.announced + 1 ELSE b.announced]

\* Mutant: the dead are hit again by the next mob.
HitAgain(b, damage) == IF Unharmed THEN b ELSE Hurt(b, damage)

Hit(b, damage) == IF b.is_dead \/ Unharmed THEN b ELSE Hurt(b, damage)

FallOut(b) ==
    IF b.is_dead \/ Unharmed \/ place # "void" THEN b ELSE Hurt(b, MaxHealth)

Due(interval) == clock > 0 /\ clock % interval = 0

Burn(b) ==
    IF Due(LavaInterval) /\ ~b.is_dead /\ ~Unharmed /\ place = "lava"
    THEN Hurt(b, LavaDamage) ELSE b

\* drain_food: saturation first, then food.
DrainFood(v) ==
    IF v.saturation > 0 THEN [v EXCEPT !.saturation = @ - 1]
                        ELSE [v EXCEPT !.food = Minus(@, 1)]

\* Mutant: starvation only with a change of the food level.
HungerWithFood(b) ==
    LET v == DrainFood(b.vitals)
    IN  CASE ~Due(FoodInterval) \/ b.is_dead \/ gamemode = "creative" -> b
          [] OTHER -> IF v.food = 0 /\ v # b.vitals
                      THEN Hurt([b EXCEPT !.vitals = v], StarvationDamage)
                      ELSE [b EXCEPT !.vitals = v, !.told = v]

\* Mutant: hunger goes on on the death screen.
HungerOfTheDead(b) ==
    LET v == DrainFood(b.vitals)
    IN  IF Due(FoodInterval) /\ gamemode # "creative"
        THEN [b EXCEPT !.vitals = v, !.told = v] ELSE b

\* Drain, then starve with what is left; only the creative do not eat.
Hunger(b) ==
    LET v == DrainFood(b.vitals)
    IN  CASE ~Due(FoodInterval) \/ b.is_dead \/ gamemode = "creative" -> b
          [] OTHER -> IF v.food = 0 THEN Hurt([b EXCEPT !.vitals = v], StarvationDamage)
                                    ELSE [b EXCEPT !.vitals = v, !.told = v]

NextTick == clock' = IF clock = FoodInterval THEN 1 ELSE clock + 1

\* Mobs, void, lava, food, in this order.
Tick(hits) ==
    LET b == Hunger(Burn(FallOut(FoldLeft(Hit,
                 [vitals |-> vitals, is_dead |-> is_dead,
                  told |-> told, announced |-> announced], hits))))
    IN  /\ IF online
           THEN /\ vitals' = b.vitals
                /\ is_dead' = b.is_dead
                /\ told' = b.told
                /\ announced' = b.announced
                /\ screen' = IF b.is_dead /\ ~is_dead THEN "death" ELSE screen
           ELSE UNCHANGED body
        /\ NextTick
        /\ UNCHANGED <<connected, messages, online, gamemode, place, saved>>

SomeTick == \E hits \in SeqOf(MobDamage, MaxHits) : Tick(hits)

Handle ==
    \/ \E mode \in GameMode : PlayerJoined(mode)
    \/ PlayerLeft
    \/ \E p \in Place : PlayerPositionUpdate(p)
    \/ ClientStatus
    \/ Transfer

Next ==
    \/ Connect
    \/ \E m \in Place \cup {"respawn", "warp", "left"} : Send(m)
    \/ Handle
    \/ SomeTick

Spec == Init /\ [][Next]_vars

\* The tick thread goes on ticking.
FairSpec == Spec /\ WF_vars(SomeTick)

-----------------------------------------------------------------------------
(* Properties *)

\* Every variable has its type; no vital goes below 0.
TypeOK ==
    /\ connected \in BOOLEAN
    /\ messages \in Seq(Message)
    /\ online \in BOOLEAN
    /\ gamemode \in GameMode
    /\ place \in Place
    /\ vitals \in Vital
    /\ is_dead \in BOOLEAN
    /\ saved \in PlayerData \cup {NoData}
    /\ clock \in 0..FoodInterval
    /\ told \in Vital
    /\ announced \in Nat
    /\ screen \in {"alive", "death"}

\* A death is announced once, whatever else hurts in the same tick and however
\* long the player stays dead, and nobody is announced dead who is not.
DeathToldOnce == online => announced = (IF is_dead THEN 1 ELSE 0)

\* The client's bar is never wrong for long: every handler and every tick that
\* changes the vitals ends with telling them.
VitalsTold == online => told = vitals

\* Nothing happens to the vitals of a player on the death screen.
DeadLeftAlone == [][is_dead /\ is_dead' => vitals' = vitals]_vars

\* There is nothing to eat: whoever plays on, and is not Creative, starves.
Starves == (online /\ gamemode # "creative") ~> (is_dead \/ ~online)

\* "The player's health (0 or less = dead, 20 = full HP)" and "Ignore dig while
\* dead (death screen)": whoever is dead to the tick thread has no health and
\* sees the death screen, the only place to ask for a respawn from, and nobody
\* else does.
DeathScreenMatches ==
    online /\ connected =>
        /\ is_dead = (vitals.health = 0)
        /\ is_dead = (screen = "death")

=============================================================================
