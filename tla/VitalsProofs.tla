---------------------------- MODULE VitalsProofs ----------------------------
(***************************************************************************)
(* Proofs about Vitals, for any amounts of health, food and damage, any    *)
(* intervals and any number of hits in a tick.                             *)
(*                                                                         *)
(* A tick is a fold over the hits and three tasks after it.  What each of  *)
(* them keeps, the tick keeps (HitsKeep, TickKeeps): this is an induction  *)
(* over the number of hits, with a set of bodies in the place of a         *)
(* predicate.                                                              *)
(***************************************************************************)
EXTENDS Vitals, QueueLemmas

-----------------------------------------------------------------------------
(* The fold over the hits *)

\* The function FoldLeft is defined by: what the hits at some of the places leave
\* of a body.
IsHitBy(after, b, hits, places) ==
    after = [s \in SUBSET places |->
                IF s = {} THEN b ELSE Hit(after[s \ {Max(s)}], hits[Max(s)])]

HitBy(b, hits, places) == CHOOSE after : IsHitBy(after, b, hits, places)

LEMMA FoldOfHits ==
    ASSUME NEW b, NEW hits
    PROVE  FoldLeft(Hit, b, hits) = HitBy(b, hits, DOMAIN hits)[DOMAIN hits]
BY DEF FoldLeft, MapThenFoldSet, HitBy, IsHitBy

\* There is such a function, whatever the number of hits.
LEMMA HitByExists ==
    ASSUME NEW b, NEW hits, NEW n \in Nat
    PROVE  \E after : IsHitBy(after, b, hits, 1..n)
<1> DEFINE T == {k \in Nat : \E f : IsHitBy(f, b, hits, 1..k)}
<1>1. 0 \in T
    <2> DEFINE f == [s \in SUBSET (1..0) |-> b]
    <2>1. SUBSET (1..0) = {{}}
        OBVIOUS
    <2>2. IsHitBy(f, b, hits, 1..0)
        BY <2>1 DEF IsHitBy
    <2>3. QED
        BY <2>2
<1>2. ASSUME NEW k \in Nat, k \in T
      PROVE  k + 1 \in T
    <2>1. PICK f : IsHitBy(f, b, hits, 1..k)
        BY <1>2
    <2> DEFINE g == [s \in SUBSET (1..(k + 1)) |->
                        IF k + 1 \in s THEN Hit(f[s \ {k + 1}], hits[k + 1]) ELSE f[s]]
    <2>2. ASSUME NEW s \in SUBSET (1..(k + 1))
          PROVE  g[s] = IF s = {} THEN b ELSE Hit(g[s \ {Max(s)}], hits[Max(s)])
        <3>1. CASE k + 1 \in s
            <4>1. Max(s) = k + 1
                BY <3>1, LargestIsLast
            <4>2. /\ s \ {k + 1} \in SUBSET (1..(k + 1)) /\ k + 1 \notin s \ {k + 1}
                  /\ s # {}
                BY <3>1
            <4>3. g[s \ {k + 1}] = f[s \ {k + 1}] /\ g[s] = Hit(f[s \ {k + 1}], hits[k + 1])
                BY <3>1, <4>2
            <4> HIDE DEF g
            <4>4. QED
                BY <4>1, <4>2, <4>3
        <3>2. CASE k + 1 \notin s
            <4>1. s \in SUBSET (1..k) /\ s \ {Max(s)} \in SUBSET (1..k)
                BY <3>2, UpToNext
            <4>2. /\ s \ {Max(s)} \in SUBSET (1..(k + 1))
                  /\ k + 1 \notin s \ {Max(s)}
                BY <3>2
            <4>3. g[s \ {Max(s)}] = f[s \ {Max(s)}] /\ g[s] = f[s]
                BY <3>2, <4>2
            <4> HIDE DEF g
            <4>4. f[s] = IF s = {} THEN b ELSE Hit(f[s \ {Max(s)}], hits[Max(s)])
                BY <2>1, <4>1 DEF IsHitBy
            <4>5. QED
                BY <4>3, <4>4
        <3>3. QED
            BY <3>1, <3>2
    <2>3. IsHitBy(g, b, hits, 1..(k + 1))
        BY <2>2 DEF IsHitBy
    <2>4. QED
        BY <2>3
<1>3. n \in T
    BY <1>1, <1>2, Induction
<1>4. QED
    BY <1>3

\* What every hit keeps, any number of hits keeps.
LEMMA HitsKeep ==
    ASSUME NEW I, NEW D, NEW b \in I, NEW hits \in Seq(D),
           \A x \in I, d \in D : Hit(x, d) \in I
    PROVE  FoldLeft(Hit, b, hits) \in I
<1> DEFINE n == Len(hits)
           after == HitBy(b, hits, 1..n)
<1>1. n \in Nat /\ DOMAIN hits = 1..n /\ \A i \in 1..n : hits[i] \in D
    BY LenProperties, ElementOfSeq
<1>2. \A s \in SUBSET (1..n) :
          after[s] = IF s = {} THEN b ELSE Hit(after[s \ {Max(s)}], hits[Max(s)])
    <2>1. after = [s \in SUBSET (1..n) |->
                     IF s = {} THEN b ELSE Hit(after[s \ {Max(s)}], hits[Max(s)])]
        <3>1. IsHitBy(after, b, hits, 1..n)
            BY <1>1, HitByExists DEF HitBy
        <3>2. QED
            BY <3>1 DEF IsHitBy
    <2> HIDE DEF after
    <2>2. QED
        BY <2>1
<1> HIDE DEF after, n
<1> DEFINE T == {k \in Nat : k <= n => \A s \in SUBSET (1..k) : after[s] \in I}
<1>3. 0 \in T
    <2>1. \A s \in SUBSET (1..0) : s = {} /\ s \in SUBSET (1..n)
        OBVIOUS
    <2>2. \A s \in SUBSET (1..0) : after[s] \in I
        BY <1>2, <2>1
    <2>3. QED
        BY <2>2
<1>4. ASSUME NEW k \in Nat, k \in T
      PROVE  k + 1 \in T
    <2> SUFFICES ASSUME k + 1 <= n, NEW s \in SUBSET (1..(k + 1))
                 PROVE  after[s] \in I
        OBVIOUS
    <2>1. \A t \in SUBSET (1..k) : after[t] \in I
        BY <1>1, <1>4
    <2>2. CASE k + 1 \in s
        <3>1. Max(s) = k + 1 /\ s # {} /\ s \ {k + 1} \in SUBSET (1..k)
            BY <2>2, LargestIsLast, UpToNext
        <3>2. s \in SUBSET (1..n) /\ k + 1 \in 1..n
            BY <1>1
        <3>3. after[s] = Hit(after[s \ {k + 1}], hits[k + 1])
            BY <1>2, <3>1, <3>2
        <3>4. after[s \ {k + 1}] \in I /\ hits[k + 1] \in D
            BY <1>1, <2>1, <3>1, <3>2
        <3>5. QED
            BY <3>3, <3>4
    <2>3. CASE k + 1 \notin s
        BY <2>1, <2>3, UpToNext
    <2>4. QED
        BY <2>2, <2>3
<1>5. n \in T
    BY <1>1, <1>3, <1>4, Induction
<1>6. after[1..n] \in I
    BY <1>1, <1>5
<1>7. QED
    <2>1. FoldLeft(Hit, b, hits) = HitBy(b, hits, 1..n)[1..n]
        BY <1>1, FoldOfHits DEF n
    <2>2. QED
        BY <1>6, <2>1 DEF after

-----------------------------------------------------------------------------
(* The tasks of a tick *)

\* The bodies there may be; of a sound one the client knows the vitals, and its
\* death if it is dead, once.
Body == [vitals : Vital, is_dead : BOOLEAN, told : Vital, announced : Nat]

Sound == {b \in Body : b.told = b.vitals /\ b.announced = (IF b.is_dead THEN 1 ELSE 0)}

LEMMA Amounts ==
    /\ MaxHealth \in Nat \ {0} /\ LavaInterval \in Nat \ {0} /\ FoodInterval \in Nat \ {0}
    /\ MaxFood \in Nat /\ MaxSaturation \in Nat
    /\ LavaDamage \in Nat /\ StarvationDamage \in Nat /\ MaxHits \in Nat
    /\ MobDamage \subseteq Nat
    /\ Full \in Vital
BY ConstantsAssumption DEF Full, Vital

\* Hurting a body that is not dead makes a sound one, whatever its client was told.
LEMMA HurtIsSound ==
    ASSUME NEW b \in Body, ~b.is_dead, b.announced = 0, NEW damage \in Nat
    PROVE  Hurt(b, damage) \in Sound
<1> DEFINE v == [b.vitals EXCEPT !.health = Minus(@, damage)]
<1>1. b.vitals \in Vital /\ b.vitals.health \in 0..MaxHealth
    BY DEF Body, Vital
<1>2. Minus(b.vitals.health, damage) \in 0..MaxHealth
    BY <1>1, Amounts DEF Minus
<1>3. v \in Vital
    BY <1>1, <1>2 DEF Vital
<1> HIDE DEF v
<1>4. Hurt(b, damage) =
          [vitals |-> v, is_dead |-> (v.health = 0), told |-> v,
           announced |-> IF v.health = 0 THEN 1 ELSE 0]
    BY DEF Hurt, v
<1>5. CASE v.health = 0
    <2>1. Hurt(b, damage) = [vitals |-> v, is_dead |-> TRUE, told |-> v, announced |-> 1]
        BY <1>4, <1>5
    <2>2. QED
        BY <1>3, <2>1 DEF Sound, Body
<1>6. CASE v.health # 0
    <2>1. Hurt(b, damage) = [vitals |-> v, is_dead |-> FALSE, told |-> v, announced |-> 0]
        BY <1>4, <1>6
    <2>2. QED
        BY <1>3, <2>1 DEF Sound, Body
<1>7. QED
    BY <1>5, <1>6

\* Draining food keeps the vitals within their bounds.
LEMMA DrainType ==
    ASSUME NEW v \in Vital
    PROVE  DrainFood(v) \in Vital
<1>1. v.food \in 0..MaxFood /\ v.saturation \in 0..MaxSaturation
    BY DEF Vital
<1>2. Minus(v.food, 1) \in 0..MaxFood
    BY <1>1, Amounts DEF Minus
<1>3. CASE v.saturation > 0
    <2>1. v.saturation - 1 \in 0..MaxSaturation
        BY <1>1, <1>3, Amounts
    <2>2. QED
        BY <1>3, <2>1 DEF DrainFood, Vital
<1>4. CASE ~(v.saturation > 0)
    BY <1>2, <1>4 DEF DrainFood, Vital
<1>5. QED
    BY <1>3, <1>4

\* Every task of a tick makes a sound body of a sound one, and leaves a dead one as
\* it is.
LEMMA TasksKeepSound ==
    ASSUME NEW b \in Sound
    PROVE  /\ \A damage \in MobDamage : Hit(b, damage) \in Sound
           /\ FallOut(b) \in Sound
           /\ Burn(b) \in Sound
           /\ Hunger(b) \in Sound
<1>1. b \in Body /\ (~b.is_dead => b.announced = 0)
    BY DEF Sound
<1>2. \A damage \in Nat : ~b.is_dead => Hurt(b, damage) \in Sound
    BY <1>1, HurtIsSound
<1>3. \A damage \in MobDamage : Hit(b, damage) \in Sound
    BY <1>2, Amounts DEF Hit
<1>4. FallOut(b) \in Sound
    BY <1>2, Amounts DEF FallOut
<1>5. Burn(b) \in Sound
    BY <1>2, Amounts DEF Burn
<1>6. Hunger(b) \in Sound
    <2> DEFINE v == DrainFood(b.vitals)
    <2>1. v \in Vital
        BY <1>1, DrainType DEF Body
    <2> HIDE DEF v
    <2>2. CASE ~Due(FoodInterval) \/ b.is_dead \/ gamemode = "creative"
        BY <2>2 DEF Hunger
    <2>3. CASE ~(~Due(FoodInterval) \/ b.is_dead \/ gamemode = "creative")
        <3>1. CASE v.food = 0
            <4>1. /\ [b EXCEPT !.vitals = v] \in Body
                  /\ ~[b EXCEPT !.vitals = v].is_dead
                  /\ [b EXCEPT !.vitals = v].announced = 0
                BY <1>1, <2>1, <2>3 DEF Body
            <4>2. Hurt([b EXCEPT !.vitals = v], StarvationDamage) \in Sound
                BY <4>1, Amounts, HurtIsSound
            <4>3. Hunger(b) = Hurt([b EXCEPT !.vitals = v], StarvationDamage)
                BY <2>3, <3>1 DEF Hunger, v
            <4>4. QED
                BY <4>2, <4>3
        <3>2. CASE v.food # 0
            <4>1. Hunger(b) = [b EXCEPT !.vitals = v, !.told = v]
                BY <2>3, <3>2 DEF Hunger, v
            <4>2. [b EXCEPT !.vitals = v, !.told = v] \in Sound
                BY <2>1 DEF Sound, Body
            <4>3. QED
                BY <4>1, <4>2
        <3>3. QED
            BY <3>1, <3>2
    <2>4. QED
        BY <2>2, <2>3
<1>7. QED
    BY <1>3, <1>4, <1>5, <1>6

\* The tasks pass a dead body on as it is.
LEMMA TasksLeaveTheDead ==
    ASSUME NEW b, b.is_dead
    PROVE  /\ \A damage \in MobDamage : Hit(b, damage) = b
           /\ FallOut(b) = b
           /\ Burn(b) = b
           /\ Hunger(b) = b
BY DEF Hit, FallOut, Burn, Hunger

\* What every task keeps, a tick keeps.
LEMMA TickKeeps ==
    ASSUME NEW I, NEW b \in I, NEW hits \in SeqOf(MobDamage, MaxHits),
           \A x \in I, damage \in MobDamage : Hit(x, damage) \in I,
           \A x \in I : FallOut(x) \in I /\ Burn(x) \in I /\ Hunger(x) \in I
    PROVE  Hunger(Burn(FallOut(FoldLeft(Hit, b, hits)))) \in I
<1>1. hits \in Seq(MobDamage)
    BY Amounts DEF SeqOf
<1>2. FoldLeft(Hit, b, hits) \in I
    BY <1>1, HitsKeep
<1>3. QED
    BY <1>2

-----------------------------------------------------------------------------
(* The inductive invariant *)

\* The body the tick thread keeps of the player.
Now == [vitals |-> vitals, is_dead |-> is_dead, told |-> told, announced |-> announced]

IInv == TypeOK /\ DeathToldOnce /\ VitalsTold

\* The body of a player who is online is sound.
LEMMA NowIsSound == IInv /\ online => Now \in Sound
BY DEF IInv, TypeOK, DeathToldOnce, VitalsTold, Now, Sound, Body

\* A tick leaves a sound body, and the dead as they are.
LEMMA TickBody ==
    ASSUME IInv, online, NEW hits \in SeqOf(MobDamage, MaxHits), Tick(hits)
    PROVE  /\ vitals' \in Vital /\ is_dead' \in BOOLEAN /\ told' = vitals'
           /\ announced' = (IF is_dead' THEN 1 ELSE 0)
           /\ is_dead => vitals' = vitals
<1> DEFINE b == Hunger(Burn(FallOut(FoldLeft(Hit, Now, hits))))
<1>1. Now \in Sound
    BY NowIsSound
<1>2. b \in Sound
    BY <1>1, TasksKeepSound, TickKeeps
<1>3. is_dead => b = Now
    <2> SUFFICES ASSUME is_dead PROVE b = Now
        OBVIOUS
    <2>1. Now.is_dead
        BY DEF Now
    <2>2. b \in {Now}
        <3>1. \A x \in {Now}, damage \in MobDamage : Hit(x, damage) \in {Now}
            BY <2>1, TasksLeaveTheDead
        <3>2. \A x \in {Now} : FallOut(x) \in {Now} /\ Burn(x) \in {Now} /\ Hunger(x) \in {Now}
            BY <2>1, TasksLeaveTheDead
        <3>3. QED
            BY <3>1, <3>2, TickKeeps
    <2>3. QED
        BY <2>2
<1>4. /\ vitals' = b.vitals /\ is_dead' = b.is_dead
      /\ told' = b.told /\ announced' = b.announced
    BY DEF Tick, Now
<1> HIDE DEF b
<1>5. is_dead => vitals' = vitals
    BY <1>3, <1>4 DEF Now
<1>6. QED
    BY <1>2, <1>4, <1>5 DEF Sound, Body

LEMMA InitIInv == Init => IInv
<1> SUFFICES ASSUME Init PROVE IInv
    OBVIOUS
<1>1. TypeOK
    <2>1. messages \in Seq(Message)
        BY EmptySeq DEF Init
    <2>2. clock \in 0..FoodInterval
        BY Amounts DEF Init
    <2>3. QED
        BY <2>1, <2>2, Amounts DEF Init, TypeOK, GameMode, Place
<1>2. QED
    BY <1>1 DEF Init, IInv, DeathToldOnce, VitalsTold

\* Taking the first message leaves messages.
LEMMA ReceiveType ==
    ASSUME TypeOK, NEW m, Receive(m)
    PROVE  messages' \in Seq(Message) /\ connected' = connected /\ clock' = clock
BY Taken DEF TypeOK, Receive

\* A tick in detail: the clock goes round, and the screen shows a new death.
LEMMA TickIInv ==
    ASSUME IInv, NEW hits \in SeqOf(MobDamage, MaxHits), Tick(hits)
    PROVE  IInv'
<1>1. clock' \in 0..FoodInterval
    BY Amounts DEF IInv, TypeOK, Tick, NextTick
<1>2. /\ connected' = connected /\ messages' = messages /\ online' = online
      /\ gamemode' = gamemode /\ place' = place /\ saved' = saved
    BY DEF Tick
<1>3. CASE online
    <2>1. /\ vitals' \in Vital /\ is_dead' \in BOOLEAN /\ told' = vitals'
          /\ announced' = (IF is_dead' THEN 1 ELSE 0)
        BY <1>3, TickBody
    <2>2. screen' \in {"alive", "death"}
        BY <1>3 DEF IInv, TypeOK, Tick
    <2>3. QED
        BY <1>1, <1>2, <2>1, <2>2 DEF IInv, TypeOK, DeathToldOnce, VitalsTold
<1>4. CASE ~online
    <2>1. UNCHANGED body
        BY <1>4 DEF Tick
    <2>2. QED
        BY <1>1, <1>2, <1>4, <2>1 DEF IInv, TypeOK, DeathToldOnce, VitalsTold, body
<1>5. QED
    BY <1>3, <1>4

LEMMA NextIInv == IInv /\ [Next]_vars => IInv'
<1> SUFFICES ASSUME IInv, [Next]_vars PROVE IInv'
    OBVIOUS
<1> USE DEF IInv, DeathToldOnce, VitalsTold
<1>1. CASE Connect
    <2>1. messages' \in Seq(Message)
        BY <1>1 DEF Connect, Message
    <2>2. QED
        BY <1>1, <2>1 DEF Connect, TypeOK, body
<1>2. ASSUME NEW m \in Place \cup {"respawn", "warp", "left"}, Send(m) PROVE IInv'
    <2>1. m \in Message
        BY DEF Message
    <2>2. messages' \in Seq(Message)
        BY <1>2, <2>1, Appended DEF Send, TypeOK
    <2>3. connected' \in BOOLEAN
        BY <1>2 DEF Send
    <2>4. QED
        BY <1>2, <2>2, <2>3 DEF Send, TypeOK, body
<1>3. ASSUME NEW mode \in GameMode, PlayerJoined(mode) PROVE IInv'
    <2>1. messages' \in Seq(Message) /\ connected' = connected /\ clock' = clock
        BY <1>3, ReceiveType DEF PlayerJoined
    <2>2. saved # NoData =>
              saved.gamemode \in GameMode /\ saved.place \in Place /\ saved.vitals \in Vital
        BY DEF TypeOK, PlayerData
    <2>3. gamemode' \in GameMode /\ place' \in Place /\ vitals' \in Vital
        BY <1>3, <2>2, Amounts DEF PlayerJoined, Place
    <2>4. /\ told' = vitals' /\ is_dead' = FALSE /\ announced' = 0 /\ online' = TRUE
          /\ saved' = saved /\ screen' \in {"alive", "death"}
        BY <1>3 DEF PlayerJoined, SetHealth
    <2>5. QED
        BY <2>1, <2>3, <2>4 DEF TypeOK
<1>4. CASE PlayerLeft
    <2>1. messages' \in Seq(Message) /\ connected' = connected /\ clock' = clock
        BY <1>4, ReceiveType DEF PlayerLeft
    <2>2. saved' \in PlayerData /\ online' = FALSE
        BY <1>4 DEF PlayerLeft, PlayerData, TypeOK
    <2>3. QED
        BY <1>4, <2>1, <2>2 DEF PlayerLeft, TypeOK, body
<1>5. ASSUME NEW p \in Place, PlayerPositionUpdate(p) PROVE IInv'
    <2>1. messages' \in Seq(Message) /\ connected' = connected /\ clock' = clock
        BY <1>5, ReceiveType DEF PlayerPositionUpdate
    <2>2. QED
        BY <1>5, <2>1 DEF PlayerPositionUpdate, TypeOK, body
<1>6. CASE ClientStatus
    <2>1. messages' \in Seq(Message) /\ connected' = connected /\ clock' = clock
        BY <1>6, ReceiveType DEF ClientStatus
    <2>2. CASE is_dead
        <3>1. /\ vitals' = Full /\ is_dead' = FALSE /\ place' = "ground" /\ announced' = 0
              /\ told' = Full /\ screen' \in {"alive", "death"}
              /\ online' = online /\ gamemode' = gamemode /\ saved' = saved
            BY <1>6, <2>2 DEF ClientStatus, SetHealth
        <3>2. QED
            BY <2>1, <3>1, Amounts DEF TypeOK, Place
    <2>3. CASE ~is_dead
        BY <1>6, <2>1, <2>3 DEF ClientStatus, TypeOK, body
    <2>4. QED
        BY <2>2, <2>3
<1>7. CASE Transfer
    <2>1. messages' \in Seq(Message) /\ connected' = connected /\ clock' = clock
        BY <1>7, ReceiveType DEF Transfer
    <2>2. QED
        BY <1>7, <2>1 DEF Transfer, TypeOK, Place
<1>8. CASE SomeTick
    BY <1>8, TickIInv DEF SomeTick
<1>9. CASE UNCHANGED vars
    BY <1>9 DEF vars, body, TypeOK
<1>10. QED
    BY <1>1, <1>2, <1>3, <1>4, <1>5, <1>6, <1>7, <1>8, <1>9 DEF Next, Handle

LEMMA Invariance == Spec => []IInv
BY InitIInv, NextIInv, PTL DEF Spec

\* Every variable has its type in every state: no damage, however large and however
\* often in a tick, takes health below 0.
THEOREM TypeCorrect == Spec => []TypeOK
BY Invariance, PTL DEF IInv

\* A death is announced once and to the dead alone, whatever else hurts in the same
\* tick.
THEOREM DeathAlwaysToldOnce == Spec => []DeathToldOnce
BY Invariance, PTL DEF IInv

\* The client knows the vitals of its player after every handler and every tick.
THEOREM VitalsAlwaysTold == Spec => []VitalsTold
BY Invariance, PTL DEF IInv

\* No step changes the vitals of a player who is dead before and after it.
THEOREM DeadAreLeftAlone == Spec => DeadLeftAlone
<1>1. IInv /\ [Next]_vars => [is_dead /\ is_dead' => vitals' = vitals]_vars
    <2> SUFFICES ASSUME IInv, Next, is_dead, is_dead' PROVE vitals' = vitals
        OBVIOUS
    <2>1. CASE SomeTick
        <3>1. PICK hits \in SeqOf(MobDamage, MaxHits) : Tick(hits)
            BY <2>1 DEF SomeTick
        <3>2. CASE online
            BY <3>1, <3>2, TickBody
        <3>3. CASE ~online
            BY <3>1, <3>3 DEF Tick, body
        <3>4. QED
            BY <3>2, <3>3
    <2>2. CASE ~SomeTick
        BY <2>2 DEF Next, Handle, Connect, Send, PlayerJoined, PlayerLeft,
                    PlayerPositionUpdate, ClientStatus, Transfer, body
    <2>3. QED
        BY <2>1, <2>2
<1>2. QED
    BY <1>1, Invariance, PTL DEF Spec, DeadLeftAlone

=============================================================================
