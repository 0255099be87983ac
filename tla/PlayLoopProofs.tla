--------------------------- MODULE PlayLoopProofs ---------------------------
(***************************************************************************)
(* Proofs about PlayLoop, for any intervals, timeouts and bounds.  The     *)
(* event channel is bounded because the pings keep in phase with the age   *)
(* of the last one (PingsInPhase); an answer sent in time is on its way to *)
(* the decoder, or already clears the timer (AnswerComing).                *)
(***************************************************************************)
EXTENDS PlayLoop, QueueLemmas

\* What the session has not decoded yet, in the order it will.
Coming == read_buffer \o socket

\* A dig is owed its acknowledgement as long as it has not been decoded.
DigsCounted == digs = Cardinality(PlacesOf(Coming, "dig"))

\* While the session waits for its client, the pings it has not sent and the age
\* of the next add up to no more than the time it has waited and one interval.
PingsInPhase ==
    /\ pc \in {"poll", "read"} =>
          events * PingInterval + since_ping <= PingInterval + reading_for
    /\ pc \in {"check", "decode"} =>
          events * PingInterval + since_ping <= PingInterval

\* An answer sent in time has been decoded and has stopped the timer, or will be
\* before the timer runs out.
AnswerComing ==
    answered = "in_time" /\ "answer" \notin Range(read_buffer) =>
        /\ pc # "kicked"
        /\ last_keep_alive_sent <= Timeout
        /\ last_keep_alive_sent = NoPing \/ "answer" \in Range(socket)

Sent == Answer \cup Packet

-----------------------------------------------------------------------------
(* Packets *)

\* A new ping makes answers late; it moves and adds no packet.
LEMMA StaleType ==
    ASSUME NEW q \in Seq(Sent)
    PROVE  /\ Stale(q) \in Seq(Sent)
           /\ Len(Stale(q)) = Len(q)
           /\ \A i \in 1..Len(q) : Stale(q)[i] = "dig" <=> q[i] = "dig"
<1>1. /\ Len(q) \in Nat /\ DOMAIN q = 1..Len(q)
      /\ \A i \in 1..Len(q) : q[i] \in Sent
    BY LenProperties, ElementOfSeq
<1>2. Stale(q) = [i \in 1..Len(q) |-> IF q[i] = "answer" THEN "late_answer" ELSE q[i]]
    BY <1>1 DEF Stale
<1>3. \A i \in 1..Len(q) : (IF q[i] = "answer" THEN "late_answer" ELSE q[i]) \in Sent
    BY <1>1 DEF Sent, Answer
<1>4. Stale(q) \in [1..Len(q) -> Sent]
    BY <1>2, <1>3
<1>5. Stale(q) \in Seq(Sent) /\ Len(Stale(q)) = Len(q)
    BY <1>1, <1>4
<1>6. QED
    BY <1>2, <1>5

\* A new ping leaves the digs where they are.
LEMMA StaleDigs ==
    ASSUME NEW q \in Seq(Sent), NEW r \in Seq(Sent)
    PROVE  PlacesOf(Stale(q) \o Stale(r), "dig") = PlacesOf(q \o r, "dig")
<1>1. Len(q) \in Nat /\ Len(r) \in Nat
    BY LenProperties
<1>2. /\ Len(q \o r) = Len(q) + Len(r)
      /\ \A i \in 1..Len(q) + Len(r) :
            (q \o r)[i] = IF i <= Len(q) THEN q[i] ELSE r[i - Len(q)]
    BY ConcatProperties
<1>3. /\ Stale(q) \in Seq(Sent) /\ Len(Stale(q)) = Len(q)
      /\ \A i \in 1..Len(q) : Stale(q)[i] = "dig" <=> q[i] = "dig"
    BY StaleType
<1>4. /\ Stale(r) \in Seq(Sent) /\ Len(Stale(r)) = Len(r)
      /\ \A i \in 1..Len(r) : Stale(r)[i] = "dig" <=> r[i] = "dig"
    BY StaleType
<1>5. /\ Len(Stale(q) \o Stale(r)) = Len(q) + Len(r)
      /\ \A i \in 1..Len(q) + Len(r) :
            (Stale(q) \o Stale(r))[i] =
                IF i <= Len(q) THEN Stale(q)[i] ELSE Stale(r)[i - Len(q)]
    <2>1. PICK sq \in Seq(Sent) : sq = Stale(q)
        BY <1>3
    <2>2. PICK sr \in Seq(Sent) : sr = Stale(r)
        BY <1>4
    <2>3. /\ Len(sq \o sr) = Len(sq) + Len(sr)
          /\ \A i \in 1..Len(sq) + Len(sr) :
                (sq \o sr)[i] = IF i <= Len(sq) THEN sq[i] ELSE sr[i - Len(sq)]
        BY ConcatProperties
    <2>4. QED
        BY <1>3, <1>4, <2>1, <2>2, <2>3
<1>6. ASSUME NEW i \in 1..Len(q) + Len(r)
      PROVE  (Stale(q) \o Stale(r))[i] = "dig" <=> (q \o r)[i] = "dig"
    <2>1. CASE i <= Len(q)
        <3>1. i \in 1..Len(q)
            BY <1>1, <2>1
        <3>2. (q \o r)[i] = q[i] /\ (Stale(q) \o Stale(r))[i] = Stale(q)[i]
            BY <1>2, <1>5, <2>1
        <3>3. QED
            BY <1>3, <3>1, <3>2
    <2>2. CASE ~(i <= Len(q))
        <3>1. i - Len(q) \in 1..Len(r)
            BY <1>1, <2>2
        <3>2. /\ (q \o r)[i] = r[i - Len(q)]
              /\ (Stale(q) \o Stale(r))[i] = Stale(r)[i - Len(q)]
            BY <1>2, <1>5, <2>2
        <3>3. QED
            BY <1>4, <3>1, <3>2
    <2>3. QED
        BY <2>1, <2>2
<1>7. QED
    BY <1>2, <1>5, <1>6 DEF PlacesOf

\* What is in a queue is one of its elements.
LEMMA InQueue ==
    ASSUME NEW q \in Seq(Sent), NEW m
    PROVE  m \in Range(q) <=> \E i \in 1..Len(q) : q[i] = m
BY LenProperties DEF Range

\* Taking a head that is not the packet looked for does not lose it.
LEMMA InTail ==
    ASSUME NEW q \in Seq(Sent), q # <<>>, NEW m, m \in Range(q), Head(q) # m
    PROVE  m \in Range(Tail(q))
<1>1. /\ Tail(q) \in Seq(Sent) /\ Len(q) \in Nat \ {0} /\ Len(Tail(q)) = Len(q) - 1
      /\ \A i \in 1..Len(Tail(q)) : Tail(q)[i] = q[i + 1]
      /\ Head(q) = q[1]
    BY Taken
<1>2. PICK i \in 1..Len(q) : q[i] = m
    BY InQueue
<1>3. i # 1
    BY <1>1, <1>2
<1>4. i - 1 \in 1..Len(Tail(q)) /\ Tail(q)[i - 1] = m
    BY <1>1, <1>2, <1>3
<1>5. QED
    BY <1>1, <1>4, InQueue

\* Appending loses nothing, and what is appended is there.
LEMMA InAppended ==
    ASSUME NEW q \in Seq(Sent), NEW e \in Sent, NEW m
    PROVE  m \in Range(Append(q, e)) <=> m \in Range(q) \/ m = e
<1>1. PICK r \in Seq(Sent) :
          /\ r = Append(q, e) /\ Len(q) \in Nat /\ Len(r) = Len(q) + 1
          /\ \A i \in 1..Len(q) : r[i] = q[i]
          /\ r[Len(q) + 1] = e
    BY Appended
<1>2. 1..(Len(q) + 1) = (1..Len(q)) \cup {Len(q) + 1}
    BY <1>1, UpToNext
<1>3. m \in Range(r) <=> \E i \in 1..Len(r) : r[i] = m
    BY InQueue
<1>4. m \in Range(q) <=> \E i \in 1..Len(q) : q[i] = m
    BY InQueue
<1>5. m \in Range(r) <=> m \in Range(q) \/ m = e
    BY <1>1, <1>2, <1>3, <1>4
<1>6. QED
    BY <1>1, <1>5

-----------------------------------------------------------------------------
(* Type correctness, and the count of the digs *)

\* What the client sends comes last, and a dig is counted.
LEMMA SentCounted ==
    ASSUME TypeOK, DigsCounted, NEW e \in Sent,
           socket' = Append(socket, e), read_buffer' = read_buffer
    PROVE  /\ socket' \in Seq(Sent)
           /\ Cardinality(PlacesOf(Coming', "dig")) = digs + (IF e = "dig" THEN 1 ELSE 0)
<1>1. read_buffer \in Seq(Sent) /\ socket \in Seq(Sent)
    BY DEF TypeOK, Sent
<1>2. Coming' = Append(Coming, e)
    BY <1>1, AppendedToSecond DEF Coming
<1>3. Coming \in Seq(Sent)
    BY <1>1, ConcatProperties DEF Coming
<1>4. Cardinality(PlacesOf(Append(Coming, e), "dig")) =
          Cardinality(PlacesOf(Coming, "dig")) + (IF e = "dig" THEN 1 ELSE 0)
    BY <1>3, PlacesAppended
<1>5. socket' \in Seq(Sent)
    BY <1>1, Appended
<1>6. QED
    BY <1>2, <1>4, <1>5 DEF DigsCounted

\* The session decodes what comes first, and a dig is no longer counted.
LEMMA DecodedCounted ==
    ASSUME TypeOK, DigsCounted, read_buffer # <<>>,
           read_buffer' = Tail(read_buffer), socket' = socket
    PROVE  /\ Head(read_buffer) \in Sent
           /\ read_buffer' \in Seq(Sent)
           /\ Cardinality(PlacesOf(Coming', "dig")) \in Nat
           /\ Cardinality(PlacesOf(Coming', "dig")) =
                 digs - (IF Head(read_buffer) = "dig" THEN 1 ELSE 0)
<1>1. read_buffer \in Seq(Sent) /\ socket \in Seq(Sent)
    BY DEF TypeOK, Sent
<1>2. /\ Coming \in Seq(Sent) /\ Coming # <<>>
      /\ Head(Coming) = Head(read_buffer)
      /\ Coming' = Tail(Coming)
    BY <1>1, TakenFromFirst DEF Coming
<1>3. /\ Head(read_buffer) \in Sent
      /\ read_buffer' \in Seq(Sent)
      /\ Tail(Coming) \in Seq(Sent)
    BY <1>1, <1>2, Taken
<1>4. Cardinality(PlacesOf(Tail(Coming), "dig")) =
          Cardinality(PlacesOf(Coming, "dig")) - (IF Head(Coming) = "dig" THEN 1 ELSE 0)
    BY <1>2, PlacesTaken
<1>5. Cardinality(PlacesOf(Tail(Coming), "dig")) \in Nat
    BY <1>3, PlacesFinite
<1>6. QED
    BY <1>2, <1>3, <1>4, <1>5 DEF DigsCounted

\* The types and the count hold at the start.
LEMMA InitTypeOK == Init => TypeOK /\ DigsCounted
<1> SUFFICES ASSUME Init PROVE TypeOK /\ DigsCounted
    OBVIOUS
<1>1. TypeOK
    <2>1. <<>> \in Seq(Answer \cup Packet)
        BY EmptySeq
    <2>2. QED
        BY <2>1, ConstantsAssumption DEF Init, TypeOK, NoPing, Patience
<1>2. DigsCounted
    <2>1. Coming = <<>> /\ digs = 0
        BY ConcatEmptySeq, EmptySeq DEF Init, Coming
    <2>2. PlacesOf(Coming, "dig") = {}
        BY <2>1, EmptySeq DEF PlacesOf
    <2>3. QED
        BY <2>1, <2>2, FS_EmptySet DEF DigsCounted
<1>3. QED
    BY <1>1, <1>2

\* The client's steps and those that decode, read or send keep the types, one
\* after the other; a dig is decoded only when one is owed its acknowledgement.
LEMMA NextTypeOK == TypeOK /\ DigsCounted /\ [Next]_vars => TypeOK' /\ DigsCounted'
<1> SUFFICES ASSUME TypeOK, DigsCounted, [Next]_vars
             PROVE  TypeOK' /\ DigsCounted'
    OBVIOUS
<1> USE ConstantsAssumption DEF NoPing, Patience
<1>1. ASSUME NEW a \in Answer, ClientAnswers(a) PROVE TypeOK' /\ DigsCounted'
    <2>1. a \in Sent /\ a # "dig"
        BY DEF Sent, Answer
    <2>2. /\ socket' \in Seq(Sent)
          /\ Cardinality(PlacesOf(Coming', "dig")) = digs
        <3>1. socket' = Append(socket, a) /\ read_buffer' = read_buffer
            BY <1>1 DEF ClientAnswers
        <3>2. /\ socket' \in Seq(Sent)
              /\ Cardinality(PlacesOf(Coming', "dig")) = digs + (IF a = "dig" THEN 1 ELSE 0)
            BY <2>1, <3>1, SentCounted
        <3>3. QED
            BY <2>1, <3>2 DEF TypeOK
    <2>3. DigsCounted'
        BY <1>1, <2>2 DEF DigsCounted, ClientAnswers
    <2>4. TypeOK'
        BY <1>1, <2>2 DEF TypeOK, ClientAnswers, Sent, tick, Patience
    <2>5. QED
        BY <2>3, <2>4
<1>2. ASSUME NEW p \in Packet, ClientSends(p) PROVE TypeOK' /\ DigsCounted'
    <2>1. p \in Sent
        BY DEF Sent
    <2>2. /\ socket' \in Seq(Sent)
          /\ Cardinality(PlacesOf(Coming', "dig")) = digs + (IF p = "dig" THEN 1 ELSE 0)
        BY <1>2, <2>1, SentCounted DEF ClientSends
    <2>3. DigsCounted' /\ digs' \in 0..MaxDigs
        BY <1>2, <2>2 DEF DigsCounted, ClientSends, TypeOK
    <2>4. TypeOK'
        BY <1>2, <2>2, <2>3 DEF TypeOK, ClientSends, Sent, tick, client
    <2>5. QED
        BY <2>3, <2>4
<1>3. CASE ClientCloses
    BY <1>3 DEF TypeOK, DigsCounted, Coming, ClientCloses, tick, client
<1>4. CASE TickPing
    BY <1>4 DEF TypeOK, DigsCounted, Coming, TickPing, net, client
<1>5. CASE TickStops
    BY <1>5 DEF TypeOK, DigsCounted, Coming, TickStops, net, client
<1>6. CASE Pass
    BY <1>6 DEF TypeOK, DigsCounted, Coming, Pass, Older, Smaller, net, NoPing, Patience
<1>7. CASE PollEvents
    <2>1. CASE events = 0
        BY <1>7, <2>1 DEF TypeOK, DigsCounted, Coming, PollEvents, tick
    <2>2. CASE events # 0
        <3>1. read_buffer \in Seq(Sent) /\ socket \in Seq(Sent)
            BY DEF TypeOK, Sent
        <3>2. read_buffer' = Stale(read_buffer) /\ socket' = Stale(socket)
            BY <1>7, <2>2 DEF PollEvents
        <3>3. read_buffer' \in Seq(Sent) /\ socket' \in Seq(Sent)
            BY <3>1, <3>2, StaleType
        <3>4. PlacesOf(Coming', "dig") = PlacesOf(Coming, "dig")
            BY <3>1, <3>2, StaleDigs DEF Coming
        <3>5. DigsCounted'
            BY <1>7, <3>4 DEF DigsCounted, PollEvents
        <3>6. TypeOK'
            BY <1>7, <2>2, <3>3 DEF TypeOK, PollEvents, Sent, Smaller, tick
        <3>7. QED
            BY <3>5, <3>6
    <2>3. QED
        BY <2>1, <2>2
<1>8. CASE CheckTimeout
    BY <1>8 DEF TypeOK, DigsCounted, Coming, CheckTimeout, tick, net, client
<1>9. CASE Decode
    <2>1. read_buffer # <<>> /\ read_buffer' = Tail(read_buffer) /\ socket' = socket
        BY <1>9 DEF Decode
    <2>2. /\ read_buffer' \in Seq(Sent)
          /\ Cardinality(PlacesOf(Coming', "dig")) \in Nat
          /\ Cardinality(PlacesOf(Coming', "dig")) =
                digs - (IF Head(read_buffer) = "dig" THEN 1 ELSE 0)
        BY <2>1, DecodedCounted
    <2>3. digs' = digs - (IF Head(read_buffer) = "dig" THEN 1 ELSE 0)
        BY <1>9 DEF Decode, HandlePlayPacket, TypeOK
    <2>4. DigsCounted' /\ digs' \in 0..MaxDigs
        BY <2>2, <2>3 DEF DigsCounted, TypeOK
    <2>5. TypeOK'
        BY <1>9, <2>2, <2>4 DEF TypeOK, Decode, HandlePlayPacket, Sent, tick, client, NoPing
    <2>6. QED
        BY <2>4, <2>5
<1>10. CASE SkipUnknown
    <2>1. /\ read_buffer # <<>> /\ read_buffer' = Tail(read_buffer) /\ socket' = socket
          /\ Head(read_buffer) # "dig"
        BY <1>10 DEF SkipUnknown
    <2>2. read_buffer' \in Seq(Sent) /\ Cardinality(PlacesOf(Coming', "dig")) = digs
        BY <2>1, DecodedCounted DEF TypeOK
    <2>3. QED
        <3>1. DigsCounted'
            BY <1>10, <2>2 DEF DigsCounted, SkipUnknown
        <3>2. TypeOK'
            BY <1>10, <2>2 DEF TypeOK, SkipUnknown, Sent, tick, client
        <3>3. QED
            BY <3>1, <3>2
<1>11. CASE Refuse
    <2>1. /\ read_buffer # <<>> /\ read_buffer' = Tail(read_buffer) /\ socket' = socket
          /\ Head(read_buffer) # "dig"
        BY <1>11 DEF Refuse
    <2>2. read_buffer' \in Seq(Sent) /\ Cardinality(PlacesOf(Coming', "dig")) = digs
        BY <2>1, DecodedCounted DEF TypeOK
    <2>3. DigsCounted'
        BY <1>11, <2>2 DEF DigsCounted, Refuse
    <2>4. TypeOK'
        BY <1>11, <2>2 DEF TypeOK, Refuse, Sent, tick, client
    <2>5. QED
        BY <2>3, <2>4
<1>12. CASE NeedMoreData
    BY <1>12 DEF TypeOK, DigsCounted, Coming, NeedMoreData, tick, net, client
<1>13. CASE Read
    <2>1. read_buffer \in Seq(Sent) /\ socket \in Seq(Sent)
        BY DEF TypeOK, Sent
    <2>2. PICK n \in 1..Len(socket) : PassedOn(read_buffer', socket', read_buffer, socket, n)
        BY <1>13, Zenon DEF Read, PassedOn
    <2>3. /\ read_buffer' \in Seq(Sent) /\ socket' \in Seq(Sent)
          /\ read_buffer' \o socket' = read_buffer \o socket
        BY <2>1, <2>2, MovedToFirst
    <2>4. Coming' = Coming
        BY <2>3 DEF Coming
    <2>5. QED
        BY <1>13, <2>3, <2>4 DEF TypeOK, DigsCounted, Read, Sent, tick, client
<1>14. CASE ReadTimesOut
    BY <1>14 DEF TypeOK, DigsCounted, Coming, ReadTimesOut, tick, net, client
<1>15. CASE ReadEnd
    BY <1>15 DEF TypeOK, DigsCounted, Coming, ReadEnd, tick, net, client
<1>16. CASE ConnectionFails
    BY <1>16 DEF TypeOK, DigsCounted, Coming, ConnectionFails, tick, net, client
<1>17. CASE UNCHANGED vars
    BY <1>17 DEF TypeOK, DigsCounted, Coming, vars, tick, net, client
<1>18. QED
    BY <1>1, <1>2, <1>3, <1>4, <1>5, <1>6, <1>7, <1>8, <1>9, <1>10, <1>11, <1>12,
       <1>13, <1>14, <1>15, <1>16, <1>17 DEF Next, Session

\* Every variable has its type in every state; a dig is acknowledged once, and
\* no more acknowledgements are sent than digs were received.
THEOREM TypeCorrect == Spec => []TypeOK
<1>1. Spec => [](TypeOK /\ DigsCounted)
    BY InitTypeOK, NextTypeOK, PTL DEF Spec
<1>2. QED
    BY <1>1, PTL

\* A dig has been acknowledged, or is in the queues, in every state: it is never
\* acknowledged twice.
THEOREM DigsAlwaysCounted == Spec => []DigsCounted
<1>1. Spec => [](TypeOK /\ DigsCounted)
    BY InitTypeOK, NextTypeOK, PTL DEF Spec
<1>2. QED
    BY <1>1, PTL

-----------------------------------------------------------------------------
(* The event channel *)

\* One ping more is one interval more.
LEMMA OnePingMore ==
    ASSUME NEW e \in Nat, NEW p \in Nat
    PROVE  e * p \in Nat /\ (e + 1) * p = e * p + p /\ 0 * p = 0
OBVIOUS

\* So many pings of an interval each fit into that time and one interval.
LEMMA PingsThatFit ==
    ASSUME NEW e \in Nat, NEW p \in Nat \ {0}, NEW r \in Nat, e * p <= p + r
    PROVE  e <= (r \div p) + 1
<1> DEFINE q == r \div p
<1>1. q \in Nat /\ r = p * q + (r % p) /\ r % p \in 0..(p - 1)
    OBVIOUS
<1> HIDE DEF q
<1>2. r < p * q + p
    BY <1>1
<1>3. ~(e >= q + 2)
    <2> SUFFICES ASSUME e >= q + 2 PROVE FALSE
        OBVIOUS
    <2>1. PICK k \in Nat : e = q + 2 + k
        <3>1. e - (q + 2) \in Nat /\ e = q + 2 + (e - (q + 2))
            BY <1>1
        <3>2. QED
            BY <3>1
    <2>2. e * p = q * p + 2 * p + k * p /\ k * p \in Nat /\ q * p \in Nat /\ q * p = p * q
        BY <1>1, <2>1
    <2>3. QED
        BY <1>1, <1>2, <2>2
<1>4. QED
    BY <1>1, <1>3 DEF q

\* The phase is kept: a ping restarts the age, an empty poll leaves one interval,
\* and each unit of time in read ages the ping by at most one.
LEMMA NextPingsInPhase == TypeOK /\ PingsInPhase /\ [Next]_vars => PingsInPhase'
<1> SUFFICES ASSUME TypeOK, PingsInPhase, [Next]_vars
             PROVE  PingsInPhase'
    OBVIOUS
<1> DEFINE Owed == events * PingInterval
<1>1. /\ PingInterval \in Nat \ {0} /\ events \in Nat
      /\ since_ping \in 0..PingInterval /\ reading_for \in Nat /\ Owed \in Nat
    BY ConstantsAssumption, OnePingMore DEF TypeOK
<1>2. ASSUME NEW a \in Answer, ClientAnswers(a) PROVE PingsInPhase'
    BY <1>2 DEF PingsInPhase, ClientAnswers, tick
<1>3. ASSUME NEW p \in Packet, ClientSends(p) PROVE PingsInPhase'
    BY <1>3 DEF PingsInPhase, ClientSends, tick
<1>4. CASE ClientCloses
    BY <1>4 DEF PingsInPhase, ClientCloses, tick
<1>5. CASE TickPing
    <2>1. Owed' = Owed + PingInterval /\ since_ping = PingInterval /\ since_ping' = 0
        BY <1>1, <1>5, OnePingMore DEF TickPing
    <2>2. pc' = pc /\ reading_for' = reading_for
        BY <1>5 DEF TickPing
    <2> HIDE DEF Owed
    <2>3. /\ pc' \in {"poll", "read"} => Owed' + since_ping' <= PingInterval + reading_for'
          /\ pc' \in {"check", "decode"} => Owed' + since_ping' <= PingInterval
        BY <1>1, <2>1, <2>2 DEF PingsInPhase, Owed
    <2>4. QED
        BY <2>3 DEF PingsInPhase, Owed
<1>6. CASE TickStops
    BY <1>6 DEF PingsInPhase, TickStops
<1>7. CASE Pass
    <2>1. /\ pc = "read" /\ pc' = "read" /\ Owed' = Owed
          /\ reading_for' = reading_for + 1
          /\ since_ping' <= since_ping + 1 /\ since_ping' \in Nat
        BY <1>1, <1>7 DEF Pass, Older, Smaller
    <2> HIDE DEF Owed
    <2>2. Owed' + since_ping' <= PingInterval + reading_for'
        BY <1>1, <2>1 DEF PingsInPhase, Owed
    <2>3. QED
        BY <2>1, <2>2 DEF PingsInPhase, Owed
<1>8. CASE PollEvents
    <2>1. pc' = "check" /\ since_ping' = since_ping
        BY <1>8 DEF PollEvents, tick
    <2>2. Owed' = 0
        BY <1>1, <1>8, OnePingMore DEF PollEvents
    <2> HIDE DEF Owed
    <2>3. Owed' + since_ping' <= PingInterval
        BY <1>1, <2>1, <2>2
    <2>4. QED
        BY <2>1, <2>3 DEF PingsInPhase, Owed
<1>9. CASE CheckTimeout
    BY <1>9 DEF PingsInPhase, CheckTimeout, tick
<1>10. ASSUME pc = "decode", pc' \in {"poll", "read", "gone"}, Owed' = Owed,
              since_ping' = since_ping, reading_for' \in Nat
       PROVE  PingsInPhase'
    <2> HIDE DEF Owed
    <2>1. Owed' + since_ping' <= PingInterval + reading_for'
        BY <1>1, <1>10 DEF PingsInPhase, Owed
    <2>2. QED
        BY <1>10, <2>1 DEF PingsInPhase, Owed
<1>11. CASE Decode
    BY <1>1, <1>10, <1>11 DEF Decode, tick
<1>12. CASE SkipUnknown
    BY <1>1, <1>10, <1>12 DEF SkipUnknown, tick
<1>13. CASE Refuse
    BY <1>1, <1>10, <1>13 DEF Refuse, tick
<1>14. CASE NeedMoreData
    BY <1>1, <1>10, <1>14 DEF NeedMoreData, tick
<1>15. CASE Read
    BY <1>15 DEF PingsInPhase, Read, tick
<1>16. CASE ReadTimesOut
    BY <1>16 DEF PingsInPhase, ReadTimesOut, tick
<1>17. CASE ReadEnd
    BY <1>17 DEF PingsInPhase, ReadEnd, tick
<1>18. CASE ConnectionFails
    BY <1>18 DEF PingsInPhase, ConnectionFails, tick
<1>19. CASE UNCHANGED vars
    BY <1>19 DEF PingsInPhase, vars, tick
<1>20. QED
    BY <1>2, <1>3, <1>4, <1>5, <1>6, <1>7, <1>8, <1>9, <1>11, <1>12, <1>13,
       <1>14, <1>15, <1>16, <1>17, <1>18, <1>19 DEF Next, Session

\* Keep-alive events pile up while the session waits for its client, but no more
\* of them than a read can outlast intervals, and one.
THEOREM EventsAlwaysBounded == Spec => []EventsBounded
<1>1. Init => PingsInPhase
    BY ConstantsAssumption DEF Init, PingsInPhase
<1>2. Spec => [](TypeOK /\ DigsCounted)
    BY InitTypeOK, NextTypeOK, PTL DEF Spec
<1>3. TypeOK /\ PingsInPhase => EventsBounded
    <2> SUFFICES ASSUME TypeOK, PingsInPhase, ~Ended
                 PROVE  events <= (ReadTimeout \div PingInterval) + 1
        BY DEF EventsBounded
    <2>1. /\ PingInterval \in Nat \ {0} /\ ReadTimeout \in Nat /\ events \in Nat
          /\ since_ping \in Nat /\ reading_for \in 0..ReadTimeout
          /\ events * PingInterval \in Nat
        BY ConstantsAssumption, OnePingMore DEF TypeOK
    <2>2. pc \in {"poll", "read", "check", "decode"}
        BY DEF Ended, TypeOK
    <2>3. events * PingInterval <= PingInterval + ReadTimeout
        BY <2>1, <2>2 DEF PingsInPhase
    <2>4. QED
        BY <2>1, <2>3, PingsThatFit
<1>4. QED
    BY <1>1, <1>2, <1>3, NextPingsInPhase, PTL DEF Spec

-----------------------------------------------------------------------------
(* Responsive clients *)

\* What a step must leave alone to keep a promised answer coming.
LEMMA AnswerStaysComing ==
    ASSUME AnswerComing,
           answered' = "in_time" => answered = "in_time",
           "answer" \in Range(read_buffer) => "answer" \in Range(read_buffer'),
           "answer" \in Range(socket) => "answer" \in Range(socket'),
           last_keep_alive_sent' = last_keep_alive_sent,
           pc' = "kicked" => pc = "kicked"
    PROVE  AnswerComing'
BY DEF AnswerComing

\* An answer in time sets no clock; time passes in read only with nothing in the
\* socket; the timer is checked before the decoder, but it has not run out.
LEMMA NextAnswerComing ==
    TypeOK /\ TypeOK' /\ AnswerComing /\ [Next]_vars => AnswerComing'
<1> SUFFICES ASSUME TypeOK, TypeOK', AnswerComing, [Next]_vars
             PROVE  AnswerComing'
    OBVIOUS
<1>1. /\ read_buffer \in Seq(Sent) /\ socket \in Seq(Sent)
      /\ read_buffer' \in Seq(Sent) /\ socket' \in Seq(Sent)
      /\ last_keep_alive_sent \in Int /\ Timeout \in Nat
    BY ConstantsAssumption DEF TypeOK, Sent, NoPing
<1>2. ASSUME NEW a \in Answer, ClientAnswers(a) PROVE AnswerComing'
    <2>1. a \in Sent /\ socket' = Append(socket, a) /\ read_buffer' = read_buffer
        BY <1>2 DEF ClientAnswers, Sent
    <2>2. "answer" \in Range(socket') <=> "answer" \in Range(socket) \/ a = "answer"
        BY <1>1, <2>1, InAppended
    <2>3. last_keep_alive_sent' = last_keep_alive_sent /\ pc' = pc /\ pc # "kicked"
        BY <1>2 DEF ClientAnswers, Ended
    <2>4. CASE answered = "in_time" \/ answered' # "in_time"
        BY <2>1, <2>2, <2>3, <2>4, AnswerStaysComing
    <2>5. CASE answered # "in_time" /\ answered' = "in_time"
        <3>1. a = "answer" /\ last_keep_alive_sent <= Timeout
            BY <1>2, <2>5 DEF ClientAnswers
        <3>2. QED
            BY <2>2, <2>3, <3>1 DEF AnswerComing
    <2>6. QED
        BY <2>4, <2>5
<1>3. ASSUME NEW p \in Packet, ClientSends(p) PROVE AnswerComing'
    <2>1. p \in Sent /\ socket' = Append(socket, p)
        BY <1>3 DEF ClientSends, Sent
    <2>2. "answer" \in Range(socket) => "answer" \in Range(socket')
        BY <1>1, <2>1, InAppended
    <2>3. QED
        BY <1>3, <2>2, AnswerStaysComing DEF ClientSends, client
<1>4. CASE ClientCloses
    BY <1>4, AnswerStaysComing DEF ClientCloses, client
<1>5. CASE TickPing
    BY <1>5, AnswerStaysComing DEF TickPing, client, net
<1>6. CASE TickStops
    BY <1>6, AnswerStaysComing DEF TickStops, client, net
<1>7. CASE Pass
    <2>1. "answer" \notin Range(socket)
        <3>1. socket = <<>>
            BY <1>7 DEF Pass
        <3>2. Len(socket) = 0
            BY <3>1, EmptySeq
        <3>3. "answer" \in Range(socket) <=> \E i \in 1..Len(socket) : socket[i] = "answer"
            BY <1>1, InQueue
        <3>4. QED
            BY <3>2, <3>3
    <2>2. /\ pc' = pc /\ pc = "read" /\ answered' = answered
          /\ read_buffer' = read_buffer /\ socket' = socket
          /\ last_keep_alive_sent = NoPing => last_keep_alive_sent' = NoPing
        BY <1>7 DEF Pass, net
    <2>3. NoPing <= Timeout
        BY <1>1 DEF NoPing
    <2>4. QED
        BY <2>1, <2>2, <2>3 DEF AnswerComing
<1>8. CASE PollEvents
    <2>1. CASE events = 0
        BY <1>8, <2>1, AnswerStaysComing DEF PollEvents
    <2>2. CASE events # 0
        BY <1>8, <2>2 DEF PollEvents, AnswerComing
    <2>3. QED
        BY <2>1, <2>2
<1>9. CASE CheckTimeout
    BY <1>1, <1>9 DEF CheckTimeout, IsKeepAliveTimedOut, AnswerComing, client, net
<1>10. ASSUME read_buffer # <<>>, read_buffer' = Tail(read_buffer), socket' = socket,
              answered' = answered, pc' # "kicked",
              Head(read_buffer) # "answer" => last_keep_alive_sent' = last_keep_alive_sent,
              Head(read_buffer) = "answer" => last_keep_alive_sent' = NoPing
       PROVE  AnswerComing'
    <2>1. CASE Head(read_buffer) = "answer"
        <3>1. last_keep_alive_sent' = NoPing /\ NoPing <= Timeout
            BY <1>1, <1>10, <2>1 DEF NoPing
        <3>2. QED
            BY <1>10, <3>1 DEF AnswerComing
    <2>2. CASE Head(read_buffer) # "answer"
        <3>1. "answer" \in Range(read_buffer) => "answer" \in Range(read_buffer')
            BY <1>1, <1>10, <2>2, InTail
        <3>2. QED
            BY <1>10, <2>2, <3>1, AnswerStaysComing
    <2>3. QED
        BY <2>1, <2>2
<1>11. CASE Decode
    BY <1>10, <1>11 DEF Decode, HandlePlayPacket, client
<1>12. CASE SkipUnknown
    BY <1>10, <1>12 DEF SkipUnknown, client
<1>13. CASE Refuse
    BY <1>10, <1>13 DEF Refuse, client
<1>14. CASE NeedMoreData
    BY <1>14, AnswerStaysComing DEF NeedMoreData, client, net
<1>15. CASE Read
    <2>1. PICK n \in 1..Len(socket) : PassedOn(read_buffer', socket', read_buffer, socket, n)
        BY <1>15, Zenon DEF Read, PassedOn
    <2>2. read_buffer' \o socket' = read_buffer \o socket
        BY <1>1, <2>1, MovedToFirst
    <2>3. /\ Range(read_buffer' \o socket') = Range(read_buffer') \cup Range(socket')
          /\ Range(read_buffer \o socket) = Range(read_buffer) \cup Range(socket)
        BY <1>1, RangeConcatenation
    <2>4. "answer" \in Range(read_buffer) => "answer" \in Range(read_buffer')
        BY <1>1, <2>1, MovedStays
    <2>5. /\ answered' = answered /\ last_keep_alive_sent' = last_keep_alive_sent
          /\ pc' = "poll"
        BY <1>15 DEF Read, client
    <2>6. "answer" \in Range(read_buffer) \cup Range(socket) =>
              "answer" \in Range(read_buffer') \cup Range(socket')
        BY <2>2, <2>3
    <2>7. QED
        BY <2>4, <2>5, <2>6 DEF AnswerComing
<1>16. CASE ReadTimesOut
    BY <1>16, AnswerStaysComing DEF ReadTimesOut, client, net
<1>17. CASE ReadEnd
    BY <1>17, AnswerStaysComing DEF ReadEnd, client, net
<1>18. CASE ConnectionFails
    BY <1>18, AnswerStaysComing DEF ConnectionFails, client, net
<1>19. CASE UNCHANGED vars
    BY <1>19, AnswerStaysComing DEF vars, client, net
<1>20. QED
    BY <1>2, <1>3, <1>4, <1>5, <1>6, <1>7, <1>8, <1>9, <1>11, <1>12, <1>13,
       <1>14, <1>15, <1>16, <1>17, <1>18, <1>19 DEF Next, Session

\* Nobody is kicked whose answer to the last ping was sent in time and is not held
\* up behind packets the server does not know.
THEOREM ResponsiveAlwaysStays == Spec => []ResponsiveStays
<1>1. Init => AnswerComing
    BY DEF Init, AnswerComing
<1>2. Spec => [](TypeOK /\ DigsCounted)
    BY InitTypeOK, NextTypeOK, PTL DEF Spec
<1>3. AnswerComing => ResponsiveStays
    BY DEF AnswerComing, ResponsiveStays
<1>4. QED
    BY <1>1, <1>2, <1>3, NextAnswerComing, PTL DEF Spec

=============================================================================
