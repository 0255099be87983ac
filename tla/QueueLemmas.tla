----------------------------- MODULE QueueLemmas -----------------------------
(***************************************************************************)
(* What appending to a queue, taking its head and reading part of it do to *)
(* its elements.  The proofs about the queues of the models rest on these. *)
(***************************************************************************)
EXTENDS Integers, Sequences, FiniteSetsExt, TLAPS, SequenceTheorems, FiniteSetTheorems

-----------------------------------------------------------------------------
(* One element more, one element less *)

\* What appending to a queue does to its elements.
LEMMA Appended ==
    ASSUME NEW S, NEW q \in Seq(S), NEW m \in S
    PROVE  /\ Append(q, m) \in Seq(S)
           /\ Append(q, m) # <<>>
           /\ Len(q) \in Nat
           /\ Len(Append(q, m)) = Len(q) + 1
           /\ \A i \in 1..Len(q) : Append(q, m)[i] = q[i]
           /\ Append(q, m)[Len(q) + 1] = m
<1>1. Len(q) \in Nat
    BY LenProperties
<1>2. QED
    BY <1>1, AppendProperties

\* What taking the head of a queue does to its elements.
LEMMA Taken ==
    ASSUME NEW S, NEW q \in Seq(S), q # <<>>
    PROVE  /\ Tail(q) \in Seq(S)
           /\ Len(q) \in Nat \ {0}
           /\ Len(Tail(q)) = Len(q) - 1
           /\ \A i \in 1..Len(Tail(q)) : Tail(q)[i] = q[i + 1]
           /\ Head(q) = q[1]
           /\ Head(q) \in S
<1>1. Len(q) \in Nat \ {0}
    BY EmptySeq
<1>2. \A i \in 1..Len(q) : q[i] \in S
    BY ElementOfSeq
<1>3. QED
    BY <1>1, <1>2, HeadTailProperties

\* What is left of a queue was in it.
LEMMA TailElements ==
    ASSUME NEW S, NEW q \in Seq(S), q # <<>>, NEW i \in 1..Len(Tail(q))
    PROVE  \E j \in 1..Len(q) : Tail(q)[i] = q[j]
<1>1. i + 1 \in 1..Len(q) /\ Tail(q)[i] = q[i + 1]
    BY Taken
<1>2. QED
    BY <1>1

\* Taking the head of a queue leaves its last element, if it leaves any.
LEMMA LastOfTail ==
    ASSUME NEW S, NEW q \in Seq(S), q # <<>>, Tail(q) # <<>>
    PROVE  Tail(q)[Len(Tail(q))] = q[Len(q)]
<1>1. /\ Len(q) \in Nat \ {0} /\ Len(Tail(q)) = Len(q) - 1
      /\ Tail(q) \in Seq(S)
      /\ \A i \in 1..Len(Tail(q)) : Tail(q)[i] = q[i + 1]
    BY Taken
<1>a. Len(Tail(q)) \in Nat
    BY <1>1, LenProperties
<1>2. PICK n \in Nat : n = Len(Tail(q))
    BY <1>a
<1>3. n # 0
    BY <1>1, <1>2, EmptySeq
<1>4. n + 1 = Len(q) /\ n \in 1..n
    BY <1>1, <1>2, <1>3
<1>5. Tail(q)[n] = q[n + 1]
    BY <1>1, <1>2, <1>4
<1>6. QED
    BY <1>2, <1>4, <1>5

-----------------------------------------------------------------------------
(* Two queues in a row *)

\* What is appended to the second of two queues comes last in both.
LEMMA AppendedToSecond ==
    ASSUME NEW S, NEW a \in Seq(S), NEW b \in Seq(S), NEW m \in S
    PROVE  a \o Append(b, m) = Append(a \o b, m)
<1>1. <<m>> \in Seq(S) /\ a \o b \in Seq(S)
    BY ConcatProperties
<1>2. Append(b, m) = b \o <<m>> /\ Append(a \o b, m) = (a \o b) \o <<m>>
    BY <1>1, AppendIsConcat
<1>3. QED
    BY <1>1, <1>2, ConcatAssociative

\* The head of the first of two queues is the head of both.
LEMMA TakenFromFirst ==
    ASSUME NEW S, NEW a \in Seq(S), a # <<>>, NEW b \in Seq(S)
    PROVE  /\ a \o b \in Seq(S) /\ a \o b # <<>>
           /\ Tail(a) \in Seq(S)
           /\ Head(a \o b) = Head(a)
           /\ Tail(a) \o b = Tail(a \o b)
<1> DEFINE ab == a \o b
<1>1. /\ ab \in Seq(S) /\ Len(ab) = Len(a) + Len(b)
      /\ \A i \in 1..Len(a) + Len(b) : ab[i] = IF i <= Len(a) THEN a[i] ELSE b[i - Len(a)]
    BY ConcatProperties
<1>2. Len(a) \in Nat \ {0} /\ Len(b) \in Nat /\ Len(<<>>) = 0
    BY EmptySeq, LenProperties
<1>3. ab # <<>>
    BY <1>1, <1>2
<1>4. /\ Tail(a) \in Seq(S) /\ Len(Tail(a)) = Len(a) - 1
      /\ \A i \in 1..Len(Tail(a)) : Tail(a)[i] = a[i + 1]
      /\ Head(a) = a[1]
    BY Taken
<1>5. /\ Tail(ab) \in Seq(S) /\ Len(Tail(ab)) = Len(ab) - 1
      /\ \A i \in 1..Len(Tail(ab)) : Tail(ab)[i] = ab[i + 1]
      /\ Head(ab) = ab[1]
    BY <1>1, <1>3, Taken
<1>6. Head(ab) = Head(a)
    BY <1>1, <1>2, <1>4, <1>5
<1>7. /\ Tail(a) \o b \in Seq(S) /\ Len(Tail(a) \o b) = Len(Tail(a)) + Len(b)
      /\ \A i \in 1..Len(Tail(a)) + Len(b) :
            (Tail(a) \o b)[i] = IF i <= Len(Tail(a)) THEN Tail(a)[i] ELSE b[i - Len(Tail(a))]
    BY <1>4, ConcatProperties
<1>8. Len(Tail(a) \o b) = Len(Tail(ab))
    BY <1>1, <1>2, <1>4, <1>5, <1>7
<1>9. ASSUME NEW i \in 1..Len(Tail(a) \o b)
      PROVE  (Tail(a) \o b)[i] = Tail(ab)[i]
    <2>1. i \in 1..Len(Tail(a)) + Len(b) /\ i \in 1..Len(Tail(ab)) /\ i + 1 \in 1..Len(a) + Len(b)
        BY <1>2, <1>4, <1>7, <1>8
    <2>2. Tail(ab)[i] = ab[i + 1]
        BY <1>5, <2>1
    <2>3. CASE i <= Len(Tail(a))
        <3>1. i \in 1..Len(Tail(a)) /\ i + 1 <= Len(a)
            BY <1>2, <1>4, <2>1, <2>3
        <3>2. (Tail(a) \o b)[i] = Tail(a)[i] /\ Tail(a)[i] = a[i + 1]
            BY <1>4, <1>7, <2>1, <2>3, <3>1
        <3>3. ab[i + 1] = a[i + 1]
            BY <1>1, <2>1, <3>1
        <3>4. QED
            BY <2>2, <3>2, <3>3
    <2>4. CASE ~(i <= Len(Tail(a)))
        <3>1. ~(i + 1 <= Len(a)) /\ i - Len(Tail(a)) = i + 1 - Len(a)
            BY <1>2, <1>4, <2>1, <2>4
        <3>2. (Tail(a) \o b)[i] = b[i - Len(Tail(a))]
            BY <1>7, <2>1, <2>4
        <3>3. ab[i + 1] = b[i + 1 - Len(a)]
            BY <1>1, <2>1, <3>1
        <3>4. QED
            BY <2>2, <3>1, <3>2, <3>3
    <2>5. QED
        BY <2>3, <2>4
<1>10. Tail(a) \o b = Tail(ab)
    BY <1>5, <1>7, <1>8, <1>9, SeqEqual
<1>11. QED
    BY <1>1, <1>3, <1>4, <1>6, <1>10

\* s has the elements of q and then those of r.
Joins(s, q, r) ==
    /\ Len(s) = Len(q) + Len(r)
    /\ \A i \in 1..Len(q) + Len(r) : s[i] = IF i <= Len(q) THEN q[i] ELSE r[i - Len(q)]

\* s has the n elements of q that come after the first k.
IsPart(s, q, k, n) ==
    /\ Len(s) = n
    /\ \A i \in 1..n : s[i] = q[k + i]

\* Concatenation joins.
LEMMA Concatenated ==
    ASSUME NEW S, NEW q \in Seq(S), NEW r \in Seq(S)
    PROVE  q \o r \in Seq(S) /\ Joins(q \o r, q, r)
BY ConcatProperties DEF Joins

\* SubSeq takes a part.
LEMMA Parts ==
    ASSUME NEW S, NEW q \in Seq(S), NEW k \in 0..Len(q), NEW m \in k..Len(q)
    PROVE  SubSeq(q, k + 1, m) \in Seq(S) /\ IsPart(SubSeq(q, k + 1, m), q, k, m - k)
<1>1. Len(q) \in Nat /\ k \in Nat /\ m \in Nat
    BY LenProperties
<1>2. \A i \in k + 1..m : q[i] \in S
    BY <1>1, ElementOfSeq
<1>3. /\ SubSeq(q, k + 1, m) \in Seq(S)
      /\ Len(SubSeq(q, k + 1, m)) = IF k + 1 <= m THEN m - (k + 1) + 1 ELSE 0
      /\ \A i \in 1..m - (k + 1) + 1 : SubSeq(q, k + 1, m)[i] = q[k + 1 + i - 1]
    BY <1>1, <1>2, SubSeqProperties
<1>4. \A i \in 1..m - k : i \in 1..m - (k + 1) + 1 /\ k + 1 + i - 1 = k + i
    BY <1>1
<1>5. QED
    BY <1>1, <1>3, <1>4 DEF IsPart

\* Two parts of the second queue, put after the first, are the two queues again.
LEMMA PutTogether ==
    ASSUME NEW S, NEW a \in Seq(S), NEW b \in Seq(S), NEW n \in 1..Len(b),
           NEW e \in Seq(S), IsPart(e, b, 0, n),
           NEW d \in Seq(S), IsPart(d, b, n, Len(b) - n),
           NEW c \in Seq(S), Joins(c, a, e),
           NEW cd \in Seq(S), Joins(cd, c, d),
           NEW ab \in Seq(S), Joins(ab, a, b)
    PROVE  cd = ab
<1>1. Len(a) \in Nat /\ Len(b) \in Nat /\ n \in Nat \ {0} /\ n <= Len(b)
    BY LenProperties
<1>a. Len(e) = n /\ \A i \in 1..n : e[i] = b[i]
    BY <1>1 DEF IsPart
<1>b. Len(d) = Len(b) - n /\ \A i \in 1..Len(b) - n : d[i] = b[n + i]
    BY DEF IsPart
<1>c. /\ Len(c) = Len(a) + n
      /\ \A i \in 1..Len(a) + n : c[i] = IF i <= Len(a) THEN a[i] ELSE e[i - Len(a)]
    BY <1>a DEF Joins
<1>d. /\ Len(cd) = Len(c) + Len(d)
      /\ \A i \in 1..Len(c) + Len(d) : cd[i] = IF i <= Len(c) THEN c[i] ELSE d[i - Len(c)]
    BY DEF Joins
<1>e. /\ Len(ab) = Len(a) + Len(b)
      /\ \A i \in 1..Len(a) + Len(b) : ab[i] = IF i <= Len(a) THEN a[i] ELSE b[i - Len(a)]
    BY DEF Joins
<1>2. Len(c) + Len(d) = Len(a) + Len(b)
    BY <1>1, <1>b, <1>c
<1>3. ASSUME NEW i \in 1..Len(a) + Len(b)
      PROVE  cd[i] = ab[i]
    <2>1. i \in 1..Len(c) + Len(d)
        BY <1>2
    <2>2. CASE i <= Len(a)
        <3>1. i <= Len(c) /\ i \in 1..Len(a) + n
            BY <1>1, <1>c, <2>2
        <3>2. cd[i] = c[i] /\ c[i] = a[i]
            BY <1>c, <1>d, <2>1, <2>2, <3>1
        <3>3. ab[i] = a[i]
            BY <1>e, <2>2
        <3>4. QED
            BY <3>2, <3>3
    <2>3. CASE ~(i <= Len(a)) /\ i <= Len(a) + n
        <3>1. i <= Len(c) /\ i \in 1..Len(a) + n /\ i - Len(a) \in 1..n
            BY <1>1, <1>c, <2>3
        <3>2. cd[i] = c[i] /\ c[i] = e[i - Len(a)]
            BY <1>c, <1>d, <2>1, <2>3, <3>1
        <3>3. ab[i] = b[i - Len(a)]
            BY <1>e, <2>3
        <3>4. QED
            BY <1>a, <3>1, <3>2, <3>3
    <2>4. CASE ~(i <= Len(a) + n)
        <3>1. /\ ~(i <= Len(c)) /\ ~(i <= Len(a))
              /\ i - Len(c) \in 1..Len(b) - n
              /\ n + (i - Len(c)) = i - Len(a)
            BY <1>1, <1>c, <2>4
        <3>2. cd[i] = d[i - Len(c)]
            BY <1>d, <2>1, <3>1
        <3>3. d[i - Len(c)] = b[n + (i - Len(c))]
            BY <1>b, <3>1
        <3>4. ab[i] = b[i - Len(a)]
            BY <1>e, <3>1
        <3>5. QED
            BY <3>1, <3>2, <3>3, <3>4
    <2>5. QED
        BY <2>2, <2>3, <2>4
<1>4. QED
    BY <1>2, <1>3, <1>d, <1>e, SeqEqual

\* c and d are a and b once the first n elements of b have moved to a.
PassedOn(c, d, a, b, n) == c = a \o SubSeq(b, 1, n) /\ d = SubSeq(b, n + 1, Len(b))

\* Moving the first elements of the second queue to the first changes neither
\* what there is in both nor its order.
LEMMA MovedToFirst ==
    ASSUME NEW S, NEW a \in Seq(S), NEW b \in Seq(S), NEW n \in 1..Len(b)
    PROVE  \A c, d : PassedOn(c, d, a, b, n) =>
                        c \in Seq(S) /\ d \in Seq(S) /\ c \o d = a \o b
<1> DEFINE e == SubSeq(b, 1, n)
           f == SubSeq(b, n + 1, Len(b))
<1>1. Len(b) \in Nat /\ n \in 0..Len(b) /\ Len(b) \in n..Len(b) /\ n - 0 = n
    BY LenProperties
<1>2. e \in Seq(S) /\ IsPart(e, b, 0, n)
    <2>1. 0 \in 0..Len(b) /\ 0 + 1 = 1
        BY <1>1
    <2>2. SubSeq(b, 0 + 1, n) \in Seq(S) /\ IsPart(SubSeq(b, 0 + 1, n), b, 0, n - 0)
        BY <1>1, <2>1, Parts
    <2>3. QED
        BY <1>1, <2>1, <2>2, Zenon
<1>3. f \in Seq(S) /\ IsPart(f, b, n, Len(b) - n)
    BY <1>1, Parts
<1> HIDE DEF e, f
<1>4. a \o e \in Seq(S) /\ Joins(a \o e, a, e)
    BY <1>2, Concatenated, Zenon
<1>5. (a \o e) \o f \in Seq(S) /\ Joins((a \o e) \o f, a \o e, f)
    BY <1>3, <1>4, Concatenated, Zenon
<1>6. a \o b \in Seq(S) /\ Joins(a \o b, a, b)
    BY Concatenated, Zenon
<1>7. (a \o e) \o f = a \o b
    <2> DEFINE g == a \o e
               gf == g \o f
               ab == a \o b
    <2>1. g \in Seq(S) /\ Joins(g, a, e) /\ gf \in Seq(S) /\ Joins(gf, g, f) /\ ab \in Seq(S) /\ Joins(ab, a, b)
        BY <1>4, <1>5, <1>6, Zenon
    <2> HIDE DEF g, gf, ab
    <2>2. gf = ab
        BY <1>2, <1>3, <2>1, PutTogether
    <2>3. QED
        BY <2>2, Zenon DEF g, gf, ab
<1>8. ASSUME NEW c, NEW d, c = a \o e, d = f
      PROVE  c \in Seq(S) /\ d \in Seq(S) /\ c \o d = a \o b
    BY <1>3, <1>4, <1>7, <1>8, Zenon
<1>9. QED
    BY <1>8, Zenon DEF e, f, PassedOn

\* What was in the first queue stays there.
LEMMA MovedStays ==
    ASSUME NEW S, NEW a \in Seq(S), NEW b \in Seq(S), NEW n \in 1..Len(b)
    PROVE  \A c, d : PassedOn(c, d, a, b, n) => Range(a) \subseteq Range(c)
<1> DEFINE e == SubSeq(b, 1, n)
<1>1. e \in Seq(S)
    <2>1. Len(b) \in Nat /\ n \in 0..Len(b) /\ 0 \in 0..Len(b) /\ n \in 0..Len(b) /\ 0 + 1 = 1
        BY LenProperties
    <2>2. SubSeq(b, 0 + 1, n) \in Seq(S)
        BY <2>1, Parts
    <2>3. QED
        BY <2>1, <2>2, Zenon
<1> HIDE DEF e
<1>2. Range(a \o e) = Range(a) \cup Range(e)
    BY <1>1, RangeConcatenation
<1>3. QED
    BY <1>2, Zenon DEF e, PassedOn

-----------------------------------------------------------------------------
(* Queues of whatever elements *)

IsQueue(q) == q \in Seq(Range(q))

LEMMA QueueOf ==
    ASSUME NEW S, NEW q \in Seq(S)
    PROVE  IsQueue(q)
BY SeqOfRange DEF IsQueue

LEMMA QueueAppended ==
    ASSUME NEW q, IsQueue(q), NEW e
    PROVE  /\ IsQueue(Append(q, e))
           /\ Len(q) \in Nat /\ Len(Append(q, e)) = Len(q) + 1
           /\ \A i \in 1..Len(q) : Append(q, e)[i] = q[i]
           /\ Append(q, e)[Len(q) + 1] = e
<1> DEFINE S == Range(q) \cup {e}
<1>1. q \in Seq(S) /\ e \in S
    BY SeqMonotonic DEF IsQueue
<1> HIDE DEF S
<1>2. /\ Append(q, e) \in Seq(S)
      /\ Len(q) \in Nat /\ Len(Append(q, e)) = Len(q) + 1
      /\ \A i \in 1..Len(q) : Append(q, e)[i] = q[i]
      /\ Append(q, e)[Len(q) + 1] = e
    BY <1>1, AppendProperties, LenProperties
<1>3. IsQueue(Append(q, e))
    BY <1>2, QueueOf
<1>4. QED
    BY <1>2, <1>3

LEMMA QueueTaken ==
    ASSUME NEW q, IsQueue(q), q # <<>>
    PROVE  /\ IsQueue(Tail(q))
           /\ Len(q) \in Nat /\ Len(q) >= 1 /\ Head(q) = q[1] /\ Len(Tail(q)) = Len(q) - 1
           /\ \A i \in 1..Len(q) - 1 : Tail(q)[i] = q[i + 1]
<1>1. q \in Seq(Range(q))
    BY DEF IsQueue
<1>2. /\ Tail(q) \in Seq(Range(q)) /\ Len(Tail(q)) = Len(q) - 1
      /\ \A i \in 1..Len(Tail(q)) : Tail(q)[i] = q[i + 1]
    BY <1>1, HeadTailProperties
<1>3. Len(q) \in Nat \ {0}
    BY <1>1, EmptySeq
<1>4. Head(q) = q[1]
    BY <1>1
<1>5. IsQueue(Tail(q))
    BY <1>2, QueueOf
<1>6. QED
    BY <1>2, <1>3, <1>4, <1>5

\* s has the elements of q and, after them, those of r.
Continues(s, q, r) ==
    /\ Len(q) \in Nat /\ Len(r) \in Nat /\ Len(s) = Len(q) + Len(r)
    /\ \A i \in 1..Len(q) : s[i] = q[i]
    /\ \A i \in 1..Len(r) : s[Len(q) + i] = r[i]

LEMMA QueueJoined ==
    ASSUME NEW q, IsQueue(q), NEW r, IsQueue(r)
    PROVE  IsQueue(q \o r) /\ Continues(q \o r, q, r)
<1> DEFINE S == Range(q) \cup Range(r)
           qr == q \o r
<1>1. q \in Seq(S) /\ r \in Seq(S)
    BY SeqMonotonic DEF IsQueue
<1>2. Len(q) \in Nat /\ Len(r) \in Nat
    BY <1>1, LenProperties
<1> HIDE DEF S
<1>3. /\ qr \in Seq(S) /\ Len(qr) = Len(q) + Len(r)
      /\ \A i \in 1..Len(q) + Len(r) : qr[i] = IF i <= Len(q) THEN q[i] ELSE r[i - Len(q)]
    BY <1>1, ConcatProperties
<1> HIDE DEF qr
<1>4. ASSUME NEW i \in 1..Len(q) PROVE qr[i] = q[i]
    BY <1>2, <1>3
<1>5. ASSUME NEW i \in 1..Len(r) PROVE qr[Len(q) + i] = r[i]
    <2>1. Len(q) + i \in 1..Len(q) + Len(r) /\ ~(Len(q) + i <= Len(q)) /\ (Len(q) + i) - Len(q) = i
        BY <1>2
    <2>2. QED
        BY <1>3, <2>1
<1>6. IsQueue(qr)
    BY <1>3, QueueOf
<1>7. QED
    BY <1>2, <1>3, <1>4, <1>5, <1>6 DEF qr, Continues

-----------------------------------------------------------------------------
(* How often an element is in a queue *)

PlacesOf(q, m) == {i \in 1..Len(q) : q[i] = m}

\* A queue has finitely many places.
LEMMA PlacesFinite ==
    ASSUME NEW S, NEW q \in Seq(S), NEW m
    PROVE  IsFiniteSet(PlacesOf(q, m)) /\ Cardinality(PlacesOf(q, m)) \in Nat
<1>1. Len(q) \in Nat
    BY LenProperties
<1>2. IsFiniteSet(1..Len(q)) /\ PlacesOf(q, m) \in SUBSET (1..Len(q))
    BY <1>1, FS_Interval DEF PlacesOf
<1>3. QED
    BY <1>2, FS_Subset, FS_CardinalityType

\* Appending counts one more of what is appended.
LEMMA PlacesAppended ==
    ASSUME NEW S, NEW q \in Seq(S), NEW e \in S, NEW m
    PROVE  Cardinality(PlacesOf(Append(q, e), m)) =
              Cardinality(PlacesOf(q, m)) + (IF e = m THEN 1 ELSE 0)
<1>1. /\ Len(q) \in Nat /\ Len(Append(q, e)) = Len(q) + 1
      /\ \A i \in 1..Len(q) : Append(q, e)[i] = q[i]
      /\ Append(q, e)[Len(q) + 1] = e
    BY Appended
<1>2. IsFiniteSet(PlacesOf(q, m)) /\ Cardinality(PlacesOf(q, m)) \in Nat
    BY PlacesFinite
<1>3. CASE e = m
    <2>1. PlacesOf(Append(q, e), m) = PlacesOf(q, m) \cup {Len(q) + 1}
        BY <1>1, <1>3 DEF PlacesOf
    <2>2. Len(q) + 1 \notin PlacesOf(q, m)
        BY <1>1 DEF PlacesOf
    <2>3. QED
        BY <1>2, <1>3, <2>1, <2>2, FS_AddElement
<1>4. CASE e # m
    <2>1. PlacesOf(Append(q, e), m) = PlacesOf(q, m)
        BY <1>1, <1>4 DEF PlacesOf
    <2>2. QED
        BY <1>2, <1>4, <2>1
<1>5. QED
    BY <1>3, <1>4

\* Taking the head counts one less of what was the head.
LEMMA PlacesTaken ==
    ASSUME NEW S, NEW q \in Seq(S), q # <<>>, NEW m
    PROVE  Cardinality(PlacesOf(Tail(q), m)) =
              Cardinality(PlacesOf(q, m)) - (IF Head(q) = m THEN 1 ELSE 0)
<1> DEFINE Later == PlacesOf(q, m) \ {1}
           f == [i \in Later |-> i - 1]
<1>1. /\ Len(q) \in Nat \ {0} /\ Len(Tail(q)) = Len(q) - 1
      /\ \A i \in 1..Len(Tail(q)) : Tail(q)[i] = q[i + 1]
      /\ Head(q) = q[1]
    BY Taken
<1>2. IsFiniteSet(PlacesOf(q, m)) /\ Cardinality(PlacesOf(q, m)) \in Nat
    BY PlacesFinite
<1>3. 1 \in PlacesOf(q, m) <=> Head(q) = m
    BY <1>1 DEF PlacesOf
<1>4. /\ IsFiniteSet(Later)
      /\ Cardinality(Later) = Cardinality(PlacesOf(q, m)) - (IF Head(q) = m THEN 1 ELSE 0)
    BY <1>2, <1>3, FS_RemoveElement
<1>5. \A i \in Later : i \in Nat /\ i - 1 \in PlacesOf(Tail(q), m)
    BY <1>1 DEF PlacesOf
<1>6. \A j \in PlacesOf(Tail(q), m) : j + 1 \in Later /\ (j + 1) - 1 = j
    BY <1>1 DEF PlacesOf
<1>7. f \in [Later -> PlacesOf(Tail(q), m)]
    BY <1>5
<1>8. f \in Bijection(Later, PlacesOf(Tail(q), m))
    <2>1. \A i \in Later, j \in Later : f[i] = f[j] => i = j
        BY <1>5
    <2>2. \A j \in PlacesOf(Tail(q), m) : \E i \in Later : f[i] = j
        BY <1>6
    <2>3. QED
        BY <1>7, <2>1, <2>2 DEF Bijection, Injection, Surjection, IsInjective
<1>9. ExistsBijection(Later, PlacesOf(Tail(q), m))
    BY <1>8 DEF ExistsBijection
<1>10. Cardinality(PlacesOf(Tail(q), m)) = Cardinality(Later)
    BY <1>4, <1>9, FS_Bijection
<1>11. QED
    BY <1>4, <1>10

-----------------------------------------------------------------------------
(* Induction *)

\* A set that has 0, and of every natural number it has the next one too, has all
\* of them: induction over numbers with a set in the place of a predicate.
LEMMA Induction ==
    ASSUME NEW T, 0 \in T, \A n \in Nat : n \in T => n + 1 \in T
    PROVE  Nat \subseteq T
<1> DEFINE Rest == Nat \ T
<1> SUFFICES ASSUME Rest # {} PROVE FALSE
    OBVIOUS
<1>1. PICK m \in Rest : \A k \in Rest : <<k, m>> \notin OpToRel(<, Nat)
    BY NatLessThanWellFounded, WFMin
<1>2. m \in Nat /\ m # 0
    OBVIOUS
<1>3. m - 1 \in Nat /\ m - 1 < m /\ (m - 1) + 1 = m
    BY <1>2
<1>4. <<m - 1, m>> \in OpToRel(<, Nat)
    BY <1>2, <1>3 DEF OpToRel
<1>5. m - 1 \in T
    BY <1>1, <1>3, <1>4
<1>6. QED
    BY <1>3, <1>5

\* The numbers up to the next one.
LEMMA UpToNext ==
    ASSUME NEW n \in Nat
    PROVE  1..(n + 1) = (1..n) \cup {n + 1} /\ n + 1 \notin 1..n
OBVIOUS

\* The largest of some numbers up to n is n, if n is one of them.
LEMMA LargestIsLast ==
    ASSUME NEW n \in Nat, NEW s \in SUBSET (1..n), n \in s
    PROVE  Max(s) = n
<1>1. \A x \in s : (\A y \in s : x >= y) <=> x = n
    OBVIOUS
<1>2. QED
    BY <1>1 DEF Max

=============================================================================
