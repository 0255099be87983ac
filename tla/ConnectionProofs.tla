-------------------------- MODULE ConnectionProofs --------------------------
(***************************************************************************)
(* Proofs about Connection, for any dialogue, any cut of the stream and    *)
(* all the widths of numbers: what a decoder makes of the front of a       *)
(* stream does not depend on what is still to come, the reader is always   *)
(* in the state some turn of its dialogue puts it in, and the connection   *)
(* keeps what PacketChannel promises. What is written is read back, number *)
(* by number, frame by frame and packet by packet, and so a client follows *)
(* the replies of the server.                                              *)
(***************************************************************************)
EXTENDS Connection, QueueLemmas

-----------------------------------------------------------------------------
(* The smallest of some numbers, and the weights of digits *)

LEMMA SmallestOf ==
    ASSUME NEW T \in SUBSET Nat, T # {}
    PROVE  Min(T) \in T /\ \A i \in T : Min(T) <= i
<1>1. PICK m \in T : \A k \in T : <<k, m>> \notin OpToRel(<, Nat)
    BY NatLessThanWellFounded, WFMin
<1>2. \A k \in T : k \in Nat /\ m \in Nat /\ ~(k < m)
    BY <1>1 DEF OpToRel
<1>3. \A k \in T : m <= k
    BY <1>2
<1>4. QED
    BY <1>1, <1>3 DEF Min

\* A product of numbers above 0 is above 0, and none of them is above it.
LEMMA Products ==
    ASSUME NEW a \in Nat \ {0}, NEW b \in Nat \ {0}
    PROVE  a * b \in Nat \ {0} /\ a * b >= a /\ a * b >= b
<1>1. PICK x \in Nat : a = x + 1
    <2>1. a - 1 \in Nat /\ a = (a - 1) + 1
        OBVIOUS
    <2>2. QED
        BY <2>1
<1>2. PICK y \in Nat : b = y + 1
    <2>1. b - 1 \in Nat /\ b = (b - 1) + 1
        OBVIOUS
    <2>2. QED
        BY <2>1
<1>3. a * b = x * y + x + y + 1 /\ x * y \in Nat
    BY <1>1, <1>2
<1>4. QED
    BY <1>1, <1>2, <1>3

\* What the assumption on the constants says of them.
LEMMA Weights ==
    /\ Radix \in Nat \ {0} /\ IntRange \in Nat \ {0}
    /\ PlaneRange \in Nat \ {0} /\ HeightRange \in Nat \ {0} /\ MaxFrame \in Nat \ {0}
    /\ \A i \in 1..6 : Weight[i] \in Nat \ {0}
    /\ IntRange % 2 = 0 /\ PlaneRange % 2 = 0 /\ HeightRange % 2 = 0
<1>1. /\ Radix \in Nat \ {0} /\ IntRange \in Nat \ {0}
      /\ PlaneRange \in Nat \ {0} /\ HeightRange \in Nat \ {0} /\ MaxFrame \in Nat \ {0}
      /\ IntRange % 2 = 0 /\ PlaneRange % 2 = 0 /\ HeightRange % 2 = 0
    BY WireAssumption
<1>2. Radix * Radix \in Nat \ {0}
    BY <1>1, Products
<1> DEFINE r2 == Radix * Radix
           r3 == r2 * Radix
           r4 == r3 * Radix
           r5 == r4 * Radix
<1>3. r2 \in Nat \ {0}
    BY <1>2
<1> HIDE DEF r2
<1>4. r3 \in Nat \ {0}
    BY <1>1, <1>3, Products
<1> HIDE DEF r3
<1>5. r4 \in Nat \ {0}
    BY <1>1, <1>4, Products
<1> HIDE DEF r4
<1>6. r5 \in Nat \ {0}
    BY <1>1, <1>5, Products
<1> HIDE DEF r5
<1>7. Weight = <<1, Radix, r2, r3, r4, r5>>
    BY DEF Weight, r2, r3, r4, r5
<1>8. \A i \in 1..6 : Weight[i] \in Nat \ {0}
    BY <1>1, <1>3, <1>4, <1>5, <1>6, <1>7
<1>9. QED
    BY <1>1, <1>8

-----------------------------------------------------------------------------
(* Where a VarInt ends *)

\* Cells whose bytes are numbers.
AreCells(S) == \A c \in S : c[1] = "byte" => c[2] \in Nat

EndsAt(s, i) == i <= Len(s) /\ (s[i][1] # "byte" \/ ~MoreFollow(s[i]))

\* A VarInt ends at the first of its cells at which it may end.
LEMMA VarIntEnds ==
    ASSUME NEW s
    PROVE  \/ VarIntEnd(s) = 0 /\ \A i \in 1..5 : ~EndsAt(s, i)
           \/ /\ VarIntEnd(s) \in 1..5 /\ EndsAt(s, VarIntEnd(s))
              /\ \A i \in 1..5 : EndsAt(s, i) => VarIntEnd(s) <= i
<1> DEFINE T == {i \in 1..5 : EndsAt(s, i)}
<1>1. VarIntEnd(s) = IF T = {} THEN 0 ELSE Min(T)
    BY DEF VarIntEnd, EndsAt
<1>2. T \in SUBSET Nat
    OBVIOUS
<1>3. T # {} => Min(T) \in T /\ \A i \in T : Min(T) <= i
    BY <1>2, SmallestOf
<1>4. QED
    BY <1>1, <1>3

\* Longer input: the cells of s, and perhaps others behind them.
Extends(q, s) ==
    /\ Len(s) \in Nat /\ Len(q) \in Nat /\ Len(s) <= Len(q)
    /\ \A i \in 1..Len(s) : q[i] = s[i]

LEMMA EndStands ==
    ASSUME NEW s, NEW q, Extends(q, s)
    PROVE  /\ VarIntEnd(s) # 0 => VarIntEnd(q) = VarIntEnd(s)
           /\ VarIntEnd(s) = 0 /\ Len(s) >= 5 => VarIntEnd(q) = 0
<1>1. \A i \in 1..5 : i <= Len(s) => (EndsAt(q, i) <=> EndsAt(s, i))
    BY DEF Extends, EndsAt
<1>2. \A i \in 1..5 : EndsAt(s, i) => i <= Len(s)
    BY DEF EndsAt
<1>3. Len(s) \in Nat
    BY DEF Extends
<1>4. CASE VarIntEnd(s) # 0
    <2> DEFINE n == VarIntEnd(s)
               m == VarIntEnd(q)
    <2>1. n \in 1..5 /\ EndsAt(s, n) /\ \A i \in 1..5 : EndsAt(s, i) => n <= i
        BY <1>4, VarIntEnds
    <2>2. EndsAt(q, n)
        BY <1>1, <1>2, <2>1
    <2>3. m \in 1..5 /\ EndsAt(q, m) /\ \A i \in 1..5 : EndsAt(q, i) => m <= i
        BY <2>1, <2>2, VarIntEnds
    <2> HIDE DEF n, m
    <2>4. m <= n /\ n <= Len(s)
        BY <1>2, <2>1, <2>2, <2>3
    <2>5. m <= Len(s)
        BY <1>3, <2>1, <2>3, <2>4
    <2>6. EndsAt(s, m)
        BY <1>1, <2>3, <2>5
    <2>7. n = m
        BY <2>1, <2>3, <2>4, <2>6
    <2>8. QED
        BY <1>4, <2>7 DEF n, m
<1>5. CASE VarIntEnd(s) = 0 /\ Len(s) >= 5
    <2>1. \A i \in 1..5 : ~EndsAt(s, i)
        BY <1>5, VarIntEnds
    <2>2. \A i \in 1..5 : ~EndsAt(q, i)
        BY <1>1, <1>3, <1>5, <2>1
    <2>3. QED
        BY <1>5, <2>2, VarIntEnds
<1>6. QED
    BY <1>4, <1>5

-----------------------------------------------------------------------------
(* The front and the rest of longer input *)

LEMMA FrontAndRest ==
    ASSUME NEW S, NEW s \in Seq(S), NEW x \in Seq(S), NEW n \in 0..Len(s)
    PROVE  /\ s \o x \in Seq(S) /\ Len(s \o x) = Len(s) + Len(x)
           /\ \A i \in 1..Len(s) : (s \o x)[i] = s[i]
           /\ FirstOf(s, n) \in Seq(S) /\ Len(FirstOf(s, n)) = n
           /\ Behind(s, n) \in Seq(S) /\ Len(Behind(s, n)) = Len(s) - n
           /\ FirstOf(s \o x, n) = FirstOf(s, n)
           /\ Behind(s \o x, n) = Behind(s, n) \o x
<1> DEFINE sx == s \o x
           m  == Len(s)
           k  == Len(x)
<1>1. sx \in Seq(S) /\ Joins(sx, s, x)
    BY Concatenated
<1>2. m \in Nat /\ k \in Nat /\ n \in 0..m
    BY LenProperties
<1> DEFINE front == SubSeq(s, 1, n)
           rest  == SubSeq(s, n + 1, m)
<1>3. front \in Seq(S) /\ IsPart(front, s, 0, n)
    <2>1. 0 \in 0..Len(s) /\ n \in 0..Len(s) /\ 0 + 1 = 1 /\ n - 0 = n
        BY <1>2
    <2>2. SubSeq(s, 0 + 1, n) \in Seq(S) /\ IsPart(SubSeq(s, 0 + 1, n), s, 0, n - 0)
        BY <2>1, Parts
    <2>3. QED
        BY <2>1, <2>2, Zenon
<1>4. rest \in Seq(S) /\ IsPart(rest, s, n, m - n)
    <2>1. n \in 0..Len(s) /\ Len(s) \in n..Len(s)
        BY <1>2
    <2>2. QED
        BY <2>1, Parts
<1> DEFINE both == rest \o x
<1> HIDE DEF rest
<1>5. both \in Seq(S) /\ Joins(both, rest, x)
    BY <1>4, Concatenated
<1>6. Len(sx) = m + k /\ \A i \in 1..m + k : sx[i] = IF i <= m THEN s[i] ELSE x[i - m]
    BY <1>1 DEF Joins
<1> HIDE DEF sx
<1> DEFINE frontx == SubSeq(sx, 1, n)
           restx  == SubSeq(sx, n + 1, Len(sx))
<1>7. frontx \in Seq(S) /\ IsPart(frontx, sx, 0, n)
    <2>1. 0 \in 0..Len(sx) /\ n \in 0..Len(sx) /\ 0 + 1 = 1 /\ n - 0 = n
        BY <1>2, <1>6
    <2>2. SubSeq(sx, 0 + 1, n) \in Seq(S) /\ IsPart(SubSeq(sx, 0 + 1, n), sx, 0, n - 0)
        BY <1>1, <2>1, Parts
    <2>3. QED
        BY <2>1, <2>2, Zenon
<1>8. restx \in Seq(S) /\ IsPart(restx, sx, n, m + k - n)
    <2>1. n \in 0..Len(sx) /\ Len(sx) \in n..Len(sx)
        BY <1>2, <1>6
    <2>2. restx \in Seq(S) /\ IsPart(restx, sx, n, Len(sx) - n)
        BY <1>1, <2>1, Parts
    <2>3. QED
        BY <1>6, <2>2
<1> HIDE DEF front, both, frontx, restx, m, k
<1>9. Len(front) = n /\ \A i \in 1..n : front[i] = s[0 + i]
    BY <1>3 DEF IsPart
<1>10. Len(rest) = m - n /\ \A i \in 1..m - n : rest[i] = s[n + i]
    BY <1>4 DEF IsPart
<1>11. Len(frontx) = n /\ \A i \in 1..n : frontx[i] = sx[0 + i]
    BY <1>7 DEF IsPart
<1>12. Len(restx) = m + k - n /\ \A i \in 1..m + k - n : restx[i] = sx[n + i]
    BY <1>8 DEF IsPart
<1>13. Len(both) = (m - n) + k /\ \A i \in 1..(m - n) + k : both[i] = IF i <= m - n THEN rest[i] ELSE x[i - (m - n)]
    BY <1>5, <1>10 DEF Joins, k
<1>14. frontx = front
    <2>1. ASSUME NEW i \in 1..n PROVE frontx[i] = front[i]
        <3>1. 0 + i \in 1..m + k /\ 0 + i <= m
            BY <1>2
        <3>2. sx[0 + i] = s[0 + i]
            BY <1>6, <3>1
        <3>3. QED
            BY <1>9, <1>11, <3>2
    <2>2. QED
        BY <1>3, <1>7, <1>9, <1>11, <2>1, SeqEqual
<1>15. restx = both
    <2>1. ASSUME NEW i \in 1..m + k - n PROVE restx[i] = both[i]
        <3>1. n + i \in 1..m + k /\ i \in 1..(m - n) + k
            BY <1>2
        <3>2. restx[i] = sx[n + i]
            BY <1>12
        <3>3. CASE i <= m - n
            <4>1. n + i <= m /\ i \in 1..m - n
                BY <1>2, <3>3
            <4>2. QED
                BY <1>6, <1>10, <1>13, <3>1, <3>2, <3>3, <4>1
        <3>4. CASE ~(i <= m - n)
            <4>1. ~(n + i <= m) /\ (n + i) - m = i - (m - n)
                BY <1>2, <3>4
            <4>2. sx[n + i] = x[(n + i) - m]
                BY <1>6, <3>1, <4>1
            <4>3. both[i] = x[i - (m - n)]
                BY <1>13, <3>1, <3>4
            <4>4. QED
                BY <3>2, <4>1, <4>2, <4>3
        <3>5. QED
            BY <3>3, <3>4
    <2>2. Len(restx) = Len(both) /\ Len(restx) = m + k - n
        BY <1>2, <1>12, <1>13
    <2>3. \A i \in 1..Len(restx) : restx[i] = both[i]
        BY <2>1, <2>2
    <2>4. QED
        BY <1>5, <1>8, <2>2, <2>3, SeqEqual
<1>16. \A i \in 1..m : sx[i] = s[i]
    BY <1>2, <1>6
<1>17. FirstOf(sx, n) = frontx /\ Behind(sx, n) = restx /\ FirstOf(s, n) = front /\ Behind(s, n) = rest
    BY DEF FirstOf, Behind, frontx, restx, front, rest, m
<1>18. Len(sx) = Len(s) + Len(x) /\ Len(rest) = Len(s) - n /\ \A i \in 1..Len(s) : sx[i] = s[i]
    BY <1>6, <1>10, <1>16 DEF m, k
<1>19. QED
    BY <1>1, <1>3, <1>4, <1>9, <1>14, <1>15, <1>17, <1>18, Zenon DEF sx, both

\* The same of whatever is longer.
LEMMA Longer ==
    ASSUME NEW S
    PROVE  \A s, x \in Seq(S) : \A sx : sx = s \o x =>
              /\ Len(sx) = Len(s) + Len(x)
              /\ \A n \in 0..Len(s) :
                    FirstOf(sx, n) = FirstOf(s, n) /\ Behind(sx, n) = Behind(s, n) \o x
<1>1. ASSUME NEW s \in Seq(S), NEW x \in Seq(S)
      PROVE  /\ Len(s \o x) = Len(s) + Len(x)
             /\ \A n \in 0..Len(s) :
                   FirstOf(s \o x, n) = FirstOf(s, n) /\ Behind(s \o x, n) = Behind(s, n) \o x
    <2>1. 0 \in 0..Len(s)
        BY LenProperties
    <2>2. Len(s \o x) = Len(s) + Len(x)
        BY <2>1, FrontAndRest
    <2>3. ASSUME NEW n \in 0..Len(s)
          PROVE  FirstOf(s \o x, n) = FirstOf(s, n) /\ Behind(s \o x, n) = Behind(s, n) \o x
        BY FrontAndRest
    <2>4. QED
        BY <2>2, <2>3, Zenon
<1>2. ASSUME NEW s \in Seq(S), NEW x \in Seq(S), NEW sx, sx = s \o x
      PROVE  /\ Len(sx) = Len(s) + Len(x)
             /\ \A n \in 0..Len(s) :
                   FirstOf(sx, n) = FirstOf(s, n) /\ Behind(sx, n) = Behind(s, n) \o x
    BY <1>1, <1>2, Zenon
<1>3. QED
    BY <1>2, Zenon

-----------------------------------------------------------------------------
(* Reading a VarInt *)

\* r read from input with x behind it.
With(r, x) ==
    CASE r.st = "got"     -> Got(r.value, r.rest \o x)
      [] r.st = "skipped" -> Skipped(r.rest \o x)
      [] OTHER -> r

LEMMA SignedIsInt ==
    ASSUME NEW u \in Int, NEW range \in Int
    PROVE  Signed(u, range) \in Int
BY DEF Signed

LEMMA RemainderIs ==
    ASSUME NEW a \in Int, NEW b \in Nat \ {0}
    PROVE  a % b \in 0..(b - 1)
OBVIOUS

LEMMA NumberIsNat ==
    ASSUME NEW S, AreCells(S), NEW s \in Seq(S), NEW n \in 1..Len(s), n <= 5,
           \A i \in 1..n : s[i][1] = "byte"
    PROVE  Number(s, n) \in Nat
<1>1. Radix \in Nat \ {0} /\ \A i \in 1..6 : Weight[i] \in Nat \ {0}
    BY Weights
<1> DEFINE digit(i) == IF i <= n THEN (s[i][2] % Radix) * Weight[i] ELSE 0
<1>2. ASSUME NEW i \in 1..5 PROVE digit(i) \in Nat
    <2>1. CASE i <= n
        <3>1. i \in 1..n /\ i \in 1..Len(s)
            BY <2>1, LenProperties
        <3>2. s[i][2] \in Nat
            BY <3>1, ElementOfSeq DEF AreCells
        <3> DEFINE v == s[i][2]
                   w == Weight[i]
        <3>a. w \in Nat /\ v \in Nat /\ digit(i) = (v % Radix) * w
            BY <1>1, <2>1, <3>2
        <3> HIDE DEF v, w, digit
        <3>3. w \in Nat /\ v % Radix \in Nat
            BY <1>1, <3>a, RemainderIs
        <3> DEFINE u == v % Radix
        <3>4. u \in Nat
            BY <3>3
        <3> HIDE DEF u
        <3>5. u * w \in Nat
            BY <3>3, <3>4
        <3>6. QED
            BY <3>a, <3>5 DEF u
    <2>2. CASE ~(i <= n)
        BY <2>2
    <2>3. QED
        BY <2>1, <2>2
<1>3. digit(1) \in Nat /\ digit(2) \in Nat /\ digit(3) \in Nat /\ digit(4) \in Nat /\ digit(5) \in Nat
    BY <1>2
<1>4. Number(s, n) = digit(1) + digit(2) + digit(3) + digit(4) + digit(5)
    BY DEF Number
<1> HIDE DEF digit
<1>5. QED
    BY <1>3, <1>4

\* The decoder has a value with what is behind it, or too little, or an error.
LEMMA VarIntShape ==
    ASSUME NEW S, AreCells(S), NEW s \in Seq(S)
    PROVE  \/ decode_var_int(s) = Short \/ decode_var_int(s) = Bad
           \/ \E v \in Int, n \in 1..Len(s) : decode_var_int(s) = Got(v, Behind(s, n))
<1> DEFINE n == VarIntEnd(s)
<1>1. CASE n = 0
    BY <1>1 DEF decode_var_int
<1>2. CASE n # 0 /\ s[n][1] # "byte"
    BY <1>2 DEF decode_var_int
<1>3. CASE n # 0 /\ s[n][1] = "byte"
    <2>1. n \in 1..5 /\ EndsAt(s, n) /\ \A i \in 1..5 : EndsAt(s, i) => n <= i
        BY <1>3, VarIntEnds
    <2>a. decode_var_int(s) = Got(Signed(Number(s, n) % IntRange, IntRange), Behind(s, n))
        BY <1>3 DEF decode_var_int
    <2>b. s[n][1] = "byte"
        BY <1>3
    <2> HIDE DEF n
    <2>2. Len(s) \in Nat /\ n <= Len(s)
        BY <2>1, LenProperties DEF EndsAt
    <2>3. \A i \in 1..n : s[i][1] = "byte"
        <3>1. ASSUME NEW i \in 1..n, i # n PROVE s[i][1] = "byte"
            <4>1. i \in 1..5 /\ i <= Len(s) /\ ~(n <= i)
                BY <2>1, <2>2, <3>1
            <4>2. QED
                BY <2>1, <4>1 DEF EndsAt
        <3>2. QED
            BY <2>b, <3>1
    <2>4. Number(s, n) \in Nat
        BY <2>1, <2>2, <2>3, NumberIsNat
    <2> DEFINE u == Number(s, n) % IntRange
    <2>5. u \in Nat /\ IntRange \in Nat
        BY <2>4, Weights
    <2> HIDE DEF u
    <2>6. Signed(u, IntRange) \in Int
        BY <2>5, SignedIsInt
    <2>7. n \in 1..Len(s)
        BY <2>1, <2>2
    <2>8. QED
        BY <2>a, <2>6, <2>7, Zenon DEF u
<1>4. QED
    BY <1>1, <1>2, <1>3

\* What follows does not change what has been read.
LEMMA VarIntStands ==
    ASSUME NEW S, NEW s \in Seq(S), NEW x \in Seq(S), decode_var_int(s) # Short
    PROVE  decode_var_int(s \o x) = With(decode_var_int(s), x)
<1> DEFINE q == s \o x
           n == VarIntEnd(s)
<1>1. Len(s) \in Nat /\ Len(x) \in Nat /\ 0 \in 0..Len(s)
    BY LenProperties
<1>2. q \in Seq(S) /\ Len(q) = Len(s) + Len(x) /\ \A i \in 1..Len(s) : q[i] = s[i]
    BY <1>1, FrontAndRest
<1> HIDE DEF q
<1>3. Extends(q, s)
    BY <1>1, <1>2 DEF Extends
<1>4. CASE n = 0
    <2>1. Len(s) >= 5 /\ decode_var_int(s) = Bad
        BY <1>1, <1>4 DEF decode_var_int
    <2>2. VarIntEnd(q) = 0 /\ ~(Len(q) < 5)
        BY <1>1, <1>2, <1>3, <1>4, <2>1, EndStands
    <2>3. decode_var_int(q) = Bad
        BY <2>2 DEF decode_var_int
    <2>4. With(Bad, x) = Bad
        BY DEF With, Bad
    <2>5. QED
        BY <2>1, <2>3, <2>4 DEF q
<1>5. CASE n # 0
    <2>1. VarIntEnd(q) = n
        BY <1>3, <1>5, EndStands
    <2>2. n \in 1..5 /\ n <= Len(s)
        BY <1>5, VarIntEnds DEF EndsAt
    <2> HIDE DEF n
    <2>3. n \in 1..Len(s) /\ n \in 0..Len(s)
        BY <1>1, <2>2
    <2>4. q[n] = s[n]
        BY <1>2, <2>3
    <2>5. Behind(q, n) = Behind(s, n) \o x
        BY <2>3, FrontAndRest DEF q
    <2>6. Number(q, n) = Number(s, n)
        <3>1. \A i \in 1..5 : i <= n => q[i] = s[i]
            BY <1>1, <1>2, <2>2
        <3>2. QED
            BY <3>1 DEF Number
    <2>7. CASE s[n][1] # "byte"
        <3>1. decode_var_int(s) = Bad /\ decode_var_int(q) = Bad
            BY <1>5, <2>1, <2>4, <2>7 DEF decode_var_int, n
        <3>2. With(Bad, x) = Bad
            BY DEF With, Bad
        <3>3. QED
            BY <3>1, <3>2 DEF q
    <2>8. CASE s[n][1] = "byte"
        <3> DEFINE v == Signed(Number(s, n) % IntRange, IntRange)
        <3>1. decode_var_int(s) = Got(v, Behind(s, n)) /\ decode_var_int(q) = Got(v, Behind(q, n))
            BY <1>5, <2>1, <2>4, <2>6, <2>8 DEF decode_var_int, n
        <3> HIDE DEF v
        <3>2. With(Got(v, Behind(s, n)), x) = Got(v, Behind(s, n) \o x)
            BY DEF With, Got
        <3>3. QED
            BY <2>5, <3>1, <3>2, Zenon DEF q
    <2>9. QED
        BY <2>7, <2>8
<1>6. QED
    BY <1>4, <1>5

-----------------------------------------------------------------------------
(* Reading the body of a frame *)

\* A length that no frame has.
Refuses(v, prefix, strict) ==
    v < 0 \/ v > MaxFrame \/ (strict /\ (v = 0 \/ prefix > MaxPrefix))

LEMMA FrameBodyOf ==
    ASSUME NEW s, NEW strict \in BOOLEAN
    PROVE  /\ decode_var_int(s) = Short => FrameBody(s, strict) = Short
           /\ decode_var_int(s) = Bad => FrameBody(s, strict) = Bad
           /\ \A v, rest : decode_var_int(s) = Got(v, rest) =>
                FrameBody(s, strict) =
                  IF Refuses(v, Len(s) - Len(rest), strict) THEN Bad
                  ELSE IF Len(rest) < v THEN Short ELSE Got(FirstOf(rest, v), Behind(rest, v))
<1>1. decode_var_int(s) = Short => FrameBody(s, strict) = Short
    BY DEF FrameBody, BodyBehind, Short
<1>2. decode_var_int(s) = Bad => FrameBody(s, strict) = Bad
    BY DEF FrameBody, BodyBehind, Bad
<1>3. ASSUME NEW v, NEW rest, decode_var_int(s) = Got(v, rest)
      PROVE  FrameBody(s, strict) =
               IF Refuses(v, Len(s) - Len(rest), strict) THEN Bad
               ELSE IF Len(rest) < v THEN Short ELSE Got(FirstOf(rest, v), Behind(rest, v))
    <2>1. Got(v, rest).st = "got" /\ Got(v, rest).value = v /\ Got(v, rest).rest = rest
        BY DEF Got
    <2>2. QED
        BY <1>3, <2>1, Zenon DEF FrameBody, BodyBehind, Refuses
<1>4. QED
    BY <1>1, <1>2, <1>3, Zenon

\* A frame is there with its body and what is behind it, or not yet, or it is bad.
LEMMA FrameShape ==
    ASSUME NEW S, AreCells(S), NEW s \in Seq(S), NEW strict \in BOOLEAN
    PROVE  \/ FrameBody(s, strict) = Short \/ FrameBody(s, strict) = Bad
           \/ \E b \in Seq(S), rest \in Seq(S) : FrameBody(s, strict) = Got(b, rest)
<1>1. CASE decode_var_int(s) = Short \/ decode_var_int(s) = Bad
    BY <1>1, FrameBodyOf
<1>2. CASE \E v \in Int, n \in 1..Len(s) : decode_var_int(s) = Got(v, Behind(s, n))
    <2>1. PICK v \in Int, n \in 1..Len(s) : decode_var_int(s) = Got(v, Behind(s, n))
        BY <1>2
    <2> DEFINE rest == Behind(s, n)
               b == FrameBody(s, strict)
    <2>2. n \in 0..Len(s)
        BY LenProperties
    <2>3. rest \in Seq(S)
        BY <2>2, FrontAndRest
    <2>4. b = IF Refuses(v, Len(s) - Len(rest), strict) THEN Bad
               ELSE IF Len(rest) < v THEN Short ELSE Got(FirstOf(rest, v), Behind(rest, v))
        BY <2>1, FrameBodyOf
    <2> HIDE DEF rest, b
    <2>5. CASE ~Refuses(v, Len(s) - Len(rest), strict) /\ ~(Len(rest) < v)
        <3>1. v \in 0..Len(rest)
            BY <2>3, <2>5, LenProperties, Weights DEF Refuses
        <3>2. FirstOf(rest, v) \in Seq(S) /\ Behind(rest, v) \in Seq(S)
            BY <2>3, <3>1, FrontAndRest
        <3>3. QED
            BY <2>4, <2>5, <3>2 DEF b
    <2>6. QED
        BY <2>4, <2>5 DEF b
<1>3. QED
    BY <1>1, <1>2, VarIntShape

\* A frame that is there stays what it is whatever follows it.
LEMMA FrameStands ==
    ASSUME NEW S, AreCells(S), NEW s \in Seq(S), NEW x \in Seq(S), NEW strict \in BOOLEAN,
           FrameBody(s, strict) # Short
    PROVE  \/ FrameBody(s, strict) = Bad /\ FrameBody(s \o x, strict) = Bad
           \/ \E b \in Seq(S), rest \in Seq(S) :
                FrameBody(s, strict) = Got(b, rest) /\ FrameBody(s \o x, strict) = Got(b, rest \o x)
<1> DEFINE q == s \o x
<1>0. Len(s) \in Nat /\ Len(x) \in Nat /\ 0 \in 0..Len(s)
    BY LenProperties
<1>1. Len(q) = Len(s) + Len(x)
    BY <1>0, FrontAndRest
<1>2. decode_var_int(s) # Short
    BY FrameBodyOf
<1>3. decode_var_int(q) = With(decode_var_int(s), x)
    BY <1>2, VarIntStands
<1>4. CASE decode_var_int(s) = Bad
    <2>1. decode_var_int(q) = Bad
        BY <1>3, <1>4 DEF With, Bad
    <2>2. QED
        BY <1>4, <2>1, FrameBodyOf
<1>5. CASE \E v \in Int, n \in 1..Len(s) : decode_var_int(s) = Got(v, Behind(s, n))
    <2>1. PICK v \in Int, n \in 1..Len(s) : decode_var_int(s) = Got(v, Behind(s, n))
        BY <1>5
    <2> DEFINE rest == Behind(s, n)
               restx == rest \o x
    <2>2. n \in 0..Len(s)
        BY LenProperties
    <2>3. rest \in Seq(S) /\ Len(rest) = Len(s) - n
        BY <2>2, FrontAndRest
    <2>a. decode_var_int(s) = Got(v, rest)
        BY <2>1
    <2> HIDE DEF rest
    <2>4. decode_var_int(q) = Got(v, restx)
        BY <1>3, <2>a DEF With, Got
    <2>5. Len(rest) \in Nat /\ 0 \in 0..Len(rest)
        BY <2>3, LenProperties
    <2> HIDE DEF q
    <2>b. /\ Len(restx) = Len(rest) + Len(x)
          /\ \A k \in 0..Len(rest) :
                FirstOf(restx, k) = FirstOf(rest, k) /\ Behind(restx, k) = Behind(rest, k) \o x
        <3> HIDE DEF restx
        <3>1. restx = rest \o x
            BY DEF restx
        <3>2. QED
            BY <2>3, <3>1, Longer, Zenon
    <2> HIDE DEF restx
    <2>6. Len(restx) = Len(rest) + Len(x)
        BY <2>b
    <2>7. Len(q) - Len(restx) = Len(s) - Len(rest)
        BY <1>0, <1>1, <2>5, <2>6
    <2> DEFINE refuses == Refuses(v, Len(s) - Len(rest), strict)
    <2>8. FrameBody(s, strict) = IF refuses THEN Bad
             ELSE IF Len(rest) < v THEN Short ELSE Got(FirstOf(rest, v), Behind(rest, v))
        BY <2>a, FrameBodyOf
    <2>9. FrameBody(q, strict) = IF refuses THEN Bad
             ELSE IF Len(restx) < v THEN Short ELSE Got(FirstOf(restx, v), Behind(restx, v))
        <3>1. FrameBody(q, strict) = IF Refuses(v, Len(q) - Len(restx), strict) THEN Bad
                 ELSE IF Len(restx) < v THEN Short ELSE Got(FirstOf(restx, v), Behind(restx, v))
            BY <2>4, FrameBodyOf
        <3>2. QED
            BY <2>7, <3>1, Zenon
    <2>10. CASE refuses
        BY <2>8, <2>9, <2>10 DEF q
    <2>11. CASE ~refuses
        <3>1. ~(Len(rest) < v)
            BY <2>8, <2>11
        <3>2. v \in 0..Len(rest) /\ ~(Len(restx) < v)
            <4>1. v \in Int /\ ~(v < 0)
                BY <2>11 DEF Refuses
            <4>2. Len(rest) \in Nat /\ Len(x) \in Nat /\ Len(restx) = Len(rest) + Len(x)
                BY <2>5, <2>6, LenProperties
            <4> HIDE DEF refuses
            <4>3. v \in 0..Len(rest)
                BY <3>1, <4>1, <4>2
            <4>4. ~(Len(restx) < v)
                BY <4>2, <4>3
            <4>5. QED
                BY <4>3, <4>4
        <3>3. FirstOf(restx, v) = FirstOf(rest, v) /\ Behind(restx, v) = Behind(rest, v) \o x
            BY <2>b, <3>2
        <3>4. FirstOf(rest, v) \in Seq(S) /\ Behind(rest, v) \in Seq(S)
            BY <2>3, <3>2, FrontAndRest
        <3>5. /\ FrameBody(s, strict) = Got(FirstOf(rest, v), Behind(rest, v))
              /\ FrameBody(q, strict) = Got(FirstOf(rest, v), Behind(rest, v) \o x)
            BY <2>8, <2>9, <2>11, <3>1, <3>2, <3>3
        <3>6. QED
            BY <3>4, <3>5, Zenon DEF q
    <2>12. QED
        BY <2>10, <2>11
<1>6. QED
    BY <1>2, <1>4, <1>5, VarIntShape

-----------------------------------------------------------------------------
(* From the body of a frame to a packet *)

\* r and rx are the same outcome, apart from what is left of the input: rest and
\* restx.
Framed(r, rx, rest, restx) ==
    \/ r = Short /\ rx = Short
    \/ r = Bad /\ rx = Bad
    \/ r = Got(r.value, rest) /\ rx = Got(r.value, restx)

PassesOn(r, rx, rest, restx) ==
    \/ Framed(r, rx, rest, restx)
    \/ r = Wrong /\ rx = Wrong
    \/ r = Skipped(rest) /\ rx = Skipped(restx)

LEMMA GotIs ==
    /\ \A v, rest : Got(v, rest).st = "got" /\ Got(v, rest).value = v /\ Got(v, rest).rest = rest
    /\ \A rest : Skipped(rest).st = "skipped" /\ Skipped(rest).rest = rest
    /\ Short.st = "short" /\ Bad.st = "bad" /\ Wrong.st = "wrong"
BY DEF Got, Skipped, Short, Bad, Wrong

\* A packet is one whatever is behind it.
LEMMA PacketPasses ==
    ASSUME NEW c, NEW rest, NEW restx
    PROVE  Framed(PacketIn(Got(c, rest)), PacketIn(Got(c, restx)), rest, restx)
<1> DEFINE r == Whole(decode_var_int(c))
<1>1. PacketIn(Got(c, rest)) = IF r.st = "got" THEN Frame(r.value, r.rest, rest) ELSE r
    BY GotIs DEF PacketIn, PacketOf
<1>2. PacketIn(Got(c, restx)) = IF r.st = "got" THEN Frame(r.value, r.rest, restx) ELSE r
    BY GotIs DEF PacketIn, PacketOf
<1>3. r.st = "got" \/ r = Bad
    BY DEF Whole
<1> HIDE DEF r
<1>4. CASE r.st = "got"
    <2> DEFINE p == [id |-> r.value, payload |-> r.rest]
    <2>1. PacketIn(Got(c, rest)) = Got(p, rest) /\ PacketIn(Got(c, restx)) = Got(p, restx)
        BY <1>1, <1>2, <1>4 DEF Frame
    <2> HIDE DEF p
    <2>2. QED
        BY <2>1, GotIs DEF Framed
<1>5. CASE r = Bad
    BY <1>1, <1>2, <1>5, GotIs DEF Framed
<1>6. QED
    BY <1>3, <1>4, <1>5

\* What is no frame is no packet either.
LEMMA PacketInNone ==
    /\ PacketIn(Short) = Short /\ PacketIn(Bad) = Bad
    /\ Inflated(Short) = Short /\ Inflated(Bad) = Bad
BY GotIs DEF PacketIn, Inflated

\* What has been compressed is the same whatever is behind it.
LEMMA InflatedIs ==
    ASSUME NEW body
    PROVE  \/ \A rest : Inflated(Got(body, rest)) = Bad
           \/ \E c : \A rest : Inflated(Got(body, rest)) = Got(c, rest)
<1> DEFINE n == decode_var_int(body)
           z == TakeCells("zlib", n.rest)
<1>1. \A rest : Inflated(Got(body, rest)) = Unpacked(n, rest)
    BY GotIs DEF Inflated
<1>2. \A rest : Unpacked(n, rest) =
        IF n.st # "got" \/ n.value < 0 THEN Bad
        ELSE IF n.value = 0 THEN Got(n.rest, rest)
        ELSE IF z.st = "got" /\ Len(z.value) = n.value THEN Got(z.value, rest) ELSE Bad
    BY DEF Unpacked, Unzipped
<1> HIDE DEF n, z
<1>3. QED
    BY <1>1, <1>2

\* The packet in the body of a frame.
Opened(t, body, rest) ==
    IF t < 0 THEN PacketIn(Got(body, rest)) ELSE PacketIn(Inflated(Got(body, rest)))

LEMMA OpenedPasses ==
    ASSUME NEW t \in Int, NEW body, NEW rest, NEW restx
    PROVE  Framed(Opened(t, body, rest), Opened(t, body, restx), rest, restx)
<1>1. CASE t < 0
    BY <1>1, PacketPasses DEF Opened
<1>2. CASE ~(t < 0)
    <2>1. Opened(t, body, rest) = PacketIn(Inflated(Got(body, rest)))
        BY <1>2 DEF Opened
    <2>2. Opened(t, body, restx) = PacketIn(Inflated(Got(body, restx)))
        BY <1>2 DEF Opened
    <2>3. CASE \A z : Inflated(Got(body, z)) = Bad
        BY <2>1, <2>2, <2>3, PacketInNone DEF Framed
    <2>4. CASE \E c : \A z : Inflated(Got(body, z)) = Got(c, z)
        <3>1. PICK c : \A z : Inflated(Got(body, z)) = Got(c, z)
            BY <2>4
        <3>2. Framed(PacketIn(Got(c, rest)), PacketIn(Got(c, restx)), rest, restx)
            BY PacketPasses
        <3>3. QED
            BY <2>1, <2>2, <3>1, <3>2
    <2>5. QED
        BY <2>3, <2>4, InflatedIs
<1>3. QED
    BY <1>1, <1>2

\* A frame with or without compression is the body of a frame, opened.
LEMMA FrameOpened ==
    ASSUME NEW s, NEW t \in Int
    PROVE  /\ FrameBody(s, t < 0) = Short => decode_compressed_frame(s, t) = Short
           /\ FrameBody(s, t < 0) = Bad => decode_compressed_frame(s, t) = Bad
           /\ \A body, rest : FrameBody(s, t < 0) = Got(body, rest) =>
                decode_compressed_frame(s, t) = Opened(t, body, rest)
<1> DEFINE b == FrameBody(s, t < 0)
<1>1. CASE t < 0
    <2>1. (t < 0) = TRUE
        BY <1>1
    <2>2. b = FrameBody(s, TRUE)
        BY <2>1, Zenon
    <2>3. decode_compressed_frame(s, t) = PacketIn(b)
        BY <1>1, <2>2 DEF decode_compressed_frame, decode_frame
    <2>4. \A body, rest : Opened(t, body, rest) = PacketIn(Got(body, rest))
        BY <1>1 DEF Opened
    <2> HIDE DEF b
    <2>5. QED
        BY <2>3, <2>4, PacketInNone DEF b
<1>2. CASE ~(t < 0)
    <2>1. (t < 0) = FALSE
        BY <1>2
    <2>2. b = FrameBody(s, FALSE)
        BY <2>1, Zenon
    <2>3. decode_compressed_frame(s, t) = PacketIn(Inflated(b))
        BY <1>2, <2>2 DEF decode_compressed_frame, decode_raw_frame
    <2>4. \A body, rest : Opened(t, body, rest) = PacketIn(Inflated(Got(body, rest)))
        BY <1>2 DEF Opened
    <2> HIDE DEF b
    <2>5. QED
        BY <2>3, <2>4, PacketInNone DEF b
<1>3. QED
    BY <1>1, <1>2

\* Without compression.
LEMMA FrameIs ==
    ASSUME NEW s
    PROVE  decode_frame(s) = decode_compressed_frame(s, -1) /\ (-1 < 0) = TRUE
BY DEF decode_compressed_frame

-----------------------------------------------------------------------------
(* What the decoders make of a frame *)

\* Without compression there is nothing else to say of a frame than with it.
LEMMA BodyPasses ==
    ASSUME NEW codec, NEW payload, NEW rest, NEW restx
    PROVE  Framed(DecodeBody(codec, payload, rest), DecodeBody(codec, payload, restx), rest, restx)
<1> DEFINE r == Read(codec.layout, payload)
<1>1. DecodeBody(codec, payload, rest) = IF r.st # "got" \/ r.rest # <<>> THEN Bad ELSE Got(r.value, rest)
    BY DEF DecodeBody, Finished
<1>2. DecodeBody(codec, payload, restx) = IF r.st # "got" \/ r.rest # <<>> THEN Bad ELSE Got(r.value, restx)
    BY DEF DecodeBody, Finished
<1> HIDE DEF r
<1>3. QED
    BY <1>1, <1>2, GotIs DEF Framed

\* One decoder.
LEMMA DecodePasses ==
    ASSUME NEW s, NEW q, NEW rest, NEW restx,
           Framed(decode_frame(s), decode_frame(q), rest, restx), NEW codec
    PROVE  /\ PassesOn(Decode(codec, s), Decode(codec, q), rest, restx)
           /\ decode_frame(s) = Short => Decode(codec, s) = Short
           /\ Decode(codec, s) = Wrong => decode_frame(s) = Got(decode_frame(s).value, rest)
           /\ Decode(codec, s) # Skipped(rest)
<1> DEFINE f == decode_frame(s)
           fx == decode_frame(q)
           r == Decode(codec, s)
           rx == Decode(codec, q)
<1>1. r = IF f.st = "got" THEN IF f.value.id # codec.id THEN Wrong
                               ELSE DecodeBody(codec, f.value.payload, f.rest) ELSE f
    BY DEF Decode, DecodeIn
<1>2. rx = IF fx.st = "got" THEN IF fx.value.id # codec.id THEN Wrong
                                 ELSE DecodeBody(codec, fx.value.payload, fx.rest) ELSE fx
    BY DEF Decode, DecodeIn
<1>3. Framed(f, fx, rest, restx)
    OBVIOUS
<1> HIDE DEF f, fx, r, rx
<1>4. CASE f = Short /\ fx = Short
    BY <1>1, <1>2, <1>4, GotIs DEF PassesOn, Framed, f, fx, r, rx
<1>5. CASE f = Bad /\ fx = Bad
    BY <1>1, <1>2, <1>5, GotIs DEF PassesOn, Framed, f, fx, r, rx
<1>6. CASE f = Got(f.value, rest) /\ fx = Got(f.value, restx)
    <2> DEFINE p == f.value
    <2>a. f = Got(p, rest) /\ fx = Got(p, restx)
        BY <1>6
    <2> HIDE DEF p
    <2>1. f.st = "got" /\ fx.st = "got" /\ f.value = p /\ fx.value = p /\ f.rest = rest /\ fx.rest = restx
        BY <2>a, GotIs
    <2>2. CASE p.id # codec.id
        <3>1. r = Wrong /\ rx = Wrong
            BY <1>1, <1>2, <2>1, <2>2
        <3>2. QED
            BY <2>a, <2>1, <3>1, GotIs DEF PassesOn, f, r, rx
    <2>3. CASE p.id = codec.id
        <3>1. r = DecodeBody(codec, p.payload, rest) /\ rx = DecodeBody(codec, p.payload, restx)
            BY <1>1, <1>2, <2>1, <2>3
        <3>2. Framed(r, rx, rest, restx)
            BY <3>1, BodyPasses
        <3>3. QED
            BY <2>a, <2>1, <3>2, GotIs DEF PassesOn, Framed, f, r, rx
    <2>4. QED
        BY <2>2, <2>3
<1>7. QED
    BY <1>3, <1>4, <1>5, <1>6 DEF Framed

\* Naming what has been decoded.
LEMMA AsPasses ==
    ASSUME NEW name, NEW r, NEW rx, NEW rest, NEW restx, PassesOn(r, rx, rest, restx)
    PROVE  /\ PassesOn(As(name, r), As(name, rx), rest, restx)
           /\ As(name, Short) = Short
           /\ r # Skipped(rest) => As(name, r) # Skipped(rest)
<1>1. As(name, Short) = Short
    BY GotIs DEF As
<1>2. r.st # "got" => As(name, r) = r
    BY DEF As
<1>3. rx.st # "got" => As(name, rx) = rx
    BY DEF As
<1>4. CASE r = Got(r.value, rest) /\ rx = Got(r.value, restx)
    <2> DEFINE v == r.value
               p == [name |-> name, packet |-> v]
    <2>1. r = Got(v, rest) /\ rx = Got(v, restx)
        BY <1>4
    <2> HIDE DEF v
    <2>2. As(name, r) = Got(p, rest) /\ As(name, rx) = Got(p, restx)
        BY <2>1, GotIs DEF As
    <2> HIDE DEF p
    <2>3. QED
        BY <1>1, <2>2, GotIs DEF PassesOn, Framed
<1>5. CASE r.st # "got" /\ rx.st # "got"
    BY <1>1, <1>2, <1>3, <1>5
<1>6. QED
    BY <1>4, <1>5, GotIs DEF PassesOn, Framed

\* The first decoder of a table that does not say WrongPacketId, or 0.
FitsOf(rows, s) ==
    LET fits == {i \in 1..Len(rows) : Decode(rows[i].dec, s).st # "wrong"}
    IN IF fits = {} THEN 0 ELSE Min(fits)

LEMMA InnerIs ==
    ASSUME NEW rows, NEW s
    PROVE  try_decode_play_packet_inner(rows, s) =
             IF FitsOf(rows, s) # 0
             THEN As(rows[FitsOf(rows, s)].name, Decode(rows[FitsOf(rows, s)].dec, s))
             ELSE Skipped(decode_frame(s).rest)
BY DEF try_decode_play_packet_inner, FitsOf, SelectInSeq

\* All the decoders of a table in turn.
LEMMA InnerPasses ==
    ASSUME NEW s, NEW q, NEW rest, NEW restx,
           Framed(decode_frame(s), decode_frame(q), rest, restx),
           NEW rows, Len(rows) \in Nat \ {0}
    PROVE  LET r  == try_decode_play_packet_inner(rows, s)
               rx == try_decode_play_packet_inner(rows, q)
           IN /\ PassesOn(r, rx, rest, restx)
              /\ decode_frame(s) = Short => r = Short
<1> DEFINE r  == try_decode_play_packet_inner(rows, s)
           rx == try_decode_play_packet_inner(rows, q)
           D(i) == Decode(rows[i].dec, s)
           Dx(i) == Decode(rows[i].dec, q)
           T == {i \in 1..Len(rows) : D(i).st # "wrong"}
           Tx == {i \in 1..Len(rows) : Dx(i).st # "wrong"}
<1>1. ASSUME NEW i
      PROVE  /\ PassesOn(D(i), Dx(i), rest, restx)
             /\ decode_frame(s) = Short => D(i) = Short
             /\ D(i) = Wrong => decode_frame(s) = Got(decode_frame(s).value, rest)
    BY DecodePasses
<1>2. \A i : D(i).st = "wrong" <=> Dx(i).st = "wrong"
    <2>1. ASSUME NEW i PROVE D(i).st = "wrong" <=> Dx(i).st = "wrong"
        <3> DEFINE a == D(i)
                   ax == Dx(i)
        <3>1. PassesOn(a, ax, rest, restx)
            BY <1>1
        <3> HIDE DEF a, ax
        <3>2. a.st = "wrong" <=> ax.st = "wrong"
            BY <3>1, GotIs DEF PassesOn, Framed
        <3>3. QED
            BY <3>2 DEF a, ax
    <2>2. QED
        BY <2>1
<1>3. T = Tx
    BY <1>2
<1>4. FitsOf(rows, s) = (IF T = {} THEN 0 ELSE Min(T)) /\ FitsOf(rows, q) = (IF Tx = {} THEN 0 ELSE Min(Tx))
    BY DEF FitsOf
<1> DEFINE n == FitsOf(rows, s)
<1>5. FitsOf(rows, q) = n
    <2> HIDE DEF T, Tx
    <2>1. QED
        BY <1>3, <1>4, SMT
<1>6. n = 0 <=> T = {}
    <2>1. T \in SUBSET Nat
        OBVIOUS
    <2>2. T # {} => Min(T) \in T
        BY <2>1, SmallestOf
    <2>3. QED
        BY <1>4, <2>2
<1>7. r = (IF n # 0 THEN As(rows[n].name, D(n)) ELSE Skipped(decode_frame(s).rest))
    BY InnerIs
<1>8. rx = (IF n # 0 THEN As(rows[n].name, Dx(n)) ELSE Skipped(decode_frame(q).rest))
    BY <1>5, InnerIs
<1>9. CASE n # 0
    <2> DEFINE a == D(n)
               ax == Dx(n)
               name == rows[n].name
    <2>1. PassesOn(a, ax, rest, restx) /\ (decode_frame(s) = Short => a = Short)
        BY <1>1
    <2>2. r = As(name, a) /\ rx = As(name, ax)
        BY <1>7, <1>8, <1>9
    <2> HIDE DEF a, ax, name, r, rx
    <2>3. PassesOn(As(name, a), As(name, ax), rest, restx) /\ As(name, Short) = Short
        BY <2>1, AsPasses
    <2>4. PassesOn(r, rx, rest, restx) /\ (decode_frame(s) = Short => r = Short)
        BY <2>1, <2>2, <2>3
    <2>5. QED
        BY <2>4 DEF r, rx
<1>10. CASE n = 0
    <2>1. 1 \in 1..Len(rows)
        OBVIOUS
    <2>2. D(1).st = "wrong"
        BY <1>6, <1>10, <2>1
    <2>3. D(1) = Wrong
        <3> DEFINE a == D(1)
                   ax == Dx(1)
        <3>1. PassesOn(a, ax, rest, restx)
            BY <1>1
        <3> HIDE DEF a, ax
        <3>2. a.st = "wrong" => a = Wrong
            BY <3>1, GotIs DEF PassesOn, Framed
        <3>3. QED
            BY <2>2, <3>2 DEF a
    <2> DEFINE f == decode_frame(s)
               fx == decode_frame(q)
    <2>4. f = Got(f.value, rest)
        BY <1>1, <2>3
    <2>5. Framed(f, fx, rest, restx)
        OBVIOUS
    <2>6. r = Skipped(f.rest) /\ rx = Skipped(fx.rest)
        BY <1>7, <1>8, <1>10
    <2> HIDE DEF f, fx, r, rx
    <2>7. f.st = "got" /\ f.rest = rest
        BY <2>4, GotIs
    <2>8. fx.rest = restx
        BY <2>5, <2>7, GotIs DEF Framed
    <2>9. PassesOn(r, rx, rest, restx) /\ f # Short
        BY <2>6, <2>7, <2>8, GotIs DEF PassesOn
    <2>10. QED
        BY <2>9 DEF f, r, rx
<1>11. QED
    BY <1>9, <1>10

\* What a frame is does not depend on there being more than one way to say what
\* is behind it.
LEMMA FrameOutcome ==
    ASSUME NEW s, FrameBody(s, TRUE) = Short \/ FrameBody(s, TRUE) = Bad
                    \/ \E body, rest : FrameBody(s, TRUE) = Got(body, rest)
    PROVE  \E rest : Framed(decode_frame(s), decode_frame(s), rest, rest)
<1>1. /\ FrameBody(s, TRUE) = Short => decode_frame(s) = Short
      /\ FrameBody(s, TRUE) = Bad => decode_frame(s) = Bad
      /\ \A body, rest : FrameBody(s, TRUE) = Got(body, rest) => decode_frame(s) = Opened(-1, body, rest)
    <2>a. (-1) \in Int
        OBVIOUS
    <2>1. (-1) \in Int /\ ((-1) < 0) = TRUE /\ decode_frame(s) = decode_compressed_frame(s, -1)
        BY <2>a, FrameIs, Zenon
    <2>2. /\ FrameBody(s, (-1) < 0) = Short => decode_compressed_frame(s, -1) = Short
          /\ FrameBody(s, (-1) < 0) = Bad => decode_compressed_frame(s, -1) = Bad
          /\ \A body, rest : FrameBody(s, (-1) < 0) = Got(body, rest) =>
                decode_compressed_frame(s, -1) = Opened(-1, body, rest)
        BY <2>1, FrameOpened
    <2>3. QED
        BY <2>1, <2>2, Zenon
<1>2. CASE \E body, rest : FrameBody(s, TRUE) = Got(body, rest)
    <2>1. PICK body, rest : FrameBody(s, TRUE) = Got(body, rest)
        BY <1>2
    <2>2. decode_frame(s) = Opened(-1, body, rest)
        BY <1>1, <2>1
    <2>3. Framed(Opened(-1, body, rest), Opened(-1, body, rest), rest, rest)
        BY OpenedPasses
    <2>4. QED
        BY <2>2, <2>3
<1>3. QED
    BY <1>1, <1>2 DEF Framed

LEMMA FrameAlone ==
    ASSUME NEW s
    PROVE  \E rest : Framed(decode_frame(s), decode_frame(s), rest, rest)
<1> DEFINE b == FrameBody(s, TRUE)
<1>1. decode_var_int(s) = Short \/ decode_var_int(s) = Bad \/ \E v, z : decode_var_int(s) = Got(v, z)
    BY DEF decode_var_int
<1>2. CASE decode_var_int(s) = Short \/ decode_var_int(s) = Bad
    <2>1. b = Short \/ b = Bad
        BY <1>2, FrameBodyOf
    <2>2. QED
        BY <2>1, FrameOutcome
<1>3. CASE \E v, z : decode_var_int(s) = Got(v, z)
    <2>1. PICK v, z : decode_var_int(s) = Got(v, z)
        BY <1>3
    <2>2. b = IF Refuses(v, Len(s) - Len(z), TRUE) THEN Bad
              ELSE IF Len(z) < v THEN Short ELSE Got(FirstOf(z, v), Behind(z, v))
        BY <2>1, FrameBodyOf
    <2>3. b = Short \/ b = Bad \/ \E body, rest : b = Got(body, rest)
        <3> HIDE DEF b
        <3>1. QED
            BY <2>2
    <2>4. QED
        BY <2>3, FrameOutcome
<1>4. QED
    BY <1>1, <1>2, <1>3

\* The server in Play.
LEMMA PlayPasses ==
    ASSUME NEW s, NEW q, NEW rest, NEW restx, NEW t \in Int,
           Framed(decode_compressed_frame(s, t), decode_compressed_frame(q, t), rest, restx),
           NEW rows, Len(rows) \in Nat \ {0}
    PROVE  LET r  == try_decode_play_packet(rows, s, t)
               rx == try_decode_play_packet(rows, q, t)
           IN /\ PassesOn(r, rx, rest, restx)
              /\ decode_compressed_frame(s, t) = Short => r = Short
<1> DEFINE c  == decode_compressed_frame(s, t)
           cx == decode_compressed_frame(q, t)
           r  == try_decode_play_packet(rows, s, t)
           rx == try_decode_play_packet(rows, q, t)
<1>1. CASE t < 0
    <2>1. c = decode_frame(s) /\ cx = decode_frame(q)
        BY <1>1 DEF decode_compressed_frame
    <2>2. r = try_decode_play_packet_inner(rows, s) /\ rx = try_decode_play_packet_inner(rows, q)
        BY <1>1 DEF try_decode_play_packet
    <2>3. Framed(decode_frame(s), decode_frame(q), rest, restx)
        BY <2>1
    <2>4. /\ PassesOn(try_decode_play_packet_inner(rows, s), try_decode_play_packet_inner(rows, q), rest, restx)
          /\ decode_frame(s) = Short => try_decode_play_packet_inner(rows, s) = Short
        BY <2>3, InnerPasses
    <2>5. QED
        BY <2>1, <2>2, <2>4
<1>2. CASE ~(t < 0)
    <2> DEFINE temp(f) == encode_frame(f.value.id, f.value.payload)
               inner(f) == try_decode_play_packet_inner(rows, temp(f))
               made(f) == IF temp(f) = <<>> THEN Bad
                          ELSE IF inner(f).st \in {"got", "skipped"} THEN [inner(f) EXCEPT !.rest = f.rest]
                          ELSE Whole(inner(f))
    <2>1. r = IF c.st = "got" THEN made(c) ELSE c
        BY <1>2 DEF try_decode_play_packet, PlayPacketIn, InTemp, Reframed
    <2>2. rx = IF cx.st = "got" THEN made(cx) ELSE cx
        BY <1>2 DEF try_decode_play_packet, PlayPacketIn, InTemp, Reframed
    <2>3. CASE (c = Short /\ cx = Short) \/ (c = Bad /\ cx = Bad)
        <3> HIDE DEF made, inner, temp, r, rx, c, cx
        <3>1. r = c /\ rx = cx
            BY <2>1, <2>2, <2>3, GotIs
        <3>2. QED
            BY <2>3, <3>1, GotIs DEF PassesOn, Framed, r, rx, c, cx
    <2>4. CASE c = Got(c.value, rest) /\ cx = Got(c.value, restx)
        <3> DEFINE v == c.value
                   e == encode_frame(v.id, v.payload)
                   i == try_decode_play_packet_inner(rows, e)
        <3>1. c = Got(v, rest) /\ cx = Got(v, restx)
            BY <2>4
        <3>2. c.st = "got" /\ c.rest = rest /\ cx.st = "got" /\ cx.rest = restx /\ cx.value = v
            <4> HIDE DEF c, cx, v
            <4>1. QED
                BY <3>1, GotIs
        <3>3. temp(c) = e /\ temp(cx) = e
            BY <3>2
        <3>4. inner(c) = i /\ inner(cx) = i
            BY <3>3
        <3>5. made(c) = IF e = <<>> THEN Bad
                        ELSE IF i.st \in {"got", "skipped"} THEN [i EXCEPT !.rest = rest] ELSE Whole(i)
            BY <3>2, <3>3, <3>4
        <3>6. made(cx) = IF e = <<>> THEN Bad
                         ELSE IF i.st \in {"got", "skipped"} THEN [i EXCEPT !.rest = restx] ELSE Whole(i)
            BY <3>2, <3>3, <3>4
        <3>7. \E some : Framed(decode_frame(e), decode_frame(e), some, some)
            BY FrameAlone
        <3>8. PICK some : PassesOn(i, i, some, some)
            BY <3>7, InnerPasses
        <3> HIDE DEF c, cx, r, rx, i, e, v, made, inner, temp
        <3>9. i.st \in {"short", "bad", "wrong"} \/ i = Got(i.value, some) \/ i = Skipped(some)
            BY <3>8, GotIs DEF PassesOn, Framed
        <3>10. r = made(c) /\ rx = made(cx) /\ c # Short
            BY <2>1, <2>2, <3>2, GotIs
        <3>11. CASE e = <<>> \/ i.st \in {"short", "bad", "wrong"}
            <4>1. r = Bad /\ rx = Bad
                BY <3>5, <3>6, <3>10, <3>11 DEF Whole
            <4>2. QED
                BY <3>10, <4>1, GotIs DEF PassesOn, Framed, r, rx, c
        <3>12. CASE e # <<>> /\ i = Got(i.value, some)
            <4> DEFINE w == i.value
            <4>1. i = Got(w, some)
                BY <3>12
            <4> HIDE DEF w
            <4>2. r = Got(w, rest) /\ rx = Got(w, restx)
                BY <3>5, <3>6, <3>10, <3>12, <4>1 DEF Got
            <4>3. QED
                BY <3>10, <4>2, GotIs DEF PassesOn, Framed, r, rx, c
        <3>13. CASE e # <<>> /\ i = Skipped(some)
            <4>2. r = Skipped(rest) /\ rx = Skipped(restx)
                BY <3>5, <3>6, <3>10, <3>13 DEF Skipped
            <4>3. QED
                BY <3>10, <4>2, GotIs DEF PassesOn, Framed, r, rx, c
        <3>14. QED
            BY <3>9, <3>11, <3>12, <3>13
    <2>5. QED
        BY <2>3, <2>4 DEF Framed
<1>3. QED
    BY <1>1, <1>2

\* The client.
LEMMA ClientPasses ==
    ASSUME NEW s, NEW q, NEW rest, NEW restx, NEW t \in Int,
           Framed(decode_compressed_frame(s, t), decode_compressed_frame(q, t), rest, restx),
           NEW ph
    PROVE  LET r  == client_decode_packet(ph, s, t)
               rx == client_decode_packet(ph, q, t)
           IN /\ PassesOn(r, rx, rest, restx)
              /\ decode_compressed_frame(s, t) = Short => r = Short
<1> DEFINE c  == decode_compressed_frame(s, t)
           cx == decode_compressed_frame(q, t)
           r  == client_decode_packet(ph, s, t)
           rx == client_decode_packet(ph, q, t)
           rows == ClientPackets(ph)
           known(v) == {i \in 1..Len(rows) : rows[i].dec.id = v.id}
           n(v) == IF known(v) # {} THEN Min(known(v)) ELSE 0
           made(v, z) == IF n(v) # 0 THEN As(rows[n(v)].name, DecodeBody(rows[n(v)].dec, v.payload, z))
                         ELSE IF ph = "play" THEN Skipped(z) ELSE Bad
<1>1. r = IF c.st = "got" THEN made(c.value, c.rest) ELSE c
    BY DEF client_decode_packet, ClientPacketIn, ClientPacketAs, RowOf, SelectInSeq
<1>2. rx = IF cx.st = "got" THEN made(cx.value, cx.rest) ELSE cx
    BY DEF client_decode_packet, ClientPacketIn, ClientPacketAs, RowOf, SelectInSeq
<1>3. CASE (c = Short /\ cx = Short) \/ (c = Bad /\ cx = Bad)
    <2> HIDE DEF made, r, rx, c, cx
    <2>1. r = c /\ rx = cx
        BY <1>1, <1>2, <1>3, GotIs
    <2>2. QED
        BY <1>3, <2>1, GotIs DEF PassesOn, Framed, r, rx, c, cx
<1>4. CASE c = Got(c.value, rest) /\ cx = Got(c.value, restx)
    <2> DEFINE v == c.value
               k == n(v)
    <2>1. c = Got(v, rest) /\ cx = Got(v, restx)
        BY <1>4
    <2>2. /\ made(v, rest) = IF k # 0 THEN As(rows[k].name, DecodeBody(rows[k].dec, v.payload, rest))
                             ELSE IF ph = "play" THEN Skipped(rest) ELSE Bad
          /\ made(v, restx) = IF k # 0 THEN As(rows[k].name, DecodeBody(rows[k].dec, v.payload, restx))
                              ELSE IF ph = "play" THEN Skipped(restx) ELSE Bad
        OBVIOUS
    <2> HIDE DEF c, cx, r, rx, v, made, k, n, rows
    <2>3. r = made(v, rest) /\ rx = made(v, restx) /\ c # Short
        BY <1>1, <1>2, <2>1, GotIs
    <2>4. CASE k # 0
        <3> DEFINE name == rows[k].name
                   a == DecodeBody(rows[k].dec, v.payload, rest)
                   ax == DecodeBody(rows[k].dec, v.payload, restx)
        <3>1. Framed(a, ax, rest, restx)
            BY BodyPasses
        <3>2. PassesOn(a, ax, rest, restx)
            BY <3>1 DEF PassesOn
        <3>3. r = As(name, a) /\ rx = As(name, ax)
            BY <2>2, <2>3, <2>4
        <3> HIDE DEF name, a, ax
        <3>4. PassesOn(As(name, a), As(name, ax), rest, restx)
            BY <3>2, AsPasses
        <3>5. QED
            BY <2>3, <3>3, <3>4 DEF r, rx, c
    <2>5. CASE k = 0
        <3>1. r = (IF ph = "play" THEN Skipped(rest) ELSE Bad) /\ rx = (IF ph = "play" THEN Skipped(restx) ELSE Bad)
            BY <2>2, <2>3, <2>5
        <3>2. PassesOn(r, rx, rest, restx)
            BY <3>1 DEF PassesOn, Framed
        <3>3. QED
            BY <2>3, <3>2 DEF r, rx, c
    <2>6. QED
        BY <2>4, <2>5
<1>5. QED
    BY <1>3, <1>4 DEF Framed

\* The server before Play: what is no frame at all is not yet a handshake.
LEMMA BeforePlayPasses ==
    ASSUME NEW s, NEW q, NEW rest, NEW restx,
           Framed(decode_frame(s), decode_frame(q), rest, restx),
           NEW ph \in {"handshaking", "status", "login"}
    PROVE  LET r  == try_decode_packet(ph, s)
               rx == try_decode_packet(ph, q)
           IN /\ PassesOn(r, rx, rest, restx)
              /\ decode_frame(s) = Short => r = Short
<1> DEFINE f  == decode_frame(s)
           fx == decode_frame(q)
           r  == try_decode_packet(ph, s)
           rx == try_decode_packet(ph, q)
<1>0. ASSUME NEW codec
      PROVE  /\ PassesOn(Decode(codec, s), Decode(codec, q), rest, restx)
             /\ f = Short => Decode(codec, s) = Short
             /\ Decode(codec, s) = Wrong => f = Got(f.value, rest)
    BY DecodePasses
<1>1. CASE ph = "handshaking"
    <2> DEFINE h == decode_handshake(s)
               hx == decode_handshake(q)
               read(g) == Read(parse_handshake_body.layout, g.value.payload)
               body(g, z) == IF read(g).st = "short" THEN Short
                             ELSE IF read(g).st = "got"
                             THEN IF read(g).rest # <<>> THEN Bad ELSE Got(read(g).value, z)
                             ELSE Bad
    <2>1. h = IF f.st # "got" THEN Short ELSE IF f.value.id # HandshakeId THEN Bad ELSE body(f, f.rest)
        BY DEF decode_handshake, HandshakeIn, HandshakeFields, Finished
    <2>2. hx = IF fx.st # "got" THEN Short ELSE IF fx.value.id # HandshakeId THEN Bad ELSE body(fx, fx.rest)
        BY DEF decode_handshake, HandshakeIn, HandshakeFields, Finished
    <2>3. r = As("Handshake", h) /\ rx = As("Handshake", hx)
        BY <1>1 DEF try_decode_packet
    <2>4. PassesOn(h, hx, rest, restx) /\ (f = Short => h = Short)
        <3>1. CASE (f = Short /\ fx = Short) \/ (f = Bad /\ fx = Bad)
            <4> HIDE DEF f, fx, h, hx, body, read
            <4>1. h = Short /\ hx = Short
                BY <2>1, <2>2, <3>1, GotIs
            <4>2. QED
                BY <4>1 DEF PassesOn, Framed
        <3>2. CASE f = Got(f.value, rest) /\ fx = Got(f.value, restx)
            <4> DEFINE v == f.value
                       g == Read(parse_handshake_body.layout, v.payload)
            <4>1. f = Got(v, rest) /\ fx = Got(v, restx)
                BY <3>2
            <4>2. f.st = "got" /\ fx.st = "got" /\ fx.value = v /\ f.rest = rest /\ fx.rest = restx /\ f # Short
                <5> HIDE DEF f, fx, v
                <5>1. QED
                    BY <4>1, GotIs
            <4>3. read(f) = g /\ read(fx) = g
                BY <4>2
            <4>4. /\ body(f, rest) = IF g.st = "short" THEN Short
                                     ELSE IF g.st = "got"
                                     THEN IF g.rest # <<>> THEN Bad ELSE Got(g.value, rest) ELSE Bad
                  /\ body(fx, restx) = IF g.st = "short" THEN Short
                                       ELSE IF g.st = "got"
                                       THEN IF g.rest # <<>> THEN Bad ELSE Got(g.value, restx) ELSE Bad
                BY <4>3
            <4> HIDE DEF f, fx, h, hx, body, read, v, g
            <4>6. Framed(h, hx, rest, restx)
                BY <2>1, <2>2, <4>2, <4>4, GotIs DEF Framed, v
            <4>7. QED
                BY <4>2, <4>6 DEF PassesOn
        <3>3. QED
            BY <3>1, <3>2 DEF Framed
    <2> HIDE DEF h, hx, r, rx
    <2>5. PassesOn(As("Handshake", h), As("Handshake", hx), rest, restx) /\ As("Handshake", Short) = Short
        BY <2>4, AsPasses
    <2>6. QED
        BY <2>3, <2>4, <2>5 DEF r, rx
<1>2. CASE ph = "status"
    <2> DEFINE a == Decode(decode_status_request, s)
               ax == Decode(decode_status_request, q)
               p == Decode(decode_ping_request, s)
               px == Decode(decode_ping_request, q)
    <2>1. r = IF a.st = "wrong" /\ f.value.id = PingId THEN As("Ping", p) ELSE As("StatusRequest", a)
        BY <1>2 DEF try_decode_packet
    <2>2. rx = IF ax.st = "wrong" /\ fx.value.id = PingId THEN As("Ping", px) ELSE As("StatusRequest", ax)
        BY <1>2 DEF try_decode_packet
    <2>3. /\ PassesOn(a, ax, rest, restx) /\ PassesOn(p, px, rest, restx)
          /\ f = Short => a = Short
          /\ a = Wrong => f = Got(f.value, rest)
        BY <1>0
    <2>a. Framed(f, fx, rest, restx)
        OBVIOUS
    <2> HIDE DEF f, fx, r, rx, a, ax, p, px
    <2>4. a.st = "wrong" <=> ax.st = "wrong"
        BY <2>3, GotIs DEF PassesOn, Framed
    <2>5. a.st = "wrong" => f.value = fx.value
        <3>1. a.st = "wrong" => a = Wrong
            BY <2>3, GotIs DEF PassesOn, Framed
        <3>2. a.st = "wrong" => f.st = "got"
            BY <2>3, <3>1, GotIs
        <3>3. f.st = "got" => fx.value = f.value
            BY <2>a, GotIs DEF Framed
        <3>4. QED
            BY <3>2, <3>3
    <2>6. /\ PassesOn(As("Ping", p), As("Ping", px), rest, restx)
          /\ PassesOn(As("StatusRequest", a), As("StatusRequest", ax), rest, restx)
          /\ As("StatusRequest", Short) = Short
        BY <2>3, AsPasses
    <2>7. PassesOn(r, rx, rest, restx)
        BY <2>1, <2>2, <2>4, <2>5, <2>6
    <2>8. f = Short => r = Short
        BY <2>1, <2>3, <2>6, GotIs
    <2>9. QED
        BY <2>7, <2>8 DEF r, rx, f
<1>3. CASE ph = "login"
    <2> DEFINE a == Decode(decode_login_start, s)
               ax == Decode(decode_login_start, q)
    <2>1. r = As("LoginStart", a) /\ rx = As("LoginStart", ax)
        BY <1>3 DEF try_decode_packet
    <2>2. PassesOn(a, ax, rest, restx) /\ (f = Short => a = Short)
        BY <1>0
    <2> HIDE DEF f, r, rx, a, ax
    <2>3. PassesOn(As("LoginStart", a), As("LoginStart", ax), rest, restx) /\ As("LoginStart", Short) = Short
        BY <2>2, AsPasses
    <2>4. QED
        BY <2>1, <2>2, <2>3 DEF r, rx, f
<1>4. QED
    BY <1>1, <1>2, <1>3

-----------------------------------------------------------------------------
(* What a reader makes of its buffer *)

\* With or without compression, a frame that is there is one for good.
LEMMA FramesStand ==
    ASSUME NEW S, AreCells(S), NEW s \in Seq(S), NEW x \in Seq(S), NEW t \in Int
    PROVE  /\ FrameBody(s, t < 0) = Short => decode_compressed_frame(s, t) = Short
           /\ FrameBody(s, t < 0) # Short => \E rest \in Seq(S) :
                Framed(decode_compressed_frame(s, t), decode_compressed_frame(s \o x, t), rest, rest \o x)
<1> DEFINE strict == t < 0
           q == s \o x
<1>1. strict \in BOOLEAN
    OBVIOUS
<1>2. FrameBody(s, t < 0) = Short => decode_compressed_frame(s, t) = Short
    BY FrameOpened
<1>3. ASSUME FrameBody(s, strict) # Short
      PROVE  \E rest \in Seq(S) :
                Framed(decode_compressed_frame(s, t), decode_compressed_frame(q, t), rest, rest \o x)
    <2>0. \/ FrameBody(s, strict) = Bad /\ FrameBody(q, strict) = Bad
          \/ \E b \in Seq(S), rest \in Seq(S) :
               FrameBody(s, strict) = Got(b, rest) /\ FrameBody(q, strict) = Got(b, rest \o x)
        <3> HIDE DEF strict
        <3>1. QED
            BY <1>1, <1>3, FrameStands
    <2>1. CASE FrameBody(s, strict) = Bad /\ FrameBody(q, strict) = Bad
        <3>1. decode_compressed_frame(s, t) = Bad
            BY <2>1, FrameOpened
        <3>2. decode_compressed_frame(q, t) = Bad
            BY <2>1, FrameOpened
        <3>3. <<>> \in Seq(S)
            BY EmptySeq
        <3>4. QED
            BY <3>1, <3>2, <3>3, Zenon DEF Framed
    <2>2. CASE \E b \in Seq(S), rest \in Seq(S) :
                 FrameBody(s, strict) = Got(b, rest) /\ FrameBody(q, strict) = Got(b, rest \o x)
        <3>1. PICK b \in Seq(S), rest \in Seq(S) :
                FrameBody(s, strict) = Got(b, rest) /\ FrameBody(q, strict) = Got(b, rest \o x)
            BY <2>2, Zenon
        <3>2. decode_compressed_frame(s, t) = Opened(t, b, rest)
            BY <3>1, FrameOpened, Zenon
        <3>3. decode_compressed_frame(q, t) = Opened(t, b, rest \o x)
            BY <3>1, FrameOpened, Zenon
        <3>4. Framed(Opened(t, b, rest), Opened(t, b, rest \o x), rest, rest \o x)
            BY OpenedPasses, Zenon
        <3>5. QED
            BY <3>2, <3>3, <3>4, Zenon
    <2>3. QED
        BY <2>0, <2>1, <2>2, Zenon
<1>4. QED
    BY <1>2, <1>3, Zenon

\* Without compression.
LEMMA PlainFramesStand ==
    ASSUME NEW S, AreCells(S), NEW s \in Seq(S), NEW x \in Seq(S)
    PROVE  /\ FrameBody(s, TRUE) = Short => decode_frame(s) = Short
           /\ FrameBody(s, TRUE) # Short => \E rest \in Seq(S) :
                Framed(decode_frame(s), decode_frame(s \o x), rest, rest \o x)
<1>1. (-1) \in Int
    OBVIOUS
<1>2. ((-1) < 0) = TRUE /\ \A z : decode_frame(z) = decode_compressed_frame(z, -1)
    BY FrameIs, Zenon
<1>3. /\ FrameBody(s, (-1) < 0) = Short => decode_compressed_frame(s, -1) = Short
      /\ FrameBody(s, (-1) < 0) # Short => \E rest \in Seq(S) :
           Framed(decode_compressed_frame(s, -1), decode_compressed_frame(s \o x, -1), rest, rest \o x)
    BY <1>1, FramesStand, Zenon
<1>4. QED
    BY <1>2, <1>3, Zenon

\* An outcome of a decoder that leaves a sequence of elements of S.
Sound(r, S) ==
    \/ r = Short \/ r = Bad \/ r = Wrong
    \/ r = Got(r.value, r.rest) /\ r.rest \in Seq(S)
    \/ r = Skipped(r.rest) /\ r.rest \in Seq(S)

\* r hands on a rest, and rx the same with x behind it.
PassesWith(S, r, rx, x) == \E rest \in Seq(S) : PassesOn(r, rx, rest, rest \o x)

LEMMA SoundPasses ==
    ASSUME NEW S, NEW r, NEW rx, NEW x, PassesWith(S, r, rx, x)
    PROVE  Sound(r, S) /\ rx = With(r, x)
<1>0. PICK rest \in Seq(S) : PassesOn(r, rx, rest, rest \o x)
    BY DEF PassesWith
<1> DEFINE restx == rest \o x
<1>1. PassesOn(r, rx, rest, restx)
    BY <1>0
<1>2. \/ r.st = "got" /\ r = Got(r.value, r.rest) /\ r.rest = rest /\ rx = Got(r.value, restx)
      \/ r.st = "skipped" /\ r = Skipped(r.rest) /\ r.rest = rest /\ rx = Skipped(restx)
      \/ (r = Short /\ rx = r) \/ (r = Bad /\ rx = r) \/ (r = Wrong /\ rx = r)
    <2> HIDE DEF restx
    <2>1. QED
        BY <1>1, GotIs DEF PassesOn, Framed
<1>3. CASE r.st = "got" /\ r = Got(r.value, r.rest) /\ r.rest = rest /\ rx = Got(r.value, restx)
    BY <1>3 DEF With, Sound
<1>4. CASE r.st = "skipped" /\ r = Skipped(r.rest) /\ r.rest = rest /\ rx = Skipped(restx)
    BY <1>4 DEF With, Sound
<1>5. CASE (r = Short /\ rx = r) \/ (r = Bad /\ rx = r) \/ (r = Wrong /\ rx = r)
    <2>1. r.st # "got" /\ r.st # "skipped"
        BY <1>5, GotIs
    <2>2. QED
        BY <1>5, <2>1 DEF With, Sound
<1>6. QED
    BY <1>2, <1>3, <1>4, <1>5

LEMMA TablesThere == Len(ServerboundPlay) \in Nat \ {0}
<1> DEFINE rows == ServerboundPlay
<1>1. Len(rows) = 15
    BY DEF ServerboundPlay
<1>2. QED
    BY <1>1

\* Whatever the reader finds in the buffer, more of the stream does not change
\* it; and as long as the frame in front has not arrived, it finds nothing.
\* (framing.rs:98-105 "input is unchanged", connection.rs:426-495,
\* session.rs:1800-2079)
THEOREM DecodedStands ==
    ASSUME NEW who \in {"server", "client"}, NEW turn,
           turn.phase \in Phases[who], turn.threshold \in Int,
           NEW S, AreCells(S), NEW s \in Seq(S), NEW x \in Seq(S)
    PROVE  LET r  == Decoded(who, turn.phase, turn.threshold, s)
               rx == Decoded(who, turn.phase, turn.threshold, s \o x)
           IN /\ Sound(r, S)
              /\ ~Arrived(who, turn, s) => r = Short
              /\ Arrived(who, turn, s) => rx = With(r, x)
<1> DEFINE ph == turn.phase
           t  == turn.threshold
           q  == s \o x
           r  == Decoded(who, ph, t, s)
           rx == Decoded(who, ph, t, q)
           strict == (who = "server" /\ ph # "play") \/ t < 0
           b  == FrameBody(s, strict)
<1>1. strict \in BOOLEAN
    OBVIOUS
<1>2. Arrived(who, turn, s) <=> b.st # "short"
    BY DEF Arrived
<1>3. b.st = "short" <=> b = Short
    <2> HIDE DEF strict
    <2>1. FrameBody(s, strict) = Short \/ FrameBody(s, strict) = Bad
            \/ \E z \in Seq(S), rest \in Seq(S) : FrameBody(s, strict) = Got(z, rest)
        BY <1>1, FrameShape
    <2> HIDE DEF b
    <2>2. QED
        BY <2>1, GotIs DEF b
<1>4. /\ b = Short => r = Short
      /\ b # Short => \E rest \in Seq(S) : PassesOn(r, rx, rest, rest \o x)
    <2>1. CASE who = "client"
        <3>1. strict = (t < 0)
            BY <2>1
        <3>2. r = client_decode_packet(ph, s, t) /\ rx = client_decode_packet(ph, q, t)
            BY <2>1 DEF Decoded
        <3>3. b = FrameBody(s, t < 0)
            BY <3>1, Zenon
        <3>4. /\ FrameBody(s, t < 0) = Short => decode_compressed_frame(s, t) = Short
              /\ FrameBody(s, t < 0) # Short => \E rest \in Seq(S) :
                   Framed(decode_compressed_frame(s, t), decode_compressed_frame(q, t), rest, rest \o x)
            BY FramesStand
        <3> HIDE DEF r, rx, b, q, ph, t
        <3>5. ASSUME NEW rest, NEW restx,
                     Framed(decode_compressed_frame(s, t), decode_compressed_frame(q, t), rest, restx)
              PROVE  /\ PassesOn(client_decode_packet(ph, s, t), client_decode_packet(ph, q, t), rest, restx)
                     /\ decode_compressed_frame(s, t) = Short => client_decode_packet(ph, s, t) = Short
            BY <3>5, ClientPasses DEF t
        <3>6. decode_compressed_frame(s, t) = Short => client_decode_packet(ph, s, t) = Short
            BY GotIs DEF client_decode_packet, ClientPacketIn
        <3>7. QED
            BY <3>2, <3>3, <3>4, <3>5, <3>6, Zenon
    <2>2. CASE who = "server" /\ ph = "play"
        <3>1. strict = (t < 0)
            BY <2>2
        <3> DEFINE rows == ServerboundPlay
        <3>2. r = try_decode_play_packet(rows, s, t) /\ rx = try_decode_play_packet(rows, q, t)
            BY <2>2 DEF Decoded
        <3>3. b = FrameBody(s, t < 0)
            BY <3>1, Zenon
        <3>4. /\ FrameBody(s, t < 0) = Short => decode_compressed_frame(s, t) = Short
              /\ FrameBody(s, t < 0) # Short => \E rest \in Seq(S) :
                   Framed(decode_compressed_frame(s, t), decode_compressed_frame(q, t), rest, rest \o x)
            BY FramesStand
        <3>a. Len(rows) \in Nat \ {0} /\ t \in Int
            BY TablesThere
        <3> HIDE DEF r, rx, b, q, ph, t, rows
        <3>5. ASSUME NEW rest, NEW restx, NEW z,
                     Framed(decode_compressed_frame(s, t), decode_compressed_frame(z, t), rest, restx)
              PROVE  /\ PassesOn(try_decode_play_packet(rows, s, t), try_decode_play_packet(rows, z, t), rest, restx)
                     /\ decode_compressed_frame(s, t) = Short => try_decode_play_packet(rows, s, t) = Short
            BY <3>a, <3>5, PlayPasses
        <3>6. decode_compressed_frame(s, t) = Short => try_decode_play_packet(rows, s, t) = Short
            <4>1. decode_compressed_frame(s, t) = Short =>
                    Framed(decode_compressed_frame(s, t), decode_compressed_frame(s, t), 0, 0)
                BY DEF Framed
            <4>2. QED
                BY <3>5, <4>1, Zenon
        <3>7. QED
            BY <3>2, <3>3, <3>4, <3>5, <3>6, Zenon
    <2>3. CASE who = "server" /\ ph # "play"
        <3>1. strict = TRUE /\ ph \in {"handshaking", "status", "login"}
            BY <2>3 DEF Phases
        <3>2. r = try_decode_packet(ph, s) /\ rx = try_decode_packet(ph, q)
            BY <2>3 DEF Decoded
        <3>3. b = FrameBody(s, TRUE)
            BY <3>1, Zenon
        <3>4. /\ FrameBody(s, TRUE) = Short => decode_frame(s) = Short
              /\ FrameBody(s, TRUE) # Short => \E rest \in Seq(S) :
                   Framed(decode_frame(s), decode_frame(q), rest, rest \o x)
            BY PlainFramesStand
        <3> HIDE DEF r, rx, b, q, ph, t
        <3>5. ASSUME NEW rest, NEW restx, NEW z, Framed(decode_frame(s), decode_frame(z), rest, restx)
              PROVE  /\ PassesOn(try_decode_packet(ph, s), try_decode_packet(ph, z), rest, restx)
                     /\ decode_frame(s) = Short => try_decode_packet(ph, s) = Short
            BY <3>1, <3>5, BeforePlayPasses
        <3>6. decode_frame(s) = Short => try_decode_packet(ph, s) = Short
            <4>1. decode_frame(s) = Short => Framed(decode_frame(s), decode_frame(s), 0, 0)
                BY DEF Framed
            <4>2. QED
                BY <3>5, <4>1, Zenon
        <3>7. QED
            BY <3>2, <3>3, <3>4, <3>5, <3>6, Zenon
    <2>4. QED
        BY <2>1, <2>2, <2>3
<1> HIDE DEF r, rx, b, q, ph, t
<1>5. b # Short => Sound(r, S) /\ rx = With(r, x)
    <2> SUFFICES ASSUME b # Short PROVE Sound(r, S) /\ rx = With(r, x)
        OBVIOUS
    <2>1. PassesWith(S, r, rx, x)
        BY <1>4, Zenon DEF PassesWith
    <2>2. QED
        BY <2>1, SoundPasses, Zenon
<1>6. b = Short => Sound(r, S)
    BY <1>4 DEF Sound
<1>7. Sound(r, S) /\ (~Arrived(who, turn, s) => r = Short) /\ (Arrived(who, turn, s) => rx = With(r, x))
    BY <1>2, <1>3, <1>4, <1>5, <1>6
<1>8. QED
    BY <1>7 DEF r, rx, q, ph, t

-----------------------------------------------------------------------------
(* One sequence behind the other *)

\* The first n sequences of q in a row, for every n.
IsFlat(f, q, n) == f = [i \in 1..n |-> IF i = 1 THEN q[i] ELSE f[i - 1] \o q[i]]

Flat(q, n) == CHOOSE f : IsFlat(f, q, n)

LEMMA FlatIs ==
    ASSUME NEW q
    PROVE  FlattenSeq(q) = IF Len(q) = 0 THEN q ELSE Flat(q, Len(q))[Len(q)]
BY DEF FlattenSeq, Flat, IsFlat

LEMMA FlatExists ==
    ASSUME NEW q
    PROVE  \A n \in Nat : \E f : IsFlat(f, q, n)
<1> DEFINE T == {n \in Nat : \E f : IsFlat(f, q, n)}
<1>1. 0 \in T
    <2> DEFINE f == [i \in 1..0 |-> q[i]]
    <2>1. IsFlat(f, q, 0)
        BY DEF IsFlat
    <2>2. QED
        BY <2>1
<1>2. ASSUME NEW n \in Nat, n \in T PROVE n + 1 \in T
    <2>1. PICK f : IsFlat(f, q, n)
        BY <1>2
    <2>2. f = [i \in 1..n |-> IF i = 1 THEN q[i] ELSE f[i - 1] \o q[i]]
        BY <2>1 DEF IsFlat
    <2> DEFINE g == [i \in 1..(n + 1) |->
                       IF i = n + 1 THEN IF i = 1 THEN q[i] ELSE f[i - 1] \o q[i] ELSE f[i]]
               h == [i \in 1..(n + 1) |-> IF i = 1 THEN q[i] ELSE g[i - 1] \o q[i]]
    <2>3. ASSUME NEW i \in 1..(n + 1) PROVE g[i] = h[i]
        <3>a. g[i] = (IF i = n + 1 THEN IF i = 1 THEN q[i] ELSE f[i - 1] \o q[i] ELSE f[i])
            OBVIOUS
        <3>b. h[i] = (IF i = 1 THEN q[i] ELSE g[i - 1] \o q[i])
            OBVIOUS
        <3>0. i # 1 => g[i - 1] = f[i - 1]
            <4>1. i # 1 => i - 1 \in 1..(n + 1) /\ i - 1 # n + 1
                OBVIOUS
            <4>2. QED
                BY <4>1
        <3>c. i # n + 1 => f[i] = (IF i = 1 THEN q[i] ELSE f[i - 1] \o q[i])
            <4>1. i # n + 1 => i \in 1..n
                OBVIOUS
            <4>2. QED
                BY <2>2, <4>1
        <3> HIDE DEF g, h
        <3>1. QED
            BY <3>a, <3>b, <3>0, <3>c, Zenon
    <2>4. g = h
        BY <2>3
    <2> HIDE DEF g
    <2>5. IsFlat(g, q, n + 1)
        BY <2>4 DEF IsFlat
    <2>6. QED
        BY <2>5
<1> HIDE DEF T
<1>3. Nat \subseteq T
    BY <1>1, <1>2, Induction
<1>4. QED
    BY <1>3 DEF T

\* The first n sequences of q, in a row.
Upto(q, n) == IF n = 0 THEN <<>> ELSE Flat(q, Len(q))[n]

LEMMA Nothing ==
    ASSUME NEW S, NEW s \in Seq(S)
    PROVE  <<>> \o s = s /\ s \o <<>> = s /\ <<>> \in Seq(S)
BY ConcatEmptySeq, EmptySeq

LEMMA UptoIs ==
    ASSUME NEW S, NEW q \in Seq(Seq(S))
    PROVE  /\ Len(q) \in Nat
           /\ Upto(q, 0) = <<>>
           /\ \A n \in 0..(Len(q) - 1) : Upto(q, n + 1) = Upto(q, n) \o q[n + 1]
           /\ \A n \in 0..Len(q) : Upto(q, n) \in Seq(S)
           /\ FlattenSeq(q) = Upto(q, Len(q))
<1> DEFINE m == Len(q)
           f == Flat(q, m)
<1>1. m \in Nat
    BY LenProperties
<1>2. IsFlat(f, q, m)
    <2>1. \E g : IsFlat(g, q, m)
        BY <1>1, FlatExists
    <2>2. QED
        BY <2>1, Zenon DEF Flat
<1>3. \A i \in 1..m : q[i] \in Seq(S)
    BY ElementOfSeq
<1>4. f = [i \in 1..m |-> IF i = 1 THEN q[i] ELSE f[i - 1] \o q[i]]
    BY <1>2 DEF IsFlat
<1>5. \A n : Upto(q, n) = IF n = 0 THEN <<>> ELSE f[n]
    BY DEF Upto
<1> HIDE DEF f
<1>6. ASSUME NEW n \in 0..(m - 1) PROVE Upto(q, n + 1) = Upto(q, n) \o q[n + 1]
    <2>1. n + 1 \in 1..m /\ n + 1 # 0
        BY <1>1
    <2>2. Upto(q, n + 1) = f[n + 1]
        BY <1>5, <2>1
    <2>3. f[n + 1] = IF n + 1 = 1 THEN q[n + 1] ELSE f[(n + 1) - 1] \o q[n + 1]
        BY <1>4, <2>1
    <2>4. CASE n = 0
        <3>1. Upto(q, n) = <<>> /\ f[n + 1] = q[n + 1]
            BY <1>5, <2>3, <2>4
        <3> DEFINE e == q[n + 1]
        <3>2. e \in Seq(S)
            BY <1>3, <2>1
        <3> HIDE DEF e
        <3>3. <<>> \o e = e
            BY <3>2, Nothing
        <3>4. QED
            BY <2>2, <3>1, <3>3 DEF e
    <2>5. CASE n # 0
        <3>1. (n + 1) - 1 = n /\ n + 1 # 1
            BY <1>1, <2>5
        <3>2. Upto(q, n) = f[n]
            BY <1>5, <2>5
        <3>3. QED
            BY <2>2, <2>3, <3>1, <3>2
    <2>6. QED
        BY <2>4, <2>5
<1>7. Upto(q, 0) = <<>>
    BY <1>5
<1>8. \A n \in 0..m : Upto(q, n) \in Seq(S)
    <2> DEFINE T == {n \in Nat : n <= m => Upto(q, n) \in Seq(S)}
    <2>1. 0 \in T
        BY <1>7, EmptySeq
    <2>2. ASSUME NEW n \in Nat, n \in T PROVE n + 1 \in T
        <3>1. CASE n + 1 <= m
            <4>1. n \in 0..(m - 1) /\ n + 1 \in 1..m /\ n <= m
                BY <1>1, <3>1
            <4> DEFINE e == q[n + 1]
                       u == Upto(q, n)
            <4>2. Upto(q, n + 1) = u \o e /\ u \in Seq(S) /\ e \in Seq(S)
                BY <1>3, <1>6, <2>2, <4>1
            <4> HIDE DEF e, u
            <4>3. u \o e \in Seq(S)
                BY <4>2, ConcatProperties
            <4>4. Upto(q, n + 1) \in Seq(S)
                BY <4>2, <4>3, Zenon
            <4>5. QED
                BY <4>4
        <3>2. QED
            BY <3>1
    <2> HIDE DEF T
    <2>3. Nat \subseteq T
        BY <2>1, <2>2, Induction
    <2>4. QED
        BY <1>1, <2>3 DEF T
<1>9. FlattenSeq(q) = Upto(q, m)
    <2>1. CASE m = 0
        <3>1. q = <<>>
            BY <2>1, EmptySeq
        <3>2. FlattenSeq(q) = q
            BY <2>1, FlatIs
        <3>3. QED
            BY <1>7, <2>1, <3>1, <3>2
    <2>2. CASE m # 0
        <3>1. FlattenSeq(q) = Flat(q, m)[m]
            BY <2>2, FlatIs
        <3>2. Upto(q, m) = Flat(q, m)[m]
            BY <2>2 DEF Upto
        <3>3. QED
            BY <3>1, <3>2
    <2>3. QED
        BY <2>1, <2>2
<1>10. QED
    BY <1>1, <1>6, <1>7, <1>8, <1>9

\* The laws of \o are named, so that the provers take them for these sequences
\* and do not expand them.
InOrder(p, q, r) == (p \o q) \o r = p \o (q \o r)

LEMMA InAnyOrder ==
    ASSUME NEW S, NEW p \in Seq(S), NEW q \in Seq(S), NEW r \in Seq(S)
    PROVE  InOrder(p, q, r)
BY ConcatAssociative DEF InOrder

LEMMA FlattenConcat ==
    ASSUME NEW S, NEW a \in Seq(Seq(S)), NEW b \in Seq(Seq(S))
    PROVE  FlattenSeq(a) \in Seq(S) /\ FlattenSeq(a \o b) = FlattenSeq(a) \o FlattenSeq(b)
<1> DEFINE c == a \o b
           m == Len(a)
           k == Len(b)
<1>1. c \in Seq(Seq(S)) /\ Joins(c, a, b)
    BY Concatenated
<1>2. /\ Len(c) = m + k
      /\ \A i \in 1..m + k : c[i] = IF i <= m THEN a[i] ELSE b[i - m]
    BY <1>1 DEF Joins
<1> HIDE DEF c
<1>3. /\ m \in Nat /\ Upto(a, 0) = <<>> /\ \A n \in 0..(m - 1) : Upto(a, n + 1) = Upto(a, n) \o a[n + 1]
      /\ \A n \in 0..m : Upto(a, n) \in Seq(S)
      /\ FlattenSeq(a) = Upto(a, m)
    BY UptoIs
<1>4. /\ k \in Nat /\ Upto(b, 0) = <<>> /\ \A n \in 0..(k - 1) : Upto(b, n + 1) = Upto(b, n) \o b[n + 1]
      /\ \A n \in 0..k : Upto(b, n) \in Seq(S)
      /\ FlattenSeq(b) = Upto(b, k)
    BY UptoIs
<1>5. /\ Upto(c, 0) = <<>> /\ \A n \in 0..(Len(c) - 1) : Upto(c, n + 1) = Upto(c, n) \o c[n + 1]
      /\ FlattenSeq(c) = Upto(c, Len(c))
    BY <1>1, UptoIs
<1>a. \A i \in 1..k : b[i] \in Seq(S)
    BY ElementOfSeq
<1> HIDE DEF m, k
<1>6. \A n \in 0..m : Upto(c, n) = Upto(a, n)
    <2> DEFINE T == {n \in Nat : n <= m => Upto(c, n) = Upto(a, n)}
    <2>1. 0 \in T
        BY <1>3, <1>5
    <2>2. ASSUME NEW n \in Nat, n \in T PROVE n + 1 \in T
        <3>1. CASE n + 1 <= m
            <4>1. n \in 0..(m - 1) /\ n \in 0..(Len(c) - 1) /\ n + 1 \in 1..m + k /\ n <= m
                BY <1>2, <1>3, <1>4, <3>1
            <4>2. c[n + 1] = a[n + 1]
                BY <1>2, <3>1, <4>1
            <4>3. Upto(c, n + 1) = Upto(c, n) \o c[n + 1] /\ Upto(a, n + 1) = Upto(a, n) \o a[n + 1]
                BY <1>3, <1>5, <4>1
            <4>4. Upto(c, n) = Upto(a, n)
                BY <2>2, <4>1
            <4>5. Upto(c, n + 1) = Upto(a, n + 1)
                BY <4>2, <4>3, <4>4, Zenon
            <4>6. QED
                BY <4>5
        <3>2. QED
            BY <3>1
    <2> HIDE DEF T
    <2>3. Nat \subseteq T
        BY <2>1, <2>2, Induction
    <2>4. QED
        BY <1>3, <2>3 DEF T
<1> DEFINE am == Upto(a, m)
<1>7. am \in Seq(S) /\ Upto(c, m) = am
    BY <1>3, <1>6
<1> HIDE DEF am
<1>8. \A n \in 0..k : Upto(c, m + n) = am \o Upto(b, n)
    <2> DEFINE T == {n \in Nat : n <= k => Upto(c, m + n) = am \o Upto(b, n)}
    <2>1. 0 \in T
        <3>1. am \o <<>> = am /\ m + 0 = m
            BY <1>3, <1>7, Nothing
        <3>2. QED
            BY <1>4, <1>7, <3>1
    <2>2. ASSUME NEW n \in Nat, n \in T PROVE n + 1 \in T
        <3>1. CASE n + 1 <= k
            <4>1. /\ n \in 0..(k - 1) /\ n \in 0..k /\ m + n \in 0..(Len(c) - 1) /\ n <= k
                  /\ (m + n) + 1 \in 1..m + k /\ ~((m + n) + 1 <= m) /\ ((m + n) + 1) - m = n + 1
                  /\ (m + n) + 1 = m + (n + 1) /\ n + 1 \in 1..k
                BY <1>2, <1>3, <1>4, <3>1
            <4>2. c[(m + n) + 1] = b[((m + n) + 1) - m]
                BY <1>2, <4>1
            <4> DEFINE e == b[n + 1]
                       u == Upto(b, n)
            <4>3. Upto(c, (m + n) + 1) = Upto(c, m + n) \o e
                BY <1>5, <4>1, <4>2
            <4>4. Upto(c, m + n) = am \o u
                BY <2>2, <4>1
            <4>5. Upto(b, n + 1) = u \o e /\ u \in Seq(S) /\ e \in Seq(S)
                BY <1>4, <1>a, <4>1
            <4> HIDE DEF e, u
            <4>6. (am \o u) \o e = am \o (u \o e)
                <5>1. InOrder(am, u, e)
                    BY <1>7, <4>5, InAnyOrder
                <5>2. QED
                    BY <5>1, Zenon DEF InOrder
            <4>7. Upto(c, m + (n + 1)) = am \o Upto(b, n + 1)
                BY <4>1, <4>3, <4>4, <4>5, <4>6
            <4>8. QED
                BY <4>7
        <3>2. QED
            BY <3>1
    <2> HIDE DEF T
    <2>3. Nat \subseteq T
        BY <2>1, <2>2, Induction
    <2>4. QED
        BY <1>4, <2>3 DEF T
<1>9. Upto(c, m + k) = am \o Upto(b, k)
    <2>1. k \in 0..k
        BY <1>4
    <2>2. QED
        BY <1>8, <2>1, Zenon
<1>10. FlattenSeq(c) = FlattenSeq(a) \o FlattenSeq(b)
    BY <1>2, <1>3, <1>4, <1>5, <1>9 DEF am
<1>11. QED
    BY <1>3, <1>7, <1>10 DEF am, c

\* One sequence, and none.
LEMMA FlattenOne ==
    ASSUME NEW S, NEW c \in Seq(S)
    PROVE  FlattenSeq(<<c>>) = c /\ FlattenSeq(<<>>) = <<>>
<1> DEFINE q == <<c>>
           e == <<>>
<1>1. q \in Seq(Seq(S)) /\ Len(q) = 1 /\ q[1] = c /\ e \in Seq(Seq(S)) /\ Len(e) = 0
    BY EmptySeq
<1> HIDE DEF q, e
<1>2. /\ Upto(q, 0) = <<>> /\ \A n \in 0..(Len(q) - 1) : Upto(q, n + 1) = Upto(q, n) \o q[n + 1]
      /\ FlattenSeq(q) = Upto(q, Len(q))
    BY <1>1, UptoIs
<1>3. Upto(q, 0 + 1) = <<>> \o c
    BY <1>1, <1>2
<1>4. FlattenSeq(q) = c
    BY <1>1, <1>2, <1>3, Nothing
<1>5. FlattenSeq(e) = Upto(e, 0) /\ Upto(e, 0) = <<>>
    BY <1>1, UptoIs
<1>6. QED
    BY <1>4, <1>5 DEF q, e

-----------------------------------------------------------------------------
(* What is behind a place of a sequence, and what comes next there *)

LEMMA BehindIs ==
    ASSUME NEW S, NEW s \in Seq(S), NEW n \in 0..Len(s)
    PROVE  /\ Behind(s, n) \in Seq(S) /\ Len(Behind(s, n)) = Len(s) - n
           /\ \A i \in 1..(Len(s) - n) : Behind(s, n)[i] = s[n + i]
<1>1. Len(s) \in Nat /\ n \in Nat /\ Len(s) \in n..Len(s)
    BY LenProperties
<1>2. SubSeq(s, n + 1, Len(s)) \in Seq(S) /\ IsPart(SubSeq(s, n + 1, Len(s)), s, n, Len(s) - n)
    BY <1>1, Parts
<1>3. QED
    BY <1>2 DEF Behind, IsPart

LEMMA BehindAll ==
    ASSUME NEW S, NEW s \in Seq(S)
    PROVE  Behind(s, 0) = s /\ Behind(s, Len(s)) = <<>>
<1>1. Len(s) \in Nat /\ 0 \in 0..Len(s) /\ Len(s) \in 0..Len(s)
    BY LenProperties
<1> DEFINE b == Behind(s, 0)
           e == Behind(s, Len(s))
<1>2. b \in Seq(S) /\ Len(b) = Len(s) /\ \A i \in 1..Len(s) : b[i] = s[i]
    BY <1>1, BehindIs
<1>3. e \in Seq(S) /\ Len(e) = 0
    BY <1>1, BehindIs
<1> HIDE DEF b, e
<1>4. b = s
    BY <1>1, <1>2, SeqEqual
<1>5. e = <<>>
    BY <1>3, EmptySeq
<1>6. QED
    BY <1>4, <1>5 DEF b, e

\* What is taken from two queues is taken from the first.
TakenInFront(a, b) == a \o b # <<>> /\ Head(a \o b) = Head(a) /\ Tail(a) \o b = Tail(a \o b)

LEMMA InFrontTaken ==
    ASSUME NEW S, NEW a \in Seq(S), NEW b \in Seq(S), a # <<>>
    PROVE  TakenInFront(a, b)
BY TakenFromFirst DEF TakenInFront

LEMMA BehindNext ==
    ASSUME NEW S, NEW s \in Seq(S), NEW n \in 0..Len(s), n < Len(s)
    PROVE  /\ s[n + 1] \in S /\ n + 1 \in 1..Len(s) /\ n + 1 \in 0..Len(s)
           /\ Behind(s, n) # <<>>
           /\ Behind(s, n) = <<s[n + 1]>> \o Behind(s, n + 1)
           /\ Head(Behind(s, n)) = s[n + 1]
           /\ Tail(Behind(s, n)) = Behind(s, n + 1)
<1>1. Len(s) \in Nat /\ n \in Nat /\ n + 1 \in 1..Len(s) /\ n + 1 \in 0..Len(s)
    BY LenProperties
<1> DEFINE b == Behind(s, n)
           c == Behind(s, n + 1)
           f == s[n + 1]
           o == <<f>>
           oc == o \o c
           m == Len(s)
<1>2. f \in S
    BY <1>1, ElementOfSeq
<1>3. b \in Seq(S) /\ Len(b) = m - n /\ \A i \in 1..(m - n) : b[i] = s[n + i]
    BY BehindIs
<1>4. c \in Seq(S) /\ Len(c) = m - (n + 1) /\ \A i \in 1..(m - (n + 1)) : c[i] = s[n + 1 + i]
    BY <1>1, BehindIs
<1>5. o \in Seq(S) /\ Len(o) = 1 /\ o[1] = f
    BY <1>2
<1> HIDE DEF o
<1>6. oc \in Seq(S) /\ Joins(oc, o, c)
    BY <1>4, <1>5, Concatenated
<1> HIDE DEF b, c, oc, m
<1>7. Len(oc) = m - n
    BY <1>1, <1>4, <1>5, <1>6 DEF Joins, m
<1>8. ASSUME NEW i \in 1..(m - n) PROVE b[i] = oc[i]
    <2>1. b[i] = s[n + i]
        BY <1>3
    <2>2. oc[i] = IF i <= 1 THEN o[i] ELSE c[i - 1]
        BY <1>1, <1>4, <1>5, <1>6 DEF Joins, m
    <2>3. CASE i = 1
        BY <1>5, <2>1, <2>2, <2>3
    <2>4. CASE i # 1
        <3>1. i - 1 \in 1..(m - (n + 1)) /\ n + 1 + (i - 1) = n + i /\ ~(i <= 1)
            BY <1>1, <2>4 DEF m
        <3>2. c[i - 1] = s[n + 1 + (i - 1)]
            BY <1>4, <3>1
        <3>3. QED
            BY <2>1, <2>2, <3>1, <3>2
    <2>5. QED
        BY <2>3, <2>4
<1>9. b = oc
    BY <1>3, <1>6, <1>7, <1>8, SeqEqual
<1>10. o # <<>>
    <2>1. Len(<<>>) = 0 /\ 0 # 1
        BY EmptySeq
    <2>2. QED
        BY <1>5, <2>1, Zenon
<1>11. Head(o) = f /\ Tail(o) = <<>>
    BY DEF o
<1>12. oc # <<>> /\ Head(oc) = Head(o) /\ Tail(o) \o c = Tail(oc)
    <2>1. c \in Seq(S) /\ o \in Seq(S) /\ o # <<>>
        BY <1>4, <1>5, <1>10, Zenon
    <2>2. oc = o \o c
        BY DEF oc
    <2>3. TakenInFront(o, c)
        BY <2>1, InFrontTaken, Zenon
    <2>4. QED
        BY <2>2, <2>3, Zenon DEF TakenInFront
<1>13. Tail(oc) = c
    <2>1. <<>> \o c = c
        BY <1>4, Nothing
    <2>2. QED
        BY <1>11, <1>12, <2>1
<1>14. b # <<>> /\ Head(b) = f /\ Tail(b) = c
    BY <1>9, <1>11, <1>12, <1>13
<1>15. QED
    BY <1>1, <1>2, <1>9, <1>14 DEF b, c, oc, o

-----------------------------------------------------------------------------
(* The cells of the frames *)

AreFrames(F, S) == AreCells(S) /\ \A f \in F : f.cells \in Seq(S) /\ f.cells # <<>>

Cut(frames) == [i \in DOMAIN frames |-> frames[i].cells]

LEMMA CutIs ==
    ASSUME NEW S, NEW F, AreFrames(F, S), NEW a \in Seq(F)
    PROVE  /\ Cut(a) \in Seq(Seq(S)) /\ Len(Cut(a)) = Len(a)
           /\ \A i \in 1..Len(a) : Cut(a)[i] = a[i].cells
           /\ CellsOf(a) = FlattenSeq(Cut(a)) /\ CellsOf(a) \in Seq(S)
<1>1. Len(a) \in Nat /\ DOMAIN a = 1..Len(a) /\ \A i \in 1..Len(a) : a[i] \in F
    BY LenProperties, ElementOfSeq
<1>2. \A i \in 1..Len(a) : a[i].cells \in Seq(S)
    BY <1>1 DEF AreFrames
<1>3. Cut(a) = [i \in 1..Len(a) |-> a[i].cells]
    BY <1>1 DEF Cut
<1>4. Cut(a) \in [1..Len(a) -> Seq(S)]
    BY <1>2, <1>3
<1>5. Cut(a) \in Seq(Seq(S)) /\ Len(Cut(a)) = Len(a)
    BY <1>1, <1>4
<1>6. CellsOf(a) = FlattenSeq(Cut(a))
    BY DEF CellsOf, Cut
<1> DEFINE q == Cut(a)
<1>7. q \in Seq(Seq(S))
    BY <1>5
<1> HIDE DEF q
<1>8. FlattenSeq(q) \in Seq(S)
    BY <1>7, FlattenConcat
<1>9. QED
    BY <1>3, <1>5, <1>6, <1>8 DEF q

LEMMA CutBoth ==
    ASSUME NEW S, NEW F, AreFrames(F, S), NEW x \in Seq(F), NEW y \in Seq(F)
    PROVE  x \o y \in Seq(F) /\ Cut(x \o y) = Cut(x) \o Cut(y)
<1> DEFINE xy == x \o y
           c  == Cut(x)
           d  == Cut(y)
           cd == c \o d
           e  == Cut(xy)
<1>1. xy \in Seq(F) /\ Joins(xy, x, y)
    BY Concatenated
<1>2. c \in Seq(Seq(S)) /\ Len(c) = Len(x) /\ \A i \in 1..Len(x) : c[i] = x[i].cells
    BY CutIs
<1>3. d \in Seq(Seq(S)) /\ Len(d) = Len(y) /\ \A i \in 1..Len(y) : d[i] = y[i].cells
    BY CutIs
<1> HIDE DEF xy, c, d
<1>4. e \in Seq(Seq(S)) /\ Len(e) = Len(xy) /\ \A i \in 1..Len(xy) : e[i] = xy[i].cells
    BY <1>1, CutIs
<1>5. cd \in Seq(Seq(S)) /\ Joins(cd, c, d)
    BY <1>2, <1>3, Concatenated
<1> HIDE DEF cd, e
<1>6. Len(x) \in Nat /\ Len(y) \in Nat
    BY LenProperties
<1>7. Len(e) = Len(cd) /\ Len(e) = Len(x) + Len(y)
    BY <1>1, <1>2, <1>3, <1>4, <1>5 DEF Joins
<1>8. ASSUME NEW i \in 1..Len(e) PROVE e[i] = cd[i]
    <2>1. i \in 1..Len(x) + Len(y) /\ i \in 1..Len(xy) /\ i \in 1..Len(c) + Len(d)
        BY <1>2, <1>3, <1>4, <1>7
    <2>2. xy[i] = IF i <= Len(x) THEN x[i] ELSE y[i - Len(x)]
        BY <1>1, <2>1 DEF Joins
    <2>3. cd[i] = IF i <= Len(x) THEN c[i] ELSE d[i - Len(x)]
        BY <1>2, <1>5, <2>1 DEF Joins
    <2>4. e[i] = xy[i].cells
        BY <1>4, <2>1
    <2>5. CASE i <= Len(x)
        <3>1. c[i] = x[i].cells
            BY <1>2, <1>6, <2>1, <2>5
        <3>2. QED
            BY <2>2, <2>3, <2>4, <2>5, <3>1
    <2>6. CASE ~(i <= Len(x))
        <3>1. i - Len(x) \in 1..Len(y)
            BY <1>6, <2>1, <2>6
        <3>2. d[i - Len(x)] = y[i - Len(x)].cells
            BY <1>3, <3>1
        <3>3. QED
            BY <2>2, <2>3, <2>4, <2>6, <3>2
    <2>7. QED
        BY <2>5, <2>6
<1>9. e = cd
    BY <1>4, <1>5, <1>7, <1>8, SeqEqual
<1>10. QED
    BY <1>1, <1>9 DEF xy, c, d, cd, e

LEMMA CellsOfBoth ==
    ASSUME NEW S, NEW F, AreFrames(F, S)
    PROVE  \A x, y \in Seq(F) : x \o y \in Seq(F) /\ CellsOf(x \o y) = CellsOf(x) \o CellsOf(y)
<1>1. ASSUME NEW x \in Seq(F), NEW y \in Seq(F)
      PROVE  x \o y \in Seq(F) /\ CellsOf(x \o y) = CellsOf(x) \o CellsOf(y)
    <2> DEFINE xy == x \o y
               c == Cut(x)
               d == Cut(y)
    <2>1. xy \in Seq(F) /\ Cut(xy) = c \o d
        BY CutBoth
    <2>2. c \in Seq(Seq(S)) /\ CellsOf(x) = FlattenSeq(c)
        BY CutIs
    <2>3. d \in Seq(Seq(S)) /\ CellsOf(y) = FlattenSeq(d)
        BY CutIs
    <2> HIDE DEF xy, c, d
    <2>4. CellsOf(xy) = FlattenSeq(Cut(xy))
        BY <2>1, CutIs
    <2>5. FlattenSeq(c \o d) = FlattenSeq(c) \o FlattenSeq(d)
        BY <2>2, <2>3, FlattenConcat
    <2>6. CellsOf(xy) = CellsOf(x) \o CellsOf(y)
        BY <2>1, <2>2, <2>3, <2>4, <2>5, Zenon
    <2>7. QED
        BY <2>1, <2>6 DEF xy
<1>2. QED
    BY <1>1

LEMMA CellsOfOne ==
    ASSUME NEW S, NEW F, AreFrames(F, S), NEW f \in F
    PROVE  CellsOf(<<f>>) = f.cells /\ CellsOf(<<>>) = <<>>
<1> DEFINE o == <<f>>
           n == <<>>
           fc == f.cells
           q == <<fc>>
<1>1. o \in Seq(F) /\ Len(o) = 1 /\ o[1] = f
    OBVIOUS
<1>2. fc \in Seq(S)
    BY DEF AreFrames
<1>3. n \in Seq(F) /\ Len(n) = 0
    BY EmptySeq
<1> HIDE DEF o, n, fc
<1>4. q \in Seq(Seq(S)) /\ Len(q) = 1 /\ q[1] = fc
    BY <1>2
<1>5. Cut(o) \in Seq(Seq(S)) /\ Len(Cut(o)) = 1 /\ Cut(o)[1] = fc /\ CellsOf(o) = FlattenSeq(Cut(o))
    <2>1. /\ Cut(o) \in Seq(Seq(S)) /\ Len(Cut(o)) = Len(o)
          /\ \A i \in 1..Len(o) : Cut(o)[i] = o[i].cells
          /\ CellsOf(o) = FlattenSeq(Cut(o))
        BY <1>1, CutIs
    <2>2. 1 \in 1..Len(o)
        BY <1>1
    <2>3. QED
        BY <1>1, <2>1, <2>2 DEF fc
<1>6. Cut(n) \in Seq(Seq(S)) /\ Len(Cut(n)) = 0 /\ CellsOf(n) = FlattenSeq(Cut(n))
    BY <1>3, CutIs
<1> HIDE DEF q
<1>7. Cut(o) = q
    <2>1. \A i \in 1..Len(q) : Cut(o)[i] = q[i]
        BY <1>4, <1>5
    <2>2. Len(Cut(o)) = Len(q)
        BY <1>4, <1>5
    <2> DEFINE c == Cut(o)
    <2>3. c \in Seq(Seq(S)) /\ Len(c) = Len(q) /\ \A i \in 1..Len(q) : c[i] = q[i]
        BY <1>5, <2>1, <2>2
    <2> HIDE DEF c
    <2>4. c = q
        BY <1>4, <2>3, SeqEqual
    <2>5. QED
        BY <2>4 DEF c
<1>8. Cut(n) = <<>>
    BY <1>6, EmptySeq
<1>9. FlattenSeq(q) = fc /\ FlattenSeq(<<>>) = <<>>
    BY <1>2, FlattenOne DEF q
<1>10. CellsOf(o) = fc /\ CellsOf(n) = <<>>
    BY <1>5, <1>6, <1>7, <1>8, <1>9
<1>11. QED
    BY <1>10 DEF o, n, fc

LEMMA CellsOfNone ==
    ASSUME NEW S, NEW F, AreFrames(F, S)
    PROVE  CellsOf(<<>>) = <<>>
<1> DEFINE n == <<>>
<1>1. n \in Seq(F) /\ Len(n) = 0
    BY EmptySeq
<1> HIDE DEF n
<1>2. Cut(n) \in Seq(Seq(S)) /\ Len(Cut(n)) = 0 /\ CellsOf(n) = FlattenSeq(Cut(n))
    BY <1>1, CutIs
<1>3. Cut(n) = <<>>
    BY <1>2, EmptySeq
<1>4. FlattenSeq(<<>>) = <<>>
    <2>1. <<>> \in Seq(S)
        BY EmptySeq
    <2>2. QED
        BY <2>1, FlattenOne
<1>5. CellsOf(n) = <<>>
    BY <1>2, <1>3, <1>4
<1>6. QED
    BY <1>5 DEF n

LEMMA CellsNext ==
    ASSUME NEW S, NEW F, AreFrames(F, S), NEW a \in Seq(F), NEW n \in 0..Len(a), n < Len(a)
    PROVE  a[n + 1] \in F /\ CellsOf(Behind(a, n)) = a[n + 1].cells \o CellsOf(Behind(a, n + 1))
<1> DEFINE b == Behind(a, n)
           f == a[n + 1]
           o == <<f>>
           c == Behind(a, n + 1)
<1>1. f \in F /\ n + 1 \in 0..Len(a) /\ b = o \o c
    BY BehindNext
<1>2. c \in Seq(F)
    BY <1>1, BehindIs
<1> HIDE DEF b, f, c
<1>3. o \in Seq(F)
    BY <1>1
<1>4. CellsOf(o) = f.cells
    BY <1>1, CellsOfOne
<1> HIDE DEF o
<1>5. CellsOf(o \o c) = CellsOf(o) \o CellsOf(c)
    BY <1>2, <1>3, CellsOfBoth
<1>6. CellsOf(b) = f.cells \o CellsOf(c)
    BY <1>1, <1>4, <1>5, Zenon
<1>7. QED
    BY <1>1, <1>6 DEF b, f, c

LEMMA CellsBehind ==
    ASSUME NEW S, NEW F, AreFrames(F, S), NEW a \in Seq(F), NEW n \in 0..Len(a)
    PROVE  /\ Behind(a, n) \in Seq(F) /\ CellsOf(Behind(a, n)) \in Seq(S)
           /\ n = Len(a) => CellsOf(Behind(a, n)) = <<>>
<1> DEFINE b == Behind(a, n)
<1>1. b \in Seq(F)
    BY BehindIs
<1>2. n = Len(a) => b = <<>>
    BY BehindAll
<1> HIDE DEF b
<1>3. CellsOf(b) \in Seq(S)
    BY <1>1, CutIs
<1>4. n = Len(a) => CellsOf(b) = <<>>
    BY <1>2, CellsOfNone
<1>5. QED
    BY <1>1, <1>3, <1>4 DEF b

\* The fewer frames are left, the fewer cells.
LEMMA CellsLeft ==
    ASSUME NEW S, NEW F, AreFrames(F, S), NEW a \in Seq(F), NEW n \in 0..Len(a)
    PROVE  /\ Len(CellsOf(Behind(a, n))) \in Nat
           /\ \A m \in 0..Len(a) : n < m => Len(CellsOf(Behind(a, m))) < Len(CellsOf(Behind(a, n)))
<1>0. Len(a) \in Nat
    BY LenProperties
<1>1. \A i \in 0..Len(a) : Len(CellsOf(Behind(a, i))) \in Nat
    BY CellsBehind, LenProperties
<1>2. ASSUME NEW i \in 0..Len(a), i < Len(a)
      PROVE  Len(CellsOf(Behind(a, i + 1))) < Len(CellsOf(Behind(a, i)))
    <2>0. /\ a[i + 1] \in F
          /\ CellsOf(Behind(a, i)) = a[i + 1].cells \o CellsOf(Behind(a, i + 1))
        BY <1>2, CellsNext
    <2> DEFINE f == a[i + 1]
               fc == f.cells
               c == CellsOf(Behind(a, i + 1))
    <2>1. i + 1 \in 0..Len(a)
        BY <1>0, <1>2
    <2>2. f \in F /\ CellsOf(Behind(a, i)) = fc \o c
        BY <2>0
    <2>3. fc \in Seq(S) /\ fc # <<>>
        BY <2>2 DEF AreFrames
    <2>4. c \in Seq(S)
        BY <2>1, CellsBehind
    <2> HIDE DEF f, fc, c
    <2>5. Len(fc \o c) = Len(fc) + Len(c)
        BY <2>3, <2>4, ConcatProperties
    <2>6. Len(fc) \in Nat \ {0} /\ Len(c) \in Nat
        BY <2>3, <2>4, EmptySeq, LenProperties
    <2>7. Len(CellsOf(Behind(a, i))) = Len(fc) + Len(c)
        BY <2>2, <2>5, Zenon
    <2>8. Len(c) < Len(CellsOf(Behind(a, i)))
        BY <2>6, <2>7
    <2>9. QED
        BY <2>8 DEF c
<1> DEFINE T == {m \in Nat : n < m /\ m <= Len(a) =>
                               Len(CellsOf(Behind(a, m))) < Len(CellsOf(Behind(a, n)))}
<1>3. 0 \in T
    BY <1>0
<1>4. ASSUME NEW m \in Nat, m \in T PROVE m + 1 \in T
    <2> SUFFICES ASSUME n < m + 1, m + 1 <= Len(a)
                 PROVE  Len(CellsOf(Behind(a, m + 1))) < Len(CellsOf(Behind(a, n)))
        OBVIOUS
    <2>1. m \in 0..Len(a) /\ m < Len(a) /\ m + 1 \in 0..Len(a) /\ m <= Len(a)
        BY <1>0
    <2> DEFINE x == Len(CellsOf(Behind(a, m + 1)))
               y == Len(CellsOf(Behind(a, m)))
               z == Len(CellsOf(Behind(a, n)))
    <2>2. x < y /\ x \in Nat /\ y \in Nat /\ z \in Nat
        BY <1>1, <1>2, <2>1
    <2>3. n < m => y < z
        BY <1>4, <2>1
    <2>4. ~(n < m) => n = m
        BY <1>0
    <2>5. n = m => y = z
        OBVIOUS
    <2> HIDE DEF x, y, z
    <2>6. x < z
        BY <2>2, <2>3, <2>4, <2>5
    <2>7. QED
        BY <2>6 DEF x, z
<1> HIDE DEF T
<1>5. Nat \subseteq T
    BY <1>3, <1>4, Induction
<1>6. QED
    BY <1>0, <1>1, <1>5 DEF T

LEMMA FramesLeft ==
    ASSUME NEW S, NEW F, AreFrames(F, S), NEW a \in Seq(F), NEW n \in 0..Len(a)
    PROVE  LastFrames(a, Len(CellsOf(Behind(a, n)))) = Behind(a, n)
<1> DEFINE cells == Len(CellsOf(Behind(a, n)))
           cuts == {k \in 0..Len(a) : Len(CellsOf(Behind(a, k))) = cells}
<1>1. n \in cuts
    OBVIOUS
<1>2. ASSUME NEW k \in cuts PROVE k = n
    <2>1. k \in 0..Len(a) /\ Len(CellsOf(Behind(a, k))) = cells /\ Len(a) \in Nat
        BY LenProperties
    <2>2. cells \in Nat
        BY CellsLeft
    <2>3. ~(n < k)
        BY <2>1, <2>2, CellsLeft
    <2>4. ~(k < n)
        <3>1. k < n => cells < Len(CellsOf(Behind(a, k)))
            BY <2>1, CellsLeft
        <3> HIDE DEF cells
        <3>2. QED
            BY <2>1, <2>2, <3>1
    <2>5. QED
        BY <2>1, <2>3, <2>4
<1>3. LastFrames(a, cells) = IF cuts = {} THEN <<Frm("torn", <<>>, "torn", <<>>)>>
                             ELSE Behind(a, CHOOSE k \in cuts : TRUE)
    BY DEF LastFrames
<1> HIDE DEF cuts, cells
<1>4. (CHOOSE k \in cuts : TRUE) = n
    BY <1>1, <1>2
<1>5. LastFrames(a, cells) = Behind(a, n)
    BY <1>1, <1>3, <1>4
<1>6. QED
    BY <1>5 DEF cells

-----------------------------------------------------------------------------
(* The state in which the reader comes to each frame *)

IsTurns(f, d, n) ==
    f = [i \in 0..n |-> IF i = 0 THEN [phase |-> d.phase, threshold |-> d.threshold]
                        ELSE Following(d, f[i - 1], Frames(d)[i])]

TurnsTo(d) == CHOOSE f : IsTurns(f, d, Len(Frames(d)))

LEMMA TurnsAre == \A d : Turns(d) = TurnsTo(d)
BY DEF Turns, TurnsTo, IsTurns

LEMMA TurnsExist ==
    ASSUME NEW d
    PROVE  \A n \in Nat : \E f : IsTurns(f, d, n)
<1> DEFINE T == {n \in Nat : \E f : IsTurns(f, d, n)}
           first == [phase |-> d.phase, threshold |-> d.threshold]
           Fol(t, i) == Following(d, t, Frames(d)[i])
<1>0. \A f, n : IsTurns(f, d, n) <=> f = [i \in 0..n |-> IF i = 0 THEN first ELSE Fol(f[i - 1], i)]
    BY DEF IsTurns
<1> HIDE DEF first, Fol
<1>1. 0 \in T
    <2> DEFINE f == [i \in 0..0 |-> first]
               g == [i \in 0..0 |-> IF i = 0 THEN first ELSE Fol(f[i - 1], i)]
    <2>1. \A i \in 0..0 : i = 0
        OBVIOUS
    <2>2. f = g
        BY <2>1
    <2>3. IsTurns(f, d, 0)
        BY <1>0, <2>2
    <2>4. QED
        BY <2>3
<1>2. ASSUME NEW n \in Nat, n \in T PROVE n + 1 \in T
    <2>1. PICK f : IsTurns(f, d, n)
        BY <1>2
    <2>2. f = [i \in 0..n |-> IF i = 0 THEN first ELSE Fol(f[i - 1], i)]
        BY <1>0, <2>1
    <2> DEFINE g == [i \in 0..(n + 1) |-> IF i = n + 1 THEN Fol(f[i - 1], i) ELSE f[i]]
               h == [i \in 0..(n + 1) |-> IF i = 0 THEN first ELSE Fol(g[i - 1], i)]
    <2>3. ASSUME NEW i \in 0..(n + 1) PROVE g[i] = h[i]
        <3>a. g[i] = IF i = n + 1 THEN Fol(f[i - 1], i) ELSE f[i]
            OBVIOUS
        <3>b. h[i] = IF i = 0 THEN first ELSE Fol(g[i - 1], i)
            OBVIOUS
        <3>0. i # 0 => g[i - 1] = f[i - 1]
            <4>1. i # 0 => i - 1 \in 0..(n + 1) /\ i - 1 # n + 1
                OBVIOUS
            <4>2. QED
                BY <4>1
        <3>c. i # n + 1 => f[i] = IF i = 0 THEN first ELSE Fol(f[i - 1], i)
            <4>1. i # n + 1 => i \in 0..n
                OBVIOUS
            <4>2. QED
                BY <2>2, <4>1
        <3>d. ~(i = 0 /\ i = n + 1)
            OBVIOUS
        <3> HIDE DEF g, h
        <3>1. QED
            BY <3>a, <3>b, <3>0, <3>c, <3>d, Zenon
    <2>4. g = h
        BY <2>3
    <2> HIDE DEF g
    <2>5. IsTurns(g, d, n + 1)
        BY <1>0, <2>4
    <2>6. QED
        BY <2>5
<1> HIDE DEF T
<1>3. Nat \subseteq T
    BY <1>1, <1>2, Induction
<1>4. QED
    BY <1>3 DEF T

LEMMA TurnsFollow ==
    ASSUME NEW d, Len(Frames(d)) \in Nat
    PROVE  /\ Turns(d)[0] = [phase |-> d.phase, threshold |-> d.threshold]
           /\ \A i \in 1..Len(Frames(d)) :
                Turns(d)[i] = Following(d, Turns(d)[i - 1], Frames(d)[i])
<1> DEFINE m == Len(Frames(d))
           t == TurnsTo(d)
           first == [phase |-> d.phase, threshold |-> d.threshold]
           Fol(u, i) == Following(d, u, Frames(d)[i])
<1>1. IsTurns(t, d, m)
    <2>1. \E f : IsTurns(f, d, m)
        BY TurnsExist
    <2>2. QED
        BY <2>1, Zenon DEF TurnsTo
<1>2. t = [i \in 0..m |-> IF i = 0 THEN first ELSE Fol(t[i - 1], i)]
    BY <1>1 DEF IsTurns
<1>3. Turns(d) = t
    BY TurnsAre
<1> HIDE DEF t, first, Fol
<1>4. t[0] = first
    <2>1. 0 \in 0..m
        OBVIOUS
    <2>2. QED
        BY <1>2, <2>1
<1>5. \A i \in 1..m : t[i] = Fol(t[i - 1], i)
    <2>1. \A i \in 1..m : i \in 0..m /\ i # 0
        OBVIOUS
    <2> HIDE DEF m
    <2>2. QED
        BY <1>2, <2>1
<1>6. QED
    BY <1>3, <1>4, <1>5 DEF first, Fol

-----------------------------------------------------------------------------
(* What a dialogue is *)

FrameSet(d) == {d.now[i] : i \in 1..Len(d.now)} \cup {d.later[i] : i \in 1..Len(d.later)}
CellSet(d)  == UNION {{f.cells[i] : i \in 1..Len(f.cells)} : f \in FrameSet(d)}

LEMMA SequenceIs ==
    ASSUME NEW s, IsSequence(s), NEW S, \A i \in 1..Len(s) : s[i] \in S
    PROVE  s \in Seq(S) /\ Len(s) \in Nat /\ DOMAIN s = 1..Len(s)
<1> DEFINE n == Len(s)
<1>1. n \in Nat /\ s = [i \in 1..n |-> s[i]]
    BY DEF IsSequence
<1> HIDE DEF n
<1>2. s \in [1..n -> S]
    <2>1. \A i \in 1..n : s[i] \in S
        BY DEF n
    <2> DEFINE r == [i \in 1..n |-> s[i]]
    <2>2. r \in [1..n -> S]
        BY <2>1
    <2>3. QED
        BY <1>1, <2>2, Zenon
<1>3. s \in Seq(S)
    BY <1>1, <1>2, IsASeq
<1>4. DOMAIN s = 1..n
    BY <1>2
<1>5. QED
    BY <1>1, <1>3, <1>4 DEF n

LEMMA DialogueFrames ==
    ASSUME NEW d, IsDialogue(d)
    PROVE  /\ d.now \in Seq(FrameSet(d)) /\ d.later \in Seq(FrameSet(d))
           /\ Frames(d) \in Seq(FrameSet(d)) /\ Joins(Frames(d), d.now, d.later)
           /\ Len(d.now) \in Nat /\ Len(d.later) \in Nat /\ Len(Frames(d)) = Len(d.now) + Len(d.later)
           /\ AreFrames(FrameSet(d), CellSet(d))
<1> DEFINE F == FrameSet(d)
           S == CellSet(d)
           a == d.now
           b == d.later
<1>1. IsSequence(a) /\ IsSequence(b)
    BY DEF IsDialogue
<1>2. (\A i \in 1..Len(a) : a[i] \in F) /\ (\A i \in 1..Len(b) : b[i] \in F)
    BY DEF FrameSet
<1> HIDE DEF F
<1>3. a \in Seq(F) /\ b \in Seq(F) /\ Len(a) \in Nat /\ Len(b) \in Nat
    BY <1>1, <1>2, SequenceIs
<1>4. Frames(d) = a \o b
    BY DEF Frames
<1>5. Frames(d) \in Seq(F) /\ Joins(Frames(d), a, b)
    BY <1>3, <1>4, Concatenated
<1>6. Len(Frames(d)) = Len(a) + Len(b)
    BY <1>5 DEF Joins
<1>7. ASSUME NEW f \in F PROVE IsFrame(f)
    <2> DEFINE fr == Frames(d)
    <2>1. \A i \in 1..Len(fr) : IsFrame(fr[i])
        BY DEF IsDialogue
    <2>4. (\E i \in 1..Len(a) : f = a[i]) \/ (\E i \in 1..Len(b) : f = b[i])
        BY <1>7 DEF F, FrameSet
    <2>a. /\ Len(a) \in Nat /\ Len(b) \in Nat /\ Len(fr) = Len(a) + Len(b)
          /\ \A i \in 1..Len(a) + Len(b) : fr[i] = IF i <= Len(a) THEN a[i] ELSE b[i - Len(a)]
        BY <1>3, <1>5, <1>6 DEF Joins
    <2> HIDE DEF a, b, fr
    <2>2. \A i \in 1..Len(a) : i \in 1..Len(fr) /\ fr[i] = a[i]
        BY <2>a
    <2>3. \A i \in 1..Len(b) : Len(a) + i \in 1..Len(fr) /\ fr[Len(a) + i] = b[i]
        <3> SUFFICES ASSUME NEW i \in 1..Len(b)
                     PROVE  Len(a) + i \in 1..Len(fr) /\ fr[Len(a) + i] = b[i]
            OBVIOUS
        <3>1. Len(a) + i \in 1..Len(a) + Len(b) /\ ~(Len(a) + i <= Len(a)) /\ (Len(a) + i) - Len(a) = i
            BY <2>a
        <3>2. QED
            BY <2>a, <3>1
    <2>5. CASE \E i \in 1..Len(a) : f = a[i]
        BY <2>1, <2>2, <2>5
    <2>6. CASE \E i \in 1..Len(b) : f = b[i]
        BY <2>1, <2>3, <2>6
    <2>7. QED
        BY <2>4, <2>5, <2>6
<1>8. ASSUME NEW f \in F PROVE f.cells \in Seq(S) /\ f.cells # <<>>
    <2> DEFINE c == f.cells
    <2>1. IsSequence(c) /\ c # <<>>
        BY <1>7 DEF IsFrame
    <2>2. \A i \in 1..Len(c) : c[i] \in S
        BY DEF CellSet, F
    <2> HIDE DEF c
    <2>3. c \in Seq(S)
        BY <2>1, <2>2, SequenceIs
    <2>4. QED
        BY <2>1, <2>3 DEF c
<1>9. AreCells(S)
    <2> SUFFICES ASSUME NEW c \in S, c[1] = "byte" PROVE c[2] \in Nat
        BY DEF AreCells
    <2>1. PICK f \in F : \E i \in 1..Len(f.cells) : c = f.cells[i]
        BY DEF CellSet, F
    <2>2. PICK i \in 1..Len(f.cells) : c = f.cells[i]
        BY <2>1
    <2> DEFINE g == f.cells
    <2>3. IsSequence(g) /\ \A j \in DOMAIN g : g[j][1] = "byte" => g[j][2] \in Nat
        BY <1>7 DEF IsFrame
    <2>4. DOMAIN g = 1..Len(g)
        <3>1. g \in Seq(S)
            BY <1>8
        <3> HIDE DEF g, S
        <3>2. QED
            BY <3>1, LenProperties
    <2>5. QED
        BY <2>2, <2>3, <2>4
<1>10. AreFrames(F, S)
    BY <1>8, <1>9 DEF AreFrames
<1>11. QED
    BY <1>3, <1>5, <1>6, <1>10 DEF F

LEMMA DialogueSays ==
    ASSUME NEW d, IsDialogue(d), NEW k \in 0..Len(Frames(d))
    PROVE  /\ d.reader \in {"server", "client"}
           /\ Turns(d)[k].phase \in Phases[d.reader] /\ Turns(d)[k].threshold \in Int
           /\ k < Len(Frames(d)) => LET f == Frames(d)[k + 1] IN
                /\ f \in FrameSet(d)
                /\ IsWhatItSays(d.reader, Turns(d)[k], f)
                /\ Turns(d)[k + 1] = Following(d, Turns(d)[k], f)
                /\ Turns(d)[k].phase = "play" => Turns(d)[k + 1].phase = "play"
                /\ f.name = "LoginStart" /\ ~d.online => k + 1 = Len(d.now) /\ Turns(d)[k].phase = "login"
<1> DEFINE turn == Turns(d)
           frames == Frames(d)
           m == Len(frames)
<1>1. /\ d.reader \in {"server", "client"}
      /\ \A i \in 0..m : turn[i].phase \in Phases[d.reader] /\ turn[i].threshold \in Int
      /\ \A i \in 1..m :
           /\ IsWhatItSays(d.reader, turn[i - 1], frames[i])
           /\ turn[i - 1].phase = "play" => turn[i].phase = "play"
           /\ frames[i].name = "LoginStart" /\ ~d.online => i = Len(d.now) /\ turn[i - 1].phase = "login"
    BY DEF IsDialogue
<1>2. frames \in Seq(FrameSet(d)) /\ m \in Nat
    BY DialogueFrames, LenProperties
<1>3. \A i \in 1..m : turn[i] = Following(d, turn[i - 1], frames[i]) /\ frames[i] \in FrameSet(d)
    BY <1>2, TurnsFollow, ElementOfSeq
<1> HIDE DEF turn, frames, m
<1>4. CASE k < m
    <2> DEFINE i == k + 1
    <2>1. i \in 1..m /\ i - 1 = k
        BY <1>2, <1>4 DEF m, frames
    <2> HIDE DEF i
    <2>2. /\ turn[i] = Following(d, turn[k], frames[i]) /\ frames[i] \in FrameSet(d)
          /\ IsWhatItSays(d.reader, turn[k], frames[i])
          /\ turn[k].phase = "play" => turn[i].phase = "play"
          /\ frames[i].name = "LoginStart" /\ ~d.online => i = Len(d.now) /\ turn[k].phase = "login"
        BY <1>1, <1>3, <2>1
    <2>3. turn[k].phase \in Phases[d.reader] /\ turn[k].threshold \in Int
        BY <1>1 DEF m, frames
    <2>4. QED
        BY <1>1, <2>2, <2>3 DEF i, m, turn, frames
<1>5. CASE ~(k < m)
    <2>3. turn[k].phase \in Phases[d.reader] /\ turn[k].threshold \in Int
        BY <1>1 DEF m, frames
    <2>4. QED
        BY <1>1, <1>5, <2>3 DEF m, turn, frames
<1>6. QED
    BY <1>4, <1>5

-----------------------------------------------------------------------------
(* What the reader makes of the frame in front *)

LEMMA EmptyWaits ==
    ASSUME NEW who, NEW turn
    PROVE  ~Arrived(who, turn, <<>>)
<1>1. Len(<<>>) = 0
    BY EmptySeq
<1>2. VarIntEnd(<<>>) = 0
    BY <1>1, VarIntEnds DEF EndsAt
<1>3. decode_var_int(<<>>) = Short
    BY <1>1, <1>2 DEF decode_var_int
<1> DEFINE strict == (who = "server" /\ turn.phase # "play") \/ turn.threshold < 0
<1>4. strict \in BOOLEAN
    OBVIOUS
<1>5. Arrived(who, turn, <<>>) <=> FrameBody(<<>>, strict).st # "short"
    BY DEF Arrived
<1> HIDE DEF strict
<1>6. FrameBody(<<>>, strict) = Short
    BY <1>3, <1>4, FrameBodyOf
<1>7. QED
    BY <1>5, <1>6, GotIs

LEMMA WithIs ==
    ASSUME NEW S, NEW r, Sound(r, S), NEW x
    PROVE  /\ \A v, y : With(r, x) = Got(v, y) =>
                r.st = "got" /\ r.value = v /\ r.rest \in Seq(S) /\ r.rest \o x = y
           /\ \A y : With(r, x) = Skipped(y) =>
                r.st = "skipped" /\ r.rest \in Seq(S) /\ r.rest \o x = y
           /\ With(r, x).st \in {"bad", "wrong"} => r.st \in {"bad", "wrong"}
           /\ With(r, x) = Short => r = Short
<1> DEFINE rest == r.rest
           value == r.value
<1>1. CASE r = Got(value, rest) /\ rest \in Seq(S)
    <2> DEFINE rx == rest \o x
    <2>1. r.st = "got"
        BY <1>1, GotIs
    <2>2. With(r, x) = Got(value, rx)
        BY <2>1 DEF With
    <2>3. rest \in Seq(S)
        BY <1>1
    <2> HIDE DEF rest, value, rx
    <2>4. /\ Got(value, rx).st = "got" /\ Got(value, rx).value = value /\ Got(value, rx).rest = rx
          /\ \A v, y : Got(v, y).value = v /\ Got(v, y).rest = y
          /\ \A y : Skipped(y).st = "skipped"
          /\ Short.st = "short"
        BY GotIs
    <2>5. ASSUME NEW v, NEW y, Got(value, rx) = Got(v, y) PROVE value = v /\ rx = y
        <3>1. Got(v, y).value = v /\ Got(v, y).rest = y
            BY <2>4
        <3>2. Got(v, y).value = value /\ Got(v, y).rest = rx
            BY <2>4, <2>5
        <3>3. QED
            BY <3>1, <3>2
    <2>6. \A y : Got(value, rx) # Skipped(y)
        BY <2>4
    <2>7. Got(value, rx) # Short /\ Got(value, rx).st \notin {"bad", "wrong"}
        BY <2>4
    <2>8. QED
        BY <2>1, <2>2, <2>3, <2>5, <2>6, <2>7 DEF value, rest, rx
<1>2. CASE r = Skipped(rest) /\ rest \in Seq(S)
    <2> DEFINE rx == rest \o x
    <2>1. r.st = "skipped"
        BY <1>2, GotIs
    <2>2. With(r, x) = Skipped(rx)
        BY <2>1 DEF With
    <2>3. rest \in Seq(S)
        BY <1>2
    <2> HIDE DEF rest, rx
    <2>4. /\ Skipped(rx).st = "skipped" /\ Skipped(rx).rest = rx
          /\ \A v, y : Got(v, y).st = "got"
          /\ \A y : Skipped(y).rest = y
          /\ Short.st = "short"
        BY GotIs
    <2>5. \A y : Skipped(rx) = Skipped(y) => rx = y
        BY <2>4, Zenon
    <2>6. \A v, y : Skipped(rx) # Got(v, y)
        BY <2>4
    <2>7. Skipped(rx) # Short /\ Skipped(rx).st \notin {"bad", "wrong"}
        BY <2>4
    <2>8. QED
        BY <2>1, <2>2, <2>3, <2>5, <2>6, <2>7 DEF rest, rx
<1>3. CASE r \in {Short, Bad, Wrong}
    <2>1. r.st \in {"short", "bad", "wrong"}
        BY <1>3, GotIs
    <2>2. With(r, x) = r
        BY <2>1 DEF With
    <2>3. (\A v, y : r # Got(v, y)) /\ (\A y : r # Skipped(y))
        BY <2>1, GotIs
    <2>4. QED
        BY <2>2, <2>3
<1>4. QED
    BY <1>1, <1>2, <1>3 DEF Sound

Named(f) == [name |-> f.name, packet |-> f.packet]

\* What a frame says of the whole of what is behind its first cell.
LEMMA KindsOfFrames ==
    ASSUME NEW who \in {"server", "client"}, NEW turn,
           turn.phase \in Phases[who], turn.threshold \in Int,
           NEW S, AreCells(S), NEW f, f.cells \in Seq(S), IsWhatItSays(who, turn, f), NEW y \in Seq(S)
    PROVE  LET r == Decoded(who, turn.phase, turn.threshold, f.cells \o y)
           IN \/ r = Got(Named(f), y) /\ f.kind = IF f.name \in LastNames THEN "last" ELSE "good"
              \/ r = Skipped(y) /\ f.kind = "unknown"
              \/ r.st \in {"bad", "wrong"} /\ f.kind = "bad"
              \/ r = Short /\ f.kind = "waits"
<1> DEFINE c == f.cells
           rc == Decoded(who, turn.phase, turn.threshold, c)
           r == Decoded(who, turn.phase, turn.threshold, c \o y)
           e == <<>>
           p == Named(f)
<1>1. /\ Sound(rc, S)
      /\ ~Arrived(who, turn, c) => rc = Short
      /\ Arrived(who, turn, c) => r = With(rc, y)
    BY DecodedStands
<1>2. \/ f.kind = "good" /\ rc = Got(p, e) /\ f.name \notin LastNames
      \/ f.kind = "last" /\ rc = Got(p, e) /\ f.name \in LastNames
      \/ f.kind = "unknown" /\ rc = Skipped(e)
      \/ f.kind = "bad" /\ rc.st \in {"bad", "wrong"}
      \/ f.kind = "waits" /\ rc = Short /\ Arrived(who, turn, c)
    BY DEF IsWhatItSays, Named
<1> HIDE DEF c, rc, r, p
<1>3. e \o y = y
    BY Nothing
<1> HIDE DEF e
<1>4. Arrived(who, turn, c)
    BY <1>1, <1>2, GotIs
<1>5. CASE rc = Got(p, e)
    <2>1. rc.st = "got" /\ rc.value = p /\ rc.rest = e
        BY <1>5, GotIs
    <2>2. r = Got(p, y)
        BY <1>1, <1>3, <1>4, <2>1 DEF With
    <2>3. rc.st \notin {"bad", "wrong", "skipped", "short"}
        BY <2>1
    <2>4. rc # Skipped(e) /\ rc # Short
        BY <2>3, GotIs
    <2>5. QED
        BY <1>2, <2>2, <2>3, <2>4 DEF r, c, p
<1>6. CASE rc = Skipped(e) /\ f.kind = "unknown"
    <2>1. rc.st = "skipped" /\ rc.rest = e
        BY <1>6, GotIs
    <2>2. r = Skipped(y)
        BY <1>1, <1>3, <1>4, <2>1 DEF With
    <2>3. QED
        BY <1>6, <2>2 DEF r, c
<1>7. CASE rc.st \in {"bad", "wrong"} /\ f.kind = "bad"
    <2>1. With(rc, y) = rc
        BY <1>7 DEF With
    <2>2. QED
        BY <1>1, <1>4, <1>7, <2>1 DEF r, c
<1>8. CASE rc = Short /\ f.kind = "waits"
    <2>1. rc.st = "short"
        BY <1>8, GotIs
    <2>2. With(rc, y) = rc
        BY <2>1 DEF With
    <2>3. QED
        BY <1>1, <1>4, <1>8, <2>2 DEF r, c
<1>9. QED
    BY <1>2, <1>5, <1>6, <1>7, <1>8

\* What is made of s alone, and of sx, which goes on with x.
Stands(who, turn, S, s, x, sx) ==
    LET r  == Decoded(who, turn.phase, turn.threshold, s)
        rx == Decoded(who, turn.phase, turn.threshold, sx)
    IN Sound(r, S) /\ (~Arrived(who, turn, s) => r = Short) /\ (Arrived(who, turn, s) => rx = With(r, x))

LEMMA AllStand ==
    ASSUME NEW who \in {"server", "client"}, NEW turn,
           turn.phase \in Phases[who], turn.threshold \in Int, NEW S, AreCells(S)
    PROVE  \A s, x \in Seq(S) : \A sx : sx = s \o x => Stands(who, turn, S, s, x, sx)
<1>1. ASSUME NEW s \in Seq(S), NEW x \in Seq(S) PROVE Stands(who, turn, S, s, x, s \o x)
    <2> DEFINE sx == s \o x
    <2>1. LET r  == Decoded(who, turn.phase, turn.threshold, s)
              rx == Decoded(who, turn.phase, turn.threshold, sx)
          IN Sound(r, S) /\ (~Arrived(who, turn, s) => r = Short) /\ (Arrived(who, turn, s) => rx = With(r, x))
        BY DecodedStands
    <2> HIDE DEF sx
    <2>2. Stands(who, turn, S, s, x, sx)
        BY <2>1 DEF Stands
    <2>3. QED
        BY <2>2 DEF sx
<1>2. QED
    BY <1>1, Zenon

\* What cy, which begins with the cells of f and goes on with y, is to the reader.
Says(who, turn, f, y, cy) ==
    LET r == Decoded(who, turn.phase, turn.threshold, cy)
    IN \/ r = Got(Named(f), y) /\ f.kind = IF f.name \in LastNames THEN "last" ELSE "good"
       \/ r = Skipped(y) /\ f.kind = "unknown"
       \/ r.st \in {"bad", "wrong"} /\ f.kind = "bad"
       \/ r = Short /\ f.kind = "waits"

LEMMA AllSay ==
    ASSUME NEW who \in {"server", "client"}, NEW turn,
           turn.phase \in Phases[who], turn.threshold \in Int,
           NEW S, AreCells(S), NEW f, f.cells \in Seq(S), IsWhatItSays(who, turn, f)
    PROVE  \A y \in Seq(S) : \A cy : cy = f.cells \o y => Says(who, turn, f, y, cy)
<1>1. ASSUME NEW y \in Seq(S) PROVE Says(who, turn, f, y, f.cells \o y)
    <2> DEFINE cy == f.cells \o y
    <2>1. LET r == Decoded(who, turn.phase, turn.threshold, cy)
          IN \/ r = Got(Named(f), y) /\ f.kind = IF f.name \in LastNames THEN "last" ELSE "good"
             \/ r = Skipped(y) /\ f.kind = "unknown"
             \/ r.st \in {"bad", "wrong"} /\ f.kind = "bad"
             \/ r = Short /\ f.kind = "waits"
        BY KindsOfFrames
    <2> HIDE DEF cy
    <2>2. Says(who, turn, f, y, cy)
        BY <2>1 DEF Says
    <2>3. QED
        BY <2>2 DEF cy
<1>2. QED
    BY <1>1, Zenon

\* What is made of b, the front of what f and y spell, when x is the rest.
Tells(r, x, S, f, y) ==
    \/ r = Short /\ (x = <<>> => f.kind = "waits")
    \/ /\ r.st = "got" /\ r.value = Named(f)
       /\ f.kind = IF f.name \in LastNames THEN "last" ELSE "good"
       /\ r.rest \in Seq(S) /\ r.rest \o x = y
    \/ /\ r.st = "skipped" /\ f.kind = "unknown"
       /\ r.rest \in Seq(S) /\ r.rest \o x = y
    \/ r.st \in {"bad", "wrong"} /\ f.kind = "bad"

\* From what is made of b alone, of b with x and of all of it.
LEMMA FrameTells ==
    ASSUME NEW S, NEW x, NEW y, NEW f, NEW arrived \in BOOLEAN, NEW r, NEW rx,
           Sound(r, S), ~arrived => r = Short, arrived => rx = With(r, x), x = <<>> => rx = r,
           \/ rx = Got(Named(f), y) /\ f.kind = IF f.name \in LastNames THEN "last" ELSE "good"
           \/ rx = Skipped(y) /\ f.kind = "unknown"
           \/ rx.st \in {"bad", "wrong"} /\ f.kind = "bad"
           \/ rx = Short /\ f.kind = "waits"
    PROVE  Tells(r, x, S, f, y)
<1> DEFINE p == Named(f)
           last == f.kind = IF f.name \in LastNames THEN "last" ELSE "good"
           kind == f.kind
           eq == r.rest \o x = y
           w == With(r, x)
<1>1. /\ w = Got(p, y) => r.st = "got" /\ r.value = p /\ r.rest \in Seq(S) /\ eq
      /\ w = Skipped(y) => r.st = "skipped" /\ r.rest \in Seq(S) /\ eq
      /\ w.st \in {"bad", "wrong"} => r.st \in {"bad", "wrong"}
      /\ w = Short => r = Short
    BY WithIs
<1>2. Got(p, y) # Short /\ Skipped(y) # Short /\ (rx.st \in {"bad", "wrong"} => rx # Short)
    BY GotIs
<1>3. \/ rx = Got(p, y) /\ last
      \/ rx = Skipped(y) /\ kind = "unknown"
      \/ rx.st \in {"bad", "wrong"} /\ kind = "bad"
      \/ rx = Short /\ kind = "waits"
    OBVIOUS
<1>4. arrived => rx = w
    OBVIOUS
<1>5. Tells(r, x, S, f, y) <=>
        \/ r = Short /\ (x = <<>> => kind = "waits")
        \/ r.st = "got" /\ r.value = p /\ last /\ r.rest \in Seq(S) /\ eq
        \/ r.st = "skipped" /\ kind = "unknown" /\ r.rest \in Seq(S) /\ eq
        \/ r.st \in {"bad", "wrong"} /\ kind = "bad"
    BY DEF Tells
<1> HIDE DEF p, last, kind, eq, w
<1>6. CASE arrived
    BY <1>1, <1>3, <1>4, <1>5, <1>6
<1>7. CASE ~arrived
    BY <1>2, <1>3, <1>5, <1>7
<1>8. QED
    BY <1>6, <1>7

LEMMA FrameInFront ==
    ASSUME NEW who \in {"server", "client"}, NEW turn,
           turn.phase \in Phases[who], turn.threshold \in Int,
           NEW S, AreCells(S), NEW f, f.cells \in Seq(S), IsWhatItSays(who, turn, f)
    PROVE  \A b, x, y \in Seq(S) : \A bx : bx = b \o x /\ bx = f.cells \o y =>
             LET r == Decoded(who, turn.phase, turn.threshold, b)
             IN Sound(r, S) /\ Tells(r, x, S, f, y)
<1> DEFINE c == f.cells
<1>1. \A b, x \in Seq(S) : \A bx : bx = b \o x => Stands(who, turn, S, b, x, bx)
    BY AllStand
<1>2. \A y \in Seq(S) : \A cy : cy = c \o y => Says(who, turn, f, y, cy)
    BY AllSay
<1> HIDE DEF c
<1>3. ASSUME NEW b \in Seq(S), NEW x \in Seq(S), NEW y \in Seq(S), NEW bx, bx = b \o x, bx = c \o y
      PROVE  LET r == Decoded(who, turn.phase, turn.threshold, b)
             IN Sound(r, S) /\ Tells(r, x, S, f, y)
    <2> DEFINE r == Decoded(who, turn.phase, turn.threshold, b)
               rx == Decoded(who, turn.phase, turn.threshold, bx)
               arrived == Arrived(who, turn, b)
    <2>1. Stands(who, turn, S, b, x, bx)
        BY <1>1, <1>3, Zenon
    <2>2. Says(who, turn, f, y, bx)
        BY <1>2, <1>3, Zenon
    <2>3. x = <<>> => bx = b
        <3>1. b \o <<>> = b
            BY Nothing
        <3>2. QED
            BY <1>3, <3>1, Zenon
    <2>4. arrived \in BOOLEAN
        BY DEF Arrived
    <2>5. Sound(r, S) /\ (~arrived => r = Short) /\ (arrived => rx = With(r, x)) /\ (x = <<>> => rx = r)
        BY <2>1, <2>3, Zenon DEF Stands
    <2>6. \/ rx = Got(Named(f), y) /\ f.kind = IF f.name \in LastNames THEN "last" ELSE "good"
          \/ rx = Skipped(y) /\ f.kind = "unknown"
          \/ rx.st \in {"bad", "wrong"} /\ f.kind = "bad"
          \/ rx = Short /\ f.kind = "waits"
        BY <2>2 DEF Says
    <2> HIDE DEF r, rx, arrived
    <2>7. Tells(r, x, S, f, y)
        BY <2>4, <2>5, <2>6, FrameTells, Zenon
    <2>8. QED
        BY <2>5, <2>7 DEF r
<1>4. QED
    BY <1>3, Zenon DEF c

\* What a reader that has come to the frames a makes of what is in its buffer,
\* when x is still to come.
Reads(r, x, S, a) ==
    \/ r = Short /\ (x = <<>> => a = <<>> \/ Head(a).kind = "waits")
    \/ a # <<>> /\ Tells(r, x, S, Head(a), CellsOf(Tail(a)))

LEMMA FrontFrame ==
    ASSUME NEW d, IsDialogue(d), NEW k \in 0..Len(Frames(d))
    PROVE  \A b, x \in Seq(CellSet(d)) :
             b \o x = CellsOf(Behind(Frames(d), k)) =>
               LET r == Decoded(d.reader, Turns(d)[k].phase, Turns(d)[k].threshold, b)
               IN Sound(r, CellSet(d)) /\ Reads(r, x, CellSet(d), Behind(Frames(d), k))
<1> DEFINE frames == Frames(d)
           S == CellSet(d)
           F == FrameSet(d)
           m == Len(frames)
           turn == Turns(d)[k]
           who == d.reader
           a == Behind(frames, k)
           ca == CellsOf(a)
<1>1. frames \in Seq(F) /\ m \in Nat /\ AreFrames(F, S) /\ AreCells(S) /\ k \in 0..m
    BY DialogueFrames, LenProperties DEF AreFrames
<1>2. /\ who \in {"server", "client"} /\ turn.phase \in Phases[who] /\ turn.threshold \in Int
      /\ k < m => frames[k + 1] \in F /\ IsWhatItSays(who, turn, frames[k + 1])
    BY DialogueSays
<1> HIDE DEF frames, S, F, m, turn, who
<1>3. CASE ~(k < m)
    <2>1. k = m
        BY <1>1, <1>3
    <2>2. a = <<>>
        BY <1>1, <2>1, BehindAll DEF m
    <2>3. ca = <<>>
        BY <1>1, <2>2, CellsOfNone
    <2> HIDE DEF a, ca
    <2>4. ASSUME NEW b \in Seq(S), NEW x \in Seq(S), b \o x = ca
          PROVE  LET r == Decoded(who, turn.phase, turn.threshold, b)
                 IN Sound(r, S) /\ Reads(r, x, S, a)
        <3> DEFINE r == Decoded(who, turn.phase, turn.threshold, b)
        <3>1. b = <<>>
            BY <2>3, <2>4, ConcatEqualIffEmpty
        <3>2. Stands(who, turn, S, b, x, ca)
            BY <1>1, <1>2, <2>4, AllStand, Zenon
        <3>3. r = Short /\ Sound(r, S)
            BY <3>1, <3>2, EmptyWaits DEF Stands
        <3> HIDE DEF r
        <3>4. Reads(r, x, S, a)
            BY <2>2, <3>3 DEF Reads
        <3>5. QED
            BY <3>3, <3>4 DEF r
    <2>5. QED
        BY <2>4, Zenon DEF a, ca, frames, S, turn, who
<1>4. CASE k < m
    <2> DEFINE f == frames[k + 1]
               w == Behind(frames, k + 1)
               y == CellsOf(w)
    <2>1. k \in 0..Len(frames) /\ k < Len(frames)
        BY <1>1, <1>4 DEF m
    <2>2. a # <<>> /\ Head(a) = f /\ Tail(a) = w /\ k + 1 \in 0..Len(frames)
        BY <1>1, <2>1, BehindNext
    <2>3. f \in F /\ ca = f.cells \o y
        BY <1>1, <2>1, CellsNext
    <2>4. y \in Seq(S) /\ f.cells \in Seq(S)
        BY <1>1, <2>2, <2>3, CellsBehind DEF AreFrames
    <2>5. IsWhatItSays(who, turn, f)
        BY <1>2, <1>4
    <2> HIDE DEF a, f, w, y, ca
    <2>6. \A b, x, z \in Seq(S) : \A bx : bx = b \o x /\ bx = f.cells \o z =>
            LET r == Decoded(who, turn.phase, turn.threshold, b)
            IN Sound(r, S) /\ Tells(r, x, S, f, z)
        BY <1>1, <1>2, <2>4, <2>5, FrameInFront, Zenon
    <2>7. ASSUME NEW b \in Seq(S), NEW x \in Seq(S), b \o x = ca
          PROVE  LET r == Decoded(who, turn.phase, turn.threshold, b)
                 IN Sound(r, S) /\ Reads(r, x, S, a)
        <3> DEFINE r == Decoded(who, turn.phase, turn.threshold, b)
        <3>1. Sound(r, S) /\ Tells(r, x, S, f, y)
            BY <2>3, <2>4, <2>6, <2>7, Zenon
        <3> HIDE DEF r
        <3>2. CellsOf(Tail(a)) = y
            BY <2>2 DEF y
        <3>3. Tells(r, x, S, Head(a), CellsOf(Tail(a)))
            BY <2>2, <3>1, <3>2, Zenon
        <3>4. Reads(r, x, S, a)
            BY <2>2, <3>3, Zenon DEF Reads
        <3>5. QED
            BY <3>1, <3>4 DEF r
    <2>8. QED
        BY <2>7, Zenon DEF a, ca, frames, S, turn, who
<1>5. QED
    BY <1>3, <1>4

-----------------------------------------------------------------------------
(* From one turn to the next *)

NextPhase(d, p, f) ==
    IF f.kind # "good" THEN p
    ELSE IF f.name = "Handshake"
         THEN IF f.packet.next_state = NextState.Status THEN "status" ELSE "login"
    ELSE IF f.name = "LoginSuccess" \/ (f.name = "LoginStart" /\ ~d.online) THEN "play" ELSE p

NextThreshold(t, f) ==
    IF f.kind = "good" /\ f.name = "SetCompression" THEN f.packet.threshold ELSE t

Turn(p, t) == [phase |-> p, threshold |-> t]

LEMMA TurnIs == \A p, t : Turn(p, t).phase = p /\ Turn(p, t).threshold = t
BY DEF Turn

LEMMA TurnExcept ==
    ASSUME NEW p, NEW t, NEW q
    PROVE  /\ [Turn(p, t) EXCEPT !.phase = q] = Turn(q, t)
           /\ [Turn(p, t) EXCEPT !.threshold = q] = Turn(p, q)
BY DEF Turn

LEMMA FollowingIs ==
    ASSUME NEW d, NEW p, NEW t, NEW f
    PROVE  Following(d, Turn(p, t), f) = Turn(NextPhase(d, p, f), NextThreshold(t, f))
<1> DEFINE u == Turn(p, t)
           q == IF f.packet.next_state = NextState.Status THEN "status" ELSE "login"
           s == f.packet.threshold
           x == "play"
           good == f.kind = "good"
           offline == f.name = "LoginStart" /\ ~d.online
           uq == [u EXCEPT !.phase = q]
           ux == [u EXCEPT !.phase = x]
           us == [u EXCEPT !.threshold = s]
<1>1. uq = Turn(q, t) /\ ux = Turn(x, t) /\ us = Turn(p, s)
    BY TurnExcept
<1>2. Following(d, u, f) =
        IF ~good THEN u
        ELSE CASE f.name = "Handshake" -> uq
               [] f.name = "LoginSuccess" \/ offline -> ux
               [] f.name = "SetCompression" -> us
               [] OTHER -> u
    BY DEF Following
<1>3. NextPhase(d, p, f) = IF ~good THEN p ELSE IF f.name = "Handshake" THEN q
                           ELSE IF f.name = "LoginSuccess" \/ offline THEN x ELSE p
    BY DEF NextPhase
<1>4. NextThreshold(t, f) = IF good /\ f.name = "SetCompression" THEN s ELSE t
    BY DEF NextThreshold
<1>5. u = Turn(p, t)
    OBVIOUS
<1>6. offline => f.name = "LoginStart"
    OBVIOUS
<1> HIDE DEF u, q, s, uq, ux, us
<1>7. CASE ~good
    BY <1>2, <1>3, <1>4, <1>5, <1>7
<1>8. CASE good /\ f.name = "Handshake"
    BY <1>1, <1>2, <1>3, <1>4, <1>5, <1>6, <1>8
<1>9. CASE good /\ (f.name = "LoginSuccess" \/ offline)
    BY <1>1, <1>2, <1>3, <1>4, <1>5, <1>6, <1>9
<1>10. CASE good /\ f.name = "SetCompression"
    BY <1>1, <1>2, <1>3, <1>4, <1>5, <1>6, <1>10
<1>11. CASE good /\ f.name # "Handshake" /\ ~(f.name = "LoginSuccess" \/ offline) /\ f.name # "SetCompression"
    BY <1>2, <1>3, <1>4, <1>5, <1>11
<1>12. QED
    BY <1>7, <1>8, <1>9, <1>10, <1>11 DEF u

LEMMA TurnNext ==
    ASSUME NEW d, Len(Frames(d)) \in Nat
    PROVE  /\ Turns(d)[0].phase = d.phase /\ Turns(d)[0].threshold = d.threshold
           /\ \A k \in 0..Len(Frames(d)) : k < Len(Frames(d)) =>
                /\ Turns(d)[k + 1].phase = NextPhase(d, Turns(d)[k].phase, Frames(d)[k + 1])
                /\ Turns(d)[k + 1].threshold = NextThreshold(Turns(d)[k].threshold, Frames(d)[k + 1])
<1> DEFINE m == Len(Frames(d))
           turn == Turns(d)
           fr == Frames(d)
<1>1. turn[0] = Turn(d.phase, d.threshold) /\ \A i \in 1..m : turn[i] = Following(d, turn[i - 1], fr[i])
    BY TurnsFollow DEF Turn
<1>m. m \in Nat
    OBVIOUS
<1> HIDE DEF m, turn, fr
<1>2. ASSUME NEW k \in 0..m, k < m PROVE turn[k + 1] = Following(d, turn[k], fr[k + 1])
    <2> DEFINE i == k + 1
    <2>1. i \in 1..m /\ i - 1 = k
        BY <1>m, <1>2
    <2> HIDE DEF i
    <2>2. turn[i] = Following(d, turn[k], fr[i])
        BY <1>1, <2>1
    <2>3. QED
        BY <2>2 DEF i
<1> DEFINE T == {k \in Nat : k <= m => \E p, t : turn[k] = Turn(p, t)}
<1>3. 0 \in T
    BY <1>1
<1>4. ASSUME NEW k \in Nat, k \in T PROVE k + 1 \in T
    <2> SUFFICES ASSUME k + 1 <= m PROVE \E p, t : turn[k + 1] = Turn(p, t)
        OBVIOUS
    <2>1. k \in 0..m /\ k < m /\ k <= m
        BY <1>m
    <2>2. PICK p, t : turn[k] = Turn(p, t)
        BY <1>4, <2>1
    <2>3. turn[k + 1] = Following(d, Turn(p, t), fr[k + 1])
        BY <1>2, <2>1, <2>2
    <2>4. QED
        BY <2>3, FollowingIs
<1> HIDE DEF T
<1>5. Nat \subseteq T
    BY <1>3, <1>4, Induction
<1>6. ASSUME NEW k \in 0..m, k < m
      PROVE  /\ turn[k + 1].phase = NextPhase(d, turn[k].phase, fr[k + 1])
             /\ turn[k + 1].threshold = NextThreshold(turn[k].threshold, fr[k + 1])
    <2>1. k \in Nat /\ k <= m
        BY <1>m
    <2>2. PICK p, t : turn[k] = Turn(p, t)
        BY <1>5, <2>1 DEF T
    <2>3. turn[k].phase = p /\ turn[k].threshold = t
        BY <2>2, TurnIs
    <2> DEFINE g == fr[k + 1]
               np == NextPhase(d, p, g)
               nt == NextThreshold(t, g)
    <2>4. turn[k + 1] = Turn(np, nt)
        BY <1>2, <1>6, <2>2, FollowingIs
    <2> HIDE DEF np, nt
    <2>5. turn[k + 1].phase = np /\ turn[k + 1].threshold = nt
        BY <2>4, TurnIs
    <2>6. QED
        BY <2>3, <2>5 DEF np, nt
<1>7. turn[0].phase = d.phase /\ turn[0].threshold = d.threshold
    BY <1>1, TurnIs
<1>8. QED
    BY <1>6, <1>7 DEF m, turn, fr

LEMMA NothingInFront ==
    ASSUME NEW S, NEW a \in Seq(S), NEW b \in Seq(S), NEW c \in Seq(S)
    PROVE  a \o (b \o c) = c => a = <<>> /\ b = <<>>
<1> DEFINE bc == b \o c
<1>1. bc \in Seq(S) /\ Len(bc) = Len(b) + Len(c)
    BY ConcatProperties
<1> HIDE DEF bc
<1>2. Len(a \o bc) = Len(a) + Len(bc)
    BY <1>1, ConcatProperties
<1>3. Len(a) \in Nat /\ Len(b) \in Nat /\ Len(c) \in Nat
    BY LenProperties
<1>4. a \o bc = c => Len(a) = 0 /\ Len(b) = 0
    <2>1. a \o bc = c => Len(a \o bc) = Len(c)
        BY Zenon
    <2> DEFINE x == a \o bc
    <2> HIDE DEF x
    <2>2. Len(x) = Len(a) + Len(bc) /\ (x = c => Len(x) = Len(c))
        BY <1>2, <2>1 DEF x
    <2>3. x = c => Len(a) = 0 /\ Len(b) = 0
        BY <1>1, <1>3, <2>2
    <2>4. QED
        BY <2>3 DEF x
<1>5. (Len(a) = 0 => a = <<>>) /\ (Len(b) = 0 => b = <<>>)
    BY EmptySeq
<1>6. QED
    BY <1>4, <1>5, Zenon DEF bc

LEMMA BehindNow ==
    ASSUME NEW d, IsDialogue(d)
    PROVE  Behind(Frames(d), Len(d.now)) = d.later /\ Len(d.now) \in 0..Len(Frames(d))
<1> DEFINE F == FrameSet(d)
           a == d.now
           b == d.later
           fr == Frames(d)
           e == Behind(fr, Len(a))
<1>1. /\ a \in Seq(F) /\ b \in Seq(F) /\ fr \in Seq(F) /\ Len(a) \in Nat /\ Len(b) \in Nat
      /\ Joins(fr, a, b) /\ Len(fr) = Len(a) + Len(b)
    BY DialogueFrames
<1> HIDE DEF F, a, b, fr
<1>2. Len(a) \in 0..Len(fr)
    BY <1>1
<1>3. e \in Seq(F) /\ Len(e) = Len(fr) - Len(a) /\ \A i \in 1..(Len(fr) - Len(a)) : e[i] = fr[Len(a) + i]
    BY <1>1, <1>2, BehindIs
<1> HIDE DEF e
<1>4. Len(e) = Len(b)
    BY <1>1, <1>3
<1>5. ASSUME NEW i \in 1..Len(e) PROVE e[i] = b[i]
    <2>1. /\ i \in 1..(Len(fr) - Len(a)) /\ Len(a) + i \in 1..Len(a) + Len(b)
          /\ ~(Len(a) + i <= Len(a)) /\ (Len(a) + i) - Len(a) = i
        BY <1>1, <1>4
    <2>2. fr[Len(a) + i] = b[(Len(a) + i) - Len(a)]
        BY <1>1, <2>1 DEF Joins
    <2>3. QED
        BY <1>3, <2>1, <2>2
<1>6. e = b
    BY <1>1, <1>3, <1>4, <1>5, SeqEqual
<1>7. QED
    BY <1>2, <1>6 DEF e, fr, a, b

-----------------------------------------------------------------------------
(***************************************************************************)
(* The inductive invariant: the reader is in the state of some turn of its *)
(* dialogue, and what is in the buffer, under way and held back spells the *)
(* frames from that turn on.                                               *)
(***************************************************************************)
Typed(d) ==
    /\ reader = d.reader /\ online_mode = d.online /\ sent = Frames(d)
    /\ phase \in Phases[d.reader] /\ threshold \in Int
    /\ buffer \in Seq(CellSet(d)) /\ wire \in Seq(CellSet(d)) /\ held \in Seq(CellSet(d))
    /\ Len(buffer \o (wire \o held)) <= Len(CellsOf(Frames(d)))
    /\ Sound(outcome, CellSet(d))
    /\ pc \in {"decode", "match", "read", "skipped", "closed"}

At(d, k) ==
    /\ phase = Turns(d)[k].phase /\ threshold = Turns(d)[k].threshold
    /\ buffer \o (wire \o held) = CellsOf(Behind(Frames(d), k))
    /\ phase # "play" => held = CellsOf(d.later)
    /\ eof => held = <<>>
    /\ pc = "match" => outcome = DecodeResult
    /\ pc = "read" => DecodeResult = Short

Follows(d) == Typed(d) /\ (pc # "closed" => \E k \in 0..Len(Frames(d)) : At(d, k))

IInv == \E n \in DOMAIN Dialogues : Follows(Dialogues[n])

\* Where cells go into, and come out of, three sequences in a row.
LEMMA ThreeInARow ==
    ASSUME NEW S, NEW a \in Seq(S), NEW b \in Seq(S), NEW c \in Seq(S)
    PROVE  a \o (b \o c) \in Seq(S) /\ Len(a \o (b \o c)) = Len(a) + Len(b) + Len(c)
<1> DEFINE bc == b \o c
<1>1. bc \in Seq(S) /\ Len(bc) = Len(b) + Len(c)
    BY ConcatProperties
<1> HIDE DEF bc
<1>2. a \o bc \in Seq(S) /\ Len(a \o bc) = Len(a) + Len(bc)
    BY <1>1, ConcatProperties
<1>3. Len(a) \in Nat /\ Len(b) \in Nat /\ Len(c) \in Nat
    BY LenProperties
<1> DEFINE abc == a \o bc
<1>4. abc \in Seq(S) /\ Len(abc) = Len(a) + Len(bc)
    BY <1>2
<1> HIDE DEF abc
<1>5. Len(abc) = Len(a) + Len(b) + Len(c)
    BY <1>1, <1>3, <1>4
<1>6. QED
    BY <1>4, <1>5 DEF abc, bc

LEMMA CellsBound ==
    ASSUME NEW d, IsDialogue(d), NEW k \in 0..Len(Frames(d))
    PROVE  /\ Len(CellsOf(Behind(Frames(d), k))) <= Len(CellsOf(Frames(d)))
           /\ LastFrames(Frames(d), Len(CellsOf(Behind(Frames(d), k)))) = Behind(Frames(d), k)
<1> DEFINE a == Frames(d)
           F == FrameSet(d)
           S == CellSet(d)
<1>1. a \in Seq(F) /\ AreFrames(F, S) /\ Len(a) \in Nat
    BY DialogueFrames, LenProperties
<1>a. k \in 0..Len(a)
    OBVIOUS
<1> HIDE DEF a, F, S
<1>2. LastFrames(a, Len(CellsOf(Behind(a, k)))) = Behind(a, k)
    BY <1>1, <1>a, FramesLeft
<1>3. 0 \in 0..Len(a) /\ Behind(a, 0) = a
    BY <1>1, BehindAll
<1>4. /\ Len(CellsOf(Behind(a, 0))) \in Nat
      /\ 0 < k => Len(CellsOf(Behind(a, k))) < Len(CellsOf(Behind(a, 0)))
    BY <1>1, <1>3, <1>a, CellsLeft
<1>5. Len(CellsOf(Behind(a, k))) \in Nat
    BY <1>1, <1>a, CellsLeft
<1>6. Len(CellsOf(Behind(a, k))) <= Len(CellsOf(a))
    <2> DEFINE x == Len(CellsOf(Behind(a, k)))
               y == Len(CellsOf(Behind(a, 0)))
    <2>1. k = 0 => x = y
        OBVIOUS
    <2>2. y = Len(CellsOf(a))
        BY <1>3
    <2>3. x \in Nat /\ y \in Nat /\ (0 < k => x < y)
        BY <1>4, <1>5
    <2>4. k = 0 \/ 0 < k
        BY <1>a
    <2> HIDE DEF x, y
    <2>5. x <= y
        BY <2>1, <2>3, <2>4
    <2>6. QED
        BY <2>2, <2>5 DEF x
<1>7. QED
    BY <1>2, <1>6 DEF a

\* What the cells that are left say of where the reader is.
LEMMA LeftIs ==
    ASSUME NEW d, IsDialogue(d), NEW k \in 0..Len(Frames(d)),
           NEW a \in Seq(CellSet(d)), NEW b \in Seq(CellSet(d)), NEW c \in Seq(CellSet(d))
    PROVE  a \o (b \o c) = CellsOf(Behind(Frames(d), k)) =>
             /\ Len(a \o (b \o c)) <= Len(CellsOf(Frames(d)))
             /\ LastFrames(Frames(d), Len(a) + Len(b) + Len(c)) = Behind(Frames(d), k)
<1> DEFINE abc == a \o (b \o c)
           n == Len(a) + Len(b) + Len(c)
           all == CellsOf(Behind(Frames(d), k))
<1>1. Len(abc) = n
    BY ThreeInARow
<1>2. Len(all) <= Len(CellsOf(Frames(d))) /\ LastFrames(Frames(d), Len(all)) = Behind(Frames(d), k)
    BY CellsBound
<1> HIDE DEF abc, n, all
<1>3. abc = all => Len(abc) <= Len(CellsOf(Frames(d))) /\ LastFrames(Frames(d), n) = Behind(Frames(d), k)
    <2>1. abc = all => Len(all) = n
        BY <1>1, Zenon
    <2>2. QED
        BY <1>1, <1>2, <2>1, Zenon
<1>4. QED
    BY <1>3, Zenon DEF abc, n, all

\* The invariant gives the type of every variable.
LEMMA FollowsType ==
    ASSUME NEW d, IsDialogue(d), Follows(d)
    PROVE  TypeOK
<1> DEFINE S == CellSet(d)
           n == Len(CellsOf(sent))
           st == outcome.st
<1>1. Typed(d)
    BY DEF Follows
<1>2. d.reader \in {"server", "client"}
    BY DEF IsDialogue
<1>3. reader \in {"server", "client"} /\ threshold \in Int
      /\ pc \in {"decode", "match", "read", "skipped", "closed"}
    BY <1>1, <1>2 DEF Typed
<1>4. phase \in {"handshaking", "status", "login", "play", "answers"}
    BY <1>1, <1>2 DEF Typed, Phases
<1>5. \A i \in DOMAIN sent : sent[i].cells # <<>>
    <2> DEFINE fr == Frames(d)
               F == FrameSet(d)
    <2>1. fr \in Seq(F) /\ AreFrames(F, S)
        BY DialogueFrames
    <2> HIDE DEF fr, F, S
    <2>2. \A i \in DOMAIN fr : fr[i] \in F
        BY <2>1, LenProperties, ElementOfSeq
    <2>3. \A i \in DOMAIN fr : fr[i].cells # <<>>
        BY <2>1, <2>2 DEF AreFrames
    <2>4. sent = fr
        BY <1>1 DEF Typed, fr
    <2>5. QED
        BY <2>3, <2>4
<1>6. Len(buffer) + Len(wire) + Len(held) <= n
    <2>1. buffer \in Seq(S) /\ wire \in Seq(S) /\ held \in Seq(S)
          /\ Len(buffer \o (wire \o held)) <= n
        BY <1>1 DEF Typed
    <2> HIDE DEF S, n
    <2>2. Len(buffer \o (wire \o held)) = Len(buffer) + Len(wire) + Len(held)
        BY <2>1, ThreeInARow
    <2>3. QED
        BY <2>1, <2>2
<1>7. st \in {"got", "skipped", "short", "bad", "wrong"}
    <2>1. Sound(outcome, S)
        BY <1>1 DEF Typed
    <2>2. QED
        BY <2>1, GotIs DEF Sound
<1>8. QED
    BY <1>3, <1>4, <1>5, <1>6, <1>7 DEF TypeOK

-----------------------------------------------------------------------------
(* The first state *)

LEMMA DialogueCells ==
    ASSUME NEW d, IsDialogue(d)
    PROVE  CellsOf(Frames(d)) = CellsOf(d.now) \o CellsOf(d.later)
<1> DEFINE S == CellSet(d)
           F == FrameSet(d)
           a == d.now
           b == d.later
<1>1. a \in Seq(F) /\ b \in Seq(F) /\ AreFrames(F, S)
    BY DialogueFrames
<1>2. Frames(d) = a \o b
    BY DEF Frames
<1> HIDE DEF S, F, a, b
<1>3. \A x, y \in Seq(F) : x \o y \in Seq(F) /\ CellsOf(x \o y) = CellsOf(x) \o CellsOf(y)
    BY <1>1, CellsOfBoth
<1>4. CellsOf(a \o b) = CellsOf(a) \o CellsOf(b)
    BY <1>1, <1>3, Zenon
<1>5. QED
    BY <1>2, <1>4 DEF a, b

LEMMA InitFollows ==
    ASSUME NEW d, IsDialogue(d),
           reader = d.reader, online_mode = d.online, phase = d.phase, threshold = d.threshold,
           sent = d.now \o d.later, wire = CellsOf(d.now), held = CellsOf(d.later),
           buffer = <<>>, outcome = Short, eof = FALSE, pc = "decode"
    PROVE  Follows(d)
<1> DEFINE S == CellSet(d)
           F == FrameSet(d)
           a == d.now
           b == d.later
           fr == Frames(d)
           m == Len(fr)
<1>1. a \in Seq(F) /\ b \in Seq(F) /\ fr \in Seq(F) /\ AreFrames(F, S) /\ m \in Nat
    BY DialogueFrames, LenProperties
<1>2. sent = fr /\ fr = a \o b
    BY DEF Frames
<1>3. wire = CellsOf(a) /\ held = CellsOf(b)
    OBVIOUS
<1>4. phase = Turns(d)[0].phase /\ threshold = Turns(d)[0].threshold
    BY <1>1, TurnNext
<1>5. phase \in Phases[d.reader] /\ threshold \in Int
    <2>1. 0 \in 0..m
        BY <1>1
    <2>2. Turns(d)[0].phase \in Phases[d.reader] /\ Turns(d)[0].threshold \in Int
        BY <2>1, DialogueSays
    <2>3. QED
        BY <1>4, <2>2
<1> HIDE DEF S, F, a, b
<1>6. wire \in Seq(S) /\ held \in Seq(S)
    BY <1>1, <1>3, CutIs
<1> HIDE DEF fr, m
<1>7. CellsOf(fr) = wire \o held
    <2>1. CellsOf(fr) = CellsOf(a) \o CellsOf(b)
        BY DialogueCells DEF fr, a, b
    <2>2. QED
        BY <1>3, <2>1, Zenon
<1> DEFINE wh == wire \o held
<1>8. wh \in Seq(S)
    BY <1>6, ConcatProperties
<1>9. Behind(fr, 0) = fr
    BY <1>1, BehindAll
<1>10. <<>> \in Seq(S)
    BY EmptySeq
<1>11. buffer \o wh = CellsOf(fr)
    <2> HIDE DEF wh
    <2>1. <<>> \o wh = wh
        BY <1>8, Nothing
    <2>2. wh = CellsOf(fr)
        BY <1>7 DEF wh
    <2>3. QED
        BY <2>1, <2>2, Zenon
<1>12. Len(buffer \o wh) <= Len(CellsOf(fr))
    <2>1. CellsOf(fr) \in Seq(S)
        BY <1>1, CutIs
    <2>2. Len(CellsOf(fr)) \in Nat
        BY <2>1, LenProperties
    <2> DEFINE x == CellsOf(fr)
    <2>3. Len(x) <= Len(x)
        BY <2>2
    <2> HIDE DEF x, wh
    <2>4. QED
        BY <1>11, <2>3, Zenon DEF x
<1>13. Sound(outcome, S)
    BY DEF Sound
<1>14. Typed(d)
    BY <1>2, <1>5, <1>6, <1>10, <1>12, <1>13 DEF Typed, S, fr
<1>15. At(d, 0)
    <2>1. buffer \o wh = CellsOf(Behind(fr, 0))
        BY <1>9, <1>11, Zenon
    <2>2. QED
        BY <1>3, <1>4, <2>1 DEF At, fr, b
<1>16. 0 \in 0..Len(Frames(d))
    BY <1>1 DEF m, fr
<1>17. QED
    BY <1>14, <1>15, <1>16 DEF Follows

-----------------------------------------------------------------------------
(* Where a step leaves the reader *)

\* The step leaves the reader at turn j.
Arriving(d, j) ==
    /\ UNCHANGED config
    /\ phase' = Turns(d)[j].phase /\ threshold' = Turns(d)[j].threshold
    /\ buffer' \in Seq(CellSet(d)) /\ wire' \in Seq(CellSet(d)) /\ held' \in Seq(CellSet(d))
    /\ buffer' \o (wire' \o held') = CellsOf(Behind(Frames(d), j))
    /\ phase' # "play" => held' = CellsOf(d.later)
    /\ eof' => held' = <<>>
    /\ Sound(outcome', CellSet(d))
    /\ pc' \in {"decode", "match", "read", "skipped", "closed"}
    /\ pc' = "match" => outcome' = DecodeResult'
    /\ pc' = "read" => DecodeResult' = Short

LEMMA Arrives ==
    ASSUME NEW d, IsDialogue(d), Typed(d), NEW j \in 0..Len(Frames(d)), Arriving(d, j)
    PROVE  Follows(d)' /\ (pc' # "closed" => LeftFrames' = Behind(Frames(d), j))
<1> DEFINE S == CellSet(d)
           all == CellsOf(Frames(d))
           abc == buffer' \o (wire' \o held')
           n == Len(buffer') + Len(wire') + Len(held')
           b == Behind(Frames(d), j)
<1>1. reader' = d.reader /\ online_mode' = d.online /\ sent' = Frames(d)
    BY DEF Arriving, Typed, config
<1>2. buffer' \in Seq(S) /\ wire' \in Seq(S) /\ held' \in Seq(S)
    BY DEF Arriving
<1>3. abc = CellsOf(b)
    BY DEF Arriving
<1>4. abc = CellsOf(b) => Len(abc) <= Len(all) /\ LastFrames(Frames(d), n) = b
    <2>1. \A x, y, z \in Seq(S) : x \o (y \o z) = CellsOf(b) =>
             /\ Len(x \o (y \o z)) <= Len(all)
             /\ LastFrames(Frames(d), Len(x) + Len(y) + Len(z)) = b
        BY LeftIs
    <2>2. QED
        BY <1>2, <2>1, Zenon
<1>5. Len(abc) <= Len(all) /\ LastFrames(Frames(d), n) = b
    BY <1>3, <1>4, Zenon
<1>6. phase' \in Phases[d.reader] /\ threshold' \in Int
    <2>1. Turns(d)[j].phase \in Phases[d.reader] /\ Turns(d)[j].threshold \in Int
        BY DialogueSays
    <2>2. QED
        BY <2>1 DEF Arriving
<1>7. Sound(outcome', S) /\ pc' \in {"decode", "match", "read", "skipped", "closed"}
    BY DEF Arriving
<1>8. Typed(d)'
    BY <1>1, <1>2, <1>5, <1>6, <1>7 DEF Typed
<1>9. At(d, j)'
    BY DEF Arriving, At
<1>10. LeftFrames' = IF pc' = "closed" THEN <<>> ELSE LastFrames(sent', n)
    BY DEF LeftFrames
<1> HIDE DEF b, n
<1>11. pc' # "closed" => LeftFrames' = b
    BY <1>1, <1>5, <1>10
<1>12. QED
    BY <1>8, <1>9, <1>11 DEF Follows, b

LEMMA AtFront ==
    ASSUME NEW d, IsDialogue(d), Typed(d), NEW k \in 0..Len(Frames(d)), At(d, k)
    PROVE  /\ wire \o held \in Seq(CellSet(d))
           /\ Sound(DecodeResult, CellSet(d))
           /\ Reads(DecodeResult, wire \o held, CellSet(d), Behind(Frames(d), k))
           /\ pc # "closed" => LeftFrames = Behind(Frames(d), k)
<1> DEFINE S == CellSet(d)
           wh == wire \o held
           b == Behind(Frames(d), k)
           n == Len(buffer) + Len(wire) + Len(held)
<1>1. buffer \in Seq(S) /\ wire \in Seq(S) /\ held \in Seq(S) /\ sent = Frames(d) /\ reader = d.reader
    BY DEF Typed
<1>2. wh \in Seq(S)
    BY <1>1, ConcatProperties
<1>3. buffer \o wh = CellsOf(b)
    BY DEF At
<1>4. \A x, y, z \in Seq(S) : x \o (y \o z) = CellsOf(b) =>
         LastFrames(Frames(d), Len(x) + Len(y) + Len(z)) = b
    BY LeftIs
<1>5. LastFrames(Frames(d), n) = b
    BY <1>1, <1>3, <1>4, Zenon
<1>6. pc # "closed" => LeftFrames = b
    <2>1. LeftFrames = IF pc = "closed" THEN <<>> ELSE LastFrames(sent, n)
        BY DEF LeftFrames
    <2> HIDE DEF b, n
    <2>2. QED
        BY <1>1, <1>5, <2>1
<1>7. phase = Turns(d)[k].phase /\ threshold = Turns(d)[k].threshold
    BY DEF At
<1>8. DecodeResult = Decoded(d.reader, Turns(d)[k].phase, Turns(d)[k].threshold, buffer)
    BY <1>1, <1>7, Zenon DEF DecodeResult
<1>9. \A x, y \in Seq(S) : x \o y = CellsOf(b) =>
         LET r == Decoded(d.reader, Turns(d)[k].phase, Turns(d)[k].threshold, x)
         IN Sound(r, S) /\ Reads(r, y, S, b)
    BY FrontFrame, Zenon
<1> HIDE DEF wh, b, S
<1>10. Sound(DecodeResult, S) /\ Reads(DecodeResult, wh, S, b)
    BY <1>1, <1>2, <1>3, <1>8, <1>9, Zenon
<1>11. QED
    BY <1>2, <1>6, <1>10 DEF wh, b, S

LEMMA MatchFront ==
    ASSUME NEW d, IsDialogue(d), Typed(d), NEW k \in 0..Len(Frames(d)), At(d, k), pc = "match"
    PROVE  \/ /\ outcome = Short /\ DecodeResult = Short
              /\ wire \o held = <<>> =>
                   LeftFrames = <<>> \/ Head(LeftFrames).kind = "waits"
           \/ /\ k < Len(Frames(d)) /\ k + 1 \in 0..Len(Frames(d))
              /\ LeftFrames # <<>> /\ Head(LeftFrames) = Frames(d)[k + 1]
              /\ Tail(LeftFrames) = Behind(Frames(d), k + 1)
              /\ Tells(outcome, wire \o held, CellSet(d), Frames(d)[k + 1],
                       CellsOf(Behind(Frames(d), k + 1)))
<1> DEFINE S == CellSet(d)
           wh == wire \o held
           b == Behind(Frames(d), k)
           m == Len(Frames(d))
           fr == Frames(d)
           F == FrameSet(d)
<1>1. Reads(DecodeResult, wh, S, b) /\ LeftFrames = b
    BY AtFront
<1>2. outcome = DecodeResult
    BY DEF At
<1>3. fr \in Seq(F) /\ m \in Nat
    BY DialogueFrames, LenProperties
<1>4. k \in 0..m
    OBVIOUS
<1>5. ASSUME b # <<>>
      PROVE  /\ k < m /\ k + 1 \in 0..m
             /\ Head(b) = fr[k + 1] /\ Tail(b) = Behind(fr, k + 1)
    <2> HIDE DEF fr, F
    <2>1. k < Len(fr)
        <3>1. k = Len(fr) => b = <<>>
            BY <1>3, BehindAll DEF fr
        <3>2. QED
            BY <1>3, <1>4, <1>5, <3>1 DEF fr
    <2>2. k \in 0..Len(fr)
        BY <1>4 DEF fr
    <2>3. Head(Behind(fr, k)) = fr[k + 1] /\ Tail(Behind(fr, k)) = Behind(fr, k + 1) /\ k + 1 \in 0..Len(fr)
        BY <1>3, <2>1, <2>2, BehindNext
    <2>4. QED
        BY <2>1, <2>3 DEF fr
<1> HIDE DEF S, wh, b, m, fr
<1>6. CASE DecodeResult = Short /\ (wh = <<>> => b = <<>> \/ Head(b).kind = "waits")
    BY <1>1, <1>2, <1>6 DEF wh
<1>7. CASE b # <<>> /\ Tells(DecodeResult, wh, S, Head(b), CellsOf(Tail(b)))
    <2>1. Tells(outcome, wh, S, fr[k + 1], CellsOf(Behind(fr, k + 1)))
        BY <1>2, <1>5, <1>7, Zenon
    <2>2. QED
        BY <1>1, <1>5, <1>7, <2>1 DEF wh, S, fr, m
<1>8. QED
    BY <1>1, <1>6, <1>7 DEF Reads

-----------------------------------------------------------------------------
(* The packets *)

Simulates == [Channel!Next]_(Channel!vars)

\* The frame in front is taken out of the buffer.
Taking(d, f) ==
    /\ UNCHANGED <<config, wire, held, eof>>
    /\ buffer' = outcome.rest /\ outcome' = Short
    /\ phase' = NextPhase(d, phase, f) /\ threshold' = NextThreshold(threshold, f)

LEMMA TakenArrives ==
    ASSUME NEW d, IsDialogue(d), Typed(d), NEW k \in 0..Len(Frames(d)), At(d, k),
           pc = "match", outcome.st \in {"got", "skipped"}, Taking(d, Frames(d)[k + 1]),
           pc' \in {"decode", "skipped", "closed"}
    PROVE  /\ k < Len(Frames(d)) /\ k + 1 \in 0..Len(Frames(d))
           /\ Arriving(d, k + 1)
           /\ LeftFrames # <<>> /\ Head(LeftFrames) = Frames(d)[k + 1]
           /\ Tail(LeftFrames) = Behind(Frames(d), k + 1)
<1> DEFINE S == CellSet(d)
           fr == Frames(d)
           f == fr[k + 1]
           m == Len(fr)
           wh == wire \o held
           y == CellsOf(Behind(fr, k + 1))
           turn == Turns(d)
<1>0. m \in Nat
    BY DialogueFrames, LenProperties
<1>1. /\ k < m /\ k + 1 \in 0..m
      /\ LeftFrames # <<>> /\ Head(LeftFrames) = f /\ Tail(LeftFrames) = Behind(fr, k + 1)
      /\ Tells(outcome, wh, S, f, y)
    <2>1. outcome # Short
        BY GotIs
    <2>2. QED
        BY <2>1, MatchFront
<1>2. outcome.rest \in Seq(S) /\ outcome.rest \o wh = y
    <2>1. outcome.st \notin {"bad", "wrong"} /\ outcome # Short
        BY GotIs
    <2> DEFINE eq == outcome.rest \o wh = y
    <2>2. \/ outcome = Short \/ (outcome.rest \in Seq(S) /\ eq) \/ outcome.st \in {"bad", "wrong"}
        BY <1>1 DEF Tells
    <2> HIDE DEF eq
    <2>3. outcome.rest \in Seq(S) /\ eq
        BY <2>1, <2>2
    <2>4. QED
        BY <2>3 DEF eq
<1>3. phase = turn[k].phase /\ threshold = turn[k].threshold
    BY DEF At
<1>4. turn[k + 1].phase = NextPhase(d, turn[k].phase, f) /\ turn[k + 1].threshold = NextThreshold(turn[k].threshold, f)
    BY <1>0, <1>1, TurnNext
<1>5. turn[k].phase = "play" => turn[k + 1].phase = "play"
    BY <1>1, DialogueSays
<1> HIDE DEF turn, f
<1>6. phase' = turn[k + 1].phase /\ threshold' = turn[k + 1].threshold
    BY <1>3, <1>4, Zenon DEF Taking, f
<1>7. phase' # "play" => phase # "play"
    BY <1>3, <1>5, <1>6
<1>8. wire' = wire /\ held' = held /\ eof' = eof /\ UNCHANGED config /\ buffer' = outcome.rest /\ outcome' = Short
    BY DEF Taking
<1>9. wire \in Seq(S) /\ held \in Seq(S)
    BY DEF Typed
<1>10. phase # "play" => held = CellsOf(d.later)
    BY DEF At
<1>11. eof => held = <<>>
    BY DEF At
<1>12. wire' \o held' = wh
    BY <1>8
<1> DEFINE b == buffer' \o (wire' \o held')
<1>13. b = y
    <2> HIDE DEF wh, y
    <2>1. b = outcome.rest \o wh
        BY <1>8, <1>12, Zenon
    <2>2. QED
        BY <1>2, <2>1, Zenon
<1>14. Sound(outcome', S)
    BY <1>8 DEF Sound
<1> HIDE DEF S
<1>15. buffer' \in Seq(S) /\ wire' \in Seq(S) /\ held' \in Seq(S)
    BY <1>2, <1>8, <1>9
<1>16. (phase' # "play" => held' = CellsOf(d.later)) /\ (eof' => held' = <<>>)
    BY <1>7, <1>8, <1>10, <1>11
<1>17. pc' # "match" /\ pc' # "read" /\ pc' \in {"decode", "match", "read", "skipped", "closed"}
    OBVIOUS
<1> HIDE DEF b, y, fr, m
<1>18. Arriving(d, k + 1)
    <2>1. b = y => buffer' \o (wire' \o held') = CellsOf(Behind(Frames(d), k + 1))
        BY DEF b, y, fr
    <2>2. QED
        BY <1>6, <1>8, <1>13, <1>14, <1>15, <1>16, <1>17, <2>1 DEF Arriving, S, turn
<1>19. QED
    BY <1>1, <1>18 DEF fr, f, m

\* The packet in front: what is handed on is what was sent.
LEMMA GotFront ==
    ASSUME NEW d, IsDialogue(d), Typed(d), NEW k \in 0..Len(Frames(d)), At(d, k),
           pc = "match", outcome.st = "got"
    PROVE  /\ k < Len(Frames(d)) /\ outcome.value = Named(Frames(d)[k + 1])
           /\ outcome.value.name = Frames(d)[k + 1].name
           /\ outcome.value.packet = Frames(d)[k + 1].packet
           /\ Frames(d)[k + 1].kind = IF outcome.value.name \in LastNames THEN "last" ELSE "good"
<1> DEFINE f == Frames(d)[k + 1]
           y == CellsOf(Behind(Frames(d), k + 1))
           wh == wire \o held
           S == CellSet(d)
<1>1. outcome # Short /\ outcome.st \notin {"bad", "wrong", "skipped"}
    BY GotIs
<1>2. k < Len(Frames(d)) /\ Tells(outcome, wh, S, f, y)
    BY <1>1, MatchFront
<1> HIDE DEF f, y, wh, S
<1>3. outcome.value = Named(f) /\ f.kind = IF f.name \in LastNames THEN "last" ELSE "good"
    BY <1>1, <1>2 DEF Tells
<1>4. Named(f).name = f.name /\ Named(f).packet = f.packet
    BY DEF Named
<1>5. QED
    BY <1>2, <1>3, <1>4 DEF f

LEMMA Handled ==
    ASSUME NEW d, IsDialogue(d), Typed(d), NEW k \in 0..Len(Frames(d)), At(d, k),
           pc = "match", outcome.st = "got", Taking(d, Frames(d)[k + 1]),
           received' = Append(received, outcome.value),
           pc' = IF outcome.value.name \in LastNames THEN "closed" ELSE "decode"
    PROVE  Follows(d)' /\ Simulates
<1> DEFINE f == Frames(d)[k + 1]
           a == LeftFrames
           b == Behind(Frames(d), k + 1)
<1>1. pc' \in {"decode", "closed"}
    OBVIOUS
<1>2. /\ k + 1 \in 0..Len(Frames(d)) /\ Arriving(d, k + 1)
      /\ a # <<>> /\ Head(a) = f /\ Tail(a) = b
    BY <1>1, TakenArrives
<1>3. outcome.value = Named(f) /\ f.kind = IF outcome.value.name \in LastNames THEN "last" ELSE "good"
    BY GotFront
<1>4. Follows(d)' /\ (pc' # "closed" => a' = b)
    BY <1>2, Arrives
<1>5. pc' = "closed" => a' = <<>>
    BY DEF LeftFrames
<1> HIDE DEF f, a, b
<1>6. received' = Append(received, Named(Head(a)))
    BY <1>2, <1>3
<1>7. CASE outcome.value.name \in LastNames
    <2>1. pc' = "closed" /\ a' = <<>> /\ Head(a).kind = "last"
        BY <1>2, <1>3, <1>5, <1>7
    <2>2. Channel!DeliverLast
        BY <1>2, <1>6, <2>1 DEF Channel!DeliverLast, Channel!Coming, Channel!End, Channel!Seen, Named, a
    <2>3. QED
        BY <1>4, <2>2 DEF Simulates, Channel!Next
<1>8. CASE outcome.value.name \notin LastNames
    <2>1. pc' = "decode" /\ a' = Tail(a) /\ Head(a).kind = "good"
        BY <1>2, <1>3, <1>4, <1>8
    <2>2. Channel!Deliver
        BY <1>2, <1>6, <2>1 DEF Channel!Deliver, Channel!Coming, Channel!Seen, Named, a
    <2>3. QED
        BY <1>4, <2>2 DEF Simulates, Channel!Next
<1>9. QED
    BY <1>7, <1>8

Handles ==
    \/ HandleHandshake \/ HandleStatusRequest \/ HandlePing \/ HandleLoginStart
    \/ HandleSetCompression \/ HandleLoginSuccess \/ HandlePong \/ HandlePacket

\* What all of them have in common, but for the buffer and the state.
LEMMA HandlesTake ==
    ASSUME Handles
    PROVE  /\ pc = "match" /\ outcome.st = "got" /\ outcome' = Short
           /\ received' = Append(received, outcome.value)
           /\ UNCHANGED <<config, wire, held, eof>>
           /\ pc' = IF outcome.value.name \in LastNames THEN "closed" ELSE "decode"
<1> USE DEF TakeFrame, Stay
<1>1. CASE HandleHandshake
    BY <1>1 DEF HandleHandshake, LastNames
<1>2. CASE HandleStatusRequest
    BY <1>2 DEF HandleStatusRequest, LastNames
<1>3. CASE HandlePing
    BY <1>3 DEF HandlePing, LastNames
<1>4. CASE HandleLoginStart
    BY <1>4 DEF HandleLoginStart, LastNames
<1>5. CASE HandleSetCompression
    BY <1>5 DEF HandleSetCompression, LastNames
<1>6. CASE HandleLoginSuccess
    BY <1>6 DEF HandleLoginSuccess, LastNames
<1>7. CASE HandlePong
    BY <1>7 DEF HandlePong, LastNames
<1>8. CASE HandlePacket
    BY <1>8 DEF HandlePacket, LastNames, Others
<1>9. QED
    BY <1>1, <1>2, <1>3, <1>4, <1>5, <1>6, <1>7, <1>8 DEF Handles

\* The server that lets a client into Play drops no cell with the buffer: the
\* client has sent nothing behind its Login Start.
LEMMA LoginStartIsLast ==
    ASSUME NEW d, IsDialogue(d), Typed(d), NEW k \in 0..Len(Frames(d)), At(d, k),
           pc = "match", outcome.st = "got", outcome.value.name = "LoginStart", ~online_mode
    PROVE  outcome.rest = <<>>
<1> DEFINE S == CellSet(d)
           fr == Frames(d)
           f == fr[k + 1]
           b == Behind(fr, k + 1)
           y == CellsOf(b)
           wh == wire \o held
           z == CellsOf(d.later)
<1>1. k < Len(fr) /\ f.name = "LoginStart"
    BY GotFront
<1>2. ~d.online
    BY DEF Typed
<1>3. k + 1 = Len(d.now) /\ Turns(d)[k].phase = "login"
    BY <1>1, <1>2, DialogueSays
<1>4. phase = "login"
    BY <1>3 DEF At
<1>5. held = z
    BY <1>4 DEF At
<1>6. b = d.later
    BY <1>3, BehindNow
<1>7. y = held
    BY <1>5, <1>6
<1>8. outcome.rest \in Seq(S) /\ outcome.rest \o wh = y
    <2>1. outcome # Short /\ outcome.st \notin {"bad", "wrong", "skipped"}
        BY GotIs
    <2>2. Tells(outcome, wh, S, f, y)
        BY <2>1, MatchFront
    <2> HIDE DEF wh, S, y, f
    <2>3. QED
        BY <2>1, <2>2, Zenon DEF Tells
<1>9. wire \in Seq(S) /\ held \in Seq(S)
    BY DEF Typed
<1>10. \A p, q, r \in Seq(S) : p \o (q \o r) = r => p = <<>> /\ q = <<>>
    BY NothingInFront
<1> HIDE DEF S, y, z
<1>11. outcome.rest \o (wire \o held) = held
    BY <1>7, <1>8, Zenon
<1>12. QED
    BY <1>8, <1>9, <1>10, <1>11, Zenon

LEMMA PacketsFollow ==
    ASSUME NEW d, IsDialogue(d), Typed(d), NEW k \in 0..Len(Frames(d)), At(d, k), Handles
    PROVE  Follows(d)' /\ Simulates
<1> DEFINE f == Frames(d)[k + 1]
           name == outcome.value.name
           packet == outcome.value.packet
<1>1. /\ pc = "match" /\ outcome.st = "got" /\ outcome' = Short
      /\ received' = Append(received, outcome.value)
      /\ UNCHANGED <<config, wire, held, eof>>
      /\ pc' = IF name \in LastNames THEN "closed" ELSE "decode"
    BY HandlesTake
<1>2. f.name = name /\ f.packet = packet /\ f.kind = IF name \in LastNames THEN "last" ELSE "good"
    BY <1>1, GotFront
<1>3. online_mode = d.online
    BY DEF Typed
<1> DEFINE np == NextPhase(d, phase, f)
           nt == NextThreshold(threshold, f)
<1>4. buffer' = outcome.rest /\ phase' = np /\ threshold' = nt
    <2> HIDE DEF f
    <2> USE DEF TakeFrame, NextPhase, NextThreshold, LastNames
    <2>1. CASE HandleHandshake
        BY <1>2, <2>1 DEF HandleHandshake
    <2>2. CASE HandleStatusRequest
        BY <1>2, <2>2 DEF HandleStatusRequest
    <2>3. CASE HandlePing
        BY <1>2, <2>3 DEF HandlePing
    <2>4. CASE HandleLoginStart
        <3>1. name = "LoginStart" /\ threshold' = threshold
            BY <2>4 DEF HandleLoginStart
        <3>2. f.name = "LoginStart" /\ f.kind = "good" /\ nt = threshold
            BY <1>2, <3>1
        <3>3. CASE online_mode
            <4>1. buffer' = outcome.rest /\ phase' = phase
                BY <2>4, <3>3 DEF HandleLoginStart
            <4>2. np = phase
                BY <1>3, <3>2, <3>3
            <4>3. QED
                BY <3>1, <3>2, <4>1, <4>2
        <3>4. CASE ~online_mode
            <4>1. buffer' = <<>> /\ phase' = "play"
                BY <2>4, <3>4 DEF HandleLoginStart
            <4>2. outcome.rest = <<>>
                BY <1>1, <3>1, <3>4, LoginStartIsLast
            <4>3. np = "play"
                BY <1>3, <3>2, <3>4
            <4>4. QED
                BY <3>1, <3>2, <4>1, <4>2, <4>3
        <3>5. QED
            BY <3>3, <3>4
    <2>5. CASE HandleSetCompression
        BY <1>2, <2>5 DEF HandleSetCompression
    <2>6. CASE HandleLoginSuccess
        BY <1>2, <2>6 DEF HandleLoginSuccess
    <2>7. CASE HandlePong
        BY <1>2, <2>7 DEF HandlePong
    <2>8. CASE HandlePacket
        BY <1>2, <2>8 DEF HandlePacket, Others
    <2>9. QED
        BY <2>1, <2>2, <2>3, <2>4, <2>5, <2>6, <2>7, <2>8 DEF Handles
<1>5. Taking(d, f)
    BY <1>1, <1>4 DEF Taking
<1>6. QED
    BY <1>1, <1>5, Handled

-----------------------------------------------------------------------------
(* What is no packet *)

LEMMA OthersFollow ==
    ASSUME NEW d, IsDialogue(d), Typed(d), NEW k \in 0..Len(Frames(d)), At(d, k),
           SkippedUnknown \/ Refused \/ NeedsMore
    PROVE  Follows(d)' /\ Simulates
<1> DEFINE f == Frames(d)[k + 1]
           b == Behind(Frames(d), k + 1)
           a == LeftFrames
           S == CellSet(d)
           wh == wire \o held
           y == CellsOf(b)
<1>1. CASE SkippedUnknown
    <2>1. pc = "match" /\ outcome.st = "skipped" /\ pc' = "skipped" /\ received' = received
        BY <1>1 DEF SkippedUnknown
    <2>2. outcome # Short /\ outcome.st \notin {"bad", "wrong", "got"}
        BY <2>1, GotIs
    <2>3. k < Len(Frames(d)) /\ Tells(outcome, wh, S, f, y)
        BY <2>1, <2>2, MatchFront
    <2>4. f.kind = "unknown"
        <3> HIDE DEF f, y, wh, S
        <3>1. QED
            BY <2>2, <2>3 DEF Tells
    <2>5. Taking(d, f)
        <3> HIDE DEF f
        <3>1. NextPhase(d, phase, f) = phase /\ NextThreshold(threshold, f) = threshold
            BY <2>4 DEF NextPhase, NextThreshold
        <3>2. QED
            BY <1>1, <3>1 DEF SkippedUnknown, Stay, Taking
    <2>6. /\ k + 1 \in 0..Len(Frames(d)) /\ Arriving(d, k + 1)
          /\ a # <<>> /\ Head(a) = f /\ Tail(a) = b
        BY <2>1, <2>5, TakenArrives
    <2>7. Follows(d)' /\ a' = b
        BY <2>1, <2>6, Arrives
    <2> HIDE DEF f, a, b
    <2>8. Channel!PassOver
        BY <2>1, <2>4, <2>6, <2>7 DEF Channel!PassOver, Channel!Coming, a
    <2>9. QED
        BY <2>7, <2>8 DEF Simulates, Channel!Next
<1>2. CASE Refused
    <2>1. /\ pc = "match" /\ outcome.st \in {"bad", "wrong"} /\ pc' = "closed" /\ received' = received
          /\ outcome' = Short /\ UNCHANGED <<phase, threshold, held, buffer, config, wire, eof>>
        BY <1>2 DEF Refused, Stay
    <2>2. outcome # Short /\ outcome.st \notin {"skipped", "got"}
        BY <2>1, GotIs
    <2>3. a # <<>> /\ Head(a) = f /\ Tells(outcome, wh, S, f, y)
        BY <2>1, <2>2, MatchFront
    <2>4. f.kind = "bad"
        <3> HIDE DEF f, y, wh, S
        <3>1. QED
            BY <2>2, <2>3 DEF Tells
    <2>5. Sound(outcome', S)
        BY <2>1 DEF Sound
    <2>6. Follows(d)'
        <3>1. Typed(d)'
            BY <2>1, <2>5 DEF Typed, config
        <3>2. QED
            BY <2>1, <3>1 DEF Follows
    <2>7. a' = <<>>
        BY <2>1 DEF LeftFrames
    <2> HIDE DEF f, a
    <2>8. Channel!Refuse
        BY <2>1, <2>3, <2>4, <2>7 DEF Channel!Refuse, Channel!Coming, Channel!End, a
    <2>9. QED
        BY <2>6, <2>8 DEF Simulates, Channel!Next
<1>3. CASE NeedsMore
    <2>1. /\ pc = "match" /\ outcome.st = "short" /\ pc' = "read" /\ received' = received
          /\ UNCHANGED <<phase, threshold, held, buffer, outcome, config, wire, eof>>
        BY <1>3 DEF NeedsMore, Stay
    <2>2. outcome = DecodeResult
        BY <2>1 DEF At
    <2>3. outcome = Short
        <3>1. Sound(outcome, S)
            BY DEF Typed
        <3>2. QED
            BY <2>1, <3>1, GotIs DEF Sound
    <2>4. DecodeResult' = DecodeResult
        BY <2>1 DEF DecodeResult, config
    <2>5. Follows(d)'
        <3>1. Typed(d)'
            BY <2>1 DEF Typed, config
        <3>2. At(d, k)'
            BY <2>1, <2>2, <2>3, <2>4 DEF At
        <3>3. QED
            BY <3>1, <3>2 DEF Follows
    <2>6. a' = a
        BY <2>1 DEF LeftFrames, config
    <2>7. /\ (pc # "closed") = TRUE /\ (pc' # "closed") = TRUE
          /\ (pc = "skipped") = FALSE /\ (pc' = "skipped") = FALSE
        BY <2>1
    <2>8. UNCHANGED Channel!vars
        BY <2>1, <2>6, <2>7 DEF Channel!vars
    <2>9. QED
        BY <2>5, <2>8 DEF Simulates
<1>4. QED
    BY <1>1, <1>2, <1>3

-----------------------------------------------------------------------------
(* The steps that take no frame *)

\* The reader stays where it is: nothing is seen of it, or the frame that was
\* passed over is forgotten.
LEMMA Staying ==
    ASSUME NEW d, IsDialogue(d), Typed(d), NEW k \in 0..Len(Frames(d)), At(d, k),
           pc # "closed", Arriving(d, k), received' = received, pc' # "closed",
           pc' = pc \/ pc' # "skipped"
    PROVE  Follows(d)' /\ Simulates
<1> DEFINE a == LeftFrames
           b == Behind(Frames(d), k)
<1>1. a = b
    BY AtFront
<1>2. Follows(d)' /\ a' = b
    BY Arrives
<1> HIDE DEF b, a
<1>3. /\ (pc # "closed") = TRUE /\ (pc' # "closed") = TRUE
    OBVIOUS
<1>4. CASE pc = "skipped" /\ pc' # "skipped"
    <2>1. (pc = "skipped") = TRUE /\ (pc' = "skipped") = FALSE
        BY <1>4
    <2>2. Channel!GoOn
        BY <1>1, <1>2, <1>3, <2>1 DEF Channel!GoOn, a
    <2>3. QED
        BY <1>2, <2>2 DEF Simulates, Channel!Next
<1>5. CASE ~(pc = "skipped" /\ pc' # "skipped")
    <2>1. (pc = "skipped") = (pc' = "skipped")
        BY <1>5
    <2>2. UNCHANGED Channel!vars
        BY <1>1, <1>2, <1>3, <2>1 DEF Channel!vars, a
    <2>3. QED
        BY <1>2, <2>2 DEF Simulates
<1>6. QED
    BY <1>4, <1>5

LEMMA TryDecodeFollows ==
    ASSUME NEW d, IsDialogue(d), Typed(d), NEW k \in 0..Len(Frames(d)), At(d, k), TryDecode
    PROVE  Follows(d)' /\ Simulates
<1> DEFINE S == CellSet(d)
<1>1. /\ pc = "decode" /\ pc' = "match" /\ outcome' = DecodeResult /\ received' = received
      /\ UNCHANGED <<config, phase, threshold, held, buffer, wire, eof>>
    BY DEF TryDecode, Trying, Stay
<1>2. Sound(DecodeResult, S)
    BY AtFront
<1>3. DecodeResult' = DecodeResult
    BY <1>1 DEF DecodeResult, config
<1>4. Arriving(d, k)
    BY <1>1, <1>2, <1>3 DEF Arriving, Typed, At
<1>5. QED
    BY <1>1, <1>4, Staying

\* Two ways to cut one sequence, with the same behind it.
SameBehind(e, f, a, b, c) == e \o f = a \o b => e \o (f \o c) = a \o (b \o c)

LEMMA CutBeside ==
    ASSUME NEW S, NEW a \in Seq(S), NEW b \in Seq(S), NEW c \in Seq(S),
           NEW e \in Seq(S), NEW f \in Seq(S)
    PROVE  SameBehind(e, f, a, b, c)
<1>1. InOrder(e, f, c) /\ InOrder(a, b, c)
    BY InAnyOrder
<1> DEFINE ef == e \o f
           ab == a \o b
           efc == e \o (f \o c)
           abc == a \o (b \o c)
<1>2. ef \o c = efc /\ ab \o c = abc
    BY <1>1, Zenon DEF InOrder
<1> HIDE DEF ef, ab, efc, abc
<1>3. ef = ab => efc = abc
    BY <1>2, Zenon
<1>4. QED
    BY <1>3, Zenon DEF SameBehind, ef, ab, efc, abc

\* What is read goes from the stream into the buffer, in front of what is held.
MovedInARow(S, a, b, c, n) ==
    \A e, f : PassedOn(e, f, a, b, n) =>
      e \in Seq(S) /\ f \in Seq(S) /\ e \o (f \o c) = a \o (b \o c)

LEMMA ReadInARow ==
    ASSUME NEW S, NEW a \in Seq(S), NEW b \in Seq(S), NEW c \in Seq(S), NEW n \in 1..Len(b)
    PROVE  MovedInARow(S, a, b, c, n)
<1> SUFFICES ASSUME NEW e, NEW f, PassedOn(e, f, a, b, n)
             PROVE  e \in Seq(S) /\ f \in Seq(S) /\ e \o (f \o c) = a \o (b \o c)
    BY DEF MovedInARow
<1>1. e \in Seq(S) /\ f \in Seq(S) /\ e \o f = a \o b
    BY MovedToFirst
<1>2. SameBehind(e, f, a, b, c)
    BY <1>1, CutBeside
<1>3. QED
    BY <1>1, <1>2, Zenon DEF SameBehind

LEMMA ReadSomeFollows ==
    ASSUME NEW d, IsDialogue(d), Typed(d), NEW k \in 0..Len(Frames(d)), At(d, k), ReadSome
    PROVE  Follows(d)' /\ Simulates
<1> DEFINE S == CellSet(d)
           y == CellsOf(Behind(Frames(d), k))
           z == CellsOf(d.later)
<1>1. /\ pc \in {"read", "skipped"} /\ wire # <<>> /\ pc' = "decode" /\ received' = received
      /\ UNCHANGED <<config, phase, threshold, held, eof, outcome>>
    BY DEF ReadSome, AtRead
<1>2. buffer \in Seq(S) /\ wire \in Seq(S) /\ held \in Seq(S) /\ Sound(outcome, S)
    BY DEF Typed
<1>3. PICK n \in 1..Len(wire) : PassedOn(buffer', wire', buffer, wire, n)
    <2>1. PICK i \in {j \in ReadSizes : j < Len(wire)} \cup {Len(wire)} : PassedOn(buffer', wire', buffer, wire, i)
        BY DEF ReadSome, PassedOn
    <2>2. Len(wire) \in Nat \ {0}
        BY <1>1, <1>2, EmptySeq
    <2>3. i \in Nat \ {0} /\ i <= Len(wire)
        BY <2>2, ReadAssumption
    <2>4. i \in 1..Len(wire)
        BY <2>2, <2>3
    <2>5. QED
        BY <2>1, <2>4, Zenon
<1>e. buffer \o (wire \o held) = y
    BY DEF At
<1> HIDE DEF S, y
<1>6. buffer' \in Seq(S) /\ wire' \in Seq(S) /\ buffer' \o (wire' \o held) = buffer \o (wire \o held)
    <2>1. MovedInARow(S, buffer, wire, held, n)
        BY <1>2, <1>3, ReadInARow
    <2>2. QED
        BY <1>3, <2>1, Zenon DEF MovedInARow
<1>8. buffer' \o (wire' \o held) = y
    BY <1>6, <1>e
<1>9. held' = held
    BY <1>1
<1> DEFINE b == buffer' \o (wire' \o held')
<1>10. b = y
    BY <1>8, <1>9, Zenon
<1>11. /\ phase = Turns(d)[k].phase /\ threshold = Turns(d)[k].threshold
       /\ (phase # "play" => held = z) /\ (eof => held = <<>>)
    BY DEF At
<1> HIDE DEF b, z
<1>12. Arriving(d, k)
    <2>1. buffer' \o (wire' \o held') = CellsOf(Behind(Frames(d), k))
        BY <1>10, Zenon DEF b, y
    <2>2. QED
        BY <1>1, <1>2, <1>6, <1>11, <2>1 DEF Arriving, S, z
<1>13. QED
    BY <1>1, <1>12, Staying

LEMMA ReadTimeoutFollows ==
    ASSUME NEW d, IsDialogue(d), Typed(d), NEW k \in 0..Len(Frames(d)), At(d, k), ReadTimeout
    PROVE  Follows(d)' /\ Simulates
<1>1. /\ pc \in {"read", "skipped"} /\ pc' = "decode" /\ received' = received
      /\ UNCHANGED <<config, phase, threshold, held, buffer, wire, eof, outcome>>
    BY DEF ReadTimeout, AtRead, Stay
<1>2. Arriving(d, k)
    BY <1>1 DEF Arriving, Typed, At
<1>3. QED
    BY <1>1, <1>2, Staying

LEMMA ReadEndFollows ==
    ASSUME NEW d, IsDialogue(d), Typed(d), NEW k \in 0..Len(Frames(d)), At(d, k), ReadEnd
    PROVE  Follows(d)' /\ Simulates
<1> DEFINE a == LeftFrames
           S == CellSet(d)
           wh == wire \o held
           b == Behind(Frames(d), k)
<1>1. /\ pc \in {"read", "skipped"} /\ pc' = "closed" /\ received' = received /\ wire = <<>> /\ eof
      /\ UNCHANGED <<config, phase, threshold, held, buffer, wire, eof, outcome>>
    BY DEF ReadEnd, AtRead, Stay
<1>2. Follows(d)'
    <2>1. Typed(d)'
        BY <1>1 DEF Typed, config
    <2>2. QED
        BY <1>1, <2>1 DEF Follows
<1>3. a' = <<>>
    BY <1>1 DEF LeftFrames
<1>4. held = <<>>
    BY <1>1 DEF At
<1>5. wh = <<>>
    <2>1. <<>> \o <<>> = <<>>
        <3>1. \A s \in Seq({}) : <<>> \o s = s
            BY Nothing
        <3>2. <<>> \in Seq({})
            BY EmptySeq
        <3>3. QED
            BY <3>1, <3>2, Zenon
    <2>2. QED
        BY <1>1, <1>4, <2>1, Zenon
<1>6. Reads(DecodeResult, wh, S, b) /\ a = b
    BY <1>1, AtFront
<1> HIDE DEF wh, b, S
<1>7. pc = "read" => a = <<>> \/ Head(a).kind = "waits"
    <2>1. pc = "read" => DecodeResult = Short
        BY DEF At
    <2>2. DecodeResult = Short => a = <<>> \/ Head(a).kind = "waits"
        BY <1>5, <1>6, GotIs DEF Reads, Tells
    <2>3. QED
        BY <2>1, <2>2
<1> HIDE DEF a
<1>8. /\ (pc # "closed") = TRUE /\ (pc' # "closed") = FALSE
      /\ (pc' = "skipped") = FALSE
      /\ (pc = "skipped") \/ a = <<>> \/ (a # <<>> /\ Head(a).kind = "waits")
    BY <1>1, <1>7
<1>9. Channel!PeerLeft
    BY <1>1, <1>3, <1>8 DEF Channel!PeerLeft, Channel!Waiting, Channel!End, a
<1>10. QED
    BY <1>2, <1>9 DEF Simulates, Channel!Next

\* What the peer sends on is under way.
LEMMA SentOn ==
    ASSUME NEW d, Typed(d), PeerInPlay
    PROVE  /\ wire' \in Seq(CellSet(d)) /\ held' \in Seq(CellSet(d))
           /\ wire' \o held' = wire \o held
<1> DEFINE S == CellSet(d)
           wh == wire \o held
<1>1. wire \in Seq(S) /\ held \in Seq(S)
    BY DEF Typed
<1>2. wh \in Seq(S)
    BY <1>1, ConcatProperties
<1>3. wire' = wh /\ held' = <<>>
    BY DEF PeerInPlay
<1> HIDE DEF S, wh
<1>4. wh \o <<>> = wh /\ <<>> \in Seq(S)
    BY <1>2, Nothing
<1>5. wire' \o held' = wh
    BY <1>3, <1>4, Zenon
<1>6. QED
    BY <1>2, <1>3, <1>4, <1>5 DEF S, wh

LEMMA PeerInPlayFollows ==
    ASSUME NEW d, IsDialogue(d), Typed(d), NEW k \in 0..Len(Frames(d)), At(d, k), PeerInPlay, pc # "closed"
    PROVE  Follows(d)' /\ Simulates
<1> DEFINE S == CellSet(d)
           y == CellsOf(Behind(Frames(d), k))
           wh == wire \o held
<1>1. /\ phase = "play" /\ held' = <<>> /\ received' = received
      /\ UNCHANGED <<config, phase, threshold, eof, buffer, outcome, pc>>
    BY DEF PeerInPlay
<1>2. wire' \in Seq(S) /\ held' \in Seq(S) /\ wire' \o held' = wh
    BY SentOn
<1>3. buffer \o wh = y
    BY DEF At
<1>4. buffer' \o (wire' \o held') = y
    <2> HIDE DEF y, wh
    <2>1. QED
        BY <1>1, <1>2, <1>3, Zenon
<1>5. DecodeResult' = DecodeResult
    BY <1>1 DEF DecodeResult, config
<1>6. /\ phase = Turns(d)[k].phase /\ threshold = Turns(d)[k].threshold
      /\ (pc = "match" => outcome = DecodeResult) /\ (pc = "read" => DecodeResult = Short)
    BY DEF At
<1>7. buffer \in Seq(S) /\ Sound(outcome, S) /\ pc \in {"decode", "match", "read", "skipped", "closed"}
    BY DEF Typed
<1>8. Arriving(d, k)
    BY <1>1, <1>2, <1>4, <1>5, <1>6, <1>7 DEF Arriving
<1>9. QED
    BY <1>1, <1>8, Staying

LEMMA PeerClosesFollows ==
    ASSUME NEW d, IsDialogue(d), Typed(d), NEW k \in 0..Len(Frames(d)), At(d, k), PeerCloses
    PROVE  Follows(d)' /\ Simulates
<1>1. /\ pc # "closed" /\ held = <<>> /\ received' = received
      /\ UNCHANGED <<config, phase, threshold, wire, held, buffer, outcome, pc>>
    BY DEF PeerCloses
<1>2. DecodeResult' = DecodeResult
    BY <1>1 DEF DecodeResult, config
<1>3. Arriving(d, k)
    BY <1>1, <1>2 DEF Arriving, Typed, At
<1>4. QED
    BY <1>1, <1>3, Staying

-----------------------------------------------------------------------------
(* All of them *)

LEMMA ClosedFollows ==
    ASSUME NEW d, IsDialogue(d), Typed(d), pc = "closed", Next
    PROVE  Follows(d)' /\ Simulates
<1> DEFINE S == CellSet(d)
           n == Len(CellsOf(Frames(d)))
           wh == wire \o held
           whx == wire' \o held'
<1>1. PeerInPlay
    <2>1. ~TryDecode
        BY DEF TryDecode, Trying
    <2>2. ~Match
        <3>1. ~Handles
            BY HandlesTake
        <3>2. ~SkippedUnknown /\ ~Refused /\ ~NeedsMore
            BY DEF SkippedUnknown, Refused, NeedsMore
        <3>3. QED
            BY <3>1, <3>2 DEF Match, Handles
    <2>3. ~Reading
        BY DEF Reading, ReadSome, ReadTimeout, ReadEnd, AtRead
    <2>4. ~PeerCloses
        BY DEF PeerCloses
    <2>5. QED
        BY <2>1, <2>2, <2>3, <2>4 DEF Next
<1>2. /\ received' = received
      /\ UNCHANGED <<config, phase, threshold, eof, buffer, outcome, pc>>
    BY <1>1 DEF PeerInPlay
<1>3. wire' \in Seq(S) /\ held' \in Seq(S) /\ whx = wh
    BY <1>1, SentOn
<1>4. Len(buffer \o wh) <= n
    BY DEF Typed
<1> HIDE DEF wh, whx, n
<1>5. Len(buffer' \o whx) <= n
    <2>1. buffer' \o whx = buffer \o wh
        BY <1>2, <1>3, Zenon
    <2>2. QED
        BY <1>4, <2>1, Zenon
<1>6. Typed(d)'
    BY <1>2, <1>3, <1>5 DEF Typed, config, whx, n
<1>7. Follows(d)'
    BY <1>2, <1>6 DEF Follows
<1> DEFINE a == LeftFrames
<1>8. a' = a
    BY <1>2 DEF LeftFrames
<1> HIDE DEF a
<1>9. (pc # "closed") = (pc' # "closed") /\ (pc = "skipped") = (pc' = "skipped")
    BY <1>2
<1>10. UNCHANGED Channel!vars
    BY <1>2, <1>8, <1>9 DEF Channel!vars, a
<1>11. QED
    BY <1>7, <1>10 DEF Simulates

LEMMA SameFollows ==
    ASSUME NEW d, Follows(d), UNCHANGED vars
    PROVE  Follows(d)' /\ Simulates
<1>1. UNCHANGED <<reader, online_mode, sent, phase, threshold, wire, held, eof, buffer, outcome, received, pc>>
    BY DEF vars, config
<1>2. DecodeResult' = DecodeResult
    BY <1>1 DEF DecodeResult
<1>3. Typed(d)' <=> Typed(d)
    BY <1>1 DEF Typed
<1>4. \A k : At(d, k)' <=> At(d, k)
    BY <1>1, <1>2 DEF At
<1>5. Follows(d)'
    BY <1>1, <1>3, <1>4 DEF Follows
<1> DEFINE a == LeftFrames
<1>6. a' = a
    BY <1>1 DEF LeftFrames
<1> HIDE DEF a
<1>7. (pc # "closed") = (pc' # "closed") /\ (pc = "skipped") = (pc' = "skipped")
    BY <1>1
<1>8. UNCHANGED Channel!vars
    BY <1>1, <1>6, <1>7 DEF Channel!vars, a
<1>9. QED
    BY <1>5, <1>8 DEF Simulates

LEMMA NextFollows ==
    ASSUME NEW d, IsDialogue(d), Follows(d), Next
    PROVE  Follows(d)' /\ Simulates
<1>1. Typed(d)
    BY DEF Follows
<1>2. CASE pc = "closed"
    BY <1>1, <1>2, ClosedFollows
<1>3. CASE pc # "closed"
    <2>1. PICK k \in 0..Len(Frames(d)) : At(d, k)
        BY <1>3 DEF Follows
    <2>2. CASE TryDecode
        BY <1>1, <2>1, <2>2, TryDecodeFollows
    <2>3. CASE Handles
        BY <1>1, <2>1, <2>3, PacketsFollow
    <2>4. CASE SkippedUnknown \/ Refused \/ NeedsMore
        BY <1>1, <2>1, <2>4, OthersFollow
    <2>5. CASE ReadSome
        BY <1>1, <2>1, <2>5, ReadSomeFollows
    <2>6. CASE ReadTimeout
        BY <1>1, <2>1, <2>6, ReadTimeoutFollows
    <2>7. CASE ReadEnd
        BY <1>1, <2>1, <2>7, ReadEndFollows
    <2>8. CASE PeerInPlay
        BY <1>1, <1>3, <2>1, <2>8, PeerInPlayFollows
    <2>9. CASE PeerCloses
        BY <1>1, <2>1, <2>9, PeerClosesFollows
    <2>10. QED
        BY <2>2, <2>3, <2>4, <2>5, <2>6, <2>7, <2>8, <2>9 DEF Next, Match, Reading, Handles
<1>4. QED
    BY <1>2, <1>3

LEMMA InitInv == Init => IInv /\ Channel!Init
<1> SUFFICES ASSUME Init PROVE IInv /\ Channel!Init
    OBVIOUS
<1>1. PICK n \in DOMAIN Dialogues : \E d \in {Dialogues[n]} :
        /\ reader = d.reader /\ online_mode = d.online /\ phase = d.phase
        /\ threshold = d.threshold
        /\ sent = d.now \o d.later /\ wire = CellsOf(d.now) /\ held = CellsOf(d.later)
    BY DEF Init
<1> DEFINE d == Dialogues[n]
<1>2. /\ reader = d.reader /\ online_mode = d.online /\ phase = d.phase
      /\ threshold = d.threshold
      /\ sent = d.now \o d.later /\ wire = CellsOf(d.now) /\ held = CellsOf(d.later)
    BY <1>1
<1>3. buffer = <<>> /\ outcome = Short /\ eof = FALSE /\ pc = "decode" /\ received = <<>>
    BY DEF Init
<1>4. IsDialogue(d)
    BY DialogueAssumption
<1> HIDE DEF d
<1>5. Follows(d)
    BY <1>2, <1>3, <1>4, InitFollows
<1>6. Channel!Init
    BY <1>3 DEF Channel!Init
<1>7. QED
    BY <1>5, <1>6 DEF IInv, d

LEMMA StepFollows == IInv /\ [Next]_vars => IInv' /\ Simulates
<1> SUFFICES ASSUME IInv, [Next]_vars PROVE IInv' /\ Simulates
    OBVIOUS
<1>1. PICK n \in DOMAIN Dialogues : Follows(Dialogues[n])
    BY DEF IInv
<1> DEFINE d == Dialogues[n]
<1>2. IsDialogue(d) /\ Follows(d)
    BY <1>1, DialogueAssumption
<1> HIDE DEF d
<1>3. CASE Next
    <2>1. Follows(d)' /\ Simulates
        BY <1>2, <1>3, NextFollows
    <2>2. QED
        BY <2>1 DEF IInv, d
<1>4. CASE UNCHANGED vars
    <2>1. Follows(d)' /\ Simulates
        BY <1>2, <1>4, SameFollows
    <2>2. QED
        BY <2>1 DEF IInv, d
<1>5. QED
    BY <1>3, <1>4

LEMMA InvType == IInv => TypeOK
<1> SUFFICES ASSUME IInv PROVE TypeOK
    OBVIOUS
<1>1. PICK n \in DOMAIN Dialogues : Follows(Dialogues[n])
    BY DEF IInv
<1>2. IsDialogue(Dialogues[n])
    BY DialogueAssumption
<1>3. QED
    BY <1>1, <1>2, FollowsType

\* The reader never holds more than was sent, and is in a state of its loop.
\* (connection.rs:196-402)
THEOREM ConnectionType == Spec => []TypeOK
<1>1. Init => IInv
    BY InitInv
<1>2. IInv /\ [Next]_vars => IInv'
    BY StepFollows
<1>3. IInv => TypeOK
    BY InvType
<1>4. QED
    BY <1>1, <1>2, <1>3, PTL DEF Spec

\* Each step of the connection is one of PacketChannel or none: the packets are
\* handed on one by one, as they were written and in their order, the unknown
\* ones passed over, and nothing behind a broken one is seen.
\* (connection.rs:196-402, session.rs:2089-2205)
THEOREM ReadsInOrder == Spec => Channel!SafeSpec
<1>1. Init => IInv /\ Channel!Init
    BY InitInv
<1>2. IInv /\ [Next]_vars => IInv' /\ [Channel!Next]_(Channel!vars)
    BY StepFollows DEF Simulates
<1>3. QED
    BY <1>1, <1>2, PTL DEF Spec, Channel!SafeSpec

-----------------------------------------------------------------------------
(* Division, and the digits of a number *)

\* A quotient and a remainder below the divisor are the only ones.
LEMMA DivisionIs ==
    ASSUME NEW a \in Nat, NEW b \in Nat \ {0}
    PROVE  /\ a \div b \in Nat /\ a % b \in 0..(b - 1)
           /\ a = b * (a \div b) + (a % b)
OBVIOUS

LEMMA DivisionUnique ==
    ASSUME NEW b \in Nat \ {0}, NEW q \in Nat, NEW r \in 0..(b - 1), NEW a, a = b * q + r
    PROVE  a \in Nat /\ a \div b = q /\ a % b = r
<1>1. b * q \in Nat /\ a \in Nat
    OBVIOUS
<1> DEFINE p == a \div b
           m == a % b
<1>2. p \in Nat /\ m \in 0..(b - 1) /\ a = b * p + m
    BY <1>1, DivisionIs
<1> HIDE DEF p, m
<1>3. ASSUME NEW x \in Nat, NEW y \in Nat, x < y PROVE b * x + b <= b * y
    <2>1. PICK d \in Nat : y = x + 1 + d
        <3>1. y - x - 1 \in Nat /\ y = x + 1 + (y - x - 1)
            BY <1>3
        <3>2. QED
            BY <3>1
    <2>2. b * d \in Nat /\ b * y = b * x + b + b * d
        BY <2>1
    <2>3. b * x \in Nat /\ b * y \in Nat
        OBVIOUS
    <2>4. QED
        BY <2>2, <2>3
<1> DEFINE bp == b * p
           bq == b * q
<1>4. bp \in Nat /\ bq \in Nat /\ a = bq + r /\ a = bp + m
    BY <1>2
<1>5. ~(p < q)
    <2>1. p < q => bp + b <= bq
        BY <1>2, <1>3
    <2> HIDE DEF bp, bq
    <2>2. QED
        BY <1>2, <1>4, <2>1
<1>6. ~(q < p)
    <2>1. q < p => bq + b <= bp
        BY <1>2, <1>3
    <2> HIDE DEF bp, bq
    <2>2. QED
        BY <1>2, <1>4, <2>1
<1>7. p = q
    BY <1>2, <1>5, <1>6
<1>8. m = r
    <2>1. bp = bq
        BY <1>7
    <2> HIDE DEF bp, bq
    <2>2. QED
        BY <1>2, <1>4, <2>1
<1>9. QED
    BY <1>1, <1>7, <1>8 DEF p, m

\* Dividing twice is dividing by the product.
LEMMA DivisionTwice ==
    ASSUME NEW a \in Nat, NEW b \in Nat \ {0}, NEW c \in Nat \ {0}
    PROVE  a \div (b * c) = (a \div b) \div c
<1> DEFINE q == a \div b
           r == a % b
           p == q \div c
           m == q % c
           rr == b * m + r
           bc == b * c
<1>1. q \in Nat /\ r \in 0..(b - 1) /\ a = b * q + r
    BY DivisionIs
<1> HIDE DEF q, r
<1>2. p \in Nat /\ m \in 0..(c - 1) /\ q = c * p + m
    BY <1>1, DivisionIs
<1> HIDE DEF p, m
<1>3. a = bc * p + rr
    <2> DEFINE bq == b * q
               bcp == b * (c * p)
               bm == b * m
    <2>1. bq = bcp + bm
        BY <1>1, <1>2
    <2>2. bcp = bc * p
        BY <1>2
    <2>3. bcp \in Nat /\ bm \in Nat
        BY <1>2
    <2>4. a = bq + r /\ rr = bm + r
        BY <1>1
    <2>5. r \in Nat
        BY <1>1
    <2> DEFINE x == bc * p
    <2>6. bcp = x
        BY <2>2
    <2> HIDE DEF bq, bcp, bm, x, bc, rr
    <2>7. a = x + rr
        BY <2>1, <2>3, <2>4, <2>5, <2>6
    <2>8. QED
        BY <2>7 DEF x
<1>4. bc \in Nat \ {0}
    BY Products
<1>5. rr \in 0..(bc - 1)
    <2>1. PICK d \in Nat : c = m + 1 + d
        <3>1. c - m - 1 \in Nat /\ c = m + 1 + (c - m - 1)
            BY <1>2
        <3>2. QED
            BY <3>1
    <2>2. b * c = b * m + b + b * d /\ b * d \in Nat /\ b * m \in Nat
        BY <1>2, <2>1
    <2>3. QED
        BY <1>1, <2>2
<1> HIDE DEF bc, rr
<1>6. a \div bc = p
    BY <1>2, <1>3, <1>4, <1>5, DivisionUnique
<1>7. QED
    BY <1>6 DEF bc, p, q

LEMMA WeightNext ==
    /\ Weight[1] = 1
    /\ \A i \in 1..5 : Weight[i + 1] = Weight[i] * Radix
<1>1. Radix \in Nat
    BY Weights
<1>2. Weight[1] = 1 /\ Weight[2] = Weight[1] * Radix
    BY <1>1 DEF Weight
<1>3. /\ Weight[3] = Weight[2] * Radix /\ Weight[4] = Weight[3] * Radix
      /\ Weight[5] = Weight[4] * Radix /\ Weight[6] = Weight[5] * Radix
    BY DEF Weight
<1>4. \A i \in 1..5 : i = 1 \/ i = 2 \/ i = 3 \/ i = 4 \/ i = 5
    OBVIOUS
<1>5. QED
    BY <1>2, <1>3, <1>4

Digit(u, i) == (u \div Weight[i]) % Radix

\* What a number has above a place, it has at this place and above the next.
LEMMA PlaceValue ==
    ASSUME NEW u \in Nat, NEW i \in 1..5
    PROVE  /\ Digit(u, i) \in 0..(Radix - 1)
           /\ Weight[i] * (u \div Weight[i])
                = Weight[i + 1] * (u \div Weight[i + 1]) + Digit(u, i) * Weight[i]
<1> DEFINE w == Weight[i]
           R == Radix
           q == u \div w
           p == q \div R
           d == q % R
<1>1. w \in Nat \ {0} /\ R \in Nat \ {0}
    BY Weights
<1>2. Weight[i + 1] = w * R
    BY WeightNext
<1>3. u \div (w * R) = p
    BY <1>1, DivisionTwice
<1>4. q \in Nat
    BY <1>1, DivisionIs
<1> HIDE DEF w, q
<1>5. p \in Nat /\ d \in 0..(R - 1) /\ q = R * p + d
    BY <1>1, <1>4, DivisionIs
<1> HIDE DEF p, d, R
<1>6. w * q = (w * R) * p + d * w
    BY <1>1, <1>5
<1>7. QED
    BY <1>2, <1>3, <1>5, <1>6 DEF w, q, p, d, R, Digit

\* A number with no more than n digits is the sum of their values.
LEMMA DigitsSum ==
    ASSUME NEW u \in Nat, NEW n \in 1..5, u < Weight[n + 1]
    PROVE  LET value(i) == IF i <= n THEN Digit(u, i) * Weight[i] ELSE 0
           IN value(1) + value(2) + value(3) + value(4) + value(5) = u
<1> DEFINE P(i) == Weight[i] * (u \div Weight[i])
           D(i) == Digit(u, i) * Weight[i]
<1>1. \A i \in 1..5 : P(i) = P(i + 1) + D(i)
    BY PlaceValue
<1>2. \A i \in 1..6 : Weight[i] \in Nat \ {0}
    BY Weights
<1>3. \A i \in 1..5 : D(i) \in Nat
    <2>1. ASSUME NEW i \in 1..5 PROVE D(i) \in Nat
        <3> DEFINE x == Digit(u, i)
                   w == Weight[i]
        <3>1. x \in Nat /\ w \in Nat
            <4>1. x \in 0..(Radix - 1) /\ Radix \in Nat
                BY PlaceValue, Weights
            <4> HIDE DEF x
            <4>2. QED
                BY <1>2, <4>1
        <3> HIDE DEF x, w
        <3>2. x * w \in Nat
            BY <3>1
        <3>3. QED
            BY <3>2 DEF x, w
    <2>2. QED
        BY <2>1
<1>4. P(1) = u
    <2>1. u \div 1 = u
        OBVIOUS
    <2>2. QED
        BY <2>1, WeightNext
<1>5. P(n + 1) = 0
    <2> DEFINE w == Weight[n + 1]
    <2>1. w \in Nat \ {0} /\ u < w
        BY <1>2
    <2>a. P(n + 1) = w * (u \div w)
        OBVIOUS
    <2> HIDE DEF w
    <2>2. u = w * 0 + u /\ u \in 0..(w - 1)
        BY <2>1
    <2>3. u \div w = 0
        BY <2>1, <2>2, DivisionUnique
    <2>4. QED
        BY <2>1, <2>a, <2>3
<1> HIDE DEF P, D
<1>6. P(1) = P(2) + D(1) /\ P(2) = P(3) + D(2) /\ P(3) = P(4) + D(3)
      /\ P(4) = P(5) + D(4) /\ P(5) = P(6) + D(5)
    BY <1>1
<1>7. P(1) \in Nat /\ D(1) \in Nat /\ D(2) \in Nat /\ D(3) \in Nat /\ D(4) \in Nat /\ D(5) \in Nat
    BY <1>3, <1>4
<1> DEFINE value(i) == IF i <= n THEN D(i) ELSE 0
<1>a. \A i \in 1..6 : P(i) \in Int
    <2>1. ASSUME NEW i \in 1..6 PROVE P(i) \in Int
        <3> DEFINE w == Weight[i]
                   q == u \div w
        <3>1. w \in Nat \ {0}
            BY <1>2
        <3>2. q \in Nat
            BY <3>1, DivisionIs
        <3> HIDE DEF q, w
        <3>3. w * q \in Int
            BY <3>1, <3>2
        <3>4. QED
            BY <3>3 DEF P, q, w
    <2>2. QED
        BY <2>1
<1>8. value(1) + value(2) + value(3) + value(4) + value(5) = u
    <2>1. CASE n = 1
        BY <1>4, <1>5, <1>6, <1>7, <1>a, <2>1
    <2>2. CASE n = 2
        BY <1>4, <1>5, <1>6, <1>7, <1>a, <2>2
    <2>3. CASE n = 3
        BY <1>4, <1>5, <1>6, <1>7, <1>a, <2>3
    <2>4. CASE n = 4
        BY <1>4, <1>5, <1>6, <1>7, <1>a, <2>4
    <2>5. CASE n = 5
        BY <1>4, <1>5, <1>6, <1>7, <1>a, <2>5
    <2>6. QED
        BY <2>1, <2>2, <2>3, <2>4, <2>5
<1>9. QED
    BY <1>8 DEF D

-----------------------------------------------------------------------------
(* VarInts are read as they were written *)

AllBytes == {Byte(n) : n \in Nat}

\* How many bytes a number needs.
Needs(u, n) == n \in 1..5 /\ u < Weight[n + 1] /\ \A k \in 1..5 : u < Weight[k + 1] => n <= k

LEMMA VarIntWritten ==
    ASSUME NEW v \in Int
    PROVE  LET u == v % IntRange
               e == encode_var_int(v)
           IN /\ u \in 0..(IntRange - 1)
              /\ Needs(u, Len(e))
              /\ e \in Seq(AllBytes)
              /\ \A i \in 1..Len(e) : e[i] = Byte(Digit(u, i) + (IF i < Len(e) THEN Radix ELSE 0))
<1> DEFINE u == v % IntRange
           T == {k \in 1..5 : k = 5 \/ u < Weight[k + 1]}
           n == Min(T)
           e == encode_var_int(v)
           d(i) == Digit(u, i) + (IF i < n THEN Radix ELSE 0)
<1>1. u \in 0..(IntRange - 1) /\ IntRange \in Nat \ {0} /\ Radix \in Nat \ {0}
    BY Weights, RemainderIs
<1>2. e = [i \in 1..n |-> Byte(d(i))]
    BY DEF encode_var_int, Digit
<1>a. u < Weight[6]
    <2>1. IntRange <= Weight[6] /\ Weight[6] \in Nat
        BY WireAssumption, Weights
    <2> HIDE DEF u
    <2>2. QED
        BY <1>1, <2>1
<1>3. n \in T /\ \A k \in T : n <= k
    <2>1. T \in SUBSET Nat /\ 5 \in T
        OBVIOUS
    <2>2. T # {}
        BY <2>1
    <2> HIDE DEF T
    <2>3. QED
        BY <2>1, <2>2, SmallestOf
<1>4. Needs(u, n)
    <2>1. n \in 1..5 /\ (n = 5 \/ u < Weight[n + 1]) /\ \A k \in 1..5 : u < Weight[k + 1] => n <= k
        BY <1>3
    <2> HIDE DEF n, u
    <2>2. n = 5 => u < Weight[n + 1]
        BY <1>a
    <2>3. QED
        BY <2>1, <2>2 DEF Needs
<1>5. n \in 1..5
    BY <1>4 DEF Needs
<1> HIDE DEF n, u, e
<1>6. \A i \in 1..n : d(i) \in Nat
    <2>1. \A i \in 1..5 : Digit(u, i) \in 0..(Radix - 1)
        <3>1. u \in Nat
            BY <1>1
        <3>2. QED
            BY <3>1, PlaceValue
    <2>2. QED
        BY <1>1, <1>5, <2>1
<1>7. \A i \in 1..n : Byte(d(i)) \in AllBytes
    BY <1>6 DEF AllBytes
<1> HIDE DEF d
<1>8. e \in Seq(AllBytes) /\ Len(e) = n
    BY <1>2, <1>5, <1>7
<1>9. QED
    BY <1>1, <1>2, <1>4, <1>8 DEF u, e, d

\* Where the VarInt ends that has been written.
LEMMA WrittenEnd ==
    ASSUME NEW v \in Int
    PROVE  VarIntEnd(encode_var_int(v)) = Len(encode_var_int(v))
<1> DEFINE u == v % IntRange
           e == encode_var_int(v)
           n == Len(e)
           m == VarIntEnd(e)
<1>1. /\ u \in 0..(IntRange - 1) /\ Needs(u, n)
      /\ \A i \in 1..n : e[i] = Byte(Digit(u, i) + (IF i < n THEN Radix ELSE 0))
    BY VarIntWritten
<1>2. n \in 1..5 /\ Radix \in Nat \ {0} /\ u \in Nat
    BY <1>1, Weights DEF Needs
<1> HIDE DEF u, e, n
<1>3. \A i \in 1..5 : Digit(u, i) \in 0..(Radix - 1)
    BY <1>2, PlaceValue
<1>4. \A i \in 1..n : e[i][1] = "byte" /\ e[i][2] = Digit(u, i) + (IF i < n THEN Radix ELSE 0)
    BY <1>1 DEF Byte
<1>5. EndsAt(e, n)
    <2>1. n \in 1..n /\ ~(n < n)
        BY <1>2
    <2>2. e[n][2] = Digit(u, n) + 0 /\ Digit(u, n) \in 0..(Radix - 1)
        BY <1>2, <1>3, <1>4, <2>1
    <2>3. ~(e[n][2] >= Radix)
        BY <1>2, <2>2
    <2>4. QED
        BY <1>2, <2>3 DEF EndsAt, MoreFollow, n
<1>6. ASSUME NEW i \in 1..5, EndsAt(e, i) PROVE n <= i
    <2>1. SUFFICES ASSUME i < n PROVE FALSE
        BY <1>2
    <2>2. i \in 1..n
        BY <1>2, <2>1
    <2>3. e[i][1] = "byte" /\ e[i][2] = Digit(u, i) + Radix /\ Digit(u, i) \in 0..(Radix - 1)
        BY <1>3, <1>4, <2>1, <2>2
    <2>4. e[i][2] >= Radix
        BY <1>2, <2>3
    <2>5. QED
        BY <1>6, <2>3, <2>4 DEF EndsAt, MoreFollow
<1>7. m \in 1..5 /\ EndsAt(e, m) /\ \A i \in 1..5 : EndsAt(e, i) => m <= i
    BY <1>2, <1>5, VarIntEnds
<1> HIDE DEF m
<1>8. m = n
    BY <1>2, <1>5, <1>6, <1>7
<1>9. QED
    BY <1>8 DEF m, n, e

LEMMA DigitOf ==
    ASSUME NEW R \in Nat \ {0}, NEW d \in 0..(R - 1)
    PROVE  d % R = d /\ (d + R) % R = d
<1>1. d = R * 0 + d /\ d + R = R * 1 + d /\ 0 \in Nat /\ 1 \in Nat
    OBVIOUS
<1>2. \A q \in Nat : \A a : a = R * q + d => a % R = d
    BY DivisionUnique
<1>3. d % R = d
    BY <1>1, <1>2
<1>4. (d + R) % R = d
    BY <1>1, <1>2
<1>5. QED
    BY <1>3, <1>4

\* The number that has been written, modulo the range of the integer.
LEMMA WrittenNumber ==
    ASSUME NEW v \in Int
    PROVE  Number(encode_var_int(v), Len(encode_var_int(v))) = v % IntRange
<1> DEFINE u == v % IntRange
           e == encode_var_int(v)
           n == Len(e)
<1>1. /\ u \in 0..(IntRange - 1) /\ Needs(u, n)
      /\ \A i \in 1..n : e[i] = Byte(Digit(u, i) + (IF i < n THEN Radix ELSE 0))
    BY VarIntWritten
<1>2. n \in 1..5 /\ Radix \in Nat \ {0} /\ u \in Nat /\ u < Weight[n + 1]
    BY <1>1, Weights DEF Needs
<1> DEFINE value(i) == IF i <= n THEN Digit(u, i) * Weight[i] ELSE 0
           digit(i) == IF i <= n THEN (e[i][2] % Radix) * Weight[i] ELSE 0
<1> HIDE DEF u, e, n
<1>3. ASSUME NEW i \in 1..5 PROVE digit(i) = value(i)
    <2>1. CASE i <= n
        <3>1. i \in 1..n
            BY <1>2, <2>1
        <3>2. e[i][2] = Digit(u, i) + (IF i < n THEN Radix ELSE 0)
            BY <1>1, <3>1 DEF Byte
        <3> DEFINE d == Digit(u, i)
        <3>3. d \in 0..(Radix - 1)
            BY <1>2, PlaceValue
        <3> HIDE DEF d
        <3>4. d % Radix = d /\ (d + Radix) % Radix = d
            BY <1>2, <3>3, DigitOf
        <3>5. e[i][2] % Radix = d
            <4>1. e[i][2] = d + (IF i < n THEN Radix ELSE 0)
                BY <3>2 DEF d
            <4>2. CASE i < n
                BY <3>4, <4>1, <4>2
            <4>3. CASE ~(i < n)
                <5>1. e[i][2] = d
                    BY <3>3, <1>2, <4>1, <4>3
                <5>2. QED
                    BY <3>4, <5>1
            <4>4. QED
                BY <4>2, <4>3
        <3>6. QED
            BY <3>5 DEF d
    <2>2. CASE ~(i <= n)
        BY <2>2
    <2>3. QED
        BY <2>1, <2>2
<1>4. value(1) + value(2) + value(3) + value(4) + value(5) = u
    BY <1>2, DigitsSum
<1>5. Number(e, n) = digit(1) + digit(2) + digit(3) + digit(4) + digit(5)
    BY DEF Number
<1>6. /\ digit(1) = value(1) /\ digit(2) = value(2) /\ digit(3) = value(3)
      /\ digit(4) = value(4) /\ digit(5) = value(5)
    BY <1>3
<1> HIDE DEF digit, value
<1>7. Number(e, n) = u
    BY <1>4, <1>5, <1>6
<1>8. QED
    BY <1>7 DEF u, e, n

\* The value a VarInt has for the one who reads it.
Carries(v) == Signed(v % IntRange, IntRange)

LEMMA VarIntAlone ==
    ASSUME NEW v \in Int
    PROVE  decode_var_int(encode_var_int(v)) = Got(Carries(v), <<>>)
<1> DEFINE u == v % IntRange
           e == encode_var_int(v)
           n == Len(e)
<1>1. /\ u \in 0..(IntRange - 1) /\ Needs(u, n) /\ e \in Seq(AllBytes)
      /\ \A i \in 1..n : e[i] = Byte(Digit(u, i) + (IF i < n THEN Radix ELSE 0))
    BY VarIntWritten
<1>2. n \in 1..5 /\ IntRange \in Nat \ {0}
    BY <1>1, Weights DEF Needs
<1>3. VarIntEnd(e) = n /\ Number(e, n) = u
    BY WrittenEnd, WrittenNumber
<1> HIDE DEF u, e
<1>4. e[n][1] = "byte"
    <2>1. n \in 1..n
        BY <1>2
    <2>2. QED
        BY <1>1, <2>1 DEF Byte
<1>5. Behind(e, n) = <<>>
    BY <1>1, BehindAll
<1>6. u % IntRange = u
    BY <1>1, <1>2
<1> HIDE DEF n
<1>7. decode_var_int(e) = Got(Signed(Number(e, n) % IntRange, IntRange), Behind(e, n))
    <2>1. n # 0
        BY <1>2
    <2>2. QED
        BY <1>3, <1>4, <2>1 DEF decode_var_int
<1>8. decode_var_int(e) = Got(Signed(u, IntRange), <<>>)
    BY <1>3, <1>5, <1>6, <1>7
<1>9. QED
    BY <1>8 DEF u, e, Carries

\* Whatever follows it.
LEMMA VarIntBack ==
    ASSUME NEW S, AllBytes \subseteq S, NEW x \in Seq(S), NEW v \in Int
    PROVE  /\ encode_var_int(v) \in Seq(S) /\ Len(encode_var_int(v)) \in 1..5
           /\ \A sx : sx = encode_var_int(v) \o x => decode_var_int(sx) = Got(Carries(v), x)
<1> DEFINE e == encode_var_int(v)
<1>1. e \in Seq(AllBytes) /\ Len(e) \in 1..5
    BY VarIntWritten DEF Needs
<1> HIDE DEF e
<1>2. e \in Seq(S)
    BY <1>1, SeqMonotonic
<1>3. decode_var_int(e) = Got(Carries(v), <<>>)
    BY VarIntAlone DEF e
<1>4. decode_var_int(e) # Short
    BY <1>3, GotIs
<1>5. decode_var_int(e \o x) = With(decode_var_int(e), x)
    BY <1>2, <1>4, VarIntStands
<1>6. With(Got(Carries(v), <<>>), x) = Got(Carries(v), <<>> \o x)
    BY DEF With, Got
<1>7. <<>> \o x = x
    BY Nothing
<1>8. decode_var_int(e \o x) = Got(Carries(v), x)
    BY <1>3, <1>5, <1>6, <1>7, Zenon
<1>9. QED
    BY <1>1, <1>2, <1>8 DEF e

\* Every integer of the range is read as it was written.
\* A number that fits into a range is what its remainder stands for.
LEMMA SignedBack ==
    ASSUME NEW range \in Nat \ {0}, range % 2 = 0,
           NEW v \in Int, -(range \div 2) <= v, v < range \div 2
    PROVE  Signed(v % range, range) = v
<1> DEFINE h == range \div 2
           u == v % range
<1>2. range = 2 * h /\ h \in Nat \ {0}
    OBVIOUS
<1> HIDE DEF h
<1>3. CASE v >= 0
    <2>1. v = range * 0 + v /\ v \in 0..(range - 1)
        BY <1>2, <1>3 DEF h
    <2>2. u = v
        BY <2>1, DivisionUnique
    <2> HIDE DEF u
    <2>3. ~(2 * u >= range)
        BY <1>2, <1>3, <2>2 DEF h
    <2>4. QED
        BY <2>2, <2>3 DEF Signed, u
<1>4. CASE v < 0
    <2>0. -h <= v
        BY DEF h
    <2>1. u = v + range
        BY <1>2, <1>4, <2>0
    <2> HIDE DEF u
    <2>2. 2 * u >= range /\ u - range = v
        BY <1>2, <1>4, <2>0, <2>1
    <2>3. QED
        BY <2>2 DEF Signed, u
<1>5. QED
    BY <1>3, <1>4

LEMMA CarriesAll ==
    ASSUME NEW v \in Int, -(IntRange \div 2) <= v, v < IntRange \div 2
    PROVE  Carries(v) = v
BY Weights, SignedBack DEF Carries

\* What encode_var_int writes, decode_var_int reads: for every width of a byte and
\* of an integer, the same integer with what was behind it. (primitives.rs)
THEOREM VarIntRoundTrip ==
    ASSUME NEW S, AllBytes \subseteq S, NEW x \in Seq(S),
           NEW v \in Int, -(IntRange \div 2) <= v, v < IntRange \div 2
    PROVE  decode_var_int(encode_var_int(v) \o x) = Got(v, x)
BY VarIntBack, CarriesAll

-----------------------------------------------------------------------------
(* Primitives are read as they were written *)

FieldCells(kind, v) == {<<kind, v, i>> : i \in 1..2}
FieldIn(S, kind, v) == FieldCells(kind, v) \subseteq S

LEMMA CellsWritten ==
    ASSUME NEW S, NEW kind, NEW v, FieldIn(S, kind, v)
    PROVE  /\ Cells(kind, v) \in Seq(S) /\ Len(Cells(kind, v)) = Width(kind) /\ Width(kind) \in 1..2
           /\ \A i \in 1..Width(kind) : Cells(kind, v)[i] = <<kind, v, i>>
<1> DEFINE w == Width(kind)
           c == Cells(kind, v)
<1>1. w \in 1..2
    BY DEF Width
<1>2. c = [i \in 1..w |-> <<kind, v, i>>]
    BY DEF Cells
<1> HIDE DEF w, c
<1>3. \A i \in 1..w : <<kind, v, i>> \in S
    BY <1>1 DEF FieldCells, FieldIn
<1>4. c \in Seq(S) /\ Len(c) = w
    BY <1>1, <1>2, <1>3
<1>5. QED
    BY <1>1, <1>2, <1>4 DEF w, c

\* Joining, as a fact about sequences of the same cells.
LEMMA Joined ==
    ASSUME NEW S, NEW a \in Seq(S), NEW x \in Seq(S)
    PROVE  /\ a \o x \in Seq(S) /\ Len(a) \in Nat /\ Len(x) \in Nat
           /\ Len(a \o x) = Len(a) + Len(x)
           /\ FirstOf(a \o x, Len(a)) = a /\ Behind(a \o x, Len(a)) = x
           /\ \A i \in 1..Len(a) : (a \o x)[i] = a[i]
<1> DEFINE n == Len(a)
<1>1. n \in Nat /\ Len(x) \in Nat /\ n \in 0..n
    BY LenProperties
<1>2. /\ a \o x \in Seq(S) /\ Len(a \o x) = n + Len(x)
      /\ \A i \in 1..n : (a \o x)[i] = a[i]
      /\ FirstOf(a \o x, n) = FirstOf(a, n) /\ Behind(a \o x, n) = Behind(a, n) \o x
    <2>1. /\ \A k \in 0..Len(a) : FirstOf(a \o x, k) = FirstOf(a, k) /\ Behind(a \o x, k) = Behind(a, k) \o x
          /\ \A k \in 0..Len(a) : a \o x \in Seq(S) /\ Len(a \o x) = Len(a) + Len(x)
          /\ \A k \in 0..Len(a) : \A i \in 1..Len(a) : (a \o x)[i] = a[i]
        BY FrontAndRest
    <2>2. QED
        BY <1>1, <2>1
<1>3. Behind(a, n) = <<>>
    BY BehindAll
<1>4. FirstOf(a, n) = a
    BY DEF FirstOf
<1>5. <<>> \o x = x
    BY Nothing
<1>6. Behind(a \o x, n) = x
    BY <1>2, <1>3, <1>5, Zenon
<1>7. QED
    BY <1>1, <1>2, <1>4, <1>6

LEMMA CellsBack ==
    ASSUME NEW S, NEW kind, NEW v, FieldIn(S, kind, v), NEW x \in Seq(S)
    PROVE  \A sx : sx = Cells(kind, v) \o x => TakeCells(kind, sx) = Got(v, x)
<1> DEFINE w == Width(kind)
           c == Cells(kind, v)
           q == c \o x
<1>1. c \in Seq(S) /\ Len(c) = w /\ w \in 1..2 /\ \A i \in 1..w : c[i] = <<kind, v, i>>
    BY CellsWritten
<1> HIDE DEF c
<1>2. /\ c \o x \in Seq(S) /\ Len(c) \in Nat /\ Len(x) \in Nat
      /\ Len(c \o x) = Len(c) + Len(x)
      /\ FirstOf(c \o x, Len(c)) = c /\ Behind(c \o x, Len(c)) = x
      /\ \A i \in 1..Len(c) : (c \o x)[i] = c[i]
    BY <1>1, Joined, Zenon
<1> HIDE DEF q
<1>3. Len(q) = Len(c) + Len(x) /\ Behind(q, w) = x /\ \A i \in 1..Len(c) : q[i] = c[i]
    BY <1>1, <1>2, Zenon DEF q
<1>4. Len(c) \in Nat /\ Len(x) \in Nat
    BY <1>2
<1> HIDE DEF w
<1>7. ~(Len(q) < w) /\ 1 \in 1..w
    BY <1>1, <1>3, <1>4
<1>8. \A i \in 1..w : q[i] = <<kind, v, i>>
    BY <1>1, <1>3
<1>9. (\A i \in 1..w : q[i][1] = kind /\ q[i][3] = i) /\ q[1][2] = v
    BY <1>7, <1>8
<1>10. TakeCells(kind, q) = Got(v, x)
    BY <1>3, <1>7, <1>9 DEF TakeCells, w
<1>11. QED
    BY <1>10 DEF q, c

-----------------------------------------------------------------------------
(* Frames are read as they were written *)

\* A length of a frame has no more bytes than are read of it, and fits into an
\* integer.
LEMMA LengthFits ==
    ASSUME NEW n \in 0..MaxFrame
    PROVE  Len(encode_var_int(n)) \in 1..MaxPrefix /\ Carries(n) = n
<1>1. /\ Radix \in Nat \ {0} /\ IntRange \in Nat \ {0} /\ MaxFrame \in Nat \ {0}
      /\ \A i \in 1..6 : Weight[i] \in Nat \ {0}
    BY Weights
<1>2. Weight[5] < IntRange /\ IntRange <= Weight[6] /\ MaxFrame < Weight[4]
    BY WireAssumption
<1> DEFINE w4 == Weight[4]
           w5 == Weight[5]
           w6 == Weight[6]
<1>3. w5 = w4 * Radix /\ w6 = w5 * Radix
    <2>1. 4 \in 1..5 /\ 5 \in 1..5 /\ 4 + 1 = 5 /\ 5 + 1 = 6
        OBVIOUS
    <2>2. Weight[4 + 1] = Weight[4] * Radix /\ Weight[5 + 1] = Weight[5] * Radix
        BY <2>1, WeightNext
    <2>3. QED
        BY <2>1, <2>2
<1>4. w4 \in Nat /\ w5 \in Nat /\ w6 \in Nat /\ w5 < IntRange /\ IntRange <= w6 /\ MaxFrame < w4
    BY <1>1, <1>2
<1> HIDE DEF w4, w5, w6
<1>5. Radix # 1
    <2>1. Radix = 1 => w6 = w5
        BY <1>3, <1>4
    <2>2. QED
        BY <1>1, <1>4, <2>1
<1>6. 2 * w4 <= w5
    <2>1. PICK k \in Nat : Radix = 2 + k
        <3>1. Radix - 2 \in Nat /\ Radix = 2 + (Radix - 2)
            BY <1>1, <1>5
        <3>2. QED
            BY <3>1
    <2>2. w4 * Radix = 2 * w4 + w4 * k /\ w4 * k \in Nat
        BY <1>4, <2>1
    <2>3. QED
        BY <1>3, <1>4, <2>2
<1>7. n \in Nat /\ 2 * n < IntRange /\ n < w4
    BY <1>1, <1>4, <1>6
<1>8. Carries(n) = n
    <2>1. IntRange % 2 = 0
        BY Weights
    <2>2. n < IntRange \div 2 /\ -(IntRange \div 2) <= n
        BY <1>1, <1>7, <2>1
    <2>3. QED
        BY <1>7, <2>2, CarriesAll
<1>9. Len(encode_var_int(n)) \in 1..3
    <2> DEFINE u == n % IntRange
               k == Len(encode_var_int(n))
    <2>1. Needs(u, k)
        BY <1>7, VarIntWritten
    <2>2. u = n
        BY <1>1, <1>7
    <2> HIDE DEF u, k
    <2>3. 3 \in 1..5 /\ u < Weight[3 + 1]
        BY <1>7, <2>2 DEF w4
    <2>4. k \in 1..5 /\ k <= 3
        BY <2>1, <2>3 DEF Needs
    <2>5. k \in 1..3
        BY <2>4
    <2>6. QED
        BY <2>5, Zenon DEF k
<1>10. QED
    BY <1>8, <1>9 DEF MaxPrefix

LEMMA BodyBack ==
    ASSUME NEW S, AllBytes \subseteq S, NEW body \in Seq(S), Len(body) <= MaxFrame,
           NEW x \in Seq(S), NEW strict \in BOOLEAN, strict => Len(body) # 0
    PROVE  \A sx : sx = (encode_var_int(Len(body)) \o body) \o x =>
             FrameBody(sx, strict) = Got(body, x)
<1> DEFINE n == Len(body)
           e == encode_var_int(n)
           bx == body \o x
           q == e \o bx
<1>1. MaxFrame \in Nat /\ n \in Nat
    BY Weights, LenProperties
<1>2. n \in 0..MaxFrame /\ n \in Int
    BY <1>1
<1>3. Len(e) \in 1..MaxPrefix /\ Carries(n) = n
    BY <1>2, LengthFits
<1>4. /\ bx \in Seq(S) /\ Len(x) \in Nat /\ Len(bx) = n + Len(x)
      /\ FirstOf(bx, n) = body /\ Behind(bx, n) = x
    BY Joined
<1> HIDE DEF n, bx
<1>5. e \in Seq(S) /\ decode_var_int(q) = Got(n, bx)
    BY <1>2, <1>3, <1>4, VarIntBack
<1> HIDE DEF e
<1>6. q \in Seq(S) /\ Len(q) = Len(e) + Len(bx)
    BY <1>4, <1>5, Joined
<1>7. FrameBody(q, strict) =
        IF Refuses(n, Len(q) - Len(bx), strict) THEN Bad
        ELSE IF Len(bx) < n THEN Short ELSE Got(FirstOf(bx, n), Behind(bx, n))
    BY <1>5, FrameBodyOf
<1> HIDE DEF q
<1>8. ~Refuses(n, Len(q) - Len(bx), strict)
    <2> DEFINE lq == Len(q)
               le == Len(e)
               lb == Len(bx)
    <2>a. lq = le + lb /\ le \in 1..3 /\ lb \in Nat
        <3>1. lq = le + lb
            BY <1>6, Zenon
        <3>2. le \in 1..3
            BY <1>3, Zenon DEF MaxPrefix
        <3>3. lb \in Nat
            BY <1>4, LenProperties, Zenon
        <3>4. QED
            BY <3>1, <3>2, <3>3, Zenon
    <2> HIDE DEF lq, le, lb
    <2>b. lq - lb = le /\ le <= 3
        BY <2>a
    <2>1. Len(q) - Len(bx) = Len(e) /\ Len(e) <= MaxPrefix
        BY <2>b, Zenon DEF lq, le, lb, MaxPrefix
    <2>2. n >= 0 /\ n <= MaxFrame /\ (strict => n # 0)
        BY <1>1 DEF n
    <2>3. QED
        BY <1>1, <1>3, <2>1, <2>2 DEF Refuses, MaxPrefix
<1>9. ~(Len(bx) < n)
    BY <1>1, <1>4
<1>10. FrameBody(q, strict) = Got(body, x)
    BY <1>4, <1>7, <1>8, <1>9
<1>11. (e \o body) \o x = q
    BY <1>5, ConcatAssociative DEF q, bx
<1>12. QED
    BY <1>10, <1>11 DEF e, n

\* The packet in a body.
LEMMA PacketBack ==
    ASSUME NEW S, AllBytes \subseteq S, NEW id \in Int, NEW payload \in Seq(S), NEW rest
    PROVE  \A c : c = encode_var_int(id) \o payload =>
             PacketIn(Got(c, rest)) = Frame(Carries(id), payload, rest)
<1> DEFINE c == encode_var_int(id) \o payload
<1>1. decode_var_int(c) = Got(Carries(id), payload)
    BY VarIntBack
<1> HIDE DEF c
<1>2. Whole(decode_var_int(c)) = Got(Carries(id), payload)
    BY <1>1, GotIs DEF Whole
<1>3. PacketIn(Got(c, rest)) = Frame(Carries(id), payload, rest)
    BY <1>2, GotIs DEF PacketIn, PacketOf
<1>4. QED
    BY <1>3 DEF c

\* The cells of a packet: its id and what follows.
Body(id, payload) == encode_var_int(id) \o payload

LEMMA BodyIs ==
    ASSUME NEW S, AllBytes \subseteq S, NEW id \in Int, NEW payload \in Seq(S)
    PROVE  /\ Body(id, payload) \in Seq(S)
           /\ Len(Body(id, payload)) \in Nat \ {0}
           /\ Len(Body(id, payload)) <= 5 + Len(payload)
<1> DEFINE e == encode_var_int(id)
<1>1. e \in Seq(S) /\ Len(e) \in 1..5
    BY VarIntBack
<1> HIDE DEF e
<1> DEFINE b == e \o payload
           lb == Len(b)
           le == Len(e)
           lp == Len(payload)
<1>2. b \in Seq(S) /\ lb = le + lp /\ lp \in Nat /\ le \in 1..5
    BY <1>1, Joined, Zenon
<1> HIDE DEF lb, le, lp, b
<1>3. lb \in Nat \ {0} /\ lb <= 5 + lp
    BY <1>2
<1>4. Body(id, payload) = b
    BY DEF Body, b, e
<1>5. QED
    BY <1>2, <1>3, <1>4, Zenon DEF lb, lp

LEMMA FrameBack ==
    ASSUME NEW S, AllBytes \subseteq S, NEW id \in Int, NEW payload \in Seq(S),
           Len(Body(id, payload)) <= MaxFrame, NEW x \in Seq(S)
    PROVE  /\ encode_frame(id, payload) \in Seq(S)
           /\ encode_frame(id, payload) = encode_var_int(Len(Body(id, payload))) \o Body(id, payload)
           /\ \A sx : sx = encode_frame(id, payload) \o x =>
                decode_frame(sx) = Frame(Carries(id), payload, x)
<1> DEFINE b == Body(id, payload)
           e == encode_var_int(Len(b))
           f == encode_frame(id, payload)
<1>1. b \in Seq(S) /\ Len(b) \in Nat \ {0}
    BY BodyIs
<1>2. f = e \o b
    <2>1. MaxFrame \in Nat
        BY Weights
    <2>2. f = IF Len(b) > MaxFrame THEN <<>> ELSE e \o b
        BY DEF encode_frame, Body
    <2> HIDE DEF b, e, f
    <2>3. ~(Len(b) > MaxFrame)
        BY <1>1, <2>1 DEF b
    <2>4. QED
        BY <2>2, <2>3
<1>3. e \in Seq(S)
    BY <1>1, VarIntBack
<1> HIDE DEF e
<1>4. e \o b \in Seq(S)
    BY <1>1, <1>3, Joined
<1>5. \A sx : sx = (e \o b) \o x => FrameBody(sx, TRUE) = Got(b, x)
    BY <1>1, BodyBack DEF e
<1>6. PacketIn(Got(b, x)) = Frame(Carries(id), payload, x)
    BY PacketBack DEF Body
<1> HIDE DEF b, f
<1>7. \A sx : sx = f \o x => decode_frame(sx) = Frame(Carries(id), payload, x)
    BY <1>2, <1>5, <1>6 DEF decode_frame
<1>8. QED
    BY <1>2, <1>4, <1>7 DEF b, e, f

\* A frame with x behind it is read as it was written.
ReadsFrame(id, payload, x) ==
    \A sx : sx = encode_frame(id, payload) \o x => decode_frame(sx) = Frame(Carries(id), payload, x)

LEMMA FrameReads ==
    ASSUME NEW S, AllBytes \subseteq S, NEW id \in Int, NEW payload \in Seq(S),
           Len(Body(id, payload)) <= MaxFrame, NEW x \in Seq(S)
    PROVE  ReadsFrame(id, payload, x)
BY FrameBack DEF ReadsFrame

\* A frame is read as it was written, with what was behind it, whatever its id
\* and its payload, if it is not too long for a frame.  (framing.rs)
THEOREM FrameRoundTrip ==
    ASSUME NEW S, AllBytes \subseteq S,
           NEW id \in Int, -(IntRange \div 2) <= id, id < IntRange \div 2,
           NEW payload \in Seq(S), Len(Body(id, payload)) <= MaxFrame, NEW x \in Seq(S)
    PROVE  decode_frame(encode_frame(id, payload) \o x) = Frame(id, payload, x)
<1> DEFINE sx == encode_frame(id, payload) \o x
<1>1. decode_frame(sx) = Frame(Carries(id), payload, x)
    <2>1. ReadsFrame(id, payload, x)
        BY FrameReads
    <2>2. QED
        BY <2>1, Zenon DEF ReadsFrame
<1>2. Carries(id) = id
    BY CarriesAll
<1>3. QED
    BY <1>1, <1>2, Zenon

-----------------------------------------------------------------------------
(* Compressed frames are read as they were written *)

\* A body that is not written as it is still fits into a frame.
FitsCompressed(b) == Len(b) < MaxFrame /\ MaxPrefix + 2 <= MaxFrame

\* Nothing needs one byte.
LEMMA ZeroIs == Len(encode_var_int(0)) = 1 /\ Carries(0) = 0
<1> DEFINE u == 0 % IntRange
           k == Len(encode_var_int(0))
<1>1. /\ Radix \in Nat \ {0} /\ IntRange \in Nat \ {0} /\ MaxFrame \in Nat \ {0}
      /\ \A i \in 1..6 : Weight[i] \in Nat \ {0}
    BY Weights
<1>2. Needs(u, k)
    BY VarIntWritten
<1>3. u = 0
    BY <1>1
<1>4. Carries(0) = 0
    <2>1. 0 \in 0..MaxFrame
        BY <1>1
    <2>2. QED
        BY <2>1, LengthFits
<1> HIDE DEF u, k
<1>5. 1 \in 1..5 /\ u < Weight[1 + 1]
    BY <1>1, <1>3
<1>6. k \in 1..5 /\ k <= 1
    BY <1>2, <1>5 DEF Needs
<1>7. k = 1
    BY <1>6
<1>8. QED
    BY <1>4, <1>7, Zenon DEF k

\* The same, for whatever is behind the field.
ComesBack(S, kind, v) ==
  \A x \in Seq(S) : \A sx : sx = Cells(kind, v) \o x => TakeCells(kind, sx) = Got(v, x)

LEMMA CellsComeBack == \A S, kind, v : FieldIn(S, kind, v) => ComesBack(S, kind, v)
BY CellsBack, Zenon DEF ComesBack

\* A field with nothing behind it.
LEMMA CellsAlone ==
    ASSUME NEW S, NEW kind, NEW v, FieldIn(S, kind, v)
    PROVE  TakeCells(kind, Cells(kind, v)) = Got(v, <<>>)
<1> DEFINE c == Cells(kind, v)
<1>1. c \in Seq(S)
    BY CellsWritten
<1>2. <<>> \in Seq(S)
    BY Nothing
<1>3. ComesBack(S, kind, v)
    BY CellsComeBack, Zenon
<1>4. \A x \in Seq(S) : \A sx : sx = c \o x => TakeCells(kind, sx) = Got(v, x)
    BY <1>3, Zenon DEF ComesBack
<1> HIDE DEF c
<1>a. c \o <<>> = c
    BY <1>1, Nothing
<1>5. TakeCells(kind, c) = Got(v, <<>>)
    BY <1>2, <1>4, <1>a, Zenon
<1>6. QED
    BY <1>5 DEF c

\* What is written around a body.
Wrapped(b, t) ==
    IF Len(b) > t THEN encode_var_int(Len(b)) \o Cells("zlib", b) ELSE encode_var_int(0) \o b

LEMMA WrappedBack ==
    ASSUME NEW S, AllBytes \subseteq S, NEW b \in Seq(S), FieldIn(S, "zlib", b),
           Len(b) # 0, FitsCompressed(b), NEW t, NEW rest
    PROVE  /\ Wrapped(b, t) \in Seq(S) /\ Len(Wrapped(b, t)) <= MaxFrame
           /\ Inflated(Got(Wrapped(b, t), rest)) = Got(b, rest)
<1>1. MaxFrame \in Nat /\ Len(b) \in Nat /\ Len(b) < MaxFrame /\ 5 <= MaxFrame
    BY Weights, LenProperties DEF FitsCompressed, MaxPrefix
<1>2. CASE Len(b) > t
    <2> DEFINE n == Len(b)
               e == encode_var_int(n)
               z == Cells("zlib", b)
               c == e \o z
    <2>1. n \in 0..MaxFrame /\ n \in Int
        BY <1>1
    <2>2. Len(e) \in 1..MaxPrefix /\ Carries(n) = n
        BY <2>1, LengthFits
    <2>3. z \in Seq(S) /\ Len(z) = Width("zlib")
        BY CellsWritten
    <2>a. Width("zlib") = 2
        BY DEF Width
    <2>4. TakeCells("zlib", z) = Got(b, <<>>)
        BY CellsAlone
    <2> HIDE DEF n, z
    <2>5. e \in Seq(S) /\ decode_var_int(c) = Got(n, z)
        BY <2>1, <2>2, <2>3, VarIntBack
    <2> HIDE DEF e
    <2>6. c \in Seq(S) /\ Len(c) = Len(e) + Len(z)
        BY <2>3, <2>5, Joined
    <2>7. Wrapped(b, t) = c
        BY <1>2 DEF Wrapped, c, e, z, n
    <2> HIDE DEF c
    <2>8. Len(c) <= MaxFrame
        <3> DEFINE le == Len(e)
                   lc == Len(c)
        <3>1. le \in 1..3 /\ lc = le + 2
            BY <2>2, <2>3, <2>a, <2>6, Zenon DEF MaxPrefix
        <3> HIDE DEF le, lc
        <3>2. lc <= MaxFrame
            BY <1>1, <3>1
        <3>3. QED
            BY <3>2, Zenon DEF lc
    <2>9. Inflated(Got(c, rest)) = Unpacked(Got(n, z), rest)
        BY <2>5, GotIs DEF Inflated
    <2>10. Unpacked(Got(n, z), rest) = Unzipped(TakeCells("zlib", z), n, rest)
        <3>1. ~(n < 0) /\ n # 0
            BY <1>1 DEF n
        <3>2. QED
            BY <3>1, GotIs DEF Unpacked
    <2>11. Unzipped(Got(b, <<>>), n, rest) = Got(b, rest)
        BY GotIs DEF Unzipped, n
    <2>12. QED
        BY <2>4, <2>6, <2>7, <2>8, <2>9, <2>10, <2>11, Zenon
<1>3. CASE ~(Len(b) > t)
    <2> DEFINE e == encode_var_int(0)
               c == e \o b
    <2>1. Len(e) = 1 /\ Carries(0) = 0 /\ 0 \in Int
        BY ZeroIs
    <2>2. e \in Seq(S) /\ decode_var_int(c) = Got(0, b)
        BY <2>1, VarIntBack
    <2> HIDE DEF e
    <2>3. c \in Seq(S) /\ Len(c) = Len(e) + Len(b)
        BY <2>2, Joined
    <2>4. Wrapped(b, t) = c
        BY <1>3 DEF Wrapped, c, e
    <2> HIDE DEF c
    <2>5. Len(c) <= MaxFrame
        <3> DEFINE lb == Len(b)
                   lc == Len(c)
        <3>1. lc = 1 + lb
            BY <2>1, <2>3, Zenon
        <3>2. lb \in Nat /\ lb < MaxFrame
            BY <1>1
        <3> HIDE DEF lb, lc
        <3>3. lc <= MaxFrame
            BY <1>1, <3>1, <3>2
        <3>4. QED
            BY <3>3, Zenon DEF lc
    <2>6. Inflated(Got(c, rest)) = Unpacked(Got(0, b), rest)
        BY <2>2, GotIs DEF Inflated
    <2>7. Unpacked(Got(0, b), rest) = Got(b, rest)
        BY GotIs DEF Unpacked
    <2>8. QED
        BY <2>3, <2>4, <2>5, <2>6, <2>7, Zenon
<1>4. QED
    BY <1>2, <1>3

\* A frame that is read as r at this threshold, where x is behind it.
ReadsBack(S, t, f, x, r) ==
    f \in Seq(S) /\ \A sx : sx = f \o x => decode_compressed_frame(sx, t) = r

LEMMA CompressedBack ==
    ASSUME NEW S, AllBytes \subseteq S, NEW id \in Int, NEW payload \in Seq(S),
           FieldIn(S, "zlib", Body(id, payload)),
           FitsCompressed(Body(id, payload)), NEW t \in Int, NEW x \in Seq(S)
    PROVE  ReadsBack(S, t, encode_compressed_frame(id, payload, t), x, Frame(Carries(id), payload, x))
<1> DEFINE b == Body(id, payload)
           f == encode_compressed_frame(id, payload, t)
<1>1. b \in Seq(S) /\ Len(b) \in Nat \ {0} /\ MaxFrame \in Nat
    BY BodyIs, Weights
<1>2. CASE t < 0
    <2>1. f = encode_frame(id, payload)
        BY <1>2 DEF encode_compressed_frame
    <2>2. Len(Body(id, payload)) <= MaxFrame
        BY <1>1 DEF FitsCompressed
    <2>3. /\ encode_frame(id, payload) \in Seq(S)
          /\ \A sx : sx = encode_frame(id, payload) \o x =>
                decode_frame(sx) = Frame(Carries(id), payload, x)
        <3>1. encode_frame(id, payload) \in Seq(S)
            BY <2>2, FrameBack
        <3>2. ReadsFrame(id, payload, x)
            BY <2>2, FrameReads
        <3>3. QED
            BY <3>1, <3>2, Zenon DEF ReadsFrame
    <2>4. \A sx : decode_compressed_frame(sx, t) = decode_frame(sx)
        BY <1>2 DEF decode_compressed_frame
    <2> HIDE DEF f
    <2>5. \A sx : sx = f \o x => decode_compressed_frame(sx, t) = Frame(Carries(id), payload, x)
        BY <2>1, <2>3, <2>4, Zenon
    <2>6. f \in Seq(S)
        BY <2>1, <2>3
    <2>7. QED
        BY <2>5, <2>6, Zenon DEF f, ReadsBack
<1>3. CASE ~(t < 0)
    <2> DEFINE w == Wrapped(b, t)
               e == encode_var_int(Len(w))
    <2>1. w \in Seq(S) /\ Len(w) <= MaxFrame /\ Inflated(Got(w, x)) = Got(b, x)
        BY <1>1, WrappedBack
    <2>2. f = encode_raw_frame(w)
        <3>1. encode_var_int(id) \o payload = b
            BY DEF Body
        <3> HIDE DEF b
        <3>2. f = IF Len(b) > t THEN encode_raw_frame(encode_var_int(Len(b)) \o Cells("zlib", b))
                  ELSE encode_raw_frame(encode_var_int(0) \o b)
            BY <1>3, <3>1, Zenon DEF encode_compressed_frame
        <3> HIDE DEF f
        <3>3. QED
            BY <3>2, Zenon DEF Wrapped
    <2> HIDE DEF w, f
    <2>3. f = e \o w
        <3>1. Len(w) \in Nat
            BY <2>1, LenProperties
        <3>2. ~(Len(w) > MaxFrame)
            BY <1>1, <2>1, <3>1
        <3>3. QED
            BY <2>2, <3>2, Zenon DEF encode_raw_frame
    <2>4. \A sx : sx = (e \o w) \o x => FrameBody(sx, FALSE) = Got(w, x)
        BY <2>1, BodyBack
    <2>5. PacketIn(Got(b, x)) = Frame(Carries(id), payload, x)
        BY PacketBack DEF Body
    <2>6. \A sx : decode_compressed_frame(sx, t) = PacketIn(Inflated(FrameBody(sx, FALSE)))
        BY <1>3 DEF decode_compressed_frame, decode_raw_frame
    <2> HIDE DEF b, e
    <2>7. \A sx : sx = f \o x => decode_compressed_frame(sx, t) = Frame(Carries(id), payload, x)
        BY <2>1, <2>3, <2>4, <2>5, <2>6, Zenon
    <2>8. f \in Seq(S)
        <3>1. e \in Seq(S)
            <4>1. Len(w) \in Int
                BY <2>1, LenProperties
            <4>2. QED
                BY <2>1, <4>1, VarIntBack DEF e
        <3>2. QED
            BY <2>1, <2>3, <3>1, Joined
    <2>9. QED
        BY <2>7, <2>8, Zenon DEF f, ReadsBack
<1>4. QED
    BY <1>2, <1>3

\* The same with compression, whatever the threshold: below it the body goes as
\* it is, above it through zlib.  (compression.rs)
THEOREM CompressedRoundTrip ==
    ASSUME NEW S, AllBytes \subseteq S,
           NEW id \in Int, -(IntRange \div 2) <= id, id < IntRange \div 2,
           NEW payload \in Seq(S), FieldIn(S, "zlib", Body(id, payload)),
           FitsCompressed(Body(id, payload)), NEW t \in Int, NEW x \in Seq(S)
    PROVE  decode_compressed_frame(encode_compressed_frame(id, payload, t) \o x, t)
             = Frame(id, payload, x)
<1>1. Carries(id) = id
    BY CarriesAll
<1>2. ReadsBack(S, t, encode_compressed_frame(id, payload, t), x, Frame(Carries(id), payload, x))
    BY CompressedBack
<1>3. QED
    BY <1>1, <1>2, Zenon DEF ReadsBack

-----------------------------------------------------------------------------
(* A layout is read field by field *)

\* What is read up to the next field, from what has been read up to this one.
ReadField(it, s, packet) == ReadItem(Read3, it, s, packet)

Advance(layout, r, i) ==
    IF r.st = "got" THEN WithField(layout[i], r.value, ReadField(layout[i], r.rest, r.value)) ELSE r

IsRead(f, layout, s, n) ==
    f = [i \in 0..n |-> IF i = 0 THEN Got(<<>>, s) ELSE Advance(layout, f[i - 1], i)]

ReadTo(layout, s) == CHOOSE f : IsRead(f, layout, s, Len(layout))

LEMMA ReadIs == \A layout, s : Read(layout, s) = ReadTo(layout, s)[Len(layout)]
BY DEF Read, ReadAll, ReadTo, IsRead, Advance, ReadField

LEMMA ReadExists ==
    ASSUME NEW layout, NEW s
    PROVE  \A n \in Nat : \E f : IsRead(f, layout, s, n)
<1> DEFINE T == {n \in Nat : \E f : IsRead(f, layout, s, n)}
           first == Got(<<>>, s)
           Adv(t, i) == Advance(layout, t, i)
<1>0. \A f, n : IsRead(f, layout, s, n) <=> f = [i \in 0..n |-> IF i = 0 THEN first ELSE Adv(f[i - 1], i)]
    BY DEF IsRead
<1> HIDE DEF first, Adv
<1>1. 0 \in T
    <2> DEFINE f == [i \in 0..0 |-> first]
               g == [i \in 0..0 |-> IF i = 0 THEN first ELSE Adv(f[i - 1], i)]
    <2>1. \A i \in 0..0 : i = 0
        OBVIOUS
    <2>2. f = g
        BY <2>1
    <2>3. IsRead(f, layout, s, 0)
        BY <1>0, <2>2
    <2>4. QED
        BY <2>3
<1>2. ASSUME NEW n \in Nat, n \in T PROVE n + 1 \in T
    <2>1. PICK f : IsRead(f, layout, s, n)
        BY <1>2
    <2>2. f = [i \in 0..n |-> IF i = 0 THEN first ELSE Adv(f[i - 1], i)]
        BY <1>0, <2>1
    <2> DEFINE g == [i \in 0..(n + 1) |-> IF i = n + 1 THEN Adv(f[i - 1], i) ELSE f[i]]
               h == [i \in 0..(n + 1) |-> IF i = 0 THEN first ELSE Adv(g[i - 1], i)]
    <2>3. ASSUME NEW i \in 0..(n + 1) PROVE g[i] = h[i]
        <3>a. g[i] = IF i = n + 1 THEN Adv(f[i - 1], i) ELSE f[i]
            OBVIOUS
        <3>b. h[i] = IF i = 0 THEN first ELSE Adv(g[i - 1], i)
            OBVIOUS
        <3>0. i # 0 => g[i - 1] = f[i - 1]
            <4>1. i # 0 => i - 1 \in 0..(n + 1) /\ i - 1 # n + 1
                OBVIOUS
            <4>2. QED
                BY <4>1
        <3>c. i # n + 1 => f[i] = IF i = 0 THEN first ELSE Adv(f[i - 1], i)
            <4>1. i # n + 1 => i \in 0..n
                OBVIOUS
            <4>2. QED
                BY <2>2, <4>1
        <3>d. ~(i = 0 /\ i = n + 1)
            OBVIOUS
        <3> HIDE DEF g, h
        <3>1. QED
            BY <3>a, <3>b, <3>0, <3>c, <3>d, Zenon
    <2>4. g = h
        BY <2>3
    <2> HIDE DEF g
    <2>5. IsRead(g, layout, s, n + 1)
        BY <1>0, <2>4
    <2>6. QED
        BY <2>5
<1> HIDE DEF T
<1>3. Nat \subseteq T
    BY <1>1, <1>2, Induction
<1>4. QED
    BY <1>3 DEF T

LEMMA ReadSteps ==
    ASSUME NEW layout, NEW s, Len(layout) \in Nat
    PROVE  /\ ReadTo(layout, s)[0] = Got(<<>>, s)
           /\ \A i \in 1..Len(layout) :
                ReadTo(layout, s)[i] = Advance(layout, ReadTo(layout, s)[i - 1], i)
<1> DEFINE m == Len(layout)
           t == ReadTo(layout, s)
           first == Got(<<>>, s)
           Adv(r, i) == Advance(layout, r, i)
<1>1. IsRead(t, layout, s, m)
    <2>1. \E f : IsRead(f, layout, s, m)
        BY ReadExists
    <2>2. QED
        BY <2>1, Zenon DEF ReadTo
<1>2. t = [i \in 0..m |-> IF i = 0 THEN first ELSE Adv(t[i - 1], i)]
    BY <1>1 DEF IsRead
<1> HIDE DEF t, first, Adv
<1>4. t[0] = first
    <2>1. 0 \in 0..m
        OBVIOUS
    <2>2. QED
        BY <1>2, <2>1
<1>5. \A i \in 1..m : t[i] = Adv(t[i - 1], i)
    <2>1. \A i \in 1..m : i \in 0..m /\ i # 0
        OBVIOUS
    <2> HIDE DEF m
    <2>2. QED
        BY <1>2, <2>1
<1>6. QED
    BY <1>4, <1>5 DEF first, Adv, t

\* What is behind a place of sequences in a row.
LEMMA FlattenNext ==
    ASSUME NEW S, NEW q \in Seq(Seq(S)), NEW n \in 0..Len(q)
    PROVE  /\ FlattenSeq(Behind(q, n)) \in Seq(S)
           /\ n < Len(q) => /\ q[n + 1] \in Seq(S)
                            /\ FlattenSeq(Behind(q, n)) = q[n + 1] \o FlattenSeq(Behind(q, n + 1))
           /\ FlattenSeq(Behind(q, 0)) = FlattenSeq(q)
           /\ FlattenSeq(Behind(q, Len(q))) = <<>>
<1> DEFINE C == Seq(S)
<1>0. Len(q) \in Nat /\ 0 \in 0..Len(q) /\ Len(q) \in 0..Len(q)
    BY LenProperties
<1>1. Behind(q, n) \in Seq(C)
    BY BehindIs
<1>2. FlattenSeq(Behind(q, n)) \in C
    BY <1>1, FlattenConcat
<1>3. ASSUME n < Len(q)
      PROVE  q[n + 1] \in C /\ FlattenSeq(Behind(q, n)) = q[n + 1] \o FlattenSeq(Behind(q, n + 1))
    <2> DEFINE b == Behind(q, n)
               f == q[n + 1]
               o == <<f>>
               c == Behind(q, n + 1)
    <2>1. f \in C /\ n + 1 \in 0..Len(q) /\ b = o \o c
        BY <1>3, BehindNext
    <2>2. c \in Seq(C)
        BY <2>1, BehindIs
    <2>3. FlattenSeq(o) = f
        BY <2>1, FlattenOne
    <2> HIDE DEF b, f, c
    <2>4. o \in Seq(C)
        BY <2>1
    <2> HIDE DEF o
    <2>5. FlattenSeq(o \o c) = FlattenSeq(o) \o FlattenSeq(c)
        BY <2>2, <2>4, FlattenConcat
    <2>6. FlattenSeq(b) = f \o FlattenSeq(c)
        BY <2>1, <2>3, <2>5, Zenon
    <2>7. QED
        BY <2>1, <2>6 DEF b, f, c
<1>4. Behind(q, 0) = q /\ Behind(q, Len(q)) = <<>>
    BY BehindAll
<1>5. FlattenSeq(<<>>) = <<>>
    <2>1. <<>> \in Seq(S)
        BY EmptySeq
    <2>2. QED
        BY <2>1, FlattenOne
<1>6. QED
    BY <1>2, <1>3, <1>4, <1>5

-----------------------------------------------------------------------------
(* Layouts are read as they were written *)

\* What is kept of a layout, by its name.
IsField(it) == it.op \notin {"const", "ignored"}

Distinct(layout) ==
    \A i, j \in 1..Len(layout) :
      IsField(layout[i]) /\ IsField(layout[j]) /\ layout[i].name = layout[j].name => i = j

\* The packet has the first n fields, with these values.
Holds(q, layout, vs, n) ==
    /\ q = [f \in {layout[j].name : j \in {i \in 1..n : IsField(layout[i])}} |-> q[f]]
    /\ \A j \in 1..n : IsField(layout[j]) => q[layout[j].name] = vs[j]

\* A field whose cells are c is read as v where y is behind it, whatever the
\* packet has so far.
FieldBack(layout, vs, i, c, y) ==
    /\ Accepts(layout[i], vs[i])
    /\ \A q, sx : Holds(q, layout, vs, i - 1) /\ sx = c \o y =>
         ReadField(layout[i], sx, q) = Got(vs[i], y)

LEMMA HoldsNone == \A layout, vs : Holds(<<>>, layout, vs, 0)
<1> SUFFICES ASSUME NEW layout, NEW vs PROVE Holds(<<>>, layout, vs, 0)
    OBVIOUS
<1>1. DOMAIN <<>> = {}
    OBVIOUS
<1>2. 1..0 = {}
    OBVIOUS
<1>3. {layout[j].name : j \in {i \in 1..0 : IsField(layout[i])}} = {}
    BY <1>2
<1> DEFINE e == [f \in {} |-> <<>>[f]]
<1>4. e = <<>>
    BY <1>1
<1>5. QED
    BY <1>2, <1>3, <1>4 DEF Holds

LEMMA HoldsNext ==
    ASSUME NEW layout, NEW vs, Len(layout) \in Nat, Distinct(layout),
           NEW i \in 1..Len(layout), NEW q, Holds(q, layout, vs, i - 1), NEW y,
           Accepts(layout[i], vs[i])
    PROVE  \E p : WithField(layout[i], q, Got(vs[i], y)) = Got(p, y) /\ Holds(p, layout, vs, i)
<1> DEFINE it == layout[i]
           n == it.name
           v == vs[i]
           L == Len(layout)
           F(k) == {layout[j].name : j \in {l \in 1..k : IsField(layout[l])}}
<1>0. i \in 1..L /\ L \in Nat
    OBVIOUS
<1>1. WithField(it, q, Got(v, y)) =
        IF it.op \in {"const", "ignored"} THEN Got(q, y) ELSE Got(Extended(q, n, v), y)
    BY GotIs DEF WithField
<1>2. q = [f \in F(i - 1) |-> q[f]] /\ \A j \in 1..(i - 1) : IsField(layout[j]) => q[layout[j].name] = vs[j]
    BY DEF Holds
<1>3. \A j \in 1..i : j \in 1..(i - 1) \/ j = i
    BY <1>0
<1>4. i \in 1..i /\ \A j \in 1..(i - 1) : j \in 1..i
    BY <1>0
<1>5. CASE ~IsField(it)
    <2>1. F(i) = F(i - 1)
        BY <1>3, <1>4, <1>5
    <2>2. \A j \in 1..i : IsField(layout[j]) => j \in 1..(i - 1)
        BY <1>3, <1>5
    <2>3. Holds(q, layout, vs, i)
        BY <1>2, <2>1, <2>2 DEF Holds
    <2>4. WithField(it, q, Got(v, y)) = Got(q, y)
        BY <1>1, <1>5 DEF IsField
    <2>5. QED
        BY <2>3, <2>4
<1>6. CASE IsField(it)
    <2> DEFINE p == Extended(q, n, v)
    <2>1. F(i) = F(i - 1) \cup {n}
        BY <1>3, <1>4, <1>6
    <2>2. n \notin F(i - 1)
        <3>1. \A j \in 1..(i - 1) : j \in 1..L /\ j # i
            BY <1>0
        <3>2. \A j \in 1..(i - 1) : IsField(layout[j]) => layout[j].name # n
            BY <1>0, <1>6, <3>1 DEF Distinct
        <3>3. QED
            BY <3>2
    <2>3. /\ DOMAIN p = DOMAIN q \cup {n}
          /\ p[n] = v
          /\ \A m \in DOMAIN q : m # n => p[m] = q[m]
        BY DEF Extended
    <2>4. WithField(it, q, Got(v, y)) = Got(p, y)
        BY <1>1, <1>6 DEF IsField
    <2> HIDE DEF p
    <2>5. p = [f \in F(i) |-> p[f]]
        BY <1>2, <2>1 DEF p, Extended
    <2>6. ASSUME NEW j \in 1..i, IsField(layout[j]) PROVE p[layout[j].name] = vs[j]
        <3>1. CASE j = i
            BY <1>2, <2>2, <2>3, <3>1
        <3>2. CASE j # i
            <4>1. j \in 1..(i - 1)
                BY <1>3, <3>2
            <4>2. layout[j].name \in F(i - 1)
                BY <2>6, <4>1
            <4>3. p[layout[j].name] = q[layout[j].name]
                BY <1>2, <2>2, <2>3, <4>2
            <4>4. QED
                BY <1>2, <2>6, <4>1, <4>3
        <3>3. QED
            BY <3>1, <3>2
    <2>7. Holds(p, layout, vs, i)
        BY <2>5, <2>6 DEF Holds
    <2>8. QED
        BY <2>4, <2>7
<1>7. QED
    BY <1>5, <1>6

LEMMA LayoutBack ==
    ASSUME NEW S, NEW layout, Len(layout) \in Nat, Distinct(layout), NEW vs,
           NEW cs \in Seq(Seq(S)), Len(cs) = Len(layout),
           \A i \in 1..Len(layout) : FieldBack(layout, vs, i, cs[i], FlattenSeq(Behind(cs, i)))
    PROVE  \E q : Read(layout, FlattenSeq(cs)) = Got(q, <<>>) /\ Holds(q, layout, vs, Len(layout))
<1> DEFINE m == Len(layout)
           s == FlattenSeq(cs)
           f == ReadTo(layout, s)
           Left(i) == FlattenSeq(Behind(cs, i))
           T == {n \in Nat : n <= m => \E q : f[n] = Got(q, Left(n)) /\ Holds(q, layout, vs, n)}
<1>1. /\ f[0] = Got(<<>>, s)
      /\ \A i \in 1..m : f[i] = Advance(layout, f[i - 1], i)
    BY ReadSteps
<1>2. m \in Nat /\ 0 \in 0..m /\ m = Len(cs)
    OBVIOUS
<1>3. Left(0) = s /\ Left(m) = <<>>
    BY <1>2, FlattenNext
<1>4. \A n \in 0..m : n < m => Left(n) = cs[n + 1] \o Left(n + 1)
    BY <1>2, FlattenNext
<1>5. \A i \in 1..m : FieldBack(layout, vs, i, cs[i], Left(i))
    OBVIOUS
<1> HIDE DEF f, s, Left
<1>6. 0 \in T
    BY <1>1, <1>3, HoldsNone
<1>7. ASSUME NEW n \in Nat, n \in T PROVE n + 1 \in T
    <2>1. CASE n + 1 <= m
        <3> DEFINE i == n + 1
        <3>1. n <= m /\ n < m /\ n \in 0..m /\ i \in 1..m /\ i - 1 = n
            BY <1>2, <2>1
        <3>2. PICK q : f[n] = Got(q, Left(n)) /\ Holds(q, layout, vs, n)
            BY <1>7, <3>1
        <3>3. f[i] = Advance(layout, f[n], i)
            BY <1>1, <3>1
        <3>4. Left(n) = cs[i] \o Left(i)
            BY <1>4, <3>1
        <3>5. FieldBack(layout, vs, i, cs[i], Left(i))
            BY <1>5, <3>1
        <3> HIDE DEF i
        <3>6. Accepts(layout[i], vs[i]) /\ ReadField(layout[i], Left(n), q) = Got(vs[i], Left(i))
            <4>1. Holds(q, layout, vs, i - 1)
                BY <3>1, <3>2, Zenon
            <4>2. QED
                BY <3>4, <3>5, <4>1, Zenon DEF FieldBack
        <3>7. f[i] = WithField(layout[i], q, Got(vs[i], Left(i)))
            BY <3>2, <3>3, <3>6, GotIs DEF Advance
        <3>8. \E p : WithField(layout[i], q, Got(vs[i], Left(i))) = Got(p, Left(i)) /\ Holds(p, layout, vs, i)
            <4>1. Holds(q, layout, vs, i - 1)
                BY <3>1, <3>2, Zenon
            <4>2. QED
                BY <1>2, <3>1, <3>6, <4>1, HoldsNext
        <3>9. \E p : f[i] = Got(p, Left(i)) /\ Holds(p, layout, vs, i)
            BY <3>7, <3>8, Zenon
        <3>10. QED
            BY <3>9 DEF i
    <2>2. QED
        BY <2>1
<1> HIDE DEF T
<1>8. Nat \subseteq T
    BY <1>6, <1>7, Induction
<1>9. \E q : f[m] = Got(q, Left(m)) /\ Holds(q, layout, vs, m)
    BY <1>2, <1>8 DEF T
<1>10. QED
    BY <1>3, <1>9, ReadIs DEF f, s

-----------------------------------------------------------------------------
(* Each plain field is read as it was written *)

CellKinds == {"u16", "i16", "i64", "f32", "f64", "bool", "i8", "u8", "i32", "uuid", "bytes", "string"}

LEMMA CellFieldIs ==
    ASSUME NEW it, it.op \in CellKinds, NEW p
    PROVE  /\ Before(it, p) = Cells(it.op, p[it.name]) /\ NestedIn(it, p) = <<>> /\ IsField(it)
           /\ \A s, q : ReadField(it, s, q) = TakeCells(it.op, s)
<1> USE DEF CellKinds
<1>1. Kind(it) = it.op /\ IsField(it)
    BY DEF Kind, IsField
<1>2. Before(it, p) = Cells(it.op, p[it.name])
    BY <1>1 DEF Before
<1>3. NestedIn(it, p) = <<>>
    BY DEF NestedIn
<1>4. ASSUME NEW s, NEW q PROVE ReadField(it, s, q) = TakeCells(it.op, s)
    BY <1>1 DEF ReadField, ReadItem, Nested
<1>5. QED
    BY <1>1, <1>2, <1>3, <1>4

LEMMA VarIntFieldIs ==
    ASSUME NEW it, it.op = "varint", NEW p
    PROVE  /\ Before(it, p) = encode_var_int(p[it.name]) /\ NestedIn(it, p) = <<>> /\ IsField(it)
           /\ \A s, q : ReadField(it, s, q) = decode_var_int(s)
<1>1. Kind(it) = it.op /\ IsField(it)
    BY DEF Kind, IsField
<1>2. Before(it, p) = encode_var_int(p[it.name])
    BY <1>1 DEF Before
<1>3. NestedIn(it, p) = <<>>
    BY DEF NestedIn
<1>4. ASSUME NEW s, NEW q PROVE ReadField(it, s, q) = decode_var_int(s)
    BY <1>1 DEF ReadField, ReadItem, Nested
<1>5. QED
    BY <1>1, <1>2, <1>3, <1>4

LEMMA PositionFieldIs ==
    ASSUME NEW it, it.op = "position", NEW p
    PROVE  /\ Before(it, p) = encode_position(p[it.name]) /\ NestedIn(it, p) = <<>> /\ IsField(it)
           /\ \A s, q : ReadField(it, s, q) = decode_position(s)
<1>1. Kind(it) = it.op /\ IsField(it)
    BY DEF Kind, IsField
<1>2. Before(it, p) = encode_position(p[it.name])
    BY <1>1 DEF Before
<1>3. NestedIn(it, p) = <<>>
    BY DEF NestedIn
<1>4. ASSUME NEW s, NEW q PROVE ReadField(it, s, q) = decode_position(s)
    BY <1>1 DEF ReadField, ReadItem, Nested
<1>5. QED
    BY <1>1, <1>2, <1>3, <1>4

-----------------------------------------------------------------------------
(* Packed positions are read as they were written *)

Within(v, range) == v \in Int /\ -(range \div 2) <= v /\ v < range \div 2

IsPosition(p) ==
    /\ p = [x |-> p.x, y |-> p.y, z |-> p.z]
    /\ Within(p.x, PlaneRange) /\ Within(p.y, HeightRange) /\ Within(p.z, PlaneRange)

\* The number a position is packed into.
Packed(p) == ((p.x % PlaneRange) * PlaneRange + (p.z % PlaneRange)) * HeightRange + (p.y % HeightRange)

LEMMA PackedApart ==
    ASSUME NEW p, IsPosition(p)
    PROVE  LET n == Packed(p)
               xz == n \div HeightRange
           IN /\ Signed(xz \div PlaneRange, PlaneRange) = p.x
              /\ Signed(n % HeightRange, HeightRange) = p.y
              /\ Signed(xz % PlaneRange, PlaneRange) = p.z
<1> DEFINE P == PlaneRange
           H == HeightRange
           x == p.x % P
           y == p.y % H
           z == p.z % P
           w == P * x + z
           n == Packed(p)
<1>1. P \in Nat \ {0} /\ H \in Nat \ {0} /\ P % 2 = 0 /\ H % 2 = 0
    BY Weights
<1>2. p.x \in Int /\ p.y \in Int /\ p.z \in Int
    BY DEF IsPosition, Within
<1>3. Signed(x, P) = p.x /\ Signed(y, H) = p.y /\ Signed(z, P) = p.z
    BY <1>1, SignedBack DEF IsPosition, Within
<1>4. x \in 0..(P - 1) /\ z \in 0..(P - 1) /\ y \in 0..(H - 1)
    BY <1>1, <1>2, RemainderIs
<1>5. n = (x * P + z) * H + y
    BY DEF Packed
<1> HIDE DEF x, y, z, P, H, n
<1>6. w \in Nat /\ w \div P = x /\ w % P = z
    <2>1. x \in Nat /\ z \in 0..(P - 1) /\ P \in Nat \ {0}
        BY <1>1, <1>4
    <2>2. w = P * x + z
        OBVIOUS
    <2> HIDE DEF w
    <2>3. QED
        BY <2>1, <2>2, DivisionUnique
<1>7. n = H * w + y
    BY <1>1, <1>4, <1>5
<1> HIDE DEF w
<1>8. n \div H = w /\ n % H = y
    BY <1>1, <1>4, <1>6, <1>7, DivisionUnique
<1>9. QED
    BY <1>3, <1>6, <1>8 DEF n, P, H

LEMMA PositionBack ==
    ASSUME NEW S, NEW p, IsPosition(p), FieldIn(S, "position", Packed(p)), NEW y \in Seq(S)
    PROVE  /\ encode_position(p) \in Seq(S)
           /\ \A sx : sx = encode_position(p) \o y => decode_position(sx) = Got(p, y)
<1> DEFINE n == Packed(p)
           c == Cells("position", n)
<1>1. encode_position(p) = c
    BY DEF encode_position, Packed
<1>2. c \in Seq(S)
    BY CellsWritten
<1>3. ComesBack(S, "position", n)
    BY CellsComeBack
<1>4. \A sx : sx = c \o y => TakeCells("position", sx) = Got(n, y)
    BY <1>3, Zenon DEF ComesBack
<1>5. LET xz == n \div HeightRange
      IN [x |-> Signed(xz \div PlaneRange, PlaneRange),
          y |-> Signed(n % HeightRange, HeightRange),
          z |-> Signed(xz % PlaneRange, PlaneRange)] = p
    BY PackedApart DEF IsPosition
<1> HIDE DEF n, c
<1>6. ASSUME NEW sx, TakeCells("position", sx) = Got(n, y) PROVE decode_position(sx) = Got(p, y)
    BY <1>5, <1>6, GotIs DEF decode_position
<1>7. \A sx : sx = c \o y => decode_position(sx) = Got(p, y)
    BY <1>4, <1>6, Zenon
<1>8. QED
    BY <1>1, <1>2, <1>7, Zenon

\* A block position is unpacked as it was packed, with both signs and up to the
\* ends of its ranges.  (primitives.rs)
THEOREM PositionRoundTrip ==
    ASSUME NEW S, NEW p, IsPosition(p), FieldIn(S, "position", Packed(p)), NEW y \in Seq(S)
    PROVE  decode_position(encode_position(p) \o y) = Got(p, y)
BY PositionBack

-----------------------------------------------------------------------------
(* Packets of plain fields are read as they were written *)

\* What is read of a field that holds v.
ReadBack(it, v) == IF it.op = "varint" THEN Carries(v) ELSE v

\* What a field may hold, and what may be repeated is not.
FieldFits(S, it, v) ==
    /\ Accepts(it, ReadBack(it, v))
    /\ \/ it.op \in CellKinds /\ FieldIn(S, it.op, v)
       \/ it.op = "varint" /\ v \in Int
       \/ it.op = "position" /\ IsPosition(v) /\ FieldIn(S, "position", Packed(v))
       \/ it.op = "many" /\ v = <<>>

NoTimes(f, sub, s) == f = [i \in 0..0 |-> IF i = 0 THEN Got(<<>>, s)
                             ELSE IF f[i - 1].st = "got" THEN Added(f[i - 1].value, Read3(sub, f[i - 1].rest))
                                  ELSE f[i - 1]]

LEMMA ReadNoTimes == \A sub, s : ReadTimes(Read3, 0, sub, s) = Got(<<>>, s)
<1> SUFFICES ASSUME NEW sub, NEW s PROVE ReadTimes(Read3, 0, sub, s) = Got(<<>>, s)
    OBVIOUS
<1> DEFINE g == CHOOSE f : NoTimes(f, sub, s)
<1>1. ReadTimes(Read3, 0, sub, s) = g[0]
    BY DEF ReadTimes, NoTimes
<1>2. \E f : NoTimes(f, sub, s)
    <2> DEFINE f == [i \in 0..0 |-> Got(<<>>, s)]
               h == [i \in 0..0 |-> IF i = 0 THEN Got(<<>>, s)
                             ELSE IF f[i - 1].st = "got" THEN Added(f[i - 1].value, Read3(sub, f[i - 1].rest))
                                  ELSE f[i - 1]]
    <2>1. \A i \in 0..0 : i = 0
        OBVIOUS
    <2>2. f = h
        BY <2>1
    <2>3. NoTimes(f, sub, s)
        BY <2>2 DEF NoTimes
    <2>4. QED
        BY <2>3
<1>3. NoTimes(g, sub, s)
    BY <1>2, Zenon
<1> HIDE DEF g
<1>4. 0 \in 0..0
    OBVIOUS
<1>5. g[0] = Got(<<>>, s)
    BY <1>3, <1>4 DEF NoTimes
<1>6. QED
    BY <1>1, <1>5

LEMMA ManyFieldIs ==
    ASSUME NEW it, it.op = "many", NEW p, p[it.name] = <<>>
    PROVE  /\ Before(it, p) = encode_var_int(0) /\ NestedIn(it, p) = <<>> /\ IsField(it)
           /\ \A s, q, rest : decode_var_int(s) = Got(0, rest) => ReadField(it, s, q) = Got(<<>>, rest)
<1>1. Kind(it) = "many" /\ IsField(it)
    BY DEF Kind, IsField
<1>2. Before(it, p) = encode_var_int(0)
    <2>1. Len(<<>>) = 0
        OBVIOUS
    <2>2. QED
        BY <1>1, <2>1 DEF Before
<1>3. NestedIn(it, p) = <<>>
    BY DEF NestedIn
<1>4. ASSUME NEW s, NEW q, NEW rest, decode_var_int(s) = Got(0, rest)
      PROVE  ReadField(it, s, q) = Got(<<>>, rest)
    <2>1. ReadField(it, s, q) = ReadParts(Read3, it, ReadCount(it, s, q))
        BY <1>1 DEF ReadField, ReadItem, Nested
    <2>2. ReadCount(it, s, q) = Got(0, rest)
        BY <1>4, GotIs DEF ReadCount, Counted
    <2>3. ReadParts(Read3, it, Got(0, rest)) = Gathered(it, ReadTimes(Read3, 0, it.sub, rest))
        BY GotIs DEF ReadParts
    <2>4. Gathered(it, Got(<<>>, rest)) = Got(<<>>, rest)
        BY DEF Gathered
    <2>5. ReadTimes(Read3, 0, it.sub, rest) = Got(<<>>, rest)
        BY ReadNoTimes
    <2>6. QED
        BY <2>1, <2>2, <2>3, <2>4, <2>5
<1>5. QED
    BY <1>1, <1>2, <1>3, <1>4

LEMMA FieldIs ==
    ASSUME NEW S, AllBytes \subseteq S, NEW it, NEW p, FieldFits(S, it, p[it.name]), NEW y \in Seq(S)
    PROVE  /\ Before(it, p) \in Seq(S) /\ NestedIn(it, p) = <<>> /\ IsField(it)
           /\ Len(Before(it, p)) \in 1..5
           /\ \A sx : sx = Before(it, p) \o y =>
                \A q : ReadField(it, sx, q) = Got(ReadBack(it, p[it.name]), y)
<1> DEFINE v == p[it.name]
           c == Before(it, p)
           b == ReadBack(it, p[it.name])
<1>1. CASE it.op \in CellKinds /\ FieldIn(S, it.op, v)
    <2>1. /\ c = Cells(it.op, v) /\ NestedIn(it, p) = <<>> /\ IsField(it)
          /\ \A s, q : ReadField(it, s, q) = TakeCells(it.op, s)
        BY <1>1, CellFieldIs
    <2>2. ComesBack(S, it.op, v)
        BY <1>1, CellsComeBack
    <2>3. Cells(it.op, v) \in Seq(S) /\ Len(Cells(it.op, v)) \in 1..2
        BY <1>1, CellsWritten
    <2>4. \A sx : sx = Cells(it.op, v) \o y => TakeCells(it.op, sx) = Got(v, y)
        BY <2>2, Zenon DEF ComesBack
    <2>5. b = v
        BY <1>1 DEF ReadBack, CellKinds
    <2> HIDE DEF c, b
    <2>6. Len(c) \in 1..5
        BY <2>1, <2>3
    <2>7. QED
        BY <2>1, <2>3, <2>4, <2>5, <2>6, Zenon DEF c, b
<1>2. CASE it.op = "varint" /\ v \in Int
    <2>1. /\ c = encode_var_int(v) /\ NestedIn(it, p) = <<>> /\ IsField(it)
          /\ \A s, q : ReadField(it, s, q) = decode_var_int(s)
        BY <1>2, VarIntFieldIs
    <2>2. b = Carries(v)
        BY <1>2 DEF ReadBack
    <2>3. /\ encode_var_int(v) \in Seq(S) /\ Len(encode_var_int(v)) \in 1..5
          /\ \A sx : sx = encode_var_int(v) \o y => decode_var_int(sx) = Got(Carries(v), y)
        BY <1>2, VarIntBack
    <2> HIDE DEF c, b
    <2>4. QED
        BY <2>1, <2>2, <2>3, Zenon DEF c, b
<1>3. CASE it.op = "position" /\ IsPosition(v) /\ FieldIn(S, "position", Packed(v))
    <2>1. /\ c = encode_position(v) /\ NestedIn(it, p) = <<>> /\ IsField(it)
          /\ \A s, q : ReadField(it, s, q) = decode_position(s)
        BY <1>3, PositionFieldIs
    <2>2. encode_position(v) \in Seq(S) /\ \A sx : sx = encode_position(v) \o y => decode_position(sx) = Got(v, y)
        BY <1>3, PositionBack
    <2>3. Len(encode_position(v)) \in 1..5
        <3>1. encode_position(v) = Cells("position", Packed(v))
            BY DEF encode_position, Packed
        <3>2. Len(Cells("position", Packed(v))) \in 1..2
            BY <1>3, CellsWritten
        <3>3. QED
            BY <3>1, <3>2
    <2>4. b = v
        BY <1>3 DEF ReadBack
    <2> HIDE DEF c, b
    <2>5. QED
        BY <2>1, <2>2, <2>3, <2>4, Zenon DEF c, b
<1>4. CASE it.op = "many" /\ v = <<>>
    <2>1. /\ c = encode_var_int(0) /\ NestedIn(it, p) = <<>> /\ IsField(it)
          /\ \A s, q, rest : decode_var_int(s) = Got(0, rest) => ReadField(it, s, q) = Got(<<>>, rest)
        BY <1>4, ManyFieldIs
    <2>2. /\ encode_var_int(0) \in Seq(S) /\ Len(encode_var_int(0)) \in 1..5
          /\ \A sx : sx = encode_var_int(0) \o y => decode_var_int(sx) = Got(Carries(0), y)
        <3>1. 0 \in Int
            OBVIOUS
        <3>2. QED
            BY <3>1, VarIntBack, Zenon
    <2>3. Carries(0) = 0
        BY ZeroIs
    <2>4. b = <<>>
        BY <1>4 DEF ReadBack
    <2> HIDE DEF c, b
    <2>5. QED
        BY <2>1, <2>2, <2>3, <2>4, Zenon DEF c, b
<1>5. QED
    BY <1>1, <1>2, <1>3, <1>4 DEF FieldFits

\* What is nested in a field that has nothing nested.
LEMMA NothingNested ==
    ASSUME NEW it, NEW p, NestedIn(it, p) = <<>>, NEW S, Before(it, p) \in Seq(S)
    PROVE  WriteItem(Write3, it, p) = Before(it, p)
<1> DEFINE parts == NestedIn(it, p)
           w == [i \in DOMAIN parts |-> Write3(it.sub, parts[i])]
           c == Before(it, p)
<1>1. WriteItem(Write3, it, p) = c \o FlattenSeq(w)
    BY DEF WriteItem
<1>2. DOMAIN parts = {}
    OBVIOUS
<1> HIDE DEF parts, c
<1>3. w = <<>>
    <2>1. <<>> = [i \in {} |-> Write3(it.sub, parts[i])]
        OBVIOUS
    <2>2. QED
        BY <1>2, <2>1
<1> HIDE DEF w
<1>4. FlattenSeq(<<>>) = <<>>
    <2>1. <<>> \in Seq(S)
        BY EmptySeq
    <2>2. QED
        BY <2>1, FlattenOne
<1>5. c \o <<>> = c
    BY Nothing DEF c
<1>6. QED
    BY <1>1, <1>3, <1>4, <1>5, Zenon DEF c

\* A packet that fits a layout.
PacketFits(S, layout, p) ==
    /\ IsSequence(layout) /\ Distinct(layout)
    /\ \A i \in 1..Len(layout) : FieldFits(S, layout[i], p[layout[i].name])

\* Short pieces make no long whole.
LEMMA FlattenShort ==
    ASSUME NEW S, NEW cs \in Seq(Seq(S)), \A i \in 1..Len(cs) : Len(cs[i]) \in 1..5
    PROVE  Len(FlattenSeq(cs)) <= 5 * Len(cs)
<1> DEFINE m == Len(cs)
           Left(i) == FlattenSeq(Behind(cs, i))
           T == {n \in Nat : n <= m => Len(Left(m - n)) <= 5 * n}
<1>0. m \in Nat
    BY LenProperties
<1>1. /\ \A n \in 0..m : Left(n) \in Seq(S)
      /\ \A n \in 0..m : n < m => Left(n) = cs[n + 1] \o Left(n + 1)
      /\ Left(0) = FlattenSeq(cs) /\ Left(m) = <<>>
    <2>1. 0 \in 0..m
        BY <1>0
    <2>2. QED
        BY <1>0, <2>1, FlattenNext
<1>2. \A i \in 1..m : cs[i] \in Seq(S) /\ Len(cs[i]) \in 1..5
    <2>1. \A i \in 1..m : cs[i] \in Seq(S)
        BY ElementOfSeq
    <2>2. QED
        BY <2>1
<1> HIDE DEF Left, m
<1>3. 0 \in T
    <2>1. m - 0 = m
        BY <1>0
    <2>2. Len(<<>>) = 0
        OBVIOUS
    <2>3. QED
        BY <1>1, <2>1, <2>2
<1>4. ASSUME NEW n \in Nat, n \in T PROVE n + 1 \in T
    <2>1. CASE n + 1 <= m
        <3> DEFINE i == m - (n + 1)
                   j == m - n
                   a == cs[j]
                   la == Len(a)
                   lj == Len(Left(j))
                   li == Len(Left(i))
        <3>1. i \in 0..m /\ i < m /\ i + 1 = j /\ j \in 0..m /\ j \in 1..m /\ n <= m
            BY <1>0, <2>1
        <3>2. lj <= 5 * n
            BY <1>4, <3>1
        <3>3. Left(i) = a \o Left(j)
            BY <1>1, <3>1
        <3>4. a \in Seq(S) /\ la \in 1..5 /\ Left(j) \in Seq(S)
            BY <1>1, <1>2, <3>1
        <3> HIDE DEF a, j, i
        <3>5. li = la + lj /\ lj \in Nat
            BY <3>3, <3>4, Joined, LenProperties
        <3> HIDE DEF la, lj, li
        <3>6. li <= 5 * (n + 1)
            BY <3>2, <3>4, <3>5
        <3>7. QED
            BY <3>6 DEF li, i
    <2>2. QED
        BY <2>1
<1> HIDE DEF T
<1>5. Nat \subseteq T
    BY <1>3, <1>4, Induction
<1>6. m - m = 0 /\ m <= m
    BY <1>0
<1>7. Len(Left(0)) <= 5 * m
    BY <1>0, <1>5, <1>6 DEF T
<1>8. QED
    BY <1>1, <1>7 DEF m

LEMMA LayoutWritten ==
    ASSUME NEW S, AllBytes \subseteq S, NEW layout, NEW p, PacketFits(S, layout, p)
    PROVE  LET cs == [i \in 1..Len(layout) |-> Before(layout[i], p)]
           IN /\ cs \in Seq(Seq(S)) /\ Len(cs) = Len(layout) /\ Len(layout) \in Nat
              /\ Write(layout, p) = FlattenSeq(cs)
              /\ FlattenSeq(cs) \in Seq(S) /\ Len(FlattenSeq(cs)) <= 5 * Len(layout)
<1> DEFINE m == Len(layout)
           cs == [i \in 1..m |-> Before(layout[i], p)]
           ws == [i \in DOMAIN layout |-> WriteItem(Write3, layout[i], p)]
<1>1. m \in Nat /\ DOMAIN layout = 1..m
    <2>1. \A i \in 1..m : layout[i] \in {layout[j] : j \in 1..m}
        OBVIOUS
    <2>2. QED
        BY <2>1, SequenceIs DEF PacketFits
<1>2. ASSUME NEW i \in 1..m
      PROVE  /\ Before(layout[i], p) \in Seq(S) /\ Len(Before(layout[i], p)) \in 1..5
             /\ WriteItem(Write3, layout[i], p) = Before(layout[i], p)
    <2>1. FieldFits(S, layout[i], p[layout[i].name])
        BY DEF PacketFits
    <2>2. <<>> \in Seq(S)
        BY EmptySeq
    <2>3. /\ Before(layout[i], p) \in Seq(S) /\ NestedIn(layout[i], p) = <<>>
          /\ Len(Before(layout[i], p)) \in 1..5
        BY <2>1, <2>2, FieldIs
    <2>4. QED
        BY <2>3, NothingNested
<1>3. ws = cs
    BY <1>1, <1>2
<1>4. Write(layout, p) = FlattenSeq(ws)
    BY DEF Write, WriteAll
<1>5. cs \in Seq(Seq(S)) /\ Len(cs) = m /\ \A i \in 1..Len(cs) : Len(cs[i]) \in 1..5
    <2> DEFINE b(i) == Before(layout[i], p)
    <2>1. \A i \in 1..m : b(i) \in Seq(S) /\ Len(b(i)) \in 1..5
        BY <1>2
    <2> HIDE DEF b
    <2>2. [i \in 1..m |-> b(i)] \in Seq(Seq(S))
        BY <1>1, <2>1, IsASeq
    <2>3. Len([i \in 1..m |-> b(i)]) = m /\ \A j \in 1..m : [i \in 1..m |-> b(i)][j] = b(j)
        BY <1>1
    <2>4. QED
        BY <2>1, <2>2, <2>3 DEF b
<1> HIDE DEF cs, ws
<1>6. FlattenSeq(cs) \in Seq(S) /\ Len(FlattenSeq(cs)) <= 5 * m
    <2>1. Len(FlattenSeq(cs)) <= 5 * Len(cs)
        BY <1>5, FlattenShort
    <2>2. QED
        BY <1>5, <2>1, FlattenConcat
<1>7. QED
    BY <1>1, <1>3, <1>4, <1>5, <1>6 DEF cs

\* A field with y behind it is read as it was written.
ReadsField(it, p, y) ==
    \A sx : sx = Before(it, p) \o y =>
      \A q : ReadField(it, sx, q) = Got(ReadBack(it, p[it.name]), y)

LEMMA FieldReads ==
    ASSUME NEW S, AllBytes \subseteq S, NEW it, NEW p, FieldFits(S, it, p[it.name]), NEW y \in Seq(S)
    PROVE  ReadsField(it, p, y)
BY FieldIs DEF ReadsField

LEMMA PacketWritten ==
    ASSUME NEW S, AllBytes \subseteq S, NEW layout, NEW p, PacketFits(S, layout, p)
    PROVE  /\ Write(layout, p) \in Seq(S) /\ Len(Write(layout, p)) <= 5 * Len(layout)
           /\ \E q : /\ Read(layout, Write(layout, p)) = Got(q, <<>>)
                    /\ Holds(q, layout,
                             [i \in 1..Len(layout) |-> ReadBack(layout[i], p[layout[i].name])],
                             Len(layout))
<1> DEFINE m == Len(layout)
           cs == [i \in 1..m |-> Before(layout[i], p)]
           vs == [i \in 1..m |-> ReadBack(layout[i], p[layout[i].name])]
<1>1. /\ cs \in Seq(Seq(S)) /\ Len(cs) = m /\ m \in Nat
      /\ Write(layout, p) = FlattenSeq(cs)
      /\ FlattenSeq(cs) \in Seq(S) /\ Len(FlattenSeq(cs)) <= 5 * m
    BY LayoutWritten
<1>2. ASSUME NEW i \in 1..m PROVE FieldBack(layout, vs, i, cs[i], FlattenSeq(Behind(cs, i)))
    <2> DEFINE y == FlattenSeq(Behind(cs, i))
               it == layout[i]
               c == Before(it, p)
    <2>1. i \in 0..Len(cs)
        BY <1>1
    <2>2. y \in Seq(S)
        <3> HIDE DEF cs
        <3>1. QED
            BY <1>1, <2>1, FlattenNext
    <2>3. FieldFits(S, it, p[it.name])
        BY DEF PacketFits
    <2>4. cs[i] = c /\ vs[i] = ReadBack(it, p[it.name])
        OBVIOUS
    <2> HIDE DEF y, cs, vs
    <2>5. \A sx : sx = c \o y => \A q : ReadField(it, sx, q) = Got(ReadBack(it, p[it.name]), y)
        <3>1. ReadsField(it, p, y)
            BY <2>2, <2>3, FieldReads
        <3>2. QED
            BY <3>1, Zenon DEF ReadsField
    <2>6. Accepts(it, ReadBack(it, p[it.name]))
        BY <2>3 DEF FieldFits
    <2> HIDE DEF c
    <2>7. \A q, sx : Holds(q, layout, vs, i - 1) /\ sx = cs[i] \o y => ReadField(layout[i], sx, q) = Got(vs[i], y)
        BY <2>4, <2>5, Zenon
    <2>8. Accepts(layout[i], vs[i])
        BY <2>4, <2>6
    <2>9. QED
        BY <2>7, <2>8, Zenon DEF FieldBack, y
<1>3. Distinct(layout)
    BY DEF PacketFits
<1> HIDE DEF cs, vs
<1>4. \E q : Read(layout, FlattenSeq(cs)) = Got(q, <<>>) /\ Holds(q, layout, vs, m)
    BY <1>1, <1>2, <1>3, LayoutBack
<1>5. QED
    BY <1>1, <1>4, Zenon DEF vs

\* What is kept of a layout.
NamesOf(layout) == {layout[j].name : j \in {i \in 1..Len(layout) : IsField(layout[i])}}

\* Every integer of the packet is one a VarInt can carry.
Carried(layout, p) ==
    \A i \in 1..Len(layout) : layout[i].op = "varint" => Within(p[layout[i].name], IntRange)

LEMMA HoldsAll ==
    ASSUME NEW S, NEW layout, NEW p, PacketFits(S, layout, p), Carried(layout, p),
           p = [f \in NamesOf(layout) |-> p[f]], NEW q,
           Holds(q, layout, [i \in 1..Len(layout) |-> ReadBack(layout[i], p[layout[i].name])], Len(layout))
    PROVE  q = p
<1> DEFINE m == Len(layout)
           F == NamesOf(layout)
           vs == [i \in 1..m |-> ReadBack(layout[i], p[layout[i].name])]
<1>1. \A i \in 1..m : vs[i] = p[layout[i].name]
    <2> SUFFICES ASSUME NEW i \in 1..m PROVE vs[i] = p[layout[i].name]
        OBVIOUS
    <2>1. layout[i].op = "varint" => Carries(p[layout[i].name]) = p[layout[i].name]
        BY CarriesAll DEF Carried, Within
    <2>2. QED
        BY <2>1 DEF ReadBack
<1>2. /\ q = [f \in F |-> q[f]]
      /\ \A j \in 1..m : IsField(layout[j]) => q[layout[j].name] = vs[j]
    BY DEF Holds, NamesOf
<1> HIDE DEF vs
<1> HIDE DEF m
<1>3. \A f \in F : q[f] = p[f]
    <2> SUFFICES ASSUME NEW f \in F PROVE q[f] = p[f]
        OBVIOUS
    <2>1. PICK j \in 1..m : IsField(layout[j]) /\ f = layout[j].name
        BY Zenon DEF NamesOf, m
    <2>2. q[layout[j].name] = vs[j] /\ vs[j] = p[layout[j].name]
        BY <1>1, <1>2, <2>1, Zenon
    <2>3. QED
        BY <2>1, <2>2, Zenon
<1> HIDE DEF F
<1>4. [f \in F |-> q[f]] = [f \in F |-> p[f]]
    BY <1>3
<1>5. QED
    BY <1>2, <1>4 DEF F

\* A packet of plain fields is decoded as it was encoded, with what was behind it,
\* whatever its fields hold, if it is not too long for a frame.  (play.rs, login.rs)
THEOREM PacketRoundTrip ==
    ASSUME NEW S, AllBytes \subseteq S, NEW codec, Within(codec.id, IntRange),
           NEW p, PacketFits(S, codec.layout, p), Carried(codec.layout, p),
           p = [f \in NamesOf(codec.layout) |-> p[f]],
           Len(Body(codec.id, Write(codec.layout, p))) <= MaxFrame, NEW x \in Seq(S)
    PROVE  Decode(codec, Encode(codec, p) \o x) = Got(p, x)
<1> DEFINE layout == codec.layout
           w == Write(layout, p)
           id == codec.id
           e == encode_frame(id, w) \o x
<1>1. w \in Seq(S)
    BY PacketWritten
<1>2. Read(layout, w) = Got(p, <<>>)
    <2>1. PICK q : /\ Read(layout, w) = Got(q, <<>>)
                   /\ Holds(q, layout, [i \in 1..Len(layout) |-> ReadBack(layout[i], p[layout[i].name])], Len(layout))
        BY PacketWritten
    <2>2. q = p
        BY <2>1, HoldsAll
    <2>3. QED
        BY <2>1, <2>2
<1>3. Encode(codec, p) \o x = e
    BY DEF Encode
<1> HIDE DEF w
<1>4. id \in Int /\ Carries(id) = id
    BY CarriesAll DEF Within
<1>5. decode_frame(e) = Frame(id, w, x)
    <2>1. Len(Body(id, w)) <= MaxFrame
        BY DEF w
    <2>2. ReadsFrame(id, w, x)
        BY <1>1, <1>4, <2>1, FrameReads
    <2>3. \A sx : sx = encode_frame(id, w) \o x => decode_frame(sx) = Frame(Carries(id), w, x)
        BY <2>2, Zenon DEF ReadsFrame
    <2>4. QED
        BY <1>4, <2>3, Zenon DEF e
<1> HIDE DEF e
<1>6. DecodeIn(codec, Frame(id, w, x)) = DecodeBody(codec, w, x)
    BY GotIs DEF DecodeIn, Frame
<1>7. DecodeBody(codec, w, x) = Got(p, x)
    <2>1. DecodeBody(codec, w, x) = Finished(Got(p, <<>>), x)
        BY <1>2 DEF DecodeBody
    <2>2. QED
        BY <2>1, GotIs DEF Finished
<1>8. Decode(codec, e) = Got(p, x)
    BY <1>5, <1>6, <1>7 DEF Decode
<1>9. QED
    BY <1>3, <1>8

-----------------------------------------------------------------------------
(* What has been read has passed the checks *)

\* The fields read so far are there, and each is one its check lets through.
Checks(layout, q, n) ==
    \A j \in 1..n : IsField(layout[j]) =>
      layout[j].name \in DOMAIN q /\ Accepts(layout[j], q[layout[j].name])

\* No decoder hands on a field its function refuses: whatever was in the frame,
\* a string is not over its limit and a number is one of those that are checked for.
\* (primitives.rs, play.rs, login.rs)
THEOREM ReadChecked ==
    ASSUME NEW layout, Len(layout) \in Nat, Distinct(layout), NEW s, Read(layout, s).st = "got"
    PROVE  Checks(layout, Read(layout, s).value, Len(layout))
<1> DEFINE m == Len(layout)
           f == ReadTo(layout, s)
           T == {n \in Nat : n <= m /\ f[n].st = "got" => Checks(layout, f[n].value, n)}
<1>1. /\ f[0] = Got(<<>>, s)
      /\ \A i \in 1..m : f[i] = Advance(layout, f[i - 1], i)
    BY ReadSteps
<1>2. Read(layout, s) = f[m]
    BY ReadIs
<1> HIDE DEF f
<1>3. 0 \in T
    BY DEF Checks
<1>4. ASSUME NEW n \in Nat, n \in T PROVE n + 1 \in T
    <2> SUFFICES ASSUME n + 1 <= m, f[n + 1].st = "got" PROVE Checks(layout, f[n + 1].value, n + 1)
        OBVIOUS
    <2> DEFINE i == n + 1
               it == layout[i]
               old == f[n]
               r == ReadField(it, old.rest, old.value)
               new == f[i]
    <2>1. i \in 1..m /\ i - 1 = n /\ n <= m
        OBVIOUS
    <2>2. new = IF old.st = "got" THEN WithField(it, old.value, r) ELSE old
        BY <1>1, <2>1 DEF Advance
    <2>3. \A j \in 1..i : (j \in 1..n /\ j # i /\ j \in 1..m) \/ j = i
        BY <2>1
    <2>4. old.st = "got" /\ Checks(layout, old.value, n)
        BY <1>4, <2>1, <2>2
    <2>5. \A j \in 1..i : j # i /\ IsField(layout[j]) /\ IsField(it) => layout[j].name # it.name
        BY <2>1, <2>3 DEF Distinct
    <2> HIDE DEF T, i, new, old, r
    <2>6. new = WithField(it, old.value, r) /\ new.st = "got"
        BY <2>2, <2>4 DEF new, i
    <2>7. r.st = "got" /\ Accepts(it, r.value)
        BY <2>6, GotIs DEF WithField
    <2>8. \/ ~IsField(it) /\ new.value = old.value
          \/ IsField(it) /\ new.value = Extended(old.value, it.name, r.value)
        BY <2>6, <2>7, GotIs DEF WithField, IsField
    <2>9. ASSUME NEW j \in 1..i, IsField(layout[j])
          PROVE  layout[j].name \in DOMAIN new.value /\ Accepts(layout[j], new.value[layout[j].name])
        <3>1. CASE ~IsField(it)
            BY <2>3, <2>4, <2>8, <2>9, <3>1 DEF Checks
        <3>2. CASE IsField(it) /\ j = i
            BY <2>7, <2>8, <3>2 DEF Extended
        <3>3. CASE IsField(it) /\ j # i
            <4> DEFINE name == layout[j].name
            <4>1. name \in DOMAIN old.value /\ Accepts(layout[j], old.value[name])
                BY <2>3, <2>4, <2>9, <3>3 DEF Checks
            <4>2. name # it.name
                BY <2>5, <2>9, <3>3
            <4>3. name \in DOMAIN new.value /\ new.value[name] = old.value[name]
                BY <2>8, <3>3, <4>1, <4>2 DEF Extended
            <4>4. QED
                BY <4>1, <4>3
        <3>4. QED
            BY <3>1, <3>2, <3>3
    <2>10. QED
        BY <2>9 DEF Checks, new, i
<1> HIDE DEF T
<1>5. Nat \subseteq T
    BY <1>3, <1>4, Induction
<1>6. QED
    BY <1>2, <1>5 DEF T

-----------------------------------------------------------------------------
(* What the server writes is understood *)

\* A frame sent in one piece is taken for the packet it is, whatever the threshold.
LEMMA SentBack ==
    ASSUME NEW S, AllBytes \subseteq S, NEW id \in 0..MaxFrame, NEW payload \in Seq(S),
           FitsCompressed(Body(id, payload)), NEW t \in Int
    PROVE  decode_compressed_frame(send_wire(encode_frame(id, payload), t), t) = Frame(id, payload, <<>>)
<1> DEFINE b == Body(id, payload)
           R == S \cup FieldCells("zlib", b)
           f == encode_frame(id, payload)
           c == encode_compressed_frame(id, payload, t)
<1>0. id \in Int /\ Carries(id) = id /\ MaxFrame \in Nat
    BY LengthFits, Weights
<1>1. AllBytes \subseteq R /\ FieldIn(R, "zlib", b) /\ S \subseteq R
    BY DEF FieldIn
<1>2. payload \in Seq(R)
    BY <1>1, SeqMonotonic
<1>3. b \in Seq(S) /\ Len(b) \in Nat /\ Len(b) <= MaxFrame
    BY <1>0, BodyIs DEF FitsCompressed
<1> HIDE DEF R
<1>4. PICK x : x = <<>> /\ x \in Seq(R)
    BY EmptySeq
<1>5. f \in Seq(R) /\ decode_frame(f) = Frame(id, payload, <<>>)
    <2>1. PICK n \in Int : n = -1
        OBVIOUS
    <2>2. ReadsBack(R, n, encode_compressed_frame(id, payload, n), x, Frame(Carries(id), payload, x))
        BY <1>0, <1>1, <1>2, <1>4, CompressedBack
    <2>3. encode_compressed_frame(id, payload, n) = f /\ \A s : decode_compressed_frame(s, n) = decode_frame(s)
        BY <2>1 DEF encode_compressed_frame, decode_compressed_frame
    <2> HIDE DEF f
    <2>4. f \in Seq(R) /\ \A sx : sx = f \o x => decode_frame(sx) = Frame(Carries(id), payload, x)
        BY <2>2, <2>3, Zenon DEF ReadsBack
    <2>5. f \o x = f
        BY <1>4, <2>4, Nothing
    <2>6. QED
        BY <1>0, <1>4, <2>4, <2>5, Zenon
<1>6. decode_compressed_frame(c, t) = Frame(id, payload, <<>>)
    <2>1. ReadsBack(R, t, c, x, Frame(Carries(id), payload, x))
        BY <1>0, <1>1, <1>2, <1>4, CompressedBack
    <2> HIDE DEF c
    <2>2. c \in Seq(R) /\ \A sx : sx = c \o x => decode_compressed_frame(sx, t) = Frame(Carries(id), payload, x)
        BY <2>1, Zenon DEF ReadsBack
    <2>3. c \o x = c
        BY <1>4, <2>2, Nothing
    <2>4. QED
        BY <1>0, <1>4, <2>2, <2>3, Zenon
<1>7. CASE t < 0
    <2>1. send_wire(f, t) = f
        BY <1>7 DEF send_wire
    <2>2. decode_compressed_frame(f, t) = decode_frame(f)
        BY <1>7 DEF decode_compressed_frame
    <2>3. QED
        BY <1>5, <2>1, <2>2, Zenon
<1>8. CASE ~(t < 0)
    <2> HIDE DEF f
    <2>1. send_wire(f, t) = c
        BY <1>5, <1>8, GotIs DEF send_wire, Frame
    <2>2. QED
        BY <1>6, <2>1 DEF f
<1>9. QED
    BY <1>7, <1>8

\* The row of a packet, if no row before it has its id.
LEMMA RowIs ==
    ASSUME NEW rows, Len(rows) \in Nat, NEW id, NEW k \in 1..Len(rows), rows[k].dec.id = id,
           \A j \in 1..Len(rows) : rows[j].dec.id = id => k <= j
    PROVE  RowOf(rows, id) = k
<1> DEFINE T == {i \in 1..Len(rows) : rows[i].dec.id = id}
<1>1. RowOf(rows, id) = IF T # {} THEN Min(T) ELSE 0
    BY DEF RowOf, SelectInSeq
<1>2. T \in SUBSET Nat /\ k \in T
    OBVIOUS
<1> HIDE DEF T
<1>3. Min(T) \in T /\ \A i \in T : Min(T) <= i
    BY <1>2, SmallestOf
<1>4. Min(T) = k
    BY <1>2, <1>3 DEF T
<1>5. QED
    BY <1>1, <1>2, <1>4

\* The client reads it with the crate's decoders and all of it, at this threshold.
Understands(ph, t, f) == ReadAs(f, client_decode_packet(ph, f.cells, t))

LEMMA RowUnderstood ==
    ASSUME NEW ph, ph \in {"status", "login"}, NEW k \in 1..Len(ClientPackets(ph)), Len(ClientPackets(ph)) \in Nat,
           NEW S, AllBytes \subseteq S, NEW id \in 0..MaxFrame, NEW payload \in Seq(S),
           FitsCompressed(Body(id, payload)), NEW t \in Int,
           ClientPackets(ph)[k].dec.id = id,
           \A j \in 1..Len(ClientPackets(ph)) : ClientPackets(ph)[j].dec.id = id => k <= j,
           NEW q, Read(ClientPackets(ph)[k].dec.layout, payload) = Got(q, <<>>),
           NEW f, f.name = ClientPackets(ph)[k].name, f.cells = send_wire(encode_frame(id, payload), t)
    PROVE  Understands(ph, t, f)
<1> DEFINE rows == ClientPackets(ph)
           c == Frame(id, payload, <<>>)
           row == rows[k]
<1>1. decode_compressed_frame(f.cells, t) = c
    BY SentBack
<1>2. RowOf(rows, id) = k
    BY RowIs
<1>3. c.st = "got" /\ c.value.id = id /\ c.value.payload = payload /\ c.rest = <<>>
    BY GotIs DEF Frame
<1> HIDE DEF rows, c, row
<1>4. client_decode_packet(ph, f.cells, t) = ClientPacketAs(row, c)
    <2>1. client_decode_packet(ph, f.cells, t) = ClientPacketIn(rows, "bad", c)
        BY <1>1 DEF client_decode_packet, rows
    <2>2. k # 0
        OBVIOUS
    <2>3. QED
        BY <1>2, <1>3, <2>1, <2>2 DEF ClientPacketIn, row
<1>5. DecodeBody(row.dec, payload, <<>>) = Got(q, <<>>)
    <2>1. Read(row.dec.layout, payload) = Got(q, <<>>)
        BY DEF row, rows
    <2>2. QED
        BY <2>1, GotIs DEF DecodeBody, Finished
<1>6. ClientPacketAs(row, c) = Got([name |-> row.name, packet |-> q], <<>>)
    BY <1>3, <1>5, GotIs DEF ClientPacketAs, As
<1>7. row.name = f.name
    BY DEF row, rows
<1>8. QED
    BY <1>4, <1>6, <1>7, GotIs DEF Understands, ReadAs

\* Fifteen cells and the id fit into a frame, compressed or not.
LEMMA ReplyFits ==
    ASSUME NEW S, AllBytes \subseteq S, NEW id \in Int, NEW payload \in Seq(S), Len(payload) <= 15
    PROVE  FitsCompressed(Body(id, payload))
<1> DEFINE b == Len(Body(id, payload))
<1>1. b \in Nat /\ b <= 5 + Len(payload)
    BY BodyIs
<1>2. Len(payload) \in Nat /\ MaxFrame \in Nat /\ MaxFrame >= 32
    BY LenProperties, Weights, ReadAssumption
<1> HIDE DEF b
<1>3. b < MaxFrame /\ MaxPrefix + 2 <= MaxFrame
    BY <1>1, <1>2 DEF MaxPrefix
<1>4. QED
    BY <1>3 DEF FitsCompressed, b

\* What one of the replies holds in a field.
PlainFits(it, v) ==
    /\ Accepts(it, ReadBack(it, v))
    /\ it.op \in CellKinds \/ (it.op = "varint" /\ v \in Int) \/ (it.op = "many" /\ v = <<>>)

PlainPacket(layout, p) ==
    /\ IsSequence(layout) /\ Distinct(layout) /\ Len(layout) <= 3
    /\ \A i \in 1..Len(layout) : PlainFits(layout[i], p[layout[i].name])

LEMMA PlainWritten ==
    ASSUME NEW layout, NEW p, PlainPacket(layout, p)
    PROVE  \E S, q : /\ AllBytes \subseteq S /\ Write(layout, p) \in Seq(S)
                     /\ Len(Write(layout, p)) <= 15
                     /\ Read(layout, Write(layout, p)) = Got(q, <<>>)
<1> DEFINE m == Len(layout)
           v(i) == p[layout[i].name]
           S == AllBytes \cup UNION {FieldCells(layout[i].op, v(i)) : i \in 1..m}
<1>1. m \in Nat /\ m <= 3
    BY DEF PlainPacket, IsSequence
<1>2. AllBytes \subseteq S /\ \A i \in 1..m : FieldIn(S, layout[i].op, v(i))
    BY DEF FieldIn
<1>3. \A i \in 1..m : PlainFits(layout[i], v(i))
    BY DEF PlainPacket
<1> HIDE DEF S, v
<1>4. \A i \in 1..m : FieldFits(S, layout[i], v(i))
    BY <1>2, <1>3 DEF PlainFits, FieldFits
<1>5. PacketFits(S, layout, p)
    BY <1>4 DEF PacketFits, PlainPacket, v
<1> DEFINE w == Write(layout, p)
<1>6. /\ w \in Seq(S) /\ Len(w) <= 5 * m
      /\ \E q : Read(layout, w) = Got(q, <<>>)
    <2>1. /\ w \in Seq(S) /\ Len(w) <= 5 * m
          /\ \E q : /\ Read(layout, w) = Got(q, <<>>)
                    /\ Holds(q, layout, [i \in 1..m |-> ReadBack(layout[i], p[layout[i].name])], m)
        BY <1>2, <1>5, PacketWritten
    <2> HIDE DEF w
    <2>2. QED
        BY <2>1
<1> HIDE DEF w
<1>7. Len(w) \in Nat
    BY <1>6, LenProperties
<1> HIDE DEF m
<1>8. Len(w) <= 15
    BY <1>1, <1>6, <1>7
<1>9. QED
    BY <1>2, <1>6, <1>8 DEF w

\* The row of a packet of plain fields which the two sides agree on.
PlainRow(rows, k) ==
    /\ Len(rows) \in Nat /\ k \in 1..Len(rows)
    /\ rows[k].enc = rows[k].dec /\ rows[k].dec.id \in 0..31
    /\ \A j \in 1..Len(rows) : rows[j].dec.id = rows[k].dec.id => k <= j

LEMMA PlainUnderstood ==
    ASSUME NEW ph, ph \in {"status", "login"}, NEW k, PlainRow(ClientPackets(ph), k), NEW t \in Int,
           NEW p, PlainPacket(ClientPackets(ph)[k].dec.layout, p)
    PROVE  Understands(ph, t, Good(ClientPackets(ph)[k], p, t))
<1> DEFINE rows == ClientPackets(ph)
           row == rows[k]
           id == row.dec.id
           layout == row.dec.layout
           w == Write(layout, p)
           f == Good(row, p, t)
<1>1. PICK S, q : /\ AllBytes \subseteq S /\ w \in Seq(S) /\ Len(w) <= 15
                  /\ Read(layout, w) = Got(q, <<>>)
    BY PlainWritten
<1>2. id \in 0..MaxFrame /\ id \in Int
    <2>1. id \in 0..31
        BY DEF PlainRow
    <2>2. MaxFrame \in Nat /\ MaxFrame >= 32
        BY Weights, ReadAssumption
    <2> HIDE DEF id
    <2>3. QED
        BY <2>1, <2>2
<1>3. f.name = row.name /\ f.cells = send_wire(encode_frame(id, w), t)
    BY DEF Good, Frm, Encode, PlainRow
<1> HIDE DEF w, f
<1>4. FitsCompressed(Body(id, w))
    BY <1>1, <1>2, ReplyFits
<1>5. Understands(ph, t, f)
    BY <1>1, <1>2, <1>3, <1>4, RowUnderstood DEF PlainRow
<1>6. QED
    BY <1>5 DEF f

LEMMA ItemsAre ==
    /\ \A n : Str(n).op = "string" /\ Str(n).name = n /\ Str(n).in = {}
    /\ \A n : Bytes(n).op = "bytes" /\ Bytes(n).name = n /\ Bytes(n).in = {}
    /\ \A n : UUID(n).op = "uuid" /\ UUID(n).name = n /\ UUID(n).in = {}
    /\ \A n : I64(n).op = "i64" /\ I64(n).name = n /\ I64(n).in = {}
    /\ \A n : VarInt(n).op = "varint" /\ VarInt(n).name = n /\ VarInt(n).in = {}
    /\ \A n, sub : Many(n, sub).op = "many" /\ Many(n, sub).name = n /\ Many(n, sub).in = {}
BY DEF Str, Bytes, UUID, I64, VarInt, Many, Item

LEMMA PlainFields ==
    /\ \A n, v : v # TooLong => PlainFits(Str(n), v)
    /\ \A n, v : PlainFits(Bytes(n), v) /\ PlainFits(UUID(n), v) /\ PlainFits(I64(n), v)
    /\ \A n : \A v \in Int : PlainFits(VarInt(n), v)
    /\ \A n, sub : PlainFits(Many(n, sub), <<>>)
<1> USE ItemsAre DEF PlainFits, Accepts, ReadBack, CellKinds
<1>1. \A n, v : v # TooLong => PlainFits(Str(n), v)
    OBVIOUS
<1>2. \A n, v : PlainFits(Bytes(n), v)
    OBVIOUS
<1>3. \A n, v : PlainFits(UUID(n), v)
    OBVIOUS
<1>4. \A n, v : PlainFits(I64(n), v)
    OBVIOUS
<1>5. \A n : \A v \in Int : PlainFits(VarInt(n), v)
    OBVIOUS
<1>6. \A n, sub : PlainFits(Many(n, sub), <<>>)
    OBVIOUS
<1>7. QED
    BY <1>1, <1>2, <1>3, <1>4, <1>5, <1>6

LEMMA LoginRows ==
    /\ ClientPackets("login") = LoginClientbound /\ Len(LoginClientbound) = 5
    /\ PlainRow(LoginClientbound, 2) /\ PlainRow(LoginClientbound, 3) /\ PlainRow(LoginClientbound, 5)
    /\ LoginClientbound[2].dec.layout = <<Str("server_id"), Bytes("public_key"), Bytes("verify_token")>>
    /\ LoginClientbound[3].dec = decode_login_success
    /\ LoginClientbound[5].dec.layout = <<VarInt("threshold")>>
    /\ LoginClientbound[2].name = "EncryptionRequest" /\ LoginClientbound[3].name = "LoginSuccess"
    /\ LoginClientbound[5].name = "SetCompression"
<1> DEFINE rows == LoginClientbound
<1>1. ClientPackets("login") = rows /\ Len(rows) = 5
    BY DEF ClientPackets, LoginClientbound
<1>2. /\ decode_login_disconnect.id = 0 /\ decode_encryption_request.id = 1
      /\ decode_login_success.id = 2 /\ decode_login_plugin_request.id = 4
      /\ decode_set_compression.id = 3
    BY DEF decode_login_disconnect, decode_encryption_request, decode_login_success,
           decode_login_plugin_request, decode_set_compression, Packet, LoginId, SetCompressionId
<1>3. /\ encode_encryption_request = decode_encryption_request
      /\ encode_login_success = decode_login_success
      /\ encode_set_compression = decode_set_compression
    BY DEF decode_encryption_request, decode_login_success, decode_set_compression,
           encode_encryption_request, encode_login_success, encode_set_compression
<1>4. /\ rows[1].dec = decode_login_disconnect /\ rows[2].dec = decode_encryption_request
      /\ rows[3].dec = decode_login_success /\ rows[4].dec = decode_login_plugin_request
      /\ rows[5].dec = decode_set_compression
      /\ rows[2].enc = encode_encryption_request /\ rows[3].enc = encode_login_success
      /\ rows[5].enc = encode_set_compression
      /\ rows[2].name = "EncryptionRequest" /\ rows[3].name = "LoginSuccess"
      /\ rows[5].name = "SetCompression"
    BY DEF LoginClientbound, Row
<1> HIDE DEF rows
<1>5. PlainRow(rows, 2) /\ PlainRow(rows, 3) /\ PlainRow(rows, 5)
    BY <1>1, <1>2, <1>3, <1>4 DEF PlainRow
<1>6. /\ rows[2].dec.layout = <<Str("server_id"), Bytes("public_key"), Bytes("verify_token")>>
      /\ rows[5].dec.layout = <<VarInt("threshold")>>
    BY <1>4 DEF decode_encryption_request, decode_set_compression, Packet
<1>7. QED
    BY <1>1, <1>4, <1>5, <1>6 DEF rows

LEMMA EncryptionUnderstood ==
    Understands("login", -1, EncryptionRequest) /\ EncryptionRequest.name = "EncryptionRequest"
<1> DEFINE row == LoginClientbound[2]
           p == [server_id |-> "", public_key |-> "placeholder", verify_token |-> "placeholder"]
           layout == row.dec.layout
<1>1. layout = <<Str("server_id"), Bytes("public_key"), Bytes("verify_token")>> /\ row.name = "EncryptionRequest"
    BY LoginRows
<1>2. PlainPacket(layout, p)
    <2> HIDE DEF layout
    <2>1. IsSequence(layout) /\ Len(layout) <= 3 /\ Len(layout) = 3
        BY <1>1 DEF IsSequence
    <2>2. /\ layout[1] = Str("server_id") /\ layout[2] = Bytes("public_key")
          /\ layout[3] = Bytes("verify_token")
        BY <1>1
    <2>3. Distinct(layout)
        BY <2>1, <2>2, ItemsAre DEF Distinct
    <2>4. /\ PlainFits(layout[1], p[layout[1].name]) /\ PlainFits(layout[2], p[layout[2].name])
          /\ PlainFits(layout[3], p[layout[3].name])
        <3>1. p.server_id = "" /\ "" # TooLong
            BY DEF TooLong
        <3> HIDE DEF p
        <3>2. PlainFits(layout[1], p[layout[1].name])
            <4> DEFINE v == p[layout[1].name]
            <4>1. layout[1].name = "server_id"
                BY <2>2, ItemsAre
            <4>2. v # TooLong
                BY <3>1, <4>1
            <4> HIDE DEF v
            <4>3. PlainFits(layout[1], v)
                BY <2>2, <4>2, PlainFields
            <4>4. QED
                BY <4>3 DEF v
        <3>3. QED
            BY <2>2, <3>2, PlainFields
    <2> HIDE DEF p
    <2>5. QED
        BY <2>1, <2>3, <2>4 DEF PlainPacket
<1> HIDE DEF p
<1>3. PICK t \in Int : t = -1
    OBVIOUS
<1>4. Understands("login", t, Good(row, p, t))
    <2>1. ClientPackets("login") = LoginClientbound /\ PlainRow(LoginClientbound, 2)
        BY LoginRows
    <2>2. PICK ph : ph = "login"
        OBVIOUS
    <2>3. PICK k : k = 2
        OBVIOUS
    <2>4. Understands(ph, t, Good(ClientPackets(ph)[k], p, t))
        BY <1>2, <2>1, <2>2, <2>3, PlainUnderstood
    <2>5. QED
        BY <2>1, <2>2, <2>3, <2>4
<1>5. EncryptionRequest = Good(row, p, t)
    BY <1>3 DEF EncryptionRequest, p
<1>6. QED
    BY <1>1, <1>3, <1>4, <1>5 DEF Good, Frm

LEMMA CompressionUnderstood ==
    ASSUME NEW v \in Int
    PROVE  Understands("login", -1, Good(LoginClientbound[5], [threshold |-> v], -1))
<1> DEFINE row == LoginClientbound[5]
           p == [threshold |-> v]
           layout == row.dec.layout
<1>1. layout = <<VarInt("threshold")>>
    BY LoginRows
<1>2. PlainPacket(layout, p)
    <2> HIDE DEF layout
    <2>1. IsSequence(layout) /\ Len(layout) <= 3 /\ Len(layout) = 1
        BY <1>1 DEF IsSequence
    <2>2. layout[1] = VarInt("threshold")
        BY <1>1
    <2>3. Distinct(layout)
        BY <2>1 DEF Distinct
    <2>4. PlainFits(layout[1], p[layout[1].name])
        BY <2>2, ItemsAre, PlainFields DEF TooLong
    <2>5. QED
        BY <2>1, <2>3, <2>4 DEF PlainPacket
<1> HIDE DEF p
<1>3. PICK t \in Int : t = -1
    OBVIOUS
<1>4. Understands("login", t, Good(row, p, t))
    <2>1. ClientPackets("login") = LoginClientbound /\ PlainRow(LoginClientbound, 5)
        BY LoginRows
    <2>2. PICK ph : ph = "login"
        OBVIOUS
    <2>3. PICK k : k = 5
        OBVIOUS
    <2>4. Understands(ph, t, Good(ClientPackets(ph)[k], p, t))
        BY <1>2, <2>1, <2>2, <2>3, PlainUnderstood
    <2>5. QED
        BY <2>1, <2>2, <2>3, <2>4
<1>5. QED
    BY <1>3, <1>4 DEF p

LEMMA SuccessUnderstood ==
    ASSUME NEW u, u # TooLong, NEW t \in Int
    PROVE  Understands("login", t, Good(LoginClientbound[3],
                         [uuid |-> "offline", username |-> u, properties |-> <<>>], t))
<1> DEFINE row == LoginClientbound[3]
           p == [uuid |-> "offline", username |-> u, properties |-> <<>>]
           layout == row.dec.layout
           sub == <<Str("name"), Str("value"), Opt("signature", <<Str("signature")>>)>>
<1> HIDE DEF sub
<1>1. layout = <<UUID("uuid"), Str("username"), Many("properties", sub)>>
    BY LoginRows DEF decode_login_success, Packet, sub
<1>2. PlainPacket(layout, p)
    <2> HIDE DEF layout
    <2>1. IsSequence(layout) /\ Len(layout) <= 3 /\ Len(layout) = 3
        BY <1>1 DEF IsSequence
    <2>2. /\ layout[1] = UUID("uuid") /\ layout[2] = Str("username")
          /\ layout[3] = Many("properties", sub)
        BY <1>1
    <2>3. Distinct(layout)
        BY <2>1, <2>2, ItemsAre DEF Distinct
    <2>4. /\ PlainFits(layout[1], p[layout[1].name]) /\ PlainFits(layout[2], p[layout[2].name])
          /\ PlainFits(layout[3], p[layout[3].name])
        BY <2>2, ItemsAre, PlainFields DEF TooLong
    <2>5. QED
        BY <2>1, <2>3, <2>4 DEF PlainPacket
<1> HIDE DEF p
<1>4. Understands("login", t, Good(row, p, t))
    <2>1. ClientPackets("login") = LoginClientbound /\ PlainRow(LoginClientbound, 3)
        BY LoginRows
    <2>2. PICK ph : ph = "login"
        OBVIOUS
    <2>3. PICK k : k = 3
        OBVIOUS
    <2>4. Understands(ph, t, Good(ClientPackets(ph)[k], p, t))
        BY <1>2, <2>1, <2>2, <2>3, PlainUnderstood
    <2>5. QED
        BY <2>1, <2>2, <2>3, <2>4
<1>5. QED
    BY <1>4 DEF p

LEMMA StatusRows ==
    LET rows == ClientPackets("status")
    IN /\ Len(rows) = 2 /\ rows[1] = StatusResponse /\ rows[2] = Pong
       /\ StatusResponse.name = "StatusResponse" /\ Pong.name = "Pong"
       /\ StatusResponse.dec.id = 0 /\ StatusResponse.enc.id = 0
       /\ StatusResponse.enc.layout = <<Str("json")>>
       /\ StatusResponse.dec.layout = <<Str("json"), Ignored>>
       /\ PlainRow(rows, 2) /\ Pong.dec.layout = <<I64("payload")>>
<1> DEFINE rows == ClientPackets("status")
<1>1. Len(rows) = 2 /\ rows[1] = StatusResponse /\ rows[2] = Pong
    BY DEF ClientPackets
<1>2. /\ StatusResponse.name = "StatusResponse" /\ Pong.name = "Pong"
      /\ StatusResponse.dec.id = 0 /\ StatusResponse.enc.id = 0
      /\ StatusResponse.enc.layout = <<Str("json")>>
      /\ StatusResponse.dec.layout = <<Str("json"), Ignored>>
      /\ Pong.dec.layout = <<I64("payload")>> /\ Pong.dec.id = 1 /\ Pong.enc = Pong.dec
    BY DEF StatusResponse, Pong, Row, Packet, encode_status_response, decode_status_response,
           encode_pong_response, decode_ping_request, StatusId, PingId
<1> HIDE DEF rows
<1>3. PlainRow(rows, 2)
    BY <1>1, <1>2 DEF PlainRow
<1>4. QED
    BY <1>1, <1>2, <1>3 DEF rows

LEMMA PongUnderstood ==
    ASSUME NEW p
    PROVE  Understands("status", -1, Final(Pong, p)) /\ Final(Pong, p).name = "Pong"
<1> DEFINE layout == Pong.dec.layout
<1>1. layout = <<I64("payload")>> /\ Pong.name = "Pong"
    BY StatusRows
<1>2. PlainPacket(layout, p)
    <2> HIDE DEF layout
    <2>1. IsSequence(layout) /\ Len(layout) <= 3 /\ Len(layout) = 1
        BY <1>1 DEF IsSequence
    <2>2. layout[1] = I64("payload")
        BY <1>1
    <2>3. Distinct(layout)
        BY <2>1 DEF Distinct
    <2>4. PlainFits(layout[1], p[layout[1].name])
        BY <2>2, ItemsAre, PlainFields DEF TooLong
    <2>5. QED
        BY <2>1, <2>3, <2>4 DEF PlainPacket
<1>3. PICK t \in Int : t = -1
    OBVIOUS
<1>4. Understands("status", t, Good(Pong, p, t))
    <2>1. ClientPackets("status")[2] = Pong /\ PlainRow(ClientPackets("status"), 2)
        BY StatusRows
    <2>2. PICK ph : ph = "status"
        OBVIOUS
    <2>3. PICK k : k = 2
        OBVIOUS
    <2>4. Understands(ph, t, Good(ClientPackets(ph)[k], p, t))
        BY <1>2, <2>1, <2>2, <2>3, PlainUnderstood
    <2>5. QED
        BY <2>1, <2>2, <2>3, <2>4
<1>5. Good(Pong, p, t).name = Pong.name /\ Good(Pong, p, t).cells = Encode(Pong.enc, p)
    BY <1>3 DEF Good, Frm, send_wire
<1>6. Final(Pong, p).name = Pong.name /\ Final(Pong, p).cells = Encode(Pong.enc, p)
    BY DEF Final, Frm
<1>7. QED
    BY <1>1, <1>3, <1>4, <1>5, <1>6 DEF Understands, ReadAs

\* The status is read without a look at what is behind it.
LEMMA StatusUnderstood ==
    LET f == Good(StatusResponse, [json |-> "json"], -1)
    IN Understands("status", -1, f) /\ f.name = "StatusResponse"
<1> DEFINE p == [json |-> "json"]
           it == Str("json")
           layout == <<it>>
           dec == <<it, Ignored>>
           w == Write(layout, p)
           c == Cells("string", "json")
           S == AllBytes \cup FieldCells("string", "json")
<1>1. /\ it.op = "string" /\ it.name = "json" /\ it.op \in CellKinds
      /\ Accepts(it, "json") /\ PlainFits(it, "json") /\ p[it.name] = "json"
      /\ ReadBack(it, "json") = "json"
    <2>1. "json" # TooLong
        BY DEF TooLong
    <2>2. it.op = "string" /\ it.name = "json" /\ PlainFits(it, "json")
        BY <2>1, ItemsAre, PlainFields
    <2> HIDE DEF it
    <2>3. it.op \in CellKinds /\ ReadBack(it, "json") = "json"
        BY <2>2 DEF CellKinds, ReadBack
    <2>4. QED
        BY <2>2, <2>3 DEF PlainFits
<1>2. /\ AllBytes \subseteq S /\ FieldIn(S, "string", "json")
    BY DEF FieldIn
<1> HIDE DEF S, it
<1>3. c \in Seq(S) /\ Len(c) \in 1..2 /\ TakeCells("string", c) = Got("json", <<>>)
    BY <1>2, CellsWritten, CellsAlone
<1>4. w = c
    <2> DEFINE cs == [i \in 1..Len(layout) |-> Before(layout[i], p)]
    <2>1. Len(layout) = 1 /\ layout[1] = it
        OBVIOUS
    <2>2. IsSequence(layout) /\ Distinct(layout)
        BY DEF IsSequence, Distinct
    <2>3. FieldFits(S, it, "json")
        BY <1>1, <1>2 DEF FieldFits
    <2>4. PacketFits(S, layout, p)
        BY <1>1, <2>1, <2>2, <2>3 DEF PacketFits
    <2>5. w = FlattenSeq(cs)
        BY <1>2, <2>4, LayoutWritten
    <2>6. Before(it, p) = c
        BY <1>1, CellFieldIs
    <2>7. cs = <<c>>
        BY <2>1, <2>6
    <2> HIDE DEF cs, c, w
    <2>8. FlattenSeq(<<c>>) = c
        BY <1>3, FlattenOne
    <2>9. QED
        BY <2>5, <2>7, <2>8
<1> DEFINE q == Extended(<<>>, "json", "json")
           g == ReadTo(dec, c)
<1>5. Read(dec, c) = Got(q, <<>>)
    <2>1. Len(dec) = 2 /\ dec[1] = it /\ dec[2] = Ignored
        OBVIOUS
    <2>2. Ignored.op = "ignored" /\ Ignored.in = {}
        BY DEF Ignored, Item
    <2> HIDE DEF dec, g, q, c
    <2>3. /\ g[0] = Got(<<>>, c)
          /\ \A i \in 1..2 : g[i] = Advance(dec, g[i - 1], i)
        BY <2>1, ReadSteps DEF g
    <2>4. g[1] = Advance(dec, g[0], 1) /\ g[2] = Advance(dec, g[1], 2)
        <3>1. 1 \in 1..2 /\ 2 \in 1..2 /\ 1 - 1 = 0 /\ 2 - 1 = 1
            OBVIOUS
        <3>2. QED
            BY <2>3, <3>1
    <2>5. ReadField(it, c, <<>>) = Got("json", <<>>)
        BY <1>1, <1>3, CellFieldIs
    <2>6. g[1] = WithField(it, <<>>, Got("json", <<>>))
        BY <2>1, <2>3, <2>4, <2>5, GotIs DEF Advance
    <2>7. g[1] = Got(q, <<>>)
        BY <1>1, <2>6, GotIs DEF WithField, q
    <2>8. ReadField(Ignored, <<>>, q) = Got("", <<>>)
        BY <2>2 DEF ReadField, ReadItem, Kind, Nested
    <2>9. g[2] = WithField(Ignored, q, Got("", <<>>))
        <3>1. g[1].st = "got" /\ g[1].value = q /\ g[1].rest = <<>>
            BY <2>7, GotIs
        <3>2. g[2] = WithField(dec[2], g[1].value, ReadField(dec[2], g[1].rest, g[1].value))
            BY <2>4, <3>1 DEF Advance
        <3>3. QED
            BY <2>1, <2>8, <3>1, <3>2, Zenon
    <2>10. WithField(Ignored, q, Got("", <<>>)) = Got(q, <<>>)
        <3> DEFINE it2 == Ignored
        <3>1. it2.op = "ignored" /\ it2.in = {}
            BY <2>2
        <3> HIDE DEF it2
        <3>2. \A v : Accepts(it2, v)
            BY <3>1 DEF Accepts
        <3>3. \A v : WithField(it2, q, Got(v, <<>>)) = Got(q, <<>>)
            BY <3>1, <3>2, GotIs DEF WithField
        <3>4. QED
            BY <3>3 DEF it2
    <2>11. QED
        BY <2>1, <2>9, <2>10, ReadIs DEF g
<1> DEFINE f == Good(StatusResponse, p, -1)
<1>6. f.name = "StatusResponse" /\ f.cells = send_wire(encode_frame(0, c), -1)
    <2>1. /\ StatusResponse.name = "StatusResponse" /\ StatusResponse.enc.id = 0
          /\ StatusResponse.enc.layout = layout
        BY StatusRows DEF it
    <2> HIDE DEF p, layout
    <2>2. Encode(StatusResponse.enc, p) = encode_frame(0, w)
        BY <2>1 DEF Encode
    <2>3. QED
        BY <1>4, <2>1, <2>2 DEF Good, Frm
<1>7. PICK t \in Int, n \in 0..MaxFrame : t = -1 /\ n = 0
    <2>1. MaxFrame \in Nat
        BY Weights
    <2>2. 0 \in 0..MaxFrame /\ -1 \in Int
        BY <2>1
    <2>3. QED
        BY <2>2
<1>8. PICK ph, k : ph = "status" /\ k = 1
    OBVIOUS
<1>9. FitsCompressed(Body(n, c))
    <2>1. n \in Int
        BY <1>7
    <2> HIDE DEF c
    <2>2. Len(c) <= 15
        <3> DEFINE l == Len(c)
        <3>1. l \in 1..2
            BY <1>3, Zenon
        <3> HIDE DEF l
        <3>2. l <= 15
            BY <3>1
        <3>3. QED
            BY <3>2, Zenon DEF l
    <2>3. QED
        BY <1>2, <1>3, <2>1, <2>2, ReplyFits
<1>10. /\ Len(ClientPackets(ph)) = 2 /\ ClientPackets(ph)[k] = StatusResponse
       /\ StatusResponse.dec.id = n /\ StatusResponse.dec.layout = dec
       /\ StatusResponse.name = "StatusResponse"
    BY <1>7, <1>8, StatusRows DEF it
<1> HIDE DEF f, q, c, dec
<1>11. Understands(ph, t, f)
    <2>1. k \in 1..Len(ClientPackets(ph)) /\ Len(ClientPackets(ph)) \in Nat
          /\ \A j \in 1..Len(ClientPackets(ph)) : ClientPackets(ph)[j].dec.id = n => k <= j
        BY <1>8, <1>10
    <2>2. f.name = ClientPackets(ph)[k].name /\ f.cells = send_wire(encode_frame(n, c), t)
        BY <1>6, <1>7, <1>10
    <2>3. Read(ClientPackets(ph)[k].dec.layout, c) = Got(q, <<>>)
        BY <1>5, <1>10
    <2>4. QED
        BY <1>2, <1>3, <1>8, <1>9, <1>10, <2>1, <2>2, <2>3, RowUnderstood
<1>12. QED
    BY <1>6, <1>7, <1>8, <1>11 DEF f

-----------------------------------------------------------------------------
(* What the server can have read in each state *)

LEMMA AsIs ==
    \A name, r : As(name, r).st = "got" =>
      r.st = "got" /\ As(name, r).value = [name |-> name, packet |-> r.value]
BY GotIs DEF As

LEMMA NameRead ==
    \A name, r : As(name, r).st = "got" =>
      r.st = "got" /\ As(name, r).value.name = name /\ As(name, r).value.packet = r.value
<1> SUFFICES ASSUME NEW name, NEW r, As(name, r).st = "got"
             PROVE  r.st = "got" /\ As(name, r).value.name = name /\ As(name, r).value.packet = r.value
    OBVIOUS
<1>1. r.st = "got" /\ As(name, r).value = [name |-> name, packet |-> r.value]
    BY AsIs
<1>2. QED
    BY <1>1

LEMMA UsernameRead ==
    ASSUME NEW s, Decode(decode_login_start, s).st = "got"
    PROVE  Decode(decode_login_start, s).value.username # TooLong
<1> DEFINE layout == decode_login_start.layout
           f == decode_frame(s)
           r == Read(layout, f.value.payload)
<1>1. Decode(decode_login_start, s) = Finished(r, f.rest) /\ r.st = "got"
    BY GotIs DEF Decode, DecodeIn, DecodeBody, Finished, Wrong
<1>2. layout = <<Str("username"), OptField("uuid", UUID("uuid"))>>
    BY DEF decode_login_start, Packet
<1>3. /\ layout[1] = Str("username") /\ layout[1].name = "username" /\ layout[1].op = "string"
      /\ layout[2].name = "uuid" /\ Len(layout) = 2
    <2> HIDE DEF layout
    <2>1. layout[1] = Str("username") /\ layout[2] = OptField("uuid", UUID("uuid")) /\ Len(layout) = 2
        BY <1>2
    <2>2. OptField("uuid", UUID("uuid")).name = "uuid"
        BY DEF OptField, Item
    <2>3. QED
        BY <2>1, <2>2, ItemsAre
<1> HIDE DEF layout, f, r
<1>4. Distinct(layout)
    BY <1>3 DEF Distinct
<1>5. Checks(layout, r.value, 2)
    <2>1. Len(layout) \in Nat
        BY <1>3
    <2>2. Checks(layout, r.value, Len(layout))
        BY <1>1, <1>4, <2>1, ReadChecked DEF r
    <2>3. QED
        BY <1>3, <2>2
<1>6. r.value.username # TooLong
    <2>1. 1 \in 1..2 /\ IsField(layout[1])
        BY <1>3 DEF IsField
    <2>2. Accepts(layout[1], r.value["username"])
        BY <1>3, <1>5, <2>1 DEF Checks
    <2>3. QED
        BY <1>3, <2>2 DEF Accepts
<1>7. Finished(r, f.rest).value = r.value
    BY <1>1, GotIs DEF Finished, Decode
<1>8. QED
    BY <1>1, <1>6, <1>7

LEMMA PlayNames == \A k \in 1..Len(ServerboundPlay) : ServerboundPlay[k].name \notin Others
<1> DEFINE rows == ServerboundPlay
<1>1. Len(rows) = 15
    BY DEF ServerboundPlay
<1>2. /\ rows[1].name = "ConfirmTeleportation" /\ rows[2].name = "KeepAlive"
      /\ rows[3].name = "ClientInformation" /\ rows[4].name = "SetPlayerPosition"
      /\ rows[5].name = "SetPlayerPositionAndRotation" /\ rows[6].name = "SetPlayerRotation"
      /\ rows[7].name = "PlayerDigging" /\ rows[8].name = "InteractEntity"
      /\ rows[9].name = "UseItemOn" /\ rows[10].name = "ClickContainer"
      /\ rows[11].name = "CloseContainer" /\ rows[12].name = "SetHeldItem"
      /\ rows[13].name = "SetCreativeModeSlot" /\ rows[14].name = "ChatMessage"
      /\ rows[15].name = "ClientStatus"
    BY DEF ServerboundPlay, Row
<1> HIDE DEF rows
<1>3. ASSUME NEW k \in 1..15 PROVE rows[k].name \notin Others
    <2>1. \/ k = 1 \/ k = 2 \/ k = 3 \/ k = 4 \/ k = 5 \/ k = 6 \/ k = 7 \/ k = 8
          \/ k = 9 \/ k = 10 \/ k = 11 \/ k = 12 \/ k = 13 \/ k = 14 \/ k = 15
        OBVIOUS
    <2>2. QED
        BY <1>2, <2>1 DEF Others
<1>4. QED
    BY <1>1, <1>3 DEF rows

LEMMA PlayRead ==
    ASSUME NEW t \in Int, NEW s, try_decode_play_packet(ServerboundPlay, s, t).st = "got"
    PROVE  try_decode_play_packet(ServerboundPlay, s, t).value.name \notin Others
<1> DEFINE rows == ServerboundPlay
<1>1. ASSUME NEW q, try_decode_play_packet_inner(rows, q).st = "got"
      PROVE  try_decode_play_packet_inner(rows, q).value.name \notin Others
    <2> DEFINE T == {i \in 1..Len(rows) : Decode(rows[i].dec, q).st # "wrong"}
               k == FitsOf(rows, q)
    <2>1. try_decode_play_packet_inner(rows, q) =
            IF k # 0 THEN As(rows[k].name, Decode(rows[k].dec, q)) ELSE Skipped(decode_frame(q).rest)
        BY InnerIs
    <2>2. k = IF T # {} THEN Min(T) ELSE 0
        BY DEF FitsOf
    <2>3. T # {} => Min(T) \in T
        <3>1. T \in SUBSET Nat
            BY TablesThere
        <3> HIDE DEF T
        <3>2. QED
            BY <3>1, SmallestOf
    <2>4. k # 0 => k \in 1..Len(rows)
        BY <2>2, <2>3
    <2>5. k # 0
        BY <1>1, <2>1 DEF Skipped
    <2> HIDE DEF k, rows
    <2>6. try_decode_play_packet_inner(rows, q).value.name = rows[k].name
        BY <1>1, <2>1, <2>5, NameRead
    <2>7. QED
        BY <2>4, <2>5, <2>6, PlayNames DEF rows
<1>2. CASE t < 0
    BY <1>1, <1>2 DEF try_decode_play_packet
<1>3. CASE ~(t < 0)
    <2> DEFINE c == decode_compressed_frame(s, t)
               temp == encode_frame(c.value.id, c.value.payload)
               r == try_decode_play_packet_inner(rows, temp)
               out == try_decode_play_packet(rows, s, t)
    <2>1. out = IF c.st # "got" THEN c ELSE IF temp = <<>> THEN Bad ELSE Reframed(r, c.rest)
        BY <1>3 DEF try_decode_play_packet, PlayPacketIn, InTemp
    <2> HIDE DEF temp, rows
    <2>2. out = Reframed(r, c.rest) /\ out.st = "got"
        <3>1. out.st = "got"
            BY DEF rows
        <3> HIDE DEF out, r, c
        <3>2. QED
            BY <2>1, <3>1 DEF Bad
    <2> HIDE DEF out, c
    <2>3. r.st = "got" /\ out.value = r.value
        <3> HIDE DEF r
        <3>1. r.st = "got"
            BY <2>2 DEF Reframed, Whole, Bad
        <3>2. out = [r EXCEPT !.rest = c.rest]
            BY <2>2, <3>1 DEF Reframed
        <3>3. QED
            BY <3>1, <3>2
    <2>4. r.value.name \notin Others
        BY <1>1, <2>3
    <2>5. QED
        BY <2>3, <2>4 DEF out, rows
<1>4. QED
    BY <1>2, <1>3

LEMMA ServerReads ==
    ASSUME NEW d, Typed(d), NEW k, At(d, k), reader = "server", pc = "match", outcome.st = "got"
    PROVE  /\ phase \in {"handshaking", "status", "login", "play"}
           /\ phase = "handshaking" => outcome.value.name = "Handshake"
           /\ phase = "status" => outcome.value.name \in {"Ping", "StatusRequest"}
           /\ phase = "login" => outcome.value.name = "LoginStart" /\ outcome.value.packet.username # TooLong
           /\ phase = "play" => outcome.value.name \notin Others
<1>1. /\ phase \in {"handshaking", "status", "login", "play"} /\ threshold \in Int
      /\ outcome = Decoded("server", phase, threshold, buffer)
    BY DEF Typed, At, Phases, DecodeResult
<1>2. CASE phase = "handshaking"
    <2>1. outcome = As("Handshake", decode_handshake(buffer))
        BY <1>1, <1>2 DEF Decoded, try_decode_packet
    <2>2. QED
        BY <1>2, <2>1, NameRead
<1>3. CASE phase = "status"
    <2> DEFINE r == Decode(decode_status_request, buffer)
    <2>1. \/ outcome = As("Ping", Decode(decode_ping_request, buffer))
          \/ outcome = As("StatusRequest", r)
        BY <1>1, <1>3 DEF Decoded, try_decode_packet
    <2>2. QED
        BY <1>3, <2>1, NameRead
<1>4. CASE phase = "login"
    <2> DEFINE r == Decode(decode_login_start, buffer)
    <2>1. outcome = As("LoginStart", r)
        BY <1>1, <1>4 DEF Decoded, try_decode_packet
    <2>2. r.st = "got" => r.value.username # TooLong
        BY UsernameRead
    <2> HIDE DEF r
    <2>3. QED
        BY <1>4, <2>1, <2>2, NameRead
<1>5. CASE phase = "play"
    <2>1. outcome = try_decode_play_packet(ServerboundPlay, buffer, threshold)
        BY <1>1, <1>5 DEF Decoded
    <2>2. QED
        BY <1>1, <1>5, <2>1, PlayRead
<1>6. QED
    BY <1>1, <1>2, <1>3, <1>4, <1>5

-----------------------------------------------------------------------------
(* The inductive invariant of the replies *)

\* Everything said so far is understood by a client that has not been told of
\* compression, and does not tell it.
Said(ph) ==
    \E R : /\ replies \in Seq(R)
           /\ \A f \in R : Understands(ph, -1, f) /\ f.name # "SetCompression"

OfflineSuccess(u) == [uuid |-> "offline", username |-> u, properties |-> <<>>]

LoggedIn == \E u : u # TooLong /\ replies = LoginReplies(OfflineSuccess(u), threshold)

NotFromHandshake == replies = <<>> /\ (received # <<>> => received[1].name # "Handshake")

RepliesInv ==
    /\ \E R : received \in Seq(R)
    /\ reader = "client" => replies = <<>>
    /\ reader = "server" =>
         \/ phase = "handshaking" /\ received = <<>> /\ replies = <<>>
         \/ phase = "status" /\ Said("status")
         \/ phase = "login" /\ Said("login") /\ (~online_mode => replies = <<>>)
         \/ phase = "play" /\ (LoggedIn \/ NotFromHandshake)

LEMMA NothingSaid == replies = <<>> => \A ph : Said(ph)
<1>1. <<>> \in Seq({})
    BY EmptySeq
<1>2. QED
    BY <1>1 DEF Said

LEMMA RepliesInit == Init => RepliesInv
<1> SUFFICES ASSUME Init PROVE RepliesInv
    OBVIOUS
<1>1. received = <<>> /\ replies = <<>>
    BY DEF Init
<1>2. PICK n \in DOMAIN Dialogues : Follows(Dialogues[n])
    BY InitInv DEF IInv
<1> DEFINE d == Dialogues[n]
<1>3. IsDialogue(d) /\ Typed(d)
    BY <1>2, DialogueAssumption DEF Follows
<1> HIDE DEF d
<1>4. d.reader \in {"server", "client"}
    BY <1>3 DEF IsDialogue
<1>5. reader = d.reader /\ phase \in Phases[d.reader]
    BY <1>3 DEF Typed
<1>6. reader = "server" => phase \in {"handshaking", "status", "login", "play"}
    BY <1>5 DEF Phases
<1>7. received \in Seq({})
    BY <1>1, EmptySeq
<1>8. QED
    BY <1>1, <1>6, <1>7, NothingSaid DEF RepliesInv, NotFromHandshake

LEMMA RepliesSame ==
    ASSUME RepliesInv, UNCHANGED <<reader, online_mode, phase, threshold, received, replies>>
    PROVE  RepliesInv'
BY DEF RepliesInv, Said, LoggedIn, NotFromHandshake

LEMMA SaidMore ==
    ASSUME NEW ph, Said(ph), NEW f, Understands(ph, -1, f), f.name # "SetCompression",
           replies' = replies \o <<f>>
    PROVE  Said(ph)'
<1>1. PICK R : replies \in Seq(R) /\ \A g \in R : Understands(ph, -1, g) /\ g.name # "SetCompression"
    BY DEF Said
<1> DEFINE Q == R \cup {f}
<1>2. replies \in Seq(Q) /\ <<f>> \in Seq(Q)
    <2>1. R \subseteq Q /\ f \in Q
        OBVIOUS
    <2>2. QED
        BY <1>1, <2>1, SeqMonotonic
<1>3. \A g \in Q : Understands(ph, -1, g) /\ g.name # "SetCompression"
    BY <1>1
<1> HIDE DEF Q
<1>4. replies' \in Seq(Q)
    BY <1>2
<1>5. QED
    BY <1>3, <1>4 DEF Said

LEMMA RepliesTaken ==
    ASSUME NEW d, IsDialogue(d), Typed(d), NEW k, At(d, k), RepliesInv, Handles
    PROVE  RepliesInv'
<1> DEFINE v == outcome.value
           name == v.name
<1>1. /\ pc = "match" /\ outcome.st = "got" /\ received' = Append(received, v)
      /\ reader' = reader /\ online_mode' = online_mode
    BY HandlesTake DEF config
<1>2. \/ HandleHandshake /\ name = "Handshake"
      \/ HandleStatusRequest /\ name = "StatusRequest"
      \/ HandlePing /\ name = "Ping"
      \/ HandleLoginStart /\ name = "LoginStart"
      \/ HandleSetCompression /\ name = "SetCompression"
      \/ HandleLoginSuccess /\ name = "LoginSuccess"
      \/ HandlePong /\ name = "Pong"
      \/ HandlePacket /\ name \notin Others
    BY DEF Handles, HandleHandshake, HandleStatusRequest, HandlePing, HandleLoginStart,
           HandleSetCompression, HandleLoginSuccess, HandlePong, HandlePacket, TakeFrame
<1>3. \E R : received' \in Seq(R)
    <2>1. PICK R : received \in Seq(R)
        BY DEF RepliesInv
    <2>2. received \in Seq(R \cup {v}) /\ v \in R \cup {v}
        BY <2>1, SeqMonotonic
    <2>3. received' \in Seq(R \cup {v})
        BY <1>1, <2>2, AppendProperties
    <2>4. QED
        BY <2>3
<1>4. CASE reader = "client"
    <2>1. replies = <<>> /\ replies' = replies
        BY <1>2, <1>4 DEF RepliesInv, HandleHandshake, HandleStatusRequest, HandlePing,
           HandleLoginStart, HandleSetCompression, HandleLoginSuccess, HandlePong, HandlePacket, Answer
    <2>2. QED
        BY <1>1, <1>3, <1>4, <2>1 DEF RepliesInv
<1>5. CASE reader = "server"
    <2>0. /\ phase \in {"handshaking", "status", "login", "play"}
          /\ phase = "handshaking" => name = "Handshake"
          /\ phase = "status" => name \in {"Ping", "StatusRequest"}
          /\ phase = "login" => name = "LoginStart" /\ v.packet.username # TooLong
          /\ phase = "play" => name \notin Others
        BY <1>1, <1>5, ServerReads
    <2>a. reader' = "server" /\ \E R : received' \in Seq(R)
        BY <1>1, <1>3, <1>5
    <2>1. CASE phase = "handshaking"
        <3>1. HandleHandshake /\ replies = <<>>
            BY <1>2, <1>5, <2>0, <2>1 DEF Others, RepliesInv
        <3>2. phase' \in {"status", "login"} /\ replies' = <<>>
            BY <3>1 DEF HandleHandshake
        <3>3. Said("status")' /\ Said("login")'
            <4>1. <<>> \in Seq({})
                BY EmptySeq
            <4>2. ASSUME NEW ph PROVE Said(ph)'
                <5>1. replies' \in Seq({}) /\ \A f \in {} : Understands(ph, -1, f) /\ f.name # "SetCompression"
                    BY <3>2, <4>1
                <5>2. QED
                    BY <5>1 DEF Said
            <4>3. QED
                BY <4>2
        <3>4. QED
            BY <2>a, <3>2, <3>3 DEF RepliesInv
    <2>2. CASE phase = "status"
        <3>1. Said("status")
            BY <1>5, <2>2 DEF RepliesInv
        <3>2. CASE HandleStatusRequest
            <4> DEFINE f == Good(StatusResponse, [json |-> "json"], -1)
            <4>1. phase' = "status" /\ replies' = replies \o <<f>>
                BY <1>5, <2>2, <3>2 DEF HandleStatusRequest, Answer
            <4>2. Understands("status", -1, f) /\ f.name # "SetCompression"
                BY StatusUnderstood
            <4> HIDE DEF f
            <4>3. Said("status")'
                BY <3>1, <4>1, <4>2, SaidMore
            <4>4. QED
                BY <2>a, <4>1, <4>3 DEF RepliesInv
        <3>3. CASE HandlePing
            <4> DEFINE f == Final(Pong, v.packet)
            <4>1. phase' = "status" /\ replies' = replies \o <<f>>
                BY <1>5, <2>2, <3>3 DEF HandlePing, Answer
            <4>2. Understands("status", -1, f) /\ f.name # "SetCompression"
                BY PongUnderstood
            <4> HIDE DEF f
            <4>3. Said("status")'
                BY <3>1, <4>1, <4>2, SaidMore
            <4>4. QED
                BY <2>a, <4>1, <4>3 DEF RepliesInv
        <3>4. QED
            BY <1>2, <2>0, <2>2, <3>2, <3>3 DEF Others
    <2>3. CASE phase = "login"
        <3>1. Said("login") /\ (~online_mode => replies = <<>>)
            BY <1>5, <2>3 DEF RepliesInv
        <3>2. HandleLoginStart /\ v.packet.username # TooLong
            BY <1>2, <2>0, <2>3 DEF Others
        <3>3. CASE online_mode
            <4>1. phase' = "login" /\ replies' = replies \o <<EncryptionRequest>>
                BY <1>5, <2>3, <3>2, <3>3 DEF HandleLoginStart, Answer
            <4>2. Understands("login", -1, EncryptionRequest) /\ EncryptionRequest.name # "SetCompression"
                BY EncryptionUnderstood
            <4>3. Said("login")'
                BY <3>1, <4>1, <4>2, SaidMore
            <4>4. QED
                BY <1>1, <2>a, <3>3, <4>1, <4>3 DEF RepliesInv
        <3>4. CASE ~online_mode
            <4> DEFINE u == v.packet.username
                       r == LoginReplies(OfflineSuccess(u), threshold)
            <4>1. phase' = "play" /\ threshold' = threshold /\ replies' = replies \o r
                BY <1>5, <2>3, <3>2, <3>4 DEF HandleLoginStart, Answer, OfflineSuccess
            <4>2. <<>> \o r = r
                <5> DEFINE a == Good(LoginClientbound[5], [threshold |-> threshold], -1)
                           b == Good(LoginClientbound[3], OfflineSuccess(u), threshold)
                <5>1. r = (IF threshold >= 0 THEN <<a>> ELSE <<>>) \o <<b>>
                    BY DEF LoginReplies
                <5> HIDE DEF a, b
                <5>2. r \in Seq({a, b})
                    BY <5>1
                <5> HIDE DEF r
                <5>3. QED
                    BY <5>2, Nothing
            <4> HIDE DEF r
            <4>3. replies' = r
                BY <3>1, <3>4, <4>1, <4>2
            <4>4. LoggedIn'
                BY <3>2, <4>1, <4>3 DEF LoggedIn, r
            <4>5. QED
                BY <2>a, <4>1, <4>4 DEF RepliesInv
        <3>5. QED
            BY <3>3, <3>4
    <2>4. CASE phase = "play"
        <3>1. HandlePacket /\ name # "Handshake"
            BY <1>2, <2>0, <2>4 DEF Others
        <3>2. phase' = "play" /\ threshold' = threshold /\ replies' = replies
            BY <2>4, <3>1 DEF HandlePacket
        <3>3. LoggedIn \/ NotFromHandshake
            BY <1>5, <2>4 DEF RepliesInv
        <3>4. CASE LoggedIn
            BY <2>a, <3>2, <3>4 DEF RepliesInv, LoggedIn
        <3>5. CASE NotFromHandshake
            <4>1. PICK R : received \in Seq(R)
                BY DEF RepliesInv
            <4>2. received'[1].name # "Handshake"
                <5>1. CASE received = <<>>
                    BY <1>1, <3>1, <5>1
                <5>2. CASE received # <<>>
                    <6>1. received'[1] = received[1]
                        BY <1>1, <4>1, <5>2
                    <6>2. QED
                        BY <3>5, <5>2, <6>1 DEF NotFromHandshake
                <5>3. QED
                    BY <5>1, <5>2
            <4>3. NotFromHandshake'
                BY <3>2, <3>5, <4>2 DEF NotFromHandshake
            <4>4. QED
                BY <2>a, <3>2, <4>3 DEF RepliesInv
        <3>6. QED
            BY <3>3, <3>4, <3>5
    <2>5. QED
        BY <2>0, <2>1, <2>2, <2>3, <2>4
<1>6. reader \in {"server", "client"}
    BY DEF IsDialogue, Typed
<1>7. QED
    BY <1>4, <1>5, <1>6

LEMMA RepliesStep == IInv /\ RepliesInv /\ [Next]_vars => RepliesInv'
<1> SUFFICES ASSUME IInv, RepliesInv, [Next]_vars PROVE RepliesInv'
    OBVIOUS
<1> DEFINE same == UNCHANGED <<reader, online_mode, phase, threshold, received, replies>>
<1>1. CASE Handles
    <2>1. PICK n \in DOMAIN Dialogues : Follows(Dialogues[n])
        BY DEF IInv
    <2> DEFINE d == Dialogues[n]
    <2>2. IsDialogue(d) /\ Follows(d)
        BY <2>1, DialogueAssumption
    <2> HIDE DEF d
    <2>3. pc = "match"
        BY <1>1, HandlesTake
    <2>4. Typed(d) /\ \E k \in 0..Len(Frames(d)) : At(d, k)
        BY <2>2, <2>3 DEF Follows
    <2>5. QED
        BY <1>1, <2>2, <2>4, RepliesTaken
<1>2. CASE TryDecode
    <2>1. same
        BY <1>2 DEF TryDecode, Stay, config
    <2>2. QED
        BY <2>1, RepliesSame
<1>3. CASE SkippedUnknown \/ Refused \/ NeedsMore
    <2>1. same
        BY <1>3 DEF SkippedUnknown, Refused, NeedsMore, Stay, config
    <2>2. QED
        BY <2>1, RepliesSame
<1>4. CASE Reading
    <2>1. same
        BY <1>4 DEF Reading, ReadSome, ReadTimeout, ReadEnd, Stay, config
    <2>2. QED
        BY <2>1, RepliesSame
<1>5. CASE PeerInPlay \/ PeerCloses
    <2>1. same
        BY <1>5 DEF PeerInPlay, PeerCloses, config
    <2>2. QED
        BY <2>1, RepliesSame
<1>6. CASE UNCHANGED vars
    <2>1. same
        BY <1>6 DEF vars, config
    <2>2. QED
        BY <2>1, RepliesSame
<1>7. QED
    BY <1>1, <1>2, <1>3, <1>4, <1>5, <1>6 DEF Next, Match, Handles

-----------------------------------------------------------------------------
(* From the replies to what the client makes of them *)

LEMMA SaidFollows ==
    ASSUME NEW ph \in {"status", "login"}, phase = ph, Said(ph)
    PROVE  ClientFollows
<1>1. PICK R : replies \in Seq(R) /\ \A f \in R : Understands(ph, -1, f) /\ f.name # "SetCompression"
    BY DEF Said
<1>2. \A n \in 1..Len(replies) : /\ Understands(ph, -1, replies[n])
                                 /\ replies[n].name # "SetCompression"
    BY <1>1
<1>3. Len(replies) \in Nat /\ DOMAIN replies = 1..Len(replies)
    BY <1>1, LenProperties
<1>4. ASSUME NEW n \in DOMAIN replies PROVE Understood(n)
    <2>1. \A i \in 1..(n - 1) : i \in 1..Len(replies)
        BY <1>3
    <2>2. {i \in 1..(n - 1) : replies[i].name = "SetCompression"} = {}
        BY <1>2, <2>1
    <2>3. Told(n) = -1
        BY <2>2 DEF Told
    <2>4. (IF phase = "status" THEN "status" ELSE "login") = ph
        OBVIOUS
    <2>5. QED
        BY <1>2, <1>3, <2>3, <2>4 DEF Understood, Understands
<1>5. phase # "play"
    OBVIOUS
<1>6. QED
    BY <1>4, <1>5 DEF ClientFollows

LEMMA LoggedInFollows ==
    ASSUME phase = "play", threshold \in Int, LoggedIn
    PROVE  ClientFollows
<1>1. PICK u : u # TooLong /\ replies = LoginReplies(OfflineSuccess(u), threshold)
    BY DEF LoggedIn
<1> DEFINE t == threshold
           a == Good(LoginClientbound[5], [threshold |-> t], -1)
           b == Good(LoginClientbound[3], OfflineSuccess(u), t)
<1>2. Understands("login", -1, a)
    BY CompressionUnderstood
<1>3. Understands("login", t, b)
    BY <1>1, SuccessUnderstood DEF OfflineSuccess
<1>4. a.name = "SetCompression" /\ b.name = "LoginSuccess" /\ a.packet.threshold = t
    BY LoginRows DEF Good, Frm
<1>5. replies = (IF t >= 0 THEN <<a>> ELSE <<>>) \o <<b>>
    BY <1>1 DEF LoginReplies
<1>6. t < 0 => Understands("login", -1, b)
    <2> SUFFICES ASSUME t < 0 PROVE Understands("login", -1, b)
        OBVIOUS
    <2>1. PICK n \in Int : n = -1
        OBVIOUS
    <2> DEFINE c == Good(LoginClientbound[3], OfflineSuccess(u), n)
    <2>2. Understands("login", n, c)
        BY <1>1, SuccessUnderstood DEF OfflineSuccess
    <2>3. c.name = b.name /\ c.cells = b.cells
        BY <2>1 DEF Good, Frm, send_wire
    <2> HIDE DEF c, b
    <2>4. QED
        BY <2>1, <2>2, <2>3 DEF Understands, ReadAs
<1> HIDE DEF a, b
<1>7. Told(1) = -1
    <2>1. {i \in 1..(1 - 1) : replies[i].name = "SetCompression"} = {}
        OBVIOUS
    <2>2. QED
        BY <2>1 DEF Told
<1>8. CASE t >= 0
    <2>1. replies = <<a>> \o <<b>>
        BY <1>5, <1>8
    <2>2. replies[1] = a /\ replies[2] = b /\ Len(replies) = 2 /\ DOMAIN replies = {1, 2} /\ replies # <<>>
        <3> DEFINE x == <<a>>
                   y == <<b>>
        <3>1. x \in Seq({a, b}) /\ y \in Seq({a, b}) /\ Len(x) = 1 /\ Len(y) = 1 /\ x[1] = a /\ y[1] = b
            OBVIOUS
        <3> HIDE DEF x, y
        <3>2. /\ x \o y \in Seq({a, b}) /\ Len(x \o y) = 2
              /\ (x \o y)[1] = a /\ (x \o y)[2] = b
            BY <3>1, ConcatProperties
        <3>3. replies = x \o y
            BY <2>1 DEF x, y
        <3> DEFINE r == x \o y
        <3> HIDE DEF r
        <3>4. r \in Seq({a, b}) /\ Len(r) = 2 /\ r[1] = a /\ r[2] = b /\ replies = r
            BY <3>2, <3>3 DEF r
        <3>5. DOMAIN r = 1..2 /\ r # <<>>
            BY <3>4
        <3>6. 1..2 = {1, 2}
            OBVIOUS
        <3>7. QED
            BY <3>4, <3>5, <3>6
    <2>3. Told(2) = t
        <3> DEFINE T == {i \in 1..(2 - 1) : replies[i].name = "SetCompression"}
        <3>1. T = {1}
            BY <1>4, <2>2
        <3>2. Told(2) = IF T = {} THEN -1
                        ELSE replies[CHOOSE i \in T : \A j \in T : j <= i].packet.threshold
            BY DEF Told
        <3> HIDE DEF T
        <3>3. (CHOOSE i \in T : \A j \in T : j <= i) = 1
            BY <3>1
        <3>4. QED
            BY <1>4, <2>2, <3>1, <3>2, <3>3
    <2>4. Understood(1) /\ Understood(2)
        BY <1>2, <1>3, <1>7, <2>2, <2>3 DEF Understood, Understands
    <2>5. QED
        BY <1>4, <1>8, <2>2, <2>3, <2>4 DEF ClientFollows, Last
<1>9. CASE ~(t >= 0)
    <2>1. replies = <<b>>
        BY <1>5, <1>9
    <2>2. replies[1] = b /\ Len(replies) = 1 /\ DOMAIN replies = {1} /\ replies # <<>>
        BY <2>1
    <2>3. Understood(1)
        BY <1>6, <1>7, <1>9, <2>2 DEF Understood, Understands
    <2>4. QED
        BY <1>4, <1>7, <1>9, <2>2, <2>3 DEF ClientFollows, Last
<1>10. QED
    BY <1>8, <1>9

LEMMA InvFollows == IInv /\ RepliesInv => ClientFollows
<1> SUFFICES ASSUME IInv, RepliesInv PROVE ClientFollows
    OBVIOUS
<1>1. PICK n \in DOMAIN Dialogues : Follows(Dialogues[n])
    BY DEF IInv
<1> DEFINE d == Dialogues[n]
<1>2. IsDialogue(d) /\ Typed(d)
    BY <1>1, DialogueAssumption DEF Follows
<1> HIDE DEF d
<1>3. reader \in {"server", "client"} /\ threshold \in Int
    BY <1>2 DEF IsDialogue, Typed
<1>4. replies = <<>> => \A m \in DOMAIN replies : Understood(m)
    <2>1. DOMAIN <<>> = {}
        OBVIOUS
    <2>2. QED
        BY <2>1
<1>5. CASE reader = "client"
    BY <1>4, <1>5 DEF RepliesInv, ClientFollows
<1>6. CASE reader = "server"
    <2>1. CASE phase = "handshaking" /\ replies = <<>>
        BY <1>4, <2>1 DEF ClientFollows
    <2>2. CASE phase = "status" /\ Said("status")
        BY <2>2, SaidFollows
    <2>3. CASE phase = "login" /\ Said("login")
        BY <2>3, SaidFollows
    <2>4. CASE phase = "play" /\ LoggedIn
        BY <1>3, <2>4, LoggedInFollows
    <2>5. CASE phase = "play" /\ NotFromHandshake
        BY <1>4, <2>5 DEF ClientFollows, NotFromHandshake
    <2>6. QED
        BY <1>6, <2>1, <2>2, <2>3, <2>4, <2>5 DEF RepliesInv
<1>7. QED
    BY <1>3, <1>5, <1>6

\* Whatever the server has written before Play, a client with the crate's decoders
\* reads as the packet it is, with the threshold it has been told of so far; and
\* in Play it has been told of the server's. (connection.rs:262-296)
THEOREM RepliesUnderstood == Spec => []ClientFollows
<1>1. Init => IInv /\ RepliesInv
    BY InitInv, RepliesInit
<1>2. IInv /\ RepliesInv /\ [Next]_vars => (IInv /\ RepliesInv)'
    BY StepFollows, RepliesStep
<1>3. IInv /\ RepliesInv => ClientFollows
    BY InvFollows
<1>4. QED
    BY <1>1, <1>2, <1>3, PTL DEF Spec

=============================================================================
