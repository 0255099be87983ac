-------------------------------- MODULE Wire --------------------------------
(***************************************************************************)
(* What rustbound-protocol puts on the wire: primitives.rs, framing.rs,    *)
(* compression.rs, and the way every packet of handshake.rs, status.rs,    *)
(* login.rs and play.rs is written and read from them.                     *)
(*                                                                         *)
(* The wire is a sequence of cells <<kind, value, part>>.  What the code   *)
(* computes with (VarInt digits, flags, tags, ids, lengths) is there as    *)
(* numbers; the bytes of any other field are Width(kind) cells that carry  *)
(* the field's value, so a field can be cut in the middle, and a decoder   *)
(* that reads another kind than the encoder wrote finds it Bad.            *)
(*                                                                         *)
(* An encode_ or decode_ function of the code is its layout: the fields in *)
(* the order in which the function writes or reads them.  Both are written *)
(* down, each from its own source, and nothing says that they agree.       *)
(***************************************************************************)
EXTENDS Integers, Sequences, SequencesExt

CONSTANTS Radix,        \* values of the payload bits of a byte of a VarInt: 2^7 in the code
          IntRange,     \* values of the integer a VarInt carries: 2^32
          PlaneRange,   \* values of x and of z in a packed position: 2^26
          HeightRange,  \* values of y: 2^12
          MaxFrame      \* max_frame_length, min PROTOCOL_MAX_FRAME_LENGTH

\* What a digit counts in each of the bytes of a VarInt, and the first number
\* that needs more bytes than there are.
Weight == << 1, Radix, Radix * Radix, Radix * Radix * Radix,
            Radix * Radix * Radix * Radix, Radix * Radix * Radix * Radix * Radix >>

ASSUME WireAssumption ==
  /\ {Radix, IntRange, PlaneRange, HeightRange, MaxFrame} \subseteq Nat \ {0}
  /\ \A range \in {IntRange, PlaneRange, HeightRange} : range % 2 = 0
  /\ Weight[5] < IntRange /\ IntRange <= Weight[6]
  /\ MaxFrame < Weight[4]

(***************************************************************************)
(* Outcomes: a value with what is left of the input, too little input, or  *)
(* an error.                                                               *)
(***************************************************************************)
Got(v, rest) == [st |-> "got", value |-> v, rest |-> rest]
Short        == [st |-> "short"]
Bad          == [st |-> "bad"]

\* The first n elements of s, and what is behind them.
FirstOf(s, n) == SubSeq(s, 1, n)
Behind(s, n)  == SubSeq(s, n + 1, Len(s))

TooLong == "TooLong"      \* a string over the limit of its field

(***************************************************************************)
(* VarInt.                                                                 *)
(***************************************************************************)
Byte(n) == <<"byte", n, 1>>
MoreFollow(cell) == cell[2] >= Radix
Signed(u, range) == IF 2 * u >= range THEN u - range ELSE u

encode_var_int(v) ==
  LET u == v % IntRange
      n == Min({k \in 1..5 : k = 5 \/ u < Weight[k + 1]})
  IN [i \in 1..n |-> Byte(((u \div Weight[i]) % Radix) + (IF i < n THEN Radix ELSE 0))]

\* Where the VarInt at the front of s ends: at the first of its five bytes that
\* is not followed by another one, or at what is no byte of a VarInt.
VarIntEnd(s) ==
  LET ends == {i \in 1..5 : i <= Len(s) /\ (s[i][1] # "byte" \/ ~MoreFollow(s[i]))}
  IN IF ends = {} THEN 0 ELSE Min(ends)

Number(s, n) ==
  LET digit(i) == IF i <= n THEN (s[i][2] % Radix) * Weight[i] ELSE 0
  IN digit(1) + digit(2) + digit(3) + digit(4) + digit(5)

decode_var_int(s) ==
  LET last == VarIntEnd(s)
  IN IF last = 0 THEN IF Len(s) < 5 THEN Short ELSE Bad
     ELSE IF s[last][1] # "byte" THEN Bad
     ELSE Got(Signed(Number(s, last) % IntRange, IntRange), Behind(s, last))

(***************************************************************************)
(* Every other primitive: its cells, and a block position packed into one  *)
(* number as x, z, y.                                                      *)
(***************************************************************************)
Width(kind) == IF kind \in {"u8", "i8", "bool", "nbtname", "nbtvalue", "byte"} THEN 1 ELSE 2

Cells(kind, v) == [i \in 1..Width(kind) |-> <<kind, v, i>>]

TakeCells(kind, s) ==
  LET w == Width(kind)
  IN IF Len(s) < w THEN Short
     ELSE IF \A i \in 1..w : s[i][1] = kind /\ s[i][3] = i
          THEN Got(s[1][2], Behind(s, w))
          ELSE Bad

encode_position(p) ==
  Cells("position", ((p.x % PlaneRange) * PlaneRange + (p.z % PlaneRange)) * HeightRange
                      + (p.y % HeightRange))

decode_position(s) ==
  LET r == TakeCells("position", s)
      xz == r.value \div HeightRange
  IN IF r.st # "got" THEN r
     ELSE Got([x |-> Signed(xz \div PlaneRange, PlaneRange),
               y |-> Signed(r.value % HeightRange, HeightRange),
               z |-> Signed(xz % PlaneRange, PlaneRange)], r.rest)

(***************************************************************************)
(* The items of a layout.  "in" is what the code checks a number against   *)
(* ({} : nothing), "sub" the layout of what is repeated or optional.       *)
(***************************************************************************)
Item(op, n, sub) == [op |-> op, name |-> n, in |-> {}, on |-> "", sub |-> sub]

VarInt(n)  == Item("varint", n, <<>>)
U16(n)     == Item("u16", n, <<>>)
I16(n)     == Item("i16", n, <<>>)
I64(n)     == Item("i64", n, <<>>)
F32(n)     == Item("f32", n, <<>>)
F64(n)     == Item("f64", n, <<>>)
Bool(n)    == Item("bool", n, <<>>)
I8(n)      == Item("i8", n, <<>>)
U8(n)      == Item("u8", n, <<>>)
I32(n)     == Item("i32", n, <<>>)
UUID(n)    == Item("uuid", n, <<>>)
Bytes(n)   == Item("bytes", n, <<>>)         \* a byte array with its length
Str(n)     == Item("string", n, <<>>)
Position(n) == Item("position", n, <<>>)
Nbt(n)     == Item("nbt", n, <<>>)           \* raw NBT, read by read_nbt_compound
Rest(n)    == Item("rest", n, <<>>)          \* the rest of the body
Ignored    == Item("ignored", "", <<>>)      \* the rest of the body, not looked at
Const(item, v)      == [item EXCEPT !.op = "const", !.in = {v}, !.on = item.op]
Checked(item, vals) == [item EXCEPT !.in = vals]
Opt(n, sub)         == Item("opt", n, sub)   \* a Boolean, then sub if it is set
OptField(n, item)   == Item("optfield", n, <<item>>)  \* a Boolean, then the field or nothing
OptNbt(n)           == Item("optnbt", n, <<>>)  \* TAG_End alone, or an NBT compound
Many(n, sub)        == Item("many", n, sub)  \* a VarInt count, then so many sub
When(n, field, vals, sub) ==                 \* sub if an earlier field is in vals
  [Item("when", n, sub) EXCEPT !.in = vals, !.on = field]
Group(n, sub)       == Item("group", n, sub) \* the fields of a nested structure

(***************************************************************************)
(* NBT inside a packet.  The code only looks for its end; what it finds is *)
(* the raw cells.                                                          *)
(***************************************************************************)
Tag == [End |-> 0, ByteArray |-> 7, String |-> 8, List |-> 9, Compound |-> 10,
        IntArray |-> 11, LongArray |-> 12]

Then(r, next(_)) == IF r.st = "got" THEN next(r) ELSE r     \* the ? of the code

skip_nbt_name(s) == TakeCells("nbtname", s)

skip_nbt_primitive(tag, s) ==       \* of a byte array: the length and no more
  TakeCells(IF tag = Tag.ByteArray THEN "nbtlen" ELSE "nbtvalue", s)

Drop(n, s) == IF Len(s) < n THEN Short ELSE Got(n, Behind(s, n))

\* parse_nbt_payload, parse_nbt_payload_inner and parse_nbt_list_element have
\* the same arms once the name of the tag is read.  Next(t, n, s) reads n
\* payloads of the tag t.
parse_nbt_entries(s, Next(_, _, _)) ==
  Then(TakeCells("byte", s), LAMBDA t :
    IF t.value = Tag.End THEN t
    ELSE Then(skip_nbt_name(t.rest), LAMBDA n :
           Then(Next(t.value, 1, n.rest), LAMBDA e : Next(Tag.Compound, 1, e.rest))))

parse_nbt_payload_inner(tag, s, Next(_, _, _)) ==
  CASE tag = Tag.End -> Got(tag, s)
    [] tag \in 1..8 -> skip_nbt_primitive(tag, s)
    [] tag = Tag.List ->
         Then(TakeCells("byte", s), LAMBDA e :
           Then(TakeCells("nbtlen", e.rest), LAMBDA l : Next(e.value, l.value, l.rest)))
    [] tag = Tag.Compound -> parse_nbt_entries(s, Next)
    [] tag \in {Tag.IntArray, Tag.LongArray, 13} ->
         Then(TakeCells("nbtlen", s), LAMBDA l : Drop(l.value, l.rest))
    [] OTHER -> Bad

\* One function for all of NBT: so many payloads of a tag, read where so many
\* cells of s are left.
parse_nbt_list(tag, times, s) ==
  LET parse[t \in Nat, n \in Nat, left \in Nat] ==
        LET at == Behind(s, Len(s) - left)
            next(u, k, rest) == parse[u, k, Len(rest)]
        IN IF n = 0 THEN Got(t, at)
           ELSE Then(parse_nbt_payload_inner(t, at, next), LAMBDA r : next(t, n - 1, r.rest))
  IN parse[tag, times, Len(s)]

read_nbt_compound(s) ==
  Then(TakeCells("byte", s), LAMBDA t :
    IF t.value # Tag.Compound THEN Bad
    ELSE Then(skip_nbt_name(t.rest), LAMBDA n :
           Then(parse_nbt_list(Tag.Compound, 1, n.rest), LAMBDA e :
             Got(FirstOf(s, Len(s) - Len(e.rest)), e.rest))))

(***************************************************************************)
(* Writing a packet, a function from the names of its fields to their      *)
(* values, by a layout.  What is optional or repeated is a sequence of     *)
(* packets of the layout below, which Sub writes; no layout has more than  *)
(* three others below one another.                                         *)
(***************************************************************************)
Nested == {"opt", "optfield", "many", "when", "group"}

\* A constant is written and read like any other field of its kind.
Kind(it) == IF it.op = "const" THEN it.on ELSE it.op

\* What is written in front of what is nested, or of nothing.
Before(it, p) ==
  LET v == IF it.op = "const" THEN CHOOSE x \in it.in : TRUE ELSE p[it.name]
  IN CASE Kind(it) = "varint"   -> encode_var_int(v)
       [] Kind(it) = "position" -> encode_position(v)
       [] Kind(it) \in {"nbt", "rest"} -> v
       [] Kind(it) = "optnbt"   -> IF v = <<>> THEN <<Byte(Tag.End)>> ELSE v
       [] Kind(it) = "opt"      -> Cells("bool", v # <<>>)
       [] Kind(it) = "optfield" -> Cells("bool", v # "none")
       [] Kind(it) = "many"     -> encode_var_int(Len(v))
       [] Kind(it) \in {"when", "group"} -> <<>>
       [] Kind(it) = "ignored"  -> Cells("rest", "tail")
       [] OTHER -> Cells(Kind(it), v)

\* The packets that are nested in p here.
NestedIn(it, p) ==
  LET v == p[it.name]
  IN CASE it.op \in {"opt", "many", "when"} -> v
       [] it.op = "group"    -> <<v>>
       [] it.op = "optfield" -> IF v # "none" THEN <<p>> ELSE <<>>
       [] OTHER              -> <<>>

WriteItem(Sub(_, _), it, p) ==
  LET parts == NestedIn(it, p)
  IN Before(it, p) \o FlattenSeq([i \in DOMAIN parts |-> Sub(it.sub, parts[i])])

WriteAll(Sub(_, _), layout, p) ==
  FlattenSeq([i \in DOMAIN layout |-> WriteItem(Sub, layout[i], p)])

Write0(layout, p) == <<>>
Write1(layout, p) == WriteAll(Write0, layout, p)
Write2(layout, p) == WriteAll(Write1, layout, p)
Write3(layout, p) == WriteAll(Write2, layout, p)
Write(layout, p)  == WriteAll(Write3, layout, p)

(***************************************************************************)
(* Reading one: each field in turn, the first failure ends it.             *)
(***************************************************************************)
\* What has been read, with the next packet.
Added(packets, r) == IF r.st = "got" THEN Got(Append(packets, r.value), r.rest) ELSE r

ReadTimes(Sub(_, _), n, sub, s) ==
  LET upto[i \in 0..n] ==
        IF i = 0 THEN Got(<<>>, s)
        ELSE LET before == upto[i - 1]
             IN IF before.st = "got" THEN Added(before.value, Sub(sub, before.rest)) ELSE before
  IN upto[n]

\* A count, from a flag or from a VarInt.
FlagCount(b) == IF b.st # "got" THEN b ELSE Got(IF b.value THEN 1 ELSE 0, b.rest)
Counted(n)   == IF n.st = "got" /\ n.value < 0 THEN Bad ELSE n

\* How many packets are nested here, and where they begin.
ReadCount(it, s, p) ==
  CASE it.op \in {"opt", "optfield"} -> FlagCount(TakeCells("bool", s))
    [] it.op = "many"  -> Counted(decode_var_int(s))
    [] it.op = "when"  -> Got(IF p[it.on] \in it.in THEN 1 ELSE 0, s)
    [] it.op = "group" -> Got(1, s)

\* What has been read there, as a value of the field.
Gathered(it, r) ==
  IF r.st # "got" \/ it.op \in {"opt", "many", "when"} THEN r
  ELSE IF it.op = "group" THEN Got(r.value[1], r.rest)
  ELSE Got(IF r.value = <<>> THEN "none" ELSE r.value[1][it.sub[1].name], r.rest)

ReadParts(Sub(_, _), it, n) ==
  IF n.st = "got" THEN Gathered(it, ReadTimes(Sub, n.value, it.sub, n.rest)) ELSE n

ReadItem(Sub(_, _), it, s, p) ==
  CASE Kind(it) = "varint"   -> decode_var_int(s)
    [] Kind(it) = "position" -> decode_position(s)
    [] Kind(it) \in {"nbt", "optnbt"} ->
         IF Kind(it) = "optnbt" /\ s # <<>> /\ s[1] = Byte(Tag.End) THEN Got(<<>>, Tail(s))
         ELSE read_nbt_compound(s)
    [] Kind(it) = "rest"     -> Got(s, <<>>)
    [] Kind(it) = "ignored"  -> Got("", <<>>)
    [] Kind(it) \in Nested   -> ReadParts(Sub, it, ReadCount(it, s, p))
    [] OTHER -> TakeCells(Kind(it), s)

Accepts(it, v) ==
  /\ it.op \in {"when", "opt", "many"} \/ it.in = {} \/ v \in it.in
  /\ it.op # "string" \/ v # TooLong

Extended(packet, n, v) == [x \in DOMAIN packet \cup {n} |-> IF x = n THEN v ELSE packet[x]]

\* What has been read, with the next field.
WithField(it, packet, r) ==
  IF r.st # "got" THEN r
  ELSE IF ~Accepts(it, r.value) THEN Bad
  ELSE IF it.op \in {"const", "ignored"} THEN Got(packet, r.rest)
  ELSE Got(Extended(packet, it.name, r.value), r.rest)

ReadAll(Sub(_, _), layout, s) ==
  LET upto[i \in 0..Len(layout)] ==
        IF i = 0 THEN Got(<<>>, s)
        ELSE LET before == upto[i - 1]
             IN IF before.st = "got"
                THEN WithField(layout[i], before.value,
                               ReadItem(Sub, layout[i], before.rest, before.value))
                ELSE before
  IN upto[Len(layout)]

Read0(layout, s) == Bad
Read1(layout, s) == ReadAll(Read0, layout, s)
Read2(layout, s) == ReadAll(Read1, layout, s)
Read3(layout, s) == ReadAll(Read2, layout, s)
Read(layout, s)  == ReadAll(Read3, layout, s)

(***************************************************************************)
(* Frames.  MAX_LENGTH_PREFIX_BYTES is 3.                                  *)
(***************************************************************************)
MaxPrefix == 3

encode_raw_frame(body) ==
  IF Len(body) > MaxFrame THEN <<>> ELSE encode_var_int(Len(body)) \o body

encode_frame(id, payload) ==
  LET body == encode_var_int(id) \o payload
  IN IF Len(body) > MaxFrame THEN <<>> ELSE encode_var_int(Len(body)) \o body

\* The body behind its length l, where so many cells are in front of it, with
\* the two checks by which decode_frame is stricter than decode_raw_frame left
\* to the caller.
BodyBehind(l, prefix, strict) ==
  IF l.st # "got" THEN l
  ELSE IF \/ l.value < 0 \/ l.value > MaxFrame
          \/ strict /\ (l.value = 0 \/ prefix - Len(l.rest) > MaxPrefix)
  THEN Bad
  ELSE IF Len(l.rest) < l.value THEN Short
  ELSE Got(FirstOf(l.rest, l.value), Behind(l.rest, l.value))

FrameBody(s, strict) == BodyBehind(decode_var_int(s), Len(s), strict)

\* In a body that is there whole, what is no value is an error.
Whole(r) == IF r.st = "got" THEN r ELSE Bad

Frame(id, payload, rest) == Got([id |-> id, payload |-> payload], rest)

\* The packet that begins with its id, and the packet in a body.
PacketOf(id, rest) == IF id.st = "got" THEN Frame(id.value, id.rest, rest) ELSE id
PacketIn(body) ==
  IF body.st = "got" THEN PacketOf(Whole(decode_var_int(body.value)), body.rest) ELSE body

decode_frame(s) == PacketIn(FrameBody(s, TRUE))

decode_raw_frame(s) == FrameBody(s, FALSE)

(***************************************************************************)
(* Compression: zlib is a wrapper of known size around the cells.          *)
(***************************************************************************)
encode_compressed_frame(id, payload, threshold) ==
  LET body == encode_var_int(id) \o payload
  IN IF threshold < 0 THEN encode_frame(id, payload)
     ELSE IF Len(body) > threshold
     THEN encode_raw_frame(encode_var_int(Len(body)) \o Cells("zlib", body))
     ELSE encode_raw_frame(encode_var_int(0) \o body)

\* The cells of the packet, told by the length in front of them.
Unzipped(z, length, rest) ==
  IF z.st = "got" /\ Len(z.value) = length THEN Got(z.value, rest) ELSE Bad

Unpacked(n, rest) ==
  IF n.st # "got" \/ n.value < 0 THEN Bad
  ELSE IF n.value = 0 THEN Got(n.rest, rest)
  ELSE Unzipped(TakeCells("zlib", n.rest), n.value, rest)

Inflated(body) ==
  IF body.st = "got" THEN Unpacked(decode_var_int(body.value), body.rest) ELSE body

decode_compressed_frame(s, threshold) ==
  IF threshold < 0 THEN decode_frame(s) ELSE PacketIn(Inflated(decode_raw_frame(s)))

(***************************************************************************)
(* Packets: an id and a layout.  Every encode_x frames what it wrote; every *)
(* decode_x reads a frame, refuses another id, reads the fields and then   *)
(* refuses what is left over.  Until the last of these the input stays.    *)
(***************************************************************************)
Packet(id, layout) == [id |-> id, layout |-> layout]

Encode(codec, p) == encode_frame(codec.id, Write(codec.layout, p))

Wrong == [st |-> "wrong"]                                \* WrongPacketId

Finished(r, rest) == IF r.st # "got" \/ r.rest # <<>> THEN Bad ELSE Got(r.value, rest)

DecodeBody(codec, payload, rest) == Finished(Read(codec.layout, payload), rest)

DecodeIn(codec, f) ==
  IF f.st # "got" THEN f
  ELSE IF f.value.id # codec.id THEN Wrong ELSE DecodeBody(codec, f.value.payload, f.rest)

Decode(codec, s) == DecodeIn(codec, decode_frame(s))

=============================================================================
