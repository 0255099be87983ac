---------------------------- MODULE MCConnection ----------------------------
(***************************************************************************)
(* The dialogues of the small instance: VarInts have 3 payload bits in a   *)
(* byte and 14 bits in all, strings and numbers that the code only passes  *)
(* on are two cells wide.                                                  *)
(***************************************************************************)
EXTENDS Connection

(***************************************************************************)
(* NBT as the format defines it.                                           *)
(***************************************************************************)
RECURSIVE NbtPayload(_)
NbtPayload(t) ==
  CASE t.tag \in {Tag.ByteArray, Tag.IntArray, Tag.LongArray} ->
         Cells("nbtlen", t.of) \o [i \in 1..t.of |-> Byte(i - 1)]
    [] t.tag = Tag.List ->
         <<Byte(t.of[1].tag)>> \o Cells("nbtlen", Len(t.of))
           \o FlattenSeq([i \in DOMAIN t.of |-> NbtPayload(t.of[i])])
    [] t.tag = Tag.Compound ->
         FlattenSeq([i \in DOMAIN t.of |->
                       <<Byte(t.of[i].tag)>> \o Cells("nbtname", "name") \o NbtPayload(t.of[i])])
           \o <<Byte(Tag.End)>>
    [] OTHER -> Cells("nbtvalue", t.tag)

NbtBytes(entries) ==
  <<Byte(Tag.Compound)>> \o Cells("nbtname", "root")
    \o NbtPayload([tag |-> Tag.Compound, of |-> entries])

(***************************************************************************)
(* Packets a layout can carry: one in which every field has a value of its *)
(* own, and those that differ from it in one field.                        *)
(***************************************************************************)
NbtSamples ==
  << NbtBytes(<<[tag |-> Tag.String, of |-> 0],
                [tag |-> Tag.Compound, of |-> <<[tag |-> 1, of |-> 0]>>],
                [tag |-> Tag.IntArray, of |-> 2]>>),
     NbtBytes(<<>>),
     NbtBytes(<<[tag |-> Tag.List, of |-> <<[tag |-> Tag.Compound, of |-> <<>>],
                                           [tag |-> Tag.Compound, of |-> <<[tag |-> 6, of |-> 0]>>]>>],
                [tag |-> Tag.LongArray, of |-> 1]>>) >>

PositionSamples ==
  << [x |-> 1, y |-> -1, z |-> 2],
     [x |-> -(PlaneRange \div 2), y |-> HeightRange \div 2 - 1, z |-> PlaneRange \div 2 - 1] >>

Carried(layout) == {i \in DOMAIN layout : layout[i].op \notin {"const", "ignored"}}
Fields(layout) == {layout[i].name : i \in Carried(layout)}
Place(layout, n) == CHOOSE i \in Carried(layout) : layout[i].name = n

RECURSIVE Values(_, _)
Base(layout) ==
  [n \in Fields(layout) |-> LET i == Place(layout, n) IN Values(layout[i], i)[1]]

Values(it, i) ==
  LET one == Base(it.sub)
  IN CASE it.op \in {"opt", "when"} -> << <<one>>, <<>> >>
       [] it.op = "many"     -> << <<one>>, <<>>, <<one, one>> >>
       [] it.op = "group"    -> <<one>>
       [] it.op = "position" -> PositionSamples
       [] it.op \in {"nbt", "optnbt"} ->
            NbtSamples \o (IF it.op = "optnbt" THEN << <<>> >> ELSE <<>>)
       [] it.op = "rest"     -> << Cells("rest", it.name), <<>> >>
       [] it.op = "optfield" -> <<it.name, "none">>
       [] it.in # {}         -> SelectSeq([n \in 1..9 |-> n - 2], LAMBDA n : n \in it.in)
       [] it.op = "varint"   -> <<i, -1, Radix>>
       [] it.op = "bool"     -> <<TRUE, FALSE>>
       [] OTHER              -> <<it.name>>

\* A field that is only there for some values of another one follows it.
Samples(layout) ==
  LET values == [i \in DOMAIN layout |-> Values(layout[i], i)]
      places == SelectSeq([i \in DOMAIN layout |-> i], LAMBDA i : i \in Carried(layout))
      base == [n \in Fields(layout) |-> values[Place(layout, n)][1]]
      vary(i) == [v \in 1..(Len(values[i]) - 1) |-> [base EXCEPT ![layout[i].name] = values[i][v + 1]]]
      consistent(p) ==
        [n \in DOMAIN p |->
           LET it == layout[Place(layout, n)]
           IN IF it.op # "when" THEN p[n]
              ELSE IF p[it.on] \in it.in THEN values[Place(layout, n)][1] ELSE <<>>]
      all == <<base>> \o FlattenSeq([k \in DOMAIN places |-> vary(places[k])])
  IN [k \in DOMAIN all |-> consistent(all[k])]

-----------------------------------------------------------------------------
MCThresholds == <<-1, 6>>

Begin(who, online, ph, t, now, later) ==
  << [reader |-> who, online |-> online, phase |-> ph, threshold |-> t,
      now |-> now, later |-> later] >>

Start(who, ph, t, now) == Begin(who, FALSE, ph, t, now, <<>>)

\* The sequences Of(1), ..., Of(n), one behind the other.
Each(n, Of(_)) == FlattenSeq([i \in 1..n |-> Of(i)])
EachThreshold(Of(_)) == Each(Len(MCThresholds), LAMBDA i : Of(MCThresholds[i]))
EachRow(rows, Of(_)) == Each(Len(rows), LAMBDA n : Of(rows[n]))
EachSample(row, Of(_)) ==
  LET samples == Samples(row.enc.layout)
  IN Each(Len(samples), LAMBDA k : Of(samples[k]))

\* Ways in which a frame of a known packet can be broken.
Spoiled(layout, p, it) ==
  [p EXCEPT ![it.name] = IF it.op = "string" THEN TooLong ELSE Radix]
Spoilable(layout, defect) ==
  {i \in DOMAIN layout : \/ defect = "text" /\ layout[i].op = "string"
                         \/ defect = "range" /\ layout[i].op = "varint" /\ layout[i].in # {}}
OpenEnded(layout) == layout # <<>> /\ layout[Len(layout)].op \in {"rest", "ignored"}

Applies(defect, layout, t) ==
  CASE defect = "short" -> layout # <<>> /\ ~OpenEnded(layout)
    [] defect = "long"  -> ~OpenEnded(layout)
    [] defect \in {"text", "range"} -> Spoilable(layout, defect) # {}
    [] defect = "zlib"  -> t >= 0
    [] OTHER -> TRUE

Broken(row, defect, t) ==
  LET p == Samples(row.enc.layout)[1]
      layout == row.dec.layout
      payload == Write(row.enc.layout, p)
      it == layout[CHOOSE i \in Spoilable(layout, defect) : TRUE]
      frame(pl) == encode_compressed_frame(row.enc.id, pl, t)
  IN Frm(row.name, <<>>, "bad",
         CASE defect = "short" -> frame(Front(payload))
           [] defect = "long"  -> frame(payload \o Cells("u8", "extra"))
           [] defect = "empty" -> encode_var_int(0)
           [] defect = "huge"  -> encode_var_int(MaxFrame + 1)
           [] defect = "unending" -> [i \in 1..5 |-> Byte(Radix)]
           [] defect \in {"text", "range"} -> frame(Write(layout, Spoiled(layout, p, it)))
           [] defect = "zlib"  -> encode_raw_frame(encode_var_int(Len(payload) + 1) \o Cells("zlib", payload)))

AllDefects == <<"short", "long", "empty", "huge", "unending", "text", "range", "zlib">>
EachDefect(layout, t, Of(_)) ==
  Each(Len(AllDefects), LAMBDA i :
    IF Applies(AllDefects[i], layout, t) THEN Of(AllDefects[i]) ELSE <<>>)

-----------------------------------------------------------------------------
(***************************************************************************)
(* In Play: every packet in every way it can be written and every broken   *)
(* one, each with another packet behind it.                                *)
(***************************************************************************)
Confirm(t) == Good(ServerboundPlay[1], [teleport_id |-> 1], t)
Difficulty(t) == Good(ClientboundPlay[3], [difficulty |-> "difficulty", locked |-> TRUE], t)

PlayToServer ==
  EachThreshold(LAMBDA t : EachRow(ServerboundPlay, LAMBDA row : EachSample(row, LAMBDA p :
    Start("server", "play", t, << Good(row, p, t), Confirm(t) >>))))

UnknownToServer ==
  EachThreshold(LAMBDA t : Start("server", "play", t, << Unknown(t), Confirm(t) >>))

BrokenToServer ==
  EachThreshold(LAMBDA t : EachRow(ServerboundPlay, LAMBDA row :
    EachDefect(row.dec.layout, t, LAMBDA d :
      Start("server", "play", t, << Broken(row, d, t), Confirm(t) >>))))

PlayToClient ==
  EachThreshold(LAMBDA t : EachRow(ClientboundPlay, LAMBDA row : EachSample(row, LAMBDA p :
    Start("client", "play", t, << Good(row, p, t), Unknown(t), Difficulty(t) >>))))

(***************************************************************************)
(* Before Play: the handshake and what follows it, up to the packets a     *)
(* client sends when it has seen Login Success.                            *)
(***************************************************************************)
Shake(next) ==
  Good(Handshake, [protocol_version |-> 1, server_address |-> "address", port |-> "port",
                   next_state |-> next], -1)

PingPacket == [payload |-> "payload"]
Named == [username |-> "username", uuid |-> "uuid"]

StatusToServer ==
  Start("server", "handshaking", -1,
        << Shake(NextState.Status), Good(StatusRequest, <<>>, -1),
           Good(StatusRequest, <<>>, -1), Final(Ping, PingPacket) >>)

LoginToServer ==
  EachThreshold(LAMBDA t : EachRow(<<LoginStart, ClientLoginStart>>, LAMBDA row :
    EachSample(row, LAMBDA p :
      Begin("server", FALSE, "handshaking", t,
            << Shake(NextState.Login), Good(row, p, -1) >>, <<Confirm(t)>>))))

BrokenLoginToServer ==
  EachDefect(LoginStart.dec.layout, -1, LAMBDA d :
    Start("server", "handshaking", -1, << Shake(NextState.Login), Broken(LoginStart, d, -1) >>))

\* A broken frame is Incomplete to decode_handshake, unless it is a whole one
\* with too long an address, a strange next state or something behind.
BrokenHandshakeToServer ==
  EachDefect(Handshake.dec.layout, -1, LAMBDA d :
    LET kind == IF d \in {"text", "range", "long"} THEN "bad" ELSE "waits"
    IN Start("server", "handshaking", -1,
             << [Broken(Handshake, d, -1) EXCEPT !.kind = kind], Shake(NextState.Login) >>))

\* A packet of another state; in online mode the Encryption Response is one.
Strange(row, p) == Frm(row.name, <<>>, "bad", Encode(row.enc, p))
Secrets == Strange(LoginServerbound[1], [shared_secret |-> "secret", verify_token |-> "token"])

WrongToServer ==
  Start("server", "handshaking", -1, << Shake(NextState.Login), Strange(Ping, PingPacket) >>)
  \o Start("server", "handshaking", -1, << Shake(NextState.Login), Secrets >>)
  \o Begin("server", TRUE, "handshaking", -1,
           << Shake(NextState.Login), Good(LoginStart, Named, -1), Secrets >>, <<>>)

StatusToClient ==
  Start("client", "status", -1,
        << Good(StatusResponse, [json |-> "json"], -1), Final(Pong, PingPacket) >>)

LoginToClient ==
  EachThreshold(LAMBDA t : EachSample(LoginClientbound[3], LAMBDA success :
    Start("client", "login", -1, Append(LoginReplies(success, t), Difficulty(t)))))

\* The packets of a login the server does not carry out, one after the other.
LoginPackets ==
  EachRow(<< <<"login", LoginClientbound>>, <<"answers", LoginServerbound>> >>, LAMBDA table :
    EachRow(table[2], LAMBDA row :
      IF row.name \in {"LoginSuccess", "SetCompression"} THEN <<>>
      ELSE EachSample(row, LAMBDA p :
             Start("client", table[1], -1, << Good(row, p, -1), Good(row, p, -1) >>))))

MCDialogues ==
  PlayToServer \o UnknownToServer \o BrokenToServer \o PlayToClient
  \o StatusToServer \o LoginToServer \o BrokenLoginToServer \o BrokenHandshakeToServer
  \o WrongToServer \o StatusToClient \o LoginToClient \o LoginPackets

=============================================================================
