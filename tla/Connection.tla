----------------------------- MODULE Connection -----------------------------
(***************************************************************************)
(* A connection, as one of its two ends reads it: frames written by the    *)
(* peer travel as a stream that TCP splits and joins as it likes, are      *)
(* collected in the read buffer, decoded from there and answered.  The     *)
(* reader is the server (the loop of handle_connection, then that of       *)
(* run_play_loop) or another program that reads with the decoders of the   *)
(* crate, as the conformance clients do for the packets they look at.      *)
(***************************************************************************)
EXTENDS PlayCodec, LoginCodec

CONSTANTS ReadSizes,   \* how much one read may return, besides everything
          Dialogues    \* a sequence: who reads what, from which state on

\* What the server itself writes before Play fits into a frame.
ASSUME ReadAssumption == ReadSizes \subseteq Nat \ {0} /\ MaxFrame >= 32

VARIABLES reader,      \* "server" or "client": any program with the crate's decoders
          online_mode, \* of the server's configuration
          phase,       \* the protocol state the reader is in
          threshold,   \* of the server's configuration (used in Play), or what
                       \* Set Compression has told the client
          sent,        \* every frame of the peer, in order (never read)
          wire,        \* cells under way
          held,        \* frames the peer sends once it is in Play
          eof,         \* the peer has closed its end
          buffer,      \* read_buffer
          outcome,     \* decode_result
          received,    \* packets handed on, in order
          replies,     \* frames the server has written before Play
          pc           \* "decode", "match", "read", "skipped" or "closed"

config == <<reader, online_mode, sent>>
vars == <<config, phase, threshold, wire, held, eof, buffer, outcome, received, replies, pc>>

-----------------------------------------------------------------------------
(***************************************************************************)
(* The packets of each direction, with the function that writes and the    *)
(* one that reads them.  Where the crate has one of the two, the peer      *)
(* agrees with it.                                                         *)
(***************************************************************************)
Row(n, enc, dec) == [name |-> n, enc |-> enc, dec |-> dec]

\* The three kinds of interaction a client sends.
client_interact_entity ==
  [decode_interact_entity EXCEPT !.layout[2] = Checked(VarInt("action"), 0..2)]

\* In the order of try_decode_play_packet_inner.
ServerboundPlay ==
  << Row("ConfirmTeleportation", encode_confirm_teleportation, decode_confirm_teleportation),
     Row("KeepAlive", encode_keep_alive_serverbound, decode_keep_alive_serverbound),
     Row("ClientInformation", encode_client_information, decode_client_information),
     Row("SetPlayerPosition", encode_set_player_position, decode_set_player_position),
     Row("SetPlayerPositionAndRotation", encode_set_player_position_and_rotation,
         decode_set_player_position_and_rotation),
     Row("SetPlayerRotation", encode_set_player_rotation, decode_set_player_rotation),
     Row("PlayerDigging", encode_player_digging, decode_player_digging),
     Row("InteractEntity", client_interact_entity, decode_interact_entity),
     Row("UseItemOn", encode_use_item_on, decode_use_item_on),
     Row("ClickContainer", encode_click_container, decode_click_container),
     Row("CloseContainer", encode_close_container_serverbound, decode_close_container_serverbound),
     Row("SetHeldItem", decode_set_held_item_serverbound, decode_set_held_item_serverbound),
     Row("SetCreativeModeSlot", decode_set_creative_mode_slot, decode_set_creative_mode_slot),
     Row("ChatMessage", decode_chat_message_serverbound, decode_chat_message_serverbound),
     Row("ClientStatus", decode_client_status, decode_client_status) >>

InfoActions == {"ADD_PLAYER", "UPDATE_GAMEMODE", "UPDATE_LISTED", "UPDATE_LATENCY"}

ClientboundPlay ==
  << Row("JoinGame", encode_join_game, decode_join_game),
     Row("PluginMessage", encode_plugin_message_clientbound, decode_plugin_message_clientbound),
     Row("ChangeDifficulty", encode_change_difficulty, decode_change_difficulty),
     Row("PlayerAbilities", encode_player_abilities, decode_player_abilities),
     Row("UpdateTags", encode_update_tags_empty, encode_update_tags_empty),
     Row("UpdateRecipes", encode_update_recipes_empty, encode_update_recipes_empty),
     Row("SetHeldItem", encode_set_held_item, decode_set_held_item),
     Row("EntityEvent", encode_entity_event, decode_entity_event),
     Row("GameEvent", encode_game_event, decode_game_event),
     Row("SetDefaultSpawnPosition", encode_set_default_spawn_position,
         decode_set_default_spawn_position),
     Row("SetRenderDistance", encode_set_render_distance, decode_set_render_distance),
     Row("SetSimulationDistance", encode_set_simulation_distance, decode_set_simulation_distance),
     Row("Disconnect", encode_disconnect_play, decode_disconnect_play),
     Row("KeepAlive", encode_keep_alive_clientbound, decode_keep_alive_clientbound),
     Row("SynchronizePlayerPosition", encode_synchronize_player_position,
         decode_synchronize_player_position),
     Row("SetCenterChunk", encode_set_center_chunk, decode_set_center_chunk),
     Row("UnloadChunk", encode_unload_chunk, decode_unload_chunk),
     Row("ChunkData", encode_chunk_data, decode_chunk_data),
     Row("SetBlockDestroyStage", encode_set_block_destroy_stage, decode_set_block_destroy_stage),
     Row("BlockUpdate", encode_block_update, decode_block_update),
     Row("AcknowledgeBlockChange", encode_acknowledge_block_change, decode_acknowledge_block_change),
     Row("SetHealth", encode_set_health, decode_set_health),
     Row("CombatDeath", encode_combat_death, decode_combat_death),
     Row("Respawn", encode_respawn, decode_respawn),
     Row("SetContainerContent", encode_set_container_content, decode_set_container_content),
     Row("SetContainerSlot", encode_set_container_slot, decode_set_container_slot),
     Row("OpenScreen", encode_open_screen, decode_open_screen),
     Row("CloseContainer", encode_close_container_clientbound, encode_close_container_clientbound),
     Row("PlayerInfoUpdate", encode_player_info_update(InfoActions),
         encode_player_info_update(InfoActions)),
     Row("PlayerInfoRemove", encode_player_info_remove, encode_player_info_remove),
     Row("SpawnPlayer", encode_spawn_player, encode_spawn_player),
     Row("SpawnEntity", encode_spawn_entity, encode_spawn_entity),
     Row("RemoveEntities", encode_remove_entities, encode_remove_entities),
     Row("MoveEntityPos", encode_move_entity_pos, decode_move_entity_pos),
     Row("MoveEntityPosRot", encode_move_entity_pos_rot, decode_move_entity_pos_rot),
     Row("MoveEntityRot", encode_move_entity_rot, decode_move_entity_rot),
     Row("EntityTeleport", encode_entity_teleport, decode_entity_teleport),
     Row("SystemChatMessage", encode_system_chat_message, encode_system_chat_message) >>

LoginClientbound ==
  << Row("LoginDisconnect", encode_login_disconnect, decode_login_disconnect),
     Row("EncryptionRequest", encode_encryption_request, decode_encryption_request),
     Row("LoginSuccess", encode_login_success, decode_login_success),
     Row("LoginPluginRequest", encode_login_plugin_request, decode_login_plugin_request),
     Row("SetCompression", encode_set_compression, decode_set_compression) >>

LoginServerbound ==
  << Row("EncryptionResponse", encode_encryption_response, decode_encryption_response),
     Row("LoginPluginResponse", encode_login_plugin_response, decode_login_plugin_response) >>

Handshake    == Row("Handshake", encode_handshake, parse_handshake_body)
StatusRequest == Row("StatusRequest", decode_status_request, decode_status_request)
Ping         == Row("Ping", decode_ping_request, decode_ping_request)
LoginStart   == Row("LoginStart", encode_login_start, decode_login_start)
\* A client may leave its UUID out; the crate's own encoder never does.
ClientLoginStart == Row("LoginStart", decode_login_start, decode_login_start)
StatusResponse == Row("StatusResponse", encode_status_response, decode_status_response)
Pong         == Row("Pong", encode_pong_response, decode_ping_request)

-----------------------------------------------------------------------------
(***************************************************************************)
(* What the peer writes.  A frame is kept with what it is to the reader:   *)
(* a good packet, the last one, one of an id the reader does not know, or  *)
(* a bad one.                                                              *)
(***************************************************************************)
Frm(name, packet, kind, cells) ==
  [name |-> name, packet |-> packet, kind |-> kind, cells |-> cells]

\* send_wire: the frame an encoder made, wrapped again if compression is on.
send_wire(frame, t) ==
  IF t < 0 THEN frame
  ELSE LET f == decode_frame(frame) IN encode_compressed_frame(f.value.id, f.value.payload, t)

Good(row, p, t) == Frm(row.name, p, "good", send_wire(Encode(row.enc, p), t))
Final(row, p)   == Frm(row.name, p, "last", Encode(row.enc, p))

UnknownId == 63
Unknown(t) == Frm("Unknown", <<>>, "unknown",
                  encode_compressed_frame(UnknownId, Cells("rest", "tail"), t))

-----------------------------------------------------------------------------
(***************************************************************************)
(* Reading.  An outcome of a reader is "got" with the packet, "skipped"    *)
(* with the rest, "short" or "bad".                                        *)
(***************************************************************************)
As(name, r) == IF r.st = "got" THEN Got([name |-> name, packet |-> r.value], r.rest) ELSE r
Skipped(rest) == [st |-> "skipped", rest |-> rest]

\* Each decoder in turn until one does not say WrongPacketId; if all do, the
\* frame is passed over.
try_decode_play_packet_inner(rows, s) ==
  LET taken(n) == IF n # 0 THEN As(rows[n].name, Decode(rows[n].dec, s))
                  ELSE Skipped(decode_frame(s).rest)
  IN taken(SelectInSeq(rows, LAMBDA row : Decode(row.dec, s).st # "wrong"))

\* With compression the frame is taken out of the buffer first and framed
\* again without it.
Reframed(r, rest) == IF r.st \in {"got", "skipped"} THEN [r EXCEPT !.rest = rest] ELSE Whole(r)

InTemp(rows, temp, rest) ==
  IF temp = <<>> THEN Bad ELSE Reframed(try_decode_play_packet_inner(rows, temp), rest)

PlayPacketIn(rows, c) ==
  IF c.st # "got" THEN c ELSE InTemp(rows, encode_frame(c.value.id, c.value.payload), c.rest)

try_decode_play_packet(rows, s, t) ==
  IF t < 0 THEN try_decode_play_packet_inner(rows, s)
  ELSE PlayPacketIn(rows, decode_compressed_frame(s, t))

try_decode_packet(ph, s) ==
  CASE ph = "handshaking" -> As("Handshake", decode_handshake(s))
    [] ph = "status" -> LET first(r) == IF r.st = "wrong" /\ decode_frame(s).value.id = PingId
                                        THEN As("Ping", Decode(decode_ping_request, s))
                                        ELSE As("StatusRequest", r)
                        IN first(Decode(decode_status_request, s))
    [] ph = "login"  -> As("LoginStart", Decode(decode_login_start, s))

\* The client takes a frame and chooses by its id; what it does not know is
\* an error before Play and passed over in Play.
ClientPackets(ph) ==
  CASE ph = "play"    -> ClientboundPlay
    [] ph = "login"   -> LoginClientbound
    [] ph = "status"  -> <<StatusResponse, Pong>>
    [] ph = "answers" -> LoginServerbound

RowOf(rows, id) == SelectInSeq(rows, LAMBDA row : row.dec.id = id)

ClientPacketAs(row, c) == As(row.name, DecodeBody(row.dec, c.value.payload, c.rest))

ClientPacketIn(rows, others, c) ==
  IF c.st # "got" THEN c
  ELSE IF RowOf(rows, c.value.id) # 0 THEN ClientPacketAs(rows[RowOf(rows, c.value.id)], c)
  ELSE IF others = "skipped" THEN Skipped(c.rest) ELSE Bad

client_decode_packet(ph, s, t) ==
  ClientPacketIn(ClientPackets(ph), IF ph = "play" THEN "skipped" ELSE "bad",
                 decode_compressed_frame(s, t))

\* What a reader makes of what it has in its buffer.
Decoded(who, ph, t, s) ==
  CASE who = "client" -> client_decode_packet(ph, s, t)
    [] who = "server" /\ ph = "play" -> try_decode_play_packet(ServerboundPlay, s, t)
    [] OTHER -> try_decode_packet(ph, s)

DecodeResult == Decoded(reader, phase, threshold, buffer)

-----------------------------------------------------------------------------
CellsOf(frames) == FlattenSeq([i \in DOMAIN frames |-> frames[i].cells])

EncryptionRequest ==
  Good(LoginClientbound[2],
       [server_id |-> "", public_key |-> "placeholder", verify_token |-> "placeholder"], -1)

\* Set Compression is sent without compression and what follows with it.
LoginReplies(success, t) ==
  (IF t >= 0 THEN <<Good(LoginClientbound[5], [threshold |-> t], -1)>> ELSE <<>>)
    \o <<Good(LoginClientbound[3], success, t)>>

-----------------------------------------------------------------------------
(***************************************************************************)
(* What a dialogue is: each frame is what its kind says to a reader that   *)
(* has come to it, and a client that logs in waits for the answer.         *)
(***************************************************************************)
Frames(d) == d.now \o d.later

\* What a frame that is handed on makes of the state of the reader.
Following(d, turn, f) ==
  IF f.kind # "good" THEN turn
  ELSE CASE f.name = "Handshake" ->
              [turn EXCEPT !.phase = IF f.packet.next_state = NextState.Status THEN "status" ELSE "login"]
         [] f.name = "LoginSuccess" \/ (f.name = "LoginStart" /\ ~d.online) ->
              [turn EXCEPT !.phase = "play"]
         [] f.name = "SetCompression" -> [turn EXCEPT !.threshold = f.packet.threshold]
         [] OTHER -> turn

\* The state in which the reader comes to what is behind the i-th frame.
Turns(d) ==
  LET turn[i \in 0..Len(Frames(d))] ==
        IF i = 0 THEN [phase |-> d.phase, threshold |-> d.threshold]
        ELSE Following(d, turn[i - 1], Frames(d)[i])
  IN turn

Phases == [server |-> {"handshaking", "status", "login", "play"},
           client |-> {"status", "login", "answers", "play"}]

\* Nothing that may come behind s can still change what the frame in front is.
Arrived(who, turn, s) ==
  FrameBody(s, (who = "server" /\ turn.phase # "play") \/ turn.threshold < 0).st # "short"

LastNames == {"Ping", "Pong"}

IsWhatItSays(who, turn, f) ==
  LET r == Decoded(who, turn.phase, turn.threshold, f.cells)
      packet == Got([name |-> f.name, packet |-> f.packet], <<>>)
  IN CASE f.kind = "good"    -> r = packet /\ f.name \notin LastNames
       [] f.kind = "last"    -> r = packet /\ f.name \in LastNames
       [] f.kind = "unknown" -> r = Skipped(<<>>)
       [] f.kind = "bad"     -> r.st \in {"bad", "wrong"}
       [] f.kind = "waits"   -> r = Short /\ Arrived(who, turn, f.cells)
       [] OTHER -> FALSE

IsSequence(s) == Len(s) \in Nat /\ s = [i \in 1..Len(s) |-> s[i]]

IsFrame(f) ==
  /\ IsSequence(f.cells) /\ f.cells # <<>>
  /\ \A i \in DOMAIN f.cells : f.cells[i][1] = "byte" => f.cells[i][2] \in Nat

IsDialogue(d) ==
  LET turn == Turns(d)
      frames == Frames(d)
  IN /\ d.reader \in {"server", "client"} /\ IsSequence(d.now) /\ IsSequence(d.later)
     /\ \A i \in 0..Len(frames) : turn[i].phase \in Phases[d.reader] /\ turn[i].threshold \in Int
     /\ \A i \in 1..Len(frames) :
          /\ IsFrame(frames[i])
          /\ IsWhatItSays(d.reader, turn[i - 1], frames[i])
          /\ turn[i - 1].phase = "play" => turn[i].phase = "play"
          /\ frames[i].name = "LoginStart" /\ ~d.online =>
               i = Len(d.now) /\ turn[i - 1].phase = "login"

ASSUME DialogueAssumption == \A n \in DOMAIN Dialogues : IsDialogue(Dialogues[n])

-----------------------------------------------------------------------------
Init ==
  \E n \in DOMAIN Dialogues : \E d \in {Dialogues[n]} :
    /\ reader = d.reader /\ online_mode = d.online /\ phase = d.phase
    /\ threshold = d.threshold
    /\ sent = d.now \o d.later /\ wire = CellsOf(d.now) /\ held = CellsOf(d.later)
    /\ buffer = <<>> /\ outcome = Short /\ received = <<>> /\ replies = <<>>
    /\ eof = FALSE /\ pc = "decode"

-----------------------------------------------------------------------------
(***************************************************************************)
(* The loop: decode while there are packets, then read.                    *)
(***************************************************************************)
Stay == UNCHANGED <<config, wire, eof>>

Trying == pc = "decode" /\ pc' = "match"

TryDecode ==
  /\ Trying
  /\ outcome' = DecodeResult
  /\ UNCHANGED <<phase, threshold, held, buffer, received, replies>>
  /\ Stay

\* A packet has been decoded: it is drained from the buffer and handed on.
TakeFrame(name) ==
  /\ pc = "match"
  /\ outcome.st = "got"
  /\ outcome.value.name = name
  /\ received' = Append(received, outcome.value)
  /\ outcome' = Short
  /\ UNCHANGED held
  /\ Stay

Answer(frames) == replies' = IF reader = "server" THEN replies \o frames ELSE replies

HandleHandshake ==
  /\ TakeFrame("Handshake")
  /\ phase' = IF outcome.value.packet.next_state = NextState.Status THEN "status" ELSE "login"
  /\ buffer' = outcome.rest
  /\ pc' = "decode"
  /\ UNCHANGED <<threshold, replies>>

HandleStatusRequest ==
  /\ TakeFrame("StatusRequest")
  /\ Answer(<<Good(StatusResponse, [json |-> "json"], -1)>>)
  /\ buffer' = outcome.rest
  /\ pc' = "decode"
  /\ UNCHANGED <<phase, threshold>>

HandlePing ==
  /\ TakeFrame("Ping")
  /\ Answer(<<Final(Pong, outcome.value.packet)>>)
  /\ buffer' = outcome.rest
  /\ pc' = "closed"
  /\ UNCHANGED <<phase, threshold>>

\* Mutant: Login Success, in the new format, goes out before Set Compression.
HandleLoginStartSwapped ==
  /\ TakeFrame("LoginStart")
  /\ ~online_mode
  /\ Answer(Reverse(LoginReplies([uuid |-> "offline",
                                  username |-> outcome.value.packet.username,
                                  properties |-> <<>>], threshold)))
  /\ buffer' = <<>>
  /\ phase' = "play"
  /\ pc' = "decode"
  /\ UNCHANGED threshold

\* LoginStateMachine::handle_login_start: offline, Login Success and Play, with
\* a new read buffer; online, Encryption Request, and the state stays Login.
HandleLoginStart ==
  /\ TakeFrame("LoginStart")
  /\ IF online_mode
     THEN /\ Answer(<<EncryptionRequest>>)
          /\ buffer' = outcome.rest
          /\ UNCHANGED phase
     ELSE /\ Answer(LoginReplies([uuid |-> "offline", username |-> outcome.value.packet.username,
                                  properties |-> <<>>], threshold))
          /\ buffer' = <<>>
          /\ phase' = "play"
  /\ pc' = "decode"
  /\ UNCHANGED threshold

HandleSetCompression ==
  /\ TakeFrame("SetCompression")
  /\ threshold' = outcome.value.packet.threshold
  /\ buffer' = outcome.rest
  /\ pc' = "decode"
  /\ UNCHANGED <<phase, replies>>

HandleLoginSuccess ==
  /\ TakeFrame("LoginSuccess")
  /\ phase' = "play"
  /\ buffer' = outcome.rest
  /\ pc' = "decode"
  /\ UNCHANGED <<threshold, replies>>

HandlePong ==
  /\ TakeFrame("Pong")
  /\ buffer' = outcome.rest
  /\ pc' = "closed"
  /\ UNCHANGED <<phase, threshold, replies>>

Others == {"Handshake", "StatusRequest", "Ping", "LoginStart", "SetCompression", "LoginSuccess", "Pong"}

\* Mutant: all of the buffer is drained, not the bytes of the packet.
HandlePacketCleared ==
  /\ pc = "match" /\ outcome.st = "got" /\ outcome.value.name \notin Others
  /\ TakeFrame(outcome.value.name)
  /\ buffer' = <<>>
  /\ pc' = "decode"
  /\ UNCHANGED <<phase, threshold, replies>>

HandlePacket ==
  /\ pc = "match" /\ outcome.st = "got" /\ outcome.value.name \notin Others
  /\ TakeFrame(outcome.value.name)
  /\ buffer' = outcome.rest
  /\ pc' = "decode"
  /\ UNCHANGED <<phase, threshold, replies>>

SkippedUnknown ==
  /\ pc = "match"
  /\ outcome.st = "skipped"
  /\ buffer' = outcome.rest
  /\ outcome' = Short
  /\ pc' = "skipped"
  /\ UNCHANGED <<phase, threshold, held, received, replies>>
  /\ Stay

Refused ==
  /\ pc = "match"
  /\ outcome.st \in {"bad", "wrong"}
  /\ outcome' = Short
  /\ pc' = "closed"
  /\ UNCHANGED <<phase, threshold, held, buffer, received, replies>>
  /\ Stay

NeedsMore ==
  /\ pc = "match"
  /\ outcome.st = "short"
  /\ pc' = "read"
  /\ UNCHANGED <<phase, threshold, held, buffer, outcome, received, replies>>
  /\ Stay

\* A packet that was skipped is reported like one that is incomplete, so the
\* loop reads before it looks at what is behind it.
AtRead == pc \in {"read", "skipped"}

\* Mutant: all of the chunk is appended, not the n bytes that were read.
ReadWholeChunk ==
  /\ AtRead
  /\ wire # <<>>
  /\ \E n \in {k \in ReadSizes : k < Len(wire)} \cup {Len(wire)} :
       /\ buffer' = buffer \o SubSeq(wire, 1, n) \o [i \in 1..4 |-> Byte(0)]
       /\ wire' = SubSeq(wire, n + 1, Len(wire))
  /\ pc' = "decode"
  /\ UNCHANGED <<config, phase, threshold, held, eof, outcome, received, replies>>

ReadSome ==
  /\ AtRead
  /\ wire # <<>>
  /\ \E n \in {k \in ReadSizes : k < Len(wire)} \cup {Len(wire)} :
       /\ buffer' = buffer \o SubSeq(wire, 1, n)
       /\ wire' = SubSeq(wire, n + 1, Len(wire))
  /\ pc' = "decode"
  /\ UNCHANGED <<config, phase, threshold, held, eof, outcome, received, replies>>

\* The read times out and the loop goes round: what is in the buffer is
\* tried again.
ReadTimeout ==
  /\ AtRead
  /\ wire = <<>> /\ ~eof
  /\ pc' = "decode"
  /\ UNCHANGED <<phase, threshold, held, buffer, outcome, received, replies>>
  /\ Stay

\* read returns 0 or fails.
ReadEnd ==
  /\ AtRead
  /\ wire = <<>> /\ eof
  /\ pc' = "closed"
  /\ UNCHANGED <<phase, threshold, held, buffer, outcome, received, replies>>
  /\ Stay

\* The peer has been told that it is in Play.
PeerInPlay ==
  /\ phase = "play"
  /\ held # <<>>
  /\ wire' = wire \o held
  /\ held' = <<>>
  /\ UNCHANGED <<config, phase, threshold, eof, buffer, outcome, received, replies, pc>>

PeerCloses ==
  /\ held = <<>> /\ ~eof /\ pc # "closed"
  /\ eof' = TRUE
  /\ UNCHANGED <<config, phase, threshold, wire, held, buffer, outcome, received, replies, pc>>

Match ==
  \/ HandleHandshake \/ HandleStatusRequest \/ HandlePing \/ HandleLoginStart
  \/ HandleSetCompression \/ HandleLoginSuccess \/ HandlePong \/ HandlePacket
  \/ SkippedUnknown \/ Refused \/ NeedsMore

Reading == ReadSome \/ ReadTimeout \/ ReadEnd

\* What every step of Match does to pc, and no other step.
Matching == pc = "match" /\ pc' \in {"decode", "read", "skipped", "closed"}

Next == TryDecode \/ Match \/ Reading \/ PeerInPlay \/ PeerCloses

Spec == Init /\ [][Next]_vars

\* The thread of the connection runs, and a peer that may go on does; no peer
\* has to leave.  Trying and Matching stand for TryDecode and Match: each is what
\* these do to pc, and no other step does.
FairSpec ==
  /\ Spec
  /\ WF_pc(Trying) /\ WF_pc(Matching) /\ WF_vars(Reading)
  /\ WF_vars(PeerInPlay)

-----------------------------------------------------------------------------
\* Every frame has its cells, and what is left of them is never more than was
\* sent.  (session.rs:2089-2205, connection.rs:196-402)
TypeOK ==
  /\ reader \in {"server", "client"}
  /\ phase \in {"handshaking", "status", "login", "play", "answers"}
  /\ threshold \in Int
  /\ \A i \in DOMAIN sent : sent[i].cells # <<>>
  /\ Len(buffer) + Len(wire) + Len(held) <= Len(CellsOf(sent))
  /\ outcome.st \in {"got", "skipped", "short", "bad", "wrong"}
  /\ pc \in {"decode", "match", "read", "skipped", "closed"}

(***************************************************************************)
(* The refinement: what has not been handed on is what the cells still     *)
(* under way spell, and those must begin at a frame.                       *)
(***************************************************************************)
\* The last of the frames whose cells are so many.
LastFrames(frames, cells) ==
  LET cuts == {k \in 0..Len(frames) : Len(CellsOf(Behind(frames, k))) = cells}
  IN IF cuts = {} THEN <<Frm("torn", <<>>, "torn", <<>>)>>
     ELSE Behind(frames, CHOOSE k \in cuts : TRUE)

LeftFrames == IF pc = "closed" THEN <<>>
              ELSE LastFrames(sent, Len(buffer) + Len(wire) + Len(held))

Channel == INSTANCE PacketChannel
             WITH todo <- LeftFrames, done <- received, open <- (pc # "closed"),
                  passed <- (pc = "skipped")

\* However the stream is cut and joined, with whatever compression and across
\* every change of state, each packet the peer wrote is handed on as it was
\* written, once and in order; unknown ones are passed over and a broken one
\* ends the connection before anything behind it is seen; and in the end
\* nothing is left.  (framing.rs:98-105 "input is unchanged" on Incomplete, and
\* the decoders of play.rs, login.rs and status.rs)
ReadsAsSent == Channel!Spec

(***************************************************************************)
(* The client's side of the dialogue: the threshold it has been told of by *)
(* the replies before the n-th.                                            *)
(***************************************************************************)
Told(n) ==
  LET set == {i \in 1..(n - 1) : replies[i].name = "SetCompression"}
  IN IF set = {} THEN -1 ELSE replies[CHOOSE i \in set : \A j \in set : j <= i].packet.threshold

\* All of a frame has been read as the packet it is.
ReadAs(f, r) == r.st = "got" /\ r.value.name = f.name /\ r.rest = <<>>

Understood(n) ==
  ReadAs(replies[n], client_decode_packet(IF phase = "status" THEN "status" ELSE "login",
                                          replies[n].cells, Told(n)))

\* Whatever has been written since the handshake, a client that reads it with
\* the crate's decoders understands it, and in Play it has been told of the
\* server's threshold and of its login: neither Set Compression nor Login
\* Success is in a format the other end does not expect.
\* (connection.rs:262-296)
ClientFollows ==
  /\ \A n \in DOMAIN replies : Understood(n)
  /\ reader = "server" /\ phase = "play" /\ received # <<>> /\ received[1].name = "Handshake"
       => /\ replies # <<>> /\ Last(replies).name = "LoginSuccess"
          /\ Told(Len(replies)) = IF threshold < 0 THEN -1 ELSE threshold

=============================================================================
