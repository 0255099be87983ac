----------------------------- MODULE LoginCodec -----------------------------
(***************************************************************************)
(* The packets before Play: handshake.rs, status.rs, login.rs and the Set  *)
(* Compression packet of compression.rs.                                   *)
(***************************************************************************)
EXTENDS Wire

HandshakeId == 0
StatusId == 0
PingId == 1
LoginId == [LoginStart |-> 0, LoginDisconnect |-> 0, EncryptionRequest |-> 1,
            EncryptionResponse |-> 1, LoginSuccess |-> 2, LoginPluginResponse |-> 2,
            LoginPluginRequest |-> 4]
SetCompressionId == 3

\* NextState::from_wire
NextState == [Status |-> 1, Login |-> 2]
WireValues == {NextState[n] : n \in DOMAIN NextState}

(***************************************************************************)
(* Handshaking.  Every failure of the framing, and a body that is too      *)
(* short, has the name HandshakeError::Incomplete.                         *)
(***************************************************************************)
encode_handshake == Packet(HandshakeId,
  << VarInt("protocol_version"), Str("server_address"), U16("port"),
     Checked(VarInt("next_state"), WireValues) >>)

parse_handshake_body == Packet(HandshakeId,
  << VarInt("protocol_version"), Str("server_address"), U16("port"),
     Checked(VarInt("next_state"), WireValues) >>)

\* Read tells a short body from other errors, which Decode does not.
HandshakeFields(r, rest) == IF r.st = "short" THEN Short ELSE Finished(r, rest)

HandshakeIn(f) ==
  IF f.st # "got" THEN Short
  ELSE IF f.value.id # HandshakeId THEN Bad
  ELSE HandshakeFields(Read(parse_handshake_body.layout, f.value.payload), f.rest)

decode_handshake(s) == HandshakeIn(decode_frame(s))

(***************************************************************************)
(* Status.                                                                 *)
(***************************************************************************)
encode_status_response == Packet(StatusId, <<Str("json")>>)
encode_pong_response == Packet(PingId, <<I64("payload")>>)

decode_status_request == Packet(StatusId, <<>>)           \* the payload must be empty
decode_status_response == Packet(StatusId, <<Str("json"), Ignored>>)
decode_ping_request == Packet(PingId, <<I64("payload")>>)

(***************************************************************************)
(* Login.                                                                  *)
(***************************************************************************)
encode_login_start ==
  Packet(LoginId.LoginStart, <<Str("username"), Const(Bool("has_uuid"), TRUE), UUID("uuid")>>)
decode_login_start ==
  Packet(LoginId.LoginStart, <<Str("username"), OptField("uuid", UUID("uuid"))>>)

encode_login_disconnect == Packet(LoginId.LoginDisconnect, <<Str("reason")>>)
decode_login_disconnect == Packet(LoginId.LoginDisconnect, <<Str("reason")>>)

encode_encryption_request == Packet(LoginId.EncryptionRequest,
  <<Str("server_id"), Bytes("public_key"), Bytes("verify_token")>>)
decode_encryption_request == Packet(LoginId.EncryptionRequest,
  <<Str("server_id"), Bytes("public_key"), Bytes("verify_token")>>)

encode_encryption_response ==
  Packet(LoginId.EncryptionResponse, <<Bytes("shared_secret"), Bytes("verify_token")>>)
decode_encryption_response ==
  Packet(LoginId.EncryptionResponse, <<Bytes("shared_secret"), Bytes("verify_token")>>)

encode_login_success == Packet(LoginId.LoginSuccess,
  << UUID("uuid"), Str("username"),
     Many("properties", <<Str("name"), Str("value"), Opt("signature", <<Str("signature")>>)>>) >>)
decode_login_success == Packet(LoginId.LoginSuccess,
  << UUID("uuid"), Str("username"),
     Many("properties", <<Str("name"), Str("value"), Opt("signature", <<Str("signature")>>)>>) >>)

encode_login_plugin_request ==
  Packet(LoginId.LoginPluginRequest, <<VarInt("message_id"), Str("channel"), Rest("data")>>)
decode_login_plugin_request ==
  Packet(LoginId.LoginPluginRequest, <<VarInt("message_id"), Str("channel"), Rest("data")>>)

encode_login_plugin_response ==
  Packet(LoginId.LoginPluginResponse, <<VarInt("message_id"), Bool("understood"), Rest("data")>>)
decode_login_plugin_response ==
  Packet(LoginId.LoginPluginResponse, <<VarInt("message_id"), Bool("understood"), Rest("data")>>)

encode_set_compression == Packet(SetCompressionId, <<VarInt("threshold")>>)
decode_set_compression == Packet(SetCompressionId, <<VarInt("threshold")>>)

=============================================================================
