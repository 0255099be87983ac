----------------------------- MODULE PlayCodec ------------------------------
(***************************************************************************)
(* The packets of the Play state: play.rs of rustbound-protocol.  Each     *)
(* definition has the name of the function it stands for and gives the     *)
(* fields in the order in which that function writes or reads them.        *)
(***************************************************************************)
EXTENDS Wire

PlayId ==
  [JoinGame |-> 40, KeepAliveClientbound |-> 35, KeepAliveServerbound |-> 18,
   SetPlayerPosition |-> 20, SetPlayerPositionAndRotation |-> 21, SetPlayerRotation |-> 22,
   SynchronizePlayerPosition |-> 60, DisconnectPlay |-> 26, ChunkData |-> 36,
   ConfirmTeleportation |-> 0, ClientInformation |-> 8, PluginMessageClientbound |-> 23,
   ChangeDifficulty |-> 12, PlayerAbilities |-> 52, SetHeldItem |-> 77, EntityEvent |-> 28,
   PlayerInfoUpdate |-> 58, PlayerInfoRemove |-> 57, SpawnPlayer |-> 3, SpawnEntity |-> 1,
   InteractEntity |-> 16, RemoveEntities |-> 62, SetDefaultSpawnPosition |-> 80,
   GameEvent |-> 31, SetCenterChunk |-> 78, UnloadChunk |-> 30, CombatDeath |-> 56,
   SetBlockDestroyStage |-> 7, SetRenderDistance |-> 79, SetSimulationDistance |-> 92,
   UpdateTags |-> 110, UpdateRecipes |-> 109, PlayerDigging |-> 29, UseItemOn |-> 49,
   BlockUpdate |-> 10, AcknowledgeBlockChange |-> 6, MoveEntityPos |-> 43,
   MoveEntityPosRot |-> 44, MoveEntityRot |-> 45, EntityTeleport |-> 104,
   SetContainerContent |-> 18, SetContainerSlot |-> 20, OpenScreen |-> 48,
   CloseContainerClientbound |-> 17, ClickContainer |-> 11, CloseContainerServerbound |-> 12,
   SetHeldItemServerbound |-> 40, SetCreativeModeSlot |-> 43, SetHealth |-> 87,
   Respawn |-> 65, ClientStatus |-> 7, ChatMessageServerbound |-> 5,
   SystemChatMessage |-> 100]

GameMode == 0..3          \* GameMode::from_wire
ChatMode == 0..2
MainHand == 0..1
DiggingAction == 0..6

(***************************************************************************)
(* Joining.                                                                *)
(***************************************************************************)
encode_join_game == Packet(PlayId.JoinGame,
  << I32("entity_id"), Bool("is_hardcore"), Checked(U8("gamemode"), GameMode),
     Checked(I8("previous_gamemode"), {-1} \cup GameMode),
     Many("dimension_names", <<Str("name")>>), Nbt("registry_codec"),
     Str("dimension_type"), Str("dimension_name"), I64("hashed_seed"), VarInt("max_players"),
     VarInt("view_distance"), VarInt("simulation_distance"), Bool("reduce_debug_info"),
     Bool("enable_respawn_screen"), Bool("is_debug"), Bool("is_flat"),
     Opt("has_death_location", <<Str("death_dimension_name"), Position("death_location")>>),
     VarInt("portal_cooldown") >>)

decode_join_game == Packet(PlayId.JoinGame,
  << I32("entity_id"), Bool("is_hardcore"), Checked(U8("gamemode"), GameMode),
     Checked(I8("previous_gamemode"), {-1} \cup GameMode),
     Many("dimension_names", <<Str("name")>>), Nbt("registry_codec"),
     Str("dimension_type"), Str("dimension_name"), I64("hashed_seed"), VarInt("max_players"),
     VarInt("view_distance"), VarInt("simulation_distance"), Bool("reduce_debug_info"),
     Bool("enable_respawn_screen"), Bool("is_debug"), Bool("is_flat"),
     Opt("has_death_location", <<Str("death_dimension_name"), Position("death_location")>>),
     VarInt("portal_cooldown") >>)

encode_plugin_message_clientbound ==
  Packet(PlayId.PluginMessageClientbound, <<Str("channel"), Rest("data")>>)
decode_plugin_message_clientbound ==
  Packet(PlayId.PluginMessageClientbound, <<Str("channel"), Rest("data")>>)

encode_change_difficulty == Packet(PlayId.ChangeDifficulty, <<U8("difficulty"), Bool("locked")>>)
decode_change_difficulty == Packet(PlayId.ChangeDifficulty, <<U8("difficulty"), Bool("locked")>>)

encode_player_abilities ==
  Packet(PlayId.PlayerAbilities, <<U8("flags"), F32("flying_speed"), F32("fov_modifier")>>)
decode_player_abilities ==
  Packet(PlayId.PlayerAbilities, <<U8("flags"), F32("flying_speed"), F32("fov_modifier")>>)

TagRegistries == <<"block", "item", "fluid", "entity_type", "game_event">>

encode_update_tags_empty == Packet(PlayId.UpdateTags,
  <<Const(VarInt("registries"), Len(TagRegistries))>>
    \o FlattenSeq([i \in DOMAIN TagRegistries |->
                     <<Const(Str("registry"), TagRegistries[i]), Const(VarInt("tags"), 0)>>]))

encode_update_recipes_empty == Packet(PlayId.UpdateRecipes, <<Const(VarInt("recipes"), 0)>>)

encode_set_held_item == Packet(PlayId.SetHeldItem, <<U8("slot")>>)
decode_set_held_item == Packet(PlayId.SetHeldItem, <<U8("slot")>>)

encode_entity_event == Packet(PlayId.EntityEvent, <<I32("entity_id"), U8("entity_status")>>)
decode_entity_event == Packet(PlayId.EntityEvent, <<I32("entity_id"), U8("entity_status")>>)

encode_game_event == Packet(PlayId.GameEvent, <<U8("event_type"), F32("value")>>)
decode_game_event == Packet(PlayId.GameEvent, <<U8("event_type"), F32("value")>>)

encode_set_default_spawn_position ==
  Packet(PlayId.SetDefaultSpawnPosition, <<Position("position"), F32("angle")>>)
decode_set_default_spawn_position ==
  Packet(PlayId.SetDefaultSpawnPosition, <<Position("position"), F32("angle")>>)

encode_set_render_distance == Packet(PlayId.SetRenderDistance, <<VarInt("view_distance")>>)
decode_set_render_distance == Packet(PlayId.SetRenderDistance, <<VarInt("view_distance")>>)

encode_set_simulation_distance ==
  Packet(PlayId.SetSimulationDistance, <<VarInt("simulation_distance")>>)
decode_set_simulation_distance ==
  Packet(PlayId.SetSimulationDistance, <<VarInt("simulation_distance")>>)

encode_disconnect_play == Packet(PlayId.DisconnectPlay, <<Str("reason")>>)
decode_disconnect_play == Packet(PlayId.DisconnectPlay, <<Str("reason")>>)

(***************************************************************************)
(* Keep-alive.  decode_keep_alive is shared, the expected id is passed.    *)
(***************************************************************************)
encode_keep_alive_clientbound == Packet(PlayId.KeepAliveClientbound, <<I64("payload")>>)
encode_keep_alive_serverbound == Packet(PlayId.KeepAliveServerbound, <<I64("payload")>>)
decode_keep_alive(expected_id) == Packet(expected_id, <<I64("payload")>>)
decode_keep_alive_clientbound == decode_keep_alive(PlayId.KeepAliveClientbound)
decode_keep_alive_serverbound == decode_keep_alive(PlayId.KeepAliveServerbound)

(***************************************************************************)
(* Where a player is.                                                      *)
(***************************************************************************)
encode_set_player_position ==
  Packet(PlayId.SetPlayerPosition, <<F64("x"), F64("y"), F64("z"), Bool("on_ground")>>)
decode_set_player_position ==
  Packet(PlayId.SetPlayerPosition, <<F64("x"), F64("y"), F64("z"), Bool("on_ground")>>)

encode_set_player_position_and_rotation == Packet(PlayId.SetPlayerPositionAndRotation,
  <<F64("x"), F64("y"), F64("z"), F32("yaw"), F32("pitch"), Bool("on_ground")>>)
decode_set_player_position_and_rotation == Packet(PlayId.SetPlayerPositionAndRotation,
  <<F64("x"), F64("y"), F64("z"), F32("yaw"), F32("pitch"), Bool("on_ground")>>)

encode_set_player_rotation ==
  Packet(PlayId.SetPlayerRotation, <<F32("yaw"), F32("pitch"), Bool("on_ground")>>)
decode_set_player_rotation ==
  Packet(PlayId.SetPlayerRotation, <<F32("yaw"), F32("pitch"), Bool("on_ground")>>)

encode_synchronize_player_position == Packet(PlayId.SynchronizePlayerPosition,
  <<F64("x"), F64("y"), F64("z"), F32("yaw"), F32("pitch"), I8("flags"), VarInt("teleport_id")>>)
decode_synchronize_player_position == Packet(PlayId.SynchronizePlayerPosition,
  <<F64("x"), F64("y"), F64("z"), F32("yaw"), F32("pitch"), I8("flags"), VarInt("teleport_id")>>)

encode_confirm_teleportation == Packet(PlayId.ConfirmTeleportation, <<VarInt("teleport_id")>>)
decode_confirm_teleportation == Packet(PlayId.ConfirmTeleportation, <<VarInt("teleport_id")>>)

encode_client_information == Packet(PlayId.ClientInformation,
  << Str("locale"), U8("view_distance"), Checked(VarInt("chat_mode"), ChatMode),
     Bool("chat_colors"), U8("displayed_skin_parts"), Checked(VarInt("main_hand"), MainHand),
     Bool("enable_text_filtering"), Bool("allow_server_listings") >>)
decode_client_information == Packet(PlayId.ClientInformation,
  << Str("locale"), U8("view_distance"), Checked(VarInt("chat_mode"), ChatMode),
     Bool("chat_colors"), U8("displayed_skin_parts"), Checked(VarInt("main_hand"), MainHand),
     Bool("enable_text_filtering"), Bool("allow_server_listings") >>)

(***************************************************************************)
(* Chunks and blocks.                                                      *)
(***************************************************************************)
encode_set_center_chunk == Packet(PlayId.SetCenterChunk, <<VarInt("chunk_x"), VarInt("chunk_z")>>)
decode_set_center_chunk == Packet(PlayId.SetCenterChunk, <<VarInt("chunk_x"), VarInt("chunk_z")>>)

encode_unload_chunk == Packet(PlayId.UnloadChunk, <<I32("chunk_x"), I32("chunk_z")>>)
decode_unload_chunk == Packet(PlayId.UnloadChunk, <<I32("chunk_x"), I32("chunk_z")>>)

encode_chunk_data == Packet(PlayId.ChunkData,
  << I32("chunk_x"), I32("chunk_z"), Nbt("heightmaps"), Bytes("data"),
     Many("block_entities", <<Bytes("block_entity")>>), Rest("light_data") >>)
decode_chunk_data == Packet(PlayId.ChunkData,
  << I32("chunk_x"), I32("chunk_z"), Nbt("heightmaps"), Bytes("data"),
     Many("block_entities", <<Bytes("block_entity")>>), Rest("light_data") >>)

encode_set_block_destroy_stage == Packet(PlayId.SetBlockDestroyStage,
  <<VarInt("entity_id"), Position("position"), I8("destroy_stage")>>)
decode_set_block_destroy_stage == Packet(PlayId.SetBlockDestroyStage,
  <<VarInt("entity_id"), Position("position"), I8("destroy_stage")>>)

encode_player_digging == Packet(PlayId.PlayerDigging,
  <<Checked(VarInt("action"), DiggingAction), Position("position"), U8("face"), VarInt("sequence")>>)
decode_player_digging == Packet(PlayId.PlayerDigging,
  <<Checked(VarInt("action"), DiggingAction), Position("position"), U8("face"), VarInt("sequence")>>)

encode_use_item_on == Packet(PlayId.UseItemOn,
  << Position("position"), U8("face"), VarInt("hand"), F32("cursor_x"), F32("cursor_y"),
     F32("cursor_z"), Bool("inside_block"), VarInt("sequence") >>)
decode_use_item_on == Packet(PlayId.UseItemOn,
  << Position("position"), U8("face"), VarInt("hand"), F32("cursor_x"), F32("cursor_y"),
     F32("cursor_z"), Bool("inside_block"), VarInt("sequence") >>)

encode_block_update == Packet(PlayId.BlockUpdate, <<Position("position"), VarInt("block_state")>>)
decode_block_update == Packet(PlayId.BlockUpdate, <<Position("position"), VarInt("block_state")>>)

encode_acknowledge_block_change == Packet(PlayId.AcknowledgeBlockChange, <<VarInt("sequence")>>)
decode_acknowledge_block_change == Packet(PlayId.AcknowledgeBlockChange, <<VarInt("sequence")>>)

(***************************************************************************)
(* Vitals and death.                                                       *)
(***************************************************************************)
encode_set_health ==
  Packet(PlayId.SetHealth, <<F32("health"), VarInt("food"), F32("food_saturation")>>)
decode_set_health ==
  Packet(PlayId.SetHealth, <<F32("health"), VarInt("food"), F32("food_saturation")>>)

encode_combat_death == Packet(PlayId.CombatDeath, <<VarInt("player_id"), Str("message")>>)
decode_combat_death == Packet(PlayId.CombatDeath, <<VarInt("player_id"), Str("message")>>)

encode_respawn == Packet(PlayId.Respawn,
  << Str("dimension_type"), Str("dimension_name"), I64("hashed_seed"), U8("gamemode"),
     I8("previous_gamemode"), Bool("is_debug"), Bool("is_flat"),
     Opt("has_death_location", <<Str("death_dimension_name"), Position("death_location")>>),
     VarInt("portal_cooldown"), U8("data_kept") >>)
decode_respawn == Packet(PlayId.Respawn,
  << Str("dimension_type"), Str("dimension_name"), I64("hashed_seed"), U8("gamemode"),
     I8("previous_gamemode"), Bool("is_debug"), Bool("is_flat"),
     Opt("has_death_location", <<Str("death_dimension_name"), Position("death_location")>>),
     VarInt("portal_cooldown"), U8("data_kept") >>)

decode_client_status == Packet(PlayId.ClientStatus, <<VarInt("action")>>)

(***************************************************************************)
(* Items and containers.                                                   *)
(***************************************************************************)
encode_slot == <<Opt("present", <<VarInt("item_id"), I8("count"), OptNbt("nbt")>>)>>
decode_slot == <<Opt("present", <<VarInt("item_id"), I8("count"), OptNbt("nbt")>>)>>

encode_set_container_content == Packet(PlayId.SetContainerContent,
  << U8("window_id"), VarInt("state_id"), Many("slots", encode_slot),
     Group("carried_item", encode_slot) >>)
decode_set_container_content == Packet(PlayId.SetContainerContent,
  << U8("window_id"), VarInt("state_id"), Many("slots", decode_slot),
     Group("carried_item", decode_slot) >>)

encode_set_container_slot == Packet(PlayId.SetContainerSlot,
  <<I8("window_id"), VarInt("state_id"), I16("slot"), Group("item", encode_slot)>>)
decode_set_container_slot == Packet(PlayId.SetContainerSlot,
  <<I8("window_id"), VarInt("state_id"), I16("slot"), Group("item", decode_slot)>>)

encode_open_screen ==
  Packet(PlayId.OpenScreen, <<VarInt("window_id"), VarInt("window_type"), Str("title")>>)
decode_open_screen ==
  Packet(PlayId.OpenScreen, <<VarInt("window_id"), VarInt("window_type"), Str("title")>>)

encode_close_container_clientbound == Packet(PlayId.CloseContainerClientbound, <<U8("window_id")>>)
encode_close_container_serverbound == Packet(PlayId.CloseContainerServerbound, <<U8("window_id")>>)
decode_close_container_serverbound == Packet(PlayId.CloseContainerServerbound, <<U8("window_id")>>)

encode_click_container == Packet(PlayId.ClickContainer,
  << U8("window_id"), VarInt("state_id"), I16("slot"), I8("button"), VarInt("mode"),
     Many("changed_slots", <<I16("slot"), Group("item", encode_slot)>>),
     Group("cursor", encode_slot) >>)
decode_click_container == Packet(PlayId.ClickContainer,
  << U8("window_id"), VarInt("state_id"), I16("slot"), I8("button"), VarInt("mode"),
     Many("changed_slots", <<I16("slot"), Group("item", decode_slot)>>),
     Group("cursor", decode_slot) >>)

decode_set_held_item_serverbound == Packet(PlayId.SetHeldItemServerbound, <<I16("slot")>>)
decode_set_creative_mode_slot ==
  Packet(PlayId.SetCreativeModeSlot, <<I16("slot"), Group("item", decode_slot)>>)

(***************************************************************************)
(* Players and entities as others see them.  The entries of an info update *)
(* have the fields its actions ask for.                                    *)
(***************************************************************************)
PlayerInfoActions == {"ADD_PLAYER", "INITIALIZE_CHAT", "UPDATE_GAMEMODE", "UPDATE_LISTED",
                      "UPDATE_LATENCY", "UPDATE_DISPLAY_NAME"}

encode_player_info_update(actions) ==
  LET on(action, layout) == IF action \in actions \cap PlayerInfoActions THEN layout ELSE <<>>
  IN Packet(PlayId.PlayerInfoUpdate,
       << Const(U8("actions"), actions),
          Many("entries",
            <<UUID("uuid")>>
            \o on("ADD_PLAYER", << Str("name"),
                                Many("properties", <<Str("name"), Str("value"),
                                                     Opt("signature", <<Str("signature")>>)>>) >>)
            \o on("INITIALIZE_CHAT", <<Const(Bool("session"), FALSE)>>)
            \o on("UPDATE_GAMEMODE", <<VarInt("gamemode")>>)
            \o on("UPDATE_LISTED", <<Bool("listed")>>)
            \o on("UPDATE_LATENCY", <<VarInt("latency")>>)
            \o on("UPDATE_DISPLAY_NAME", <<Opt("display_name", <<Str("display_name")>>)>>)) >>)

encode_player_info_remove == Packet(PlayId.PlayerInfoRemove, <<Many("uuids", <<UUID("uuid")>>)>>)

encode_spawn_player == Packet(PlayId.SpawnPlayer,
  << VarInt("entity_id"), UUID("uuid"), F64("x"), F64("y"), F64("z"), U8("yaw"), U8("pitch"),
     Const(U8("metadata_end"), 255) >>)

encode_spawn_entity == Packet(PlayId.SpawnEntity,
  << VarInt("entity_id"), UUID("uuid"), VarInt("entity_type"), F64("x"), F64("y"), F64("z"),
     U8("pitch"), U8("yaw"), U8("head_yaw"), VarInt("data"), I16("velocity_x"),
     I16("velocity_y"), I16("velocity_z") >>)

decode_interact_entity == Packet(PlayId.InteractEntity,
  << VarInt("entity_id"), VarInt("action"),
     When("target", "action", {2}, <<F32("x"), F32("y"), F32("z")>>),
     When("hand", "action", {0, 2}, <<VarInt("hand")>>), Bool("sneaking") >>)

encode_remove_entities == Packet(PlayId.RemoveEntities, <<Many("entity_ids", <<VarInt("id")>>)>>)

encode_move_entity_pos == Packet(PlayId.MoveEntityPos,
  <<VarInt("entity_id"), I16("delta_x"), I16("delta_y"), I16("delta_z"), Bool("on_ground")>>)
decode_move_entity_pos == Packet(PlayId.MoveEntityPos,
  <<VarInt("entity_id"), I16("delta_x"), I16("delta_y"), I16("delta_z"), Bool("on_ground")>>)

encode_move_entity_pos_rot == Packet(PlayId.MoveEntityPosRot,
  << VarInt("entity_id"), I16("delta_x"), I16("delta_y"), I16("delta_z"), U8("yaw"),
     U8("pitch"), Bool("on_ground") >>)
decode_move_entity_pos_rot == Packet(PlayId.MoveEntityPosRot,
  << VarInt("entity_id"), I16("delta_x"), I16("delta_y"), I16("delta_z"), U8("yaw"),
     U8("pitch"), Bool("on_ground") >>)

encode_move_entity_rot ==
  Packet(PlayId.MoveEntityRot, <<VarInt("entity_id"), U8("yaw"), U8("pitch"), Bool("on_ground")>>)
decode_move_entity_rot ==
  Packet(PlayId.MoveEntityRot, <<VarInt("entity_id"), U8("yaw"), U8("pitch"), Bool("on_ground")>>)

encode_entity_teleport == Packet(PlayId.EntityTeleport,
  <<VarInt("entity_id"), F64("x"), F64("y"), F64("z"), U8("yaw"), U8("pitch"), Bool("on_ground")>>)
decode_entity_teleport == Packet(PlayId.EntityTeleport,
  <<VarInt("entity_id"), F64("x"), F64("y"), F64("z"), U8("yaw"), U8("pitch"), Bool("on_ground")>>)

(***************************************************************************)
(* Chat.  What follows the message is left unread.                         *)
(***************************************************************************)
encode_system_chat_message == Packet(PlayId.SystemChatMessage, <<Str("content"), Bool("overlay")>>)
decode_chat_message_serverbound == Packet(PlayId.ChatMessageServerbound, <<Str("message"), Ignored>>)

=============================================================================
