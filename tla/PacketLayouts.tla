--------------------------- MODULE PacketLayouts ---------------------------
(***************************************************************************)
(* The packet classes of rosecommon/include/packets and                    *)
(* rosecommon/src/packets.  Per class C:                                   *)
(*   C      the fields and their types (the class in the header),          *)
(*   CRead  the order in which the constructor from a buffer takes them,   *)
(*   CPack  the order in which pack() writes them.                         *)
(* A layout is a sequence of <<field, kind>>; the ones that depend on the  *)
(* length of a list have it as parameter.  Classes whose pack() reads the  *)
(* components of an entity take their types from the components.           *)
(***************************************************************************)
EXTENDS PacketCodec, TLC

(* The packet types in use.  A request and its reply mostly share a number. *)
ePacketType ==
    [ISC_SERVER_REGISTER |-> \h303, ISC_SHUTDOWN |-> \h305, PAKCS_ALIVE |-> \h700,
     PAKCS_ACCEPT_REQ |-> \h703, PAKCS_CHANNEL_LIST_REQ |-> \h704,
     PAKLC_CHANNEL_LIST_REPLY |-> \h704, PAKCS_LOGOUT_REQ |-> \h707,
     PAKWC_LOGOUT_REPLY |-> \h707, PAKCS_LOGIN_REQ |-> \h708, PAKLC_LOGIN_REPLY |-> \h708,
     PAKCS_SRV_SELECT_REQ |-> \h70a, PAKLC_SRV_SELECT_REPLY |-> \h70a,
     PAKCS_JOIN_SERVER_REQ |-> \h70b, PAKSC_JOIN_SERVER_REPLY |-> \h70c,
     PAKWC_GLOBAL_VARS |-> \h70e, PAKCC_SWITCH_SERVER |-> \h711,
     PAKCC_CHAR_LIST_REPLY |-> \h712, PAKCS_CHAR_LIST_REQ |-> \h712,
     PAKCC_CREATE_CHAR_REPLY |-> \h713, PAKCS_CREATE_CHAR_REQ |-> \h713,
     PAKCC_DELETE_CHAR_REPLY |-> \h714, PAKCS_DELETE_CHAR_REQ |-> \h714,
     PAKCS_SELECT_CHAR_REQ |-> \h715, PAKWC_SELECT_CHAR_REPLY |-> \h715,
     PAKWC_INVENTORY_DATA |-> \h716, PAKWC_SET_ITEM |-> \h718, PAKWC_QUEST_DATA |-> \h71b,
     PAKWC_SET_MONEY |-> \h71d, PAKCS_CHANGE_MAP_REQ |-> \h753,
     PAKWC_CHANGE_MAP_REPLY |-> \h753, PAKWC_INIT_DATA |-> \h754,
     PAKCS_REVIVE_REQ |-> \h755, PAKWC_REVIVE_REPLY |-> \h755,
     PAKWC_ADJUST_POSITION |-> \h770, PAKCS_STOP_MOVING |-> \h771,
     PAKWC_STOP_MOVING |-> \h771, PAKCS_NORMAL_CHAT |-> \h783, PAKWC_NORMAL_CHAT |-> \h783,
     PAKCS_WHISPER_CHAT |-> \h784, PAKWC_WHISPER_CHAT |-> \h784, PAKCS_PARTY_CHAT |-> \h786,
     PAKWC_PARTY_CHAT |-> \h786, PAKWC_NPC_CHAR |-> \h791, PAKWC_MOB_CHAR |-> \h792,
     PAKWC_PLAYER_CHAR |-> \h793, PAKWC_REMOVE_OBJECT |-> \h794, PAKCS_STOP |-> \h796,
     PAKWC_STOP |-> \h796, PAKCS_MOUSE_CMD |-> \h79a, PAKWC_MOUSE_CMD |-> \h79a,
     PAKCS_DROP_ITEM |-> \h7a4, PAKCS_EQUIP_ITEM |-> \h7a5, PAKWC_EQUIP_ITEM |-> \h7a5,
     PAKWC_DROP_ITEM |-> \h7a6, PAKWC_TELEPORT_REPLY |-> \h7a8, PAKCS_PARTY_REQ |-> \h7d0,
     PAKWC_PARTY_REQ |-> \h7d0, PAKCS_PARTY_REPLY |-> \h7d1, PAKWC_PARTY_REPLY |-> \h7d1,
     PAKWC_PARTY_MEMBER |-> \h7d2, PAKWC_BILLING_MESSAGE |-> \h7de,
     PAKCS_SCREEN_SHOT_TIME_REQ |-> \h7eb, PAKSC_SCREEN_SHOT_TIME_REPLY |-> \h7eb,
     PAKSS_ACCEPT_REPLY |-> \h7ff]

-----------------------------------------------------------------------------
(* Requests of the client. *)
(* Requests without fields: CliAcceptReq, CliAlive, CliCharListReq, CliLogoutReq. *)

CliAcceptReq == <<>>
CliAcceptReqRead == Of(CliAcceptReq, <<>>)
CliAcceptReqPack == Of(CliAcceptReq, <<>>)

CliAlive == <<>>
CliAliveRead == Of(CliAlive, <<>>)
CliAlivePack == Of(CliAlive, <<>>)

CliCharListReq == <<>>
CliCharListReqRead == Of(CliCharListReq, <<>>)
CliCharListReqPack == Of(CliCharListReq, <<>>)

CliLogoutReq == <<>>
CliLogoutReqRead == Of(CliLogoutReq, <<>>)
CliLogoutReqPack == Of(CliLogoutReq, <<>>)

CliChangeMapReq == [weightRate |-> U8, z |-> U16]
CliChangeMapReqRead == Of(CliChangeMapReq, <<"weightRate", "z">>)
CliChangeMapReqPack == Of(CliChangeMapReq, <<"weightRate", "z">>)

CliChannelListReq == [serverId |-> U32]
CliChannelListReqRead == Of(CliChannelListReq, <<"serverId">>)
CliChannelListReqPack == Of(CliChannelListReq, <<"serverId">>)

CliCreateCharReq ==
    [race |-> U8, stone |-> U8, hair |-> U8, face |-> U8, weapon |-> U8, zone |-> U16,
      name |-> Str]
CliCreateCharReqRead ==
    Of(CliCreateCharReq, <<"race", "stone", "hair", "face", "weapon", "zone", "name">>)
CliCreateCharReqPack ==
    Of(CliCreateCharReq, <<"race", "stone", "hair", "face", "weapon", "zone", "name">>)

CliDeleteCharReq == [charId |-> U8, isDelete |-> U8, name |-> Str]
CliDeleteCharReqRead == Of(CliDeleteCharReq, <<"charId", "isDelete", "name">>)
CliDeleteCharReqPack == Of(CliDeleteCharReq, <<"charId", "isDelete", "name">>)

CliDropItem == [item |-> U8, quantity |-> U32]
CliDropItemRead == Of(CliDropItem, <<"item", "quantity">>)
CliDropItemPack == Of(CliDropItem, <<"item", "quantity">>)

CliEquipItem == [slotTo |-> U16, slotFrom |-> U16]
CliEquipItemRead == Of(CliEquipItem, <<"slotTo", "slotFrom">>)
CliEquipItemPack == Of(CliEquipItem, <<"slotTo", "slotFrom">>)

CliMouseCmd == [targetId |-> U16, x |-> U32, y |-> U32, z |-> U16]
CliMouseCmdRead == Of(CliMouseCmd, <<"targetId", "x", "y", "z">>)
CliMouseCmdPack == Of(CliMouseCmd, <<"targetId", "x", "y", "z">>)

CliNormalChat == [message |-> Str]
CliNormalChatRead == Of(CliNormalChat, <<"message">>)
CliNormalChatPack == Of(CliNormalChat, <<"message">>)

CliPartyChat == [message |-> Str]
CliPartyChatRead == Of(CliPartyChat, <<"message">>)
CliPartyChatPack == Of(CliPartyChat, <<"message">>)

CliPartyReply == [reply |-> U8, idXorTag |-> U32]
CliPartyReplyRead == Of(CliPartyReply, <<"reply", "idXorTag">>)
CliPartyReplyPack == Of(CliPartyReply, <<"reply", "idXorTag">>)

CliPartyReq == [request |-> U8, idXorTag |-> U32]
CliPartyReqRead == Of(CliPartyReq, <<"request", "idXorTag">>)
CliPartyReqPack == Of(CliPartyReq, <<"request", "idXorTag">>)

CliReviveReq == [reviveType |-> U8]
CliReviveReqRead == Of(CliReviveReq, <<"reviveType">>)
CliReviveReqPack == Of(CliReviveReq, <<"reviveType">>)

CliScreenShotTimeReq == [count |-> U16]
CliScreenShotTimeReqRead == Of(CliScreenShotTimeReq, <<"count">>)
CliScreenShotTimeReqPack == Of(CliScreenShotTimeReq, <<"count">>)

CliSelectCharReq == [charId |-> U8, runMode |-> U8, rideMode |-> U8, name |-> Str]
CliSelectCharReqRead == Of(CliSelectCharReq, <<"charId", "runMode", "rideMode", "name">>)
CliSelectCharReqPack == Of(CliSelectCharReq, <<"charId", "runMode", "rideMode", "name">>)

CliSrvSelectReq == [serverId |-> U32, channelId |-> U8]
CliSrvSelectReqRead == Of(CliSrvSelectReq, <<"serverId", "channelId">>)
CliSrvSelectReqPack == Of(CliSrvSelectReq, <<"serverId", "channelId">>)

CliStop == [x |-> U32, y |-> U32]
CliStopRead == Of(CliStop, <<"x", "y">>)
CliStopPack == Of(CliStop, <<"x", "y">>)

CliStopMoving == [x |-> U32, y |-> U32, z |-> U16]
CliStopMovingRead == Of(CliStopMoving, <<"x", "y", "z">>)
CliStopMovingPack == Of(CliStopMoving, <<"x", "y", "z">>)

CliWhisperChat == [targetId |-> Str, message |-> Str]
CliWhisperChatRead == Of(CliWhisperChat, <<"targetId", "message">>)
CliWhisperChatPack == Of(CliWhisperChat, <<"targetId", "message">>)

(* The password is written without a terminator and read as 32 characters. *)
CliJoinServerReq == [sessionId |-> U32, password |-> Str]
CliJoinServerReqRead == Of(CliJoinServerReq, <<"sessionId">>) \o One("password", Chars(32))
CliJoinServerReqPack == Of(CliJoinServerReq, <<"sessionId">>) \o One("password", CStr)

CliLoginReq == [password |-> Str, username |-> Str]
CliLoginReqRead == One("password", Chars(32)) \o Of(CliLoginReq, <<"username">>)
CliLoginReqPack == One("password", CStr) \o Of(CliLoginReq, <<"username">>)

-----------------------------------------------------------------------------
(* Between servers. *)

IscServerRegister ==
    [serverType |-> U8, name |-> Str, addr |-> Str, port |-> U32, right |-> U32, id |->
      U32]
IscServerRegisterRead ==
    Of(IscServerRegister, <<"serverType", "name", "addr", "port", "right", "id">>)
IscServerRegisterPack ==
    Of(IscServerRegister, <<"serverType", "name", "addr", "port", "right", "id">>)

IscShutdown == [serverType |-> U8, id |-> U32]
IscShutdownRead == Of(IscShutdown, <<"serverType", "id">>)
IscShutdownPack == Of(IscShutdown, <<"serverType", "id">>)

-----------------------------------------------------------------------------
(* Replies and messages of the servers with fields of their own. *)

SrvAcceptReply == [result |-> U8, randValue |-> U32]
SrvAcceptReplyRead == Of(SrvAcceptReply, <<"result", "randValue">>)
SrvAcceptReplyPack == Of(SrvAcceptReply, <<"result", "randValue">>)

SrvCreateCharReply == [result |-> U8, platinium |-> U8]
SrvCreateCharReplyPack == Of(SrvCreateCharReply, <<"result", "platinium">>)

SrvDeleteCharReply == [remainingTime |-> U32, name |-> Str]
SrvDeleteCharReplyPack == Of(SrvDeleteCharReply, <<"remainingTime", "name">>)

SrvInitData == [randSeed |-> U32, randIndex |-> U16]
SrvInitDataPack == Of(SrvInitData, <<"randSeed", "randIndex">>)

SrvJoinServerReply == [result |-> U8, id |-> U32, payFlag |-> U32]
SrvJoinServerReplyRead == Of(SrvJoinServerReply, <<"result", "id", "payFlag">>)
SrvJoinServerReplyPack == Of(SrvJoinServerReply, <<"result", "id", "payFlag">>)

SrvLogoutReply == [waitTime |-> U16]
SrvLogoutReplyPack == Of(SrvLogoutReply, <<"waitTime">>)

SrvNormalChat == [charId |-> U16, message |-> Str]
SrvNormalChatPack == Of(SrvNormalChat, <<"charId", "message">>)

SrvPartyChat == [charId |-> U16, message |-> Str]
SrvPartyChatPack == Of(SrvPartyChat, <<"charId", "message">>)

SrvPartyReply == [reply |-> U8, id |-> U32]
SrvPartyReplyPack == Of(SrvPartyReply, <<"reply", "id">>)

SrvReviveReply == [mapId |-> U16]
SrvReviveReplyPack == Of(SrvReviveReply, <<"mapId">>)

SrvScreenShotTimeReply == [year |-> U16, month |-> U8, day |-> U8, hour |-> U8, min |-> U8]
SrvScreenShotTimeReplyPack ==
    Of(SrvScreenShotTimeReply, <<"year", "month", "day", "hour", "min">>)

SrvSrvSelectReply ==
    [result |-> U8, sessionId |-> U32, cryptVal |-> U32, ip |-> Str, port |-> U16]
SrvSrvSelectReplyRead ==
    Of(SrvSrvSelectReply, <<"result", "sessionId", "cryptVal", "ip", "port">>)
SrvSrvSelectReplyPack ==
    Of(SrvSrvSelectReply, <<"result", "sessionId", "cryptVal", "ip", "port">>)

SrvSwitchServer == [port |-> U16, sessionId |-> U32, sessionSeed |-> U32, ip |-> Str]
SrvSwitchServerRead == Of(SrvSwitchServer, <<"port", "sessionId", "sessionSeed", "ip">>)
SrvSwitchServerPack == Of(SrvSwitchServer, <<"port", "sessionId", "sessionSeed", "ip">>)

SrvWhisperChat == [senderId |-> Str, message |-> Str]
SrvWhisperChatPack == Of(SrvWhisperChat, <<"senderId", "message">>)

SrvBillingMsgPack == One("0x1001", U16) \o One("2", U32)

(* A list of channels behind its length, which is sent in one byte. *)
ChannelInfo == [id |-> U8, lowAge |-> U8, highAge |-> U8, capacity |-> U16, name |-> Str]
SrvChannelListReplyRead(n) ==
    One("id", U32) \o One("nb", Size)
      \o Repeat(n, Of(ChannelInfo, <<"id", "lowAge", "highAge", "capacity", "name">>))
SrvChannelListReplyPack(n) ==
    One("id", U32) \o One("nb", Size)
      \o Repeat(n, Of(ChannelInfo, <<"id", "lowAge", "highAge", "capacity", "name">>))

(* The characters of an account, each with the eight visible items. *)
MAX_EQUIPPED_ITEMS == 8
char_info == [name |-> Str, race |-> U8, level |-> U16, job |-> U16,
              remain_sec_unitl_delete |-> U32, platinum |-> U8, face |-> U32, hair |-> U32]
SrvCharacterListReplyRead(n) ==
    One("character_count", Size)
      \o Repeat(n, Of(char_info, <<"name", "race", "level", "job", "remain_sec_unitl_delete",
                                   "platinum", "face", "hair">>)
                     \o Repeat(MAX_EQUIPPED_ITEMS, One("data", U32)))
SrvCharacterListReplyPack(n) ==
    One("character_count", Size)
      \o Repeat(n, Of(char_info, <<"name", "race", "level", "job", "remain_sec_unitl_delete",
                                   "platinum", "face", "hair">>)
                     \o Repeat(MAX_EQUIPPED_ITEMS, One("data", U32)))

(* The login reply has no length: the reader takes a server as long as the *)
(* byte in front of it, the pad, is not zero; pack() writes no last pad.   *)
(* It looks for servers only when result_ is OK, 0: whether it is, refused *)
(* tells, for a byte of a packet says here whose it is, not what it holds. *)
ServerInfo == [pad |-> U8, name |-> Str, id |-> U32]
SrvLoginReply == [result |-> U8, right |-> U16, type |-> U16]
LoginResult == Of(SrvLoginReply, <<"result", "right", "type">>)
OneServer == Of(ServerInfo, <<"pad", "name", "id">>)
Servers(r, wire, fill) ==
    LET after[j \in 0..MaxPacketSize] == IF j = 0 THEN r ELSE ReadAll(after[j - 1], wire, fill, OneServer)
        more(j) == Byte(wire, fill, after[j].at + 1) # NUL
    IN  after[CHOOSE j \in 0..MaxPacketSize : ~more(j) /\ \A i \in 0..(j - 1) : more(i)]

(* Slip: servers are looked for in every reply. *)
SrvLoginReplyRead_NoReturn(wire, fill, refused) ==
    Servers(ReadAll(AtPayload, wire, fill, LoginResult), wire, fill)

SrvLoginReplyRead(wire, fill, refused) ==
    LET reply == ReadAll(AtPayload, wire, fill, LoginResult)
    IN  IF refused THEN reply ELSE Servers(reply, wire, fill)
SrvLoginReplyPack(n) == LoginResult \o Repeat(n, OneServer)

MAX_SELL_TYPE == 11
MIN_SELL_TYPE == 1
SrvChangeMapReply ==
    [object_index |-> U16, current_hp |-> U16, current_mp |-> U16, current_exp |-> U64,
     penalize_exp |-> U64, craft_rate |-> U16, update_time |-> U32, world_rate |-> U16,
     town_rate |-> U8, item_rate |-> U8, flags |-> U32, world_time |-> U32, team_number |-> U32]
SrvChangeMapReplyPack ==
    Of(SrvChangeMapReply, <<"object_index", "current_hp", "current_mp", "current_exp",
                            "penalize_exp", "craft_rate", "update_time", "world_rate", "town_rate">>)
      \o Repeat(MAX_SELL_TYPE, Of(SrvChangeMapReply, <<"item_rate">>))
      \o Of(SrvChangeMapReply, <<"flags", "world_time", "team_number">>)

SrvServerData == [type |-> U8, counter |-> U32, pop_base |-> U16, dev_base |-> U16,
                  consume |-> U16, dev |-> U16, pop |-> U32, item |-> U32]
SrvServerDataPack(n) ==
    Of(SrvServerData, <<"type">>)
      \o IF n = 0 THEN <<>>       \* any type but ECONOMY
         ELSE Of(SrvServerData, <<"counter", "pop_base", "dev_base">>)
                \o Repeat(MAX_SELL_TYPE - MIN_SELL_TYPE, Of(SrvServerData, <<"consume">>))
                \o Of(SrvServerData, <<"dev", "pop">>)
                \o Repeat(MAX_SELL_TYPE - MIN_SELL_TYPE, Of(SrvServerData, <<"item">>))

-----------------------------------------------------------------------------
(* The components of an entity, and what an item puts on the wire. *)
BasicInfo == [name |-> Str, level |-> U16, xp |-> U32, id |-> U16, tag |-> U32, teamId |-> U32,
              targetId |-> U16, command |-> U16, ownerId |-> U16]
AdvancedInfo == [zuly |-> U64, hp |-> U32, mp |-> U32, moveMode |-> U8, runSpeed |-> U16,
                 atkSpeed |-> U16, weightRate |-> U8]
CharacterInfo ==
    [job |-> U16, stone |-> U8, statPoints |-> U32, skillPoints |-> U32, penaltyXp |-> U32,
     factionId |-> U8, factionRank |-> U8, fame |-> U8, factionFame |-> U16, factionPoints |-> U16,
     guildId |-> U32, guildContribution |-> U16, guildRank |-> U8, pkFlag |-> U16,
     statusFlag |-> U32, subFlag |-> U32, stamina |-> U16, patHp |-> U16, patCooldownTime |-> U32]
CharacterGraphics == [face |-> U8, hair |-> U8, race |-> U8]
Position == [x |-> U32, y |-> U32, z |-> U16, map |-> U16, spawn |-> U16, angle |-> U32]
Destination == [destX |-> U32, destY |-> U32, dist |-> U16]
Stats == [maxHp |-> U32, maxMp |-> U32, str |-> U16, dex |-> U16, int |-> U16, con |-> U16,
          charm |-> U16, sense |-> U16, bodySize |-> U8, headSize |-> U8]
StatusEffect == [expiredSeconds |-> U32, value |-> U16, unkown |-> U16]
Npc == [npc_id |-> U16, quest_id |-> U16]
Item == [visible |-> U32, header |-> U16, data |-> U32]
Entity == BasicInfo @@ AdvancedInfo @@ CharacterInfo @@ CharacterGraphics @@ Position
            @@ Destination @@ Stats @@ Npc @@ Item @@ StatusEffect

maxEffects == 40
maxSkills == 120
Hotbar_maxItems == 32
Inventory_maxItems == 140
maxVisibleEquippedItems == 8
MAX_BULLET_TYPES == 3
MAX_RIDING_ITEMS == 4
maxWishes == 30

(* The face and the hair also go out as 32-bit numbers. *)
Graphics32 == One("face", U32) \o One("hair", U32)
Equipped == Repeat(maxVisibleEquippedItems, Of(Entity, <<"visible">>))
ItemWire == Of(Entity, <<"header", "data">>)

QuestPack ==
    One("id", U16) \o One("timer", U32) \o Repeat(10, One("vars", U16)) \o One("switches", U32)
      \o Repeat(6, ItemWire)
QuestsPack ==
    Repeat(5, One("episode", U16)) \o Repeat(3, One("job", U16)) \o Repeat(7, One("planet", U16))
      \o Repeat(10, One("union", U16)) \o Repeat(10, QuestPack) \o Repeat(16, One("switches", U32))
WishlistPack == Repeat(maxWishes, ItemWire)

-----------------------------------------------------------------------------
(* Messages about an entity.  The few constructors from a buffer these     *)
(* classes have are left out: no code calls them, they would fill the      *)
(* components of an entity that does not exist (SrvQuestData's reads       *)
(* nothing).                                                               *)
SrvAdjustPosition == Entity
SrvAdjustPositionPack == Of(SrvAdjustPosition, <<"id", "x", "y", "z">>)

SrvDropItem == Entity
SrvDropItemPack ==
    Of(SrvDropItem, <<"x", "y", "header", "data", "id", "ownerId">>) \o One("remainTime", U16)

SrvEquipItem == Entity @@ [slot |-> U16]
SrvEquipItemPack == Of(SrvEquipItem, <<"id", "slot", "visible">>)

SrvInventoryData == Entity
SrvInventoryDataPack == Of(SrvInventoryData, <<"zuly">>) \o Repeat(Inventory_maxItems, ItemWire)

SrvMobChar == Entity
SrvMobCharPack ==
    Of(SrvMobChar, <<"id", "x", "y", "destX", "destY", "command", "targetId", "moveMode", "hp",
                 "teamId", "statusFlag", "npc_id", "quest_id">>)

SrvNpcChar == SrvMobChar
SrvNpcCharPack == SrvMobCharPack \o Of(SrvNpcChar, <<"angle">>) \o One("event", U16)

SrvMouseCmd == Entity
SrvMouseCmdPack == Of(SrvMouseCmd, <<"id", "targetId", "dist", "destX", "destY", "z">>)

SrvPartyReq == Entity @@ [request |-> U8]
SrvPartyReqPack == Of(SrvPartyReq, <<"request", "tag", "name">>)

SrvPlayerChar == Entity
SrvPlayerCharPack ==
    Of(SrvPlayerChar, <<"id", "x", "y", "destX", "destY", "command", "targetId", "moveMode", "hp",
                 "teamId", "statusFlag", "race", "runSpeed", "atkSpeed", "weightRate">>)
      \o Graphics32 \o Equipped
      \o Repeat(MAX_BULLET_TYPES, Of(SrvPlayerChar, <<"header">>)) \o Of(SrvPlayerChar, <<"job", "level">>)
      \o Repeat(MAX_RIDING_ITEMS, Of(SrvPlayerChar, <<"visible">>))
      \o Of(SrvPlayerChar, <<"z", "subFlag", "name", "name">>)

SrvQuestData == Entity
SrvQuestDataPack == QuestsPack \o WishlistPack

SrvRemoveObject == Entity
SrvRemoveObjectPack == Of(SrvRemoveObject, <<"id">>)

SrvSelectCharReply == Entity
SrvSelectCharReplyPack ==
    Of(SrvSelectCharReply, <<"race", "map", "x", "y", "spawn">>) \o Graphics32 \o Equipped
      \o Of(SrvSelectCharReply, <<"stone", "face", "hair", "job", "factionId", "factionRank", "fame", "str",
                      "dex", "int", "con", "charm", "sense", "hp", "mp", "xp", "level",
                      "statPoints", "skillPoints", "bodySize", "headSize", "penaltyXp">>)
      \o Repeat(2, Of(SrvSelectCharReply, <<"factionFame">>)) \o Repeat(10, Of(SrvSelectCharReply, <<"factionPoints">>))
      \o Of(SrvSelectCharReply, <<"guildId", "guildContribution", "guildRank", "pkFlag", "stamina">>)
      \o Repeat(maxEffects, Of(SrvSelectCharReply, <<"expiredSeconds", "value", "unkown">>))
      \o Of(SrvSelectCharReply, <<"patHp", "patCooldownTime">>)
      \o Repeat(maxSkills, One("skill", U16)) \o Repeat(Hotbar_maxItems, One("hotbar", U16))
      \o Of(SrvSelectCharReply, <<"tag", "name">>)

SrvSetMoney == Entity
SrvSetMoneyPack == Of(SrvSetMoney, <<"zuly">>)

SrvStop == Entity
SrvStopPack == Of(SrvStop, <<"id", "x", "y", "z">>)

SrvStopMoving == Entity
SrvStopMovingPack == Of(SrvStopMoving, <<"id", "x", "y", "z">>)

SrvTeleportReply == Entity
SrvTeleportReplyPack == Of(SrvTeleportReply, <<"id", "map", "x", "y", "moveMode">>) \o One("rideMode", U8)

(* With a list: the members of a party, or the one who left and the leader *)
(* (n = 0 stands for that form); the slots that changed.                   *)
SrvPartyMember == Entity @@ [rules |-> U8, size |-> Size]
SrvPartyMemberPack(n) ==
    Of(SrvPartyMember, <<"rules">>)
      \o (IF n = 0 THEN One("-1", U8) \o Of(SrvPartyMember, <<"tag", "tag">>)
          ELSE Of(SrvPartyMember, <<"size">>)
                 \o Repeat(n, Of(SrvPartyMember, <<"tag", "id", "maxHp", "hp", "statusFlag", "con">>)
                                \o Repeat(2, One("0", U16)) \o Of(SrvPartyMember, <<"stamina", "name">>)))

SrvSetItem == Entity @@ [size |-> Size]
SrvSetItemPack(n) == Of(SrvSetItem, <<"size">>) \o Repeat(n, One("id", U8) \o ItemWire)

-----------------------------------------------------------------------------
(* The classes with their number and layouts; NoReader where no constructor *)
(* takes a buffer.  Lists are the classes whose layout depends on a list.   *)
NoReader == One("none", U8)
Class(to, type, read, pack) ==
    [to |-> to, type |-> ePacketType[type], read |-> read, pack |-> pack]
ToServer(type, read, pack) == Class("server", type, read, pack)
ToClient(type, read, pack) == Class("client", type, read, pack)

Classes ==
    [CliAcceptReq |-> ToServer("PAKCS_ACCEPT_REQ", CliAcceptReqRead, CliAcceptReqPack),
     CliAlive |-> ToServer("PAKCS_ALIVE", CliAliveRead, CliAlivePack),
     CliChangeMapReq |-> ToServer("PAKCS_CHANGE_MAP_REQ", CliChangeMapReqRead, CliChangeMapReqPack),
     CliChannelListReq |-> ToServer("PAKCS_CHANNEL_LIST_REQ", CliChannelListReqRead, CliChannelListReqPack),
     CliCharListReq |-> ToServer("PAKCS_CHAR_LIST_REQ", CliCharListReqRead, CliCharListReqPack),
     CliCreateCharReq |-> ToServer("PAKCS_CREATE_CHAR_REQ", CliCreateCharReqRead, CliCreateCharReqPack),
     CliDeleteCharReq |-> ToServer("PAKCS_DELETE_CHAR_REQ", CliDeleteCharReqRead, CliDeleteCharReqPack),
     CliDropItem |-> ToServer("PAKCS_DROP_ITEM", CliDropItemRead, CliDropItemPack),
     CliEquipItem |-> ToServer("PAKCS_EQUIP_ITEM", CliEquipItemRead, CliEquipItemPack),
     CliJoinServerReq |-> ToServer("PAKCS_JOIN_SERVER_REQ", CliJoinServerReqRead, CliJoinServerReqPack),
     CliLoginReq |-> ToServer("PAKCS_LOGIN_REQ", CliLoginReqRead, CliLoginReqPack),
     CliLogoutReq |-> ToServer("PAKCS_LOGOUT_REQ", CliLogoutReqRead, CliLogoutReqPack),
     CliMouseCmd |-> ToServer("PAKCS_MOUSE_CMD", CliMouseCmdRead, CliMouseCmdPack),
     CliNormalChat |-> ToServer("PAKCS_NORMAL_CHAT", CliNormalChatRead, CliNormalChatPack),
     CliPartyChat |-> ToServer("PAKCS_PARTY_CHAT", CliPartyChatRead, CliPartyChatPack),
     CliPartyReply |-> ToServer("PAKCS_PARTY_REPLY", CliPartyReplyRead, CliPartyReplyPack),
     CliPartyReq |-> ToServer("PAKCS_PARTY_REQ", CliPartyReqRead, CliPartyReqPack),
     CliReviveReq |-> ToServer("PAKCS_REVIVE_REQ", CliReviveReqRead, CliReviveReqPack),
     CliScreenShotTimeReq |-> ToServer("PAKCS_SCREEN_SHOT_TIME_REQ", CliScreenShotTimeReqRead, CliScreenShotTimeReqPack),
     CliSelectCharReq |-> ToServer("PAKCS_SELECT_CHAR_REQ", CliSelectCharReqRead, CliSelectCharReqPack),
     CliSrvSelectReq |-> ToServer("PAKCS_SRV_SELECT_REQ", CliSrvSelectReqRead, CliSrvSelectReqPack),
     CliStop |-> ToServer("PAKCS_STOP", CliStopRead, CliStopPack),
     CliStopMoving |-> ToServer("PAKCS_STOP_MOVING", CliStopMovingRead, CliStopMovingPack),
     CliWhisperChat |-> ToServer("PAKCS_WHISPER_CHAT", CliWhisperChatRead, CliWhisperChatPack),
     IscServerRegister |-> ToServer("ISC_SERVER_REGISTER", IscServerRegisterRead, IscServerRegisterPack),
     IscShutdown |-> ToServer("ISC_SHUTDOWN", IscShutdownRead, IscShutdownPack),
     SrvAcceptReply |-> ToClient("PAKSS_ACCEPT_REPLY", SrvAcceptReplyRead, SrvAcceptReplyPack),
     SrvAdjustPosition |-> ToClient("PAKWC_ADJUST_POSITION", NoReader, SrvAdjustPositionPack),
     SrvChangeMapReply |-> ToClient("PAKWC_CHANGE_MAP_REPLY", NoReader, SrvChangeMapReplyPack),
     SrvChannelListReply |-> ToClient("PAKLC_CHANNEL_LIST_REPLY", <<>>, <<>>),
     SrvCharacterListReply |-> ToClient("PAKCC_CHAR_LIST_REPLY", <<>>, <<>>),
     SrvCreateCharReply |-> ToClient("PAKCC_CREATE_CHAR_REPLY", NoReader, SrvCreateCharReplyPack),
     SrvDeleteCharReply |-> ToClient("PAKCC_DELETE_CHAR_REPLY", NoReader, SrvDeleteCharReplyPack),
     SrvDropItem |-> ToClient("PAKWC_DROP_ITEM", NoReader, SrvDropItemPack),
     SrvEquipItem |-> ToClient("PAKWC_EQUIP_ITEM", NoReader, SrvEquipItemPack),
     SrvInitData |-> ToClient("PAKWC_INIT_DATA", NoReader, SrvInitDataPack),
     SrvInventoryData |-> ToClient("PAKWC_INVENTORY_DATA", NoReader, SrvInventoryDataPack),
     SrvJoinServerReply |-> ToClient("PAKSC_JOIN_SERVER_REPLY", SrvJoinServerReplyRead, SrvJoinServerReplyPack),
     SrvLoginReply |-> ToClient("PAKLC_LOGIN_REPLY", <<>>, <<>>),
     SrvLogoutReply |-> ToClient("PAKWC_LOGOUT_REPLY", NoReader, SrvLogoutReplyPack),
     SrvMobChar |-> ToClient("PAKWC_MOB_CHAR", NoReader, SrvMobCharPack),
     SrvMouseCmd |-> ToClient("PAKWC_MOUSE_CMD", NoReader, SrvMouseCmdPack),
     SrvNormalChat |-> ToClient("PAKWC_NORMAL_CHAT", NoReader, SrvNormalChatPack),
     SrvNpcChar |-> ToClient("PAKWC_NPC_CHAR", NoReader, SrvNpcCharPack),
     SrvPartyChat |-> ToClient("PAKWC_PARTY_CHAT", NoReader, SrvPartyChatPack),
     SrvPartyMember |-> ToClient("PAKWC_PARTY_MEMBER", NoReader, <<>>),
     SrvPartyReply |-> ToClient("PAKWC_PARTY_REPLY", NoReader, SrvPartyReplyPack),
     SrvPartyReq |-> ToClient("PAKWC_PARTY_REQ", NoReader, SrvPartyReqPack),
     SrvPlayerChar |-> ToClient("PAKWC_PLAYER_CHAR", NoReader, SrvPlayerCharPack),
     SrvQuestData |-> ToClient("PAKWC_QUEST_DATA", NoReader, SrvQuestDataPack),
     SrvRemoveObject |-> ToClient("PAKWC_REMOVE_OBJECT", NoReader, SrvRemoveObjectPack),
     SrvReviveReply |-> ToClient("PAKWC_REVIVE_REPLY", NoReader, SrvReviveReplyPack),
     SrvScreenShotTimeReply |-> ToClient("PAKSC_SCREEN_SHOT_TIME_REPLY", NoReader, SrvScreenShotTimeReplyPack),
     SrvSelectCharReply |-> ToClient("PAKWC_SELECT_CHAR_REPLY", NoReader, SrvSelectCharReplyPack),
     SrvServerData |-> ToClient("PAKWC_GLOBAL_VARS", NoReader, <<>>),
     SrvSetItem |-> ToClient("PAKWC_SET_ITEM", NoReader, <<>>),
     SrvSetMoney |-> ToClient("PAKWC_SET_MONEY", NoReader, SrvSetMoneyPack),
     SrvSrvSelectReply |-> ToClient("PAKLC_SRV_SELECT_REPLY", SrvSrvSelectReplyRead, SrvSrvSelectReplyPack),
     SrvStop |-> ToClient("PAKWC_STOP", NoReader, SrvStopPack),
     SrvStopMoving |-> ToClient("PAKWC_STOP_MOVING", NoReader, SrvStopMovingPack),
     SrvSwitchServer |-> ToClient("PAKCC_SWITCH_SERVER", SrvSwitchServerRead, SrvSwitchServerPack),
     SrvTeleportReply |-> ToClient("PAKWC_TELEPORT_REPLY", NoReader, SrvTeleportReplyPack),
     SrvWhisperChat |-> ToClient("PAKWC_WHISPER_CHAT", NoReader, SrvWhisperChatPack),
     SrvBillingMsg |-> ToClient("PAKWC_BILLING_MESSAGE", NoReader, SrvBillingMsgPack)]

Lists == {"SrvChannelListReply", "SrvCharacterListReply", "SrvLoginReply", "SrvServerData",
          "SrvPartyMember", "SrvSetItem"}

PackOf(c, n) ==
    CASE c = "SrvChannelListReply"   -> SrvChannelListReplyPack(n)
      [] c = "SrvCharacterListReply" -> SrvCharacterListReplyPack(n)
      [] c = "SrvLoginReply"         -> SrvLoginReplyPack(n)
      [] c = "SrvServerData"         -> SrvServerDataPack(n)
      [] c = "SrvPartyMember"        -> SrvPartyMemberPack(n)
      [] c = "SrvSetItem"            -> SrvSetItemPack(n)
      [] OTHER                       -> Classes[c].pack

(* The constructor from a buffer: what it reads, given the length of its   *)
(* list.  That length is the byte in front of the list.                    *)
ReadOf(c, n) ==
    CASE c = "SrvChannelListReply"   -> SrvChannelListReplyRead(n)
      [] c = "SrvCharacterListReply" -> SrvCharacterListReplyRead(n)
      [] OTHER                       -> Classes[c].read
SizeAt == [SrvChannelListReply |-> 2, SrvCharacterListReply |-> 1]

ReadPacket(c, wire, fill, refused) ==
    LET Fields(n) == ReadAll(AtPayload, wire, fill, ReadOf(c, n)).got
    IN  CASE c \in DOMAIN SizeAt   -> Fields(Fields(0)[SizeAt[c]][2][1] % 4096)
          [] c = "SrvLoginReply"   -> SrvLoginReplyRead(wire, fill, refused).got
          [] OTHER                 -> Fields(0)
=============================================================================
