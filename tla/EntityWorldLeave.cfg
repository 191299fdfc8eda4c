SPECIFICATION FairSpec
CONSTANTS
  Clients = {c1}
  Chars = {a}
  Entities = {e1}
  NoEntity = NoEntity
  NoClient = NoClient
  NoChar = NoChar
  IdSpace = 2
  MaxNpcs = 1
  Sent = {"CHANGE_MAP_REQ", "DROP_ITEM", "NORMAL_CHAT"}
  MaxThrows = 1
  MaxQueue = 3
\* Entity handles run out.
CHECK_DEADLOCK FALSE
PROPERTIES SavedOnLeave LeaverRemoved
