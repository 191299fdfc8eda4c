SPECIFICATION Spec
CONSTANTS
  Clients = {c1, c2}
  Chars = {a}
  Entities = {e1, e2}
  NoEntity = NoEntity
  NoClient = NoClient
  NoChar = NoChar
  IdSpace = 3
  MaxNpcs = 1
  Sent = {"CHANGE_MAP_REQ"}
  MaxThrows = 1
  MaxQueue = 1
\* Entity handles run out.
CHECK_DEADLOCK FALSE
SYMMETRY Symmetry
INVARIANTS TypeOK UniqueIds IndexesExact
PROPERTY HandlerLostToLeaver
