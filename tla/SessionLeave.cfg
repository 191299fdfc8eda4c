SPECIFICATION Spec
CONSTANTS
  Users = {u1, u2}
  LoginConns = {c1}
  CharConns = {}
  MapConns = {m1}
  Calls = {t1}
  NoUser = NoUser
  MaxClock = 1
PROPERTY LeavingClearsOwnBit
