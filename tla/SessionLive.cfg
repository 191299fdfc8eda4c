SPECIFICATION FairSpec
CONSTANTS
  Users = {u1}
  LoginConns = {c1}
  CharConns = {k1}
  MapConns = {}
  Calls = {t1, t2}
  NoUser = NoUser
  MaxClock = 2
PROPERTY AbandonedAccountFreed
