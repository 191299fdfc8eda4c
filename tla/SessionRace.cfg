SPECIFICATION Spec
CONSTANTS
  Users = {u1, u2}
  LoginConns = {c1}
  CharConns = {k1}
  MapConns = {m1}
  Calls = {t1}
  NoUser = NoUser
  MaxClock = 1
SYMMETRY Symmetry
INVARIANTS TypeOK NoOrphanOnline JoinedAsIssued
PROPERTY EvictedByOwnerOnly
