SPECIFICATION FairSpec
CONSTANTS
  Net = {n1, n2}
  Process = Process
  Update = Update
  Clients = {c1}
  NoClient = NoClient
  Free = Free
  StartsLate = TRUE
\* The deadlocks of the code are states of the model.
CHECK_DEADLOCK FALSE
INVARIANTS TypeOK ThreeDeadlocks
PROPERTIES  PacketDispatched TimedOutGoes
