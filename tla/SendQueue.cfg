SPECIFICATION FairSpec
CONSTANTS
  Senders = {t1, t2}
  MaxSend = 2
  InOrder = TRUE
\* The senders stop after MaxSend packets.
CHECK_DEADLOCK FALSE
INVARIANTS TypeOK BuffersAlive DiscardCoversWrites
PROPERTIES ImplementsFifo EveryPacketLeaves
