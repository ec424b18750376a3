SPECIFICATION FairSpec
CONSTANTS
  k1 = k1
  w1 = w1
  Connections = {k1}
  Workers = {w1}
  None = None
  ThreadsFail = FALSE
  SlotReads = {"own"}
  MaxSends = 1
  MaximumWaitObjects = 64
PROPERTY GoneIsDelisted
PROPERTY ConnectionReclaimed
PROPERTY ShutdownCompletes
