SPECIFICATION Spec
CONSTANTS
  k1 = k1
  w1 = w1
  w2 = w2
  Connections = {k1}
  Workers = {w1, w2}
  None = None
  ThreadsFail = TRUE
  SlotReads = {"own"}
  MaxSends = 1
  MaximumWaitObjects = 64
INVARIANT WorkersGoneBeforeCleanup
