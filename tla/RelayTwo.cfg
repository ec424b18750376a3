SPECIFICATION Spec
CONSTANTS
  k1 = k1
  k2 = k2
  w1 = w1
  w2 = w2
  Connections = {k1, k2}
  Workers = {w1, w2}
  None = None
  ThreadsFail = TRUE
  SlotReads = {"own", "other", "fault"}
  MaxSends = 0
  MaximumWaitObjects = 64
SYMMETRY Symmetry
INVARIANT OwnershipInv
INVARIANT StaleHandleInWorkerOnly
