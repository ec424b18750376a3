SPECIFICATION Spec
CONSTANTS
  k1 = k1
  w1 = w1
  w2 = w2
  Connections = {k1}
  Workers = {w1, w2}
  None = None
  ThreadsFail = FALSE
  SlotReads = {"own"}
  MaxSends = 1
  MaximumWaitObjects = 64
SYMMETRY Symmetry
CONSTRAINT QuietAfterMistake
ACTION_CONSTRAINT OneMistake
INVARIANT TypeOK
INVARIANT NoLeak
INVARIANT OneReceivePerContext
INVARIANT ListedHasReceive
INVARIANT EnoughQuits
INVARIANT WorkersGoneBeforeCleanup
INVARIANT AllReleasedAtExit
INVARIANT DeInitializeIsLast
INVARIANT NullBuddyOnlyFromProxy
PROPERTY RefinesConnectionRelay
