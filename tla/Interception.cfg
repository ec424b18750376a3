SPECIFICATION FairSpec
\* The driver may be unloaded for good, and nobody connect.
CHECK_DEADLOCK FALSE
CONSTANTS
  i1 = i1
  i2 = i2
  a1 = a1
  Instances = {i1, i2}
  Apps = {a1}
  NoProcess = NoProcess
  Proxy = Proxy
  MaxLoads = 2
  MaxRefused = 1
  MaxHops = 1
INVARIANT TypeOK
INVARIANT NoLoop
INVARIANT OriginKept
INVARIANT HandlesReleased
INVARIANT NothingLeft
INVARIANT FilterBacked
PROPERTY Settles
PROPERTY UnloadEnds
PROPERTY RefinesRedirection
