SPECIFICATION FairSpec
\* An application may send no further request.
CHECK_DEADLOCK FALSE
CONSTANTS
  Requests = {1, 2, 3, 4, 5, 6}
  Events = {4, 5, 6}
  LONG_MAX = 0
  None = None
ACTION_CONSTRAINT KindsInOrder
INVARIANT TypeOK
INVARIANT OneHolder
INVARIANT DistinctNumbers
INVARIANT NumbersInv
PROPERTY CallsReturn
PROPERTY RetrievedIsTold
PROPERTY RefinesNotifications
