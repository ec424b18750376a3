SPECIFICATION FairSpec
CONSTANTS
  w1 = w1
  w2 = w2
  Workers = {w1, w2}
  None = None
  Input <- Text
  MAX_BUFFER_LEN = 3
  MaxChunk = 3
  MaxSends = 3
  Keeps = {TRUE, FALSE}
  Overlap = FALSE
INVARIANT TypeOK
INVARIANT StreamInv
INVARIANT OverrunsOnFullChunk
PROPERTY RefinesByteChannel
PROPERTY ForwardsEverything
