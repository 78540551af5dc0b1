\* A message written before the connection is established.
CONSTANTS
  Blocks = 2
  BlockSize = 2
  Sizes = {2}
  MaxWrites = 1
  MaxInbound = 0
  Room = 1
  EarlyWrites = TRUE
SPECIFICATION FairSpec
PROPERTY SentAtLast
CHECK_DEADLOCK FALSE
