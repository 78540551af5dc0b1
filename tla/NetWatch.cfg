\* Two blocks of two bytes, three messages of one or two: the ring fills up and wraps
\* around, and the socket takes one byte at a time.  An idle connection waits.
CONSTANTS
  Blocks = 2
  BlockSize = 2
  Sizes = {1, 2}
  MaxWrites = 3
  MaxInbound = 1
  Room = 1
  EarlyWrites = FALSE
SPECIFICATION FairSpec
INVARIANTS
  RingServed
  StreamInOrder
  ReportedOnce
PROPERTY SentAtLast
CHECK_DEADLOCK FALSE
