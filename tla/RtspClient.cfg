SPECIFICATION FairSpec
CONSTANTS
  Session = {s1}
  MaxTracks = 2
  MaxSeq = 3
  MaxPlays = 2
  MaxData = 1
INVARIANT SessionsOwned
INVARIANT SetUpInOrder
PROPERTY EndsAtLast
CHECK_DEADLOCK FALSE
