\* One pair of ports and two SETUP requests.
CONSTANTS
  Handlers = {h1}
  Sessions = {s1, s2}
  Rtps = {r1}
  MaxRequests = 2
  MaxTries = 1
  LowPort = 4
  HighPort = 6
  Reserved = 0
  Loop = Loop
  NoSession = NoSession
  NoRtp = NoRtp
SPECIFICATION Spec

INVARIANT PutOnce
