\* Two handler threads, two sessions, two RTP sessions, three requests; a range that begins with an
\* odd port and has a reserved one, with as many pairs as there may be requests.
CONSTANTS
  Handlers = {h1, h2}
  Sessions = {s1, s2}
  Rtps = {r1, r2}
  MaxRequests = 3
  MaxTries = 1
  LowPort = 5
  HighPort = 15
  Reserved = 7
  Loop = Loop
  NoSession = NoSession
  NoRtp = NoRtp
SPECIFICATION Spec
SYMMETRY Symmetry
INVARIANTS
  RefsExact
  PortsOwned
  PairFound
  NothingLeft
