\* Two connections, two users that make two calls, two messages for each connection.
CONSTANTS
  Ios = {i1, i2}
  Users = {u1, u2}
  MaxReads = 2
  MaxCalls = 2
  Acceptor = Acceptor
  Loop = Loop
  NoIo = NoIo
SYMMETRY Interchangeable
SPECIFICATION Spec
INVARIANTS
  RefsExact
  EndedOnce
