\* Two requests of any kind; any message may be lost or doubled.
CONSTANTS
  Requests = {r1, r2}
  Settable = {r1}
  Receiver = Receiver
  Timer = Timer
  NoRequest = NoRequest
  MaxProcessed = 1
  MaxReceived = 2
SPECIFICATION FairSpec
INVARIANTS
  AnsweredOnce
  RequestsOwned
  ResultHonest
PROPERTY EveryCallEnds
