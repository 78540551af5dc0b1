\* Two pipes, three packets, two requests and TEARDOWN; a packet
\* does not always fit into the socket, the output is full after two messages.
CONSTANTS
  MaxPlays = 2
  MaxPackets = 3
  MaxRequests = 2
  PacketSize = 2
  ResponseSize = 1
  MaxRoom = 2
  MaxPending = 3
  Mtu = 2
SPECIFICATION FairSpec
INVARIANTS
  OutputSound
  PipesOwned
PROPERTY
  SentAtLast
