\* Three readers, one of which is sure to be called, three packets against a backlog of
\* two, a full queue and an old one reset.  A freed element can be read in this instance; an
\* assertion can fail only with a longer backlog.  No symmetry: one property is temporal.
CONSTANTS
  Consumers = {c1, c2, c3}
  Loops = 1
  MaxBacklog = 2
  MaxPackets = 3
  MaxResets = 2
SPECIFICATION ReaderSpec
INVARIANTS
  TypeOK
  SeenCountsPassed
  NoSpentElement
  CursorLinked
  PeekedLinked
  OnlyLateCallsFail
  BacklogBounded
PROPERTIES
  ReadsEveryPacket
  EveryPacketRead
  ImplementsLog
