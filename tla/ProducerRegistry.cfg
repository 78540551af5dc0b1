\* Three tracks of one stream come and go; no symmetry, one property is temporal.
CONSTANTS
  Tracks = {t1, t2, t3}
  Producers = {p1, p2, p3}
  NoTrack = NoTrack
  NoProducer = NoProducer
SPECIFICATION RegistryFairSpec
INVARIANTS
  ProducersOwned
PROPERTY FreeCompletes
