\* Two slots, three connections: slots are reused by players who reconnect.
SPECIFICATION Spec
CONSTANTS
  c1 = c1
  c2 = c2
  c3 = c3
  Streams <- MCStreams
  MaxPlayers = 2
  NoStream = NoStream
  NoSlot = NoSlot
  Faults <- Aborts
  MaxSpawns = 3
  MaxUuids = 2
SYMMETRY Symmetry
INVARIANTS
  TypeOK
  EidUnique
  KeepAliveInPlay
  MutualVisibility
  MovesAreOfKnownEntities
