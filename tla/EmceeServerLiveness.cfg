\* Liveness under the fairness of the event loop.  No symmetry.
SPECIFICATION FairSpec
CONSTANTS
  c1 = c1
  c2 = c2
  c3 = c3
  Streams <- MCStreams2
  MaxPlayers = 2
  NoStream = NoStream
  NoSlot = NoSlot
  Faults = {"stop"}
  MaxSpawns = 2
  MaxUuids = 1
PROPERTIES
  KeepAliveRecurs
