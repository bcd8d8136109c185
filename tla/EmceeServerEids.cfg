SPECIFICATION Spec
CONSTANTS
  c1 = c1
  c2 = c2
  c3 = c3
  Streams <- MCStreams
  MaxPlayers = 2
  NoStream = NoStream
  NoSlot = NoSlot
  Faults <- AllFaults
  MaxSpawns = 3
  MaxUuids = 2
INVARIANTS
  OneEntityPerEid
