SPECIFICATION FairSpec
CONSTANTS
  Streams = {c1, c2, c3}
  MaxPlayers = 2
  NoStream = NoStream
  NoSlot = NoSlot
  Faults <- AllFaults
INVARIANTS
  TypeOK
  SlotOwnership
  HeapSafety
  TimerSafety
  HeartbeatStreamOpen
PROPERTIES
  ImplementsPool
  ClosedIsReleased
