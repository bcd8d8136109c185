SPECIFICATION Spec
CONSTANTS
  Streams = {c1, c2, c3}
  MaxPlayers = 2
  NoStream = NoStream
  NoSlot = NoSlot
  Faults <- AllFaults
INVARIANTS
  SlotForEveryConnection
