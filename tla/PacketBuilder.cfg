\* Packets to the client itself and to two others, who come and go.
SPECIFICATION WritesSpec
CONSTANTS
  Lengths <- MCLengths
  Varints <- MCVarints
  Longest = 3
  MaxPacket = 7
  Self = c1
  Clients = {c1, c2, c3}
  MaxPending = 3
  MaxRefused = 2
INVARIANTS
  WritesInside
  PacketIsOwn
  CapBounded
  PendingIntact
  OnlyRefusedAreLost
