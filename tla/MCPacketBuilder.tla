--------------------------- MODULE MCPacketBuilder ---------------------------
(* PacketBuilder with short writes, and the packets it sends.              *)
EXTENDS PacketWrites

MCLengths == {1, 3}
MCVarints == {1, 2}
=============================================================================
