---------------------------- MODULE MCPacketFields ----------------------------
(* The instances of VarInt and PacketFields that TLC checks: the fields    *)
(* while no varint has been started, and the varints while no field has.   *)
EXTENDS MCVarInt, PacketFields, FiniteSets

Boundaries(size) == {0 - (size \div 2), -1, 0, 1, (size \div 2) - 1}

BoundaryValues ==
  [u8 |-> {1}, u16 |-> {6}, u32 |-> {27}, u64 |-> {1, 6939},
   i64 |-> {-2, 6939}, uuid |-> {<<6939, 2>>},
   position |-> [x: Boundaries(XZ), y: Boundaries(Y), z: Boundaries(XZ)],
   string |-> {<<>>, <<Byte - 1>>}]

MCInit == Init /\ FieldsInit

MCNext ==
  \/ Next /\ stage = "start" /\ UNCHANGED fieldVars
  \/ FieldsNext /\ input = 0 /\ bytes = <<>> /\ UNCHANGED vars

MCSpec == MCInit /\ [][MCNext]_<<vars, fieldVars>>
=============================================================================
