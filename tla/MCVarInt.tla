------------------------------- MODULE MCVarInt -------------------------------
(* The instances of VarInt that TLC checks: segments of two bits in ints   *)
(* of five for the readers on every byte sequence, and the real segments   *)
(* of seven bits in ints of sixteen for the entity ids.                    *)
EXTENDS VarInt

(* The int an unsigned number is converted to.                             *)
AsInt(u) == IF 2 * u < IntRange THEN u ELSE u - IntRange

AllInts == {AsInt(u) : u \in 0 .. IntRange - 1}

UpTo(n) == UNION {[1 .. k -> 0 .. 2 * Continue - 1] : k \in 0 .. n}

(* One byte more than the reader may take.                                 *)
AllReceived == UpTo(MAX_VARINT_LEN + 1)
=============================================================================
