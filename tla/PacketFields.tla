----------------------------- MODULE PacketFields -----------------------------
(***************************************************************************)
(* The fields of packets: a handler reads what a client sent, field by     *)
(* field, and writes the same values into its answer, as player_action     *)
(* does with the position of a block.  Words cross the byte order of the   *)
(* host on both ways.  Strings are short here: their length is one byte,   *)
(* longer ones are the business of VarInt.  An f32 and an f64 are their    *)
(* bits.                                                                   *)
(***************************************************************************)
EXTENDS Integers, Sequences, SequencesExt

CONSTANTS
  Byte,        \* number of values of a byte, 256
  XZ, Y,       \* numbers of values of the coordinates of a block, 2^26 and 2^12
  FieldValues, \* the values of every kind of field
  MaxFields    \* bound: fields of a packet

Bytes == [u8 |-> 1, u16 |-> 2, u32 |-> 4, u64 |-> 8]

(* How many words of n bytes there are.                                    *)
Power[n \in 0 .. Bytes.u64] == IF n = 0 THEN 1 ELSE Byte * Power[n - 1]
Long == Power[Bytes.u64]

(* Numbers of so many values, with a sign.                                 *)
SignedRange(size) == -(size \div 2) .. (size \div 2) - 1

(* What the constants satisfy: a position fills a word, and its fields are *)
(* whole bits.  The length of a string is a varint of one byte.            *)
ASSUME FieldsAssumption ==
  /\ Byte \in Nat /\ Byte > 1
  /\ XZ \in Nat /\ XZ % 2 = 0
  /\ Y \in Nat /\ Y % 2 = 0
  /\ XZ * XZ * Y = Long
  /\ MaxFields \in Nat
  /\ \A kind \in DOMAIN FieldValues : \A v \in FieldValues[kind] :
       \/ kind \in DOMAIN Bytes /\ v \in 0 .. Power[Bytes[kind]] - 1
       \/ kind = "i64" /\ v \in SignedRange(Long)
       \/ kind = "position"
          /\ v \in [x : SignedRange(XZ), y : SignedRange(Y), z : SignedRange(XZ)]
       \/ kind = "uuid" /\ v \in (0 .. Long - 1) \X (0 .. Long - 1)
       \/ kind = "string" /\ v \in Seq(0 .. Byte - 1) /\ 2 * Len(v) < Byte

VARIABLES
  host,              \* byte order of the machine, "little" or "big"
  IS_LITTLE_ENDIAN,
  stage,             \* "start", "receive", "read", "write" or "aborted"
  fields,            \* what the client sends, as <<kind, value>>
  packet, pos,       \* PacketReader.data and pos
  got,               \* the values the handler has read
  reply              \* PacketBuilder.bytes, up to pos

fieldVars == <<host, IS_LITTLE_ENDIAN, stage, fields, packet, pos, got, reply>>

FieldsInit ==
  /\ host \in {"little", "big"}
  /\ IS_LITTLE_ENDIAN = FALSE
  /\ stage = "start"
  /\ fields = <<>> /\ packet = <<>> /\ pos = 0 /\ got = <<>> /\ reply = <<>>

-----------------------------------------------------------------------------
(* A word is its bytes, the most significant first.                        *)

BigEndian(v, n) == [k \in 1 .. n |-> (v \div Power[n - k]) % Byte]

ValueOf(word) ==
  LET upTo[k \in 0 .. Len(word)] == IF k = 0 THEN 0 ELSE upTo[k - 1] * Byte + word[k]
  IN  upTo[Len(word)]

(* memcpy between a word and bytes.                                        *)
Memory(bytes) == IF host = "little" THEN Reverse(bytes) ELSE bytes

(* swap16, swap32 and swap64.                                              *)
Swapped(word) == Reverse(word)

(* Mutant: no swap on any host.                                            *)
to_be_Kept(word) == word

to_be(word) == IF IS_LITTLE_ENDIAN THEN Swapped(word) ELSE word

from_be(word) == IF IS_LITTLE_ENDIAN THEN Swapped(word) ELSE word

WriteWord(v, n) == Memory(to_be(BigEndian(v, n)))

ReadWord(bytes) == ValueOf(from_be(Memory(bytes)))

Signed(v, size) == IF 2 * v < size THEN v ELSE v - size

-----------------------------------------------------------------------------
(* Positions: 26 bits of x, 26 of z, 12 of y.                              *)

pb_write_position(p) == (p.x % XZ) * (XZ * Y) + (p.z % XZ) * Y + (p.y % Y)

(* Shifts of an i64 by the bits of so many values.                         *)
ShiftLeft(d, size) == Signed((d * size) % Long, Long)
ShiftRight(d, size) == d \div size

(* Mutant: y and z are not moved up to the sign before they are moved down. *)
pr_read_position_NoSign(d) ==
  [x |-> ShiftRight(d, XZ * Y), y |-> d % Y, z |-> ShiftRight(d, Y) % XZ]

pr_read_position(d) ==
  [x |-> ShiftRight(d, XZ * Y),
   y |-> ShiftRight(ShiftLeft(d, XZ * XZ), XZ * XZ),
   z |-> ShiftRight(ShiftLeft(d, XZ), XZ * Y)]

-----------------------------------------------------------------------------
(* Fields.                                                                 *)

(* How many bytes the readers check for and take, from at on.              *)
SizeAt(kind, at) ==
  CASE kind \in DOMAIN Bytes -> Bytes[kind]
    [] kind \in {"i64", "position"} -> Bytes.u64
    [] kind = "uuid" -> 2 * Bytes.u64
    [] kind = "string" -> 1 + packet[at + 1]

pr_read(kind, bytes) ==
  CASE kind \in DOMAIN Bytes -> ReadWord(bytes)
    [] kind = "i64" -> Signed(ReadWord(bytes), Long)
    [] kind = "position" -> pr_read_position(Signed(ReadWord(bytes), Long))
    [] kind = "uuid" ->
         <<ReadWord(SubSeq(bytes, 1, Bytes.u64)), ReadWord(SubSeq(bytes, Bytes.u64 + 1, Len(bytes)))>>
    [] kind = "string" -> Tail(bytes)

pb_write(kind, v) ==
  CASE kind \in DOMAIN Bytes -> WriteWord(v, Bytes[kind])
    [] kind = "i64" -> WriteWord(v % Long, Bytes.u64)
    [] kind = "position" -> WriteWord(pb_write_position(v), Bytes.u64)
    [] kind = "uuid" -> WriteWord(v[1], Bytes.u64) \o WriteWord(v[2], Bytes.u64)
    [] kind = "string" -> <<Len(v)>> \o v

(* What the protocol prescribes, and a game client sends.                  *)
Wire(f) ==
  LET v == f[2]
  IN  CASE f[1] \in DOMAIN Bytes -> BigEndian(v, Bytes[f[1]])
        [] f[1] = "i64" -> BigEndian(v % Long, Bytes.u64)
        [] f[1] = "position" ->
             BigEndian(((v.x % XZ) * XZ + (v.z % XZ)) * Y + (v.y % Y), Bytes.u64)
        [] f[1] = "uuid" -> BigEndian(v[1], Bytes.u64) \o BigEndian(v[2], Bytes.u64)
        [] f[1] = "string" -> <<Len(v)>> \o v

(* The first call of main.                                                 *)
init_endianness ==
  /\ stage = "start"
  /\ IS_LITTLE_ENDIAN' = (host = "little")
  /\ stage' = "receive"
  /\ UNCHANGED <<host, fields, packet, pos, got, reply>>

Receive(f) ==
  /\ stage = "receive" /\ Len(fields) < MaxFields
  /\ fields' = Append(fields, f)
  /\ packet' = packet \o Wire(f)
  /\ stage' \in IF Len(fields') = MaxFields THEN {"read"} ELSE {"receive", "read"}
  /\ UNCHANGED <<host, IS_LITTLE_ENDIAN, pos, got, reply>>

(* The handler reads the next field; pr_check_length aborts beyond the end. *)
ReadField ==
  /\ stage = "read" /\ Len(got) < Len(fields)
  /\ LET kind == fields[Len(got) + 1][1]
         end  == pos + SizeAt(kind, pos)
     IN  IF end > Len(packet)
         THEN stage' = "aborted" /\ UNCHANGED <<got, pos>>
         ELSE /\ got' = Append(got, pr_read(kind, SubSeq(packet, pos + 1, end)))
              /\ pos' = end
              /\ stage' = IF Len(got') = Len(fields) THEN "write" ELSE stage
  /\ UNCHANGED <<host, IS_LITTLE_ENDIAN, fields, packet, reply>>

(* It answers with the values it has read.                                 *)
WriteField ==
  /\ stage = "write" /\ got # <<>>
  /\ reply' = reply \o pb_write(fields[1][1], Head(got))
  /\ got' = Tail(got) /\ fields' = Tail(fields)
  /\ UNCHANGED <<host, IS_LITTLE_ENDIAN, stage, packet, pos>>

(* send_finalized_packet, pb_reset and, after the handler, the next packet. *)
Return ==
  /\ stage = "write" /\ got = <<>>
  /\ stage' = "receive"
  /\ packet' = <<>> /\ pos' = 0 /\ reply' = <<>>
  /\ UNCHANGED <<host, IS_LITTLE_ENDIAN, fields, got>>

FieldsNext ==
  \/ init_endianness \/ ReadField \/ WriteField \/ Return
  \/ \E kind \in DOMAIN FieldValues : \E v \in FieldValues[kind] : Receive(<<kind, v>>)

FieldsSpec == FieldsInit /\ [][FieldsNext]_fieldVars

-----------------------------------------------------------------------------
(* Properties.                                                             *)

(* On either host, a handler reads the values that the client meant, the   *)
(* negative coordinates among them, and has then used up the packet: every *)
(* reader takes as many bytes as its field has.                            *)
FieldsUnderstood ==
  /\ stage # "aborted"
  /\ \A k \in DOMAIN got : got[k] = fields[k][2]
  /\ stage = "write" => pos = Len(packet)

(* On either host, the answer has the bytes that the protocol prescribes   *)
(* for these values, which are those that were received: field by field,   *)
(* and all of them in the end.                                             *)
ReplyOnTheWire ==
  stage = "write" => IsPrefix(reply, packet) /\ (got = <<>> => reply = packet)
=============================================================================
