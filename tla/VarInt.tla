-------------------------------- MODULE VarInt --------------------------------
(***************************************************************************)
(* Variable-length integers: the loop of varint_from_int, and the two      *)
(* loops that read them back, pr_read_varint over a packet and             *)
(* build_varint over the length prefix of a packet.  An iteration is a     *)
(* step.  Bit operations are arithmetic: val & 0x7F is val % Continue,     *)
(* val >> 7 rounds down, and a shift to the left drops the bits above int. *)
(***************************************************************************)
EXTENDS Integers, Sequences

CONSTANTS
  Continue,        \* VARINT_CONTINUE_BIT, 128: 1 << bits of a segment
  IntRange,        \* number of values of an int, 2^32
  MAX_VARINT_LEN,  \* bytes of a VarInt
  Values,          \* ints the server writes
  Received,        \* byte sequences a client sends where a varint is due
  NoInput          \* input of a run that starts from received bytes

ASSUME VarIntAssumption ==
  /\ Continue \in Nat /\ Continue > 1
  /\ IntRange \in Nat /\ IntRange > 1
  /\ MAX_VARINT_LEN \in Nat
  /\ Values \subseteq Int
  /\ Received \subseteq Seq(0 .. 2 * Continue - 1)

VARIABLES
  mode,    \* "encode", "decode", "done", or how it went wrong
  input,   \* the value given to varint_from_int, NoInput for received bytes
  val,     \* what varint_from_int has left to write
  bytes,   \* VarInt.bytes, or the received bytes
  next,    \* bytes read back so far
  read,    \* value and 1 << position of pr_read_varint
  built    \* the same of build_varint

vars == <<mode, input, val, bytes, next, read, built>>

(* The bit pattern of an int, as an unsigned number.                       *)
Pattern(i) == i % IntRange

Start == [value |-> 0, weight |-> 1]

Init ==
  /\ \/ /\ mode = "encode"
        /\ input \in Values
        /\ val = input
        /\ bytes = <<>>
     \/ /\ mode = "decode"
        /\ input = NoInput
        /\ val = 0
        /\ bytes \in Received
  /\ next = 0
  /\ read = Start
  /\ built = Start

(* Mutants: a comparison that is off by one, either way.                   *)
FitsSegment_TooWide(v) == v \in 0 .. Continue
FitsSegment_TooNarrow(v) == v \in 0 .. Continue - 2

(* (val & ~VARINT_SEGMENT_BITS) == 0                                       *)
FitsSegment(v) == v \in 0 .. Continue - 1

(* Mutant: the continuation bit is forgotten.                              *)
MoreByte_Plain(v) == v % Continue

(* The byte of a segment that others follow.                               *)
MoreByte(v) == (v % Continue) + Continue

(* res.bytes has MAX_VARINT_LEN elements, which the loop does not check.   *)
HasRoom == Len(bytes) < MAX_VARINT_LEN

EncodeLast ==
  /\ mode = "encode" /\ HasRoom
  /\ FitsSegment(val)
  /\ bytes' = Append(bytes, val)
  /\ mode' = "decode"
  /\ UNCHANGED <<input, val, next, read, built>>

EncodeMore ==
  /\ mode = "encode" /\ HasRoom
  /\ ~FitsSegment(val)
  /\ bytes' = Append(bytes, MoreByte(val))
  /\ val' = val \div Continue
  /\ UNCHANGED <<mode, input, next, read, built>>

EncodeOverrun ==
  /\ mode = "encode" /\ ~HasRoom
  /\ mode' = "overrun"
  /\ UNCHANGED <<input, val, bytes, next, read, built>>

(* value |= segment << position, and the next position if there is more.   *)
Shifted(acc, byte) ==
  [value  |-> acc.value + (((byte % Continue) * acc.weight) % IntRange),
   weight |-> IF byte < Continue THEN acc.weight ELSE acc.weight * Continue]

(* Mutant: the bound lets a sixth byte in.                                 *)
InRange_Late(weight) == weight < IntRange * Continue

(* ASSERT(position < 32)                                                   *)
InRange(weight) == weight < IntRange

(* Both readers take the next byte; only pr_read_varint has a bound.       *)
Decode ==
  /\ mode = "decode" /\ next < Len(bytes)
  /\ next' = next + 1
  /\ LET byte == bytes[next + 1]
     IN  /\ read' = Shifted(read, byte)
         /\ built' = Shifted(built, byte)
         /\ mode' = IF byte < Continue THEN "done"
                    ELSE IF InRange(read'.weight) THEN "decode" ELSE "assertion"
  /\ UNCHANGED <<input, val, bytes>>

(* pr_check_length: the packet ends inside the varint.                     *)
DecodeShort ==
  /\ mode = "decode" /\ next = Len(bytes)
  /\ mode' = "assertion"
  /\ UNCHANGED <<input, val, bytes, next, read, built>>

Finished == mode \in {"done", "assertion", "overrun"} /\ UNCHANGED vars

Next == EncodeLast \/ EncodeMore \/ EncodeOverrun \/ Decode \/ DecodeShort \/ Finished

Spec == Init /\ [][Next]_vars

-----------------------------------------------------------------------------
(* Properties.                                                             *)

(* What varint_from_int wrote is read back as it was, by both readers, to  *)
(* the last byte.                                                          *)
RoundTrip ==
  mode = "done" /\ input # NoInput =>
    /\ read.value = Pattern(input) /\ built.value = Pattern(input)
    /\ next = Len(bytes)

(* For an int from 0 up varint_from_int writes no byte past VarInt.bytes,  *)
(* and its encoding is not refused.                                        *)
EncodingAccepted ==
  input # NoInput /\ mode \in {"overrun", "assertion"} => input < 0

(* No value has two encodings of its own: the last byte of a longer one is *)
(* not zero.                                                               *)
Shortest ==
  mode = "done" /\ input # NoInput /\ Len(bytes) > 1 => bytes[Len(bytes)] # 0

(* Whatever a client sends, pr_read_varint reads at most MAX_VARINT_LEN    *)
(* bytes of it.                                                            *)
ReaderBounded == next <= MAX_VARINT_LEN

(* server.h: entity ids may go up to 2^32.  add_entity and the movement    *)
(* packets write them with pb_write_varint, as an int: from half of that   *)
(* on they are negative, and the loop of varint_from_int does not end      *)
(* within VarInt.bytes, as a negative number shifted stays negative.       *)
EveryEidEncodable == mode # "overrun"
=============================================================================
