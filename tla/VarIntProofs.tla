----------------------------- MODULE VarIntProofs -----------------------------
(***************************************************************************)
(* With the numbers of data_types.h: varint_from_int stays within          *)
(* VarInt.bytes for every int that is not negative, what it writes is the  *)
(* shortest encoding and is read back as it was, and the readers stop in   *)
(* time whatever they are sent.                                            *)
(***************************************************************************)
EXTENDS VarInt, SequenceTheorems, TLAPS

(* The numbers of data_types.h and of a 32-bit int, negative ints among    *)
(* the values.                                                             *)
CodeInts ==
  /\ Continue = 128
  /\ IntRange = 4294967296
  /\ MAX_VARINT_LEN = 5
  /\ \A v \in Values : v \in Int /\ -2147483648 <= v /\ v < 2147483648

(* The same without them.                                                  *)
CodeNumbers == CodeInts /\ \A v \in Values : v >= 0

Byte == 0 .. 2 * Continue - 1

(* What is left to write once n bytes are written.                         *)
Left(n, v) ==
  \/ n = 0 /\ v < 2147483648
  \/ n = 1 /\ v < 16777216
  \/ n = 2 /\ v < 131072
  \/ n = 3 /\ v < 1024
  \/ n = 4 /\ v < 8

(* Every byte written takes seven bits off the value, so that after four   *)
(* bytes three bits are left, which fit the fifth.                         *)
Shrinking ==
  /\ bytes \in Seq(Byte)
  /\ mode = "encode" =>
       /\ val \in Nat
       /\ Left(Len(bytes), val)
  /\ mode # "overrun"

LEMMA LeftBounded ==
  ASSUME NEW n \in Nat, NEW v \in Nat, Left(n, v)
  PROVE  n < 5
BY SMT DEF Left

LEMMA LeftShrinks ==
  ASSUME NEW n \in Nat, NEW v \in Nat, Left(n, v), ~(v < 128)
  PROVE  Left(n + 1, v \div 128)
BY SMT DEF Left

LEMMA LeftAll ==
  ASSUME NEW v \in Nat, v < 2147483648
  PROVE  Left(0, v)
BY SMT DEF Left

LEMMA ShrinkingInit ==
  ASSUME CodeNumbers, Init
  PROVE  Shrinking
<1>1. bytes \in Seq(Byte)
  <2>1. CASE bytes = <<>>
    BY SMT, <2>1
  <2>2. CASE bytes \in Received
    BY <2>2, VarIntAssumption DEF Byte
  <2>3. QED
    BY <2>1, <2>2 DEF Init
<1>2. mode = "encode" => val \in Nat /\ Left(Len(bytes), val)
  <2>1. CASE mode = "encode"
    <3>1. bytes = <<>> /\ val \in Values
      BY <2>1 DEF Init
    <3>2. val \in Nat /\ val < 2147483648
      BY <3>1 DEF CodeNumbers, CodeInts
    <3>3. Len(bytes) = 0
      BY SMT, <3>1
    <3>4. QED
      BY <3>2, <3>3, LeftAll
  <2>2. QED
    BY <2>1
<1>3. mode # "overrun"
  BY DEF Init
<1>4. QED
  BY <1>1, <1>2, <1>3 DEF Shrinking

LEMMA ShrinkingNext ==
  ASSUME CodeNumbers, Shrinking, [Next]_vars
  PROVE  Shrinking'
<1>1. CASE EncodeLast
  <2>1. val \in Byte
    BY SMT, <1>1, VarIntAssumption DEF EncodeLast, FitsSegment, Byte
  <2>2. bytes' \in Seq(Byte)
    BY SMT, <1>1, <2>1 DEF EncodeLast, Shrinking
  <2>3. QED
    BY SMT, <1>1, <2>2 DEF EncodeLast, Shrinking
<1>2. CASE EncodeMore
  <2>1. mode = "encode" /\ bytes \in Seq(Byte) /\ val \in Nat
    BY SMT, <1>2 DEF EncodeMore, Shrinking
  <2>2. Continue = 128
    BY SMT DEF CodeNumbers, CodeInts
  <2>3. ~(val < 128) /\ val' = val \div 128
    BY SMT, <1>2, <2>1, <2>2 DEF EncodeMore, FitsSegment
  <2>4. MoreByte(val) \in Byte
    BY SMT, <2>1, <2>2 DEF MoreByte, Byte
  <2>5. bytes' \in Seq(Byte) /\ Len(bytes') = Len(bytes) + 1
    BY SMT, <1>2, <2>1, <2>4 DEF EncodeMore
  <2>6. Len(bytes) \in Nat
    BY SMT, <2>1
  <2>7. Left(Len(bytes) + 1, val \div 128)
    BY <1>2, <2>1, <2>3, <2>6, LeftShrinks DEF EncodeMore, Shrinking
  <2>8. mode' = "encode" /\ val \div 128 \in Nat
    BY SMT, <1>2, <2>1 DEF EncodeMore
  <2>9. QED
    BY <2>3, <2>5, <2>7, <2>8 DEF Shrinking
<1>3. CASE EncodeOverrun
  <2>1. Len(bytes) \in Nat /\ ~(Len(bytes) < 5)
    BY SMT, <1>3 DEF EncodeOverrun, HasRoom, CodeNumbers, CodeInts, Shrinking
  <2>2. val \in Nat /\ Left(Len(bytes), val)
    BY <1>3 DEF EncodeOverrun, Shrinking
  <2>3. QED
    BY <2>1, <2>2, LeftBounded
<1>4. CASE Decode \/ DecodeShort \/ Finished \/ UNCHANGED vars
  BY SMT, <1>4 DEF Decode, DecodeShort, Finished, vars, Shrinking
<1>5. QED
  BY <1>1, <1>2, <1>3, <1>4 DEF Next

(* With 32-bit ints and five bytes, no int from 0 up overruns VarInt.bytes:*)
(* entity ids are safe up to half of the 2^32 that server.h hopes for.     *)
THEOREM NoOverrun ==
  ASSUME CodeNumbers
  PROVE  Spec => []EveryEidEncodable
<1>1. Init => Shrinking
  BY ShrinkingInit
<1>2. Shrinking /\ [Next]_vars => Shrinking'
  BY ShrinkingNext
<1>3. Shrinking => EveryEidEncodable
  BY SMT DEF Shrinking, EveryEidEncodable
<1>4. QED
  BY <1>1, <1>2, <1>3, PTL DEF Spec
-----------------------------------------------------------------------------
(* The position of pr_read_varint grows with the bytes it has read.        *)
Weighed(n, w) ==
  \/ n = 0 /\ w = 1
  \/ n = 1 /\ w = 128
  \/ n = 2 /\ w = 16384
  \/ n = 3 /\ w = 2097152
  \/ n = 4 /\ w = 268435456

Positioned ==
  /\ next \in Nat
  /\ mode \in {"encode", "decode"} => Weighed(next, read.weight)
  /\ next <= 5

LEMMA WeighedGrows ==
  ASSUME NEW n \in Nat, NEW w, Weighed(n, w)
  PROVE  /\ n + 1 \in Nat /\ n + 1 <= 5
         /\ w * 128 < 4294967296 => Weighed(n + 1, w * 128)
BY SMT DEF Weighed

LEMMA PositionedNext ==
  ASSUME CodeInts, Positioned, [Next]_vars
  PROVE  Positioned'
<1>1. CASE Decode
  <2>1. next \in Nat /\ Weighed(next, read.weight) /\ next' = next + 1
    BY <1>1 DEF Decode, Positioned
  <2>2. next' \in Nat /\ next' <= 5
    BY <2>1, WeighedGrows
  <2>3. CASE mode' = "decode"
    <3>1. ~(bytes[next + 1] < Continue) /\ InRange(read'.weight)
      BY SMT, <1>1, <2>3 DEF Decode
    <3>2. read'.weight = read.weight * Continue
      BY <1>1, <3>1 DEF Decode, Shifted
    <3>3. Continue = 128 /\ IntRange = 4294967296
      BY DEF CodeInts
    <3>4. Weighed(next', read'.weight)
      BY <2>1, <3>1, <3>2, <3>3, WeighedGrows DEF InRange
    <3>5. QED
      BY <2>2, <3>4 DEF Positioned
  <2>4. CASE mode' # "decode"
    <3>1. mode' # "encode"
      BY SMT, <1>1 DEF Decode
    <3>2. QED
      BY SMT, <2>2, <2>4, <3>1 DEF Positioned
  <2>5. QED
    BY <2>3, <2>4
<1>2. CASE EncodeLast \/ EncodeMore
  BY <1>2 DEF EncodeLast, EncodeMore, Positioned
<1>3. CASE EncodeOverrun \/ DecodeShort
  BY <1>3 DEF EncodeOverrun, DecodeShort, Positioned
<1>4. CASE Finished \/ UNCHANGED vars
  BY <1>4 DEF Finished, vars, Positioned
<1>5. QED
  BY <1>1, <1>2, <1>3, <1>4 DEF Next

(* Whatever bytes a client sends, pr_read_varint takes at most             *)
(* MAX_VARINT_LEN of them before it returns or its ASSERT stops it.        *)
THEOREM ReaderIsBounded ==
  ASSUME CodeInts
  PROVE  Spec => []ReaderBounded
<1>1. Init => Positioned
  BY SMT DEF Init, Start, Positioned, Weighed
<1>2. Positioned /\ [Next]_vars => Positioned'
  BY PositionedNext
<1>3. Positioned => ReaderBounded
  BY DEF Positioned, ReaderBounded, CodeInts
<1>4. QED
  BY <1>1, <1>2, <1>3, PTL DEF Spec
-----------------------------------------------------------------------------
(* The weight of the segment that follows n others.                        *)
Weight(n) ==
  CASE n = 0 -> 1
    [] n = 1 -> 128
    [] n = 2 -> 16384
    [] n = 3 -> 2097152
    [] n = 4 -> 268435456
    [] OTHER -> 34359738368

(* What n segments of v hold, and what they leave to the others.           *)
Low(v, n) == v % Weight(n)
Rest(v, n) == v \div Weight(n)

LEMMA RestNat ==
  ASSUME NEW v \in Nat, NEW n \in 0 .. 4
  PROVE  Rest(v, n) \in Nat
<1>1. n = 0 \/ n = 1 \/ n = 2 \/ n = 3 \/ n = 4
  BY SMT
<1>2. Weight(n) \in {1, 128, 16384, 2097152, 268435456}
  BY SMT, <1>1 DEF Weight
<1>3. QED
  BY SMT, <1>2 DEF Rest

LEMMA RestShrinks ==
  ASSUME NEW v \in Nat, v < 2147483648, NEW n \in 0 .. 4, Rest(v, n) >= 128
  PROVE  /\ n < 4
         /\ Rest(v, n + 1) = Rest(v, n) \div 128
         /\ Rest(v, n + 1) > 0
<1>1. n = 0 \/ n = 1 \/ n = 2 \/ n = 3 \/ n = 4
  BY SMT
<1>2. QED
  BY SMT, <1>1 DEF Rest, Weight

(* The segments below 16384 * 128, and below 2097152 * 128, in two parts.  *)
LEMMA TwoParts ==
  ASSUME NEW v \in Nat, NEW w \in {16384, 2097152}
  PROVE  v % (w * 128) = (v % w) + ((v \div w) % 128) * w
<1> DEFINE q == v \div w
           r == v % w
<1>1. PICK x \in Int : x = q
  BY SMT
<1>2. PICK y \in Int : y = r
  BY SMT
<1>3. v = w * x + y /\ 0 <= y /\ y < w /\ x \in Nat
  BY SMT, <1>1, <1>2
<1>4. PICK a \in Nat, d \in 0 .. 127 : x = 128 * a + d /\ x % 128 = d
  <2>1. (x \div 128) \in Nat /\ (x % 128) \in 0 .. 127
    BY SMT, <1>3
  <2>2. x = 128 * (x \div 128) + (x % 128)
    BY SMT, <1>3
  <2>3. QED
    BY <2>1, <2>2
<1>5. v % (w * 128) = y + d * w
  <2>1. CASE w = 16384
    BY SMT, <1>3, <1>4, <2>1
  <2>2. CASE w = 2097152
    BY SMT, <1>3, <1>4, <2>2
  <2>3. QED
    BY <2>1, <2>2
<1>6. QED
  BY <1>1, <1>2, <1>4, <1>5

LEMMA LowGrows ==
  ASSUME NEW v \in Nat, v < 2147483648, NEW n \in 0 .. 4
  PROVE  /\ Low(v, n) + (((Rest(v, n) % 128) * Weight(n)) % 4294967296) = Low(v, n + 1)
         /\ Rest(v, n) < 128 => Low(v, n + 1) = v
<1>1. n = 0 \/ n = 1 \/ n = 2 \/ n = 3 \/ n = 4
  BY SMT
<1>2. CASE n = 0
  BY SMT, <1>2 DEF Rest, Low, Weight
<1>3. CASE n = 1
  BY SMT, <1>3 DEF Rest, Low, Weight
<1>4. CASE n = 2
  <2>1. v % 2097152 = (v % 16384) + ((v \div 16384) % 128) * 16384
    BY SMT, TwoParts
  <2>2. ((v \div 16384) % 128) * 16384 < 4294967296 /\ ((v \div 16384) % 128) * 16384 \in Nat
    BY SMT
  <2>3. (((v \div 16384) % 128) * 16384) % 4294967296 = ((v \div 16384) % 128) * 16384
    BY SMT, <2>2
  <2>4. (v \div 16384) < 128 => v % 2097152 = v
    BY SMT
  <2>5. Weight(n) = 16384 /\ Weight(n + 1) = 2097152
    BY SMT, <1>4 DEF Weight
  <2>6. QED
    BY <2>1, <2>3, <2>4, <2>5 DEF Rest, Low
<1>5. CASE n = 3
  <2>1. v % 268435456 = (v % 2097152) + ((v \div 2097152) % 128) * 2097152
    BY SMT, TwoParts
  <2>2. ((v \div 2097152) % 128) * 2097152 < 4294967296 /\ ((v \div 2097152) % 128) * 2097152 \in Nat
    BY SMT
  <2>3. (((v \div 2097152) % 128) * 2097152) % 4294967296 = ((v \div 2097152) % 128) * 2097152
    BY SMT, <2>2
  <2>4. (v \div 2097152) < 128 => v % 268435456 = v
    BY SMT
  <2>5. Weight(n) = 2097152 /\ Weight(n + 1) = 268435456
    BY SMT, <1>5 DEF Weight
  <2>6. QED
    BY <2>1, <2>3, <2>4, <2>5 DEF Rest, Low
<1>6. CASE n = 4
  BY SMT, <1>6 DEF Rest, Low, Weight
<1>7. QED
  BY <1>1, <1>2, <1>3, <1>4, <1>5, <1>6
-----------------------------------------------------------------------------
(* Byte i of the encoding of the input, when others follow it.             *)
Continued(i) ==
  /\ bytes[i] = (Rest(input, i - 1) % 128) + 128
  /\ Rest(input, i - 1) >= 128

(* While varint_from_int runs, it has cut one segment off the input for    *)
(* every byte, and what is left is the rest.                               *)
Encoding ==
  /\ bytes \in Seq(Nat) /\ Len(bytes) <= 4
  /\ \A i \in 1 .. Len(bytes) : Continued(i)
  /\ val = Rest(input, Len(bytes))
  /\ next = 0 /\ read = Start /\ built = Start

(* After it, the bytes are the segments of the input, the last one alone   *)
(* without the continuation bit.                                           *)
Encoded ==
  /\ bytes \in Seq(Nat) /\ Len(bytes) \in 1 .. 5
  /\ \A i \in 1 .. Len(bytes) - 1 : Continued(i)
  /\ bytes[Len(bytes)] = Rest(input, Len(bytes) - 1)
  /\ Rest(input, Len(bytes) - 1) < 128

(* A reader that took some of the bytes has the low segments of the input. *)
Reading ==
  /\ next \in 0 .. Len(bytes) - 1
  /\ read = [value |-> Low(input, next), weight |-> Weight(next)]
  /\ built = read

(* The life of an int from 0 up: it is written, read back, and never ends  *)
(* otherwise than well.                                                    *)
Carried ==
  \/ mode = "encode" /\ Encoding
  \/ mode = "decode" /\ Encoded /\ Reading
  \/ /\ mode = "done" /\ Encoded
     /\ next = Len(bytes) /\ read.value = input /\ built.value = input

(* A negative int never gets out of the loop that writes it, other than    *)
(* past VarInt.bytes.                                                      *)
Stuck ==
  \/ mode = "encode" /\ val \in Int /\ val < 0
  \/ mode = "overrun"

Faithful ==
  input # NoInput =>
    /\ input \in Int /\ input < 2147483648
    /\ input >= 0 => Carried
    /\ input < 0 => Stuck

LEMMA FaithfulInit ==
  ASSUME CodeInts, Init
  PROVE  Faithful
<1>1. SUFFICES ASSUME input # NoInput
               PROVE  /\ input \in Int /\ input < 2147483648
                      /\ input >= 0 => Carried
                      /\ input < 0 => Stuck
  BY DEF Faithful
<1>2. mode = "encode" /\ input \in Values /\ val = input /\ bytes = <<>>
  BY <1>1 DEF Init
<1>3. input \in Int /\ input < 2147483648
  BY <1>2 DEF CodeInts
<1>4. ASSUME input >= 0
      PROVE  Carried
  <2>1. bytes \in Seq(Nat) /\ Len(bytes) = 0
    BY SMT, <1>2
  <2>2. Rest(input, 0) = input
    BY SMT, <1>3 DEF Rest, Weight
  <2>3. \A i \in 1 .. Len(bytes) : Continued(i)
    BY SMT, <2>1
  <2>4. Encoding
    BY SMT, <1>2, <2>1, <2>2, <2>3 DEF Encoding, Init
  <2>5. QED
    BY <1>2, <2>4 DEF Carried
<1>5. input < 0 => Stuck
  BY <1>2, <1>3 DEF Stuck
<1>6. QED
  BY <1>3, <1>4, <1>5

LEMMA EncodeMoreCarries ==
  ASSUME CodeInts, input \in Nat, input < 2147483648, Carried, EncodeMore
  PROVE  Carried'
<1>1. mode = "encode" /\ Encoding
  BY DEF EncodeMore, Carried
<1>2. PICK n \in 0 .. 4 : n = Len(bytes)
  <2>1. Len(bytes) \in Nat
    BY <1>1, LenProperties DEF Encoding
  <2>2. Len(bytes) <= 4
    BY <1>1 DEF Encoding
  <2>3. PICK l \in Nat : l = Len(bytes)
    BY <2>1
  <2>4. l \in 0 .. 4
    BY SMT, <2>2, <2>3
  <2>5. QED
    BY <2>3, <2>4
<1>3. bytes \in Seq(Nat) /\ val = Rest(input, n) /\ \A i \in 1 .. n : Continued(i)
  BY <1>1, <1>2 DEF Encoding
<1>4. Rest(input, n) \in Nat
  BY RestNat
<1>5. Rest(input, n) >= 128
  <2>1. ~(val \in 0 .. Continue - 1) /\ Continue = 128
    BY DEF EncodeMore, FitsSegment, CodeInts
  <2>2. val = Rest(input, n)
    BY <1>3
  <2>3. QED
    BY SMT, <2>1, <2>2, <1>4
<1>6. n < 4 /\ Rest(input, n + 1) = Rest(input, n) \div 128
  BY <1>5, RestShrinks
<1>7. /\ bytes' = Append(bytes, (Rest(input, n) % 128) + 128)
      /\ val' = Rest(input, n + 1)
      /\ input' = input /\ mode' = "encode"
      /\ next' = 0 /\ read' = Start /\ built' = Start
  BY <1>1, <1>3, <1>6 DEF EncodeMore, MoreByte, CodeInts, Encoding
<1>8. ((Rest(input, n) % 128) + 128) \in Nat
  BY SMT, <1>4
<1>9. /\ bytes' \in Seq(Nat) /\ Len(bytes') = n + 1
      /\ bytes'[n + 1] = (Rest(input, n) % 128) + 128
      /\ \A i \in 1 .. n : bytes'[i] = bytes[i]
  BY SMT, <1>2, <1>3, <1>7, <1>8
<1>10. ASSUME NEW i \in 1 .. n + 1
       PROVE  Continued(i)'
  <2>1. CASE i \in 1 .. n
    BY <2>1, <1>3, <1>7, <1>9 DEF Continued
  <2>2. CASE i = n + 1
    <3>1. i - 1 = n
      BY SMT, <2>2
    <3>2. QED
      BY <2>2, <3>1, <1>5, <1>7, <1>9 DEF Continued
  <2>3. QED
    BY SMT, <2>1, <2>2, <1>10
<1>11. Encoding'
  BY SMT, <1>6, <1>7, <1>9, <1>10 DEF Encoding, Rest, Start
<1>12. QED
  BY <1>7, <1>11 DEF Carried

LEMMA EncodeLastCarries ==
  ASSUME CodeInts, input \in Nat, input < 2147483648, Carried, EncodeLast
  PROVE  Carried'
<1>1. mode = "encode" /\ Encoding
  BY DEF EncodeLast, Carried
<1>2. PICK n \in 0 .. 4 : n = Len(bytes)
  <2>1. Len(bytes) \in Nat
    BY <1>1, LenProperties DEF Encoding
  <2>2. Len(bytes) <= 4
    BY <1>1 DEF Encoding
  <2>3. PICK l \in Nat : l = Len(bytes)
    BY <2>1
  <2>4. l \in 0 .. 4
    BY SMT, <2>2, <2>3
  <2>5. QED
    BY <2>3, <2>4
<1>3. bytes \in Seq(Nat) /\ val = Rest(input, n) /\ \A i \in 1 .. n : Continued(i)
  BY <1>1, <1>2 DEF Encoding
<1>4. Rest(input, n) \in Nat
  BY RestNat
<1>5. Rest(input, n) < 128
  <2>1. (val \in 0 .. Continue - 1) /\ Continue = 128
    BY DEF EncodeLast, FitsSegment, CodeInts
  <2>2. val = Rest(input, n)
    BY <1>3
  <2>3. QED
    BY SMT, <2>1, <2>2, <1>4
<1>6. /\ bytes' = Append(bytes, Rest(input, n))
      /\ input' = input /\ mode' = "decode"
      /\ next' = 0 /\ read' = Start /\ built' = Start
  BY <1>1, <1>3 DEF EncodeLast, Encoding
<1>7. /\ bytes' \in Seq(Nat) /\ Len(bytes') = n + 1
      /\ bytes'[n + 1] = Rest(input, n)
      /\ \A i \in 1 .. n : bytes'[i] = bytes[i]
  BY SMT, <1>2, <1>3, <1>4, <1>6
<1>8. \A i \in 1 .. n : Continued(i)'
  BY <1>3, <1>6, <1>7 DEF Continued
<1>9. Len(bytes') - 1 = n /\ Len(bytes') \in 1 .. 5
  BY SMT, <1>7
<1>10. Encoded'
  BY <1>5, <1>6, <1>7, <1>8, <1>9 DEF Encoded, Rest
<1>11. Low(input, 0) = 0 /\ Weight(0) = 1
  BY SMT DEF Low, Weight
<1>12. 0 \in 0 .. Len(bytes') - 1
  BY SMT, <1>9
<1>13. Reading'
  BY <1>6, <1>11, <1>12 DEF Reading, Low, Start
<1>14. QED
  BY <1>6, <1>10, <1>13 DEF Carried

LEMMA DecodeCarries ==
  ASSUME CodeInts, input \in Nat, input < 2147483648, Carried, Decode
  PROVE  Carried'
<1>1. mode = "decode" /\ Encoded /\ Reading
  BY DEF Decode, Carried
<1>2. PICK n \in Nat : n = Len(bytes)
  BY <1>1, LenProperties DEF Encoded
<1>3. PICK k \in Nat : k = next
  BY SMT, <1>1, <1>2 DEF Reading
<1>4. n \in 1 .. 5 /\ k \in 0 .. n - 1
  <2>1. Len(bytes) \in 1 .. 5 /\ next \in 0 .. Len(bytes) - 1
    BY <1>1 DEF Encoded, Reading
  <2>2. QED
    BY <2>1, <1>2, <1>3
<1>5. k \in 0 .. 4
  BY SMT, <1>4
<1>6. PICK b : b = bytes[k + 1]
  OBVIOUS
<1>7. Rest(input, k) \in Nat
  BY <1>5, RestNat
<1>8. Continue = 128 /\ IntRange = 4294967296
  BY DEF CodeInts
<1>9. /\ read = [value |-> Low(input, k), weight |-> Weight(k)]
      /\ built = read
  BY <1>1, <1>3 DEF Reading
<1>10. /\ next' = k + 1 /\ bytes' = bytes /\ input' = input
       /\ read' = Shifted(read, b) /\ built' = read'
       /\ mode' = IF b < 128 THEN "done"
                   ELSE IF read'.weight < 4294967296 THEN "decode" ELSE "assertion"
  BY <1>3, <1>6, <1>8, <1>9 DEF Decode, InRange
<1>11. Encoded'
  BY <1>1, <1>10 DEF Encoded, Continued
<1>12. CASE k < n - 1
  <2>1. k + 1 \in 1 .. Len(bytes) - 1 /\ (k + 1) - 1 = k
    BY SMT, <1>2, <1>4, <1>12
  <2>2. b = (Rest(input, k) % 128) + 128 /\ Rest(input, k) >= 128
    BY <1>1, <1>6, <2>1 DEF Encoded, Continued
  <2>3. ~(b < 128) /\ b % 128 = Rest(input, k) % 128
    BY SMT, <1>7, <2>2
  <2>4. Low(input, k) + (((b % 128) * Weight(k)) % IntRange) = Low(input, k + 1)
    BY <1>5, <1>8, <2>3, LowGrows
  <2>5. read' = [value |-> Low(input, k + 1), weight |-> Weight(k) * 128]
    BY <1>8, <1>9, <1>10, <2>3, <2>4 DEF Shifted
  <2>6. k + 1 \in 0 .. n - 1 /\ k < 4
    BY SMT, <1>4, <1>12
  <2>7. Weight(k) * 128 = Weight(k + 1) /\ Weight(k + 1) < 4294967296
    BY SMT, <2>6 DEF Weight
  <2>8. mode' = "decode"
    BY <1>10, <2>3, <2>5, <2>7
  <2>9. Reading'
    BY <1>2, <1>10, <2>5, <2>6, <2>7 DEF Reading
  <2>10. QED
    BY <1>11, <2>8, <2>9 DEF Carried
<1>13. CASE ~(k < n - 1)
  <2>1. k + 1 = Len(bytes) /\ Len(bytes) - 1 = k
    BY SMT, <1>2, <1>4, <1>13
  <2>2. b = Rest(input, k) /\ Rest(input, k) < 128
    <3>1. bytes[Len(bytes)] = Rest(input, Len(bytes) - 1)
      BY <1>1 DEF Encoded
    <3>2. Rest(input, Len(bytes) - 1) < 128
      BY <1>1 DEF Encoded
    <3>3. QED
      BY <1>6, <2>1, <3>1, <3>2
  <2>3. b < 128 /\ b % 128 = Rest(input, k) % 128
    BY <2>2
  <2>4. Low(input, k) + (((b % 128) * Weight(k)) % IntRange) = Low(input, k + 1)
    BY <1>5, <1>8, <2>3, LowGrows
  <2>5. Low(input, k + 1) = input
    BY <1>5, <2>2, LowGrows
  <2>6. read'.value = input
    BY <1>8, <1>9, <1>10, <2>4, <2>5 DEF Shifted
  <2>7. mode' = "done" /\ next' = Len(bytes')
    BY <1>10, <2>1, <2>3
  <2>8. QED
    BY <1>10, <1>11, <2>6, <2>7 DEF Carried
<1>14. QED
  BY <1>12, <1>13

LEMMA CarriedNext ==
  ASSUME CodeInts, input \in Nat, input < 2147483648, Carried, Next
  PROVE  Carried'
<1>1. CASE EncodeLast
  BY <1>1, EncodeLastCarries
<1>2. CASE EncodeMore
  BY <1>2, EncodeMoreCarries
<1>3. CASE EncodeOverrun
  <2>1. mode = "encode" /\ ~(Len(bytes) < MAX_VARINT_LEN)
    BY <1>3 DEF EncodeOverrun, HasRoom
  <2>2. Len(bytes) <= 4 /\ bytes \in Seq(Nat)
    BY <2>1 DEF Carried, Encoding
  <2>3. PICK l \in Nat : l = Len(bytes)
    BY <2>2, LenProperties
  <2>4. MAX_VARINT_LEN = 5
    BY DEF CodeInts
  <2>5. QED
    BY SMT, <2>1, <2>2, <2>3, <2>4
<1>4. CASE Decode
  BY <1>4, DecodeCarries
<1>5. CASE DecodeShort
  <2>1. mode = "decode" /\ next = Len(bytes)
    BY <1>5 DEF DecodeShort
  <2>2. Encoded /\ next \in 0 .. Len(bytes) - 1
    BY <2>1 DEF Carried, Reading
  <2>3. PICK l \in Nat : l = Len(bytes)
    BY <2>2, LenProperties DEF Encoded
  <2>4. l \in 0 .. l - 1
    BY <2>1, <2>2, <2>3
  <2>5. QED
    BY SMT, <2>4
<1>6. CASE Finished
  BY <1>6 DEF Finished, vars, Carried, Encoding, Encoded, Reading, Continued
<1>7. QED
  BY <1>1, <1>2, <1>3, <1>4, <1>5, <1>6 DEF Next

LEMMA StuckNext ==
  ASSUME CodeInts, Stuck, Next
  PROVE  Stuck'
<1>1. Continue = 128
  BY DEF CodeInts
<1>2. CASE EncodeLast
  <2>1. val \in Int /\ val < 0 /\ val \in 0 .. Continue - 1
    BY <1>2 DEF EncodeLast, FitsSegment, Stuck
  <2>2. QED
    BY SMT, <1>1, <2>1
<1>3. CASE EncodeMore
  <2>1. mode = "encode" /\ mode' = mode /\ val' = val \div 128
    BY <1>1, <1>3 DEF EncodeMore
  <2>2. val \in Int /\ val < 0
    BY <2>1 DEF Stuck
  <2>3. (val \div 128) \in Int /\ (val \div 128) < 0
    BY SMT, <2>2
  <2>4. QED
    BY <2>1, <2>3 DEF Stuck
<1>4. CASE EncodeOverrun
  BY <1>4 DEF EncodeOverrun, Stuck
<1>5. CASE Decode \/ DecodeShort
  BY <1>5 DEF Decode, DecodeShort, Stuck
<1>6. CASE Finished
  BY <1>6 DEF Finished, vars, Stuck
<1>7. QED
  BY <1>2, <1>3, <1>4, <1>5, <1>6 DEF Next

LEMMA FaithfulNext ==
  ASSUME CodeInts, Faithful, [Next]_vars
  PROVE  Faithful'
<1>1. input' = input
  BY DEF Next, EncodeLast, EncodeMore, EncodeOverrun, Decode, DecodeShort, Finished, vars
<1>2. CASE UNCHANGED vars
  BY <1>2 DEF vars, Faithful, Carried, Stuck, Encoding, Encoded, Reading, Continued
<1>3. CASE Next /\ input # NoInput
  <2>1. input \in Int /\ input < 2147483648
    BY <1>3 DEF Faithful
  <2>2. ASSUME input >= 0
        PROVE  Carried'
    <3>1. input \in Nat
      BY SMT, <2>1, <2>2
    <3>2. Carried
      BY <1>3, <2>2 DEF Faithful
    <3>3. QED
      BY <1>3, <2>1, <3>1, <3>2, CarriedNext
  <2>3. ASSUME input < 0
        PROVE  Stuck'
    BY <1>3, <2>3, StuckNext DEF Faithful
  <2>4. QED
    BY <1>1, <2>1, <2>2, <2>3 DEF Faithful
<1>4. CASE input = NoInput
  BY <1>1, <1>4 DEF Faithful
<1>5. QED
  BY <1>2, <1>3, <1>4

LEMMA FaithfulAlways ==
  ASSUME CodeInts
  PROVE  Spec => []Faithful
<1>1. Init => Faithful
  BY FaithfulInit
<1>2. Faithful /\ [Next]_vars => Faithful'
  BY FaithfulNext
<1>3. QED
  BY <1>1, <1>2, PTL DEF Spec

(* A reader is done with an int only if the int is not negative.           *)
LEMMA DoneIsCarried ==
  ASSUME Faithful, mode = "done", input # NoInput
  PROVE  /\ input \in Nat /\ input < 2147483648
         /\ Encoded /\ next = Len(bytes)
         /\ read.value = input /\ built.value = input
<1>1. input \in Int /\ input < 2147483648
  BY DEF Faithful
<1>2. ~(input < 0)
  BY DEF Faithful, Stuck
<1>3. input >= 0 /\ input \in Nat
  BY SMT, <1>1, <1>2
<1>4. Carried
  BY <1>3 DEF Faithful
<1>5. QED
  BY <1>1, <1>3, <1>4 DEF Carried

(* What varint_from_int writes of any int from 0 up, pr_read_varint and    *)
(* build_varint read back as the same int, and they take all its bytes.    *)
THEOREM IntsReadBack ==
  ASSUME CodeInts
  PROVE  Spec => []RoundTrip
<1>1. Faithful => RoundTrip
  <2>1. SUFFICES ASSUME Faithful, mode = "done", input # NoInput
                 PROVE  /\ read.value = Pattern(input) /\ built.value = Pattern(input)
                        /\ next = Len(bytes)
    BY DEF RoundTrip
  <2>2. input \in Nat /\ input < 2147483648 /\ next = Len(bytes)
    BY <2>1, DoneIsCarried
  <2>3. read.value = input /\ built.value = input
    BY <2>1, DoneIsCarried
  <2>4. IntRange = 4294967296
    BY DEF CodeInts
  <2>5. Pattern(input) = input
    BY SMT, <2>2, <2>4 DEF Pattern
  <2>6. QED
    BY <2>2, <2>3, <2>5
<1>2. QED
  BY <1>1, FaithfulAlways, PTL

(* Of all ints, only a negative one runs past VarInt.bytes, and none that  *)
(* was written makes a reader's ASSERT fail.                               *)
THEOREM IntsAccepted ==
  ASSUME CodeInts
  PROVE  Spec => []EncodingAccepted
<1>1. Faithful => EncodingAccepted
  <2>1. SUFFICES ASSUME Faithful, input # NoInput, mode \in {"overrun", "assertion"}
                 PROVE  input < 0
    BY DEF EncodingAccepted
  <2>2. input \in Int /\ ~Carried
    BY <2>1 DEF Faithful, Carried
  <2>3. ~(input >= 0)
    BY <2>1, <2>2 DEF Faithful
  <2>4. QED
    BY SMT, <2>2, <2>3
<1>2. QED
  BY <1>1, FaithfulAlways, PTL

(* varint_from_int never writes a byte too many: an encoding of more than  *)
(* one byte does not end in zero.                                          *)
THEOREM IntsShortest ==
  ASSUME CodeInts
  PROVE  Spec => []Shortest
<1>1. Faithful => Shortest
  <2>1. SUFFICES ASSUME Faithful, mode = "done", input # NoInput, Len(bytes) > 1
                 PROVE  bytes[Len(bytes)] # 0
    BY DEF Shortest
  <2>2. input \in Nat /\ input < 2147483648 /\ Encoded
    BY <2>1, DoneIsCarried
  <2>3. PICK n \in Nat : n = Len(bytes)
    <3>1. bytes \in Seq(Nat)
      BY <2>2 DEF Encoded
    <3>2. QED
      BY <3>1, LenProperties
  <2>4. n \in 1 .. 5 /\ n > 1
    <3>1. Len(bytes) \in 1 .. 5
      BY <2>2 DEF Encoded
    <3>2. QED
      BY <2>1, <2>3, <3>1
  <2>5. n - 1 \in 1 .. n - 1 /\ (n - 1) - 1 = n - 2
    BY SMT, <2>4
  <2>6. Rest(input, n - 2) >= 128
    BY <2>2, <2>3, <2>5 DEF Encoded, Continued
  <2>7. n - 2 \in 0 .. 4 /\ (n - 2) + 1 = n - 1
    BY SMT, <2>4
  <2>8. Rest(input, n - 1) > 0
    BY <2>2, <2>6, <2>7, RestShrinks
  <2>9. bytes[n] = Rest(input, n - 1)
    BY <2>2, <2>3 DEF Encoded
  <2>10. Rest(input, n - 1) # 0
    <3>1. n - 1 \in 0 .. 4
      BY SMT, <2>4
    <3>2. Rest(input, n - 1) \in Nat
      BY <2>2, <3>1, RestNat
    <3>3. QED
      BY SMT, <2>8, <3>2
  <2>11. QED
    BY <2>3, <2>9, <2>10
<1>2. QED
  BY <1>1, FaithfulAlways, PTL
=============================================================================
