-------------------------- MODULE PacketStreamProofs --------------------------
(***************************************************************************)
(* connection_read_cb stays within packet_data and delivers the packets of *)
(* a client in order, for reads of every size and packets of every length  *)
(* an int can hold, the empty one included.                                *)
(***************************************************************************)
EXTENDS PacketStream, SequenceTheorems, WellFoundedInduction, TLAPS

States == {"READ_LEN", "ALLOC_BUF", "READ_PAYLOAD", "PROCESS_PACKET"}

Blocks == Seq(Byte \cup {Garbage})

Streams ==
  [state : States, packet_size : Nat, varint_pos : Nat, remaining_bytes : Nat,
   packet_data_write_pos : Nat, packet_data : Blocks]

(* The bytes read are what they are; what matters is that counts are not   *)
(* negative and that the two of them add up to the size of the block.      *)
Inside ==
  /\ ps \in Streams
  /\ buf \in Seq(Byte)
  /\ wire \in Seq(Byte)
  /\ WritesInside

LEMMA PrefixBytes ==
  ASSUME NEW n \in 0 .. MaxSize
  PROVE  Prefix[n] \in Seq(Byte)
BY PacketAssumption

LEMMA PayloadSize ==
  ASSUME NEW p \in Payloads
  PROVE  p \in Seq(Byte) /\ Len(p) \in Nat /\ Len(p) \in 0 .. MaxSize
<1>1. p \in Seq(Byte) /\ Len(p) <= MaxSize /\ MaxSize \in Nat
  BY PacketAssumption
<1>2. Len(p) \in Nat
  BY <1>1, LenProperties
<1>3. QED
  BY SMT, <1>1, <1>2

LEMMA FrameBytes ==
  ASSUME NEW p \in Payloads
  PROVE  Frame(p) \in Seq(Byte)
<1>1. p \in Seq(Byte) /\ Prefix[Len(p)] \in Seq(Byte)
  BY PayloadSize, PrefixBytes
<1>2. QED
  BY SMT, <1>1 DEF Frame

LEMMA ReallocLen ==
  ASSUME NEW data \in Seq(Byte \cup {Garbage}), NEW size \in Nat
  PROVE  /\ Realloc(data, size) \in Seq(Byte \cup {Garbage})
         /\ Len(Realloc(data, size)) = size
BY SMT DEF Realloc

LEMMA CopiedLen ==
  ASSUME NEW data \in Seq(Byte \cup {Garbage}), NEW pos \in Nat,
         NEW from \in Seq(Byte), NEW n \in 0 .. Len(from)
  PROVE  /\ Copied(data, pos, from, n) \in Seq(Byte \cup {Garbage})
         /\ Len(Copied(data, pos, from, n)) = Len(data)
BY SMT DEF Copied

LEMMA Update ==
  ASSUME NEW s \in Streams
  PROVE  /\ \A t \in States : [s EXCEPT !.state = t] \in Streams
         /\ \A n \in Nat : [s EXCEPT !.packet_size = n] \in Streams
         /\ \A n \in Nat : [s EXCEPT !.varint_pos = n] \in Streams
         /\ \A n \in Nat : [s EXCEPT !.remaining_bytes = n] \in Streams
         /\ \A n \in Nat : [s EXCEPT !.packet_data_write_pos = n] \in Streams
         /\ \A b \in Blocks : [s EXCEPT !.packet_data = b] \in Streams
BY SMT DEF Streams

(* The updates of ReadLen and NextPacket, and those of the other two.      *)
LEMMA UpdateLen ==
  ASSUME NEW s \in Streams, NEW size \in Nat, NEW pos \in Nat, NEW t \in States
  PROVE  [s EXCEPT !.packet_size = size, !.varint_pos = pos, !.state = t] \in Streams
<1>1. [s EXCEPT !.packet_size = size] \in Streams
  BY Update
<1>2. [s EXCEPT !.packet_size = size, !.varint_pos = pos] \in Streams
  BY <1>1, Update
<1>3. QED
  BY <1>2, Update

LEMMA UpdateData ==
  ASSUME NEW s \in Streams, NEW data \in Blocks, NEW pos \in Nat, NEW left \in Nat,
         NEW t \in States
  PROVE  /\ [s EXCEPT !.packet_data = data, !.packet_data_write_pos = pos,
                      !.remaining_bytes = left, !.state = t] \in Streams
         /\ [s EXCEPT !.packet_data = data, !.remaining_bytes = left,
                      !.packet_data_write_pos = pos, !.state = t] \in Streams
<1>1. [s EXCEPT !.packet_data = data] \in Streams
  BY Update
<1>2. /\ [s EXCEPT !.packet_data = data, !.packet_data_write_pos = pos] \in Streams
      /\ [s EXCEPT !.packet_data = data, !.remaining_bytes = left] \in Streams
  BY <1>1, Update
<1>3. /\ [s EXCEPT !.packet_data = data, !.packet_data_write_pos = pos,
                   !.remaining_bytes = left] \in Streams
      /\ [s EXCEPT !.packet_data = data, !.remaining_bytes = left,
                   !.packet_data_write_pos = pos] \in Streams
  BY <1>2, Update
<1>4. QED
  BY <1>3, Update

LEMMA Product == ASSUME NEW m \in Nat, NEW n \in Nat PROVE m * n \in Nat
BY SMT

LEMMA InsideInit ==
  ASSUME Init
  PROVE  Inside
<1>1. ps \in Streams /\ ps.state = "READ_LEN"
  BY SMT DEF Init, ZeroedStream, Streams, States, Blocks
<1>2. QED
  BY SMT, <1>1 DEF Init, Inside, WritesInside

LEMMA InsideNext ==
  ASSUME Inside, [Next]_vars
  PROVE  Inside'
<1> USE DEF Inside
<1>1. CASE NewClient
  <2>1. ps' \in Streams /\ ps'.state = "READ_LEN"
    BY SMT, <1>1 DEF NewClient, FreshStream, ZeroedStream, Streams, States, Blocks
  <2>2. buf' \in Seq(Byte) /\ wire' \in Seq(Byte)
    BY SMT, <1>1 DEF NewClient
  <2>3. QED
    BY SMT, <2>1, <2>2 DEF WritesInside
<1>2. CASE Leave \/ Return \/ PacketAborts \/ Retired \/ UNCHANGED vars
  BY <1>2 DEF Leave, Return, PacketAborts, Retired, vars, WritesInside
<1>3. ASSUME NEW p \in Payloads, Send(p)
      PROVE  Inside'
  <2>1. wire' \in Seq(Byte)
    BY SMT, <1>3, FrameBytes DEF Send
  <2>2. QED
    BY <1>3, <2>1 DEF Send, WritesInside
<1>4. ASSUME NEW n \in 1 .. ReadSize, Read(n)
      PROVE  Inside'
  <2>1. n \in Nat
    BY SMT, <1>4, PacketAssumption
  <2>2. buf' \in Seq(Byte) /\ wire' \in Seq(Byte)
    BY SMT, <1>4, <2>1 DEF Read
  <2>3. QED
    BY <1>4, <2>2 DEF Read, WritesInside
<1>5. CASE ReadLen
  <2>1. buf # <<>>
    BY <1>5 DEF ReadLen, Step, Loops
  <2>2. Head(buf) \in Byte /\ buf' \in Seq(Byte)
    BY SMT, <1>5, <2>1 DEF ReadLen
  <2> DEFINE size == ps.packet_size + (Head(buf) % Continue) * ps.varint_pos
               pos == IF Head(buf) >= Continue THEN ps.varint_pos * Continue
                      ELSE ps.varint_pos
               t == IF Head(buf) >= Continue THEN ps.state ELSE "ALLOC_BUF"
  <2>4. ps' = [ps EXCEPT !.packet_size = size, !.varint_pos = pos, !.state = t]
    BY <1>5 DEF ReadLen
  <2>5. Head(buf) % Continue \in Nat /\ Continue \in Nat
    BY SMT, <2>2, PacketAssumption DEF Byte
  <2>6. ps.varint_pos \in Nat /\ ps.packet_size \in Nat
    BY DEF Streams
  <2>7. /\ (Head(buf) % Continue) * ps.varint_pos \in Nat
        /\ ps.varint_pos * Continue \in Nat
    BY <2>5, <2>6, Product
  <2>8. size \in Nat /\ pos \in Nat
    BY SMT, <2>6, <2>7
  <2>9. ps.state = "READ_LEN" /\ t \in {"READ_LEN", "ALLOC_BUF"} /\ t \in States
    BY <1>5 DEF ReadLen, Step, States
  <2> HIDE DEF size, pos, t
  <2>10. ps' \in Streams
    BY <2>4, <2>8, <2>9, UpdateLen
  <2>11. ps'.state = t
    BY SMT, <2>4 DEF Streams
  <2>12. QED
    BY SMT, <1>5, <2>2, <2>9, <2>10, <2>11 DEF ReadLen, WritesInside
<1>6. CASE AllocBuf
  <2>1. /\ Realloc(ps.packet_data, ps.packet_size) \in Blocks
        /\ Len(Realloc(ps.packet_data, ps.packet_size)) = ps.packet_size
    BY ReallocLen DEF Streams, Blocks
  <2>2. ps' \in Streams
    <3>1. /\ ps.packet_size \in Nat /\ 0 \in Nat
          /\ "READ_PAYLOAD" \in States
      BY SMT DEF Streams, States
    <3>2. QED
      BY <1>6, <2>1, <3>1, UpdateData DEF AllocBuf
  <2>3. WritesInside'
    BY SMT, <1>6, <2>1 DEF AllocBuf, Streams, WritesInside
  <2>4. QED
    BY <1>6, <2>2, <2>3 DEF AllocBuf
<1>7. CASE ReadPayload
  <2> DEFINE can_read == CanRead
             data == Copied(ps.packet_data, ps.packet_data_write_pos, buf, can_read)
  <2>1. /\ can_read \in 0 .. Len(buf)
        /\ can_read <= ps.remaining_bytes
    BY SMT DEF CanRead, Streams
  <2>2. data \in Blocks /\ Len(data) = Len(ps.packet_data)
    BY <2>1, CopiedLen DEF Streams, Blocks
  <2>3. buf' \in Seq(Byte)
    BY SMT, <1>7, <2>1 DEF ReadPayload
  <2>4. /\ ps' \in Streams
        /\ WritesInside'
    <3> HIDE DEF can_read, data
    <3>1. ps' = [ps EXCEPT
              !.packet_data = data,
              !.packet_data_write_pos = @ + can_read,
              !.remaining_bytes = @ - can_read,
              !.state = IF ps.remaining_bytes = can_read THEN "PROCESS_PACKET" ELSE @]
      BY <1>7 DEF ReadPayload, can_read, data
    <3>2. ps.state = "READ_PAYLOAD"
      BY <1>7 DEF ReadPayload, Step
    <3>3. can_read \in Nat
      BY SMT, <2>1
    <3>4. ps' \in Streams
      <4>1. /\ ps.packet_data_write_pos + can_read \in Nat
            /\ ps.remaining_bytes - can_read \in Nat
            /\ (IF ps.remaining_bytes = can_read THEN "PROCESS_PACKET" ELSE ps.state)
                 \in States
        BY SMT, <2>1, <3>3 DEF Streams, States
      <4>2. QED
        BY <2>2, <3>1, <4>1, UpdateData
    <3>5. ps'.state \in {"READ_PAYLOAD", "PROCESS_PACKET"}
      BY SMT, <3>1, <3>2 DEF Streams
    <3>6. /\ ps'.packet_size = ps.packet_size
          /\ ps'.packet_data = data
          /\ ps'.packet_data_write_pos = ps.packet_data_write_pos + can_read
          /\ ps'.remaining_bytes = ps.remaining_bytes - can_read
          /\ ps'.state = "PROCESS_PACKET" => ps.remaining_bytes = can_read
      BY SMT, <3>1, <3>2 DEF Streams
    <3>7. /\ ps.packet_data_write_pos + ps.remaining_bytes = ps.packet_size
          /\ Len(ps.packet_data) = ps.packet_size
          /\ ps.packet_data_write_pos \in Nat
          /\ ps.remaining_bytes \in Nat
          /\ ps.packet_size \in Nat
      BY SMT, <3>2 DEF Streams, WritesInside
    <3>8. /\ ps'.packet_data_write_pos \in 0 .. ps'.packet_size
          /\ ps'.packet_data_write_pos + ps'.remaining_bytes = ps'.packet_size
          /\ ps'.state = "PROCESS_PACKET" => ps'.packet_data_write_pos = ps'.packet_size
      BY SMT, <2>1, <3>3, <3>6, <3>7
    <3>9. Len(ps'.packet_data) = ps'.packet_size
      BY <2>2, <3>6, <3>7
    <3>10. QED
      BY <3>4, <3>5, <3>8, <3>9 DEF WritesInside
  <2>5. QED
    BY <1>7, <2>3, <2>4 DEF ReadPayload
<1>8. CASE ProcessPacket
  <2>1. ps' \in Streams /\ ps'.state = "READ_LEN"
    <3>1. 0 \in Nat /\ 1 \in Nat /\ "READ_LEN" \in States
      BY SMT DEF States
    <3>2. ps' \in Streams
      BY <1>8, <3>1, UpdateLen DEF ProcessPacket, NextPacket
    <3>3. ps'.state = "READ_LEN"
      BY SMT, <1>8 DEF ProcessPacket, NextPacket, Streams
    <3>4. QED
      BY <3>2, <3>3
  <2>2. QED
    BY SMT, <1>8, <2>1 DEF ProcessPacket, WritesInside
<1>9. QED
  BY <1>1, <1>2, <1>3, <1>4, <1>5, <1>6, <1>7, <1>8 DEF Next

(* The memcpy of connection_read_cb ends at the end of packet_data, and    *)
(* process_packet is given a block that was written to its last byte, for  *)
(* all packets, reads and clients.                                         *)
THEOREM CopiesStayInside == Spec => []WritesInside
<1>1. Init => Inside
  BY InsideInit
<1>2. Inside /\ [Next]_vars => Inside'
  BY InsideNext
<1>3. Inside => WritesInside
  BY DEF Inside
<1>4. QED
  BY <1>1, <1>2, <1>3, PTL DEF Spec
-----------------------------------------------------------------------------
(* The order of packets.  All bytes a client has sent are one sequence, in *)
(* which off[k] is where the frames of the first k packets end.            *)

Frames(all, off) ==
  /\ off[0] = 0
  /\ off[Len(sent)] = Len(all)
  /\ \A k \in 0 .. Len(sent) : off[k] <= Len(all)
  /\ \A k \in 0 .. Len(sent) - 1 :
       /\ off[k + 1] = off[k] + Len(Frame(sent[k + 1]))
       /\ \A i \in 1 .. Len(Frame(sent[k + 1])) :
            all[off[k] + i] = Frame(sent[k + 1])[i]

(* buf and wire are what is left of them after the first c bytes.          *)
Arriving(all, c) ==
  /\ c + Len(buf) + Len(wire) = Len(all)
  /\ \A i \in 1 .. Len(buf) : buf[i] = all[c + i]
  /\ \A i \in 1 .. Len(wire) : wire[i] = all[c + Len(buf) + i]

Current == sent[Len(delivered) + 1]

PrefixLen == Len(Prefix[Len(Current)])

(* A length m, shifted by varint_pos, is all that is left of the prefix.   *)
LenLeft(f, m) ==
  /\ m \in 0 .. MaxSize
  /\ f + Len(Prefix[m]) = PrefixLen
  /\ ps.packet_size + ps.varint_pos * m = Len(Current)
  /\ \A i \in 1 .. Len(Prefix[m]) : Prefix[Len(Current)][f + i] = Prefix[m][i]

(* f bytes of the current frame have been taken.                           *)
LenParsed(f) ==
  IF f = 0 THEN ps.packet_size = 0 /\ ps.varint_pos = 1
  ELSE \E m \in Nat : LenLeft(f, m)

Parsed(f) ==
  /\ ps.state # "READ_LEN" \/ f # 0 => Len(delivered) < Len(sent)
  /\ ps.state = "READ_LEN" => LenParsed(f)
  /\ ps.state # "READ_LEN" => ps.packet_size = Len(Current)
  /\ ps.state = "ALLOC_BUF" => f = PrefixLen
  /\ ps.state \in {"READ_PAYLOAD", "PROCESS_PACKET"} =>
       /\ f = PrefixLen + ps.packet_data_write_pos
       /\ \A i \in 1 .. ps.packet_data_write_pos : ps.packet_data[i] = Current[i]

Delivered ==
  /\ sent \in Seq(Payloads)
  /\ delivered \in Seq(Blocks)
  /\ Len(delivered) <= Len(sent)
  /\ \A k \in 1 .. Len(delivered) : delivered[k] = sent[k]

Base ==
  /\ Inside
  /\ Delivered
  /\ mode = "idle" => buf = <<>>

Reached(all, off, f) ==
  /\ Frames(all, off)
  /\ Arriving(all, off[Len(delivered)] + f)
  /\ Parsed(f)

Ordered ==
  /\ Base
  /\ \E all \in Seq(Byte), off \in [0 .. Len(sent) -> Nat], f \in Nat : Reached(all, off, f)

-----------------------------------------------------------------------------

LEMMA DivMod ==
  ASSUME NEW n \in Nat, NEW c \in Nat, c > 1, ~(n < c)
  PROVE  /\ n \div c \in 0 .. n
         /\ n % c \in Nat /\ n % c < c
         /\ (n % c) + c * (n \div c) = n
<1>1. /\ n % c \in Nat /\ n % c < c
      /\ (n % c) + c * (n \div c) = n
  BY SMT
<1>2. n \div c \in Nat
  BY SMT
<1>3. n \div c <= c * (n \div c)
  BY SMT, <1>2
<1>4. QED
  BY SMT, <1>1, <1>2, <1>3

LEMMA ModAgain ==
  ASSUME NEW m \in Nat, NEW c \in Nat, m < c
  PROVE  m % c = m /\ (m + c) % c = m
BY SMT

(* The last segment of a length, and one that others follow.               *)
LEMMA PrefixShort ==
  ASSUME NEW m \in 0 .. MaxSize, m < Continue
  PROVE  Len(Prefix[m]) = 1 /\ Prefix[m][1] = m /\ m % Continue = m
<1>1. Prefix[m] = <<m>> /\ Continue \in Nat /\ MaxSize \in Nat
  BY PacketAssumption
<1>2. m \in Nat
  BY SMT, <1>1
<1>3. m % Continue = m
  BY <1>1, <1>2, ModAgain
<1>4. QED
  BY SMT, <1>1, <1>3

LEMMA PrefixLong ==
  ASSUME NEW m \in 0 .. MaxSize, ~(m < Continue)
  PROVE  /\ m \div Continue \in 0 .. MaxSize
         /\ m = (m % Continue) + Continue * (m \div Continue)
         /\ Len(Prefix[m]) = 1 + Len(Prefix[m \div Continue])
         /\ Prefix[m][1] >= Continue
         /\ Prefix[m][1] % Continue = m % Continue
         /\ \A i \in 1 .. Len(Prefix[m \div Continue]) :
              Prefix[m][1 + i] = Prefix[m \div Continue][i]
<1>1. /\ Continue \in Nat /\ Continue > 1 /\ MaxSize \in Nat
      /\ Prefix[m] = <<(m % Continue) + Continue>> \o Prefix[m \div Continue]
  BY PacketAssumption
<1>2. m \in Nat
  BY SMT, <1>1
<1>3. /\ m \div Continue \in 0 .. m
      /\ m % Continue \in Nat /\ m % Continue < Continue
      /\ (m % Continue) + Continue * (m \div Continue) = m
  BY <1>1, <1>2, DivMod
<1>4. PICK k \in 0 .. MaxSize : k = m \div Continue
  BY SMT, <1>1, <1>3
<1>5. Prefix[k] \in Seq(Byte)
  BY PrefixBytes
<1>6. PICK b \in Nat : b = (m % Continue) + Continue
  BY SMT, <1>1, <1>3
<1>7. Prefix[m] = <<b>> \o Prefix[k]
  BY <1>1, <1>4, <1>6
<1>8. /\ Len(Prefix[m]) = 1 + Len(Prefix[k])
      /\ Prefix[m][1] = b
      /\ \A i \in 1 .. Len(Prefix[k]) : Prefix[m][1 + i] = Prefix[k][i]
  BY SMT, <1>5, <1>7
<1>9. b >= Continue
  BY SMT, <1>1, <1>3, <1>6
<1>10. b % Continue = m % Continue
  BY <1>1, <1>3, <1>6, ModAgain
<1>11. QED
  BY <1>3, <1>4, <1>8, <1>9, <1>10

LEMMA PrefixSome ==
  ASSUME NEW m \in 0 .. MaxSize
  PROVE  Len(Prefix[m]) \in Nat /\ Len(Prefix[m]) >= 1
<1>1. CASE m < Continue
  BY SMT, <1>1, PrefixShort
<1>2. CASE ~(m < Continue)
  <2>1. Len(Prefix[m]) = 1 + Len(Prefix[m \div Continue])
    BY <1>2, PrefixLong
  <2>2. Len(Prefix[m \div Continue]) \in Nat
    BY <1>2, PrefixLong, PrefixBytes, LenProperties
  <2>3. QED
    BY SMT, <2>1, <2>2
<1>3. QED
  BY <1>1, <1>2

(* A segment of weight pos taken from what is left of the length.          *)
LEMMA SegmentTaken ==
  ASSUME NEW size \in Nat, NEW pos \in Nat, NEW c \in Nat,
         NEW low \in Nat, NEW high \in Nat
  PROVE  (size + low * pos) + (pos * c) * high = size + pos * (low + c * high)
BY SMT

LEMMA FrameParts ==
  ASSUME NEW p \in Payloads
  PROVE  /\ p \in Seq(Byte) /\ Len(p) \in 0 .. MaxSize /\ Len(p) \in Nat
         /\ Len(Prefix[Len(p)]) \in Nat /\ Len(Prefix[Len(p)]) >= 1
         /\ Len(Frame(p)) = Len(Prefix[Len(p)]) + Len(p)
         /\ \A i \in 1 .. Len(Prefix[Len(p)]) : Frame(p)[i] = Prefix[Len(p)][i]
         /\ \A i \in 1 .. Len(p) : Frame(p)[Len(Prefix[Len(p)]) + i] = p[i]
<1>1. p \in Seq(Byte) /\ Len(p) \in 0 .. MaxSize /\ Len(p) \in Nat
  BY PayloadSize
<1>2. /\ Prefix[Len(p)] \in Seq(Byte)
      /\ Len(Prefix[Len(p)]) \in Nat /\ Len(Prefix[Len(p)]) >= 1
  BY <1>1, PrefixBytes, PrefixSome
<1> DEFINE q == Prefix[Len(p)]
<1> HIDE DEF q
<1>4. q \in Seq(Byte) /\ Frame(p) = q \o p
  BY <1>2 DEF q, Frame
<1>5. /\ Len(Frame(p)) = Len(q) + Len(p)
      /\ \A i \in 1 .. Len(q) : Frame(p)[i] = q[i]
      /\ \A i \in 1 .. Len(p) : Frame(p)[Len(q) + i] = p[i]
  BY SMT, <1>1, <1>4
<1>6. QED
  BY <1>1, <1>2, <1>5 DEF q

LEMMA CurrentFrame ==
  ASSUME Base, NEW all \in Seq(Byte), NEW off \in [0 .. Len(sent) -> Nat], NEW f \in Nat,
         Reached(all, off, f)
  PROVE  /\ Len(delivered) \in Nat /\ Len(sent) \in Nat /\ Len(delivered) <= Len(sent)
         /\ off[Len(delivered)] \in Nat
         /\ buf # <<>> => Len(delivered) < Len(sent)
         /\ Len(delivered) < Len(sent) =>
              /\ Current \in Payloads
              /\ off[Len(delivered) + 1] = off[Len(delivered)] + Len(Frame(Current))
              /\ \A i \in 1 .. Len(Frame(Current)) :
                   all[off[Len(delivered)] + i] = Frame(Current)[i]
<1>1. Len(delivered) \in Nat /\ Len(sent) \in Nat /\ Len(delivered) <= Len(sent)
  BY SMT DEF Base, Delivered
<1>2. off[Len(delivered)] \in Nat
  BY SMT, <1>1
<1>3. buf # <<>> => Len(delivered) < Len(sent)
  <2>1. SUFFICES ASSUME buf # <<>>, Len(delivered) = Len(sent)
                 PROVE  FALSE
    BY SMT, <1>1
  <2>2. f = 0
    BY SMT, <1>1, <2>1 DEF Reached, Parsed
  <2>3. off[Len(delivered)] + f + Len(buf) + Len(wire) = Len(all)
    BY DEF Reached, Arriving
  <2>4. off[Len(delivered)] = Len(all)
    BY <2>1 DEF Reached, Frames
  <2>5. Len(buf) \in Nat /\ Len(wire) \in Nat /\ Len(buf) > 0 /\ Len(all) \in Nat
    BY SMT, <2>1 DEF Base, Inside
  <2>6. QED
    BY SMT, <2>2, <2>3, <2>4, <2>5
<1>4. ASSUME Len(delivered) < Len(sent)
      PROVE  /\ Current \in Payloads
             /\ off[Len(delivered) + 1] = off[Len(delivered)] + Len(Frame(Current))
             /\ \A i \in 1 .. Len(Frame(Current)) :
                  all[off[Len(delivered)] + i] = Frame(Current)[i]
  <2>1. Len(delivered) \in 0 .. Len(sent) - 1
    BY SMT, <1>1, <1>4
  <2>2. Current \in Payloads
    BY SMT, <2>1 DEF Current, Base, Delivered
  <2>3. QED
    BY <2>1, <2>2 DEF Reached, Frames, Current
<1>5. QED
  BY <1>1, <1>2, <1>3, <1>4

LEMMA ReadLenReaches ==
  ASSUME Base, NEW all \in Seq(Byte), NEW off \in [0 .. Len(sent) -> Nat], NEW f \in Nat,
         Reached(all, off, f), ReadLen
  PROVE  Reached(all, off, f + 1)'
<1> DEFINE d == Len(delivered)
           n == Len(Current)
           c == off[d] + f
           byte == Head(buf)
<1>1. buf # <<>> /\ ps.state = "READ_LEN" /\ UNCHANGED <<mode, wire, sent, delivered>> /\ buf' = Tail(buf)
  BY SMT DEF ReadLen, Step, Loops
<1>2. /\ d < Len(sent) /\ Current \in Payloads /\ off[d] \in Nat
      /\ \A i \in 1 .. Len(Frame(Current)) : all[off[d] + i] = Frame(Current)[i]
  BY <1>1, CurrentFrame
<1>3. buf \in Seq(Byte) /\ wire \in Seq(Byte)
  BY DEF Base, Inside
<1>4. /\ byte = all[c + 1]
      /\ Arriving(all, c + 1)'
  <2>1. c \in Nat
    BY <1>2, SMT
  <2>2. /\ c + Len(buf) + Len(wire) = Len(all)
        /\ \A i \in 1 .. Len(buf) : buf[i] = all[c + i]
        /\ \A i \in 1 .. Len(wire) : wire[i] = all[c + Len(buf) + i]
    BY DEF Reached, Arriving
  <2>3. Len(buf) \in Nat /\ Len(buf) > 0 /\ Len(wire) \in Nat /\ byte = buf[1]
    BY SMT, <1>1, <1>3
  <2>4. Len(buf') = Len(buf) - 1 /\ \A i \in 1 .. Len(buf) - 1 : buf'[i] = buf[i + 1]
    BY SMT, <1>1, <1>3
  <2> HIDE DEF c
  <2>5. c + 1 + Len(buf') + Len(wire) = Len(all)
    <3>1. Len(all) \in Nat
      BY SMT
    <3>2. /\ c + Len(buf) + Len(wire) = Len(all)
          /\ Len(buf') = Len(buf) - 1
      BY <2>2, <2>4
    <3>3. QED
      BY SMT, <2>1, <2>3, <3>1, <3>2
  <2>6. \A i \in 1 .. Len(buf') : buf'[i] = all[c + 1 + i]
    <3>1. SUFFICES ASSUME NEW i \in 1 .. Len(buf')
                   PROVE  buf'[i] = all[c + 1 + i]
      OBVIOUS
    <3>2. i + 1 \in 1 .. Len(buf) /\ buf'[i] = buf[i + 1] /\ c + (i + 1) = c + 1 + i
      BY SMT, <2>1, <2>3, <2>4
    <3>3. QED
      BY <2>2, <3>2
  <2>7. \A i \in 1 .. Len(wire) : wire[i] = all[c + 1 + Len(buf') + i]
    <3>1. SUFFICES ASSUME NEW i \in 1 .. Len(wire)
                   PROVE  wire[i] = all[c + 1 + Len(buf') + i]
      OBVIOUS
    <3>2. c + 1 + Len(buf') + i = c + Len(buf) + i
      BY SMT, <2>1, <2>3, <2>4
    <3>3. QED
      BY <2>2, <3>2
  <2>8. byte = all[c + 1]
    BY SMT, <2>2, <2>3
  <2>9. QED
    BY <1>1, <2>5, <2>6, <2>7, <2>8 DEF Arriving, c
<1>5. /\ n \in 0 .. MaxSize /\ n \in Nat /\ PrefixLen \in Nat
      /\ Len(Frame(Current)) = PrefixLen + n
      /\ \A i \in 1 .. PrefixLen : Frame(Current)[i] = Prefix[n][i]
  BY <1>2, FrameParts DEF PrefixLen
<1>6. ASSUME NEW i \in 1 .. PrefixLen
      PROVE  all[off[d] + i] = Prefix[n][i]
  <2>1. i \in 1 .. Len(Frame(Current))
    BY SMT, <1>5
  <2>2. QED
    BY <1>2, <1>5, <2>1
<1>7. PICK size \in Nat, pos \in Nat : size = ps.packet_size /\ pos = ps.varint_pos
  BY DEF Base, Inside, Streams
<1>8. PICK m \in 0 .. MaxSize :
        /\ f + Len(Prefix[m]) = PrefixLen
        /\ size + pos * m = n
        /\ \A i \in 1 .. Len(Prefix[m]) : Prefix[n][f + i] = Prefix[m][i]
  <2>1. LenParsed(f)
    BY <1>1 DEF Reached, Parsed
  <2>2. CASE f = 0
    <3>1. size = 0 /\ pos = 1
      BY <1>7, <2>1, <2>2 DEF LenParsed
    <3>2. size + pos * n = n /\ f + PrefixLen = PrefixLen
      BY SMT, <1>5, <2>2, <3>1
    <3>3. \A i \in 1 .. PrefixLen : f + i = i
      BY SMT, <1>5, <2>2
    <3>4. QED
      BY <1>5, <3>2, <3>3 DEF PrefixLen
  <2>3. CASE f # 0
    <3>1. PICK m \in Nat : LenLeft(f, m)
      BY <2>1, <2>3 DEF LenParsed
    <3>2. QED
      BY <1>7, <3>1 DEF LenLeft
  <2>4. QED
    BY <2>2, <2>3
<1>9. /\ ps'.packet_size = size + (byte % Continue) * pos
      /\ ps'.varint_pos = IF byte >= Continue THEN pos * Continue ELSE pos
      /\ ps'.state = IF byte >= Continue THEN "READ_LEN" ELSE "ALLOC_BUF"
  BY SMT, <1>1, <1>7 DEF ReadLen, Base, Inside, Streams
<1>10. byte = Prefix[m][1]
  <2>1. PICK l \in Nat : l = Len(Prefix[m]) /\ l >= 1
    BY PrefixSome
  <2>2. PICK t \in Nat : t = PrefixLen /\ f + l = t
    BY <1>5, <1>8, <2>1
  <2>3. f + 1 \in 1 .. t /\ 1 \in 1 .. l /\ c + 1 = off[d] + (f + 1)
    BY SMT, <1>2, <2>1, <2>2
  <2>4. all[off[d] + (f + 1)] = Prefix[n][f + 1]
    BY <1>6, <2>2, <2>3
  <2>5. Prefix[n][f + 1] = Prefix[m][1]
    BY <1>8, <2>1, <2>3
  <2>6. QED
    BY <1>4, <2>3, <2>4, <2>5
<1>11. UNCHANGED Current /\ PrefixLen' = PrefixLen
  BY <1>1 DEF Current, PrefixLen
<1>con. Continue \in Nat /\ Continue > 1 /\ MaxSize \in Nat /\ m \in Nat
  BY SMT, PacketAssumption
<1>12. Parsed(f + 1)'
  <2>1. CASE m < Continue
    <3>1. Len(Prefix[m]) = 1 /\ byte = m /\ byte % Continue = m
      BY <1>10, <2>1, PrefixShort
    <3>2. ps'.state = "ALLOC_BUF" /\ ps'.packet_size = size + m * pos
      <4>1. ~(byte >= Continue)
        BY SMT, <1>con, <2>1, <3>1
      <4>2. QED
        BY <1>9, <3>1, <4>1
    <3>3. size + m * pos = size + pos * m
      BY SMT, <1>con
    <3>4. ps'.packet_size = n /\ f + 1 = PrefixLen
      BY <1>8, <3>1, <3>2, <3>3
    <3>5. QED
      BY <1>1, <1>2, <1>11, <3>2, <3>4 DEF Parsed
  <2>2. CASE ~(m < Continue)
    <3>1. PICK k \in 0 .. MaxSize :
            /\ k = m \div Continue
            /\ m = (m % Continue) + Continue * k
            /\ Len(Prefix[m]) = 1 + Len(Prefix[k])
            /\ \A i \in 1 .. Len(Prefix[k]) : Prefix[m][1 + i] = Prefix[k][i]
      BY <2>2, PrefixLong
    <3>2. PICK low \in Nat : low = m % Continue
      BY SMT, <1>con
    <3>3. byte >= Continue /\ byte % Continue = low
      BY <1>10, <2>2, <3>2, PrefixLong
    <3>4. /\ ps'.state = "READ_LEN" /\ ps'.varint_pos = pos * Continue
          /\ ps'.packet_size = size + low * pos
      BY <1>9, <3>3
    <3>5. k \in Nat /\ Len(Prefix[k]) \in Nat /\ Len(Prefix[k]) >= 1
      BY SMT, <1>con, PrefixSome
    <3>6. ps'.packet_size + ps'.varint_pos * k = n
      <4>1. (size + low * pos) + (pos * Continue) * k = size + pos * (low + Continue * k)
        BY <1>con, <3>5, SegmentTaken
      <4>2. low + Continue * k = m
        BY <3>1, <3>2
      <4>3. QED
        BY <1>8, <3>4, <4>1, <4>2
    <3>7. (f + 1) + Len(Prefix[k]) = PrefixLen
      <4>1. PICK l \in Nat : l = Len(Prefix[k])
        BY <3>5
      <4>2. f + (1 + l) = PrefixLen
        BY <1>8, <3>1, <4>1
      <4>3. (f + 1) + l = f + (1 + l)
        BY SMT
      <4>4. QED
        BY <4>1, <4>2, <4>3
    <3>8. ASSUME NEW i \in 1 .. Len(Prefix[k])
          PROVE  Prefix[n][(f + 1) + i] = Prefix[k][i]
      <4>1. PICK l \in Nat : l = Len(Prefix[k]) /\ i \in 1 .. l
        BY <3>5
      <4>2. 1 + i \in 1 .. 1 + l /\ (f + 1) + i = f + (1 + i)
        BY SMT, <4>1
      <4>3. 1 + i \in 1 .. Len(Prefix[m])
        BY <3>1, <4>1, <4>2
      <4>4. Prefix[n][f + (1 + i)] = Prefix[m][1 + i]
        BY <1>8, <4>3
      <4>5. QED
        BY <3>1, <4>2, <4>4
    <3>9. LenLeft(f + 1, k)'
      BY <1>11, <3>6, <3>7, <3>8 DEF LenLeft
    <3>10. f + 1 # 0
      BY SMT
    <3>11. LenParsed(f + 1)'
      BY <3>5, <3>9, <3>10 DEF LenParsed
    <3>12. QED
      BY <1>1, <1>2, <3>4, <3>11 DEF Parsed
  <2>3. QED
    BY <2>1, <2>2
<1>13. Frames(all, off)'
  BY <1>1 DEF Reached, Frames
<1>14. (off[d] + (f + 1)) = c + 1
  BY SMT, <1>2
<1>15. QED
  BY <1>1, <1>4, <1>12, <1>13, <1>14 DEF Reached

LEMMA AllocBufReaches ==
  ASSUME Base, NEW all \in Seq(Byte), NEW off \in [0 .. Len(sent) -> Nat], NEW f \in Nat,
         Reached(all, off, f), AllocBuf
  PROVE  Reached(all, off, f)'
<1>1. ps.state = "ALLOC_BUF" /\ UNCHANGED <<mode, buf, wire, sent, delivered>>
  BY SMT DEF AllocBuf, Step
<1>2. /\ Len(delivered) < Len(sent) /\ ps.packet_size = Len(Current)
      /\ f = PrefixLen
  BY SMT, <1>1 DEF Reached, Parsed
<1>3. /\ ps'.packet_size = ps.packet_size /\ ps'.packet_data_write_pos = 0
      /\ ps'.state = "READ_PAYLOAD"
  BY SMT DEF AllocBuf, Base, Inside, Streams
<1>4. UNCHANGED Current
  BY <1>1 DEF Current
<1>5. PrefixLen' = PrefixLen /\ PrefixLen \in Nat
  BY <1>2, <1>4 DEF PrefixLen
<1>6. f = PrefixLen' + ps'.packet_data_write_pos /\ \A i \in 1 .. ps'.packet_data_write_pos : FALSE
  BY SMT, <1>2, <1>3, <1>5
<1>7. Parsed(f)'
  BY <1>1, <1>2, <1>3, <1>4, <1>6 DEF Parsed
<1>8. QED
  BY <1>1, <1>7 DEF Reached, Frames, Arriving

LEMMA ReadPayloadReaches ==
  ASSUME Base, NEW all \in Seq(Byte), NEW off \in [0 .. Len(sent) -> Nat], NEW f \in Nat,
         Reached(all, off, f), ReadPayload
  PROVE  \E g \in Nat : Reached(all, off, g)'
<1> DEFINE d == Len(delivered)
           n == Len(Current)
           pos == ps.packet_data_write_pos
<1>1. ps.state = "READ_PAYLOAD" /\ UNCHANGED <<mode, wire, sent, delivered>>
  BY SMT DEF ReadPayload, Step
<1>2. /\ d < Len(sent) /\ ps.packet_size = n /\ f = PrefixLen + pos
      /\ \A i \in 1 .. pos : ps.packet_data[i] = Current[i]
  BY SMT, <1>1 DEF Reached, Parsed
<1>3. /\ Current \in Payloads /\ off[d] \in Nat
      /\ \A i \in 1 .. Len(Frame(Current)) : all[off[d] + i] = Frame(Current)[i]
  BY <1>2, CurrentFrame
<1>4. /\ n \in Nat /\ PrefixLen \in Nat
      /\ Len(Frame(Current)) = PrefixLen + n
      /\ \A i \in 1 .. n : Frame(Current)[PrefixLen + i] = Current[i]
  BY <1>3, FrameParts DEF PrefixLen
<1>5. buf \in Seq(Byte) /\ wire \in Seq(Byte) /\ Len(buf) \in Nat /\ Len(wire) \in Nat
  BY SMT DEF Base, Inside
<1>6. /\ pos \in Nat /\ ps.remaining_bytes \in Nat
      /\ pos + ps.remaining_bytes = n
      /\ ps.packet_data \in Blocks /\ Len(ps.packet_data) = n
  BY SMT, <1>1, <1>2 DEF Base, Inside, Streams, WritesInside
<1>7. PICK m \in Nat : m = CanRead /\ m \in 0 .. Len(buf) /\ m <= ps.remaining_bytes
  BY SMT, <1>5, <1>6 DEF CanRead
<1>c. PICK c \in Nat : c = off[d] + f
  BY SMT, <1>3
<1>8. /\ ps'.packet_size = n
      /\ ps'.packet_data_write_pos = pos + m
      /\ ps'.packet_data = Copied(ps.packet_data, pos, buf, m)
      /\ ps'.state \in {"READ_PAYLOAD", "PROCESS_PACKET"}
      /\ buf' = SubSeq(buf, m + 1, Len(buf))
  BY SMT, <1>1, <1>2, <1>7 DEF ReadPayload, Base, Inside, Streams
<1>9. /\ c + Len(buf) + Len(wire) = Len(all)
      /\ \A i \in 1 .. Len(buf) : buf[i] = all[c + i]
      /\ \A i \in 1 .. Len(wire) : wire[i] = all[c + Len(buf) + i]
  BY <1>c DEF Reached, Arriving
<1>10. \A i \in 1 .. pos + m : ps'.packet_data[i] = Current[i]
  <2>1. SUFFICES ASSUME NEW i \in 1 .. pos + m
                 PROVE  ps'.packet_data[i] = Current[i]
    OBVIOUS
  <2>2. i \in 1 .. Len(ps.packet_data) /\ i \in 1 .. n /\ i \in Nat
    BY SMT, <1>6, <1>7
  <2>3. ps'.packet_data[i] = IF i \in pos + 1 .. pos + m THEN buf[i - pos] ELSE ps.packet_data[i]
    BY <1>8, <2>2 DEF Copied
  <2>4. CASE i \in pos + 1 .. pos + m
    <3>1. i - pos \in 1 .. Len(buf)
      <4>1. PICK p \in Nat, h \in Nat : p = pos /\ h = Len(buf)
        BY <1>5, <1>6
      <4>2. m \in 0 .. h /\ i \in p + 1 .. p + m
        BY <1>7, <2>4, <4>1
      <4>3. i - p \in 1 .. h
        BY SMT, <4>2
      <4>4. QED
        BY <4>1, <4>3
    <3>index. c + (i - pos) = off[d] + (PrefixLen + i)
      <4>1. off[d] \in Nat /\ PrefixLen \in Nat /\ pos \in Nat /\ i \in Nat
        BY SMT, <1>3, <1>4, <1>6, <2>2
      <4>2. c = off[d] + (PrefixLen + pos)
        BY SMT, <1>2, <1>c, <4>1
      <4> HIDE DEF pos, d
      <4>3. QED
        BY SMT, <4>1, <4>2
    <3>2. PrefixLen + i \in 1 .. Len(Frame(Current))
      BY SMT, <1>4, <2>2
    <3>3. ps'.packet_data[i] = buf[i - pos]
      BY <2>3, <2>4
    <3>4. buf[i - pos] = all[c + (i - pos)]
      BY <1>9, <3>1
    <3>5. all[off[d] + (PrefixLen + i)] = Frame(Current)[PrefixLen + i]
      BY <1>3, <3>2
    <3>6. Frame(Current)[PrefixLen + i] = Current[i]
      BY <1>4, <2>2
    <3>7. QED
      BY <3>index, <3>3, <3>4, <3>5, <3>6
  <2>5. CASE ~(i \in pos + 1 .. pos + m)
    <3>1. i \in 1 .. pos
      BY SMT, <1>6, <1>7, <2>2, <2>5
    <3>2. QED
      BY <1>2, <2>3, <2>5, <3>1
  <2>6. QED
    BY <2>4, <2>5
<1>11. UNCHANGED Current
  BY <1>1 DEF Current
<1>12. PrefixLen' = PrefixLen
  BY <1>11 DEF PrefixLen
<1>13. f + m = PrefixLen + (pos + m)
  BY SMT, <1>2, <1>4, <1>6, <1>7
<1>14. Parsed(f + m)'
  <2>1. ps'.state # "READ_LEN" /\ ps'.state # "ALLOC_BUF"
    BY SMT, <1>8
  <2>2. f + m = PrefixLen' + ps'.packet_data_write_pos
    BY <1>8, <1>12, <1>13
  <2>3. \A i \in 1 .. ps'.packet_data_write_pos : ps'.packet_data[i] = Current'[i]
    BY <1>8, <1>10, <1>11
  <2>4. Len(delivered') < Len(sent') /\ ps'.packet_size = Len(Current')
    BY <1>1, <1>2, <1>8, <1>11
  <2>5. QED
    BY <2>1, <2>2, <2>3, <2>4 DEF Parsed
<1>15. Arriving(all, c + m)'
  <2>1. /\ Len(buf') = Len(buf) - m
        /\ \A i \in 1 .. Len(buf) - m : buf'[i] = buf[m + i]
    BY SMT, <1>5, <1>7, <1>8
  <2>sum. /\ c \in Nat /\ m \in Nat /\ Len(all) \in Nat
        /\ c + Len(buf) + Len(wire) = Len(all)
    BY <1>9, SMT
  <2>left. Len(buf') = Len(buf) - m
    BY <2>1
  <2>next. c + m + Len(buf') = c + Len(buf)
    BY SMT, <1>5, <2>sum, <2>left
  <2>2. c + m + Len(buf') + Len(wire) = Len(all)
    BY <2>sum, <2>next
  <2>3. \A i \in 1 .. Len(buf') : buf'[i] = all[c + m + i]
    <3>1. SUFFICES ASSUME NEW i \in 1 .. Len(buf')
                   PROVE  buf'[i] = all[c + m + i]
      OBVIOUS
    <3>2. m + i \in 1 .. Len(buf) /\ c + (m + i) = c + m + i /\ i \in 1 .. Len(buf) - m
      BY SMT, <1>5, <2>sum, <2>left
    <3>3. QED
      BY <1>9, <2>1, <3>2
  <2>4. QED
    BY <1>1, <1>9, <2>2, <2>3, <2>next DEF Arriving
<1>16. off[d] + (f + m) = c + m
  BY SMT, <1>3, <1>c
<1>17. Frames(all, off)'
  BY <1>1 DEF Reached, Frames
<1>18. Reached(all, off, f + m)'
  BY <1>1, <1>14, <1>15, <1>16, <1>17 DEF Reached
<1>19. QED
  <2>1. f + m \in Nat
    BY SMT
  <2>2. QED
    BY <1>18, <2>1

LEMMA ProcessPacketReaches ==
  ASSUME Base, NEW all \in Seq(Byte), NEW off \in [0 .. Len(sent) -> Nat], NEW f \in Nat,
         Reached(all, off, f), ProcessPacket
  PROVE  Delivered' /\ Reached(all, off, 0)'
<1> DEFINE d == Len(delivered)
           data == Packet
<1>1. /\ ps.state = "PROCESS_PACKET" /\ UNCHANGED <<mode, buf, wire, sent>>
      /\ delivered' = Append(delivered, data)
      /\ ps' = NextPacket
  BY DEF ProcessPacket, Step
<1>2. /\ d < Len(sent) /\ ps.packet_size = Len(Current)
      /\ f = PrefixLen + ps.packet_data_write_pos
      /\ \A i \in 1 .. ps.packet_data_write_pos : ps.packet_data[i] = Current[i]
  BY SMT, <1>1 DEF Reached, Parsed
<1>3. /\ Current \in Payloads /\ off[d] \in Nat /\ d \in Nat /\ Len(sent) \in Nat
      /\ off[d + 1] = off[d] + Len(Frame(Current))
  BY <1>2, CurrentFrame
<1>4. /\ Current \in Seq(Byte) /\ Len(Current) \in Nat
      /\ Len(Frame(Current)) = PrefixLen + Len(Current)
  BY <1>3, FrameParts DEF PrefixLen
<1>5. /\ ps.packet_data \in Blocks /\ Len(ps.packet_data) = ps.packet_size
      /\ ps.packet_data_write_pos = ps.packet_size
  BY SMT, <1>1 DEF Base, Inside, Streams, WritesInside
<1>6. data = ps.packet_data
  BY SMT, <1>5 DEF Blocks, Packet
<1>7. data = Current
  <2>1. Len(ps.packet_data) = Len(Current)
    BY <1>2, <1>5
  <2>2. \A i \in 1 .. Len(Current) : ps.packet_data[i] = Current[i]
    BY <1>2, <1>5
  <2>3. ps.packet_data \in Seq(Byte \cup {Garbage}) /\ Current \in Seq(Byte \cup {Garbage})
    BY SMT, <1>4, <1>5 DEF Blocks
  <2>4. ps.packet_data = Current
    BY <2>1, <2>2, <2>3, SeqEqual
  <2>5. QED
    BY <1>6, <2>4
<1> HIDE DEF data
<1>8. delivered \in Seq(Blocks) /\ data \in Blocks /\ \A k \in 1 .. d : delivered[k] = sent[k]
  BY <1>5, <1>6 DEF Base, Delivered
<1>9. /\ delivered' \in Seq(Blocks) /\ Len(delivered') = d + 1
      /\ \A k \in 1 .. d : delivered'[k] = delivered[k]
      /\ delivered'[d + 1] = data
  BY SMT, <1>1, <1>8
<1>10. Delivered'
  <2>1. data = sent[d + 1]
    BY <1>7 DEF Current
  <2>2. \A k \in 1 .. d + 1 : k \in 1 .. d \/ k = d + 1
    BY SMT, <1>3
  <2>3. \A k \in 1 .. d + 1 : delivered'[k] = sent[k]
    BY <1>8, <1>9, <2>1, <2>2
  <2>4. d + 1 <= Len(sent)
    BY SMT, <1>2, <1>3
  <2>5. QED
    BY <1>1, <1>9, <2>3, <2>4 DEF Base, Delivered
<1>11. /\ ps'.state = "READ_LEN" /\ ps'.packet_size = 0 /\ ps'.varint_pos = 1
  BY SMT, <1>1 DEF NextPacket, Base, Inside, Streams
<1>12. Parsed(0)'
  BY <1>11 DEF Parsed, LenParsed
<1>13. off[Len(delivered')] + 0 = off[d] + f
  <2>1. f = Len(Frame(Current))
    BY <1>2, <1>4, <1>5
  <2>2. off[Len(delivered')] = off[d] + f
    BY <1>3, <1>9, <2>1
  <2>3. off[d] + f \in Nat
    BY SMT, <1>3
  <2>4. QED
    BY SMT, <2>2, <2>3
<1>14. Arriving(all, off[d] + f)
  BY DEF Reached
<1>15. Arriving(all, off[Len(delivered)] + 0)'
  BY <1>1, <1>13, <1>14 DEF Arriving
<1>16. Frames(all, off)'
  BY <1>1 DEF Reached, Frames
<1>17. QED
  BY <1>10, <1>12, <1>15, <1>16 DEF Reached

LEMMA ReadReaches ==
  ASSUME Base, NEW all \in Seq(Byte), NEW off \in [0 .. Len(sent) -> Nat], NEW f \in Nat,
         Reached(all, off, f), NEW n \in 1 .. ReadSize, Read(n)
  PROVE  Reached(all, off, f)'
<1>1. /\ mode = "idle" /\ n <= Len(wire) /\ UNCHANGED <<ps, sent, delivered>>
      /\ buf' = SubSeq(wire, 1, n) /\ wire' = SubSeq(wire, n + 1, Len(wire))
  BY DEF Read
<1>2. buf = <<>> /\ Len(buf) = 0
  BY SMT, <1>1 DEF Base
<1>3. n \in Nat /\ n >= 1
  BY SMT, PacketAssumption
<1>4. wire \in Seq(Byte) /\ Len(wire) \in Nat
  BY SMT DEF Base, Inside
<1>5. /\ Len(buf') = n /\ \A i \in 1 .. n : buf'[i] = wire[i]
      /\ Len(wire') = Len(wire) - n
      /\ \A i \in 1 .. Len(wire) - n : wire'[i] = wire[n + i]
  BY SMT, <1>1, <1>3, <1>4
<1>6. PICK c \in Nat : c = off[Len(delivered)] + f
  BY SMT, CurrentFrame
<1>7. /\ c + Len(buf) + Len(wire) = Len(all)
      /\ \A i \in 1 .. Len(wire) : wire[i] = all[c + Len(buf) + i]
  BY <1>6 DEF Reached, Arriving
<1>8. c + Len(buf) = c
  BY SMT, <1>2
<1>9. Len(all) \in Nat /\ c + Len(wire) = Len(all)
  BY SMT, <1>7, <1>8
<1>10. Arriving(all, c)'
  <2>1. c + Len(buf') + Len(wire') = Len(all)
    <3>1. Len(buf') = n /\ Len(wire') = Len(wire) - n
      BY <1>5
    <3>2. n \in Nat /\ c \in Nat /\ Len(wire) \in Nat
      BY <1>3, <1>4
    <3>3. c + Len(buf') + Len(wire') = c + n + (Len(wire) - n)
      BY <3>1
    <3>4. c + n + (Len(wire) - n) = c + Len(wire)
      BY SMT, <3>2
    <3>5. QED
      BY <1>9, <3>3, <3>4
  <2>2. \A i \in 1 .. Len(buf') : buf'[i] = all[c + i]
    <3>1. SUFFICES ASSUME NEW i \in 1 .. n
                   PROVE  buf'[i] = all[c + i]
      BY <1>5
    <3>2. i \in 1 .. Len(wire)
      BY SMT, <1>1, <1>3, <1>4
    <3>3. QED
      BY <1>5, <1>7, <1>8, <3>2
  <2>3. \A i \in 1 .. Len(wire') : wire'[i] = all[c + Len(buf') + i]
    <3>1. SUFFICES ASSUME NEW i \in 1 .. Len(wire) - n
                   PROVE  wire'[i] = all[c + n + i]
      BY <1>5
    <3>2. n + i \in 1 .. Len(wire) /\ c + (n + i) = c + n + i
      <4>1. n \in Nat /\ c \in Nat /\ Len(wire) \in Nat
        BY <1>3, <1>4
      <4>2. QED
        BY SMT, <4>1
    <3>3. wire[n + i] = all[c + (n + i)]
      BY <1>7, <1>8, <3>2
    <3>4. wire'[i] = wire[n + i]
      BY <1>5
    <3>5. QED
      BY <3>2, <3>3, <3>4
  <2>4. QED
    BY <2>1, <2>2, <2>3 DEF Arriving
<1>11. Frames(all, off)' /\ Parsed(f)'
  BY <1>1 DEF Reached, Frames, Parsed, LenParsed, LenLeft, Current, PrefixLen
<1>12. QED
  BY <1>1, <1>6, <1>10, <1>11 DEF Reached

LEMMA SendReaches ==
  ASSUME Base, NEW all \in Seq(Byte), NEW off \in [0 .. Len(sent) -> Nat], NEW f \in Nat,
         Reached(all, off, f), NEW p \in Payloads, Send(p)
  PROVE  /\ Delivered'
         /\ \E all2 \in Seq(Byte), off2 \in [0 .. Len(sent') -> Nat], g \in Nat :
              Reached(all2, off2, g)'
<1> DEFINE fr == Frame(p)
           d == Len(delivered)
<1>1. /\ mode = "idle" /\ UNCHANGED <<mode, ps, buf, delivered>>
      /\ sent' = Append(sent, p) /\ wire' = wire \o fr
  BY DEF Send
<1>2. fr \in Seq(Byte) /\ Len(fr) \in Nat
  BY SMT, FrameBytes
<1> HIDE DEF fr
<1>3. PICK s \in Nat : s = Len(sent)
  BY SMT DEF Base, Delivered
<1>4. PICK a \in Nat : a = Len(all)
  BY SMT
<1>5. /\ sent \in Seq(Payloads) /\ sent' \in Seq(Payloads) /\ Len(sent') = s + 1
      /\ \A k \in 1 .. s : sent'[k] = sent[k]
      /\ sent'[s + 1] = p
  BY SMT, <1>1, <1>3 DEF Base, Delivered
<1>6. d \in Nat /\ d <= s /\ delivered \in Seq(Blocks)
  BY SMT, <1>3 DEF Base, Delivered
<1>7. Delivered'
  <2>1. d <= s + 1 /\ \A k \in 1 .. d : k \in 1 .. s
    BY SMT, <1>3, <1>6
  <2>2. \A k \in 1 .. d : delivered[k] = sent[k]
    BY DEF Base, Delivered
  <2>3. QED
    BY <1>1, <1>5, <1>6, <2>1, <2>2 DEF Delivered
<1> DEFINE all2 == all \o fr
           off2 == [k \in 0 .. s + 1 |-> IF k = s + 1 THEN a + Len(fr) ELSE off[k]]
<1>8. /\ all2 \in Seq(Byte) /\ Len(all2) = a + Len(fr)
      /\ \A i \in 1 .. a : all2[i] = all[i]
      /\ \A i \in 1 .. Len(fr) : all2[a + i] = fr[i]
  BY SMT, <1>2, <1>4
<1>9. /\ off2 \in [0 .. Len(sent') -> Nat]
      /\ off2[s + 1] = a + Len(fr)
      /\ \A k \in 0 .. s : off2[k] = off[k]
  BY SMT, <1>2, <1>3, <1>5
<1> HIDE DEF all2, off2
<1>10. /\ off[0] = 0 /\ off[s] = a
       /\ \A k \in 0 .. s : off[k] <= a
       /\ \A k \in 0 .. s - 1 :
            /\ off[k + 1] = off[k] + Len(Frame(sent[k + 1]))
            /\ \A i \in 1 .. Len(Frame(sent[k + 1])) :
                 all[off[k] + i] = Frame(sent[k + 1])[i]
  BY <1>3, <1>4 DEF Reached, Frames
<1>11. Frames(all2, off2)'
  <2>1. off2[0] = 0
    BY SMT, <1>9, <1>10
  <2>2. off2[s + 1] = Len(all2)
    BY <1>8, <1>9
  <2>3. ASSUME NEW k \in 0 .. s + 1
        PROVE  off2[k] <= a + Len(fr)
    <3>1. CASE k = s + 1
      BY SMT, <1>2, <1>9, <3>1
    <3>2. CASE k \in 0 .. s
      <4>1. off2[k] = off[k] /\ off[k] <= a /\ off[k] \in Nat
        BY <1>3, <1>9, <1>10, <3>2
      <4>2. QED
        BY SMT, <1>2, <4>1
    <3>3. QED
      BY SMT, <3>1, <3>2
  <2>4. ASSUME NEW k \in 0 .. s
        PROVE  /\ off2[k + 1] = off2[k] + Len(Frame(sent'[k + 1]))
               /\ \A i \in 1 .. Len(Frame(sent'[k + 1])) :
                    all2[off2[k] + i] = Frame(sent'[k + 1])[i]
    <3>1. CASE k = s
      <4>1. off2[k] = a /\ sent'[k + 1] = p /\ off2[k + 1] = a + Len(fr)
        BY SMT, <1>5, <1>9, <1>10, <3>1
      <4>2. QED
        BY <1>8, <4>1 DEF fr
    <3>2. CASE k # s
      <4>1. k \in 0 .. s - 1 /\ k + 1 \in 1 .. s /\ k + 1 \in 0 .. s
        BY SMT, <3>2
      <4>2. /\ off2[k] = off[k] /\ off2[k + 1] = off[k + 1] /\ sent'[k + 1] = sent[k + 1]
            /\ off[k] \in Nat /\ off[k + 1] \in Nat /\ off[k + 1] <= a
        BY <1>3, <1>5, <1>9, <1>10, <4>1
      <4>3. /\ off[k + 1] = off[k] + Len(Frame(sent[k + 1]))
            /\ \A i \in 1 .. Len(Frame(sent[k + 1])) :
                 all[off[k] + i] = Frame(sent[k + 1])[i]
        BY <1>10, <4>1
      <4>4. Len(Frame(sent[k + 1])) \in Nat
        <5>1. sent[k + 1] \in Payloads
          BY SMT, <1>3, <1>5, <4>1
        <5>2. QED
          BY SMT, <5>1, FrameBytes
      <4>5. ASSUME NEW i \in 1 .. Len(Frame(sent[k + 1]))
            PROVE  all2[off[k] + i] = all[off[k] + i]
        <5>1. off[k] + i <= off[k] + Len(Frame(sent[k + 1])) /\ off[k] + i >= 1
          BY SMT, <4>2, <4>4
        <5>2. off[k] + i <= off[k + 1] /\ off[k] + i \in Nat
          BY SMT, <4>2, <4>3, <5>1
        <5>3. off[k] + i \in 1 .. a
          BY SMT, <4>2, <5>1, <5>2
        <5>4. QED
          BY <1>8, <5>3
      <4>6. QED
        BY <4>2, <4>3, <4>5
    <3>3. QED
      BY <3>1, <3>2
  <2>5. s + 1 - 1 = s
    BY SMT
  <2>6. QED
    BY <1>5, <1>8, <2>1, <2>2, <2>3, <2>4, <2>5 DEF Frames
<1>12. PICK c \in Nat : c = off[d] + f
  BY SMT, CurrentFrame
<1>13. Arriving(all2, c)'
  <2>1. wire \in Seq(Byte) /\ Len(wire) \in Nat /\ Len(buf) = 0
    BY SMT, <1>1 DEF Base, Inside
  <2>2. /\ Len(wire') = Len(wire) + Len(fr)
        /\ \A i \in 1 .. Len(wire) : wire'[i] = wire[i]
        /\ \A i \in 1 .. Len(fr) : wire'[Len(wire) + i] = fr[i]
    BY SMT, <1>1, <1>2, <2>1
  <2>3. /\ c + Len(buf) + Len(wire) = a
        /\ \A i \in 1 .. Len(wire) : wire[i] = all[c + Len(buf) + i]
    BY <1>4, <1>12 DEF Reached, Arriving
  <2>4. c + Len(buf) = c
    BY SMT, <2>1
  <2>5. c + Len(wire) = a
    BY <2>3, <2>4
  <2>6. c + Len(buf) + Len(wire') = Len(all2)
    <3>1. c + Len(wire') = c + (Len(wire) + Len(fr))
      BY <2>2
    <3>2. c + (Len(wire) + Len(fr)) = a + Len(fr)
      BY SMT, <1>2, <2>1, <2>5
    <3>3. QED
      BY <1>8, <2>4, <3>1, <3>2
  <2>7. ASSUME NEW i \in 1 .. Len(wire')
        PROVE  wire'[i] = all2[c + i]
    <3>1. i \in 1 .. Len(wire) + Len(fr)
      BY <2>2
    <3>2. CASE i \in 1 .. Len(wire)
      <4>1. c + i \in 1 .. a
        BY SMT, <2>1, <2>5, <3>2
      <4>2. wire'[i] = wire[i] /\ wire[i] = all[c + i]
        BY <2>2, <2>3, <2>4, <3>2
      <4>3. QED
        BY <1>8, <4>1, <4>2
    <3>3. CASE ~(i \in 1 .. Len(wire))
      <4>1. PICK j \in 1 .. Len(fr) : i = Len(wire) + j
        <5>1. i - Len(wire) \in 1 .. Len(fr) /\ i = Len(wire) + (i - Len(wire))
          BY SMT, <1>2, <2>1, <3>1, <3>3
        <5>2. QED
          BY <5>1
      <4>2. c + i = a + j
        <5>1. PICK u \in Nat : u = Len(wire) /\ c + u = a
          BY <2>1, <2>5
        <5>2. i = u + j /\ j \in Nat
          BY SMT, <1>2, <4>1, <5>1
        <5>3. c + (u + j) = (c + u) + j
          BY SMT, <5>2
        <5>4. QED
          BY <5>1, <5>2, <5>3
      <4>3. QED
        BY <1>8, <2>2, <4>1, <4>2
    <3>4. QED
      BY <3>2, <3>3
  <2>8. \A i \in 1 .. Len(buf') : FALSE
    BY SMT, <1>1, <2>1
  <2>9. QED
    BY <1>1, <2>4, <2>6, <2>7, <2>8 DEF Arriving
<1>14. off2[d] + f = c
  BY SMT, <1>6, <1>9, <1>12
<1>15. Parsed(f)'
  <2>1. CASE d < s
    <3>1. d + 1 \in 1 .. s /\ d < s + 1
      BY SMT, <1>6, <2>1
    <3>2. Current' = Current /\ PrefixLen' = PrefixLen
      BY <1>1, <1>5, <3>1 DEF Current, PrefixLen
    <3>3. Len(delivered') < Len(sent')
      BY <1>1, <1>5, <3>1
    <3>4. QED
      BY <1>1, <3>2, <3>3 DEF Reached, Parsed, LenParsed, LenLeft
  <2>2. CASE ~(d < s)
    <3>1. ps.state = "READ_LEN" /\ f = 0
      BY <1>3, <2>2 DEF Reached, Parsed
    <3>2. LenParsed(f)
      BY <3>1 DEF Reached, Parsed
    <3>3. ps.packet_size = 0 /\ ps.varint_pos = 1
      BY SMT, <3>1, <3>2 DEF LenParsed
    <3>4. QED
      BY <1>1, <3>1, <3>3 DEF Parsed, LenParsed
  <2>3. QED
    BY <2>1, <2>2
<1>16. Reached(all2, off2, f)'
  BY <1>1, <1>11, <1>13, <1>14, <1>15 DEF Reached
<1>17. QED
  BY <1>7, <1>8, <1>9, <1>16

(* A slot with no bytes sent yet.                                          *)
LEMMA NothingSent ==
  ASSUME sent' = <<>>, delivered' = <<>>, buf' = <<>>, wire' = <<>>, ps' = ZeroedStream
  PROVE  /\ Delivered'
         /\ \E all \in Seq(Byte), off \in [0 .. Len(sent') -> Nat], f \in Nat :
              Reached(all, off, f)'
<1> DEFINE all == <<>>
           off == [k \in 0 .. 0 |-> 0]
<1>1. Len(sent') = 0 /\ Len(delivered') = 0 /\ Len(buf') = 0 /\ Len(wire') = 0
  BY SMT
<1>2. Delivered'
  <2>1. sent' \in Seq(Payloads) /\ delivered' \in Seq(Blocks)
    BY SMT
  <2>2. \A k \in 1 .. 0 : FALSE
    BY SMT
  <2>3. 0 <= 0
    BY SMT
  <2>4. QED
    BY <1>1, <2>1, <2>2, <2>3 DEF Delivered
<1>3. all \in Seq(Byte) /\ Len(all) = 0 /\ off \in [0 .. Len(sent') -> Nat] /\ off[0] = 0
  BY SMT, <1>1
<1> HIDE DEF all, off
<1>4. Frames(all, off)'
  <2>1. \A k \in 0 .. 0 : off[k] <= 0
    BY SMT, <1>3
  <2>2. \A k \in 0 .. 0 - 1 : FALSE
    BY SMT
  <2>3. QED
    BY <1>1, <1>3, <2>1, <2>2 DEF Frames
<1>5. off[Len(delivered')] + 0 = 0
  BY SMT, <1>1, <1>3
<1>6. Arriving(all, 0)'
  <2>1. 0 + 0 + 0 = 0 /\ \A i \in 1 .. 0 : FALSE
    BY SMT
  <2>2. QED
    BY <1>1, <1>3, <2>1 DEF Arriving
<1>7. Parsed(0)'
  <2>1. ps'.state = "READ_LEN" /\ ps'.packet_size = 0 /\ ps'.varint_pos = 1
    BY SMT DEF ZeroedStream
  <2>2. QED
    BY <2>1 DEF Parsed, LenParsed
<1>8. Reached(all, off, 0)'
  BY <1>4, <1>5, <1>6, <1>7 DEF Reached
<1>9. 0 \in Nat
  BY SMT
<1>10. QED
  BY <1>2, <1>3, <1>8, <1>9

LEMMA OrderedInit ==
  ASSUME Init
  PROVE  Ordered
<1>1. ps.state = "READ_LEN" /\ ps.packet_size = 0 /\ ps.varint_pos = 1
  BY SMT DEF Init, ZeroedStream
<1>2. /\ sent = <<>> /\ delivered = <<>> /\ buf = <<>> /\ wire = <<>> /\ mode = "free"
      /\ Len(sent) = 0 /\ Len(delivered) = 0 /\ Len(buf) = 0 /\ Len(wire) = 0
  BY SMT DEF Init
<1>3. Base
  <2>1. sent \in Seq(Payloads) /\ delivered \in Seq(Blocks) /\ 0 <= 0 /\ \A k \in 1 .. 0 : FALSE
    BY SMT, <1>2
  <2>2. QED
    BY <1>2, <2>1, InsideInit DEF Base, Delivered
<1> DEFINE all == <<>>
           off == [k \in 0 .. 0 |-> 0]
<1>4. /\ all \in Seq(Byte) /\ Len(all) = 0 /\ off \in [0 .. Len(sent) -> Nat] /\ off[0] = 0
      /\ off[Len(delivered)] + 0 = 0
  BY SMT, <1>2
<1> HIDE DEF all, off
<1>5. Frames(all, off)
  <2>1. (\A k \in 0 .. 0 : off[k] <= 0) /\ \A k \in 0 .. 0 - 1 : FALSE
    BY SMT, <1>4
  <2>2. QED
    BY <1>2, <1>4, <2>1 DEF Frames
<1>6. Arriving(all, 0)
  <2>1. 0 + 0 + 0 = 0 /\ \A i \in 1 .. 0 : FALSE
    BY SMT
  <2>2. QED
    BY <1>2, <1>4, <2>1 DEF Arriving
<1>7. Reached(all, off, 0) /\ 0 \in Nat
  BY SMT, <1>1, <1>4, <1>5, <1>6 DEF Reached, Parsed, LenParsed
<1>8. QED
  BY <1>3, <1>4, <1>7 DEF Ordered

LEMMA OrderedNext ==
  ASSUME Ordered, [Next]_vars
  PROVE  Ordered'
<1>1. Base
  BY DEF Ordered
<1>2. PICK all \in Seq(Byte), off \in [0 .. Len(sent) -> Nat], f \in Nat : Reached(all, off, f)
  BY DEF Ordered
<1>3. Inside'
  BY <1>1, InsideNext DEF Base
<1>4. f + 1 \in Nat /\ 0 \in Nat
  BY SMT
<1>5. CASE NewClient
  <2>1. buf' = <<>>
    BY <1>5 DEF NewClient
  <2>2. QED
    BY <1>3, <1>5, <2>1, NothingSent DEF NewClient, FreshStream, Ordered, Base
<1>6. CASE Leave \/ Return \/ PacketAborts \/ Retired \/ UNCHANGED vars
  <2>1. /\ UNCHANGED <<ps, buf, wire, sent, delivered>>
        /\ mode' = "idle" => buf' = <<>>
    BY <1>1, <1>6 DEF Leave, Return, PacketAborts, Loops, Retired, vars, Base
  <2>2. Delivered'
    BY <1>1, <2>1 DEF Base, Delivered
  <2>3. Reached(all, off, f)'
    BY <1>2, <2>1 DEF Reached, Frames, Arriving, Parsed, LenParsed, LenLeft, Current, PrefixLen
  <2>4. QED
    BY <1>3, <2>1, <2>2, <2>3 DEF Ordered, Base
<1>7. ASSUME NEW p \in Payloads, Send(p)
      PROVE  Ordered'
  <2>1. mode' = "idle" => buf' = <<>>
    BY <1>1, <1>7 DEF Send, Base
  <2>2. QED
    BY <1>1, <1>2, <1>3, <1>7, <2>1, SendReaches DEF Ordered, Base
<1>8. ASSUME NEW n \in 1 .. ReadSize, Read(n)
      PROVE  Ordered'
  <2>1. mode' # "idle" /\ UNCHANGED <<sent, delivered>>
    BY <1>8 DEF Read
  <2>2. Delivered'
    BY <1>1, <2>1 DEF Base, Delivered
  <2>3. Reached(all, off, f)'
    BY <1>1, <1>2, <1>8, ReadReaches
  <2>4. QED
    BY <1>3, <2>1, <2>2, <2>3 DEF Ordered, Base
<1>9. ASSUME ReadLen \/ AllocBuf \/ ReadPayload
      PROVE  Ordered'
  <2>1. mode' # "idle" /\ UNCHANGED <<sent, delivered>>
    BY <1>9 DEF ReadLen, AllocBuf, ReadPayload, Step
  <2>2. Delivered'
    BY <1>1, <2>1 DEF Base, Delivered
  <2>3. \E g \in Nat : Reached(all, off, g)'
    BY <1>1, <1>2, <1>4, <1>9, ReadLenReaches, AllocBufReaches, ReadPayloadReaches
  <2>4. QED
    BY <1>3, <2>1, <2>2, <2>3 DEF Ordered, Base
<1>10. CASE ProcessPacket
  <2>1. mode' # "idle" /\ UNCHANGED sent
    BY <1>10 DEF ProcessPacket, Step
  <2>2. Delivered' /\ Reached(all, off, 0)'
    BY <1>1, <1>2, <1>10, ProcessPacketReaches
  <2>3. QED
    BY <1>3, <1>4, <2>1, <2>2 DEF Ordered, Base
<1>11. QED
  BY <1>5, <1>6, <1>7, <1>8, <1>9, <1>10 DEF Next

LEMMA DeliveredIsPrefix ==
  ASSUME Delivered
  PROVE  InOrder
<1> DEFINE n == Len(delivered)
           d == SubSeq(delivered, 1, n)
           s == SubSeq(sent, 1, n)
<1>1. n \in Nat /\ n <= Len(sent) /\ delivered \in Seq(Blocks) /\ sent \in Seq(Payloads)
  BY SMT DEF Delivered
<1>2. \A k \in 1 .. n : delivered[k] = sent[k]
  BY DEF Delivered
<1>3. \A x \in Payloads : x \in Blocks
  <2>1. SUFFICES ASSUME NEW x \in Payloads
                 PROVE  x \in Blocks
    OBVIOUS
  <2>2. x \in Seq(Byte)
    BY FrameParts
  <2>3. QED
    BY SMT, <2>2 DEF Blocks
<1>4. /\ d \in Seq(Blocks) /\ Len(d) = n
      /\ \A k \in 1 .. n : d[k] = delivered[k]
  BY SMT, <1>1
<1>5. /\ s \in Seq(Payloads) /\ Len(s) = n
      /\ \A k \in 1 .. n : s[k] = sent[k]
  BY SMT, <1>1
<1> HIDE DEF d, s, n
<1>6. s \in Seq(Blocks)
  BY SMT, <1>3, <1>5
<1>7. Len(d) = Len(s) /\ \A k \in 1 .. Len(d) : d[k] = s[k]
  BY <1>2, <1>4, <1>5
<1>8. d = s
  BY <1>4, <1>6, <1>7, SeqEqual
<1>9. QED
  BY <1>1, <1>8 DEF InOrder, IsPrefix, d, s, n

(* For every length of packet and of read, wherever TCP cuts the bytes and *)
(* whoever had the slot before, the handlers are given the packets the     *)
(* client has sent, whole and in order.                                    *)
THEOREM PacketsInOrder == Spec => []InOrder
<1>1. Init => Ordered
  BY OrderedInit
<1>2. Ordered /\ [Next]_vars => Ordered'
  BY OrderedNext
<1>3. Ordered => InOrder
  BY DeliveredIsPrefix DEF Ordered, Base
<1>4. QED
  BY <1>1, <1>2, <1>3, PTL DEF Spec
-----------------------------------------------------------------------------
(* A nonempty set of numbers has a least one.                              *)
LEMMA Least ==
  ASSUME NEW T \in SUBSET Nat, T # {}
  PROVE  \E n \in T : \A m \in T : ~(m < n)
<1>1. \E n \in T : \A m \in T : ~(<<m, n>> \in OpToRel(<, Nat))
  BY WFMin, NatLessThanWellFounded, Zenon
<1>2. PICK n \in T : \A m \in T : ~(<<m, n>> \in OpToRel(<, Nat))
  BY Zenon, <1>1
<1>3. \A m \in T : m < n => <<m, n>> \in OpToRel(<, Nat)
  BY Zenon DEF OpToRel
<1>4. QED
  BY Zenon, <1>2, <1>3

(* The only ends that packets can have.                                    *)
LEMMA EndsAreFrames ==
  ASSUME sent \in Seq(Payloads), NEW all, NEW off \in [0 .. Len(sent) -> Nat],
         Frames(all, off)
  PROVE  \A k \in 0 .. Len(sent) : Ends[k] = off[k]
<1>1. PICK s \in Nat : s = Len(sent)
  BY LenProperties
<1> DEFINE Unfold(g) == [k \in 0 .. s |-> IF k = 0 THEN 0 ELSE g[k - 1] + Len(Frame(sent[k]))]
<1>2. off = Unfold(off)
  <2>1. ASSUME NEW k \in 0 .. s
        PROVE  off[k] = IF k = 0 THEN 0 ELSE off[k - 1] + Len(Frame(sent[k]))
    <3>1. CASE k = 0
      BY <3>1 DEF Frames
    <3>2. CASE k # 0
      <4>1. k - 1 \in 0 .. s - 1 /\ (k - 1) + 1 = k
        BY SMT, <3>2
      <4>2. QED
        BY <1>1, <3>2, <4>1 DEF Frames
    <3>3. QED
      BY <3>1, <3>2
  <2>2. QED
    BY <1>1, <2>1
<1>3. Ends = Unfold(Ends)
  BY <1>1, <1>2 DEF Ends
<1> DEFINE T == {k \in 0 .. s : Ends[k] # off[k]}
<1>4. SUFFICES ASSUME T # {}
               PROVE  FALSE
  BY <1>1
<1>5. T \in SUBSET Nat
  BY SMT
<1>6. PICK n \in T : \A m \in T : ~(m < n)
  BY <1>4, <1>5, Least
<1>7. n \in 0 .. s /\ Ends[n] # off[n]
  OBVIOUS
<1>8. n # 0
  <2>1. 0 \in 0 .. s
    BY SMT
  <2>2. Ends[0] = 0 /\ off[0] = 0
    BY <1>2, <1>3, <2>1
  <2>3. QED
    BY <1>7, <2>2
<1>9. n - 1 \in 0 .. s /\ n - 1 < n
  BY SMT, <1>7, <1>8
<1>10. Ends[n - 1] = off[n - 1]
  BY <1>6, <1>9
<1>11. /\ Ends[n] = Ends[n - 1] + Len(Frame(sent[n]))
       /\ off[n] = off[n - 1] + Len(Frame(sent[n]))
  BY <1>2, <1>3, <1>7, <1>8
<1>12. QED
  BY <1>7, <1>10, <1>11

(* Between reads no packet waits to be processed, and a payload that is    *)
(* being read lacks a byte, unless it is empty.                            *)
Waiting ==
  /\ mode = "idle" => ps.state # "PROCESS_PACKET"
  /\ ps.state = "READ_PAYLOAD" => ps.remaining_bytes > 0 \/ ps.packet_size = 0

LEMMA WaitingNext ==
  ASSUME Ordered, Waiting, [Next]_vars
  PROVE  Waiting'
<1>1. ps \in Streams /\ buf \in Seq(Byte)
  BY DEF Ordered, Base, Inside
<1>2. CASE NewClient
  BY <1>2 DEF NewClient, FreshStream, ZeroedStream, Waiting
<1>3. CASE Leave \/ Return \/ Retired \/ UNCHANGED vars
  BY <1>3 DEF Leave, Return, Loops, Retired, vars, Waiting
<1>4. ASSUME NEW p \in Payloads, Send(p)
      PROVE  Waiting'
  BY <1>4 DEF Send, Waiting
<1>5. ASSUME NEW n \in 1 .. ReadSize, Read(n)
      PROVE  Waiting'
  BY <1>5 DEF Read, Waiting
<1>6. CASE ReadLen
  <2>1. mode' = "reading" /\ ps'.state \in {"READ_LEN", "ALLOC_BUF"}
    BY SMT, <1>1, <1>6 DEF ReadLen, Step, Streams
  <2>2. QED
    BY <2>1 DEF Waiting
<1>7. CASE AllocBuf
  <2>1. /\ mode' = "reading" /\ ps'.state = "READ_PAYLOAD"
        /\ ps'.remaining_bytes = ps.packet_size /\ ps'.packet_size = ps.packet_size
    BY SMT, <1>1, <1>7 DEF AllocBuf, Step, Streams
  <2>2. ps.packet_size \in Nat
    BY <1>1 DEF Streams
  <2>3. ps.packet_size > 0 \/ ps.packet_size = 0
    BY SMT, <2>2
  <2>4. QED
    BY <2>1, <2>3 DEF Waiting
<1>8. CASE ReadPayload
  <2>1. /\ mode' = "reading" /\ ps.state = "READ_PAYLOAD"
        /\ ps'.remaining_bytes = ps.remaining_bytes - CanRead
        /\ ps'.state = IF ps.remaining_bytes = CanRead THEN "PROCESS_PACKET" ELSE ps.state
    BY SMT, <1>1, <1>8 DEF ReadPayload, Step, Streams
  <2>2. ps.remaining_bytes \in Nat /\ Len(buf) \in Nat
    BY <1>1, LenProperties DEF Streams
  <2>3. CASE ps.remaining_bytes # CanRead
    <3>1. ps.remaining_bytes - CanRead > 0
      BY SMT, <2>2, <2>3 DEF CanRead
    <3>2. QED
      BY <2>1, <2>3, <3>1 DEF Waiting
  <2>4. CASE ps.remaining_bytes = CanRead
    BY <2>1, <2>4 DEF Waiting
  <2>5. QED
    BY <2>3, <2>4
<1>9. CASE ProcessPacket
  <2>1. ps'.state = "READ_LEN"
    BY SMT, <1>1, <1>9 DEF ProcessPacket, NextPacket, Streams
  <2>2. QED
    BY <2>1 DEF Waiting
<1>10. CASE PacketAborts
  BY <1>10 DEF PacketAborts, Waiting
<1>11. QED
  BY <1>2, <1>3, <1>4, <1>5, <1>6, <1>7, <1>8, <1>9, <1>10 DEF Next

LEMMA WaitingShort ==
  ASSUME Ordered, Waiting, mode = "idle", Len(delivered) < Len(sent), Current # <<>>,
         NEW all \in Seq(Byte), NEW off \in [0 .. Len(sent) -> Nat], NEW f \in Nat,
         Reached(all, off, f)
  PROVE  f < Len(Frame(Current))
<1>1. Current \in Payloads
  BY CurrentFrame DEF Ordered
<1>2. PICK n \in Nat : n = Len(Current) /\ n >= 1
  <2>1. Current \in Seq(Byte) /\ Len(Current) \in Nat
    BY <1>1, FrameParts
  <2>2. Len(Current) # 0
    BY <2>1, EmptySeq
  <2>3. Len(Current) >= 1
    BY SMT, <2>1, <2>2
  <2>4. QED
    BY <2>1, <2>3
<1>3. PICK q \in Nat : q = PrefixLen /\ q >= 1
  BY <1>1, FrameParts DEF PrefixLen
<1>4. Len(Frame(Current)) = q + n
  BY <1>1, <1>2, <1>3, FrameParts DEF PrefixLen
<1>5. ps \in Streams /\ WritesInside /\ Parsed(f)
  BY DEF Ordered, Base, Inside, Reached
<1>6. CASE ps.state = "READ_LEN"
  <2>1. CASE f = 0
    BY SMT, <1>2, <1>3, <1>4, <2>1
  <2>2. CASE f # 0
    <3>1. PICK m \in Nat : LenLeft(f, m)
      BY <1>5, <1>6, <2>2 DEF Parsed, LenParsed
    <3>2. PICK l \in Nat : l = Len(Prefix[m]) /\ f + l = q
      BY <1>3, <3>1, PrefixSome DEF LenLeft
    <3>3. QED
      BY SMT, <1>2, <1>4, <3>2
  <2>3. QED
    BY <2>1, <2>2
<1>7. CASE ps.state = "ALLOC_BUF"
  <2>1. f = q
    BY <1>3, <1>5, <1>7 DEF Parsed
  <2>2. QED
    BY SMT, <1>2, <1>4, <2>1
<1>8. CASE ps.state = "READ_PAYLOAD"
  <2>1. f = q + ps.packet_data_write_pos /\ ps.packet_size = n
    BY <1>2, <1>3, <1>5, <1>8 DEF Parsed
  <2>size. ps.packet_size # 0
    BY SMT, <1>2, <2>1
  <2>2. /\ ps.packet_data_write_pos \in Nat /\ ps.remaining_bytes \in Nat
        /\ ps.remaining_bytes > 0
        /\ ps.packet_data_write_pos + ps.remaining_bytes = ps.packet_size
    BY <1>5, <1>8, <2>size DEF Streams, WritesInside, Waiting
  <2>3. QED
    BY SMT, <1>4, <2>1, <2>2
<1>9. ps.state \in States /\ ps.state # "PROCESS_PACKET"
  BY <1>5 DEF Streams, Waiting
<1>10. QED
  BY <1>6, <1>7, <1>8, <1>9 DEF States

LEMMA NothingWaits ==
  ASSUME Ordered, Waiting
  PROVE  NoneWithheld
<1>1. SUFFICES ASSUME mode = "idle", Len(delivered) < Len(sent), Current # <<>>
               PROVE  Ends[Len(sent)] - Len(wire) < Ends[Len(delivered) + 1]
  BY DEF NoneWithheld, Current
<1>2. PICK all \in Seq(Byte), off \in [0 .. Len(sent) -> Nat], f \in Nat : Reached(all, off, f)
  BY DEF Ordered
<1>3. PICK s \in Nat : s = Len(sent)
  BY LenProperties DEF Ordered, Base, Delivered
<1>4. PICK d \in Nat : d = Len(delivered)
  BY LenProperties DEF Ordered, Base, Delivered
<1>5. PICK w \in Nat : w = Len(wire)
  BY LenProperties DEF Ordered, Base, Inside
<1>6. PICK l \in Nat : l = Len(Frame(Current))
  BY <1>1, <1>2, CurrentFrame, FrameBytes, LenProperties DEF Ordered
<1>7. f < l
  BY <1>1, <1>2, <1>6, WaitingShort
<1>8. off[d + 1] = off[d] + l /\ off[d] \in Nat
  BY <1>1, <1>2, <1>4, <1>6, CurrentFrame DEF Ordered
<1>9. off[d] + f + w = off[s]
  <2>1. buf = <<>>
    BY <1>1 DEF Ordered, Base
  <2>2. Len(buf) = 0
    BY SMT, <2>1
  <2>3. off[d] + f + 0 + w = off[s]
    BY <1>2, <1>3, <1>4, <1>5, <2>2 DEF Reached, Frames, Arriving
  <2>4. QED
    BY SMT, <1>8, <2>3
<1>10. Ends[s] = off[s] /\ Ends[d + 1] = off[d + 1]
  <2>1. s \in 0 .. s /\ d + 1 \in 0 .. s
    BY SMT, <1>1, <1>3, <1>4
  <2>2. \A k \in 0 .. Len(sent) : Ends[k] = off[k]
    BY <1>2, EndsAreFrames DEF Ordered, Base, Delivered, Reached
  <2>3. QED
    BY <1>3, <2>1, <2>2
<1>11. off[s] - w < off[d + 1]
  BY SMT, <1>7, <1>8, <1>9
<1>12. QED
  BY <1>3, <1>4, <1>5, <1>10, <1>11

(* A packet that is not empty and has arrived to its last byte has been    *)
(* processed when connection_read_cb returns: it never waits for the bytes *)
(* of the next.                                                            *)
THEOREM PacketsProcessedAtOnce == Spec => []NoneWithheld
<1>1. Init => Ordered /\ Waiting
  <2>1. Init => ps.state = "READ_LEN"
    BY DEF Init, ZeroedStream
  <2>2. QED
    BY <2>1, OrderedInit DEF Waiting
<1>2. Ordered /\ Waiting /\ [Next]_vars => (Ordered /\ Waiting)'
  BY OrderedNext, WaitingNext
<1>3. Ordered /\ Waiting => NoneWithheld
  BY NothingWaits
<1>4. QED
  BY <1>1, <1>2, <1>3, PTL DEF Spec
-----------------------------------------------------------------------------
(* Handlers do not see TCP: to them a slot is a channel of packets.        *)

(* The packet of packet_data is the next one that the client has sent.     *)
LEMMA PacketIsPending ==
  ASSUME Ordered, mode = "reading", ps.state = "PROCESS_PACKET"
  PROVE  /\ Len(delivered) < Len(sent)
         /\ Current \in Payloads
         /\ Packet = Current
<1>1. PICK all \in Seq(Byte), off \in [0 .. Len(sent) -> Nat], f \in Nat : Reached(all, off, f)
  BY DEF Ordered
<1>2. /\ Len(delivered) < Len(sent) /\ ps.packet_size = Len(Current)
      /\ \A i \in 1 .. ps.packet_data_write_pos : ps.packet_data[i] = Current[i]
  BY <1>1 DEF Reached, Parsed
<1>3. Current \in Payloads
  BY <1>1, <1>2, CurrentFrame DEF Ordered
<1>4. Current \in Seq(Byte)
  BY <1>3, FrameParts
<1>5. /\ ps.packet_data \in Blocks /\ Len(ps.packet_data) = ps.packet_size
      /\ ps.packet_data_write_pos = ps.packet_size
  BY DEF Ordered, Base, Inside, Streams, WritesInside
<1>6. Packet = ps.packet_data
  BY SMT, <1>5 DEF Blocks, Packet
<1>7. ps.packet_data \in Seq(Byte \cup {Garbage}) /\ Current \in Seq(Byte \cup {Garbage})
  BY SMT, <1>4, <1>5 DEF Blocks
<1>8. Len(ps.packet_data) = Len(Current) /\ \A i \in 1 .. Len(ps.packet_data) : ps.packet_data[i] = Current[i]
  BY <1>2, <1>5
<1>9. ps.packet_data = Current
  BY <1>7, <1>8, SeqEqual
<1>10. QED
  BY <1>2, <1>3, <1>6, <1>9

LEMMA ChannelStep ==
  ASSUME Ordered, [Next]_vars
  PROVE  [Channel!Next]_(Channel!vars)
<1>1. CASE NewClient
  BY <1>1 DEF NewClient, Channel!Next, Channel!Open
<1>2. CASE Leave
  BY <1>2 DEF Leave, Channel!Next, Channel!Close
<1>3. ASSUME NEW p \in Payloads, Send(p)
      PROVE  Channel!Next
  BY <1>3 DEF Send, Channel!Next, Channel!Send
<1>4. CASE Return \/ Retired \/ UNCHANGED vars
  BY <1>4 DEF Return, Retired, vars, Channel!vars
<1>5. ASSUME NEW n \in 1 .. ReadSize, Read(n)
      PROVE  UNCHANGED Channel!vars
  BY <1>5 DEF Read, Channel!vars
<1>6. CASE ReadLen \/ AllocBuf \/ ReadPayload
  BY <1>6 DEF ReadLen, AllocBuf, ReadPayload, Step, Channel!vars
<1>7. CASE ProcessPacket
  <2>1. /\ mode = "reading" /\ mode' = mode /\ sent' = sent
        /\ ps.state = "PROCESS_PACKET" /\ HasId(Packet)
        /\ delivered' = Append(delivered, Packet)
    BY <1>7 DEF ProcessPacket, Step
  <2>2. /\ Len(delivered) < Len(sent) /\ Current \in Payloads /\ Packet = Current
    BY <2>1, PacketIsPending
  <2>3. Current \in {p \in Payloads : HasId(p)}
    BY <2>1, <2>2
  <2>4. QED
    BY <2>1, <2>2, <2>3
       DEF Current, Channel!Next, Channel!Deliver, Channel!Waiting, Channel!Pending
<1>8. CASE PacketAborts
  <2>1. /\ mode = "reading" /\ mode' = "aborted" /\ UNCHANGED <<sent, delivered>>
        /\ ps.state = "PROCESS_PACKET" /\ ~HasId(Packet)
    BY <1>8 DEF PacketAborts, Step
  <2>2. /\ Len(delivered) < Len(sent) /\ Current \in Payloads /\ Packet = Current
    BY <2>1, PacketIsPending
  <2>3. Current \notin {p \in Payloads : HasId(p)}
    BY <2>1, <2>2
  <2>4. QED
    BY <2>1, <2>2, <2>3
       DEF Current, Channel!Next, Channel!Abort, Channel!Waiting, Channel!Pending
<1>9. QED
  BY <1>1, <1>2, <1>3, <1>4, <1>5, <1>6, <1>7, <1>8 DEF Next

(* A slot implements a channel: whatever TCP does to the bytes, a step of  *)
(* connection_read_cb hands over the next packet that the client has sent, *)
(* or nothing that a handler can see, or aborts the server over the next   *)
(* packet, which has no id that can be read.                               *)
THEOREM SlotIsChannel == Spec => ImplementsChannel
<1>1. Init => Channel!Init
  BY DEF Init, Channel!Init
<1>2. Ordered /\ [Next]_vars => [Channel!Next]_(Channel!vars)
  BY ChannelStep
<1>3. Spec => []Ordered
  <2>1. Init => Ordered
    BY OrderedInit
  <2>2. Ordered /\ [Next]_vars => Ordered'
    BY OrderedNext
  <2>3. QED
    BY <2>1, <2>2, PTL DEF Spec
<1>4. QED
  BY <1>1, <1>2, <1>3, PTL DEF Spec, ImplementsChannel, Channel!Spec
=============================================================================
