-------------------------- MODULE PacketWritesProofs --------------------------
(***************************************************************************)
(* The builder keeps to its block and packets keep apart, for writes and   *)
(* packets of every length; the writes use the builder so, and what libuv  *)
(* holds of a packet stays as it was, for any clients and bounds.          *)
(***************************************************************************)
EXTENDS PacketWrites, SequenceTheorems, FunctionTheorems, FiniteSetTheorems, TLAPS

(* The builder.                                                            *)

Blocks == Seq({"own", "old", "none"})

(* Between callbacks nothing is half written, so that the position, which  *)
(* the heartbeat leaves where it was, is reset before it is written to.    *)
Building ==
  /\ mode \in {"idle", "handler", "heartbeat"}
  /\ bytes \in Blocks
  /\ pos \in Nat /\ written \in Nat /\ highest \in Nat
  /\ pos <= highest
  /\ mode = "idle" => written = 0
  /\ WritesInside
  /\ PacketIsOwn
  /\ CapBounded

(* pb_extend: the block has room for the write afterwards, keeps what it   *)
(* held, and grew only if it had to.                                       *)
LEMMA ExtendedHasRoom ==
  ASSUME Building, NEW len \in Lengths \cup Varints,
         NEW block \in Blocks, Len(bytes) <= Len(block),
         \A i \in 1 .. Len(bytes) : block[i] = bytes[i],
         NEW top \in Nat, pos + len <= top, Len(block) <= top + Longest
  PROVE  /\ Extended(block, len) \in Blocks
         /\ pos + len <= Len(Extended(block, len))
         /\ Len(bytes) <= Len(Extended(block, len))
         /\ \A i \in 1 .. Len(bytes) : Extended(block, len)[i] = bytes[i]
         /\ Len(Extended(block, len)) <= top + Longest
<1>1. len \in Nat /\ len <= Longest /\ Longest \in Nat
  BY BuilderAssumption
<1>2. /\ pos \in Nat /\ bytes \in Blocks
      /\ pos <= Len(bytes) /\ Len(bytes) \in Nat /\ Len(block) \in Nat
  BY SMT DEF Building, WritesInside, Blocks
<1>3. CASE Grows(Len(block), len)
  <2> DEFINE more == [i \in 1 .. Len(block) + len |->
                        IF i <= Len(block) THEN block[i] ELSE "none"]
  <2>1. Extended(block, len) = more
    BY <1>3 DEF Extended
  <2>2. more \in Blocks /\ Len(more) = Len(block) + len
    BY SMT, <1>1, <1>2 DEF Blocks
  <2>3. \A i \in 1 .. Len(bytes) : more[i] = block[i]
    BY SMT, <1>1, <1>2
  <2>4. Len(block) + len <= top + Longest
    BY SMT, <1>1, <1>2, <1>3 DEF Grows
  <2> HIDE DEF more
  <2>5. pos + len <= Len(more) /\ Len(bytes) <= Len(more)
    BY SMT, <1>1, <1>2, <2>2
  <2>6. QED
    BY <2>1, <2>2, <2>3, <2>4, <2>5
<1>4. CASE ~Grows(Len(block), len)
  <2>1. Extended(block, len) = block
    BY <1>4 DEF Extended
  <2>2. pos + len <= Len(block)
    BY SMT, <1>1, <1>2, <1>4 DEF Grows
  <2>3. QED
    BY <2>1, <2>2
<1>5. QED
  BY <1>3, <1>4

(* The copy into a block with room for it.                                 *)
LEMMA StoredIsOwn ==
  ASSUME Building, mode # "idle", NEW len \in Nat, NEW block \in Blocks,
         \A i \in 1 .. Len(bytes) : block[i] = bytes[i],
         Len(bytes) <= Len(block), pos + len <= Len(block)
  PROVE  /\ Stored(block, len) \in Blocks
         /\ Len(Stored(block, len)) = Len(block)
         /\ \A i \in 1 .. pos + len : Stored(block, len)[i] = "own"
<1>1. pos \in Nat /\ bytes \in Blocks /\ pos <= Len(bytes)
  BY DEF Building, WritesInside
<1>2. \A i \in 1 .. pos : bytes[i] = "own"
  BY DEF Building, PacketIsOwn
<1>3. Stored(block, len) \in Blocks /\ Len(Stored(block, len)) = Len(block)
  BY SMT, <1>1 DEF Stored, Blocks
<1>4. ASSUME NEW i \in 1 .. pos + len
      PROVE  Stored(block, len)[i] = "own"
  <2>1. i \in 1 .. Len(block)
    BY SMT, <1>1, <1>4 DEF Blocks
  <2>2. CASE i \in pos + 1 .. pos + len
    BY <2>1, <2>2 DEF Stored
  <2>3. CASE i \notin pos + 1 .. pos + len
    <3>1. i \in 1 .. pos /\ i \in 1 .. Len(bytes)
      BY SMT, <1>1, <1>4, <2>3 DEF Blocks
    <3>2. QED
      BY <1>2, <2>1, <2>3, <3>1 DEF Stored
  <2>4. QED
    BY <2>2, <2>3
<1>5. QED
  BY <1>3, <1>4

LEMMA BuildingInit ==
  ASSUME Init
  PROVE  Building
BY SMT, BuilderAssumption
   DEF Init, Building, Blocks, WritesInside, PacketIsOwn, CapBounded

(* What the writes have in common.                                         *)
LEMMA BuildingWrite ==
  ASSUME Building, NEW len \in Lengths \cup Varints, Writing(len),
         NEW block \in Blocks,
         Len(bytes) <= Len(block),
         \A i \in 1 .. Len(bytes) : block[i] = bytes[i],
         Len(block) <= highest' + Longest,
         bytes' = Stored(Extended(block, len), len),
         Advance(len), UNCHANGED mode
  PROVE  Building'
<1>1. len \in Nat
  BY BuilderAssumption
<1>2. mode # "idle" /\ mode \in {"handler", "heartbeat"} /\ pos = written
  BY DEF Writing, Building, PacketIsOwn
<1>3. /\ pos \in Nat /\ written \in Nat /\ highest \in Nat
      /\ pos <= highest
  BY DEF Building
<1>4. /\ pos' = pos + len /\ written' = written + len
      /\ pos' \in Nat /\ written' \in Nat /\ highest' \in Nat
      /\ pos + len <= highest'
  BY SMT, <1>1, <1>3 DEF Advance
<1> DEFINE more == Extended(block, len)
<1>5. /\ more \in Blocks
      /\ pos + len <= Len(more)
      /\ Len(bytes) <= Len(more)
      /\ \A i \in 1 .. Len(bytes) : more[i] = bytes[i]
      /\ Len(more) <= highest' + Longest
  BY <1>4, ExtendedHasRoom
<1> HIDE DEF more
<1>6. /\ Stored(more, len) \in Blocks
      /\ Len(Stored(more, len)) = Len(more)
      /\ \A i \in 1 .. pos + len : Stored(more, len)[i] = "own"
  BY <1>1, <1>2, <1>5, StoredIsOwn
<1>7. bytes' = Stored(more, len)
  BY DEF more
<1>8. WritesInside' /\ CapBounded'
  BY <1>4, <1>5, <1>6, <1>7 DEF WritesInside, CapBounded
<1>9. PacketIsOwn'
  BY <1>2, <1>4, <1>6, <1>7 DEF PacketIsOwn
<1>10. QED
  BY <1>2, <1>4, <1>6, <1>7, <1>8, <1>9 DEF Building

LEMMA BuildingNext ==
  ASSUME Building, [Next]_vars
  PROVE  Building'
<1>1. CASE ProcessPacket \/ SendHeartbeat
  BY SMT, <1>1
     DEF ProcessPacket, SendHeartbeat, StartPos, Building, Blocks, WritesInside,
         PacketIsOwn, CapBounded
<1>2. ASSUME NEW len \in Lengths \cup Varints, Writing(len), Advance(len)
      PROVE  pos + len \in Nat /\ highest' \in Nat /\ pos + len <= highest'
             /\ Len(bytes) <= highest' + Longest
  BY SMT, <1>2, BuilderAssumption DEF Advance, Building, Blocks, CapBounded
<1>3. ASSUME NEW len \in Lengths, WriteCopy(len)
      PROVE  Building'
  BY <1>2, <1>3, BuildingWrite DEF WriteCopy, Building, Blocks
<1>4. ASSUME NEW len \in Varints, WriteVarint(len)
      PROVE  Building'
  <2> DEFINE block == Extended(bytes, len)
  <2>1. Writing(len) /\ Advance(len)
    BY <1>4 DEF WriteVarint
  <2>2. bytes \in Blocks /\ Len(bytes) \in Nat
    BY SMT DEF Building, Blocks
  <2>3. /\ block \in Blocks
        /\ Len(bytes) <= Len(block)
        /\ \A i \in 1 .. Len(bytes) : block[i] = bytes[i]
        /\ Len(block) <= highest' + Longest
    <3>1. Len(bytes) <= Len(bytes)
      BY SMT, <2>2
    <3>2. QED
      BY <1>2, <2>1, <2>2, <3>1, ExtendedHasRoom
  <2> HIDE DEF block
  <2>4. QED
    BY <1>4, <2>1, <2>3, BuildingWrite DEF WriteVarint, block
<1>5. CASE Send \/ SentHeartbeat
  <2> DEFINE aged == [i \in 1 .. Len(bytes) |-> IF bytes[i] = "own" THEN "old" ELSE bytes[i]]
  <2>1. bytes' = aged /\ written' = 0 /\ highest' = highest
    BY <1>5 DEF Send, SentHeartbeat, NextPacket
  <2>2. aged \in Blocks /\ Len(aged) = Len(bytes)
    BY SMT DEF Building, Blocks
  <2> HIDE DEF aged
  <2>3. CASE Send
    <3>1. pos' = 0 /\ mode' = mode
      BY <2>3 DEF Send, NextPacket
    <3>2. QED
      BY SMT, <2>1, <2>2, <3>1
         DEF Building, Blocks, WritesInside, PacketIsOwn, CapBounded
  <2>4. CASE SentHeartbeat
    <3>1. pos' = pos /\ mode' = "idle"
      BY <2>4 DEF SentHeartbeat, NextPacket
    <3>2. QED
      BY <2>1, <2>2, <3>1
         DEF Building, Blocks, WritesInside, PacketIsOwn, CapBounded
  <2>5. QED
    BY <1>5, <2>3, <2>4
<1>6. CASE Return \/ UNCHANGED vars
  BY <1>6 DEF Return, vars, Building, WritesInside, PacketIsOwn, CapBounded
<1>7. CASE CloseConnection
  BY SMT, <1>7, BuilderAssumption
     DEF CloseConnection, Building, Blocks, WritesInside, PacketIsOwn, CapBounded
<1>8. QED
  BY <1>1, <1>3, <1>4, <1>5, <1>6, <1>7 DEF Next

LEMMA BuilderInvariant == Spec => []Building
<1>1. Init => Building
  BY BuildingInit
<1>2. Building /\ [Next]_vars => Building'
  BY BuildingNext
<1>3. QED
  BY <1>1, <1>2, PTL DEF Spec

(* pb_extend makes enough room: no write ends beyond the block.            *)
THEOREM BuilderWritesInside == Spec => []WritesInside
<1>1. Building => WritesInside
  BY DEF Building
<1>2. QED
  BY <1>1, BuilderInvariant, PTL

(* A packet consists of its own fields, whatever was written before it.    *)
THEOREM PacketsKeepApart == Spec => []PacketIsOwn
<1>1. Building => PacketIsOwn
  BY DEF Building
<1>2. QED
  BY <1>1, BuilderInvariant, PTL

(* The block is at most one write longer than the longest packet.          *)
THEOREM CapIsBounded == Spec => []CapBounded
<1>1. Building => CapBounded
  BY DEF Building
<1>2. QED
  BY <1>1, BuilderInvariant, PTL

-----------------------------------------------------------------------------
(* The packets that are written.                                           *)

Own(n) == [i \in 1 .. n |-> "own"]

Packets == {packet \in [size : Nat, copy : Blocks] : packet.copy = Own(packet.size)}

Held ==
  /\ Building
  /\ pending \in [Clients -> Seq(Packets)]

LEMMA BuilderStep == [WritesNext]_<<vars, writeVars>> => [Next]_vars
BY DEF WritesNext, Next, WriteField

LEMMA FinalizedIsOwn ==
  ASSUME Building, mode # "idle"
  PROVE  pb_finalize \in Packets
<1>1. pos \in Nat /\ bytes \in Blocks /\ pos <= Len(bytes) /\ \A i \in 1 .. pos : bytes[i] = "own"
  BY DEF Building, WritesInside, PacketIsOwn
<1> DEFINE copy == SubSeq(bytes, 1, pos)
<1>2. copy \in Blocks /\ Len(copy) = pos /\ \A i \in 1 .. pos : copy[i] = bytes[i]
  BY SMT, <1>1 DEF Blocks
<1>3. Own(pos) \in Blocks /\ Len(Own(pos)) = pos /\ \A i \in 1 .. pos : Own(pos)[i] = "own"
  BY SMT, <1>1 DEF Own, Blocks
<1> HIDE DEF copy
<1>4. copy = Own(pos)
  BY <1>1, <1>2, <1>3, SeqEqual DEF Blocks
<1>5. pb_finalize = [size |-> pos, copy |-> copy]
  BY DEF pb_finalize, copy
<1>6. QED
  BY SMT, <1>1, <1>2, <1>4, <1>5 DEF Packets

LEMMA WriteHolds ==
  ASSUME Held, mode # "idle", NEW to, Write(to)
  PROVE  pending' \in [Clients -> Seq(Packets)]
<1>1. pb_finalize \in Packets
  BY FinalizedIsOwn DEF Held
<1> DEFINE open == {c \in to : stream[c] = "open"}
<1>2. pending' = [c \in Clients |->
        IF c \in open THEN Append(pending[c], pb_finalize) ELSE pending[c]]
  BY DEF Write
<1>3. ASSUME NEW c \in Clients
      PROVE  pending[c] \in Seq(Packets) /\ Append(pending[c], pb_finalize) \in Seq(Packets)
  <2>1. pending[c] \in Seq(Packets)
    BY DEF Held
  <2>2. QED
    BY SMT, <1>1, <2>1
<1>4. QED
  BY <1>2, <1>3

LEMMA HeldNext ==
  ASSUME Held, [WritesNext]_<<vars, writeVars>>
  PROVE  Held'
<1>1. Building'
  BY BuilderStep, BuildingNext DEF Held
<1>2. CASE UNCHANGED writeVars
  BY <1>1, <1>2 DEF Held, writeVars
<1>3. CASE Send /\ \E to \in {{Self}, Others} : Write(to)
  BY <1>1, <1>3, WriteHolds DEF Held, Send
<1>4. CASE SentHeartbeat /\ Write({Self})
  BY <1>1, <1>4, WriteHolds DEF Held, SentHeartbeat
<1>5. ASSUME NEW c \in Clients, NewConnection(c) \/ ReadEof(c)
      PROVE  Held'
  BY <1>1, <1>5 DEF Held, NewConnection, ReadEof
<1>6. ASSUME NEW c \in Clients, WriteEnds(c)
      PROVE  Held'
  <2>1. pending[c] \in Seq(Packets) /\ pending[c] # <<>>
    BY <1>6 DEF Held, WriteEnds
  <2>2. Tail(pending[c]) \in Seq(Packets)
    BY SMT, <2>1
  <2>3. pending' = [pending EXCEPT ![c] = Tail(pending[c])]
    BY <1>6 DEF WriteEnds
  <2>4. pending' \in [Clients -> Seq(Packets)]
    BY <2>2, <2>3 DEF Held
  <2>5. QED
    BY <1>1, <2>4 DEF Held
<1>7. ASSUME NEW c \in Clients, StreamCloses(c)
      PROVE  Held'
  <2>1. <<>> \in Seq(Packets)
    BY SMT
  <2>2. pending' = [pending EXCEPT ![c] = <<>>]
    BY <1>7 DEF StreamCloses
  <2>3. pending' \in [Clients -> Seq(Packets)]
    BY <2>1, <2>2 DEF Held
  <2>4. QED
    BY <1>1, <2>3 DEF Held
<1>8. Self \in Clients
  BY WritesAssumption
<1>9. QED
  BY <1>2, <1>3, <1>4, <1>5, <1>6, <1>7, <1>8 DEF WritesNext, writeVars

(* Handlers and heartbeats that send to many clients, who come and go, use *)
(* the builder as PacketBuilder says: all that is proved of it holds.      *)
THEOREM BuilderUsed == WritesSpec => Spec
<1>1. WritesInit => Init
  BY DEF WritesInit
<1>2. QED
  BY <1>1, BuilderStep, PTL DEF WritesSpec, Spec

(* The copies that libuv holds of a packet, for every client it is for,    *)
(* stay as they were finalized until the writes have ended.                *)
THEOREM CopiesStayIntact == WritesSpec => []PendingIntact
<1>1. WritesInit => Held
  <2>1. <<>> \in Seq(Packets)
    BY SMT
  <2>2. QED
    BY <2>1, BuildingInit DEF WritesInit, Held
<1>2. Held /\ [WritesNext]_<<vars, writeVars>> => Held'
  BY HeldNext
<1>3. Held => PendingIntact
  <2>1. SUFFICES ASSUME Held, NEW c \in Clients, NEW k \in DOMAIN pending[c]
                 PROVE  packet_buf(pending[c][k]) = Own(pending[c][k].size)
    BY DEF PendingIntact, Own
  <2>2. pending[c] \in Seq(Packets)
    BY <2>1 DEF Held
  <2>3. pending[c][k] \in Packets
    BY SMT, <2>2
  <2>4. QED
    BY <2>3 DEF packet_buf, Packets
<1>4. QED
  BY <1>1, <1>2, <1>3, PTL DEF WritesSpec
-----------------------------------------------------------------------------
(* Memory: a packet is allocated for every place in a queue and for every  *)
(* write that was refused.                                                 *)
Counted ==
  /\ Held
  /\ IsFiniteSet(Places)
  /\ allocated \in Int /\ refused \in Int
  /\ allocated = Pending + refused

(* The places in any queues.                                               *)
PlacesIn(q) == UNION {{c} \X DOMAIN q[c] : c \in Clients}

LEMMA PlacesAre ==
  /\ Places = PlacesIn(pending)
  /\ Places' = PlacesIn(pending')
BY DEF Places, PlacesIn

LEMMA PlacesType ==
  ASSUME NEW q \in [Clients -> Seq(Packets)], NEW p
  PROVE  p \in PlacesIn(q) <=> \E c \in Clients : \E k \in Nat \ {0} :
                                p = <<c, k>> /\ k <= Len(q[c])
<1>1. p \in PlacesIn(q) <=> \E c \in Clients : \E k \in DOMAIN q[c] : p = <<c, k>>
  BY SMT DEF PlacesIn
<1>2. ASSUME NEW c \in Clients
      PROVE  \A k : k \in DOMAIN q[c] <=> k \in Nat \ {0} /\ k <= Len(q[c])
  <2>1. q[c] \in Seq(Packets)
    OBVIOUS
  <2>2. DOMAIN q[c] = 1 .. Len(q[c]) /\ Len(q[c]) \in Nat
    BY <2>1, LenProperties
  <2>3. QED
    BY SMT, <2>2
<1>3. QED
  BY <1>1, <1>2

LEMMA DisjointCount ==
  ASSUME NEW S, IsFiniteSet(S), NEW T, IsFiniteSet(T), S \cap T = {}
  PROVE  /\ IsFiniteSet(S \cup T)
         /\ Cardinality(S) \in Nat /\ Cardinality(T) \in Nat
         /\ Cardinality(S \cup T) = Cardinality(S) + Cardinality(T)
<1>1. /\ IsFiniteSet(S \cup T)
      /\ Cardinality(S \cup T) = Cardinality(S) + Cardinality(T) - Cardinality({})
  BY FS_Union
<1>2. Cardinality({}) = 0 /\ Cardinality(S) \in Nat /\ Cardinality(T) \in Nat
  BY FS_EmptySet, FS_CardinalityType
<1>3. QED
  BY SMT, <1>1, <1>2

(* The clients of a packet are those whose writes are queued and those     *)
(* whose writes are refused.                                               *)
LEMMA SplitCount ==
  ASSUME NEW S, IsFiniteSet(S), NEW T \in SUBSET S
  PROVE  /\ IsFiniteSet(T) /\ IsFiniteSet(S \ T)
         /\ Cardinality(T) \in Nat /\ Cardinality(S \ T) \in Nat
         /\ Cardinality(S) = Cardinality(T) + Cardinality(S \ T)
<1>1. S \ T \in SUBSET S
  OBVIOUS
<1>2. IsFiniteSet(T) /\ IsFiniteSet(S \ T)
  BY <1>1, FS_Subset
<1>3. T \cup (S \ T) = S /\ T \cap (S \ T) = {}
  OBVIOUS
<1>4. QED
  BY <1>2, <1>3, DisjointCount

(* New elements, one for each of a set.                                    *)
LEMMA TaggedCount ==
  ASSUME NEW S, IsFiniteSet(S), NEW f \in [S -> Nat]
  PROVE  LET T == {<<c, f[c]>> : c \in S}
         IN  IsFiniteSet(T) /\ Cardinality(T) = Cardinality(S)
<1> DEFINE T == {<<c, f[c]>> : c \in S}
           g == [c \in S |-> <<c, f[c]>>]
<1>1. g \in Bijection(S, T)
  <2>1. g \in [S -> T]
    BY Zenon
  <2>2. \A a, b \in S : g[a] = g[b] => a = b
    BY SMT
  <2>3. \A t \in T : \E c \in S : g[c] = t
    BY Zenon
  <2>4. QED
    BY <2>1, <2>2, <2>3 DEF Bijection, Injection, Surjection, IsInjective
<1>2. ExistsBijection(S, T)
  BY <1>1 DEF ExistsBijection
<1>3. QED
  BY <1>2, FS_Bijection

LEMMA ColumnCount ==
  ASSUME NEW c, NEW n \in Nat
  PROVE  IsFiniteSet({c} \X (1 .. n)) /\ Cardinality({c} \X (1 .. n)) = n
<1> DEFINE T == {c} \X (1 .. n)
           g == [k \in 1 .. n |-> <<c, k>>]
<1>1. g \in Bijection(1 .. n, T)
  <2>1. g \in [1 .. n -> T]
    BY SMT
  <2>2. \A a, b \in 1 .. n : g[a] = g[b] => a = b
    BY SMT
  <2>3. \A t \in T : \E k \in 1 .. n : g[k] = t
    BY SMT
  <2>4. QED
    BY <2>1, <2>2, <2>3 DEF Bijection, Injection, Surjection, IsInjective
<1>2. ExistsBijection(1 .. n, T)
  BY <1>1 DEF ExistsBijection
<1>3. IsFiniteSet(1 .. n) /\ Cardinality(1 .. n) = n
  BY SMT, FS_Interval
<1>4. QED
  BY <1>2, <1>3, FS_Bijection

(* uv_write: the writes that it takes have a place each, the others are    *)
(* refused.                                                                *)
LEMMA WriteCounts ==
  ASSUME Counted, Held', NEW to \in SUBSET Clients, Write(to)
  PROVE  Counted'
<1> DEFINE open == {c \in to : stream[c] = "open"}
           lengths == [c \in open |-> Len(pending[c]) + 1]
           new == {<<c, lengths[c]>> : c \in open}
<1>1. /\ pending' = [c \in Clients |->
           IF c \in open THEN Append(pending[c], pb_finalize) ELSE pending[c]]
      /\ allocated' = allocated + Cardinality(to)
      /\ refused' = refused + Cardinality(to \ open)
  BY DEF Write
<1>2. \A c \in Clients : pending[c] \in Seq(Packets) /\ Len(pending[c]) \in Nat
  BY LenProperties DEF Counted, Held
<1>3. IsFiniteSet(to) /\ open \in SUBSET to
  BY WritesAssumption, FS_Subset
<1>4. /\ IsFiniteSet(open)
      /\ Cardinality(open) \in Nat /\ Cardinality(to \ open) \in Nat
      /\ Cardinality(to) = Cardinality(open) + Cardinality(to \ open)
  BY <1>3, SplitCount
<1>5. lengths \in [open -> Nat]
  BY SMT, <1>2
<1>6. IsFiniteSet(new) /\ Cardinality(new) = Cardinality(open)
  BY <1>4, <1>5, TaggedCount
<1>7. \A c \in Clients : Len(pending'[c]) = IF c \in open THEN Len(pending[c]) + 1
                                                        ELSE Len(pending[c])
  <2>1. SUFFICES ASSUME NEW c \in Clients
                 PROVE  Len(pending'[c]) = IF c \in open THEN Len(pending[c]) + 1
                                                         ELSE Len(pending[c])
    OBVIOUS
  <2>2. pending'[c] = IF c \in open THEN Append(pending[c], pb_finalize) ELSE pending[c]
    BY <1>1
  <2>3. Len(Append(pending[c], pb_finalize)) = Len(pending[c]) + 1
    BY SMT, <1>2
  <2>4. QED
    BY <2>2, <2>3
<1>8. \A p : p \in new <=> \E c \in open : p = <<c, Len(pending[c]) + 1>>
  <2>1. \A p : p \in new <=> \E c \in open : p = <<c, lengths[c]>>
    OBVIOUS
  <2>2. \A c \in open : lengths[c] = Len(pending[c]) + 1
    OBVIOUS
  <2> HIDE DEF lengths, open, new
  <2>3. QED
    BY <2>1, <2>2
<1>9. Places' = Places \cup new /\ Places \cap new = {}
  <2>1. \A p : p \in Places <=> \E c \in Clients : \E k \in Nat \ {0} :
                                 p = <<c, k>> /\ k <= Len(pending[c])
    BY PlacesAre, PlacesType DEF Counted, Held
  <2>2. \A p : p \in Places' <=> \E c \in Clients : \E k \in Nat \ {0} :
                                 p = <<c, k>> /\ k <= Len(pending'[c])
    BY PlacesAre, PlacesType DEF Held
  <2>3. ASSUME NEW p \in Places'
        PROVE  p \in Places \cup new
    <3>1. PICK c \in Clients, k \in Nat \ {0} : p = <<c, k>> /\ k <= Len(pending'[c])
      BY <2>2, <2>3
    <3>2. CASE k <= Len(pending[c])
      BY <2>1, <3>1, <3>2
    <3>3. CASE ~(k <= Len(pending[c]))
      <4>1. c \in open /\ k = Len(pending[c]) + 1
        BY SMT, <1>2, <1>7, <3>1, <3>3
      <4>2. QED
        BY <1>8, <3>1, <4>1
    <3>4. QED
      BY <3>2, <3>3
  <2>4. ASSUME NEW p \in Places
        PROVE  p \in Places' /\ p \notin new
    <3>1. PICK c \in Clients, k \in Nat \ {0} : p = <<c, k>> /\ k <= Len(pending[c])
      BY <2>1, <2>4
    <3>2. k <= Len(pending'[c])
      BY SMT, <1>2, <1>7, <3>1
    <3>3. p \in Places'
      BY <2>2, <3>1, <3>2
    <3>4. ASSUME NEW d \in open, p = <<d, Len(pending[d]) + 1>>
          PROVE  FALSE
      <4>1. d = c /\ k = Len(pending[d]) + 1
        BY <3>1, <3>4
      <4>2. QED
        BY SMT, <1>2, <3>1, <4>1
    <3>5. QED
      BY <1>8, <3>3, <3>4
  <2>5. ASSUME NEW p \in new
        PROVE  p \in Places'
    <3>1. PICK c \in open : p = <<c, Len(pending[c]) + 1>>
      BY <1>8, <2>5
    <3>2. c \in Clients /\ Len(pending[c]) + 1 \in Nat \ {0}
      BY SMT, <1>2, <3>1
    <3>3. Len(pending[c]) + 1 <= Len(pending'[c])
      BY SMT, <1>2, <1>7, <3>1, <3>2
    <3>4. QED
      BY <2>2, <3>1, <3>2, <3>3
  <2>6. QED
    BY <2>3, <2>4, <2>5
<1>10. IsFiniteSet(Places') /\ Pending' = Pending + Cardinality(open) /\ Pending \in Int
  <2>1. IsFiniteSet(Places)
    BY DEF Counted
  <2> HIDE DEF new
  <2>2. /\ IsFiniteSet(Places \cup new) /\ Cardinality(Places) \in Nat
        /\ Cardinality(Places \cup new) = Cardinality(Places) + Cardinality(new)
    BY <1>6, <1>9, <2>1, DisjointCount
  <2>3. Cardinality(Places') = Cardinality(Places) + Cardinality(open)
    BY <1>6, <1>9, <2>2
  <2>4. QED
    BY <1>9, <2>2, <2>3 DEF Pending
<1>11. allocated' \in Int /\ refused' \in Int /\ allocated' = Pending' + refused'
  <2>1. allocated \in Int /\ refused \in Int /\ allocated = Pending + refused
    BY DEF Counted
  <2>2. QED
    BY SMT, <1>1, <1>4, <1>10, <2>1
<1>12. QED
  BY <1>10, <1>11 DEF Counted

(* A write that has ended gives up the last place, as the others move up,  *)
(* and its packet is freed.                                                *)
LEMMA WriteEndsCounts ==
  ASSUME Counted, Held', NEW c \in Clients, WriteEnds(c)
  PROVE  Counted'
<1>1. pending \in [Clients -> Seq(Packets)] /\ pending[c] # <<>>
  BY DEF Counted, Held, WriteEnds
<1>2. PICK n \in Nat : n = Len(pending[c])
  BY <1>1, LenProperties
<1>3. /\ pending' = [pending EXCEPT ![c] = Tail(pending[c])]
      /\ allocated' = allocated - 1 /\ refused' = refused
  BY DEF WriteEnds, packet_sent_cb
<1>4. n > 0 /\ Len(pending'[c]) = n - 1
  <2>1. n > 0 /\ Len(Tail(pending[c])) = n - 1
    BY SMT, <1>1, <1>2
  <2>2. pending'[c] = Tail(pending[c])
    BY <1>1, <1>3
  <2>3. QED
    BY <2>1, <2>2
<1>5. \A d \in Clients : d # c => pending'[d] = pending[d]
  BY <1>1, <1>3
<1>6. Places' = Places \ {<<c, n>>} /\ <<c, n>> \in Places
  <2>1. \A p : p \in Places <=> \E d \in Clients : \E k \in Nat \ {0} :
                                 p = <<d, k>> /\ k <= Len(pending[d])
    BY <1>1, PlacesAre, PlacesType
  <2>2. \A p : p \in Places' <=> \E d \in Clients : \E k \in Nat \ {0} :
                                 p = <<d, k>> /\ k <= Len(pending'[d])
    BY PlacesAre, PlacesType DEF Held
  <2>3. <<c, n>> \in Places
    <3>1. n \in Nat \ {0} /\ n <= Len(pending[c])
      BY SMT, <1>2, <1>4
    <3>2. QED
      BY <2>1, <3>1
  <2>4. ASSUME NEW d \in Clients, NEW k \in Nat \ {0}
        PROVE  k <= Len(pending'[d]) <=> k <= Len(pending[d]) /\ <<d, k>> # <<c, n>>
    <3>1. CASE d = c
      <4>1. k <= n - 1 <=> k <= n /\ k # n
        BY SMT
      <4>2. QED
        BY <1>2, <1>4, <3>1, <4>1
    <3>2. CASE d # c
      BY <1>5, <3>2
    <3>3. QED
      BY <3>1, <3>2
  <2>5. QED
    BY <2>1, <2>2, <2>3, <2>4
<1>7. IsFiniteSet(Places') /\ Pending' = Pending - 1 /\ Pending \in Int
  BY <1>6, FS_RemoveElement, FS_CardinalityType DEF Counted, Pending
<1>8. allocated' \in Int /\ refused' \in Int /\ allocated' = Pending' + refused'
  <2>1. allocated \in Int /\ refused \in Int /\ allocated = Pending + refused
    BY DEF Counted
  <2>2. QED
    BY SMT, <1>3, <1>7, <2>1
<1>9. QED
  BY <1>7, <1>8 DEF Counted

(* A stream that closes gives up its places, and its packets are freed.    *)
LEMMA StreamClosesCounts ==
  ASSUME Counted, Held', NEW c \in Clients, StreamCloses(c)
  PROVE  Counted'
<1>1. pending \in [Clients -> Seq(Packets)]
  BY DEF Counted, Held
<1>2. PICK n \in Nat : n = Len(pending[c])
  BY <1>1, LenProperties
<1>3. /\ pending' = [pending EXCEPT ![c] = <<>>]
      /\ allocated' = allocated - n /\ refused' = refused
  BY <1>2 DEF StreamCloses, packet_sent_cb
<1>4. pending'[c] = <<>> /\ \A d \in Clients : d # c => pending'[d] = pending[d]
  BY <1>1, <1>3
<1> DEFINE column == {c} \X (1 .. n)
<1>5. Places = Places' \cup column /\ Places' \cap column = {}
  <2>1. \A p : p \in Places <=> \E d \in Clients : \E k \in Nat \ {0} :
                                 p = <<d, k>> /\ k <= Len(pending[d])
    BY <1>1, PlacesAre, PlacesType
  <2>2. \A p : p \in Places' <=> \E d \in Clients : \E k \in Nat \ {0} :
                                 p = <<d, k>> /\ k <= Len(pending'[d])
    BY PlacesAre, PlacesType DEF Held
  <2>3. Len(pending'[c]) = 0
    BY SMT, <1>4
  <2>4. ASSUME NEW d \in Clients, NEW k \in Nat \ {0}
        PROVE  /\ <<d, k>> \in column <=> d = c /\ k <= Len(pending[d])
               /\ k <= Len(pending'[d]) <=> d # c /\ k <= Len(pending[d])
    <3>1. <<d, k>> \in column <=> d = c /\ k <= n
      BY SMT
    <3>2. CASE d = c
      <4>1. ~(k <= 0)
        BY SMT
      <4>2. QED
        BY <1>2, <2>3, <3>1, <3>2, <4>1
    <3>3. CASE d # c
      BY <1>4, <3>1, <3>3
    <3>4. QED
      BY <3>2, <3>3
  <2>5. \A p \in column : \E k \in Nat \ {0} : p = <<c, k>>
    BY SMT
  <2> HIDE DEF column
  <2>6. QED
    BY <2>1, <2>2, <2>4, <2>5
<1>6. IsFiniteSet(column) /\ Cardinality(column) = n
  BY ColumnCount
<1> HIDE DEF column
<1>7. IsFiniteSet(Places') /\ Pending = Pending' + n /\ Pending' \in Int
  <2>1. IsFiniteSet(Places') /\ IsFiniteSet(Places)
    BY <1>5, FS_Subset DEF Counted
  <2>2. /\ Cardinality(Places') \in Nat
        /\ Cardinality(Places' \cup column) = Cardinality(Places') + Cardinality(column)
    BY <1>5, <1>6, <2>1, DisjointCount
  <2>3. QED
    BY <1>5, <1>6, <2>1, <2>2 DEF Pending
<1>8. allocated' \in Int /\ refused' \in Int /\ allocated' = Pending' + refused'
  <2>1. allocated \in Int /\ refused \in Int /\ allocated = Pending + refused
    BY DEF Counted
  <2>2. QED
    BY SMT, <1>3, <1>7, <2>1
<1>9. QED
  BY <1>7, <1>8 DEF Counted

LEMMA CountedInit ==
  ASSUME WritesInit
  PROVE  Counted
<1>1. pending = [c \in Clients |-> <<>>] /\ allocated = 0 /\ refused = 0
  BY DEF WritesInit
<1>2. <<>> \in Seq(Packets)
  BY SMT
<1>3. Held
  BY <1>1, <1>2, BuildingInit DEF WritesInit, Held
<1>4. ASSUME NEW c \in Clients
      PROVE  DOMAIN pending[c] = {}
  <2>1. pending[c] = <<>>
    BY <1>1
  <2>2. QED
    BY SMT, <2>1
<1>5. Places = {}
  BY <1>4 DEF Places
<1>6. IsFiniteSet(Places) /\ Pending = 0
  BY <1>5, FS_EmptySet DEF Pending
<1>7. allocated = Pending + refused /\ allocated \in Int /\ refused \in Int
  BY SMT, <1>1, <1>6
<1>8. QED
  BY <1>3, <1>6, <1>7 DEF Counted

LEMMA CountedNext ==
  ASSUME Counted, [WritesNext]_<<vars, writeVars>>
  PROVE  Counted'
<1>1. Held'
  BY HeldNext DEF Counted
<1>2. CASE UNCHANGED <<pending, allocated, refused>>
  BY <1>1, <1>2 DEF Counted, Places, Pending
<1>3. Self \in Clients /\ Others \in SUBSET Clients
  BY WritesAssumption DEF Others
<1>4. ASSUME NEW to \in {{Self}, Others}, Write(to)
      PROVE  Counted'
  BY <1>1, <1>3, <1>4, WriteCounts
<1>5. ASSUME NEW c \in Clients, WriteEnds(c)
      PROVE  Counted'
  BY <1>1, <1>5, WriteEndsCounts
<1>6. ASSUME NEW c \in Clients, StreamCloses(c)
      PROVE  Counted'
  BY <1>1, <1>6, StreamClosesCounts
<1>7. ASSUME NEW c \in Clients, NewConnection(c) \/ ReadEof(c)
      PROVE  Counted'
  BY <1>2, <1>7 DEF NewConnection, ReadEof
<1>8. CASE UNCHANGED writeVars
  BY <1>2, <1>8 DEF writeVars
<1>9. QED
  BY <1>3, <1>4, <1>5, <1>6, <1>7, <1>8 DEF WritesNext, writeVars

(* Every packet in memory is one that libuv still holds for a client, or   *)
(* was refused by uv_write, whose result the code ignores: nothing else is *)
(* lost or freed twice, for any clients and any number of writes.          *)
THEOREM NothingElseIsLost == WritesSpec => []OnlyRefusedAreLost
<1>1. WritesInit => Counted
  BY CountedInit
<1>2. Counted /\ [WritesNext]_<<vars, writeVars>> => Counted'
  BY CountedNext
<1>3. Counted => OnlyRefusedAreLost
  BY DEF Counted, OnlyRefusedAreLost
<1>4. QED
  BY <1>1, <1>2, <1>3, PTL DEF WritesSpec
=============================================================================
