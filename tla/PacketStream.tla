----------------------------- MODULE PacketStream -----------------------------
(***************************************************************************)
(* From the bytes of a connection to packets: connection_read_cb and the   *)
(* PacketStream of a slot, which clients use one after the other.  TCP     *)
(* keeps bytes in order and cuts them anywhere.  An iteration of the loop  *)
(* is a step; no other callback runs until the loop ends.                  *)
(***************************************************************************)
EXTENDS Integers, Sequences, SequencesExt

CONSTANTS
  Continue,     \* VARINT_CONTINUE_BIT, 128
  MaxSize,      \* INT_MAX, the largest value of ps->packet_size
  Prefix,       \* how a client writes a length before a packet
  Payloads,     \* packets a client may send, without the length prefix
  Garbage,      \* what realloc leaves in the bytes it adds
  ReadSize,     \* DEFAULT_BUFFER_SIZE, most bytes of a read
  MaxPackets,   \* bound: packets sent by a client
  MaxClients    \* bound: clients that use the slot

Byte == 0 .. 2 * Continue - 1

(* A length is cut into segments, the least significant first, and all but *)
(* the last have the continue bit.  A packet may have any length, even 0.  *)
ASSUME PacketAssumption ==
  /\ Continue \in Nat /\ Continue > 1
  /\ MaxSize \in Nat
  /\ Prefix \in [0 .. MaxSize -> Seq(Byte)]
  /\ \A n \in 0 .. MaxSize :
       Prefix[n] = IF n < Continue THEN <<n>>
                   ELSE <<(n % Continue) + Continue>> \o Prefix[n \div Continue]
  /\ Payloads \subseteq Seq(Byte)
  /\ \A p \in Payloads : Len(p) <= MaxSize
  /\ ReadSize \in Nat /\ ReadSize > 0
  /\ MaxPackets \in Nat
  /\ MaxClients \in Nat

VARIABLES
  mode,       \* "free", "idle" between reads, "reading" in connection_read_cb,
              \* "aborted" when an ASSERT has ended the server
  ps,         \* client->ps; varint_pos is kept as 1 << varint_pos
  buf,        \* what is left of the read, from current_idx up to nread
  wire,       \* bytes on their way
  sent,       \* packets the client of the slot has sent
  delivered,  \* packets given to process_packet
  clients     \* clients so far

vars == <<mode, ps, buf, wire, sent, delivered, clients>>

(* memset of the slot                                                      *)
ZeroedStream ==
  [state |-> "READ_LEN", packet_size |-> 0, varint_pos |-> 1,
   remaining_bytes |-> 0, packet_data_write_pos |-> 0, packet_data |-> <<>>]

Init ==
  /\ mode = "free"
  /\ ps = ZeroedStream
  /\ buf = <<>> /\ wire = <<>> /\ sent = <<>> /\ delivered = <<>>
  /\ clients = 0

Frame(p) == Prefix[Len(p)] \o p

(* Mutant: the slot of the last client is not cleared.                     *)
FreshStream_Kept == ps

FreshStream == ZeroedStream

NewClient ==
  /\ mode = "free" /\ clients < MaxClients
  /\ mode' = "idle"
  /\ clients' = clients + 1
  /\ ps' = FreshStream
  /\ buf' = <<>> /\ wire' = <<>> /\ sent' = <<>> /\ delivered' = <<>>

(* A packet sent while the callback runs is as good as one sent after it.  *)
Send(p) ==
  /\ mode = "idle" /\ Len(sent) < MaxPackets
  /\ sent' = Append(sent, p)
  /\ wire' = wire \o Frame(p)
  /\ UNCHANGED <<mode, ps, buf, delivered, clients>>

(* The client leaves, maybe in the middle of a packet.                     *)
Leave ==
  /\ mode = "idle"
  /\ mode' = "free"
  /\ UNCHANGED <<ps, buf, wire, sent, delivered, clients>>

(* libuv calls connection_read_cb with the n bytes that have arrived.      *)
Read(n) ==
  /\ mode = "idle" /\ n <= Len(wire)
  /\ mode' = "reading"
  /\ buf' = SubSeq(wire, 1, n)
  /\ wire' = SubSeq(wire, n + 1, Len(wire))
  /\ UNCHANGED <<ps, sent, delivered, clients>>

(* Mutant: a packet that ends with the read waits for the next one.        *)
Loops_OnBytes == buf # <<>>

(* current_idx < nread || ps->state == STATE_PROCESS_PACKET                *)
Loops == buf # <<>> \/ ps.state = "PROCESS_PACKET"

Step(state) == mode = "reading" /\ Loops /\ ps.state = state

(* build_varint                                                            *)
ReadLen ==
  /\ Step("READ_LEN")
  /\ LET byte == Head(buf)
         more == byte >= Continue
     IN  ps' = [ps EXCEPT
           !.packet_size = @ + (byte % Continue) * ps.varint_pos,
           !.varint_pos = IF more THEN @ * Continue ELSE @,
           !.state = IF more THEN @ ELSE "ALLOC_BUF"]
  /\ buf' = Tail(buf)
  /\ UNCHANGED <<mode, wire, sent, delivered, clients>>

(* realloc keeps what fits of the old block.                               *)
Realloc(data, size) ==
  [i \in 1 .. size |-> IF i <= Len(data) THEN data[i] ELSE Garbage]

AllocBuf ==
  /\ Step("ALLOC_BUF")
  /\ ps' = [ps EXCEPT !.packet_data = Realloc(@, ps.packet_size),
                      !.remaining_bytes = ps.packet_size,
                      !.packet_data_write_pos = 0,
                      !.state = "READ_PAYLOAD"]
  /\ UNCHANGED <<mode, buf, wire, sent, delivered, clients>>

(* Mutant: the rest of the read is taken, whatever the packet still needs. *)
CanRead_All == Len(buf)

(* min(ps->remaining_bytes, nread - current_idx)                           *)
CanRead == IF ps.remaining_bytes < Len(buf) THEN ps.remaining_bytes ELSE Len(buf)

(* memcpy of n bytes to data + pos, within data.                           *)
Copied(data, pos, from, n) ==
  [i \in 1 .. Len(data) |-> IF i \in pos + 1 .. pos + n THEN from[i - pos] ELSE data[i]]

ReadPayload ==
  /\ Step("READ_PAYLOAD")
  /\ LET can_read == CanRead
     IN  /\ ps' = [ps EXCEPT
              !.packet_data = Copied(@, ps.packet_data_write_pos, buf, can_read),
              !.packet_data_write_pos = @ + can_read,
              !.remaining_bytes = @ - can_read,
              !.state = IF ps.remaining_bytes = can_read THEN "PROCESS_PACKET" ELSE @]
         /\ buf' = SubSeq(buf, can_read + 1, Len(buf))
  /\ UNCHANGED <<mode, wire, sent, delivered, clients>>

(* Mutant: the next length is added to the last one.                       *)
NextPacket_KeepsSize == [ps EXCEPT !.varint_pos = 1, !.state = "READ_LEN"]

(* Mutant: the packet stays to be processed.                               *)
NextPacket_Again == [ps EXCEPT !.varint_pos = 1]

NextPacket == [ps EXCEPT !.packet_size = 0, !.varint_pos = 1, !.state = "READ_LEN"]

Packet == SubSeq(ps.packet_data, 1, ps.packet_size)

(* pr_read_varint finds the last byte of the packet id within the packet   *)
(* and among the first five bytes.                                         *)
HasId(packet) == \E i \in 1 .. Len(packet) : i <= 5 /\ packet[i] < Continue

(* The handlers are given packet_size bytes of packet_data.                *)
ProcessPacket ==
  /\ Step("PROCESS_PACKET") /\ HasId(Packet)
  /\ delivered' = Append(delivered, Packet)
  /\ ps' = NextPacket
  /\ UNCHANGED <<mode, buf, wire, sent, clients>>

(* An ASSERT of pr_read_varint or pr_check_length.                         *)
PacketAborts ==
  /\ Step("PROCESS_PACKET") /\ ~HasId(Packet)
  /\ mode' = "aborted"
  /\ UNCHANGED <<ps, buf, wire, sent, delivered, clients>>

Return ==
  /\ mode = "reading" /\ ~Loops
  /\ mode' = "idle"
  /\ UNCHANGED <<ps, buf, wire, sent, delivered, clients>>

Retired ==
  /\ mode = "aborted" \/ (mode = "free" /\ clients = MaxClients)
  /\ UNCHANGED vars

Next ==
  \/ NewClient \/ Leave \/ Return
  \/ \E p \in Payloads : Send(p)
  \/ \E n \in 1 .. ReadSize : Read(n)
  \/ ReadLen \/ AllocBuf \/ ReadPayload \/ ProcessPacket \/ PacketAborts
  \/ Retired

Spec == Init /\ [][Next]_vars

(* The loop ends, and libuv calls back while there are bytes to read.      *)
FairSpec ==
  /\ Spec
  /\ WF_vars(ReadLen \/ AllocBuf \/ ReadPayload \/ ProcessPacket \/ PacketAborts \/ Return)
  /\ WF_vars(\E n \in 1 .. ReadSize : Read(n))

-----------------------------------------------------------------------------
(* Properties.                                                             *)

(* However TCP cuts the bytes, and wherever the last client of the slot    *)
(* broke off, process_packet gets the packets of this client, in order.    *)
InOrder == IsPrefix(delivered, sent)

(* Where each packet ends among the bytes the client has sent.             *)
Ends[k \in 0 .. Len(sent)] == IF k = 0 THEN 0 ELSE Ends[k - 1] + Len(Frame(sent[k]))

(* A packet that has arrived to its last byte is not kept until more bytes *)
(* come: the handshake would stop, as the client waits for the answer.  An *)
(* empty packet is kept, and aborts the server when the bytes come.        *)
NoneWithheld ==
  mode = "idle" /\ Len(delivered) < Len(sent) /\ sent[Len(delivered) + 1] # <<>> =>
    Ends[Len(sent)] - Len(wire) < Ends[Len(delivered) + 1]

(* The payload is copied to the end of packet_data and not beyond it, and  *)
(* process_packet reads no byte of it that was not written.                *)
WritesInside ==
  /\ ps.state = "READ_PAYLOAD" =>
       /\ ps.packet_data_write_pos \in 0 .. ps.packet_size
       /\ ps.packet_data_write_pos + ps.remaining_bytes = ps.packet_size
       /\ Len(ps.packet_data) = ps.packet_size
  /\ ps.state = "PROCESS_PACKET" =>
       /\ ps.packet_data_write_pos = ps.packet_size
       /\ Len(ps.packet_data) = ps.packet_size

Channel ==
  INSTANCE PacketChannel WITH
    Packets <- Payloads,
    Readable <- {p \in Payloads : HasId(p)},
    state <- IF mode \in {"free", "aborted"} THEN mode ELSE "open"

(* Handlers need not know of bytes: each step of connection_read_cb hands  *)
(* over the next packet that the client has sent, or nothing, or the       *)
(* server is aborted and the next packet is one without an id.             *)
ImplementsChannel == Channel!Spec

(* A client that stays gets every packet it has sent processed, up to one  *)
(* that has no id.                                                         *)
AllDelivered ==
  \A i \in 1 .. MaxPackets :
    Len(sent) >= i /\ (\A j \in 1 .. i : HasId(sent[j])) ~>
      Len(delivered) >= i \/ mode = "free"
=============================================================================
