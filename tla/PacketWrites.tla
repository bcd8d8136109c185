----------------------------- MODULE PacketWrites -----------------------------
(***************************************************************************)
(* What becomes of the packets of a PacketBuilder: each is copied for      *)
(* every client that it is for, and libuv holds the copy until the write   *)
(* has ended, while handlers and heartbeats go on with the next packet,    *)
(* clients leave and their slots are used again.                           *)
(***************************************************************************)
EXTENDS PacketBuilder, FiniteSets

CONSTANTS
  Clients,      \* slots, with the streams of their clients
  Self,         \* the slot whose builder it is
  MaxPending,   \* bound: writes at a time
  MaxRefused    \* bound: writes that uv_write refuses

ASSUME WritesAssumption ==
  Self \in Clients /\ IsFiniteSet(Clients) /\ MaxPending \in Nat /\ MaxRefused \in Nat

VARIABLES
  stream,      \* of each slot: "none", "open" or "closing"
  pending,     \* of each stream, the packets that libuv still holds
  allocated,   \* packets in memory, each with its PacketSentWrapper
  refused      \* of them, those of writes that uv_write refused

writeVars == <<stream, pending, allocated, refused>>

(* The writes that have not ended, each a place in the queue of a stream.  *)
Places == UNION {{c} \X DOMAIN pending[c] : c \in Clients}

Pending == Cardinality(Places)

WritesInit ==
  /\ Init
  /\ stream = [c \in Clients |-> "none"]
  /\ pending = [c \in Clients |-> <<>>]
  /\ allocated = 0 /\ refused = 0

(* The length prefix is left out.                                          *)
pb_finalize == [size |-> pos, copy |-> SubSeq(bytes, 1, pos)]

(* Mutant: no copy, the packet is the block of the builder.                *)
packet_buf_Shared(packet) ==
  [k \in 1 .. packet.size |-> IF bytes[k] = "old" THEN "own" ELSE "none"]

(* What libuv writes of a packet, whenever it does.                        *)
packet_buf(packet) == packet.copy

(* Mutant: a packet that was not written is kept.                          *)
packet_sent_cb_OnSuccess(n, status) == IF status = 0 THEN allocated - n ELSE allocated

(* The packets that are left in memory after the callbacks of n writes.    *)
packet_sent_cb(n, status) == allocated - n

(* send_finalized_packet for each of these clients.  On a stream that is   *)
(* closing, uv_write fails and calls nobody back.                          *)
Write(to) ==
  LET open == {c \in to : stream[c] = "open"}
      lost == Cardinality(to \ open)
  IN  /\ pending' = [c \in Clients |->
           IF c \in open THEN Append(pending[c], pb_finalize) ELSE pending[c]]
      /\ allocated' = allocated + Cardinality(to)
      /\ refused' = refused + lost
      /\ UNCHANGED stream

(* server_broadcast: everyone else who has a slot.                         *)
Others == {c \in Clients \ {Self} : stream[c] # "none"}

(* The bounds: a packet is begun only if they leave room for a broadcast.  *)
Room ==
  /\ Pending + Cardinality(Clients) <= MaxPending + 1
  /\ refused + Cardinality(Clients) <= MaxRefused + 1

WriteField ==
  /\ written > 0 \/ Room
  /\ \/ \E len \in Lengths : WriteCopy(len)
     \/ \E len \in Varints : WriteVarint(len)

(* A new client starts with an empty builder.                              *)
NewConnection(c) ==
  /\ mode = "idle" /\ stream[c] = "none"
  /\ stream' = [stream EXCEPT ![c] = "open"]
  /\ UNCHANGED <<pending, allocated, refused>>

ReadEof(c) ==
  /\ mode = "idle" /\ stream[c] = "open"
  /\ stream' = [stream EXCEPT ![c] = "closing"]
  /\ UNCHANGED <<pending, allocated, refused>>

(* A write ends, well or not: libuv calls packet_sent_cb.                  *)
WriteEnds(c) ==
  /\ mode = "idle" /\ stream[c] = "open" /\ pending[c] # <<>>
  /\ pending' = [pending EXCEPT ![c] = Tail(@)]
  /\ \E status \in {0, -1} : allocated' = packet_sent_cb(1, status)
  /\ UNCHANGED <<stream, refused>>

(* Before the callback that frees the slot, libuv cancels the writes that  *)
(* are left.                                                               *)
StreamCloses(c) ==
  /\ mode = "idle" /\ stream[c] = "closing"
  /\ stream' = [stream EXCEPT ![c] = "none"]
  /\ pending' = [pending EXCEPT ![c] = <<>>]
  /\ allocated' = packet_sent_cb(Len(pending[c]), -1)
  /\ UNCHANGED refused

WritesNext ==
  \/ stream[Self] = "open" /\ Room /\ (ProcessPacket \/ SendHeartbeat) /\ UNCHANGED writeVars
  \/ (WriteField \/ Return) /\ UNCHANGED writeVars
  \/ Send /\ \E to \in {{Self}, Others} : Write(to)
  \/ SentHeartbeat /\ Write({Self})
  \/ \E c \in Clients : (NewConnection(c) \/ ReadEof(c) \/ WriteEnds(c)) /\ UNCHANGED vars
  \/ \E c \in Clients \ {Self} : StreamCloses(c) /\ UNCHANGED vars
  \/ StreamCloses(Self) /\ CloseConnection

WritesSpec == WritesInit /\ [][WritesNext]_<<vars, writeVars>>

-----------------------------------------------------------------------------
(* Properties.                                                             *)

(* Whatever is written to the builder after a packet has been sent, and    *)
(* even when its client has left, libuv holds the packet as it was, one    *)
(* copy for each client of a broadcast.                                    *)
PendingIntact ==
  \A c \in Clients : \A k \in DOMAIN pending[c] :
    LET packet == pending[c][k]
    IN  packet_buf(packet) = [i \in 1 .. packet.size |-> "own"]

(* Every packet and its wrapper are freed when the write has ended, failed *)
(* or been cancelled, and not before: memory is lost only where uv_write   *)
(* refused the packet of a client who is leaving, as its result is         *)
(* ignored.                                                                *)
OnlyRefusedAreLost == allocated = Pending + refused
=============================================================================
