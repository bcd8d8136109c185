---------------------------- MODULE PacketBuilder ----------------------------
(***************************************************************************)
(* The PacketBuilder of a client, which every handler and the heartbeat    *)
(* write to: the block that pb_extend grows, the position, and the resets  *)
(* that keep packets apart.  What a byte is does not matter, only which    *)
(* packet it was written for.                                              *)
(***************************************************************************)
EXTENDS Integers, Sequences

CONSTANTS
  Lengths,     \* bytes of a pb_write_copy
  Varints,     \* bytes of a pb_write_varint
  Longest,     \* longest of both
  MaxPacket    \* bound: bytes of a packet

ASSUME BuilderAssumption ==
  /\ Lengths \subseteq Nat /\ Varints \subseteq Nat
  /\ Longest \in Nat /\ \A n \in Lengths \cup Varints : n <= Longest
  /\ MaxPacket \in Nat

VARIABLES
  mode,      \* "idle", or the callback that runs: "handler", "heartbeat"
  bytes,     \* the block: "own" bytes are the current packet's, "old" an
             \* earlier one's, "none" are those that realloc adds; cap is
             \* its length
  pos,       \* pb->pos
  written,   \* bytes written for the current packet
  highest    \* highest position so far

vars == <<mode, bytes, pos, written, highest>>

(* memset of the slot: no block, and a capacity of 0.                      *)
Init ==
  /\ mode = "idle"
  /\ bytes = <<>>
  /\ pos = 0 /\ written = 0 /\ highest = 0

(* Mutant: process_packet does not reset the builder.                      *)
StartPos_Kept == pos

StartPos == 0

(* connection_read_cb resets the builder of the client for its packet, and *)
(* the heartbeat does before it writes keep_alive.                         *)
ProcessPacket ==
  /\ mode = "idle" /\ mode' = "handler"
  /\ pos' = StartPos
  /\ UNCHANGED <<bytes, written, highest>>

SendHeartbeat ==
  /\ mode = "idle" /\ mode' = "heartbeat"
  /\ pos' = 0
  /\ UNCHANGED <<bytes, written, highest>>

(* Mutants: the condition of pb_extend forgets the bytes to come, or the   *)
(* block grows at every write.                                             *)
Grows_Late(cap, len) == pos + 1 > cap
Grows_Always(cap, len) == TRUE

(* pb->pos + len + 1 > pb->cap                                             *)
Grows(cap, len) == pos + len + 1 > cap

Extended(block, len) ==
  IF Grows(Len(block), len)
  THEN [i \in 1 .. Len(block) + len |-> IF i <= Len(block) THEN block[i] ELSE "none"]
  ELSE block

(* memcpy to the position, within the block.                               *)
Stored(block, len) ==
  [i \in 1 .. Len(block) |-> IF i \in pos + 1 .. pos + len THEN "own" ELSE block[i]]

Advance(len) ==
  /\ pos' = pos + len
  /\ written' = written + len
  /\ highest' = IF pos + len > highest THEN pos + len ELSE highest

Writing(len) == mode # "idle" /\ pos + len <= MaxPacket

WriteCopy(len) ==
  /\ Writing(len)
  /\ bytes' = Stored(Extended(bytes, len), len)
  /\ Advance(len)
  /\ UNCHANGED mode

(* pb_write_varint makes room itself, and pb_write_copy once more.         *)
WriteVarint(len) ==
  /\ Writing(len)
  /\ bytes' = Stored(Extended(Extended(bytes, len), len), len)
  /\ Advance(len)
  /\ UNCHANGED mode

(* The packet is finalized, for one client or for several: what follows    *)
(* belongs to another one.                                                 *)
NextPacket(reset) ==
  /\ bytes' = [i \in 1 .. Len(bytes) |-> IF bytes[i] = "own" THEN "old" ELSE bytes[i]]
  /\ written' = 0
  /\ pos' = IF reset THEN 0 ELSE pos
  /\ UNCHANGED highest

(* send_finalized_packet and server_broadcast of a handler: with reset_pb. *)
Send ==
  /\ mode = "handler" /\ written > 0
  /\ NextPacket(TRUE)
  /\ UNCHANGED mode

(* The heartbeat leaves its packet in the builder.                         *)
SentHeartbeat ==
  /\ mode = "heartbeat" /\ written > 0
  /\ NextPacket(FALSE)
  /\ mode' = "idle"

(* Handlers send what they write.                                          *)
Return ==
  /\ mode = "handler" /\ written = 0
  /\ mode' = "idle"
  /\ UNCHANGED <<bytes, pos, written, highest>>

(* pb_delete, and the memset for the next client of the slot.              *)
CloseConnection ==
  /\ mode = "idle"
  /\ bytes' = <<>>
  /\ pos' = 0 /\ written' = 0 /\ highest' = 0
  /\ UNCHANGED mode

Next ==
  \/ ProcessPacket \/ SendHeartbeat
  \/ \E len \in Lengths : WriteCopy(len)
  \/ \E len \in Varints : WriteVarint(len)
  \/ Send \/ SentHeartbeat \/ Return
  \/ CloseConnection

Spec == Init /\ [][Next]_vars

-----------------------------------------------------------------------------
(* Properties.                                                             *)

(* Every byte is written inside the block: growing by the length of the    *)
(* write is enough, although the position may be anywhere in the block.    *)
WritesInside == pos <= Len(bytes)

(* What pb_finalize would send is the current packet, all of it and        *)
(* nothing else: no leftovers of the keep_alive that is never reset, nor   *)
(* bytes that were never written.                                          *)
PacketIsOwn ==
  mode # "idle" => pos = written /\ \A i \in 1 .. pos : bytes[i] = "own"

(* The block never shrinks, but it stays within the length of one write of *)
(* the longest packet: a client costs no more memory the longer it stays.  *)
CapBounded == Len(bytes) <= highest + Longest
=============================================================================
