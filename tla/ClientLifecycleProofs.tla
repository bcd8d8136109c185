------------------------ MODULE ClientLifecycleProofs ------------------------
(***************************************************************************)
(* Proofs, for every number of slots and every set of streams, of the      *)
(* safety properties of ClientLifecycle.                                   *)
(***************************************************************************)
EXTENDS ClientLifecycle, TLAPS

(* No stream is closing while timers run: the loop reaches its timers only *)
(* through ClosingDone, and only callbacks of the poll phase close.        *)
LoopOrder == phase = "timers" => \A c \in Streams : stream[c] # "closing"

(* The inductive invariant.  The properties lean on one another: that the  *)
(* blocks of a slot in use are not dangling needs the slot's stream to be  *)
(* its own, that a heartbeat finds a stream needs a timer to stop with its *)
(* slot.                                                                   *)
IInv == TypeOK /\ SlotOwnership /\ HeapSafety /\ TimerSafety /\ LoopOrder

(* What an open or closing stream knows of its slot.                       *)
LEMMA StreamSlot ==
  ASSUME IInv, NEW c \in Streams, stream[c] # "unallocated"
  PROVE  /\ data[c] \in Slots
         /\ ~free[data[c]]
         /\ client[data[c]].client_stream = c
         /\ client[data[c]] \in NetClientData
         /\ "dangling" \notin Blocks(data[c])
BY DEF IInv, TypeOK, SlotOwnership, HeapSafety

LEMMA AllocLive ==
  ASSUME NEW p \in Pointers, p # "dangling"
  PROVE  Alloc(p) = "live"
BY DEF Alloc, Pointers

LEMMA FreedBlock ==
  ASSUME NEW p \in Pointers, p # "dangling"
  PROVE  Freed(p) \in {"null", "dangling"}
BY DEF Freed, Pointers

LEMMA InitInv == Init => IInv
BY NullAssumption DEF Init, IInv, TypeOK, SlotOwnership, HeapSafety, TimerSafety,
   LoopOrder, NetClientData, ZeroedClient, Pointers, Blocks

LEMMA NewConnectionInv ==
  ASSUME IInv, NEW c \in Streams, NEW s \in Slots, NewConnection(c, s)
  PROVE  IInv'
<1> USE DEF IInv, NewConnection, FirstFree
<1>1. /\ FreshClient(s, c) \in NetClientData
      /\ FreshClient(s, c).client_stream = c
      /\ FreshClient(s, c).heartbeat = "idle"
      /\ FreshClient(s, c).read_buffer = "null"
      /\ FreshClient(s, c).packet_data = "null"
      /\ FreshClient(s, c).pb = "null"
  BY DEF FreshClient, ZeroedClient, NetClientData, Pointers
<1>2. TypeOK'
  BY <1>1 DEF TypeOK, Up
<1>3. SlotOwnership'
  BY <1>1, NullAssumption DEF TypeOK, SlotOwnership
<1>4. HeapSafety'
  BY <1>1 DEF TypeOK, HeapSafety, Blocks
<1>5. TimerSafety'
  BY <1>1 DEF TypeOK, TimerSafety
<1>6. LoopOrder'
  BY DEF LoopOrder
<1>7. QED
  BY <1>2, <1>3, <1>4, <1>5, <1>6

(* Reads change no more than the slot of their stream: its buffers become  *)
(* live and its heartbeat may be armed.                                    *)
LEMMA SlotUpdateInv ==
  ASSUME IInv,
         NEW s \in Slots, ~free[s],
         NEW r \in NetClientData,
         r.client_stream = client[s].client_stream,
         "dangling" \notin {r.read_buffer, r.packet_data, r.pb},
         client' = [client EXCEPT ![s] = r],
         due' \subseteq due,
         s \in due' => r.heartbeat = "armed",
         UNCHANGED <<run, phase, stream, data, free>>
  PROVE  IInv'
<1> USE DEF IInv
<1>1. TypeOK'
  BY DEF TypeOK
<1>2. SlotOwnership'
  BY DEF TypeOK, SlotOwnership
<1>3. HeapSafety'
  BY DEF TypeOK, HeapSafety, Blocks
<1>4. TimerSafety'
  BY DEF TypeOK, TimerSafety
<1>5. LoopOrder'
  BY DEF LoopOrder
<1>6. QED
  BY <1>1, <1>2, <1>3, <1>4, <1>5

LEMMA ReadPartialInv ==
  ASSUME IInv, NEW c \in Streams, ReadPartial(c)
  PROVE  IInv'
<1> DEFINE s == data[c]
<1>1. /\ s \in Slots /\ ~free[s]
      /\ client[s] \in NetClientData
      /\ "dangling" \notin Blocks(s)
  BY StreamSlot DEF ReadPartial, Readable
<1>2. PICK lengthKnown \in BOOLEAN :
        client' = [client EXCEPT
          ![s].read_buffer = Alloc(@),
          ![s].packet_data = IF lengthKnown THEN Alloc(@) ELSE @]
  BY DEF ReadPartial
<1> DEFINE r == [client[s] EXCEPT
                   !.read_buffer = Alloc(@),
                   !.packet_data = IF lengthKnown THEN Alloc(@) ELSE @]
<1>3. client' = [client EXCEPT ![s] = r]
  BY <1>1, <1>2 DEF IInv, TypeOK
<1>4. /\ Alloc(client[s].read_buffer) = "live"
      /\ Alloc(client[s].packet_data) = "live"
  BY <1>1, AllocLive DEF NetClientData, Blocks
<1>5. /\ r \in NetClientData
      /\ r.client_stream = client[s].client_stream
      /\ r.heartbeat = client[s].heartbeat
      /\ "dangling" \notin {r.read_buffer, r.packet_data, r.pb}
  BY <1>1, <1>4 DEF NetClientData, Blocks, Pointers
<1>6. s \in due' => r.heartbeat = "armed"
  BY <1>1, <1>5 DEF ReadPartial, IInv, TimerSafety
<1>7. QED
  <2> HIDE DEF r, s
  <2> QED
    BY <1>1, <1>3, <1>5, <1>6, SlotUpdateInv DEF ReadPartial

LEMMA ReadPacketInv ==
  ASSUME IInv, NEW c \in Streams, NEW writes \in BOOLEAN, NEW starts \in BOOLEAN,
         ReadPacket(c, writes, starts)
  PROVE  IInv'
<1> DEFINE s == data[c]
           r == [client[s] EXCEPT
                   !.read_buffer = Alloc(@),
                   !.packet_data = Alloc(@),
                   !.pb = IF writes THEN Alloc(@) ELSE @,
                   !.heartbeat = IF starts THEN "armed" ELSE @]
<1>1. /\ s \in Slots /\ ~free[s]
      /\ client[s] \in NetClientData
      /\ "dangling" \notin Blocks(s)
  BY StreamSlot DEF ReadPacket, Readable
<1>2. client' = [client EXCEPT ![s] = r]
  BY <1>1 DEF IInv, TypeOK, ReadPacket
<1>3. /\ Alloc(client[s].read_buffer) = "live"
      /\ Alloc(client[s].packet_data) = "live"
      /\ Alloc(client[s].pb) = "live"
  BY <1>1, AllocLive DEF NetClientData, Blocks
<1>4. /\ r \in NetClientData
      /\ r.client_stream = client[s].client_stream
      /\ r.heartbeat = IF starts THEN "armed" ELSE client[s].heartbeat
      /\ "dangling" \notin {r.read_buffer, r.packet_data, r.pb}
  BY <1>1, <1>3 DEF NetClientData, Blocks, Pointers
<1>5. due' \subseteq due /\ (s \in due' => r.heartbeat = "armed")
  BY <1>1, <1>4 DEF ReadPacket, IInv, TimerSafety
<1>6. QED
  <2> HIDE DEF r, s
  <2> QED
    BY <1>1, <1>2, <1>4, <1>5, SlotUpdateInv DEF ReadPacket

LEMMA SendHeartbeatInv ==
  ASSUME IInv, NEW s \in Slots, SendHeartbeat(s)
  PROVE  IInv'
<1> DEFINE r == [client[s] EXCEPT !.pb = Alloc(@)]
<1>1. /\ ~free[s]
      /\ client[s] \in NetClientData
      /\ "dangling" \notin Blocks(s)
  BY DEF SendHeartbeat, IInv, TypeOK, HeapSafety, TimerSafety
<1>2. client' = [client EXCEPT ![s] = r]
  BY DEF SendHeartbeat, IInv, TypeOK
<1>3. Alloc(client[s].pb) = "live"
  BY <1>1, AllocLive DEF NetClientData, Blocks
<1>4. /\ r \in NetClientData
      /\ r.client_stream = client[s].client_stream
      /\ "dangling" \notin {r.read_buffer, r.packet_data, r.pb}
  BY <1>1, <1>3 DEF NetClientData, Blocks, Pointers
<1>5. due' \subseteq due /\ s \notin due'
  BY DEF SendHeartbeat
<1>6. QED
  <2> HIDE DEF r
  <2> QED
    BY <1>1, <1>2, <1>4, <1>5, SlotUpdateInv DEF SendHeartbeat

LEMMA ReadEofInv ==
  ASSUME IInv, NEW c \in Streams, ReadEof(c)
  PROVE  IInv'
<1> DEFINE s == data[c]
           r == [client[s] EXCEPT !.read_buffer = Alloc(@)]
<1>1. /\ s \in Slots /\ ~free[s]
      /\ client[s] \in NetClientData
      /\ "dangling" \notin Blocks(s)
  BY StreamSlot DEF ReadEof, Readable
<1>2. client' = [client EXCEPT ![s] = r]
  BY <1>1 DEF IInv, TypeOK, ReadEof
<1>3. Alloc(client[s].read_buffer) = "live"
  BY <1>1, AllocLive DEF NetClientData, Blocks
<1>4. /\ r \in NetClientData
      /\ r.client_stream = client[s].client_stream
      /\ r.heartbeat = client[s].heartbeat
      /\ "dangling" \notin {r.read_buffer, r.packet_data, r.pb}
  BY <1>1, <1>3 DEF NetClientData, Blocks, Pointers
<1> HIDE DEF r
<1> USE DEF IInv, ReadEof, Readable
<1>5. TypeOK'
  BY <1>2, <1>4 DEF TypeOK
<1>6. SlotOwnership'
  BY <1>1, <1>2, <1>4 DEF TypeOK, SlotOwnership
<1>7. HeapSafety'
  BY <1>1, <1>2, <1>4 DEF TypeOK, HeapSafety, Blocks
<1>8. TimerSafety'
  BY <1>1, <1>2, <1>4 DEF TypeOK, TimerSafety
<1>9. LoopOrder'
  BY DEF LoopOrder
<1>10. QED
  BY <1>5, <1>6, <1>7, <1>8, <1>9

(* Two streams have two slots, so the slot a close callback gives back is  *)
(* no other client's.                                                      *)
LEMMA CloseConnectionInv ==
  ASSUME IInv, NEW c \in Streams, CloseConnection(c)
  PROVE  IInv'
<1> DEFINE s == data[c]
           r == ReleasedClient(s)
<1>1. /\ s \in Slots /\ ~free[s]
      /\ client[s] \in NetClientData
      /\ client[s].client_stream = c
      /\ "dangling" \notin Blocks(s)
  BY StreamSlot DEF CloseConnection
<1>2. /\ Freed(client[s].read_buffer) \in {"null", "dangling"}
      /\ Freed(client[s].packet_data) \in {"null", "dangling"}
  BY <1>1, FreedBlock DEF NetClientData, Blocks
<1>3. /\ r \in NetClientData
      /\ r.heartbeat = "idle"
      /\ "live" \notin {r.read_buffer, r.packet_data, r.pb}
  BY <1>1, <1>2 DEF ReleasedClient, NetClientData, Pointers
<1>4. /\ client' = [client EXCEPT ![s] = r]
      /\ free' = [free EXCEPT ![s] = TRUE]
      /\ due' = {t \in due : client'[t].heartbeat = "armed"}
  BY DEF CloseConnection, FreeSlot
<1>5. \A d \in Streams : d # c /\ stream[d] # "unallocated" => data[d] # s
  BY <1>1 DEF IInv, SlotOwnership
<1> HIDE DEF r
<1> USE DEF IInv, CloseConnection
<1>6. TypeOK'
  <2>1. client' \in [Slots -> NetClientData] /\ free' \in [Slots -> BOOLEAN]
    BY <1>1, <1>3, <1>4 DEF TypeOK
  <2>2. due' \subseteq Slots
    BY <1>4 DEF TypeOK
  <2>3. QED
    BY <2>1, <2>2 DEF TypeOK
<1>7. SlotOwnership'
  BY <1>1, <1>4, <1>5 DEF TypeOK, SlotOwnership
<1>8. HeapSafety'
  BY <1>1, <1>3, <1>4 DEF TypeOK, HeapSafety, Blocks
<1>9. TimerSafety'
  BY <1>1, <1>3, <1>4 DEF TypeOK, TimerSafety
<1>10. LoopOrder'
  BY DEF LoopOrder
<1>11. QED
  BY <1>6, <1>7, <1>8, <1>9, <1>10

(* The remaining actions leave the slots and the streams alone.            *)
LEMMA LoopInv ==
  ASSUME IInv, UNCHANGED <<stream, data, free, client>>,
         run' \in {"running", "stopping", "exited"} \cup Aborted,
         \/ UNCHANGED <<phase, due>>
         \/ \E s \in Slots : HeartbeatExpires(s)
         \/ TimersDone \/ PollDone \/ ClosingDone
  PROVE  IInv'
<1> USE DEF IInv
<1>1. TypeOK'
  BY DEF TypeOK, HeartbeatExpires, TimersDone, PollDone, ClosingDone
<1>2. SlotOwnership' /\ HeapSafety'
  BY DEF SlotOwnership, HeapSafety, Blocks
<1>3. TimerSafety'
  BY DEF TimerSafety, HeartbeatExpires, TimersDone, PollDone, ClosingDone
<1>4. LoopOrder'
  BY DEF LoopOrder, HeartbeatExpires, TimersDone, PollDone, ClosingDone
<1>5. QED
  BY <1>1, <1>2, <1>3, <1>4

LEMMA NextInv ==
  ASSUME IInv, [Next]_vars
  PROVE  IInv'
<1>1. CASE \E c \in Streams, s \in Slots : NewConnection(c, s)
  BY <1>1, NewConnectionInv
<1>2. CASE \E c \in Streams : NewConnectionNoSlot(c)
  BY <1>2, LoopInv DEF NewConnectionNoSlot, Aborted
<1>3. CASE ListenError \/ \E c \in Streams : AcceptError(c)
  BY <1>3, LoopInv DEF ListenError, AcceptError, Aborted
<1>4. CASE \E c \in Streams : ReadPartial(c)
  BY <1>4, ReadPartialInv
<1>5. CASE \E c \in Streams, writes, starts \in BOOLEAN : ReadPacket(c, writes, starts)
  BY <1>5, ReadPacketInv
<1>6. CASE \E c \in Streams : ReadPacketAborts(c)
  BY <1>6, LoopInv DEF ReadPacketAborts, Aborted
<1>7. CASE \E c \in Streams : ReadEof(c)
  BY <1>7, ReadEofInv
<1>8. CASE \E c \in Streams : ReadError(c)
  BY <1>8, LoopInv DEF ReadError, Aborted
<1>9. CASE \E c \in Streams : CloseConnection(c)
  BY <1>9, CloseConnectionInv
<1>10. CASE \E s \in Slots : HeartbeatExpires(s)
  BY <1>10, LoopInv DEF HeartbeatExpires, IInv, TypeOK
<1>11. CASE \E s \in Slots : SendHeartbeat(s)
  BY <1>11, SendHeartbeatInv
<1>12. CASE StdinStop
  BY <1>12, LoopInv DEF StdinStop
<1>13. CASE LoopStep
  BY <1>13, LoopInv DEF LoopStep, TimersDone, PollDone, ClosingDone, IInv, TypeOK
<1>14. CASE Terminated \/ UNCHANGED vars
  BY <1>14, LoopInv DEF Terminated, vars, IInv, TypeOK
<1>15. QED
  BY <1>1, <1>2, <1>3, <1>4, <1>5, <1>6, <1>7, <1>8, <1>9, <1>10, <1>11, <1>12,
     <1>13, <1>14 DEF Next

(* The invariant of the connections holds in every state they reach.       *)
THEOREM Invariance == Spec => []IInv
<1>1. Init => IInv
  BY InitInv
<1>2. IInv /\ [Next]_vars => IInv'
  BY NextInv
<1>3. QED
  BY <1>1, <1>2, PTL DEF Spec

(* Every variable keeps its type; in particular no block of a slot is ever *)
(* freed twice.                                                            *)
THEOREM TypeCorrect == Spec => []TypeOK
<1>1. IInv => TypeOK
  BY DEF IInv
<1>2. QED
  BY <1>1, Invariance, PTL

(* Slots in use and live streams point at each other, one to one.          *)
THEOREM SlotsOwned == Spec => []SlotOwnership
<1>1. IInv => SlotOwnership
  BY DEF IInv
<1>2. QED
  BY <1>1, Invariance, PTL

(* Reusing a slot loses no heap block and touches no freed one.            *)
THEOREM HeapSafe == Spec => []HeapSafety
<1>1. IInv => HeapSafety
  BY DEF IInv
<1>2. QED
  BY <1>1, Invariance, PTL

(* A slot is zeroed for its next client only when its timer is stopped.    *)
THEOREM TimersSafe == Spec => []TimerSafety
<1>1. IInv => TimerSafety
  BY DEF IInv
<1>2. QED
  BY <1>1, Invariance, PTL

(* Heartbeats find their stream open: an expired timer belongs to a slot   *)
(* in use, whose stream is its own and, in the timer phase, not closing.   *)
THEOREM HeartbeatsReachOpenStreams == Spec => []HeartbeatStreamOpen
<1>1. IInv => HeartbeatStreamOpen
  BY DEF IInv, TypeOK, SlotOwnership, TimerSafety, LoopOrder, HeartbeatStreamOpen
<1>2. QED
  BY <1>1, Invariance, PTL

-----------------------------------------------------------------------------
(* The refinement of ConnectionPool, step by step.                         *)

LEMMA PoolInit == Init => Pool!Init
BY DEF Init, Pool!Init, PoolMode, PoolOwner, PoolBeating, Up, ZeroedClient

(* Steps that leave owners and heartbeats alone stutter, or bring the      *)
(* server down.                                                            *)
LEMMA PoolStutter ==
  ASSUME UNCHANGED <<PoolOwner, PoolBeating>>,
         \/ UNCHANGED run
         \/ Up /\ run' # "no_slot"
  PROVE  [Pool!Next]_Pool!vars
BY DEF Pool!Next, Pool!GoDown, Pool!vars, PoolMode, Up

LEMMA PoolAdmit ==
  ASSUME IInv, NEW c \in Streams, NEW s \in Slots, NewConnection(c, s)
  PROVE  Pool!Admit(c, s)
<1> USE DEF NewConnection, FirstFree, IInv
<1>1. /\ PoolMode = "up" /\ UNCHANGED PoolMode
  BY DEF PoolMode, Up
<1>2. PoolOwner[s] = NoStream /\ s \notin PoolBeating
  BY DEF PoolOwner, PoolBeating, TimerSafety
<1>3. \A t \in Slots : PoolOwner[t] # c
  BY NullAssumption DEF PoolOwner, SlotOwnership
<1>4. FreshClient(s, c).client_stream = c /\ FreshClient(s, c).heartbeat = "idle"
  BY DEF FreshClient, ZeroedClient
<1>5. PoolOwner' = [PoolOwner EXCEPT ![s] = c]
  BY <1>4 DEF PoolOwner, TypeOK
<1>6. UNCHANGED PoolBeating
  BY <1>2, <1>4 DEF PoolBeating, TypeOK
<1>7. QED
  BY <1>1, <1>2, <1>3, <1>5, <1>6 DEF Pool!Admit

LEMMA PoolReadPacket ==
  ASSUME IInv, NEW c \in Streams, NEW writes \in BOOLEAN, NEW starts \in BOOLEAN,
         ReadPacket(c, writes, starts)
  PROVE  [Pool!Next]_Pool!vars
<1> DEFINE s == data[c]
<1>1. /\ s \in Slots /\ ~free[s] /\ client[s] \in NetClientData
      /\ client[s].client_stream = c
  BY StreamSlot DEF ReadPacket, Readable
<1>2. /\ client'[s].client_stream = c
      /\ client'[s].heartbeat = IF starts THEN "armed" ELSE client[s].heartbeat
      /\ \A t \in Slots \ {s} : client'[t] = client[t]
  BY <1>1 DEF ReadPacket, IInv, TypeOK, NetClientData
<1>3. UNCHANGED PoolOwner /\ UNCHANGED PoolMode
  <2>1. \A t \in Slots : client'[t].client_stream = client[t].client_stream
    BY <1>1, <1>2
  <2>2. UNCHANGED <<run, free>>
    BY DEF ReadPacket
  <2>3. QED
    BY <2>1, <2>2 DEF PoolOwner, PoolMode, Up
<1>4. CASE starts
  <2>1. PoolBeating' = PoolBeating \cup {s}
    BY <1>1, <1>2, <1>4 DEF PoolBeating
  <2>2. PoolMode = "up" /\ PoolOwner[s] # NoStream
    BY <1>1, NullAssumption DEF ReadPacket, Readable, PoolMode, PoolOwner
  <2>3. Pool!StartHeartbeat(s)
    BY <1>3, <2>1, <2>2 DEF Pool!StartHeartbeat
  <2>4. QED
    BY <1>1, <2>3 DEF Pool!Next
<1>5. CASE ~starts
  <2>1. UNCHANGED PoolBeating
    BY <1>1, <1>2, <1>5 DEF PoolBeating
  <2>2. QED
    BY <1>3, <2>1, PoolStutter DEF ReadPacket
<1>6. QED
  BY <1>4, <1>5

LEMMA PoolRelease ==
  ASSUME IInv, NEW c \in Streams, CloseConnection(c)
  PROVE  Pool!Release(data[c])
<1> DEFINE s == data[c]
<1>1. /\ s \in Slots /\ ~free[s] /\ client[s].client_stream = c
  BY StreamSlot DEF CloseConnection
<1>2. /\ client'[s].heartbeat = "idle"
      /\ \A t \in Slots \ {s} : client'[t] = client[t]
      /\ free' = [free EXCEPT ![s] = TRUE]
  BY <1>1 DEF CloseConnection, ReleasedClient, FreeSlot, IInv, TypeOK, NetClientData
<1>3. PoolMode = "up" /\ UNCHANGED PoolMode /\ PoolOwner[s] # NoStream
  BY <1>1, NullAssumption DEF CloseConnection, PoolMode, PoolOwner, Up
<1>4. PoolOwner' = [PoolOwner EXCEPT ![s] = NoStream]
  BY <1>1, <1>2 DEF PoolOwner, IInv, TypeOK
<1>5. PoolBeating' = PoolBeating \ {s}
  BY <1>1, <1>2 DEF PoolBeating
<1>6. QED
  BY <1>3, <1>4, <1>5 DEF Pool!Release

(* Reads and heartbeats change buffers only.                               *)
LEMMA PoolBuffers ==
  ASSUME IInv,
         \/ \E c \in Streams : ReadPartial(c) \/ ReadEof(c)
         \/ \E s \in Slots : SendHeartbeat(s)
  PROVE  [Pool!Next]_Pool!vars
<1>1. /\ \A t \in Slots : /\ client'[t].client_stream = client[t].client_stream
                          /\ client'[t].heartbeat = client[t].heartbeat
      /\ UNCHANGED <<run, free>>
  <2>1. CASE \E c \in Streams : ReadPartial(c)
    BY <2>1, StreamSlot DEF ReadPartial, Readable, IInv, TypeOK, NetClientData
  <2>2. CASE \E c \in Streams : ReadEof(c)
    BY <2>2, StreamSlot DEF ReadEof, Readable, IInv, TypeOK, NetClientData
  <2>3. CASE \E s \in Slots : SendHeartbeat(s)
    BY <2>3 DEF SendHeartbeat, IInv, TypeOK, NetClientData
  <2>4. QED
    BY <2>1, <2>2, <2>3
<1>2. UNCHANGED <<PoolOwner, PoolBeating>>
  BY <1>1 DEF PoolOwner, PoolBeating
<1>3. QED
  BY <1>1, <1>2, PoolStutter

LEMMA PoolNext ==
  ASSUME IInv, [Next]_vars
  PROVE  [Pool!Next]_Pool!vars
<1>1. CASE \E c \in Streams, s \in Slots : NewConnection(c, s)
  BY <1>1, PoolAdmit DEF Pool!Next
<1>2. CASE \E c \in Streams : NewConnectionNoSlot(c)
  BY <1>2, NullAssumption DEF NewConnectionNoSlot, Pool!Next, Pool!Overflow, PoolMode,
     PoolOwner, PoolBeating, Up, IInv, SlotOwnership
<1>3. CASE \E c \in Streams, writes, starts \in BOOLEAN : ReadPacket(c, writes, starts)
  BY <1>3, PoolReadPacket
<1>4. CASE \E c \in Streams : CloseConnection(c)
  <2>1. PICK c \in Streams : CloseConnection(c)
    BY <1>4
  <2>2. data[c] \in Slots /\ Pool!Release(data[c])
    BY <2>1, PoolRelease, StreamSlot DEF CloseConnection
  <2>3. QED
    BY <2>2 DEF Pool!Next
<1>5. CASE \/ \E c \in Streams : ReadPartial(c) \/ ReadEof(c)
           \/ \E s \in Slots : SendHeartbeat(s)
  BY <1>5, PoolBuffers
<1>6. CASE \/ ListenError \/ StdinStop \/ LoopStep \/ Terminated \/ UNCHANGED vars
           \/ \E c \in Streams : AcceptError(c) \/ ReadPacketAborts(c) \/ ReadError(c)
           \/ \E s \in Slots : HeartbeatExpires(s)
  <2>1. UNCHANGED <<free, client>> /\ (UNCHANGED run \/ (Up /\ run' # "no_slot"))
    BY <1>6 DEF ListenError, AcceptError, StdinStop, LoopStep, TimersDone, PollDone, ClosingDone,
       Terminated, vars, ReadPacketAborts, ReadError, Readable, HeartbeatExpires, Up
  <2>2. UNCHANGED <<PoolOwner, PoolBeating>>
    BY <2>1 DEF PoolOwner, PoolBeating
  <2>3. QED
    BY <2>1, <2>2, PoolStutter
<1>7. QED
  BY <1>1, <1>2, <1>3, <1>4, <1>5, <1>6 DEF Next

(* The slot table and its callbacks implement ConnectionPool: exclusive    *)
(* slots, heartbeats that stop with their client, and no connection turned *)
(* away while a slot is free.                                              *)
THEOREM PoolImplemented == Spec => ImplementsPool
<1>1. Init => Pool!Init
  BY PoolInit
<1>2. IInv /\ [Next]_vars => [Pool!Next]_Pool!vars
  BY PoolNext
<1>3. QED
  BY <1>1, <1>2, Invariance, PTL DEF Spec, ImplementsPool, Pool!Spec
=============================================================================
