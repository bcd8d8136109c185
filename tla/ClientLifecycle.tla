--------------------------- MODULE ClientLifecycle ---------------------------
(***************************************************************************)
(* The life of a client connection in the Emcee server: the table of       *)
(* MAX_PLAYERS slots of server.c, the libuv stream and timer handles that  *)
(* refer to it, and the heap blocks a slot owns, as the callbacks of       *)
(* main.c and client.c change them.                                        *)
(*                                                                         *)
(* The process is single threaded.  libuv runs an iteration of its loop in *)
(* phases: first the timers that have expired, then the I/O callbacks,     *)
(* then the close callbacks of the handles closed in this iteration.       *)
(* Within a phase the callbacks run in an order the program does not       *)
(* choose, each one to its end.                                            *)
(***************************************************************************)
EXTENDS Naturals

CONSTANTS
  Streams,     \* addresses malloc can return for a uv_tcp_t
  MaxPlayers,  \* MAX_PLAYERS, the number of slots of g_server.clients
  NoStream,    \* the null uv_stream_t pointer
  NoSlot,      \* handle->data of a stream that is not allocated
  Faults       \* what the environment may do to end the process

ASSUME MaxPlayersAssumption == MaxPlayers \in Nat \ {0}
ASSUME NullAssumption == NoStream \notin Streams /\ NoSlot \notin Nat
ASSUME FaultsAssumption ==
  Faults \subseteq {"listen_error", "accept_error", "read_error", "stop"}

VARIABLES
  run,     \* "running", "stopping" after uv_stop, "exited", or why it aborted
  phase,   \* phase of the current loop iteration
  due,     \* slots whose heartbeat has expired and has not been run yet
  stream,  \* state of each stream handle
  data,    \* handle->data of each stream: the slot of its NetClientData
  free,    \* g_server.clients[i].free
  client   \* g_server.clients[i].client, the part that outlives a packet

vars == <<run, phase, due, stream, data, free, client>>

Slots == 0 .. MaxPlayers - 1

(* A pointer the code has nulled, one to a block it owns, and one it freed *)
(* without clearing.                                                       *)
Pointers == {"null", "live", "dangling"}

NetClientData ==
  [client_stream : Streams \cup {NoStream},
   heartbeat     : {"zeroed", "idle", "armed"},
   read_buffer   : Pointers,
   packet_data   : Pointers,
   pb            : Pointers]

ZeroedClient ==
  [client_stream |-> NoStream, heartbeat |-> "zeroed",
   read_buffer |-> "null", packet_data |-> "null", pb |-> "null"]

(* malloc when the pointer is null, realloc or reuse of the block if not:  *)
(* a dangling pointer stays one.                                           *)
Alloc(p) == IF p = "null" THEN "live" ELSE p

(* free(p) with p left as it is.  Freeing a block twice corrupts the heap, *)
(* which TypeOK rules out.                                                 *)
Freed(p) == CASE p = "null" -> "null"
              [] p = "live" -> "dangling"
              [] OTHER      -> "corrupt"

Aborted == {"no_slot", "listen_error", "accept_error", "read_error", "assertion"}

Up == run \in {"running", "stopping"}

Init ==
  /\ run = "running"
  /\ phase = "timers"
  /\ due = {}
  /\ stream = [c \in Streams |-> "unallocated"]
  /\ data = [c \in Streams |-> NoSlot]
  /\ free = [s \in Slots |-> TRUE]
  /\ client = [s \in Slots |-> ZeroedClient]

-----------------------------------------------------------------------------
(* Connections.                                                            *)

(* Mutant: server_new_client hands out a slot without looking at its flag. *)
FirstFree_Unchecked(s) == \A t \in Slots : t < s => ~free[t]

(* server_new_client: the first free slot of the table, if there is one.   *)
FirstFree(s) == free[s] /\ \A t \in Slots : t < s => ~free[t]

(* Mutant: server_new_client without its memset.                           *)
FreshClient_NotZeroed(s, c) ==
  [client[s] EXCEPT !.client_stream = c, !.heartbeat = "idle"]

(* The memset of server_new_client, the uv_timer_init and the assignment   *)
(* of client_stream in new_connection_cb.                                  *)
FreshClient(s, c) ==
  [ZeroedClient EXCEPT !.client_stream = c, !.heartbeat = "idle"]

(* new_connection_cb: the slot is zeroed, its timer handle initialised and *)
(* stream and slot are made to point at each other.                        *)
NewConnection(c, s) ==
  /\ Up /\ phase = "poll"
  /\ stream[c] = "unallocated"
  /\ FirstFree(s)
  /\ stream' = [stream EXCEPT ![c] = "open"]
  /\ data' = [data EXCEPT ![c] = s]
  /\ free' = [free EXCEPT ![s] = FALSE]
  /\ client' = [client EXCEPT ![s] = FreshClient(s, c)]
  /\ UNCHANGED <<run, phase, due>>

(* new_connection_cb when every slot is taken: server_new_client runs into *)
(* its ASSERT(false), which aborts the process.                            *)
NewConnectionNoSlot(c) ==
  /\ Up /\ phase = "poll"
  /\ stream[c] = "unallocated"
  /\ \A s \in Slots : ~free[s]
  /\ run' = "no_slot"
  /\ UNCHANGED <<phase, due, stream, data, free, client>>

(* new_connection_cb on a failed listen: ASSERT(status >= 0).              *)
ListenError ==
  /\ "listen_error" \in Faults
  /\ Up /\ phase = "poll"
  /\ run' = "listen_error"
  /\ UNCHANGED <<phase, due, stream, data, free, client>>

(* new_connection_cb when uv_accept fails: CHECK_UV aborts the process,    *)
(* and the slot and the stream just prepared go with it.                   *)
AcceptError(c) ==
  /\ "accept_error" \in Faults
  /\ Up /\ phase = "poll"
  /\ stream[c] = "unallocated"
  /\ \E s \in Slots : FirstFree(s)
  /\ run' = "accept_error"
  /\ UNCHANGED <<phase, due, stream, data, free, client>>

-----------------------------------------------------------------------------
(* Reads.  libuv asks default_alloc_cb for a buffer before every read, so  *)
(* the read buffer is allocated whatever the read returns.                 *)

Readable(c) == Up /\ phase = "poll" /\ stream[c] = "open"

(* connection_read_cb on bytes that do not complete a packet; the packet   *)
(* buffer is allocated once the length prefix is complete.                 *)
ReadPartial(c) ==
  /\ Readable(c)
  /\ \E lengthKnown \in BOOLEAN :
       client' = [client EXCEPT
         ![data[c]].read_buffer = Alloc(@),
         ![data[c]].packet_data = IF lengthKnown THEN Alloc(@) ELSE @]
  /\ UNCHANGED <<run, phase, due, stream, data, free>>

(* connection_read_cb when the bytes complete a packet.  writes: the       *)
(* handler builds a packet of its own; starts: it arms the heartbeat, or   *)
(* arms it again.  A read that holds several packets is a step for each:   *)
(* the same packets could have come in reads of their own.                 *)
ReadPacket(c, writes, starts) ==
  /\ Readable(c)
  /\ client' = [client EXCEPT
       ![data[c]].read_buffer = Alloc(@),
       ![data[c]].packet_data = Alloc(@),
       ![data[c]].pb = IF writes THEN Alloc(@) ELSE @,
       ![data[c]].heartbeat = IF starts THEN "armed" ELSE @]
  /\ due' = IF starts THEN due \ {data[c]} ELSE due
  /\ UNCHANGED <<run, phase, stream, data, free>>

(* A packet for which an ASSERT of the code fails: it is shorter than its  *)
(* fields, or none is expected.                                            *)
ReadPacketAborts(c) ==
  /\ Readable(c)
  /\ run' = "assertion"
  /\ UNCHANGED <<phase, due, stream, data, free, client>>

(* Mutant: the slot is given back at once, not by the close callback.      *)
ReadEof_FreesSlot(c) ==
  /\ Readable(c)
  /\ client' = [client EXCEPT ![data[c]].read_buffer = Alloc(@)]
  /\ stream' = [stream EXCEPT ![c] = "closing"]
  /\ free' = [free EXCEPT ![data[c]] = TRUE]
  /\ UNCHANGED <<run, phase, due, data>>

(* connection_read_cb on UV_EOF: the stream is closed, its close callback  *)
(* runs in the closing phase.                                              *)
ReadEof(c) ==
  /\ Readable(c)
  /\ client' = [client EXCEPT ![data[c]].read_buffer = Alloc(@)]
  /\ stream' = [stream EXCEPT ![c] = "closing"]
  /\ UNCHANGED <<run, phase, due, data, free>>

(* connection_read_cb on any other error: CHECK_UV(nread) aborts.          *)
ReadError(c) ==
  /\ "read_error" \in Faults
  /\ Readable(c)
  /\ run' = "read_error"
  /\ UNCHANGED <<phase, due, stream, data, free, client>>

-----------------------------------------------------------------------------
(* Closing and the heartbeat timer.                                        *)

(* Mutants of net_client_close_connection_cb: the timer keeps running; the *)
(* packet buffer is not freed.                                             *)
ReleasedClient_TimerRuns(s) ==
  [client[s] EXCEPT !.pb = "null", !.read_buffer = Freed(@), !.packet_data = Freed(@)]
ReleasedClient_Leaks(s) ==
  [client[s] EXCEPT !.heartbeat = "idle", !.pb = "null", !.read_buffer = Freed(@)]

(* The timer is stopped and the blocks of the slot are freed.  Only        *)
(* pb_delete clears the pointer it frees.                                  *)
ReleasedClient(s) ==
  [client[s] EXCEPT !.heartbeat = "idle", !.pb = "null",
                    !.read_buffer = Freed(@), !.packet_data = Freed(@)]

(* Mutant: server_free_client does not find the slot of its client.        *)
FreeSlot_Missed(s) == free

(* server_free_client.                                                     *)
FreeSlot(s) == [free EXCEPT ![s] = TRUE]

(* net_client_close_connection_cb: stop the timer, free the blocks of the  *)
(* slot, give the slot back and free the stream handle.                    *)
CloseConnection(c) ==
  /\ Up /\ phase = "closing"
  /\ stream[c] = "closing"
  /\ client' = [client EXCEPT ![data[c]] = ReleasedClient(data[c])]
  /\ due' = {s \in due : client'[s].heartbeat = "armed"}
  /\ free' = FreeSlot(data[c])
  /\ stream' = [stream EXCEPT ![c] = "unallocated"]
  /\ data' = [data EXCEPT ![c] = NoSlot]
  /\ UNCHANGED <<run, phase>>

(* The two seconds of an armed heartbeat pass while the loop waits in poll.*)
HeartbeatExpires(s) ==
  /\ Up /\ phase = "poll"
  /\ client[s].heartbeat = "armed"
  /\ s \notin due
  /\ due' = due \cup {s}
  /\ UNCHANGED <<run, phase, stream, data, free, client>>

(* Mutant: the timer is started without a repeat.                          *)
SendHeartbeat_Once(s) ==
  /\ Up /\ phase = "timers"
  /\ s \in due
  /\ due' = due \ {s}
  /\ client' = [client EXCEPT ![s].pb = Alloc(@), ![s].heartbeat = "idle"]
  /\ UNCHANGED <<run, phase, stream, data, free>>

(* net_client_send_heartbeat_cb: a keep_alive is built in the slot's own   *)
(* builder and written to its stream; the timer repeats.                   *)
SendHeartbeat(s) ==
  /\ Up /\ phase = "timers"
  /\ s \in due
  /\ due' = due \ {s}
  /\ client' = [client EXCEPT ![s].pb = Alloc(@)]
  /\ UNCHANGED <<run, phase, stream, data, free>>

-----------------------------------------------------------------------------
(* The loop.                                                               *)

(* on_stdin_ready: a line break on stdin stops the loop after the current  *)
(* iteration.                                                              *)
StdinStop ==
  /\ "stop" \in Faults
  /\ run = "running" /\ phase = "poll"
  /\ run' = "stopping"
  /\ UNCHANGED <<phase, due, stream, data, free, client>>

TimersDone ==
  /\ Up /\ phase = "timers"
  /\ due = {}
  /\ phase' = "poll"
  /\ UNCHANGED <<run, due, stream, data, free, client>>

PollDone ==
  /\ Up /\ phase = "poll"
  /\ phase' = "closing"
  /\ UNCHANGED <<run, due, stream, data, free, client>>

ClosingDone ==
  /\ Up /\ phase = "closing"
  /\ \A c \in Streams : stream[c] # "closing"
  /\ run' = IF run = "stopping" THEN "exited" ELSE run
  /\ phase' = "timers"
  /\ UNCHANGED <<due, stream, data, free, client>>

(* main has returned or the process has aborted.                           *)
Terminated == ~Up /\ UNCHANGED vars

LoopStep == TimersDone \/ PollDone \/ ClosingDone

Next ==
  \/ \E c \in Streams, s \in Slots : NewConnection(c, s)
  \/ \E c \in Streams : NewConnectionNoSlot(c)
  \/ ListenError
  \/ \E c \in Streams : AcceptError(c)
  \/ \E c \in Streams : ReadPartial(c)
  \/ \E c \in Streams, writes, starts \in BOOLEAN : ReadPacket(c, writes, starts)
  \/ \E c \in Streams : ReadPacketAborts(c)
  \/ \E c \in Streams : ReadEof(c)
  \/ \E c \in Streams : ReadError(c)
  \/ \E c \in Streams : CloseConnection(c)
  \/ \E s \in Slots : HeartbeatExpires(s)
  \/ \E s \in Slots : SendHeartbeat(s)
  \/ StdinStop
  \/ LoopStep
  \/ Terminated

Spec == Init /\ [][Next]_vars

(* libuv keeps turning its loop, runs every close callback and every       *)
(* expired timer of an iteration, and time passes for an armed timer.      *)
Fairness ==
  /\ WF_vars(LoopStep)
  /\ \A c \in Streams : WF_vars(CloseConnection(c))
  /\ \A s \in Slots : WF_vars(SendHeartbeat(s)) /\ SF_vars(HeartbeatExpires(s))

FairSpec == Spec /\ Fairness

-----------------------------------------------------------------------------
(* Properties.                                                             *)

(* The type invariant.                                                     *)
TypeOK ==
  /\ run \in {"running", "stopping", "exited"} \cup Aborted
  /\ phase \in {"timers", "poll", "closing"}
  /\ due \subseteq Slots
  /\ stream \in [Streams -> {"unallocated", "open", "closing"}]
  /\ data \in [Streams -> Slots \cup {NoSlot}]
  /\ free \in [Slots -> BOOLEAN]
  /\ client \in [Slots -> NetClientData]

(* A slot is in use exactly as long as a stream points at it, and the two  *)
(* point at each other: server_broadcast, which follows client_stream of   *)
(* every slot that is not free, never follows a freed handle, and the      *)
(* handle->data a callback follows is never another client's slot.         *)
SlotOwnership ==
  /\ \A s \in Slots : ~free[s] =>
       /\ client[s].client_stream \in Streams
       /\ stream[client[s].client_stream] # "unallocated"
       /\ data[client[s].client_stream] = s
  /\ \A c \in Streams : stream[c] # "unallocated" =>
       /\ data[c] \in Slots
       /\ ~free[data[c]]
       /\ client[data[c]].client_stream = c

Blocks(s) == {client[s].read_buffer, client[s].packet_data, client[s].pb}

(* The next memset of a free slot loses no block, and no callback of a     *)
(* client in use reads, reallocates or frees a block that was freed when   *)
(* an earlier client left the slot.                                        *)
HeapSafety ==
  \A s \in Slots : /\ free[s] => "live" \notin Blocks(s)
                   /\ ~free[s] => "dangling" \notin Blocks(s)

(* A free slot has no armed or expired timer, so zeroing the slot for its  *)
(* next client never overwrites a handle in libuv's timer heap.            *)
TimerSafety ==
  \A s \in Slots : client[s].heartbeat = "armed" \/ s \in due
                     => ~free[s] /\ client[s].heartbeat = "armed"

(* A heartbeat is only ever written to a stream that is open: close        *)
(* callbacks, which stop the timer, run before the next timer phase.       *)
HeartbeatStreamOpen ==
  phase = "timers" => \A s \in due : stream[client[s].client_stream] = "open"

(* A slot whose client has left is given back, unless the process aborts   *)
(* before the closing phase of the iteration.                              *)
ClosedIsReleased ==
  \A c \in Streams, s \in Slots :
    (stream[c] = "closing" /\ data[c] = s) ~> (free[s] \/ run \in Aborted)

(* The slot table seen from the rest of the server: a slot that is not     *)
(* free belongs to the stream it writes to.                                *)
PoolMode == IF Up THEN "up" ELSE IF run = "no_slot" THEN "overflow" ELSE "down"

PoolOwner == [s \in Slots |-> IF free[s] THEN NoStream ELSE client[s].client_stream]

PoolBeating == {s \in Slots : client[s].heartbeat = "armed"}

Pool == INSTANCE ConnectionPool WITH
  Nobody <- NoStream, mode <- PoolMode, owner <- PoolOwner, beating <- PoolBeating

(* The callbacks of main.c and client.c implement ConnectionPool: whatever *)
(* the order of reads, disconnects, reconnects and close callbacks, a      *)
(* client in use keeps its slot to itself, its heartbeat stops when it     *)
(* leaves, and no connection is turned away while a slot is free.          *)
ImplementsPool == Pool!Spec

(* The ASSERT(false) at the end of server_new_client says that a new       *)
(* connection always finds a free slot.  It does not when MAX_PLAYERS      *)
(* clients are connected, or have left in this iteration of the loop.      *)
SlotForEveryConnection == run # "no_slot"
=============================================================================
