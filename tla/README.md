# A verification project for Emcee

Emcee is a Minecraft 1.21.5 server in C on top of libuv.  These TLA+ modules
model the server from its source, TLC checks them on small instances, and the
TLA+ proof system proves the central properties for every number of slots, every
set of connections and packets of any content and of every length an int holds.

Paths below are relative to the repository; line numbers are of the modelled
commit.

## The system

| Component | Source | State | Operations |
|---|---|---|---|
| Event loop and entry points | `src/main.c` | loop phase, stop flag | `main`, `on_stdin_ready`, `new_connection_cb`, `default_alloc_cb` |
| Slot table | `src/server.c`, `src/server.h` | `clients[MAX_PLAYERS]` with `free`, `next_eid` | `server_new_client`, `server_free_client`, `server_broadcast`, `server_get_eid` |
| Client connection | `src/client.c`, `src/client.h` | `NetClientData`: stream, timer, buffers, protocol state, player | close callback, heartbeat callback |
| Packet framing | `src/main.c` 54-137, `PacketStream` in `src/packet.h` | parse state, size so far, buffer and position | `connection_read_cb`, `build_varint` |
| Sessions | `src/packet_handlers.[ch]` | `state`, `uuid`, `player.eid`, `player.pos` | one handler for each packet, `process_packet` |
| Packet reader, packet builder | `src/packet.c` | position and length; capacity and position | `pr_*`, `pb_*`, `send_finalized_packet`, `packet_sent_cb` |
| Data types | `src/data_types.[ch]`, `src/endian.[ch]` | none | `varint_from_int`, uuids, byte order |
| Packet layouts | `src/packet_types.[ch]` | none | one writer for each packet |
| Sending | `src/packet.c` 407-428, `src/server.c` 38-48 | copies of packets under a pending `uv_write` | `send_finalized_packet`, `server_broadcast`, `packet_sent_cb` |
| JSON documents | macros of `src/util.h`; `src/cJSON.[ch]` (vendored) | items in doubly linked lists; the printer's buffer | `JSON`, `FIELD_*`, `SUB_OBJ`, `ARR_ADD`, `cJSON_PrintUnformatted`, `cJSON_Parse`, `cJSON_Delete` |
| NBT | `src/packet.c` 299-405 | the builder | `pb_nbt_*`, `pb_json_to_nbt_recur` |
| Registry data, logging | `src/registry_data.h`, `src/log.[ch]` | none | tables, output |

The process has one thread.  libuv calls the server back in the order of its
loop: expired timers, then I/O (new connections, reads, stdin), then the close
callbacks of the handles closed in this iteration.  The callbacks share the slot
table: a stream's `data` points at its slot, the slot's `client_stream` points
back, the slot's timer points at the slot, and a broadcast walks over the slots
and writes to their streams.  A packet travels from `connection_read_cb` through
`process_packet` to a handler, which answers its own client through the slot's
`PacketBuilder` and tells the others with `server_broadcast`.

What is hard here, and what must hold:

- *Close windows and slot reuse.*  A stream that reached its end stays in its
  slot until the closing phase; then the slot's buffers are freed but their
  pointers kept, and the next client zeroes the slot.  No callback may touch a
  freed block, no block may be lost, no timer may survive its client.
- *Everyone joins at any time.*  Joins, disconnects and reconnects interleave
  with the handshakes of others.  Players must know of each other, entity ids
  must be unique, moves must be of known entities.
- *TCP chunks.*  Packets arrive in arbitrary pieces and must come out the same.
- *Packets that outlive their builder.*  libuv holds a packet after the builder
  was reset, written again or freed; a write may fail, be cancelled or refused.
- *Documents half built.*  Every allocation of the JSON macros, the printer and
  the parser may fail; the printer's buffer grows while it is written.
- *Limits.*  Slots, builder capacity, varint length, entity ids, the 16-bit
  movement deltas, the signs of packed coordinates.
- *Liveness.*  Keep-alives recur; slots come back.

## The modules

| Module | Models | Extends or instantiates |
|---|---|---|
| `ConnectionPool` | what the connection layer promises: slots, their owners, who may get heartbeats | - |
| `ClientLifecycle` | slots, streams, timers, heap blocks and the phases of the event loop | instantiates `ConnectionPool` for `ImplementsPool` |
| `EmceeServer` | the protocol sessions on top of the connections: every handler, entity ids, broadcasts, what each client was told | instantiates `ClientLifecycle` |
| `PacketChannel` | what a slot promises to the handlers: the packets of its client, one by one | - |
| `PacketStream` | bytes to packets: `connection_read_cb` | instantiates `PacketChannel` for `ImplementsChannel` |
| `PacketBuilder` | packets to bytes: growth, writes, resets and sends | - |
| `PacketWrites` | the copies of packets that libuv holds, for the client and for others | extends `PacketBuilder` |
| `PacketFields` | the fields of packets, read and written back on hosts of either byte order | - |
| `VarInt` | the varint writer and both readers | - |
| `EntityTracking` | where the others see a player who moves | - |
| `JsonDocument` | what the JSON macros promise: a document built from the outside in | - |
| `JsonItems` | the items of cJSON, the JSON macros on top of them, failing allocations | - |
| `JsonText` | the unformatted printer and `pb_write_json`, step by step, and the text of a document | extends `JsonItems` |
| `JsonTrees` | the documents that the items stand for | extends `JsonText`, instantiates `JsonDocument` for `ImplementsDocument` |
| `JsonParse` | the parser, applied to what was printed | extends `JsonTrees` |
| `Nbt` | `pb_nbt_from_json` | extends `JsonTrees` |
| `JsonPackets` | the life of a document in a handler: built, written, deleted | extends `JsonParse`, `Nbt` |
| `*Proofs` | theorems about the module of that name (`PacketWritesProofs`: of `PacketBuilder` as well; `JsonProofs`: of `JsonItems` and `JsonText`) | extend it |
| `MC*` | values of the constants for TLC | extend the module |

**ClientLifecycle.** `free`, `client` are `g_server.clients[]`; `stream` is the
state of the heap-allocated `uv_tcp_t` handles, `data` their `data` pointer;
`client[s]` holds the stream pointer, the timer's state and, for each of the
three pointers to heap blocks, whether it is null, allocated or dangling.
`due` are the timers that have expired but not yet called back.  `phase` is the
phase of libuv's loop, `run` whether `main` is still running or how it ended.
One action for each callback: `NewConnection` (and `NewConnectionNoSlot`, the
`ASSERT(false)` of `server_new_client`), `ReadPartial`, `ReadPacket`,
`ReadPacketAborts`, `ReadEof`, `ReadError`, `CloseConnection`, `SendHeartbeat`,
`StdinStop`; `TimersDone`, `PollDone`, `ClosingDone` turn the loop and
`HeartbeatExpires` lets time pass.  `Faults` selects the outside events that end
the server: an error of listening (`ListenError`), of `uv_accept` (`AcceptError`) or
of a read, and a line on stdin.  A slot is reused exactly as in the code: nothing is cleared at
close but what `pb_delete` clears, and `server_new_client` zeroes the rest.

**EmceeServer.** One action for each handler of the tables in
`packet_handlers.h`, each of them the step of `ClientLifecycle` that reads the
packet together with what the handler does to the session and what it writes.
`sent` holds the packets of the last step, by receiving slot; `view` the
entities that a client was told of in PLAY, as the game client would keep them.
A packet is its type and, where it names an entity, the entity.  `uv_write` on a
closing stream writes nothing and its result is dropped, as in the code.
The handshake stores any state the client asks for (`packet_handlers.c` 33): it may
ask for CONFIG or PLAY at once, or for a number that is no state (`"UNNAMED"`).
A client that asks for PLAY gets its packets handled as a player's without
`hello` or `finish_configuration`: it has entity id 0 and no uuid (`Nobody`), no timer,
and nobody is told of its coming; those who join later are told of it as of any client
that has not joined (finding 3).  What the server promises it promises to clients that
`finish_configuration` has made players; the history `joined` tells them apart, and
the properties say what an impostor may not spoil: players keep an id that
no other player has, know each other, and get no move but of a player they know
or of `Nobody`.  A packet cut short fails an `ASSERT` of the
reader and ends the server from any state (`PacketAborts`).  Three kinds of packets
make the code leave its arrays and are left out, since anything may follow: an id
beyond the table of handlers (`packet_handlers.h` 85-100), a name of more than 16
bytes in `hello` (`packet_handlers.c` 113), and a negative sequence number in
`player_action`, which `varint_from_int` cannot write (finding 4).

**PacketStream.** `ps` is the `PacketStream` of a slot, `buf` what is left of the
read.  One action for each case of the `switch`; `Loops` is the condition of the
`while`.  `varint_pos` is held as the power of two it shifts by.  The client
side (`Send`, `Prefix`) is external; `Prefix` is a constant, the varint of every
length up to `MaxSize`, which is `INT_MAX` in the code.  A packet may be empty or too short
for its id: then `process_packet` reads a varint that is not there, and the `ASSERT`
of the reader ends the server (`PacketAborts`).  Lengths that no int holds or that are
negative, at which the code checks nothing (`main.c` 89 says so), and a `realloc`
that fails are left out.  `Ends[k]` is the place where the
first `k` packets of the client end in the bytes it sends; `NoneWithheld` says by it
that no packet whose last byte has been consumed waits for another read, unless it is
empty: the size 0 at the end of a read is acted on when the next one comes, as the
condition of the loop is the number of bytes left.  In the refinement of `PacketChannel` handlers see packets only: bytes, reads and the parse
state are hidden, and a new client starts with an empty channel.

**PacketBuilder.** The block is a sequence whose length is `cap`, each byte
marked with whose it is.  `WriteCopy` is `pb_write_copy`, to which all writes of
a fixed width and all strings come down; `WriteVarint` makes room twice, as the
code does.  `ProcessPacket` and `SendHeartbeat` start the two callbacks that
write, with their `pb_reset`; `Send` is a finalized packet with `reset_pb`,
for one client or several, `SentHeartbeat` the one without.

**PacketWrites.** The composition of one builder with the streams of all slots.
`Send` of `PacketBuilder` is conjoined with `Write`, for the client itself or for
all others (`server_broadcast`); `pending` are the copies that `pb_finalize` made
and libuv still holds, `allocated` counts them with their `PacketSentWrapper`.
The end of a write and the close of a stream, which cancels what is pending, are
external; both call `packet_sent_cb`.  On a closing stream `uv_write` refuses and
calls nobody, which the code does not notice: these packets stay in memory.
`Pending` counts the copies libuv holds, over all slots and places (`Places`).

**PacketFields.** A handler that reads a packet field by field and answers with
the same values, as `player_action` does with a position.  `Wire` is the
protocol's encoding, as the client sends it; a word is its bytes, the most
significant first, and passes through memory of the host's byte order
(`Memory`) and, with `IS_LITTLE_ENDIAN`, through the swaps.  A shift by bits is a
multiplication or a division by what these bits can count; `Signed` is the
conversion to a signed type.  Floating-point numbers are their bits.

**VarInt.** Each iteration of the three loops is an action, with bit operations
as arithmetic; the width of an int and of a segment are constants.

**EntityTracking.** `pos` is `client->player.pos`, in units of `1/Q` of the
1/4096 block that a difference counts; `view` is where a game client that adds
up the differences sees the player.  A difference out of the range of i16 is
undefined in C (a double converted to an integer type that cannot hold it) and
becomes any i16.  Rounding of the doubles themselves is left out.

**JsonItems.** `heap` are the `cJSON` structures with `next`, `prev` and `child`;
an item's name and string come and go with it.  One action for each macro, in
any nesting that compiles; `blocks` are the C blocks that are open.  Any
allocation may fail: the `goto fail` deletes `response`, and `ASSERT(json_ok)`
ends the process.  An element of `SUB_OBJ` that is not in its array yet is not
deleted, which is harmless as the process ends.  `Doomed` are the items that
`cJSON_Delete` frees, found by following `child` and `next`; that the walk ends and
frees nothing twice follows from `WellLinked`.  `Abort` stands for the `ASSERT`s after the
macro.  `JsonTrees` reads the items as values and lists as sequences, with a function that
is recursive along the lists; contents come after their container in memory, which is
why it exists.

**JsonText.** The printer of cJSON is recursive and writes into one buffer, calling
`ensure` before every piece.  A step of the model is what it does from one `ensure` to
the next: `printer` is the `printbuffer`, with its `offset` and every byte (`"?"` while
nothing was written there), and `calls` are the calls on the C stack, each with the
place where it goes on and its item: `print` at the bottom, a `print_array` or
`print_object` for every open container ("element", "field"), and what is written next.
At every step the growth of the buffer may fail, after which `print` gives up and
`pb_write_json` asserts (`GiveUp`).  `inside` turns false when a writer writes, or
`update_offset` looks for a NUL, beyond the buffer.  The counter of the bytes
a string needs and the writer each have their own list of the characters that are
escaped, as in the code (`cJSON.c` 957-973, 1000-1037).

**JsonParse.** Operators on a parse buffer, as the functions of cJSON are, with a budget
of allocations after which `malloc` fails.  The parser is not called by the server; it is
the reader that the printer is checked against.  An unknown escape or one cut short is
rejected, though the printer writes none.  `once` in the parse buffer turns false when
`cJSON_Delete` comes to an item twice or to one that is freed; the failing parse
functions are checked for it (`ParsesWholeOrNot`).  Byte order marks, error positions,
`\u` for anything but a control character, the decimal point of a locale and `strtod`
are left out.

**Nbt.** `pb_json_to_nbt_recur` as tokens: tags, names, sizes, payloads.  No
handler calls it yet.  Every element of a list carries a tag of its own, an empty
name writes no length, and an empty array, or one of anything but objects, runs
into `ASSERT(false)`: the reader of `NbtReadsBack` follows the writer in this, as
the code promises no more than that it is consistent.

## The runs

| Run | Instance | Shows |
|---|---|---|
| `lifecycle` | 2 slots, 3 streams, all faults | types, `SlotOwnership`, `HeapSafety`, `TimerSafety`, `HeartbeatStreamOpen`; the refinement of `ConnectionPool`; a slot whose client left is given back |
| `lifecycle_no_slot` | full table | one connection too many aborts the server (finding) |
| `server` | 2 slots, 3 streams, any state asked for, errors of listening, accepting and reading | types, entity ids unique, heartbeats stay with their player, players know each other and every mover, over reused slots and beside clients that have skipped the login |
| `server_liveness` | 2 slots, 2 streams, any state asked for, a line on stdin | keep-alives recur |
| `server_play_packets` | | broadcasts reach clients outside PLAY (finding) |
| `server_eids` | | a client that has not joined is announced with id 0 (finding) |
| `packet_stream` | 3 packets of 0 to 4 bytes for each of 2 clients, reads up to 4 bytes | packets whole, in order, at once and all of them; copies inside the block; the refinement of `PacketChannel` |
| `packet_builder` | writes of 1 to 3 bytes, packets up to 7, 3 clients, 3 pending writes | room for every write, packets apart, bounded block; what libuv holds stays as it was and is freed once |
| `varint` | 2-bit segments, 5-bit ints, 3 bytes; packets of 2 fields of 2-bit bytes | round trip, shortest, reader bounded; fields understood and answered on either host |
| `json` | 5 items, buffer of 4 bytes, nesting up to 3 | lists linked, nothing lost, the macros implement `JsonDocument`; text and NBT are the document, the buffer is never overrun, the parser reads it back or leaves nothing |
| `varint_eids` | | ids of the upper half overrun `VarInt.bytes` (finding) |
| `tracking` | 2 observers, 3 moves, differences -2 to 1 | drift and disagreement bounded |

*Bounds.*  Slots and streams: the code treats slots alike but for the order in
which it looks for a free one, and every property relates at most two slots and
one stream; one stream more than slots makes reuse and the full table happen.
The proofs cover every number of slots and streams, for `ClientLifecycle` and
for `EmceeServer`.  `MaxSpawns` and `MaxUuids` bound how often entities are
spawned: enough for every slot to be reused.  The faults are divided: errors end the
server in `server`, a line on stdin in `server_liveness`, where it is a way for
keep-alives to stop; it doubles the states and changes no session, and `lifecycle` has
all of them.  In `PacketStream` payloads of none to four
bytes with two-bit bytes need prefixes of one, two and three bytes and can be mistaken
for prefixes, and two of them have no id to read; reads of up to four bytes can
end anywhere and hold parts of two packets.  In `PacketWrites` three clients give a broadcast two
receivers, one of whom may be leaving.  In `VarInt` the widths are scaled down
with the same proportions (the last byte of an int is not full); the proofs use
the code's numbers.  In `PacketFields` bytes have two bits, so that 6 + 6 + 4 bits
of a position fill the eight bytes; coordinates are taken at both ends of their
range and around zero, and strings are short enough for a length of one byte.
Fields are read only while no varint has been started, and the reverse: they
share the run and nothing else.  In `EntityTracking` positions range far enough
for a difference that does not fit.  In `json` five items make every shape of
three levels; the one string has a character the printer escapes by a letter, one it
escapes by number and a quote, and the numbers are an integer and a fraction; a buffer of four
bytes has to grow in every document, and may fail to wherever it has to; a document is written once, as text or as
NBT; `malloc` gives out the first block that is free, as addresses do not matter.

*Fairness.*  Liveness is checked under what libuv guarantees and no more:
the loop goes on (`LoopStep`), every close callback of an iteration and every
expired timer is called before its phase ends (weak fairness), and time passes
for an armed timer (strong fairness of `HeartbeatExpires`, as the poll phase
ends and begins again, while the timer stays armed).  No client is assumed to
send, read or leave.  In `PacketStream` the loop of the callback goes on and
libuv reads while there are bytes.

## What is proved

TLAPS checks these for every value of the constants that satisfies the named
assumptions of the modules.

- `ClientLifecycleProofs`: type correctness, `SlotOwnership`, `HeapSafety`,
  `TimerSafety`, `HeartbeatStreamOpen`, and that `ClientLifecycle` implements
  `ConnectionPool`.  The properties are not inductive one by one: a heartbeat
  reaches an open stream because timers are only due in the timers phase, where
  no stream is closing, because the close phase ends only when none is; that the
  slot of the timer is the stream's needs ownership, and that the buffers of a
  slot in use are not dangling needs both.  The invariant is their conjunction
  with what ties timers and closing streams to the phase.
- `EmceeServerProofs`: the server implements `ClientLifecycle`, so that all of the
  above holds below the sessions (the theorems are taken over through an
  instance of `ClientLifecycleProofs`); then `TypeOK`, `EidUnique`,
  `KeepAliveInPlay`, `MutualVisibility` and `MovesAreOfKnownEntities`.  The
  invariant adds that the ids of players are below `next_eid` (`EidsGivenOut`), that
  only players have an armed timer (`BeatsOfPlayers`), that clients were told of ids
  below `next_eid` only (`ViewsClear`), and that whoever is no player has id 0 and, but
  for LOGIN and CONFIG, no uuid (`SessionsOK`): the state a handshake asks for is
  not restricted.  `finish_configuration` is the crux: the newcomer is told of
  all who are players and they are told of it, in one step in which nobody else
  changes.
- `PacketStreamProofs`: the copies of `connection_read_cb` end with the block
  (`WritesInside`), packets come out whole and in order (`InOrder`) and at once
  (`NoneWithheld`), and a slot implements `PacketChannel` (`ImplementsChannel`), for
  packets of any lengths an int holds, empty ones and ones without an id among them, and
  any cutting.  For the first, the two counts add up to the size that
  was allocated, from `AllocBuf` to the end of the payload.  For the second, all
  that a client has sent is one sequence, `off[k]` the place where its first `k`
  packets end; the invariant says that the read and the wire are what is left of
  it from `off[Len(delivered)] + f` on, and that the `PacketStream` holds what the
  `f` bytes say: nothing, part of a prefix, a size, or a size and part of a payload.
  A prefix is known by its recursion alone: after each of its bytes the size so
  far and what is left of the length make up the length (`LenLeft`).
  The third follows when the read is used up: then `f` is less than a whole packet.
  So does the fourth: one step of the callback delivers the next packet of `sent`,
  every other step that handlers can see is a stutter of the channel, and the end
  of a client and the start of the next are its `Close` and `Open`.
- `PacketWritesProofs`: in the builder, writes stay inside the block, packets hold
  their own bytes only, the block is bounded.  Between callbacks nothing is half
  written; during one the position equals what was written for this packet.  Then:
  the sends of `PacketWrites` use the builder as
  `PacketBuilder` says, what libuv holds of a packet stays intact, and memory holds
  what libuv will give back and what `uv_write` has refused, and nothing else
  (`OnlyRefusedAreLost`).  For the last, every step that adds a place to a stream's
  pending writes or takes one away changes the two counts alike; the lemmas count
  `Places` by its cardinality, for any number of clients.
- `VarIntProofs`, with the numbers of `data_types.h`.  For every 32-bit int
  (`CodeInts`): both readers return what was written, to the last byte
  (`RoundTrip`); only negative ints overrun `VarInt.bytes`, and nothing that was
  written is refused (`EncodingAccepted`); no encoding ends in a superfluous zero
  byte (`Shortest`); `pr_read_varint` takes at most five bytes of whatever it is
  sent.  Without negative ints (`CodeNumbers`) nothing overruns, as each byte takes
  seven bits off the number.  The invariant says that the bytes written so far stand
  for the low bits of the number and what is left to write for the others, and that
  a reader holds the low bits of what it has read.
- `PacketFieldsProofs`: on hosts of either byte order, for bytes, words and
  coordinates of any widths that fit, the values of a packet with any fields in any
  order are read as they were meant and to its last byte (`FieldsUnderstood`), and
  the answer has the bytes they came in (`ReplyOnTheWire`).  Below it are lemmas of
  one kind each: the bytes of a number are the number again; two reversals, by the
  host and by the swap, are none; the two shifts of `pr_read_position` leave one
  coordinate and its sign.  The invariant places the fields in the packet:
  `off[k]` bytes come before the end of the `k`-th, the reader stands at the start
  of one, and the answer is as long as what comes before the fields that are left.
- `EntityTrackingProofs`: the drift of an observer and the disagreement of two,
  for every scale, history and number of observers.
- `JsonProofs`: for any number of items, names and values, and memory that runs
  out anywhere, items keep their type (`TypeOK`), lists stay linked both ways and
  apart (`WellLinked`), and nothing is left behind (`NothingLost`).  None of this is
  inductive: what an item added to a list does to the others depends on whose list
  they are in.  The invariant (`IInv`) therefore claims an `owner` for every item, the
  container whose list it is in, under which every pointer is a local fact: `next`
  and `prev` stay with the owner and mirror each other, `child` is owned, its `prev` is
  the last of the list (`Linked`).  Contents come after their container in memory, and
  lists are in the order of their addresses; this holds as `Fresh` gives out the first
  free block, and is what makes every walk end.  From it `ListHolds` concludes that
  following `next` finds exactly the items with one owner, and `DoomedCloses` that
  `cJSON_Delete` frees every item below the ones it frees.  While a document is built
  (`Growing`), the items that no list holds are the root and the elements that are not
  in their array yet, each of them an open block; so deleting the root leaves nothing
  but these.  What `Reached` finds is proved through the least round in which an item
  appears (`Least`), without induction.
- `JsonProofs`, of the printer: its steps are steps or stutters of `Spec` of `JsonItems`
  (`PrinterKeepsItems`), and it stays inside its buffer (`PrintsInside`), for documents of
  any size and depth, names and strings with any escapes, any size of the first buffer,
  and memory that runs out at any growth.  The invariant (`PInv`) is the protocol of the
  writers: where a value has just ended, a NUL lies between the offset and the end of the
  buffer (`Ended`), so that `update_offset` finds it; where something is to be written, the
  offset is before the end (`Ready`); all calls but the innermost wait for a value to end.
  `ensure` makes room for one byte more than it is asked for; every writer relies on this
  one byte at most, and on none when it moves the offset over it (`Emitted`).
  A string needs besides that as many bytes are written as `output_length` counts
  (`EscapedLength`).  Both are functions along the string, which exist (`StepByStep`) and
  agree at every character, as there is no first one where they differ.
- `TextIsDocument`: what was printed is the text of the document (`PrintedIsDocument`),
  under the same conditions.  `TextOf` says what this text is, from the items alone and with
  no word of buffers: a function along the lists, which exists because lists and contents lie
  in the order of their addresses (`LinkedAscends`).  The invariant (`QInv`) is that the bytes
  before the offset, followed by what every call on the stack still has to print
  (`Remaining`), are that text.  While a value has just ended its bytes lie beyond the offset;
  they have no NUL inside, so that `update_offset` ends exactly behind them
  (`EndIsFound`).  Each step moves a piece from what remains to what is printed.
- `BuildersImplementDocument`: `JsonItems` implements `JsonDocument` (`ImplementsDocument`).
  The document of an item is a function along the lists, like its text; two heaps are compared
  from the last address down (`TreesUntouched`, `CountedDown`).  An item that joins a list
  changes that list by one document at its end (`ListGrows`), and the containers around it in
  their last document only (`FrontStays`), as long as these are a `Spine`: every one that is in
  a list is the end of the list of an object further out.  That the open blocks are one is what
  has to be proved besides `IInv`: an open block is an object or an array, and in an object it
  is the last field (`Nested`).  Hence a step of the macros changes the innermost block alone,
  as `JsonDocument` says, without the block inside it, which an object has linked from the
  start (`OpenField`) and an array only when it ends (`ElementJoins`); closing a field links
  nothing, the document being there already (`FieldIsThere`).  Deleting is one step of
  `JsonDocument`, wherever memory ran out.

The theorems are about `Spec` of `JsonItems` and `TextSpec` of `JsonText`; every step of
`JsonPackets` is one of `TextNext` or writes NBT, which leaves everything but `nbt` alone or
ends the process.

Only model-checked: liveness (fairness is beyond the prover); and what the recursive
operators of `JsonParse` and `Nbt` compute (`ParsesBack`, `ParsesWholeOrNot`, `NbtReadsBack`),
which are recursive as the code is, while what a recursive definition computes for every input
takes induction over data.

## Findings

1. A connection that finds no free slot aborts the server (`server.c` 23); a slot
   counts as taken until its close callback has run.
2. Broadcasts reach clients in every state (`server.c` 38), although the packets
   are those of PLAY.
3. `finish_configuration` announces clients that have not joined, with the zeroed
   uuid and entity id 0 (`packet_handlers.c` 334-366), which is also the id of the
   first player.
4. `varint_from_int` does not end on negative ints (`data_types.c` 20); entity ids are
   negative from 2^31 on, and the sequence number that a client sends with
   `player_action` and gets back may be negative at once.

The comment at `main.c` 90 says that `packet_data` never shrinks; `realloc` to
the size of every packet does shrink it.  Nothing depends on either.

## Not modelled, and the plan

Not modelled:

- the registry tables, log output, the Makefile and the tests: no state;
- of cJSON, what the server and its JSON macros do not use: formatted output,
  detaching, inserting, replacing, comparing, duplicating, minifying,
  references; sizes near `INT_MAX`;
- what follows when the code leaves an array: packet ids beyond the table of handlers,
  names of more than 16 bytes, negative sequence numbers (all in `EmceeServer`), and
  packet sizes that are negative or more than an int (`PacketStream`);
- the payload of packets beyond entity ids, players and the fields of
  `PacketFields`, and `deg_to_angle`;
- libuv's queue of handles, which is not part of the repository: what becomes of
  it when the timer of a reused slot is initialised again is out of reach;
- memory behind a packet, which `strncmp` may read for a short command.

What is left, in the order planned:

1. Commands and their arguments in `EmceeServer`, as strings of bounded length.
