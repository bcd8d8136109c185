----------------------------- MODULE EmceeServer -----------------------------
(***************************************************************************)
(* The server: the connections of ClientLifecycle, and on each of them the *)
(* protocol session that packet_handlers.c runs, from HANDSHAKE to PLAY.   *)
(* Every action is a callback of main.c or client.c run to its end; the    *)
(* handler that process_packet picks for a packet is part of the step that *)
(* reads the packet.                                                       *)
(*                                                                         *)
(* A client may send any packet at any time.  Three kinds of it make the   *)
(* code leave its arrays and are left out, as what follows is undefined:   *)
(* an id beyond the table of handlers, a name of more than 16 bytes in     *)
(* hello, and a negative sequence number in player_action, which VarInt    *)
(* shows to overrun its buffer.                                            *)
(***************************************************************************)
EXTENDS Naturals

CONSTANTS
  Streams, MaxPlayers, NoStream, NoSlot, Faults,  \* as in ClientLifecycle
  MaxSpawns,  \* bound: entity ids handed out
  MaxUuids    \* bound: random uuids drawn

ASSUME ConnectionAssumption ==
  /\ MaxPlayers \in Nat \ {0}
  /\ NoStream \notin Streams /\ NoSlot \notin Nat
  /\ Faults \subseteq {"listen_error", "accept_error", "read_error", "stop"}
ASSUME BoundsAssumption == MaxSpawns \in Nat /\ MaxUuids \in Nat

VARIABLES
  run, phase, due, stream, data, free, client,  \* as in ClientLifecycle
  session,    \* state, player.eid and uuid of each slot's NetClientData, and
              \* as history whether finish_configuration has made it a player
  next_eid,   \* g_server.next_eid
  next_uuid,  \* random uuids are taken to be distinct: 1, 2, 3, ...
  sent,       \* packets the last step wrote to the client of each slot
  view        \* entities the client of each slot was told of while in PLAY

lifecycleVars == <<run, phase, due, stream, data, free, client>>
sessionVars == <<session, next_eid, next_uuid>>
vars == <<run, phase, due, stream, data, free, client,
          session, next_eid, next_uuid, sent, view>>

Lifecycle == INSTANCE ClientLifecycle

Slots == Lifecycle!Slots

(* client->state: NetClientState, or an int that is none of its values.    *)
States == {"HANDSHAKE", "STATUS", "LOGIN", "TRANSFER", "CONFIG", "PLAY", "UNNAMED"}

(* The uuid and the eid of memory zeroed by server_new_client.             *)
NoUuid == 0
ZeroedSession == [state |-> "HANDSHAKE", eid |-> 0, uuid |-> NoUuid, joined |-> FALSE]

Entities == [eid : Nat, uuid : Nat]

(* The entity a slot's player is announced as.                             *)
Player(s) == [eid |-> session[s].eid, uuid |-> session[s].uuid]

(* The entity of a client that has skipped hello and finish_configuration. *)
Nobody == [eid |-> 0, uuid |-> NoUuid]

(* Packets are told apart by type and, where they name one, by entity.     *)
Packet(type) == [type |-> type]
EntityPacket(type, e) == [type |-> type, entity |-> e]

Spawning == {"login", "add_entity"}
Moving == {"move_entity_pos", "move_entity_pos_rot", "move_entity_rot", "rotate_head"}
InPlayOnly == Spawning \cup Moving \cup
  {"commands", "game_event", "set_chunk_cache_center", "player_position",
   "level_chunk_with_light", "player_info_update", "block_changed_ack",
   "block_update", "open_screen", "keep_alive"}

-----------------------------------------------------------------------------
(* Writing packets.                                                        *)

(* uv_write takes a packet for an open stream and refuses it, a result     *)
(* send_finalized_packet drops, for one that is closing.                   *)
Open(s) == ~free[s] /\ stream[client[s].client_stream] = "open"

Spawned(packets) == {p.entity : p \in {q \in packets : q.type \in Spawning}}

(* out: the packets written to each slot.                                  *)
Write(out) ==
  /\ sent' = [s \in Slots |-> IF Open(s) THEN out[s] ELSE {}]
  /\ view' = [s \in Slots |->
                IF Open(s) /\ session'[s].state = "PLAY"
                THEN view[s] \cup Spawned(out[s]) ELSE view[s]]

Nothing == [s \in Slots |-> {}]

(* send_finalized_packet on the handle the request came from.              *)
Reply(c, packets) == [Nothing EXCEPT ![data[c]] = packets]

(* Mutant: a loop over the slots that stops one short.                     *)
Others_SkipsLast(s) == {t \in Slots : ~free[t] /\ t # s /\ t + 1 < MaxPlayers}

(* The clients server_broadcast writes to, whatever state they are in.     *)
Others(s) == {t \in Slots : ~free[t] /\ t # s}

Broadcast(c, packets) ==
  [s \in Slots |-> IF s \in Others(data[c]) THEN packets ELSE {}]

Quiet == sent' = Nothing /\ UNCHANGED view

-----------------------------------------------------------------------------
(* Packet handlers.                                                        *)

(* process_packet hands a packet to a handler of the client's state.       *)
Handles(c, state, writes) ==
  /\ Lifecycle!ReadPacket(c, writes, FALSE)
  /\ session[data[c]].state = state

SetState(c, state) == session' = [session EXCEPT ![data[c]].state = state]

(* The state asked for is taken over as it is, be it CONFIG or PLAY.       *)
intention(c) ==
  /\ Handles(c, "HANDSHAKE", FALSE)
  /\ \E next_state \in States : SetState(c, next_state)
  /\ Write(Nothing)
  /\ UNCHANGED <<next_eid, next_uuid>>

status_request(c) ==
  /\ Handles(c, "STATUS", TRUE)
  /\ UNCHANGED sessionVars
  /\ Write(Reply(c, {Packet("status_response")}))

(* A client that has been pinged may start over with an intention.         *)
ping_request(c) ==
  /\ Handles(c, "STATUS", TRUE)
  /\ SetState(c, "HANDSHAKE")
  /\ Write(Reply(c, {Packet("pong_response")}))
  /\ UNCHANGED <<next_eid, next_uuid>>

hello(c) ==
  /\ Handles(c, "LOGIN", TRUE)
  /\ next_uuid < MaxUuids
  /\ next_uuid' = next_uuid + 1
  /\ session' = [session EXCEPT ![data[c]].uuid = next_uuid']
  /\ Write(Reply(c, {Packet("login_finished")}))
  /\ UNCHANGED next_eid

login_acknowledged(c) ==
  /\ Handles(c, "LOGIN", TRUE)
  /\ SetState(c, "CONFIG")
  /\ Write(Reply(c, {Packet("select_known_packs")}))
  /\ UNCHANGED <<next_eid, next_uuid>>

select_known_packs(c) ==
  /\ Handles(c, "CONFIG", TRUE)
  /\ UNCHANGED sessionVars
  /\ Write(Reply(c, {Packet("registry_data"), Packet("finish_configuration")}))

Announcement(e) ==
  {EntityPacket("player_info_update", e), EntityPacket("add_entity", e)}

(* What a client that enters PLAY is sent first.                           *)
JoinBurst(me) ==
  {EntityPacket("login", me)} \cup
  {Packet(type) : type \in {"commands", "game_event", "set_chunk_cache_center",
                            "player_position", "level_chunk_with_light"}}

(* Every other slot in use is announced to the newcomer, as what its       *)
(* memory holds: eid and uuid are zero when it has not joined itself.      *)
Introduced(s) == UNION {Announcement(Player(t)) : t \in Others(s)}

(* Mutant: server_get_eid does not count.                                  *)
GetEid_Stuck == next_eid' = next_eid

(* server_get_eid returns next_eid and counts it up.                       *)
GetEid == next_eid < MaxSpawns /\ next_eid' = next_eid + 1

(* Mutant: the announcement is made out before the player has its eid.     *)
Joining_Stale(s) == Player(s)

(* The player a client becomes with the id finish_configuration gives it.  *)
Joining(s) == [eid |-> next_eid, uuid |-> session[s].uuid]

finish_configuration(c) ==
  LET s  == data[c]
      me == Joining(s)
  IN  /\ Lifecycle!ReadPacket(c, TRUE, TRUE)
      /\ session[s].state = "CONFIG"
      /\ GetEid
      /\ session' = [session EXCEPT ![s].state = "PLAY", ![s].eid = next_eid,
                                        ![s].joined = TRUE]
      /\ Write([t \in Slots |->
           IF t = s THEN JoinBurst(me) \cup Introduced(s)
                    ELSE Broadcast(c, Announcement(me))[t]])
      /\ UNCHANGED next_uuid

(* The three movement handlers differ in what they broadcast.              *)
Moves(c, types) ==
  /\ Handles(c, "PLAY", TRUE)
  /\ UNCHANGED sessionVars
  /\ Write(Broadcast(c, {EntityPacket(type, Player(data[c])) : type \in types}))

move_player_pos(c) == Moves(c, {"move_entity_pos"})
move_player_pos_rot(c) == Moves(c, {"move_entity_pos_rot", "rotate_head"})
move_player_rot(c) == Moves(c, {"move_entity_rot"})

(* status 0, a block was broken, is answered with air in its place.        *)
player_action(c) ==
  /\ Handles(c, "PLAY", TRUE)
  /\ UNCHANGED sessionVars
  /\ \E broken \in BOOLEAN :
       Write(Reply(c, {Packet("block_changed_ack")} \cup
                      IF broken THEN {Packet("block_update")} ELSE {}))

chat_command_inv(c) ==
  /\ Handles(c, "PLAY", TRUE)
  /\ UNCHANGED sessionVars
  /\ Write(Reply(c, {Packet("open_screen")}))

(* A friend is spawned for the client that asked, and for nobody else.     *)
chat_command_friend(c) ==
  /\ Handles(c, "PLAY", TRUE)
  /\ next_uuid < MaxUuids
  /\ next_uuid' = next_uuid + 1
  /\ GetEid
  /\ UNCHANGED session
  /\ Write(Reply(c, Announcement([eid |-> next_eid, uuid |-> next_uuid'])))

(* chat_command_signed, an unknown command, an id with no handler, or any  *)
(* packet in a state without a name.                                       *)
IgnoredPacket(c) ==
  /\ \E state \in States \ {"TRANSFER"} : Handles(c, state, FALSE)
  /\ UNCHANGED sessionVars
  /\ Write(Nothing)

(* An ASSERT fails before the handler has any effect: in every state on a  *)
(* packet that is shorter than its fields or has a varint of six bytes, in *)
(* TRANSFER, for which process_packet has no handlers, on any packet.      *)
PacketAborts(c) ==
  /\ Lifecycle!ReadPacketAborts(c)
  /\ UNCHANGED sessionVars /\ Quiet

Handler(c) ==
  \/ intention(c)
  \/ status_request(c) \/ ping_request(c)
  \/ hello(c) \/ login_acknowledged(c)
  \/ select_known_packs(c) \/ finish_configuration(c)
  \/ move_player_pos(c) \/ move_player_pos_rot(c) \/ move_player_rot(c)
  \/ player_action(c) \/ chat_command_inv(c) \/ chat_command_friend(c)
  \/ IgnoredPacket(c) \/ PacketAborts(c)

-----------------------------------------------------------------------------
(* The other callbacks.                                                    *)

(* The memset of server_new_client zeroes the session too.  A new client   *)
(* has been told nothing.                                                  *)
NewConnection(c, s) ==
  /\ Lifecycle!NewConnection(c, s)
  /\ session' = [session EXCEPT ![s] = ZeroedSession]
  /\ view' = [view EXCEPT ![s] = {}]
  /\ sent' = Nothing
  /\ UNCHANGED <<next_eid, next_uuid>>

(* Nobody is told that a client has left.                                  *)
CloseConnection(c) ==
  /\ Lifecycle!CloseConnection(c)
  /\ UNCHANGED sessionVars /\ Quiet

SendHeartbeat(s) ==
  /\ Lifecycle!SendHeartbeat(s)
  /\ UNCHANGED sessionVars
  /\ Write([Nothing EXCEPT ![s] = {Packet("keep_alive")}])

HeartbeatExpires(s) ==
  /\ Lifecycle!HeartbeatExpires(s)
  /\ UNCHANGED sessionVars /\ Quiet

LoopStep == Lifecycle!LoopStep /\ UNCHANGED sessionVars /\ Quiet

Unhandled ==
  /\ \/ \E c \in Streams : \/ Lifecycle!NewConnectionNoSlot(c)
                           \/ Lifecycle!ReadPartial(c)
                           \/ Lifecycle!ReadEof(c)
                           \/ Lifecycle!ReadError(c)
                           \/ Lifecycle!AcceptError(c)
     \/ Lifecycle!ListenError
     \/ Lifecycle!StdinStop
  /\ UNCHANGED sessionVars /\ Quiet

Terminated == Lifecycle!Terminated /\ UNCHANGED vars

Init ==
  /\ Lifecycle!Init
  /\ session = [s \in Slots |-> ZeroedSession]
  /\ next_eid = 0
  /\ next_uuid = NoUuid
  /\ sent = Nothing
  /\ view = [s \in Slots |-> {}]

Next ==
  \/ \E c \in Streams, s \in Slots : NewConnection(c, s)
  \/ \E c \in Streams : Handler(c)
  \/ \E c \in Streams : CloseConnection(c)
  \/ \E s \in Slots : SendHeartbeat(s)
  \/ \E s \in Slots : HeartbeatExpires(s)
  \/ Unhandled
  \/ LoopStep
  \/ Terminated

Spec == Init /\ [][Next]_vars

(* The fairness of ClientLifecycle.                                        *)
Fairness ==
  /\ WF_vars(LoopStep)
  /\ \A c \in Streams : WF_vars(CloseConnection(c))
  /\ \A s \in Slots : WF_vars(SendHeartbeat(s)) /\ SF_vars(HeartbeatExpires(s))

FairSpec == Spec /\ Fairness

-----------------------------------------------------------------------------
(* Properties.                                                             *)

(* A player: connected, and past finish_configuration.                     *)
Joined(s) == Open(s) /\ session[s].joined

(* The type invariant.                                                     *)
TypeOK ==
  /\ Lifecycle!TypeOK
  /\ session \in [Slots -> [state : States, eid : 0 .. MaxSpawns,
                           uuid : 0 .. MaxUuids, joined : BOOLEAN]]
  /\ next_eid \in 0 .. MaxSpawns
  /\ next_uuid \in 0 .. MaxUuids
  /\ \A s \in Slots : view[s] \subseteq Entities

(* An entity with the id of the player of session x is that player.  Id 0  *)
(* is left out: it also stands for clients that have not joined, which     *)
(* OneEntityPerEid is about.                                               *)
NoOther(x, e) == x.joined /\ e.eid = x.eid /\ e.eid # 0 => e.uuid = x.uuid

(* No two players have the same entity id, also when they took over the    *)
(* slots of players that left, and no client was told of a friend, or of a *)
(* player who has left, by the id of a player.                             *)
EidUnique ==
  /\ \A s, t \in Slots : s # t /\ session[s].joined /\ session[t].joined
       => session[s].eid # session[t].eid
  /\ \A s, t \in Slots : \A e \in view[t] : NoOther(session[s], e)

(* However the joins, disconnects and reconnects interleave, any two       *)
(* players who are connected have been told of each other.                 *)
MutualVisibility ==
  \A s, t \in Slots : s # t /\ Joined(s) /\ Joined(t) => Player(t) \in view[s]

(* A movement that reaches a player is the movement of an entity it was    *)
(* told of.  The exception is a client that has gone to PLAY straight from *)
(* its handshake: its movements are broadcast as those of nobody.          *)
MovesAreOfKnownEntities ==
  \A s \in Slots : session[s].joined =>
    \A p \in sent[s] : p.type \in Moving => p.entity \in view[s] \cup {Nobody}

(* A keep_alive is sent to a player only: the timer of a player who left   *)
(* never fires into the session of the slot's next client.                 *)
KeepAliveInPlay ==
  \A s \in Slots : Packet("keep_alive") \in sent[s] =>
    session[s].joined /\ session[s].state = "PLAY"

(* A player that stays connected keeps getting keep_alives.                *)
KeepAliveRecurs ==
  \A s \in Slots :
    Joined(s) ~> (Packet("keep_alive") \in sent[s] \/ ~Joined(s) \/ ~Lifecycle!Up)

(* The callbacks of the server drive the connections as ClientLifecycle    *)
(* says.                                                                   *)
ImplementsLifecycle == Lifecycle!Spec

(* packet_types.h lists the packets of PLAY under a heading of their own,  *)
(* and process_packet keeps the states apart for the packets it receives.  *)
(* Broadcasts do not: they reach clients in every state.                   *)
PlayPacketsInPlay ==
  \A s \in Slots : \A p \in sent[s] : p.type \in InPlayOnly => session[s].state = "PLAY"

(* server.h: entity ids serve as long as fewer than 2^32 entities are      *)
(* spawned.  But a slot that has not joined yet is announced to a newcomer *)
(* with the zeroed entity id 0.                                            *)
OneEntityPerEid ==
  \A s \in Slots : \A e, f \in view[s] : e.eid = f.eid => e = f
=============================================================================
