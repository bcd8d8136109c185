-------------------------- MODULE EmceeServerProofs --------------------------
(***************************************************************************)
(* Proofs, for every number of slots and every set of streams, of the      *)
(* safety properties of EmceeServer.  What ClientLifecycleProofs shows of  *)
(* the connections is used through P.                                      *)
(***************************************************************************)
EXTENDS EmceeServer, TLAPS

P == INSTANCE ClientLifecycleProofs

-----------------------------------------------------------------------------
(* The connections.                                                        *)

LEMMA LifecycleNext == [Next]_vars => [Lifecycle!Next]_(Lifecycle!vars)
<1> SUFFICES ASSUME [Next]_vars PROVE [Lifecycle!Next]_(Lifecycle!vars)
  OBVIOUS
<1>1. CASE \E c \in Streams, s \in Slots : NewConnection(c, s)
  BY <1>1 DEF NewConnection, Lifecycle!Next, Slots
<1>2. CASE \E c \in Streams : Handler(c)
  <2>1. PICK c \in Streams : Handler(c)
    BY <1>2
  <2>2. \/ \E writes, starts \in BOOLEAN : Lifecycle!ReadPacket(c, writes, starts)
        \/ Lifecycle!ReadPacketAborts(c)
    BY <2>1 DEF Handler, Handles, intention, status_request, ping_request, hello,
       login_acknowledged, select_known_packs, finish_configuration, Moves,
       move_player_pos, move_player_pos_rot, move_player_rot, player_action,
       chat_command_inv, chat_command_friend, IgnoredPacket, PacketAborts
  <2>3. QED
    BY <2>2 DEF Lifecycle!Next
<1>3. CASE \E c \in Streams : CloseConnection(c)
  BY <1>3 DEF CloseConnection, Lifecycle!Next
<1>4. CASE \E s \in Slots : SendHeartbeat(s) \/ HeartbeatExpires(s)
  BY <1>4 DEF SendHeartbeat, HeartbeatExpires, Lifecycle!Next, Slots
<1>5. CASE Unhandled
  BY <1>5 DEF Unhandled, Lifecycle!Next
<1>6. CASE LoopStep \/ Terminated
  BY <1>6 DEF LoopStep, Terminated, Lifecycle!Next
<1>7. CASE UNCHANGED vars
  BY <1>7 DEF vars, Lifecycle!vars
<1>8. QED
  BY <1>1, <1>2, <1>3, <1>4, <1>5, <1>6, <1>7 DEF Next

(* The callbacks of the server drive the connections as ClientLifecycle    *)
(* says, so that all that is proved of connections holds in the server.    *)
THEOREM LifecycleImplemented == Spec => ImplementsLifecycle
<1>1. Init => Lifecycle!Init
  BY DEF Init
<1>2. [Next]_vars => [Lifecycle!Next]_(Lifecycle!vars)
  BY LifecycleNext
<1>3. QED
  BY <1>1, <1>2, PTL DEF Spec, ImplementsLifecycle, Lifecycle!Spec

(* ClientLifecycleProofs speaks of the same steps under its own names.     *)
LEMMA SameInit == Lifecycle!Init => P!Init
BY DEF Lifecycle!Init, P!Init, Lifecycle!Slots, P!Slots, Lifecycle!ZeroedClient, P!ZeroedClient

LEMMA SameNext == [Lifecycle!Next]_(Lifecycle!vars) => [P!Next]_(P!vars)
<1> SUFFICES ASSUME [Lifecycle!Next]_(Lifecycle!vars) PROVE [P!Next]_(P!vars)
  OBVIOUS
<1>1. CASE UNCHANGED Lifecycle!vars
  BY <1>1 DEF Lifecycle!vars, P!vars
<1>2. CASE \E c \in Streams, s \in Lifecycle!Slots : Lifecycle!NewConnection(c, s)
  BY <1>2 DEF P!Next, Lifecycle!NewConnection, P!NewConnection, Lifecycle!Slots, P!Slots,
     Lifecycle!FirstFree, P!FirstFree, Lifecycle!FreshClient, P!FreshClient,
     Lifecycle!ZeroedClient, P!ZeroedClient, Lifecycle!Up, P!Up
<1>3. CASE \E c \in Streams : \/ Lifecycle!NewConnectionNoSlot(c) \/ Lifecycle!ReadPacketAborts(c)
                              \/ Lifecycle!ReadEof(c) \/ Lifecycle!ReadError(c)
                              \/ Lifecycle!AcceptError(c)
  BY <1>3 DEF P!Next, Lifecycle!NewConnectionNoSlot, P!NewConnectionNoSlot,
     Lifecycle!ReadPacketAborts, P!ReadPacketAborts, Lifecycle!ReadEof, P!ReadEof,
     Lifecycle!ReadError, P!ReadError, Lifecycle!AcceptError, P!AcceptError,
     Lifecycle!FirstFree, P!FirstFree, Lifecycle!Readable, P!Readable,
     Lifecycle!Slots, P!Slots, Lifecycle!Up, P!Up, Lifecycle!Alloc, P!Alloc
<1>4. CASE Lifecycle!ListenError \/ Lifecycle!StdinStop \/ Lifecycle!LoopStep \/ Lifecycle!Terminated
  BY <1>4 DEF P!Next, Lifecycle!ListenError, P!ListenError, Lifecycle!StdinStop, P!StdinStop,
     Lifecycle!LoopStep, P!LoopStep, Lifecycle!TimersDone, P!TimersDone,
     Lifecycle!PollDone, P!PollDone, Lifecycle!ClosingDone, P!ClosingDone,
     Lifecycle!Terminated, P!Terminated, Lifecycle!Up, P!Up, Lifecycle!vars, P!vars
<1>5. CASE \E c \in Streams : Lifecycle!ReadPartial(c)
  BY <1>5 DEF P!Next, Lifecycle!ReadPartial, P!ReadPartial, Lifecycle!Readable, P!Readable,
     Lifecycle!Up, P!Up, Lifecycle!Alloc, P!Alloc
<1>6. CASE \E c \in Streams, writes, starts \in BOOLEAN : Lifecycle!ReadPacket(c, writes, starts)
  BY <1>6 DEF P!Next, Lifecycle!ReadPacket, P!ReadPacket, Lifecycle!Readable, P!Readable,
     Lifecycle!Up, P!Up, Lifecycle!Alloc, P!Alloc
<1>7. CASE \E c \in Streams : Lifecycle!CloseConnection(c)
  BY <1>7 DEF P!Next, Lifecycle!CloseConnection, P!CloseConnection, Lifecycle!Up, P!Up,
     Lifecycle!ReleasedClient, P!ReleasedClient, Lifecycle!FreeSlot, P!FreeSlot,
     Lifecycle!Freed, P!Freed
<1>8. CASE \E s \in Lifecycle!Slots : Lifecycle!HeartbeatExpires(s) \/ Lifecycle!SendHeartbeat(s)
  BY <1>8 DEF P!Next, Lifecycle!HeartbeatExpires, P!HeartbeatExpires, Lifecycle!SendHeartbeat,
     P!SendHeartbeat, Lifecycle!Slots, P!Slots, Lifecycle!Up, P!Up, Lifecycle!Alloc, P!Alloc
<1>9. QED
  BY <1>1, <1>2, <1>3, <1>4, <1>5, <1>6, <1>7, <1>8 DEF Lifecycle!Next

LEMMA ConnectionsInit == Init => P!IInv
BY ConnectionAssumption, SameInit, P!InitInv DEF Init

LEMMA ConnectionsNext == P!IInv /\ [Next]_vars => P!IInv'
BY ConnectionAssumption, LifecycleNext, SameNext, P!NextInv

-----------------------------------------------------------------------------
(* The sessions.                                                           *)

SessionType ==
  [state : States, eid : 0 .. MaxSpawns, uuid : 0 .. MaxUuids, joined : BOOLEAN]

Typed ==
  /\ session \in [Slots -> SessionType]
  /\ next_eid \in 0 .. MaxSpawns
  /\ next_uuid \in 0 .. MaxUuids
  /\ view \in [Slots -> SUBSET Entities]

(* Players are in PLAY.  Others have no entity id, and no uuid either but  *)
(* on the way through LOGIN and CONFIG.                                    *)
WellFormed(x) ==
  /\ x.joined => x.state = "PLAY"
  /\ ~x.joined => x.eid = 0 /\ (x.state \notin {"LOGIN", "CONFIG"} => x.uuid = NoUuid)
SessionsOK == \A s \in Slots : WellFormed(session[s])

(* Only players have an armed timer, and their ids are below next_eid.     *)
BeatsOfPlayers == \A s \in Slots : client[s].heartbeat = "armed" => session[s].joined
EidsGivenOut == \A s \in Slots : session[s].joined => session[s].eid < next_eid

(* The two halves of EidUnique, the second with the bound that keeps it.   *)
PlayersApart ==
  \A s, t \in Slots : s # t /\ session[s].joined /\ session[t].joined
    => session[s].eid # session[t].eid
ViewsClear ==
  \A s, t \in Slots : \A e \in view[t] : e.eid < next_eid /\ NoOther(session[s], e)

(* The inductive invariant, beside that of the connections.                *)
Core ==
  /\ Typed /\ SessionsOK /\ BeatsOfPlayers /\ EidsGivenOut
  /\ PlayersApart /\ ViewsClear /\ MutualVisibility
IInv == P!IInv /\ Core /\ MovesAreOfKnownEntities /\ KeepAliveInPlay

(* Slots and streams in use stay so at most, and no timer is armed.        *)
NoneJoins ==
  \A s \in Slots :
    /\ ~free'[s] => ~free[s]
    /\ Open(s)' => Open(s)
    /\ client'[s].heartbeat = "armed" => client[s].heartbeat = "armed"

(* A player's session never changes.                                       *)
PlayersStay ==
  \A s \in Slots :
    session[s].joined \/ session'[s].joined => session'[s] = session[s]

LEMMA ReaderSlot ==
  ASSUME P!IInv, NEW c \in Streams, Lifecycle!Readable(c)
  PROVE  /\ data[c] \in Slots
         /\ client[data[c]].client_stream = c
         /\ client[data[c]] \in P!NetClientData
         /\ Open(data[c])
BY ConnectionAssumption, P!StreamSlot DEF Lifecycle!Readable, Slots, Lifecycle!Slots, P!Slots, Open

LEMMA ReadPacketKeeps ==
  ASSUME P!IInv, NEW c \in Streams, NEW writes \in BOOLEAN, NEW starts \in BOOLEAN,
         Lifecycle!ReadPacket(c, writes, starts)
  PROVE  /\ UNCHANGED free
         /\ \A s \in Slots : Open(s)' <=> Open(s)
         /\ \A s \in Slots : client'[s].heartbeat = "armed" =>
              client[s].heartbeat = "armed" \/ (starts /\ s = data[c])
<1> DEFINE t == data[c]
<1>1. /\ t \in Slots /\ client[t] \in P!NetClientData
      /\ client \in [Slots -> P!NetClientData]
  BY ReaderSlot DEF Lifecycle!ReadPacket, P!IInv, P!TypeOK, Slots, Lifecycle!Slots, P!Slots
<1>2. \A s \in Slots : s # t => client'[s] = client[s]
  BY <1>1 DEF Lifecycle!ReadPacket
<1>3. /\ client'[t].client_stream = client[t].client_stream
      /\ client'[t].heartbeat = IF starts THEN "armed" ELSE client[t].heartbeat
  BY <1>1 DEF Lifecycle!ReadPacket, P!NetClientData
<1>4. UNCHANGED <<free, stream>>
  BY DEF Lifecycle!ReadPacket
<1>5. \A s \in Slots : client'[s].client_stream = client[s].client_stream
  BY <1>2, <1>3
<1>6. \A s \in Slots : Open(s)' <=> Open(s)
  BY <1>4, <1>5 DEF Open
<1>7. QED
  BY <1>2, <1>3, <1>4, <1>6

(* The steps that only the connections notice.                             *)
LEMMA ConnectionKeeps ==
  ASSUME P!IInv,
         \/ UNCHANGED <<stream, free, client>>
         \/ \E c \in Streams : \/ Lifecycle!ReadPartial(c) \/ Lifecycle!ReadEof(c)
                               \/ Lifecycle!CloseConnection(c)
         \/ \E s \in Slots : Lifecycle!SendHeartbeat(s)
  PROVE  NoneJoins
<1> USE DEF Slots, Lifecycle!Slots, P!Slots
<1>0. /\ client \in [Slots -> P!NetClientData] /\ free \in [Slots -> BOOLEAN]
      /\ stream \in [Streams -> {"unallocated", "open", "closing"}]
  BY DEF P!IInv, P!TypeOK
<1>1. CASE UNCHANGED <<stream, free, client>>
  BY <1>1 DEF NoneJoins, Open
<1>2. CASE \E c \in Streams : Lifecycle!ReadPartial(c)
  <2>1. PICK c \in Streams : Lifecycle!ReadPartial(c)
    BY <1>2
  <2>2. data[c] \in Slots /\ UNCHANGED <<free, stream>>
    BY <2>1, ReaderSlot DEF Lifecycle!ReadPartial
  <2>3. \A s \in Slots : /\ client'[s].client_stream = client[s].client_stream
                         /\ client'[s].heartbeat = client[s].heartbeat
    BY <1>0, <2>1, <2>2 DEF Lifecycle!ReadPartial, P!NetClientData
  <2>4. QED
    BY <2>2, <2>3 DEF NoneJoins, Open
<1>3. CASE \E c \in Streams : Lifecycle!ReadEof(c)
  <2>1. PICK c \in Streams : Lifecycle!ReadEof(c)
    BY <1>3
  <2>2. data[c] \in Slots /\ UNCHANGED free
    BY <2>1, ReaderSlot DEF Lifecycle!ReadEof
  <2>3. \A d \in Streams : stream'[d] = "open" => stream[d] = "open"
    BY <1>0, <2>1 DEF Lifecycle!ReadEof
  <2>4. \A s \in Slots : /\ client'[s].client_stream = client[s].client_stream
                         /\ client'[s].heartbeat = client[s].heartbeat
    BY <1>0, <2>1, <2>2 DEF Lifecycle!ReadEof, P!NetClientData
  <2>5. \A s \in Slots : ~free[s] => client[s].client_stream \in Streams
    BY DEF P!IInv, P!SlotOwnership
  <2>6. QED
    BY <2>2, <2>3, <2>4, <2>5 DEF NoneJoins, Open
<1>4. CASE \E c \in Streams : Lifecycle!CloseConnection(c)
  <2>1. PICK c \in Streams : Lifecycle!CloseConnection(c)
    BY <1>4
  <2>2. data[c] \in Slots
    BY ConnectionAssumption, <2>1, P!StreamSlot DEF Lifecycle!CloseConnection
  <2>3. \A s \in Slots : /\ client'[s].client_stream = client[s].client_stream
                         /\ client'[s].heartbeat = "armed" => client[s].heartbeat = "armed"
    BY <1>0, <2>1, <2>2 DEF Lifecycle!CloseConnection, Lifecycle!ReleasedClient, P!NetClientData
  <2>4. /\ \A d \in Streams : stream'[d] = "open" => stream[d] = "open"
        /\ \A s \in Slots : ~free'[s] => ~free[s]
    BY <1>0, <2>1, <2>2 DEF Lifecycle!CloseConnection, Lifecycle!FreeSlot
  <2>5. \A s \in Slots : ~free[s] => client[s].client_stream \in Streams
    BY DEF P!IInv, P!SlotOwnership
  <2>6. ASSUME NEW s \in Slots, Open(s)'
        PROVE  Open(s)
    <3>1. ~free'[s] /\ stream'[client'[s].client_stream] = "open"
      BY <2>6 DEF Open
    <3>2. ~free[s] /\ client[s].client_stream \in Streams
      BY <3>1, <2>4, <2>5
    <3>3. stream[client[s].client_stream] = "open"
      BY <3>1, <3>2, <2>3, <2>4
    <3>4. QED
      BY <3>2, <3>3 DEF Open
  <2>7. QED
    BY <2>3, <2>4, <2>6 DEF NoneJoins
<1>5. CASE \E s \in Slots : Lifecycle!SendHeartbeat(s)
  <2>1. PICK s \in Slots : Lifecycle!SendHeartbeat(s)
    BY <1>5
  <2>2. \A t \in Slots : /\ client'[t].client_stream = client[t].client_stream
                         /\ client'[t].heartbeat = client[t].heartbeat
    BY <1>0, <2>1 DEF Lifecycle!SendHeartbeat, P!NetClientData
  <2>3. UNCHANGED <<free, stream>>
    BY <2>1 DEF Lifecycle!SendHeartbeat
  <2>4. QED
    BY <2>2, <2>3 DEF NoneJoins, Open
<1>6. QED
  BY <1>1, <1>2, <1>3, <1>4, <1>5

(* What a step writes, as far as the invariant tells packets apart.        *)
WritesWell(out) ==
  \A s \in Slots : \A p \in out[s] :
    /\ p.type \in Spawning =>
         /\ p.entity \in Entities /\ p.entity.eid < next_eid'
         /\ \A t \in Slots : NoOther(session'[t], p.entity)
    /\ p.type \in Moving /\ Open(s) /\ session'[s].joined =>
         p.entity \in view[s] \cup {Nobody}
    /\ p.type = "keep_alive" => session'[s].joined /\ session'[s].state = "PLAY"

(* What clients were told before the step is not given another meaning.    *)
OldViewsClear ==
  \A s, t \in Slots : \A e \in view[t] : e.eid < next_eid' /\ NoOther(session'[s], e)

LEMMA WriteFacts ==
  ASSUME Typed, OldViewsClear, NEW out, Write(out), WritesWell(out)
  PROVE  /\ view' \in [Slots -> SUBSET Entities]
         /\ \A s \in Slots : view[s] \subseteq view'[s]
         /\ \A s \in Slots : Open(s) /\ session'[s].state = "PLAY" =>
              Spawned(out[s]) \subseteq view'[s]
         /\ ViewsClear' /\ MovesAreOfKnownEntities' /\ KeepAliveInPlay'
<1>1. \A s \in Slots : \A e \in Spawned(out[s]) :
        /\ e \in Entities /\ e.eid < next_eid'
        /\ \A t \in Slots : NoOther(session'[t], e)
  BY DEF WritesWell, Spawned
<1>2. /\ view' \in [Slots -> SUBSET Entities]
      /\ \A s \in Slots : view[s] \subseteq view'[s]
  BY <1>1 DEF Write, Typed
<1>3. \A s \in Slots : Open(s) /\ session'[s].state = "PLAY" => Spawned(out[s]) \subseteq view'[s]
  BY DEF Write
<1>4. \A s \in Slots : \A p \in sent'[s] : Open(s) /\ p \in out[s]
  BY DEF Write
<1>5. MovesAreOfKnownEntities'
  BY <1>2, <1>4 DEF MovesAreOfKnownEntities, WritesWell
<1>6. KeepAliveInPlay'
  BY <1>4 DEF KeepAliveInPlay, WritesWell, Packet
<1>7. ViewsClear'
  <2>1. \A s \in Slots : \A e \in view'[s] : e \in view[s] \/ e \in Spawned(out[s])
    BY DEF Write
  <2>2. QED
    BY <1>1, <2>1 DEF ViewsClear, OldViewsClear
<1>8. QED
  BY <1>2, <1>3, <1>5, <1>6, <1>7

(* Steps on which nobody joins keep what is known of the players.          *)
LEMMA NobodyEnters ==
  ASSUME Core, Typed', SessionsOK', ViewsClear', NoneJoins, PlayersStay,
         next_eid <= next_eid',
         \A s \in Slots : view[s] \subseteq view'[s]
  PROVE  Core'
<1> USE DEF Core
<1>1. BeatsOfPlayers'
  BY DEF BeatsOfPlayers, NoneJoins, PlayersStay
<1>2. EidsGivenOut'
  BY DEF EidsGivenOut, PlayersStay, Typed, SessionType
<1>3. PlayersApart'
  BY DEF PlayersApart, PlayersStay
<1>4. \A s \in Slots : Joined(s)' => Joined(s) /\ session'[s] = session[s]
  BY DEF Joined, NoneJoins, PlayersStay
<1>5. MutualVisibility'
  BY <1>4 DEF MutualVisibility, Player
<1>6. QED
  BY <1>1, <1>2, <1>3, <1>5

LEMMA WriterInv ==
  ASSUME Core, NoneJoins, PlayersStay, NEW out, Write(out), WritesWell(out),
         session' \in [Slots -> SessionType], SessionsOK',
         next_eid' \in 0 .. MaxSpawns, next_eid <= next_eid', next_uuid' \in 0 .. MaxUuids
  PROVE  Core' /\ MovesAreOfKnownEntities' /\ KeepAliveInPlay'
<1>0. OldViewsClear
  <2>1. \A s, t \in Slots : \A e \in view[t] :
          e.eid \in Nat /\ e.eid < next_eid /\ NoOther(session[s], e)
    BY DEF Core, Typed, Entities, ViewsClear
  <2>2. \A s \in Slots : \A e : NoOther(session[s], e) => NoOther(session'[s], e)
    BY DEF PlayersStay, NoOther
  <2>3. next_eid \in Nat /\ next_eid' \in Nat
    BY BoundsAssumption DEF Core, Typed
  <2>4. QED
    BY <2>1, <2>2, <2>3 DEF OldViewsClear
<1>1. /\ view' \in [Slots -> SUBSET Entities]
      /\ \A s \in Slots : view[s] \subseteq view'[s]
      /\ ViewsClear' /\ MovesAreOfKnownEntities' /\ KeepAliveInPlay'
  BY <1>0, WriteFacts DEF Core
<1>2. Typed'
  BY <1>1 DEF Typed
<1>3. QED
  BY <1>1, <1>2, NobodyEnters

LEMMA QuietInv ==
  ASSUME IInv, NoneJoins, UNCHANGED sessionVars,
         Quiet \/ UNCHANGED <<sent, view>>
  PROVE  Core' /\ MovesAreOfKnownEntities' /\ KeepAliveInPlay'
<1> USE DEF IInv
<1>1. Typed' /\ PlayersStay /\ next_eid <= next_eid' /\ UNCHANGED <<view, session>>
  BY BoundsAssumption DEF Core, Typed, sessionVars, Quiet, PlayersStay
<1>2. Core'
  <2>1. SessionsOK' /\ ViewsClear'
    BY <1>1 DEF Core, SessionsOK, ViewsClear, sessionVars
  <2>2. QED
    BY <1>1, <2>1, NobodyEnters
<1>3. MovesAreOfKnownEntities' /\ KeepAliveInPlay'
  <2>1. CASE Quiet
    BY <2>1 DEF Quiet, Nothing, MovesAreOfKnownEntities, KeepAliveInPlay
  <2>2. CASE UNCHANGED <<sent, view>>
    BY <1>1, <2>2 DEF MovesAreOfKnownEntities, KeepAliveInPlay
  <2>3. QED
    BY <2>1, <2>2
<1>4. QED
  BY <1>2, <1>3

-----------------------------------------------------------------------------
(* The handlers.                                                           *)

Kept == Core' /\ MovesAreOfKnownEntities' /\ KeepAliveInPlay'

(* Packets without an entity of their own.                                 *)
Plain(packets) ==
  \A p \in packets : p.type \notin Spawning \cup Moving \cup {"keep_alive"}

LEMMA HandlerKeeps ==
  ASSUME IInv, NEW c \in Streams, NEW state, NEW writes \in BOOLEAN, Handles(c, state, writes)
  PROVE  /\ NoneJoins
         /\ data[c] \in Slots /\ Open(data[c]) /\ session[data[c]].state = state
         /\ free \in [Slots -> BOOLEAN]
<1>1. /\ Lifecycle!ReadPacket(c, writes, FALSE) /\ session[data[c]].state = state
      /\ P!IInv
  BY DEF Handles, IInv
<1>2. data[c] \in Slots /\ Open(data[c])
  BY <1>1, ReaderSlot DEF Lifecycle!ReadPacket
<1>3. NoneJoins
  BY <1>1, ReadPacketKeeps DEF NoneJoins
<1>4. free \in [Slots -> BOOLEAN]
  BY <1>1 DEF P!IInv, P!TypeOK, Slots, Lifecycle!Slots, P!Slots
<1>5. QED
  BY <1>1, <1>2, <1>3, <1>4

(* An answer without an entity, to a client that is no player.             *)
LEMMA PlainReplyInv ==
  ASSUME IInv, NEW c \in Streams, NEW state, NEW writes \in BOOLEAN, NEW packets,
         Handles(c, state, writes), Plain(packets), Write(Reply(c, packets)),
         session' \in [Slots -> SessionType],
         \A s \in Slots : s # data[c] => session'[s] = session[s],
         state # "PLAY", ~session'[data[c]].joined, WellFormed(session'[data[c]]),
         next_eid' = next_eid, next_uuid' \in 0 .. MaxUuids
  PROVE  Kept
<1>1. NoneJoins /\ data[c] \in Slots /\ session[data[c]].state = state
  BY HandlerKeeps
<1>2. PlayersStay /\ SessionsOK'
  BY <1>1 DEF PlayersStay, IInv, Core, SessionsOK, WellFormed
<1>3. WritesWell(Reply(c, packets))
  BY <1>1 DEF WritesWell, Plain, Reply, Nothing
<1>4. QED
  BY <1>1, <1>2, <1>3, WriterInv, BoundsAssumption DEF Kept, IInv, Core, Typed

(* An answer that leaves every session as it is.                           *)
LEMMA PlayerReplyInv ==
  ASSUME IInv, NEW c \in Streams, NEW state, NEW writes \in BOOLEAN, NEW out,
         Handles(c, state, writes), UNCHANGED session, WritesWell(out), Write(out),
         next_eid' \in 0 .. MaxSpawns, next_eid <= next_eid', next_uuid' \in 0 .. MaxUuids
  PROVE  Kept
<1>1. NoneJoins
  BY HandlerKeeps
<1>2. session' \in [Slots -> SessionType] /\ PlayersStay /\ SessionsOK'
  BY DEF IInv, Core, Typed, PlayersStay, SessionsOK
<1>3. QED
  BY <1>1, <1>2, WriterInv DEF Kept, IInv

LEMMA PlainWrites ==
  ASSUME NEW c, NEW packets, Plain(packets)
  PROVE  WritesWell(Reply(c, packets)) /\ WritesWell(Nothing)
BY DEF WritesWell, Plain, Reply, Nothing

(* Handlers of states before PLAY, and answers to the player alone.        *)
LEMMA AnswerInv ==
  ASSUME IInv, NEW c \in Streams,
         \/ intention(c) \/ status_request(c) \/ ping_request(c) \/ hello(c)
         \/ login_acknowledged(c) \/ select_known_packs(c) \/ player_action(c)
         \/ chat_command_inv(c) \/ IgnoredPacket(c)
  PROVE  Kept
<1> USE BoundsAssumption
<1>0. /\ session \in [Slots -> SessionType] /\ next_uuid \in 0 .. MaxUuids /\ next_uuid \in Nat
      /\ next_eid \in 0 .. MaxSpawns /\ next_eid <= next_eid
     /\ SessionsOK
  BY DEF IInv, Core, Typed
<1>1. Plain({}) /\ Nothing = Reply(c, {})
  BY DEF Plain, Nothing, Reply
<1>2. \A type : type \notin Spawning \cup Moving \cup {"keep_alive"} => Plain({Packet(type)})
  BY DEF Plain, Packet
<1> DEFINE NewState(state) ==
             /\ session' \in [Slots -> SessionType]
             /\ \A s \in Slots : s # data[c] => session'[s] = session[s]
             /\ ~session'[data[c]].joined /\ WellFormed(session'[data[c]])
<1>s. ASSUME NEW state \in States, SetState(c, state), data[c] \in Slots,
             session[data[c]].state # "PLAY",
             session[data[c]].state \in {"LOGIN", "CONFIG"} => state \in {"LOGIN", "CONFIG"}
      PROVE  NewState(state)
  BY <1>0, <1>s DEF SetState, SessionType, SessionsOK, WellFormed
<1> HIDE DEF NewState
<1>3. CASE intention(c)
  <2>1. PICK state \in States : SetState(c, state)
    BY <1>3 DEF intention
  <2>2. /\ data[c] \in Slots /\ session[data[c]].state = "HANDSHAKE"
        /\ Handles(c, "HANDSHAKE", FALSE) /\ Write(Reply(c, {}))
        /\ next_eid' = next_eid /\ next_uuid' = next_uuid
    BY <1>1, <1>3, HandlerKeeps DEF intention
  <2>3. NewState(state)
    BY <1>s, <2>1, <2>2 DEF States
  <2>4. QED
    BY <1>0, <1>1, <2>2, <2>3, PlainReplyInv DEF NewState
<1>4. CASE ping_request(c)
  <2>1. data[c] \in Slots /\ session[data[c]].state = "STATUS"
    BY <1>4, HandlerKeeps DEF ping_request
  <2>2. NewState("HANDSHAKE")
    BY <1>s, <1>4, <2>1 DEF ping_request, States
  <2>3. QED
    BY <1>0, <1>2, <1>4, <2>2, PlainReplyInv DEF ping_request, NewState, Spawning, Moving
<1>5. CASE hello(c)
  <2>1. data[c] \in Slots /\ session[data[c]].state = "LOGIN"
    BY <1>5, HandlerKeeps DEF hello
  <2>2. next_uuid' \in 0 .. MaxUuids
    BY <1>0, <1>5 DEF hello
  <2>3. session' \in [Slots -> SessionType]
    BY <1>0, <1>5, <2>1, <2>2 DEF hello, SessionType
  <2>4. /\ \A s \in Slots : s # data[c] => session'[s] = session[s]
        /\ ~session'[data[c]].joined /\ WellFormed(session'[data[c]])
    BY <1>0, <1>5, <2>1 DEF hello, SessionType, SessionsOK, WellFormed
  <2>5. /\ Handles(c, "LOGIN", TRUE) /\ next_eid' = next_eid
        /\ Write(Reply(c, {Packet("login_finished")}))
        /\ Plain({Packet("login_finished")})
    BY <1>2, <1>5 DEF hello, Spawning, Moving
  <2>6. QED
    BY <2>2, <2>3, <2>4, <2>5, PlainReplyInv
<1>6. CASE login_acknowledged(c)
  <2>1. data[c] \in Slots /\ session[data[c]].state = "LOGIN"
    BY <1>6, HandlerKeeps DEF login_acknowledged
  <2>2. NewState("CONFIG")
    BY <1>s, <1>6, <2>1 DEF login_acknowledged, States
  <2>3. QED
    BY <1>0, <1>2, <1>6, <2>2, PlainReplyInv DEF login_acknowledged, NewState, Spawning, Moving
<1>7. CASE status_request(c) \/ select_known_packs(c) \/ chat_command_inv(c)
  <2>1. PICK state, packets : /\ Handles(c, state, TRUE) /\ UNCHANGED sessionVars
                              /\ Write(Reply(c, packets)) /\ Plain(packets)
    <3>1. Plain({Packet("registry_data"), Packet("finish_configuration")})
      BY DEF Plain, Packet, Spawning, Moving
    <3>2. QED
      BY <1>2, <1>7, <3>1 DEF status_request, select_known_packs, chat_command_inv,
         Spawning, Moving
  <2>2. QED
    BY <1>0, <2>1, PlainWrites, PlayerReplyInv DEF sessionVars
<1>8. CASE player_action(c)
  <2>1. PICK broken \in BOOLEAN :
          Write(Reply(c, {Packet("block_changed_ack")} \cup
                         IF broken THEN {Packet("block_update")} ELSE {}))
    BY <1>8 DEF player_action
  <2>2. Plain({Packet("block_changed_ack")} \cup
              IF broken THEN {Packet("block_update")} ELSE {})
    BY DEF Plain, Packet, Spawning, Moving
  <2>3. QED
    BY <1>0, <1>8, <2>1, <2>2, PlainWrites, PlayerReplyInv DEF player_action, sessionVars
<1>9. CASE IgnoredPacket(c)
  <2>1. PICK state \in States : Handles(c, state, FALSE)
    BY <1>9 DEF IgnoredPacket
  <2>2. QED
    BY <1>0, <1>1, <1>9, <2>1, PlainWrites, PlayerReplyInv DEF IgnoredPacket, sessionVars
<1>10. QED
  BY <1>3, <1>4, <1>5, <1>6, <1>7, <1>8, <1>9

(* Players who see one another see one another's moves; a client that went *)
(* to PLAY without joining moves as nobody.                                *)
LEMMA MovesInv ==
  ASSUME IInv, NEW c \in Streams, NEW types \in SUBSET Moving, Moves(c, types)
  PROVE  Kept
<1> DEFINE t == data[c]
           packets == {EntityPacket(type, Player(t)) : type \in types}
<1>1. /\ t \in Slots /\ Open(t) /\ session[t].state = "PLAY" /\ UNCHANGED session
      /\ next_eid' = next_eid /\ next_uuid' = next_uuid
  BY HandlerKeeps DEF Moves, sessionVars
<1>2. \A p \in packets : p.type \in Moving /\ p.entity = Player(t)
  BY DEF EntityPacket
<1>3. \A s \in Slots : s # t /\ Open(s) /\ session[s].joined =>
        Player(t) \in view[s] \cup {Nobody}
  <2>1. CASE session[t].joined
    BY <1>1, <2>1 DEF IInv, Core, MutualVisibility, Joined
  <2>2. CASE ~session[t].joined
    BY <1>1, <2>2 DEF IInv, Core, SessionsOK, WellFormed, Player, Nobody
  <2>3. QED
    BY <2>1, <2>2
<1>4. WritesWell(Broadcast(c, packets))
  <2>1. ASSUME NEW s \in Slots, NEW p \in Broadcast(c, packets)[s]
        PROVE  s # t /\ p \in packets
    BY <2>1 DEF Broadcast, Others
  <2>2. \A m \in Moving : m \notin Spawning /\ m # "keep_alive"
    BY DEF Moving, Spawning
  <2>3. QED
    BY <1>1, <1>2, <1>3, <2>1, <2>2 DEF WritesWell
<1>5. Handles(c, "PLAY", TRUE) /\ Write(Broadcast(c, packets))
  BY DEF Moves
<1>6. next_eid' \in 0 .. MaxSpawns /\ next_eid <= next_eid' /\ next_uuid' \in 0 .. MaxUuids
  BY <1>1, BoundsAssumption DEF IInv, Core, Typed
<1> HIDE DEF packets
<1>7. QED
  BY <1>1, <1>4, <1>5, <1>6, PlayerReplyInv

LEMMA FriendInv ==
  ASSUME IInv, NEW c \in Streams, chat_command_friend(c)
  PROVE  Kept
<1> DEFINE e == [eid |-> next_eid, uuid |-> next_uuid']
<1>1. /\ next_uuid' \in 0 .. MaxUuids /\ next_eid' \in 0 .. MaxSpawns /\ next_eid <= next_eid'
      /\ e \in Entities
  BY BoundsAssumption DEF IInv, Core, Typed, chat_command_friend, GetEid, Entities
<1>2. WritesWell(Reply(c, Announcement(e)))
  <2>1. e.eid < next_eid' /\ UNCHANGED session
    BY BoundsAssumption DEF IInv, Core, Typed, chat_command_friend, GetEid
  <2>2. \A t \in Slots : NoOther(session'[t], e)
    BY <2>1, BoundsAssumption DEF IInv, Core, Typed, SessionType, EidsGivenOut, NoOther
  <2>3. \A p \in Announcement(e) :
          p.type \notin Moving /\ p.type # "keep_alive" /\ p.entity = e
    BY DEF Announcement, EntityPacket, Moving
  <2> HIDE DEF e
  <2>4. QED
    BY <1>1, <2>1, <2>2, <2>3 DEF WritesWell, Reply, Nothing
<1>3. QED
  BY <1>1, <1>2, PlayerReplyInv DEF chat_command_friend

(* Both sides of an introduction: the newcomer is told of the players that *)
(* are there, and they of the newcomer, whose id is none of theirs.        *)
LEMMA EnterInv ==
  ASSUME IInv, NEW c \in Streams, finish_configuration(c)
  PROVE  Kept
<1>0. PICK s \in Slots : s = data[c] /\ Open(s)
  BY ReaderSlot DEF finish_configuration, Lifecycle!ReadPacket, IInv
<1> DEFINE me == Joining(s)
           out == [t \in Slots |->
                     IF t = s THEN JoinBurst(me) \cup Introduced(s)
                              ELSE Broadcast(c, Announcement(me))[t]]
<1>1. /\ Lifecycle!ReadPacket(c, TRUE, TRUE) /\ P!IInv /\ Typed
      /\ next_eid < MaxSpawns /\ next_eid' = next_eid + 1 /\ UNCHANGED next_uuid
      /\ session' = [session EXCEPT ![s].state = "PLAY", ![s].eid = next_eid,
                                        ![s].joined = TRUE]
      /\ Write(out)
  BY <1>0 DEF finish_configuration, GetEid, IInv, Core
<1>2. s \in Slots /\ Open(s) /\ session[s].state = "CONFIG"
  BY <1>0 DEF finish_configuration
<1>3. /\ UNCHANGED free
      /\ \A t \in Slots : Open(t)' <=> Open(t)
      /\ \A t \in Slots : client'[t].heartbeat = "armed" =>
           client[t].heartbeat = "armed" \/ t = s
  BY <1>0, <1>1, ReadPacketKeeps
<1>4. /\ session' \in [Slots -> SessionType]
      /\ session'[s].state = "PLAY" /\ session'[s].eid = next_eid /\ session'[s].joined
      /\ session'[s].uuid = session[s].uuid
      /\ \A t \in Slots : t # s => session'[t] = session[t]
  BY <1>1, <1>2, BoundsAssumption DEF Typed, SessionType, States
<1>5. /\ me \in Entities /\ \A t \in Slots : Player(t) \in Entities
      /\ Player(s)' = me
      /\ \A t \in Slots : t # s => Player(t)' = Player(t)
  <2>1. \A t \in Slots : session[t].eid \in Nat /\ session[t].uuid \in Nat
    BY <1>1, BoundsAssumption DEF Typed, SessionType
  <2>2. next_eid \in Nat
    BY <1>1, BoundsAssumption DEF Typed
  <2>3. me \in Entities /\ \A t \in Slots : Player(t) \in Entities
    BY <1>2, <2>1, <2>2 DEF Joining, Player, Entities
  <2>4. Player(s)' = me
    BY <1>4 DEF Joining, Player
  <2>5. \A t \in Slots : t # s => Player(t)' = Player(t)
    BY <1>4 DEF Player
  <2>6. QED
    BY <2>3, <2>4, <2>5
<1>n. /\ me.eid = next_eid /\ \A t \in Slots : NoOther(session'[t], me)
      /\ \A u \in Slots : u # s =>
           Player(u).eid < next_eid' /\ \A t \in Slots : NoOther(session'[t], Player(u))
  <2>1. /\ next_eid \in Nat /\ next_eid' = next_eid + 1
        /\ \A t \in Slots : session[t].eid \in Nat
        /\ \A t \in Slots : session[t].joined => session[t].eid < next_eid
        /\ \A t \in Slots : ~session[t].joined => session[t].eid = 0
    BY <1>1, BoundsAssumption DEF IInv, Core, Typed, SessionType, EidsGivenOut, SessionsOK,
       WellFormed
  <2>2. me.eid = next_eid /\ me.uuid = session'[s].uuid
    BY <1>4 DEF Joining
  <2>3. ASSUME NEW t \in Slots PROVE NoOther(session'[t], me)
    BY <1>4, <2>1, <2>2 DEF NoOther
  <2>4. ASSUME NEW u \in Slots, u # s PROVE Player(u).eid < next_eid'
    BY <2>1, <2>4 DEF Player
  <2>5. ASSUME NEW u \in Slots, u # s, NEW t \in Slots
        PROVE  NoOther(session'[t], Player(u))
    <3>1. Player(u).eid = session[u].eid /\ Player(u).uuid = session[u].uuid
      BY DEF Player
    <3>2. CASE ~session[u].joined
      BY <2>1, <3>1, <3>2 DEF NoOther
    <3>3. CASE session[u].joined /\ t = s
      <4>1. session'[t].eid = next_eid /\ session[u].eid # next_eid
        BY <1>4, <2>1, <3>3
      <4>2. Player(u).eid # session'[t].eid
        BY <3>1, <4>1
      <4>3. QED
        BY <4>2 DEF NoOther
    <3>4. CASE session[u].joined /\ t # s
      BY <1>4, <3>1, <3>4 DEF NoOther, IInv, Core, PlayersApart
    <3>5. QED
      BY <3>2, <3>3, <3>4
  <2>6. QED
    BY <2>2, <2>3, <2>4, <2>5
<1>o. OldViewsClear
  <2>1. \A t \in Slots : \A e \in view[t] : e.eid \in Nat /\ e.eid < next_eid
    BY DEF IInv, Core, Typed, Entities, ViewsClear
  <2>2. \A t, u \in Slots : \A e \in view[t] : NoOther(session'[u], e)
    BY <1>2, <1>4, <2>1, BoundsAssumption DEF IInv, Core, Typed, ViewsClear, NoOther
  <2>3. QED
    BY <1>1, <2>1, <2>2, BoundsAssumption DEF OldViewsClear, Typed
<1>6. ASSUME NEW t \in Slots, NEW p \in out[t]
      PROVE  /\ p.type \notin Moving /\ p.type # "keep_alive"
             /\ p.type \in Spawning =>
                  p.entity = me \/ \E u \in Slots : u # s /\ p.entity = Player(u)
  <2>1. \A e : \A q \in Announcement(e) :
          q.type \notin Moving /\ q.type # "keep_alive" /\ q.entity = e
    BY DEF Announcement, EntityPacket, Moving
  <2>2. CASE t = s
    <3>1. \A q \in JoinBurst(me) :
            /\ q.type \notin Moving /\ q.type # "keep_alive"
            /\ q.type \in Spawning => q.entity = me
      BY DEF JoinBurst, EntityPacket, Packet, Moving, Spawning
    <3>2. \A q \in Introduced(s) : \E u \in Slots : u # s /\ q \in Announcement(Player(u))
      BY DEF Introduced, Others
    <3>3. QED
      BY <1>5, <1>6, <2>1, <2>2, <3>1, <3>2
  <2>3. CASE t # s
    BY <1>5, <1>6, <2>1, <2>3, <1>0 DEF Broadcast
  <2>4. QED
    BY <2>2, <2>3
<1>7. WritesWell(out)
  <2>1. next_eid \in Nat /\ next_eid < next_eid'
    BY <1>1, BoundsAssumption DEF Typed
  <2> HIDE DEF out, me
  <2>2. QED
    BY <1>5, <1>n, <1>6, <2>1 DEF WritesWell
<1>8. /\ view' \in [Slots -> SUBSET Entities]
      /\ \A t \in Slots : view[t] \subseteq view'[t]
      /\ \A t \in Slots : Open(t) /\ session'[t].state = "PLAY" => Spawned(out[t]) \subseteq view'[t]
      /\ ViewsClear' /\ MovesAreOfKnownEntities' /\ KeepAliveInPlay'
  <2> HIDE DEF out
  <2> QED
    BY <1>1, <1>o, <1>7, WriteFacts
<1>9. Typed'
  BY <1>1, <1>4, <1>8, BoundsAssumption DEF Typed
<1>10. BeatsOfPlayers' /\ SessionsOK'
  BY <1>3, <1>4 DEF IInv, Core, BeatsOfPlayers, SessionsOK, WellFormed
<1>11. EidsGivenOut'
  BY <1>1, <1>4, BoundsAssumption DEF IInv, Core, EidsGivenOut, Typed, SessionType
<1>12. PlayersApart'
  BY <1>1, <1>4, BoundsAssumption DEF IInv, Core, EidsGivenOut, PlayersApart, Typed, SessionType
<1>13. MutualVisibility'
  <2>1. \A e : EntityPacket("add_entity", e) \in Announcement(e)
    BY DEF Announcement
  <2>2. \A packets, e : EntityPacket("add_entity", e) \in packets => e \in Spawned(packets)
    BY DEF Spawned, EntityPacket, Spawning
  <2>3. \A t \in Slots : t # s /\ Open(t) => t \in Others(s)
    BY DEF Others, Open
  <2>4. \A t \in Slots : t # s /\ Open(t) => Player(t) \in Spawned(out[s])
    BY <1>2, <2>1, <2>2, <2>3 DEF Introduced
  <2>5. \A t \in Slots : t # s /\ Open(t) => me \in Spawned(out[t])
    BY <1>0, <2>1, <2>2, <2>3 DEF Broadcast
  <2> HIDE DEF out, me
  <2>6. SUFFICES ASSUME NEW a \in Slots, NEW b \in Slots, a # b, Joined(a)', Joined(b)'
                 PROVE  Player(b)' \in view'[a]
    BY DEF MutualVisibility
  <2>7. /\ Open(a) /\ session'[a].joined /\ session'[a].state = "PLAY"
        /\ Open(b) /\ session'[b].joined
    BY <1>3, <1>10, <2>6 DEF Joined, SessionsOK, WellFormed
  <2>8. CASE a = s
    BY <1>5, <1>8, <2>4, <2>6, <2>7, <2>8
  <2>9. CASE b = s
    BY <1>5, <1>8, <2>5, <2>6, <2>7, <2>9
  <2>10. CASE a # s /\ b # s
    BY <1>4, <1>5, <1>8, <2>6, <2>7, <2>10 DEF IInv, Core, MutualVisibility, Joined
  <2>11. QED
    BY <2>8, <2>9, <2>10
<1>14. QED
  BY <1>8, <1>9, <1>10, <1>11, <1>12, <1>13 DEF Kept, Core

LEMMA HandlerInv ==
  ASSUME IInv, NEW c \in Streams, Handler(c)
  PROVE  Kept
<1>1. CASE move_player_pos(c) \/ move_player_pos_rot(c) \/ move_player_rot(c)
  BY <1>1, MovesInv DEF move_player_pos, move_player_pos_rot, move_player_rot, Moving
<1>2. CASE chat_command_friend(c)
  BY <1>2, FriendInv
<1>3. CASE finish_configuration(c)
  BY <1>3, EnterInv
<1>4. CASE PacketAborts(c)
  <2>1. UNCHANGED <<stream, free, client>> /\ UNCHANGED sessionVars /\ Quiet
    BY <1>4 DEF PacketAborts, Lifecycle!ReadPacketAborts
  <2>2. NoneJoins
    BY <2>1, ConnectionKeeps DEF IInv
  <2>3. QED
    BY <2>1, <2>2, QuietInv DEF Kept
<1>5. QED
  BY <1>1, <1>2, <1>3, <1>4, AnswerInv DEF Handler

-----------------------------------------------------------------------------
(* The other callbacks.                                                    *)

(* The next client of a slot starts in HANDSHAKE with its timer stopped.   *)
LEMMA NewConnectionInv ==
  ASSUME IInv, NEW c \in Streams, NEW s \in Slots, NewConnection(c, s)
  PROVE  Kept
<1> USE DEF Slots, Lifecycle!Slots, P!Slots
<1>1. /\ stream[c] = "unallocated" /\ free[s]
      /\ free' = [free EXCEPT ![s] = FALSE] /\ stream' = [stream EXCEPT ![c] = "open"]
      /\ client' = [client EXCEPT ![s] = Lifecycle!FreshClient(s, c)]
      /\ session' = [session EXCEPT ![s] = ZeroedSession]
      /\ view' = [view EXCEPT ![s] = {}]
      /\ sent' = Nothing /\ UNCHANGED <<next_eid, next_uuid>>
  BY DEF NewConnection, Lifecycle!NewConnection, Lifecycle!FirstFree
<1>2. /\ free \in [Slots -> BOOLEAN] /\ client \in [Slots -> P!NetClientData]
      /\ stream \in [Streams -> {"unallocated", "open", "closing"}]
      /\ \A t \in Slots : ~free[t] =>
           client[t].client_stream \in Streams /\ stream[client[t].client_stream] # "unallocated"
  BY DEF IInv, P!IInv, P!TypeOK, P!SlotOwnership
<1>3. /\ ZeroedSession \in SessionType /\ ~ZeroedSession.joined
      /\ WellFormed(ZeroedSession)
  BY BoundsAssumption DEF ZeroedSession, SessionType, States, NoUuid, WellFormed
<1>4. Typed'
  BY <1>1, <1>3 DEF IInv, Core, Typed
<1>5. /\ session'[s] = ZeroedSession /\ view'[s] = {}
      /\ \A t \in Slots : t # s => /\ session'[t] = session[t] /\ view'[t] = view[t]
                                   /\ client'[t] = client[t] /\ free'[t] = free[t]
  BY <1>1, <1>2, <1>3 DEF IInv, Core, Typed
<1>6. client'[s].heartbeat = "idle"
  BY <1>1, <1>2 DEF Lifecycle!FreshClient, Lifecycle!ZeroedClient
<1>7. BeatsOfPlayers' /\ SessionsOK'
  BY <1>3, <1>5, <1>6 DEF IInv, Core, BeatsOfPlayers, SessionsOK
<1>8. EidsGivenOut' /\ PlayersApart' /\ ViewsClear'
  BY <1>1, <1>3, <1>5 DEF IInv, Core, EidsGivenOut, PlayersApart, ViewsClear, NoOther
<1>9. \A t \in Slots : Joined(t)' => t # s /\ Joined(t)
  <2>1. SUFFICES ASSUME NEW t \in Slots, Joined(t)' PROVE t # s /\ Joined(t)
    OBVIOUS
  <2>2. t # s /\ ~free[t] /\ session[t].joined /\ client'[t] = client[t]
    BY <1>3, <1>5, <2>1 DEF Joined, Open
  <2>3. client[t].client_stream \in Streams /\ client[t].client_stream # c
    BY <1>1, <1>2, <2>2
  <2>4. stream[client[t].client_stream] = "open"
    BY <1>1, <1>2, <2>1, <2>2, <2>3 DEF Joined, Open
  <2>5. QED
    BY <2>2, <2>4 DEF Joined, Open
<1>10. MutualVisibility'
  BY <1>5, <1>9 DEF IInv, Core, MutualVisibility, Player
<1>11. MovesAreOfKnownEntities' /\ KeepAliveInPlay'
  BY <1>1 DEF Nothing, MovesAreOfKnownEntities, KeepAliveInPlay
<1>12. QED
  BY <1>4, <1>7, <1>8, <1>10, <1>11 DEF Kept, Core

(* An expired timer is a player's.                                         *)
LEMMA SendHeartbeatInv ==
  ASSUME IInv, NEW s \in Slots, SendHeartbeat(s)
  PROVE  Kept
<1> DEFINE out == [Nothing EXCEPT ![s] = {Packet("keep_alive")}]
<1>1. /\ Lifecycle!SendHeartbeat(s) /\ UNCHANGED session /\ Write(out)
      /\ next_eid' = next_eid /\ next_uuid' = next_uuid
  BY DEF SendHeartbeat, sessionVars
<1>2. session'[s].joined /\ session'[s].state = "PLAY"
  BY <1>1 DEF Lifecycle!SendHeartbeat, IInv, P!IInv, P!TimerSafety, P!Slots, Core,
     BeatsOfPlayers, SessionsOK, WellFormed, Slots, Lifecycle!Slots
<1>3. WritesWell(out)
  BY <1>2 DEF WritesWell, Nothing, Packet, Spawning, Moving
<1>4. NoneJoins
  BY <1>1, ConnectionKeeps DEF IInv
<1>5. /\ session' \in [Slots -> SessionType] /\ PlayersStay /\ SessionsOK'
      /\ next_eid' \in 0 .. MaxSpawns /\ next_eid <= next_eid' /\ next_uuid' \in 0 .. MaxUuids
  BY <1>1, BoundsAssumption DEF IInv, Core, Typed, PlayersStay, SessionsOK
<1> HIDE DEF out
<1>6. QED
  BY <1>1, <1>3, <1>4, <1>5, WriterInv DEF IInv, Kept

(* What only the connections notice.                                       *)
LEMMA OtherInv ==
  ASSUME IInv,
         \/ \E c \in Streams : CloseConnection(c)
         \/ \E s \in Slots : HeartbeatExpires(s)
         \/ Unhandled \/ LoopStep \/ Terminated \/ UNCHANGED vars
  PROVE  Kept
<1>1. UNCHANGED sessionVars /\ (Quiet \/ UNCHANGED <<sent, view>>)
  BY DEF CloseConnection, HeartbeatExpires, Unhandled, LoopStep, Terminated, vars, sessionVars
<1>2. \/ UNCHANGED <<stream, free, client>>
      \/ \E c \in Streams : \/ Lifecycle!ReadPartial(c) \/ Lifecycle!ReadEof(c)
                            \/ Lifecycle!CloseConnection(c)
  BY DEF CloseConnection, HeartbeatExpires, Unhandled, LoopStep, Terminated, vars,
     Lifecycle!HeartbeatExpires, Lifecycle!NewConnectionNoSlot, Lifecycle!ReadError,
     Lifecycle!ListenError, Lifecycle!AcceptError, Lifecycle!StdinStop, Lifecycle!LoopStep, Lifecycle!TimersDone,
     Lifecycle!PollDone, Lifecycle!ClosingDone
<1>3. NoneJoins
  BY <1>2, ConnectionKeeps DEF IInv
<1>4. QED
  BY <1>1, <1>3, QuietInv DEF Kept

LEMMA InitInv == Init => IInv
<1> SUFFICES ASSUME Init PROVE IInv
  OBVIOUS
<1>1. P!IInv
  BY ConnectionsInit
<1>2. /\ session = [s \in Slots |-> ZeroedSession] /\ next_eid = 0 /\ next_uuid = 0
      /\ sent = Nothing /\ view = [s \in Slots |-> {}]
      /\ \A s \in Slots : client[s].heartbeat = "zeroed"
  BY DEF Init, NoUuid, Lifecycle!Init, Lifecycle!ZeroedClient, Slots
<1>3. Typed /\ SessionsOK /\ \A s \in Slots : ~session[s].joined
  BY <1>2, BoundsAssumption DEF Typed, SessionType, ZeroedSession, States, NoUuid, SessionsOK,
     WellFormed
<1>4. Core
  BY <1>2, <1>3 DEF Core, BeatsOfPlayers, EidsGivenOut, PlayersApart, ViewsClear,
     MutualVisibility, Joined
<1>5. QED
  BY <1>1, <1>2, <1>4 DEF IInv, Nothing, MovesAreOfKnownEntities, KeepAliveInPlay

LEMMA NextInv ==
  ASSUME IInv, [Next]_vars
  PROVE  IInv'
<1>1. P!IInv'
  BY ConnectionsNext DEF IInv
<1>2. CASE \E c \in Streams, s \in Slots : NewConnection(c, s)
  BY <1>1, <1>2, NewConnectionInv DEF Kept, IInv
<1>3. CASE \E c \in Streams : Handler(c)
  BY <1>1, <1>3, HandlerInv DEF Kept, IInv
<1>4. CASE \E s \in Slots : SendHeartbeat(s)
  BY <1>1, <1>4, SendHeartbeatInv DEF Kept, IInv
<1>5. CASE \/ \E c \in Streams : CloseConnection(c)
           \/ \E s \in Slots : HeartbeatExpires(s)
           \/ Unhandled \/ LoopStep \/ Terminated \/ UNCHANGED vars
  BY <1>1, <1>5, OtherInv DEF Kept, IInv
<1>6. QED
  BY <1>2, <1>3, <1>4, <1>5 DEF Next

(* The invariant holds in every state the server reaches.                 *)
THEOREM Invariance == Spec => []IInv
<1>1. Init => IInv
  BY InitInv
<1>2. IInv /\ [Next]_vars => IInv'
  BY NextInv
<1>3. QED
  BY <1>1, <1>2, PTL DEF Spec

(* Connections and sessions keep their types, whatever packets come in.    *)
THEOREM TypeCorrect == Spec => []TypeOK
<1>1. P!TypeOK => Lifecycle!TypeOK
  BY DEF P!TypeOK, Lifecycle!TypeOK, P!Slots, Lifecycle!Slots, P!NetClientData,
     Lifecycle!NetClientData, P!Pointers, Lifecycle!Pointers, P!Aborted, Lifecycle!Aborted
<1>2. IInv => TypeOK
  BY <1>1 DEF IInv, P!IInv, Core, Typed, SessionType, TypeOK
<1>3. QED
  BY <1>2, Invariance, PTL

(* No two players have the same entity id, and no friend or player of the  *)
(* past was known to anyone by the id of a player, however often the slots *)
(* change hands and whatever state clients ask for: ids are given out one  *)
(* by one, to players and friends alike.                                   *)
THEOREM EidsUnique == Spec => []EidUnique
<1>1. IInv => EidUnique
  BY DEF IInv, Core, PlayersApart, ViewsClear, EidUnique
<1>2. QED
  BY <1>1, Invariance, PTL

(* Any two players are told of each other, for any number of slots and any *)
(* order of joins, disconnects and reconnects.                             *)
THEOREM PlayersSeeOneAnother == Spec => []MutualVisibility
<1>1. IInv => MutualVisibility
  BY DEF IInv, Core
<1>2. QED
  BY <1>1, Invariance, PTL

(* No player is told of the moves of an entity it does not know, but for   *)
(* those of nobody, of clients that asked for PLAY in their handshake.     *)
THEOREM MovesAreKnown == Spec => []MovesAreOfKnownEntities
<1>1. IInv => MovesAreOfKnownEntities
  BY DEF IInv
<1>2. QED
  BY <1>1, Invariance, PTL

(* Heartbeats go to players: a timer never outlives its client, and none   *)
(* runs for a client that asked for PLAY in its handshake.                 *)
THEOREM HeartbeatsInPlay == Spec => []KeepAliveInPlay
<1>1. IInv => KeepAliveInPlay
  BY DEF IInv
<1>2. QED
  BY <1>1, Invariance, PTL
=============================================================================
