---------------------------- MODULE PacketChannel ----------------------------
(***************************************************************************)
(* What a slot promises to the packet handlers: the packets of its client, *)
(* one by one, each as it was sent and none left out, and never one of the *)
(* client that had the slot before.  Only a packet that cannot be read     *)
(* ends the server.                                                        *)
(***************************************************************************)
EXTENDS Naturals, Sequences

CONSTANTS
  Packets,     \* packets a client may send
  Readable     \* those the handlers can be given

VARIABLES
  state,       \* of the slot: "free", "open" or, of the server, "aborted"
  sent,        \* packets this client has sent
  delivered    \* packets the handlers were given

vars == <<state, sent, delivered>>

Init == state = "free" /\ sent = <<>> /\ delivered = <<>>

Open ==
  /\ state = "free" /\ state' = "open"
  /\ sent' = <<>> /\ delivered' = <<>>

Send(p) ==
  /\ state = "open"
  /\ sent' = Append(sent, p)
  /\ UNCHANGED <<state, delivered>>

Waiting == state = "open" /\ Len(delivered) < Len(sent)

Pending == sent[Len(delivered) + 1]

Deliver ==
  /\ Waiting /\ Pending \in Readable
  /\ delivered' = Append(delivered, Pending)
  /\ UNCHANGED <<state, sent>>

Abort ==
  /\ Waiting /\ Pending \notin Readable
  /\ state' = "aborted"
  /\ UNCHANGED <<sent, delivered>>

Close ==
  /\ state = "open" /\ state' = "free"
  /\ UNCHANGED <<sent, delivered>>

Next == Open \/ (\E p \in Packets : Send(p)) \/ Deliver \/ Abort \/ Close

Spec == Init /\ [][Next]_vars
=============================================================================
