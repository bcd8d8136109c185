---------------------------- MODULE ConnectionPool ----------------------------
(***************************************************************************)
(* What the slot table of server.c promises to the rest of the server: a   *)
(* connection that is admitted owns one slot until it is released, a slot  *)
(* has one owner at a time, only an owned slot has a heartbeat, and a      *)
(* connection is turned away, which ends the process, only when every slot *)
(* is owned.  ClientLifecycle implements this specification.               *)
(***************************************************************************)
CONSTANTS
  Streams,  \* connections
  Slots,    \* places for clients
  Nobody    \* the owner of a slot that is free

VARIABLES
  mode,     \* "up", "overflow" once a connection found no slot, or "down"
  owner,    \* the connection that owns each slot
  beating   \* slots whose heartbeat is armed

vars == <<mode, owner, beating>>

Init ==
  /\ mode = "up"
  /\ owner = [s \in Slots |-> Nobody]
  /\ beating = {}

(* c gets a slot of its own; the slot's previous owner left no heartbeat.  *)
Admit(c, s) ==
  /\ mode = "up"
  /\ owner[s] = Nobody /\ s \notin beating
  /\ \A t \in Slots : owner[t] # c
  /\ owner' = [owner EXCEPT ![s] = c]
  /\ UNCHANGED <<mode, beating>>

StartHeartbeat(s) ==
  /\ mode = "up"
  /\ owner[s] # Nobody
  /\ beating' = beating \cup {s}
  /\ UNCHANGED <<mode, owner>>

Release(s) ==
  /\ mode = "up"
  /\ owner[s] # Nobody
  /\ owner' = [owner EXCEPT ![s] = Nobody]
  /\ beating' = beating \ {s}
  /\ UNCHANGED mode

Overflow ==
  /\ mode = "up"
  /\ \A s \in Slots : owner[s] # Nobody
  /\ mode' = "overflow"
  /\ UNCHANGED <<owner, beating>>

GoDown ==
  /\ mode = "up"
  /\ mode' = "down"
  /\ UNCHANGED <<owner, beating>>

Next ==
  \/ \E c \in Streams, s \in Slots : Admit(c, s)
  \/ \E s \in Slots : StartHeartbeat(s)
  \/ \E s \in Slots : Release(s)
  \/ Overflow
  \/ GoDown

Spec == Init /\ [][Next]_vars
=============================================================================
