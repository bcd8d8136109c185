---------------------------- MODULE MCEmceeServer ----------------------------
(* The instances of EmceeServer that TLC checks.                           *)
EXTENDS EmceeServer, TLC

CONSTANTS c1, c2, c3

MCStreams == {c1, c2, c3}
MCStreams2 == {c1, c2}

Symmetry == Permutations(MCStreams)

(* Stopping is left to the run of the liveness property: it doubles the    *)
(* states and changes no session.                                          *)
Aborts == {"listen_error", "accept_error", "read_error"}
AllFaults == Aborts \cup {"stop"}
=============================================================================
