-------------------------- MODULE MCClientLifecycle --------------------------
(* The instance of ClientLifecycle that TLC checks: every way to end the   *)
(* server.                                                                 *)
EXTENDS ClientLifecycle

AllFaults == {"listen_error", "accept_error", "read_error", "stop"}
=============================================================================
