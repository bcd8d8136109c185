-------------------------------- MODULE MCJson --------------------------------
(* The instance of JsonPackets that TLC checks.                            *)
EXTENDS JsonPackets

MCNames == {<<"k">>}
MCStrings == {<<"tab", "ctl", Quote>>}
MCNumbers == {<<"7">>, <<"0", ".", "5">>}
=============================================================================
