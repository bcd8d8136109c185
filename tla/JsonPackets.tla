----------------------------- MODULE JsonPackets -----------------------------
(***************************************************************************)
(* The life of a JSON document in a handler: built by the JSON macros,     *)
(* written into packets as text or as NBT, and deleted.                    *)
(***************************************************************************)
EXTENDS JsonParse, Nbt

jsonVars == <<vars, textVars, nbt>>

JsonInit == TextInit /\ nbt = <<>>

(* A handler writes its document once, as text or as NBT, neither of which *)
(* changes it.                                                             *)
JsonNext ==
  \/ Build /\ UNCHANGED <<textVars, nbt>>
  \/ nbt = <<>> /\ WriteJson /\ UNCHANGED nbt
  \/ text = <<>> /\ calls = <<>> /\ WriteNbt /\ UNCHANGED textVars
  \/ Discard /\ nbt' = <<>>
  \/ Stopped /\ UNCHANGED <<textVars, nbt>>

JsonSpec == JsonInit /\ [][JsonNext]_jsonVars
=============================================================================
