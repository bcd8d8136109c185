----------------------------- MODULE JsonDocument -----------------------------
(***************************************************************************)
(* What the JSON macros of util.h promise to a handler: a document is      *)
(* built from the outside in, every field and element at the end of the    *)
(* innermost open block, and it is there as a whole or not at all.         *)
(* JsonItems implements this specification.                                *)
(***************************************************************************)
EXTENDS Sequences, SequencesExt

CONSTANTS
  Elements,    \* values without contents: [type, name, value, items]
  Containers   \* objects and arrays, without their contents

VARIABLES
  open,      \* the open blocks, outermost first, with what they hold so far
  document   \* <<the finished document>>, or <<>>

vars == <<open, document>>

Init == open = <<>> /\ document = <<>>

(* A field or an element is put at the end of a block.                     *)
With(block, v) == [block EXCEPT !.items = Append(@, v)]

Begin(root) ==
  /\ open = <<>> /\ document = <<>>
  /\ open' = <<root>>
  /\ UNCHANGED document

OpenBlock(c) ==
  /\ open # <<>>
  /\ open' = Append(open, c)
  /\ UNCHANGED document

Add(v) ==
  /\ open # <<>>
  /\ open' = [open EXCEPT ![Len(open)] = With(@, v)]
  /\ UNCHANGED document

CloseBlock ==
  /\ Len(open) > 1
  /\ LET outer == Front(open)
     IN  open' = [outer EXCEPT ![Len(outer)] = With(@, Last(open))]
  /\ UNCHANGED document

Finish ==
  /\ Len(open) = 1
  /\ document' = open
  /\ open' = <<>>

Discard == open' = <<>> /\ document' = <<>>

Next ==
  \/ \E c \in Containers : Begin(c) \/ OpenBlock(c)
  \/ \E v \in Elements : Add(v)
  \/ CloseBlock \/ Finish \/ Discard

Spec == Init /\ [][Next]_vars
=============================================================================
