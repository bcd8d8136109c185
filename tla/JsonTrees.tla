------------------------------ MODULE JsonTrees ------------------------------
(***************************************************************************)
(* The documents that the items of JsonItems stand for: the JSON macros    *)
(* build what JsonDocument describes.                                      *)
(***************************************************************************)
EXTENDS JsonText

(* The documents of the items of a list from item i on, which lists holds  *)
(* for every item.                                                         *)
From(lists, i) == IF i = Null THEN <<>> ELSE lists[i]

AsDocument(item, lists) ==
  [type |-> item.type, name |-> item.string, value |-> item.value,
   items |-> From(lists, item.child)]

Listed(item, lists) == <<AsDocument(item, lists)>> \o From(lists, item.next)

Lists(h) ==
  LET lists[i \in Allocated(h)] == Listed(h[i], lists)
  IN  lists

(* The document of an item, as a value.                                    *)
Tree(h, i) == AsDocument(h[i], Lists(h))

(* Open block k without the block inside it, if that is linked already.    *)
OpenTree(h, open, k) ==
  LET whole == Tree(h, open[k])
      inner == k < Len(open) /\ whole.type = "Object"
  IN  IF inner THEN [whole EXCEPT !.items = Front(@)] ELSE whole

OpenTrees(h, open) == [k \in DOMAIN open |-> OpenTree(h, open, k)]

Value(type, name, value) ==
  [type |-> type, name |-> name, value |-> value, items |-> <<>>]

Elements ==
  {Value("String", n, v) : n \in Names, v \in Strings} \cup
  {Value("Number", n, v) : n \in Names, v \in Numbers} \cup
  {Value(t, n, NoValue) : t \in {"True", "False"}, n \in Names}
Containers == {Value(t, n, NoValue) : t \in {"Object", "Array"}, n \in Names \cup {NoName}}

OpenNow == IF Building THEN OpenTrees(heap, blocks) ELSE <<>>
DocumentNow == IF phase = "built" THEN <<Tree(heap, response)>> ELSE <<>>

Document == INSTANCE JsonDocument WITH open <- OpenNow, document <- DocumentNow

(* The linked items are the document the macros describe, with its fields  *)
(* and elements in their order.                                            *)
ImplementsDocument == Document!Spec
=============================================================================
