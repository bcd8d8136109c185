--------------------------------- MODULE Nbt ---------------------------------
(***************************************************************************)
(* A document of JsonItems as NBT, the way pb_nbt_from_json writes it into *)
(* a packet.  Bytes are tokens: tags, names and payloads.                  *)
(***************************************************************************)
EXTENDS JsonTrees

VARIABLES
  nbt   \* the tokens pb_nbt_from_json wrote, <<>> while there are none

Tag(tag) == <<"tag", tag>>

(* Without a name, or with an empty one, not even its length is written.   *)
pb_nbt_write_name(name) == IF name = NoName THEN <<>> ELSE << <<"name", name>> >>

(* pb_nbt_byte, pb_nbt_int, pb_nbt_double, pb_nbt_string and, without a    *)
(* payload, pb_nbt_compound.                                               *)
Tagged(tag, name, payload) == <<Tag(tag)>> \o pb_nbt_write_name(name) \o payload

pb_nbt_list(tag, size, name) == Tagged("List", name, <<Tag(tag), <<"size", size>>>>)

(* Mutant: no end for a compound inside another value.                     *)
pb_nbt_end_Forgotten(i) == IF i = response THEN <<Tag("End")>> ELSE <<>>

pb_nbt_end(i) == <<Tag("End")>>

RECURSIVE cJSON_GetArraySize(_)
cJSON_GetArraySize(child) == IF child = Null THEN 0 ELSE 1 + cJSON_GetArraySize(heap[child].next)

(* floor(valuedouble) == valuedouble, of a number as it is printed.        *)
IsInteger(value) == "." \notin Range(value)

(* The items of a list from i on.                                          *)
RECURSIVE pb_json_to_nbt_recur(_)
pb_json_to_nbt_recur(i) ==
  LET e == heap[i]
      children == pb_json_to_nbt_recur(e.child)
      field ==
        CASE e.type = "String" -> Tagged("String", e.string, << <<"string", e.value>> >>)
          [] e.type = "Array"  ->
               pb_nbt_list("Compound", cJSON_GetArraySize(e.child), e.string) \o children
          [] e.type = "Object" -> Tagged("Compound", e.string, children) \o pb_nbt_end(i)
          [] e.type = "Number" ->
               IF IsInteger(e.value) THEN Tagged("Int", e.string, << <<"int", e.value>> >>)
               ELSE Tagged("Double", e.string, << <<"double", e.value>> >>)
          [] e.type = "True"   -> Tagged("Byte", e.string, << <<"byte", 1>> >>)
          [] e.type = "False"  -> Tagged("Byte", e.string, << <<"byte", 0>> >>)
  IN  IF i = Null THEN <<>> ELSE field \o pb_json_to_nbt_recur(e.next)

(* ASSERT(false) for an array whose first element is not an object.        *)
HasOtherArray(i) ==
  \E a \in Doomed(heap, i) :
    heap[a].type = "Array" /\ (heap[a].child = Null \/ heap[heap[a].child].type # "Object")

(* pb_nbt_from_json.                                                       *)
WriteNbt ==
  /\ phase = "built" /\ nbt = <<>>
  /\ IF HasOtherArray(response)
     THEN Abort /\ UNCHANGED nbt
     ELSE /\ nbt' = Tagged("Compound", NoName, pb_json_to_nbt_recur(heap[response].child))
                      \o pb_nbt_end(response)
          /\ UNCHANGED vars

-----------------------------------------------------------------------------
(* Properties.                                                             *)

Token(k) == IF k \in DOMAIN nbt THEN nbt[k] ELSE <<"none", "none">>

Read(type, name, value, items, next) ==
  [doc |-> [type |-> type, name |-> name, value |-> value, items |-> items], next |-> next]

(* A reader of what is written: fields up to an end, elements by number,   *)
(* each element with a tag of its own.                                     *)
RECURSIVE ReadField(_)
RECURSIVE ReadFields(_)
RECURSIVE ReadElements(_, _)

ReadFields(k) ==
  LET one  == ReadField(k)
      rest == ReadFields(one.next)
  IN  IF Token(k)[1] # "tag" THEN [docs |-> <<"broken">>, next |-> k]
      ELSE IF Token(k) = Tag("End") THEN [docs |-> <<>>, next |-> k + 1]
      ELSE [docs |-> <<one.doc>> \o rest.docs, next |-> rest.next]

ReadElements(k, size) ==
  LET one  == ReadField(k)
      rest == ReadElements(one.next, size - 1)
  IN  IF size = 0 THEN [docs |-> <<>>, next |-> k]
      ELSE IF Token(k) # Tag("Compound") THEN [docs |-> <<"broken">>, next |-> k]
      ELSE [docs |-> <<one.doc>> \o rest.docs, next |-> rest.next]

ReadField(k) ==
  LET tag   == Token(k)[2]
      named == Token(k + 1)[1] = "name"
      name  == IF named THEN Token(k + 1)[2] ELSE NoName
      at    == IF named THEN k + 2 ELSE k + 1
      list  == ReadElements(at + 2, Token(at + 1)[2])
      block == ReadFields(at)
      value == Token(at)[2]
  IN  CASE tag = "Byte" -> Read(IF value = 1 THEN "True" ELSE "False", name, NoValue, <<>>, at + 1)
        [] tag = "String" -> Read("String", name, value, <<>>, at + 1)
        [] tag \in {"Int", "Double"} -> Read("Number", name, value, <<>>, at + 1)
        [] tag = "List" -> Read("Array", name, NoValue, list.docs, list.next)
        [] tag = "Compound" -> Read("Object", name, NoValue, block.docs, block.next)

(* Every value, name, end and size is written where a reader looks for it, *)
(* however deep the document: it reads the document back and is then at    *)
(* the end of the packet.                                                  *)
NbtReadsBack ==
  nbt # <<>> => ReadField(1) = [doc |-> Tree(heap, response), next |-> Len(nbt) + 1]
=============================================================================
