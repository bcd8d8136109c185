------------------------------ MODULE JsonItems ------------------------------
(***************************************************************************)
(* JSON documents as cJSON keeps them: items in doubly linked lists, built *)
(* by the macros of util.h for status_request, with memory that may run    *)
(* out at every allocation.  An item owns the blocks of its name and of    *)
(* its string, which come and go with it.                                  *)
(***************************************************************************)
EXTENDS Naturals, Sequences, SequencesExt

CONSTANTS
  MaxItems,  \* bound: items at a time
  Names,     \* names of fields
  Strings,   \* values of strings, as sequences of characters
  Numbers    \* numbers, as they are printed

ASSUME ItemsAssumption == MaxItems \in Nat /\ <<>> \notin Names

(* The addresses of the items, and the null pointer.                       *)
Items == 1 .. MaxItems
Null == 0
Pointers == Items \cup {Null}

VARIABLES
  phase,     \* "idle", "build" in the JSON macro, "built", "failed" by
             \* ASSERT(json_ok), or "aborted" by a later ASSERT
  heap,      \* the items
  response,  \* the JOBJ of the JSON macro
  blocks     \* the containers whose blocks are open, outermost first

vars == <<phase, heap, response, blocks>>

NoName == <<>>
NoValue == <<>>

Cells ==
  [type: {"unallocated", "String", "Number", "True", "False", "Object", "Array"},
   string: Names \cup {NoName}, value: Strings \cup Numbers \cup {NoValue},
   next: Pointers, prev: Pointers, child: Pointers]

Unallocated ==
  [type |-> "unallocated", string |-> NoName, value |-> NoValue,
   next |-> Null, prev |-> Null, child |-> Null]

EmptyHeap == [i \in Items |-> Unallocated]

Free(h) == {i \in Items : h[i].type = "unallocated"}

Allocated(h) == Items \ Free(h)

IsAllocated(i) == i \in Allocated(heap)

(* malloc gives out a block that is not in use.  Which one makes no        *)
(* difference to the code: the model takes the first.                      *)
Fresh(h, i) == i \in Free(h) /\ \A j \in Free(h) : i <= j

(* Mutant: an item is left without its type.                               *)
Created_NoType(h, i, type, value) ==
  [h EXCEPT ![i] = [Unallocated EXCEPT !.type = "Invalid", !.value = value]]

(* cJSON_New_Item and what the cJSON_Create functions store in it.         *)
Created(h, i, type, value) ==
  [h EXCEPT ![i] = [Unallocated EXCEPT !.type = type, !.value = value]]

suffix_object(h, prev, item) ==
  [h EXCEPT ![prev].next = item, ![item].prev = prev]

(* Mutants: the first item of a list keeps no pointer to the last one; or  *)
(* its pointer is not moved on.                                            *)
add_item_to_array_NoTail(h, array, item) ==
  IF h[array].child = Null
  THEN [h EXCEPT ![array].child = item]
  ELSE IF h[h[array].child].prev = Null THEN h
  ELSE suffix_object(h, h[h[array].child].prev, item)
add_item_to_array_OldTail(h, array, item) ==
  IF h[array].child = Null
  THEN [h EXCEPT ![array].child = item, ![item].prev = item, ![item].next = Null]
  ELSE suffix_object(h, h[h[array].child].prev, item)

(* The last item of a list is found through prev of the first one.         *)
add_item_to_array(h, array, item) ==
  LET head == h[array].child
  IN  IF head = Null
      THEN [h EXCEPT ![array].child = item, ![item].prev = item, ![item].next = Null]
      ELSE IF h[head].prev = Null THEN h
      ELSE [suffix_object(h, h[head].prev, item) EXCEPT ![head].prev = item]

add_item_to_object(h, object, name, item) ==
  add_item_to_array([h EXCEPT ![item].string = name], object, item)

(* The items that are found from an item on by following pointers.         *)
Reached(points, i) ==
  LET reached[n \in 0 .. MaxItems] ==
        IF n = 0 THEN {i} \ {Null}
        ELSE LET before == reached[n - 1]
             IN  before \cup UNION {points[k] : k \in before}
  IN  reached[MaxItems]

(* What cJSON_Delete frees: the item, its contents and the items after it. *)
Doomed(h, i) == Reached([k \in Items |-> {h[k].child, h[k].next} \ {Null}], i)

cJSON_Delete(h, i) ==
  LET doomed == Doomed(h, i)
  IN  [j \in Items |-> IF j \in doomed THEN Unallocated ELSE h[j]]

Init ==
  /\ phase = "idle"
  /\ heap = EmptyHeap
  /\ response = Null
  /\ blocks = <<>>

-----------------------------------------------------------------------------
(* The JSON macro.                                                         *)

Building == phase = "build"

Innermost(type) == blocks # <<>> /\ heap[Last(blocks)].type = type

(* cJSON_CreateObject.  Without memory for the root the first field fails, *)
(* with nothing to free.                                                   *)
CreateResponse(i) ==
  /\ phase = "idle" /\ Fresh(heap, i)
  /\ heap' = Created(heap, i, "Object", NoValue)
  /\ response' = i
  /\ blocks' = <<i>>
  /\ phase' = "build"

(* FIELD_STR, FIELD_NUM and FIELD_BOOL: cJSON_AddStringToObject and so on. *)
AddField(i, name, type, value) ==
  /\ Building /\ Innermost("Object") /\ Fresh(heap, i)
  /\ heap' = add_item_to_object(Created(heap, i, type, value), Last(blocks), name, i)
  /\ UNCHANGED <<phase, response, blocks>>

(* FIELD_OBJ and FIELD_ARR: the block that follows fills the new item.     *)
OpenField(i, name, type) ==
  /\ Building /\ Innermost("Object") /\ Fresh(heap, i)
  /\ heap' = add_item_to_object(Created(heap, i, type, NoValue), Last(blocks), name, i)
  /\ blocks' = Append(blocks, i)
  /\ UNCHANGED <<phase, response>>

(* SUB_OBJ: the object is filled before ARR_ADD puts it into its array.    *)
OpenElement(i) ==
  /\ Building /\ Innermost("Array") /\ Fresh(heap, i)
  /\ heap' = Created(heap, i, "Object", NoValue)
  /\ blocks' = Append(blocks, i)
  /\ UNCHANGED <<phase, response>>

(* The end of a block, with the ARR_ADD that follows a SUB_OBJ.            *)
CloseBlock ==
  /\ Building /\ Len(blocks) > 1
  /\ LET outer == blocks[Len(blocks) - 1]
     IN  heap' = IF heap[outer].type = "Array"
                 THEN add_item_to_array(heap, outer, Last(blocks)) ELSE heap
  /\ blocks' = Front(blocks)
  /\ UNCHANGED <<phase, response>>

EndJson ==
  /\ Building /\ Len(blocks) = 1
  /\ blocks' = <<>>
  /\ phase' = "built"
  /\ UNCHANGED <<heap, response>>

(* Mutant: cJSON_AddStringToObject and its like keep an item whose name    *)
(* could not be copied.                                                    *)
Abandoned_Kept(h, i) == h

Abandoned(h, i) == cJSON_Delete(h, i)

(* goto fail: what was built is deleted and ASSERT(json_ok) ends the       *)
(* process.                                                                *)
Fail(h) ==
  /\ heap' = cJSON_Delete(h, response)
  /\ response' = Null
  /\ phase' = "failed"
  /\ UNCHANGED blocks

(* No memory for an item or, for a field, for its string or its name.      *)
NoMemoryForItem ==
  /\ phase = "idle" \/ Building
  /\ Fail(heap)

NoMemoryForName(i) ==
  /\ Building /\ Innermost("Object") /\ Fresh(heap, i)
  /\ Fail(Abandoned(Created(heap, i, "String", NoValue), i))

(* cJSON_Delete(response), at the end of the handler.                      *)
DeleteResponse ==
  /\ phase = "built"
  /\ heap' = cJSON_Delete(heap, response)
  /\ response' = Null
  /\ phase' = "idle"
  /\ UNCHANGED blocks

Build ==
  \/ \E i \in Items :
       \/ CreateResponse(i)
       \/ \E name \in Names :
            \/ \E value \in Strings : AddField(i, name, "String", value)
            \/ \E value \in Numbers : AddField(i, name, "Number", value)
            \/ \E type \in {"True", "False"} : AddField(i, name, type, NoValue)
            \/ \E type \in {"Object", "Array"} : OpenField(i, name, type)
       \/ OpenElement(i)
       \/ NoMemoryForName(i)
  \/ CloseBlock
  \/ EndJson
  \/ NoMemoryForItem

(* A later ASSERT, for one that the document could not be printed, ends the *)
(* process as well.                                                        *)
Abort ==
  /\ phase = "built"
  /\ phase' = "aborted"
  /\ UNCHANGED <<heap, response, blocks>>

Stopped == phase \in {"failed", "aborted"} /\ UNCHANGED vars

Next == Build \/ DeleteResponse \/ Abort \/ Stopped

Spec == Init /\ [][Next]_vars

-----------------------------------------------------------------------------
(* Properties.                                                             *)

(* Types; no more blocks are open than there are items.                    *)
TypeOK ==
  /\ phase \in {"idle", "build", "built", "failed", "aborted"}
  /\ heap \in [Items -> Cells]
  /\ response \in Pointers
  /\ blocks \in BoundedSeq(Items, MaxItems)

(* The items of the list that starts at an item.                           *)
Chained(h, i) == Reached([k \in Items |-> {h[k].next} \ {Null}], i)

IsLinked(h, head, list) ==
  /\ \A i \in list : h[i].next # Null => h[h[i].next].prev = i
  /\ head # Null => /\ h[head].prev \in list
                    /\ h[h[head].prev].next = Null

ListsAreLinked(h) ==
  LET lists == [c \in Allocated(h) |-> Chained(h, h[c].child)]
  IN  \A c \in Allocated(h) :
        /\ lists[c] \subseteq Allocated(h)
        /\ IsLinked(h, h[c].child, lists[c])
        /\ \A d \in Allocated(h) \ {c} : lists[c] \cap lists[d] = {}

(* The list of every container is linked both ways, its first item points  *)
(* back at the last one, and no item is in two lists, or in one and freed: *)
(* the walks of the printer and of cJSON_Delete end, and free nothing      *)
(* twice.                                                                  *)
WellLinked == ListsAreLinked(heap)

(* A handler leaves no item behind, nor does a document that was given up  *)
(* halfway, but for the elements that were not in their array yet.         *)
NothingLost ==
  /\ phase = "idle" => \A i \in Items : ~IsAllocated(i)
  /\ phase = "failed" => \A i \in Items : IsAllocated(i) =>
       \E k \in 2 .. Len(blocks) :
         heap[blocks[k]].string = NoName /\ i \in Doomed(heap, blocks[k])
=============================================================================
