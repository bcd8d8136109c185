------------------------------ MODULE JsonParse ------------------------------
(***************************************************************************)
(* cJSON_Parse: text to items, in one pass over the characters, a NUL at   *)
(* their end.  A parse function takes the parse_buffer and gives it back;  *)
(* one that failed stays rejected.  Byte order marks, error positions and  *)
(* what \u stands for other than a control character are left out.         *)
(***************************************************************************)
EXTENDS JsonTrees, FiniteSetsExt

CONSTANT NestingLimit   \* CJSON_NESTING_LIMIT, 1000

ASSUME NestingAssumption == NestingLimit \in Nat \ {0}

(* memory: allocations that will succeed; inside: no string was longer     *)
(* than the block allocated for it; once: no item was freed twice.         *)
Input(chars, memory) ==
  [content |-> chars, offset |-> 0, depth |-> 0, heap |-> EmptyHeap,
   memory |-> memory, ok |-> TRUE, inside |-> TRUE, once |-> TRUE]

(* The character an index after the offset; none is read beyond the NUL.   *)
CanAccess(p, index) == p.offset + index < Len(p.content)
At(p) == p.content[p.offset + 1]

Rejected(p) == [p EXCEPT !.ok = FALSE]

(* The pointers that lead cJSON_Delete to an item.                         *)
Leading(h, doomed, j) == {x \in doomed \X {"next", "child"} : h[x[1]][x[2]] = j}

(* cJSON_Delete comes to each item once, and to none that is freed.        *)
FreedOnce(h, i) ==
  \A j \in Doomed(h, i) :
    /\ j \in Allocated(h)
    /\ Cardinality(Leading(h, Doomed(h, i), j)) = IF j = i THEN 0 ELSE 1

Deleted(p, i) ==
  [p EXCEPT !.heap = cJSON_Delete(@, i), !.once = @ /\ FreedOnce(p.heap, i)]

(* Mutants: the items of a list that does not end are not deleted; or the  *)
(* array or object points to them already.                                 *)
FailList_Kept(p, i, head) == Rejected(p)
FailList_Owned(p, i, head) == Rejected([Deleted(p, head) EXCEPT !.heap[i].child = head])

(* goto fail in the list of item i: its items are deleted.                 *)
FailList(p, i, head) == Rejected(Deleted(p, head))

(* Blanks are the characters up to 32, the NUL among them: at the end the  *)
(* offset goes back to it.                                                 *)
buffer_skip_whitespace(p) ==
  LET blank == {" ", NUL}
      solid == {k \in p.offset + 1 .. Len(p.content) : p.content[k] \notin blank}
  IN  IF ~p.ok \/ ~CanAccess(p, 0) \/ At(p) \notin blank THEN p
      ELSE [p EXCEPT !.offset = IF solid = {} THEN Len(p.content) - 1 ELSE Min(solid) - 1]

Skip1(p) == buffer_skip_whitespace(Advance(p, 1))

(* cJSON_New_Item, for an item without a value yet.                        *)
HasMemory(p) == p.memory > 0 /\ Free(p.heap) # {}
NewItem(p) == CHOOSE i \in Free(p.heap) : Fresh(p.heap, i)
WithItem(p, i) == [p EXCEPT !.heap = Created(@, i, "Invalid", NoValue), !.memory = @ - 1]

-----------------------------------------------------------------------------
(* Strings, numbers and words.                                             *)

(* The first quote from position k on that no backslash escapes, or 0.     *)
RECURSIVE StringEnd(_, _)
StringEnd(chars, k) ==
  IF k > Len(chars) THEN 0
  ELSE IF chars[k] = Quote THEN k
  ELSE StringEnd(chars, IF chars[k] = Backslash THEN k + 2 ELSE k + 1)

(* Mutant: an escape of six characters is taken for one of two.            *)
SequenceLength_Two(raw) == IF raw[1] = Backslash THEN 2 ELSE 1

SequenceLength(raw) == IF raw[1] # Backslash THEN 1 ELSE IF raw[2] = "u" THEN 6 ELSE 2

(* The literal, cut into characters and escape sequences.                  *)
RECURSIVE EscapeSequences(_)
EscapeSequences(raw) ==
  IF raw = <<>> THEN <<>>
  ELSE <<SubSeq(raw, 1, Min({SequenceLength(raw), Len(raw)}))>>
         \o EscapeSequences(SubSeq(raw, SequenceLength(raw) + 1, Len(raw)))

(* The letters after a backslash that parse_string takes, and its choices. *)
EscapeLetter ==
  [ch \in {"b", "f", "n", "r", "t", Quote, Backslash, "/"} |->
     CASE ch = "b" -> "bs" [] ch = "f" -> "ff" [] ch = "n" -> "nl"
       [] ch = "r" -> "cr" [] ch = "t" -> "tab" [] OTHER -> ch]

(* Any other escape, and one that is cut short, is refused.                *)
Known(seq) ==
  CASE Len(seq) = 1 -> seq[1] # Backslash
    [] Len(seq) = 2 -> seq[2] \in DOMAIN EscapeLetter
    [] OTHER -> Len(seq) = 6

Meaning(seq) ==
  CASE Len(seq) = 1 -> seq[1]
    [] Len(seq) = 2 -> EscapeLetter[seq[2]]
    [] Len(seq) = 6 -> Control

(* The block for the string is sized before it is unescaped: the literal   *)
(* with its quote, less a byte for every backslash, and the NUL.           *)
parse_string(p, i) ==
  LET start == p.offset + 2
      end   == StringEnd(p.content, start)
      parts == EscapeSequences(SubSeq(p.content, start, end - 1))
      room  == end - start + 2 - Quantify(DOMAIN parts, LAMBDA k : Len(parts[k]) > 1)
  IN  IF \/ ~p.ok \/ At(p) # Quote \/ end = 0 \/ p.memory = 0
         \/ \E k \in DOMAIN parts : ~Known(parts[k])
      THEN Rejected(p)
      ELSE [p EXCEPT !.heap[i].type = "String",
                     !.heap[i].value = [k \in DOMAIN parts |-> Meaning(parts[k])],
                     !.offset = end,
                     !.memory = @ - 1,
                     !.inside = @ /\ Len(parts) + 1 <= room]

Digits == {"0", "1", "2", "3", "4", "5", "6", "7", "8", "9"}
NumberChars == Digits \cup {"+", "-", "e", "E", "."}

(* As many characters of a number as follow, up to 63; strtod takes a      *)
(* number that was printed as a whole.                                     *)
parse_number(p, i) ==
  LET rest   == SubSeq(p.content, p.offset + 1, Min({p.offset + 63, Len(p.content)}))
      others == {k \in DOMAIN rest : rest[k] \notin NumberChars}
      length == Min(others \cup {Len(rest) + 1}) - 1
  IN  [Advance(p, length) EXCEPT
        !.heap[i].type = "Number",
        !.heap[i].value = SubSeq(p.content, p.offset + 1, p.offset + length)]

Words == { <<"NULL", <<"n", "u", "l", "l">>>>, <<"False", <<"f", "a", "l", "s", "e">>>>,
           <<"True", <<"t", "r", "u", "e">>>> }

Follows(p, word) ==
  p.offset + Len(word) <= Len(p.content)
  /\ SubSeq(p.content, p.offset + 1, p.offset + Len(word)) = word

-----------------------------------------------------------------------------
(* Values.                                                                 *)

AfterName(p, i) ==
  IF ~p.ok \/ At(p) # ":" THEN Rejected(p)
  ELSE [Skip1(p) EXCEPT !.heap[i].string = p.heap[i].value, !.heap[i].value = NoValue]

(* The name of a field: a string that is moved from valuestring to string. *)
parse_name(p, i) ==
  IF ~CanAccess(p, 1) THEN Rejected(p)
  ELSE AfterName(buffer_skip_whitespace(parse_string(Skip1(p), i)), i)

(* Mutant: the first item of a parsed list is not told its last one.       *)
EndOfList_NoTail(p, i, type, head, last) ==
  [Advance(p, 1) EXCEPT !.depth = @ - 1,
     !.heap = [j \in Items |-> IF j = i THEN [@[i] EXCEPT !.type = type, !.child = head] ELSE @[j]]]

EndOfList(p, i, type, head, last) ==
  LET linked == IF head = Null THEN p.heap ELSE [p.heap EXCEPT ![head].prev = last]
  IN  [Advance(p, 1) EXCEPT !.depth = @ - 1,
         !.heap = [linked EXCEPT ![i].type = type, ![i].child = head]]

Closing(type) == IF type = "Object" THEN "}" ELSE "]"

RECURSIVE parse_value(_, _)
RECURSIVE ParseItems(_, _, _, _, _)

(* After an item: the next one, the end of the list, or neither.           *)
AfterItem(p, i, type, head, last) ==
  CASE ~p.ok -> FailList(p, i, head)
    [] p.ok /\ At(p) = "," -> ParseItems(p, i, type, head, last)
    [] p.ok /\ At(p) = Closing(type) -> EndOfList(p, i, type, head, last)
    [] p.ok /\ At(p) \notin {",", Closing(type)} -> FailList(p, i, head)

(* The name and the value of the new item.                                 *)
ParseItem(p, i, type, head, new) ==
  AfterItem(
    buffer_skip_whitespace(
      parse_value(IF type = "Object" THEN parse_name(p, new) ELSE Skip1(p), new)),
    i, type, head, new)

(* The new item, at the end of the list.                                   *)
Linked(p, head, last, new) ==
  IF head = Null THEN p ELSE [p EXCEPT !.heap = suffix_object(@, last, new)]

(* The loops of parse_array and parse_object, after the items from head to *)
(* last, the offset at the bracket or the comma before the next one.       *)
ParseItems(p, i, type, head, last) ==
  LET new == NewItem(p)
  IN  IF ~HasMemory(p) THEN FailList(p, i, head)
      ELSE ParseItem(Linked(WithItem(p, new), head, last, new), i, type,
                     IF head = Null THEN new ELSE head, new)

AfterBracket(p, i, type) ==
  IF At(p) = Closing(type) THEN EndOfList(p, i, type, Null, Null)
  ELSE ParseItems(Advance(p, 0 - 1), i, type, Null, Null)

(* parse_array and parse_object: the bracket, an empty list, or the loop.  *)
ParseList(p, i, type) ==
  IF p.depth >= NestingLimit THEN Rejected(p)
  ELSE AfterBracket(Skip1([p EXCEPT !.depth = @ + 1]), i, type)

parse_value(p, i) ==
  IF ~p.ok THEN p
  ELSE IF \E w \in Words : Follows(p, w[2])
  THEN LET word == CHOOSE w \in Words : Follows(p, w[2])
       IN  [Advance(p, Len(word[2])) EXCEPT !.heap[i].type = word[1]]
  ELSE CASE At(p) = Quote -> parse_string(p, i)
         [] At(p) \in Digits \cup {"-"} -> parse_number(p, i)
         [] At(p) = "[" -> ParseList(p, i, "Array")
         [] At(p) = "{" -> ParseList(p, i, "Object")
         [] OTHER -> Rejected(p)

(* The root item, or NULL with nothing left of it.                         *)
Result(p, root) ==
  LET left == IF p.ok THEN p ELSE Deleted(p, root)
  IN  [item |-> IF p.ok THEN root ELSE Null,
       heap |-> left.heap, inside |-> left.inside, once |-> left.once]

cJSON_Parse(chars, memory) ==
  LET input == Input(chars, memory)
      root  == NewItem(input)
  IN  IF ~HasMemory(input)
      THEN [item |-> Null, heap |-> EmptyHeap, inside |-> TRUE, once |-> TRUE]
      ELSE Result(parse_value(buffer_skip_whitespace(WithItem(input, root)), root), root)

-----------------------------------------------------------------------------
(* Properties.                                                             *)

(* Blanks around every bracket, colon and comma.                           *)
Spaced(chars) ==
  FlattenSeq([k \in DOMAIN chars |->
    IF chars[k] \in {"{", "}", "[", "]", ":", ","} THEN <<" ", chars[k], " ">> ELSE <<chars[k]>>])

RECURSIVE Depth(_)
Depth(doc) ==
  IF doc.type \notin {"Object", "Array"} THEN 0
  ELSE 1 + Max({0} \cup {Depth(doc.items[k]) : k \in DOMAIN doc.items})

Plenty == 3 * MaxItems

Unchanged(result, doc) ==
  /\ result.inside
  /\ (result.item # Null) <=> (Depth(doc) <= NestingLimit)
  /\ result.item # Null =>
       Tree(result.heap, result.item) = doc /\ ListsAreLinked(result.heap)

(* What was printed is read back as the same document, blanks or not, on   *)
(* items that are linked as the builders link them; a document nested too  *)
(* deep is refused as a whole.  No string outgrows its block.              *)
ParsesBack ==
  \A t \in Range(text) : \A input \in {t, Spaced(t)} :
    Unchanged(cJSON_Parse(input, Plenty), Tree(heap, response))

Refused(result) == result.item = Null
NothingLeft(result) == result.item = Null => Free(result.heap) = Items /\ result.once

(* Text that ends too early, and memory that runs out at any allocation,   *)
(* leave nothing allocated, and no item is freed twice.                    *)
ParsesWholeOrNot ==
  \A t \in Range(text) :
    /\ \A k \in 0 .. Len(t) - 2 :
         \A result \in {cJSON_Parse(Append(SubSeq(t, 1, k), NUL), Plenty)} :
           Refused(result) /\ NothingLeft(result)
    /\ \A memory \in 0 .. Plenty : NothingLeft(cJSON_Parse(t, memory))
=============================================================================
