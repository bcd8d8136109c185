------------------------------- MODULE JsonText -------------------------------
(***************************************************************************)
(* A document of JsonItems as text: pb_write_json with the unformatted     *)
(* printer of cJSON and its buffer that grows.  A step is what the printer *)
(* does for one call of ensure, after which it may have given up.          *)
(***************************************************************************)
EXTENDS JsonItems

CONSTANT BufferSize   \* default_buffer_size, 256

NUL == "NUL"

(* Names, strings and numbers are strings of C, without a NUL inside.      *)
ASSUME TextAssumption ==
  /\ BufferSize \in Nat \ {0}
  /\ \A str \in Names \cup Strings \cup Numbers : str \in Seq(STRING) /\ NUL \notin Range(str)

VARIABLES
  printer,  \* the printbuffer
  calls,    \* the calls that have not returned, the outermost first, with
            \* what each does next and with which item
  text      \* <<json_str>> of pb_write_json, <<>> while there is none

textVars == <<printer, calls, text>>

(* bytes: the buffer, of length bytes; inside: no byte was written or read *)
(* beyond it.                                                              *)
Buffer(size) == [bytes |-> [k \in 1 .. size |-> "?"], offset |-> 0, inside |-> TRUE]

Released(p) == [p EXCEPT !.bytes = <<>>, !.offset = 0]

(* Mutant: what was printed before is not counted.                         *)
Needed_FromStart(p, needed) == needed + 1

Needed(p, needed) == needed + p.offset + 1

Fits(p, needed) == Needed(p, needed) <= Len(p.bytes)

(* Room for needed bytes and a NUL from the offset on.  Sizes near INT_MAX *)
(* are left out.                                                           *)
ensure(p, needed) ==
  IF Fits(p, needed) THEN p
  ELSE [p EXCEPT !.bytes = [k \in 1 .. 2 * Needed(p, needed) |->
                              IF k <= Len(@) THEN @[k] ELSE "?"]]

(* ensure finds the offset beyond the buffer, or there is no memory.       *)
MayFail(p, needed) == p.offset >= Len(p.bytes) \/ ~Fits(p, needed)

(* chars are written from byte at after the offset on.                     *)
Put(p, at, chars) ==
  LET from == p.offset + at
      end  == from + Len(chars)
  IN  [p EXCEPT
        !.bytes = [k \in DOMAIN @ |-> IF k \in from + 1 .. end THEN chars[k - from] ELSE @[k]],
        !.inside = @ /\ end <= Len(p.bytes)]

Advance(p, n) == [p EXCEPT !.offset = @ + n]

(* strlen from the offset on.                                              *)
update_offset(p) ==
  LET ends == {k \in p.offset + 1 .. Len(p.bytes) : p.bytes[k] = NUL}
      end  == CHOOSE k \in ends : \A j \in ends : k <= j
  IN  IF ends = {} THEN [p EXCEPT !.inside = FALSE] ELSE [p EXCEPT !.offset = end - 1]

Quote == "\""
Backslash == "\\"

(* The characters below 32: backspace, form feed, newline, carriage return *)
(* and tab, and "ctl" for those that have no letter.                       *)
Control == "ctl"
Controls == {"bs", "ff", "nl", "cr", "tab", Control}

(* What the writer puts after the backslash.                               *)
EscapeLetters ==
  [ch \in {Backslash, Quote, "bs", "ff", "nl", "cr", "tab"} |->
     CASE ch = "bs" -> "b" [] ch = "ff" -> "f" [] ch = "nl" -> "n"
       [] ch = "cr" -> "r" [] ch = "tab" -> "t" [] OTHER -> ch]
ControlCode == <<"0", "0", "1", "f">>

EscapedChar(ch) ==
  IF ch \notin Controls \cup {Quote, Backslash} THEN <<ch>>
  ELSE IF ch \in DOMAIN EscapeLetters THEN <<Backslash, EscapeLetters[ch]>>
  ELSE <<Backslash, "u">> \o ControlCode

Escaped(str) ==
  LET escaped[n \in 0 .. Len(str)] ==
        IF n = 0 THEN <<>> ELSE escaped[n - 1] \o EscapedChar(str[n])
  IN  escaped[Len(str)]

(* What the loop before the writer counts as escaped by one character.     *)
OneMore == {Quote, Backslash, "bs", "ff", "nl", "cr", "tab"}

(* Mutant: a control character is counted as one that has a letter.        *)
EscapeCharacters_AsLetter(ch) == IF ch \in OneMore \cup Controls THEN 1 ELSE 0

EscapeCharacters(ch) ==
  IF ch \in OneMore THEN 1 ELSE IF ch \in Controls THEN 5 ELSE 0

output_length(str) ==
  LET length[n \in 0 .. Len(str)] ==
        IF n = 0 THEN 0 ELSE length[n - 1] + 1 + EscapeCharacters(str[n])
  IN  length[Len(str)]

-----------------------------------------------------------------------------
(* The steps of the printer.                                               *)

Call(at, i) == [at |-> at, item |-> i]

Doing(at) == calls # <<>> /\ Last(calls).at = at
Item == Last(calls).item

Return(next) == calls' = Front(calls) \o next

(* print returns NULL, and ASSERT ends the process.                        *)
GiveUp(p) ==
  /\ Abort
  /\ printer' = Released(p)
  /\ calls' = <<>>
  /\ UNCHANGED text

(* Make room, write, move the offset on, and go on with the calls next.    *)
Emit(p, needed, chars, n, next) ==
  \/ /\ p.offset < Len(p.bytes)
     /\ printer' = Advance(Put(ensure(p, needed), 0, chars), n)
     /\ Return(next)
     /\ UNCHANGED <<vars, text>>
  \/ MayFail(p, needed) /\ GiveUp(p)

(* The length is counted before the characters are written, and the quote  *)
(* at the end is put where it says.                                        *)
print_string_ptr(str, next) ==
  LET length == output_length(str)
      opened == Put(ensure(printer, length + 3), 0, <<Quote>> \o Escaped(str))
  IN  \/ /\ printer.offset < Len(printer.bytes)
         /\ printer' = Put(opened, length + 1, <<Quote, NUL>>)
         /\ Return(next)
         /\ UNCHANGED <<vars, text>>
      \/ MayFail(printer, length + 3) /\ GiveUp(printer)

(* The loops of print_array and print_object: the item i or, at the end,   *)
(* the bracket.                                                            *)
NextElement(i) ==
  IF i = Null THEN <<Call("bracket", i)>> ELSE <<Call("element", i), Call("value", i)>>
NextField(i) ==
  IF i = Null THEN <<Call("brace", i)>> ELSE <<Call("field", i), Call("key", i)>>

print_value ==
  /\ Doing("value")
  /\ LET item == heap[Item]
     IN  \/ item.type = "True" /\ Emit(printer, 5, <<"t", "r", "u", "e", NUL>>, 0, <<>>)
         \/ item.type = "False" /\ Emit(printer, 6, <<"f", "a", "l", "s", "e", NUL>>, 0, <<>>)
         \/ /\ item.type = "Number"
            /\ Emit(printer, Len(item.value) + 1, Append(item.value, NUL), Len(item.value), <<>>)
         \/ item.type = "String" /\ print_string_ptr(item.value, <<>>)
         \/ item.type = "Array" /\ Emit(printer, 1, <<"[">>, 1, NextElement(item.child))
         \/ item.type = "Object" /\ Emit(printer, 2, <<"{">>, 1, NextField(item.child))

(* After an element; there is a comma if another one follows.              *)
print_array ==
  LET p == update_offset(printer)
      next == heap[Item].next
  IN  /\ Doing("element")
      /\ \/ next # Null /\ Emit(p, 2, <<",", NUL>>, 1, NextElement(next))
         \/ /\ next = Null
            /\ printer' = p
            /\ Return(NextElement(next))
            /\ UNCHANGED <<vars, text>>

print_key == Doing("key") /\ print_string_ptr(heap[Item].string, <<Call("colon", Item)>>)

print_colon ==
  Doing("colon") /\ Emit(update_offset(printer), 1, <<":">>, 1, <<Call("value", Item)>>)

(* Mutant: the object leaves the offset where its last value began.        *)
AfterField_NotMoved(p) == p

AfterField(p) == update_offset(p)

(* After a field; room is made for a comma or for none.                    *)
print_object ==
  LET next  == heap[Item].next
      comma == IF next = Null THEN <<>> ELSE <<",">>
  IN  /\ Doing("field")
      /\ Emit(AfterField(printer), Len(comma) + 1, Append(comma, NUL), Len(comma), NextField(next))

print_end ==
  \/ Doing("bracket") /\ Emit(printer, 2, <<"]", NUL>>, 0, <<>>)
  \/ Doing("brace") /\ Emit(printer, 2, <<"}", NUL>>, 0, <<>>)

(* print: the buffer at the start, and at the end the realloc to the size  *)
(* of the text, which pb_write_json puts into the packet.                  *)
print_start ==
  /\ phase = "built" /\ text = <<>> /\ calls = <<>>
  /\ \/ /\ printer' = Buffer(BufferSize)
        /\ calls' = <<Call("print", response), Call("value", response)>>
        /\ UNCHANGED <<vars, text>>
     \/ GiveUp(printer)

print ==
  /\ Doing("print")
  /\ LET p == update_offset(printer)
     IN  \/ /\ printer' = Released(p)
            /\ calls' = <<>>
            /\ text' = <<SubSeq(p.bytes, 1, p.offset + 1)>>
            /\ UNCHANGED vars
         \/ GiveUp(p)

WriteJson ==
  \/ print_start \/ print_value \/ print_array \/ print_key \/ print_colon
  \/ print_object \/ print_end \/ print

TextInit ==
  /\ Init
  /\ printer = Buffer(0)
  /\ calls = <<>>
  /\ text = <<>>

(* The end of the handler, where free(json_str) has been called as well.   *)
Discard ==
  /\ calls = <<>> /\ DeleteResponse
  /\ text' = <<>>
  /\ UNCHANGED <<printer, calls>>

TextNext ==
  \/ Build /\ UNCHANGED textVars
  \/ WriteJson
  \/ Discard
  \/ calls = <<>> /\ Abort /\ UNCHANGED textVars
  \/ Stopped /\ UNCHANGED textVars

TextSpec == TextInit /\ [][TextNext]_<<vars, textVars>>

-----------------------------------------------------------------------------
(* Properties.                                                             *)

(* The printer writes no byte beyond its buffer and looks for no NUL       *)
(* beyond it, wherever the buffer has to grow and wherever memory runs     *)
(* out: each writer leaves the offset and a NUL where the next one expects *)
(* them.                                                                   *)
PrintsInside == printer.inside

(* JSON by its grammar, from the items as child and next link them.        *)
Quoted(str) == <<Quote>> \o Escaped(str) \o <<Quote>>

(* The elements of an array, or the fields of an object, from item i to    *)
(* the end of the list, which lists has for every item.                    *)
ListText(lists, i, type) == IF i = Null THEN <<>> ELSE lists[i][type]

ValueText(item, lists) ==
  CASE item.type = "True"   -> <<"t", "r", "u", "e">>
    [] item.type = "False"  -> <<"f", "a", "l", "s", "e">>
    [] item.type = "Number" -> item.value
    [] item.type = "String" -> Quoted(item.value)
    [] item.type = "Array"  -> <<"[">> \o ListText(lists, item.child, "Array") \o <<"]">>
    [] item.type = "Object" -> <<"{">> \o ListText(lists, item.child, "Object") \o <<"}">>

NameText(item) == Quoted(item.string) \o <<":">>

RestText(item, lists, type) ==
  IF item.next = Null THEN <<>> ELSE <<",">> \o ListText(lists, item.next, type)

ItemText(item, lists) ==
  [type \in {"Array", "Object"} |->
    (IF type = "Object" THEN NameText(item) ELSE <<>>)
      \o ValueText(item, lists) \o RestText(item, lists, type)]

ListTexts(h) ==
  LET lists[i \in Allocated(h)] == ItemText(h[i], lists)
  IN  lists

TextOf(h, i) == ValueText(h[i], ListTexts(h))

(* The text in the packet is the document, field by field, and its length  *)
(* (strlen in pb_write_json) is that of the document.                      *)
PrintedIsDocument == text # <<>> => text = <<Append(TextOf(heap, response), NUL)>>
=============================================================================
