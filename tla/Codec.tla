------------------------------- MODULE Codec -------------------------------
(***************************************************************************)
(* `encode` and `decode` of the message classes of compiled.js, one         *)
(* message at a time: first it is written, by the generated `encode` or by *)
(* another program's protobuf library, then `decode` reads it.             *)
(*                                                                         *)
(* The bytes are a sequence of pieces: a tag, a length or a scalar with    *)
(* its bytes.  Positions and lengths count pieces.  The Writer and Reader  *)
(* of protobufjs are external code, modelled from how the classes use them.*)
(***************************************************************************)
EXTENDS Naturals, Sequences, SequencesExt

CONSTANTS
  Fields,    (* class -> its fields, as in Messages                         *)
  Writers,   (* who writes: "compiled", "foreign" or both                   *)
  Keys,      (* the keys of maps                                            *)
  Unknown,   (* a field number no class has                                 *)
  MaxDepth   (* bound on the nesting of messages                            *)

Classes == DOMAIN Fields

ASSUME CodecAssumption ==
  /\ Writers \subseteq {"compiled", "foreign"}
  /\ MaxDepth \in Nat \ {0}
  /\ \A c \in Classes : \A f, g \in Fields[c] :
       /\ f.number \in Nat \ {0, Unknown}
       /\ f.number = g.number => f = g
       /\ f.label = "map" => f.type \in Classes
       /\ f.label = "packed" => f.type \notin Classes \cup {"string", "bytes"}

VARIABLES
  phase,    (* "write", "written", "read" or "done"                         *)
  author,   (* who writes                                                   *)
  buf,      (* the pieces written                                           *)
  writing,  (* the messages being written, outermost first                  *)
  left,     (* bound: how many fields may still be written, nested ones     *)
            (* included; each scalar has its own value of it                *)
  written,  (* the message written                                          *)
  pos,      (* the position of the reader                                   *)
  calls,    (* the calls of `decode` under way, outermost first             *)
  result    (* the message read                                             *)

writer == <<author, buf, writing, left, written>>
reader == <<pos, calls, result>>
vars == <<phase, writer, reader>>

-----------------------------------------------------------------------------
(* The wire format.                                                        *)

WireType(type) ==
  CASE type = "double" -> 1
    [] type = "float"  -> 5
    [] type \in Classes \cup {"string", "bytes"} -> 2
    [] OTHER -> 0

Tag(number, wire) == [piece |-> "tag", number |-> number, wire |-> wire]
Length(n) == [piece |-> "length", n |-> n]
Scalar(v) == [piece |-> "scalar", v |-> v]

IsEmbedded(f) == f.type \in Classes

-----------------------------------------------------------------------------
(* Messages: a function from the numbers of the fields that are set to      *)
(* their values.                                                           *)

Assign(fn, x, v) == [y \in DOMAIN fn \cup {x} |-> IF y = x THEN v ELSE fn[y]]

(* A new message has its repeated fields empty, and its maps. *)
New(class) ==
  [n \in {f.number : f \in {g \in Fields[class] : g.label # "one"}} |-> <<>>]

(* What becomes of a value that was written or read for a field. *)
Store(message, f, key, v) ==
  CASE f.label = "one" -> Assign(message, f.number, v)
    [] f.label = "map" -> Assign(message, f.number, Assign(message[f.number], key, v))
    [] OTHER -> Assign(message, f.number, Append(message[f.number], v))

NoField == [label |-> "none", number |-> 0, name |-> "", type |-> ""]
NoMessage == <<>>
NoKey == "none"

(* Several values, one after the other. *)
Put(message, f, vs) ==
  FoldLeft(LAMBDA m, v : Store(m, f, NoKey, v), message, vs)

-----------------------------------------------------------------------------
(* Writing.  A message being written: its class, what it holds so far, the *)
(* field (and key) of the outer message it is for, the place of its length *)
(* and the number of the last field.                                       *)

Begin(class) ==
  [class |-> class, message |-> New(class), for |-> NoField, key |-> NoKey,
   at |-> 0, last |-> 0]

top == Last(writing)

(* The generated encode writes the fields by number, a singular one or a    *)
(* packed one once.  Another writer may choose any order, and repeat a      *)
(* singular field.                                                         *)
InTurn(f) ==
  /\ f \in Fields[top.class]
  /\ left > 0
  /\ author = "compiled" =>
       \/ top.last < f.number
       \/ top.last = f.number /\ f.label \in {"many", "map"}

(* `vs` are values for field f of the innermost message. *)
Written(f, vs) ==
  writing' = ReplaceAt(writing, Len(writing),
    [top EXCEPT !.message = Put(@, f, vs), !.last = f.number])

WriteScalar(f) ==
  /\ phase = "write"
  /\ InTurn(f)
  /\ ~ IsEmbedded(f)
  /\ f.label = "packed" => author = "foreign"
  /\ buf' = buf \o <<Tag(f.number, WireType(f.type)), Scalar(left)>>
  /\ Written(f, <<left>>)
  /\ left' = left - 1
  /\ UNCHANGED <<phase, author, written, reader>>

(* One tag for all elements; a foreign writer may write none. *)
WritePacked(f) ==
  /\ phase = "write"
  /\ InTurn(f)
  /\ f.label = "packed"
  /\ \E k \in (IF author = "compiled" THEN 1 ELSE 0) .. 2 :
       LET elements == [i \in 1..k |-> left + 1 - i] IN
       /\ k <= left
       /\ buf' = buf \o <<Tag(f.number, 2), Length(k)>>
                     \o [i \in 1..k |-> Scalar(elements[i])]
       /\ Written(f, elements)
       /\ left' = left - (IF k = 0 THEN 1 ELSE k)
  /\ UNCHANGED <<phase, author, written, reader>>

(* fork: the length is not known yet.  The entry of a map is a message of   *)
(* its key and its value.                                                  *)
Fork(f) ==
  /\ phase = "write"
  /\ InTurn(f)
  /\ IsEmbedded(f)
  /\ Len(writing) < MaxDepth
  /\ \E key \in (IF f.label = "map" THEN Keys ELSE {NoKey}) :
       /\ author = "compiled" /\ f.label = "map" =>
            key \notin DOMAIN top.message[f.number]
       /\ buf' = buf \o <<Tag(f.number, 2), Length(0)>>
                     \o (IF f.label = "map"
                           THEN <<Tag(1, 2), Scalar(key), Tag(2, 2), Length(0)>>
                           ELSE <<>>)
       /\ writing' = Append([writing EXCEPT ![Len(writing)].last = f.number],
            [Begin(f.type) EXCEPT !.for = f, !.key = key, !.at = Len(buf')])
  /\ left' = left - 1
  /\ UNCHANGED <<phase, author, written, reader>>

(* A field of a later version of the class, a number or a block of bytes    *)
(* that look like fields.                                                  *)
WriteUnknown ==
  /\ phase = "write"
  /\ author = "foreign"
  /\ left > 0
  /\ \E field \in {<<Tag(Unknown, 0), Scalar(0)>>,
                   <<Tag(Unknown, 2), Length(2), Tag(1, 0), Scalar(0)>>} :
       buf' = buf \o field
  /\ left' = left - 1
  /\ UNCHANGED <<phase, author, writing, written, reader>>

(* ldelim: the lengths are filled in and the message goes to the outer one. *)
Ldelim ==
  /\ phase = "write"
  /\ Len(writing) > 1
  /\ LET length == Len(buf) - top.at
         outer  == Front(writing)
         inner  == [buf EXCEPT ![top.at].n = length]
     IN /\ buf' = IF top.for.label = "map"
                    THEN [inner EXCEPT ![top.at - 4].n = length + 4]
                    ELSE inner
        /\ writing' = [outer EXCEPT ![Len(outer)].message =
             Store(@, top.for, top.key, top.message)]
  /\ UNCHANGED <<phase, author, left, written, reader>>

FinishWriting ==
  /\ phase = "write"
  /\ Len(writing) = 1
  /\ written' = top.message
  /\ phase' = "written"
  /\ UNCHANGED <<author, buf, writing, left, reader>>

-----------------------------------------------------------------------------
(* Reading.  A call of `decode`: its class, where it ends, its message and  *)
(* the field (and key) of its caller that it was called for.               *)

call == Last(calls)

(* Mutant: the length counts from before it was read. *)
CallEarly(f, key, at) ==
  [class |-> f.type, end |-> at + buf[at + 1].n, message |-> New(f.type),
   for |-> f, key |-> key]

(* `length` is read at `at`, and `end` counts from behind it. *)
Call(f, key, at) ==
  [class |-> f.type, end |-> at + 1 + buf[at + 1].n, message |-> New(f.type),
   for |-> f, key |-> key]

Piece(i) == IF i < Len(buf) THEN buf[i + 1].piece ELSE "none"

(* The loop has a field to read. *)
InLoop == phase = "read" /\ pos < call.end

tag == buf[pos + 1]

(* What there is still to do: pieces to read and calls to return from. *)
Ahead == Len(buf) - pos + Len(calls)

(* The case of the switch: one scalar, elements under one tag, a message or *)
(* the entry of a map.                                                     *)
Case(f) ==
  CASE f.label = "map" -> "entry"
    [] f.label # "map" /\ IsEmbedded(f) -> "message"
    [] f.label = "packed" /\ tag.wire = 2 -> "elements"
    [] OTHER -> "scalar"

(* The pieces are those that the case takes them for. *)
Fits(f) ==
  CASE Case(f) = "scalar" -> Piece(pos + 1) = "scalar"
    [] Case(f) \in {"elements", "message"} -> Piece(pos + 1) = "length"
    [] Case(f) = "entry" -> Piece(pos + 3) = "scalar" /\ Piece(pos + 5) = "length"

AtField(f, case) ==
  /\ InLoop
  /\ Piece(pos) = "tag"
  /\ f \in Fields[call.class]
  /\ f.number = tag.number
  /\ Case(f) = case
  /\ Fits(f)

(* The reader is about to take a piece for what it is not, and will make a  *)
(* field of it or throw.                                                   *)
Lost ==
  /\ InLoop
  /\ \/ Piece(pos) # "tag"
     \/ \E f \in Fields[call.class] : f.number = tag.number /\ ~ Fits(f)

AtUnknown ==
  /\ InLoop
  /\ Piece(pos) = "tag"
  /\ \A f \in Fields[call.class] : f.number # tag.number

Read(f, vs) ==
  calls' = ReplaceAt(calls, Len(calls),
    [call EXCEPT !.message = Put(@, f, vs)])

ReadScalar(f) ==
  /\ AtField(f, "scalar")
  /\ Read(f, <<buf[pos + 2].v>>)
  /\ pos' = pos + 2
  /\ UNCHANGED <<phase, writer, result>>

ReadPacked(f) ==
  /\ AtField(f, "elements")
  /\ LET end2 == pos + 2 + buf[pos + 2].n
         elements == SubSeq(buf, pos + 3, end2)
     IN /\ Read(f, [i \in DOMAIN elements |-> elements[i].v])
        /\ pos' = end2
  /\ UNCHANGED <<phase, writer, result>>

(* Mutant: the length is not taken. *)
ReadWithoutLength(f) ==
  /\ AtField(f, "message")
  /\ calls' = Append(calls, Call(f, NoKey, pos + 1))
  /\ pos' = pos + 1
  /\ UNCHANGED <<phase, writer, result>>

ReadEmbedded(f) ==
  /\ AtField(f, "message")
  /\ calls' = Append(calls, Call(f, NoKey, pos + 1))
  /\ pos' = pos + 2
  /\ UNCHANGED <<phase, writer, result>>

(* The length of the entry is skipped, and the tags of key and value are    *)
(* taken for granted.                                                      *)
ReadEntry(f) ==
  /\ AtField(f, "entry")
  /\ calls' = Append(calls, Call(f, buf[pos + 4].v, pos + 5))
  /\ pos' = pos + 6
  /\ UNCHANGED <<phase, writer, result>>

(* Mutant: a piece too many is skipped. *)
SkipOneMore ==
  /\ AtUnknown
  /\ pos' = IF Piece(pos + 1) = "length"
              THEN pos + 3 + buf[pos + 2].n
              ELSE pos + 3
  /\ UNCHANGED <<phase, writer, calls, result>>

(* Mutant: fields that are not known are not skipped. *)
SkipNothing ==
  /\ AtUnknown
  /\ UNCHANGED vars

(* skipType *)
SkipUnknown ==
  /\ AtUnknown
  /\ pos' = IF Piece(pos + 1) = "length"
              THEN pos + 2 + buf[pos + 2].n
              ELSE pos + 2
  /\ UNCHANGED <<phase, writer, calls, result>>

(* Mutant: the message of an entry is put under no key. *)
ReturnWithoutKey ==
  /\ phase = "read" /\ ~ InLoop
  /\ Len(calls) > 1
  /\ LET callers == Front(calls) IN
       calls' = [callers EXCEPT ![Len(callers)].message =
                   Store(@, call.for, NoKey, call.message)]
  /\ UNCHANGED <<phase, writer, pos, result>>

Return ==
  /\ phase = "read" /\ ~ InLoop
  /\ Len(calls) > 1
  /\ LET callers == Front(calls) IN
       calls' = [callers EXCEPT ![Len(callers)].message =
                   Store(@, call.for, call.key, call.message)]
  /\ UNCHANGED <<phase, writer, pos, result>>

ReturnMessage ==
  /\ phase = "read" /\ ~ InLoop
  /\ Len(calls) = 1
  /\ result' = call.message
  /\ phase' = "done"
  /\ UNCHANGED <<writer, pos, calls>>

-----------------------------------------------------------------------------
Write ==
  \/ \E f \in Fields[top.class] : WriteScalar(f) \/ WritePacked(f) \/ Fork(f)
  \/ WriteUnknown
  \/ Ldelim
  \/ FinishWriting

Decode ==
  \/ \E f \in Fields[call.class] :
       ReadScalar(f) \/ ReadPacked(f) \/ ReadEmbedded(f) \/ ReadEntry(f)
  \/ SkipUnknown \/ Return \/ ReturnMessage

=============================================================================
