------------------------ MODULE ServingEntry_proofs ------------------------
(***************************************************************************)
(* What the TypeScript client decodes of an entry is what was put together: *)
(* proofs for all entries, classes, writers and bounds.                    *)
(*                                                                         *)
(* The positions of request and response follow from the number of pieces, *)
(* whatever they hold (Inv).  What the pieces are the writer of a message   *)
(* knows; between two messages it is kept with them, and the reader walks   *)
(* along it (Sound).                                                       *)
(***************************************************************************)
EXTENDS ServingEntry, Codec_proofs

(* The data of a record, once they have been put together. *)
Blank == parts = <<>> /\ data = <<>>

Exchange ==
  /\ \E c \in DOMAIN Numbers : parts = <<Request, c>>
  /\ Len(bodies) = 2
  /\ \E flags \in [1..2 -> {0, 1}] :
       /\ \A i \in 1..2 : flags[i] = 0 => bodies[i].pieces = <<>>
       /\ data = Layout(flags)

IsBody(body, class) ==
  IsSeq(body.pieces) /\ Holds(body.pieces, class, 0, Len(body.pieces), body.message)

Shape ==
  /\ author \in Writers
  /\ parts \in Entries
  /\ left \in 0..Budget[parts]
  /\ IsSeq(bodies)
  /\ Len(bodies) <= Len(parts)
  /\ \A i \in 1..Len(bodies) : IsBody(bodies[i], parts[i])
  /\ step \in {"bodies", "message", "request", "response", "returned", "threw"}
  /\ IF step = "bodies" THEN phase \in {"write", "written"}
                        ELSE phase \in {"read", "done"}

(* The message that is written next. *)
NextBody ==
  /\ phase = "write" =>
       /\ Len(bodies) < Len(parts)
       /\ Open(writing, buf)
       /\ writing[1].class = parts[Len(bodies) + 1]
  /\ phase = "written" /\ Len(bodies) < Len(parts) =>
       IsBody([pieces |-> buf, message |-> written], parts[Len(bodies) + 1])

Inv ==
  /\ Shape
  /\ NextBody
  /\ step = "request" => Blank \/ Exchange
  /\ step = "response" => Exchange
  /\ step = "message" => Len(parts) = 1 /\ Len(bodies) = 1
  /\ SlicesAreRight
  /\ OnlyBlanksThrow

(* The message the reader is to return. *)
Expected ==
  CASE step = "response" -> bodies[2].message
    [] step # "response" /\ parts = <<>> -> New(Request)
    [] OTHER -> bodies[1].message

Sound ==
  /\ step = "bodies" => pos = 0 /\ calls = <<>>
  /\ step \in {"bodies", "message", "request"} => results = <<>>
  /\ step = "response" => results = <<bodies[1].message>>
  /\ phase = "read" =>
       step \in {"message", "request", "response"} /\ Decoding(buf, calls, pos, Expected)
  /\ phase = "done" /\ step \in {"message", "request", "response"} => result = Expected
  /\ pos \in 0..Len(buf)
  /\ \A i \in DOMAIN calls : calls[i].class \in Classes
  /\ \A i \in DOMAIN calls : i > 1 => calls[i].end <= calls[i - 1].end
  /\ DecodesWhatWasWritten

-----------------------------------------------------------------------------
(* Positions. *)

(* A part is cut out of a whole by the numbers of pieces. *)
LEMMA SliceOfMiddle ==
  ASSUME NEW a, NEW b, NEW c, IsSeq(a), IsSeq(b), IsSeq(c)
  PROVE  slice(a \o b \o c, Len(a), Len(a) + Len(b)) = b
<1>1. IsSeq(a \o b)
  BY ConcatIsSeq
<1>2. PICK A : a \in Seq(A) /\ b \in Seq(A)
  BY CommonSet
<1>3. PICK C : a \o b \in Seq(C) /\ c \in Seq(C)
  BY <1>1, CommonSet
<1> DEFINE w  == a \o b \o c
           S  == A \cup C
<1>4. a \in Seq(S) /\ b \in Seq(S) /\ c \in Seq(S)
  BY <1>2, <1>3, SeqMonotonic
<1>5. /\ Len(a) \in Nat /\ Len(b) \in Nat /\ Len(c) \in Nat
      /\ \A i \in 1..Len(b) : b[i] \in S
  BY <1>4, LenProperties, ElementOfSeq
<1>6. /\ a \o b \in Seq(S)
      /\ Len(a \o b) = Len(a) + Len(b)
      /\ \A i \in 1 .. Len(a) + Len(b) :
           (a \o b)[i] = IF i <= Len(a) THEN a[i] ELSE b[i - Len(a)]
  BY <1>4, ConcatProperties
<1>7. /\ Len(w) = Len(a) + Len(b) + Len(c)
      /\ \A i \in 1 .. Len(a) + Len(b) : w[i] = (a \o b)[i]
  BY <1>4, <1>5, <1>6, ConcatProperties
<1>8. slice(w, Len(a), Len(a) + Len(b)) = SubSeq(w, Len(a) + 1, Len(a) + Len(b))
  <2>1. (IF Len(a) + Len(b) < Len(w) THEN Len(a) + Len(b) ELSE Len(w)) = Len(a) + Len(b)
    <3> HIDE DEF w
    <3> QED
      BY <1>5, <1>7
  <2> QED
    BY <2>1 DEF slice
<1>9. \A i \in 1..Len(b) : w[Len(a) + i] = b[i]
  BY <1>5, <1>6, <1>7
<1>10. \A i \in Len(a) + 1 .. Len(a) + Len(b) : w[i] \in S
  <2>1. TAKE i \in Len(a) + 1 .. Len(a) + Len(b)
  <2>2. i - Len(a) \in 1..Len(b) /\ i = Len(a) + (i - Len(a))
    BY <1>5
  <2> QED
    BY <1>5, <1>9, <2>2
<1> DEFINE t == SubSeq(w, Len(a) + 1, Len(a) + Len(b))
<1>11. /\ t \in Seq(S)
       /\ Len(t) = Len(b)
       /\ \A i \in 1 .. Len(b) : t[i] = w[Len(a) + i]
  <2> HIDE DEF w
  <2>1. /\ SubSeq(w, Len(a) + 1, Len(a) + Len(b)) \in Seq(S)
        /\ Len(t) = IF Len(a) + 1 <= Len(a) + Len(b)
                      THEN Len(a) + Len(b) - (Len(a) + 1) + 1 ELSE 0
        /\ \A i \in 1 .. Len(a) + Len(b) - (Len(a) + 1) + 1 :
             t[i] = w[Len(a) + 1 + i - 1]
    <3>1. Len(a) + 1 \in Int /\ Len(a) + Len(b) \in Int
      BY <1>5
    <3> QED
      BY <1>10, <3>1, SubSeqProperties
  <2> QED
    BY <1>5, <2>1
<1>12. t = b
  <2> HIDE DEF t, w
  <2> QED
    BY <1>4, <1>9, <1>11, SeqEqual
<1> QED
  BY <1>8, <1>12

(* The last part. *)
LEMMA SliceOfEnd ==
  ASSUME NEW a, NEW b, IsSeq(a), IsSeq(b)
  PROVE  slice(a \o b, Len(a), Len(a) + Len(b)) = b
<1>1. IsSeq(a \o b)
  BY ConcatIsSeq
<1>2. a \o b \o <<>> = a \o b
  BY <1>1, ConcatEmptySeq DEF IsSeq
<1>3. slice(a \o b \o <<>>, Len(a), Len(a) + Len(b)) = b
  BY EmptyIsSeq, SliceOfMiddle
<1> QED
  BY <1>2, <1>3

(* What is behind the first piece. *)
LEMMA SliceBehindFirst ==
  ASSUME NEW e, NEW b, IsSeq(b)
  PROVE  /\ IsSeq(<<e>> \o b)
         /\ Len(<<e>> \o b) = 1 + Len(b)
         /\ Len(<<e>> \o b) \in Nat
         /\ (<<e>> \o b)[1] = e
         /\ slice(<<e>> \o b, 1, Len(<<e>> \o b)) = b
<1>1. <<e>> \in Seq({e}) /\ Len(<<e>>) = 1 /\ <<e>>[1] = e
  OBVIOUS
<1>2. IsSeq(<<e>>)
  BY <1>1 DEF IsSeq
<1>3. PICK S : <<e>> \in Seq(S) /\ b \in Seq(S)
  BY <1>2, CommonSet
<1>4. Len(b) \in Nat
  BY <1>3, LenProperties
<1>5. Len(<<e>> \o b) = 1 + Len(b) /\ (<<e>> \o b)[1] = e
  BY <1>1, <1>3, <1>4, ConcatProperties
<1>6. IsSeq(<<e>> \o b)
  BY <1>2, ConcatIsSeq
<1>7. slice(<<e>> \o b, 1, Len(<<e>> \o b)) = b
  BY <1>1, <1>2, <1>5, SliceOfEnd
<1> QED
  BY <1>4, <1>5, <1>6, <1>7

LEMMA SliceOfNothing ==
  ASSUME NEW m \in Nat \ {0}, NEW n \in Nat
  PROVE  slice(<<>>, m, n) = <<>>
<1>1. Len(<<>>) = 0
  OBVIOUS
<1>2. (IF n < Len(<<>>) THEN n ELSE Len(<<>>)) = 0
  BY <1>1
<1> QED
  BY <1>2, SubSeqEmpty DEF slice

-----------------------------------------------------------------------------
(* Entries. *)

LEMMA KindsOfEntries ==
  ASSUME NEW e \in Entries
  PROVE  \/ e = <<>> /\ Len(e) = 0
         \/ e # <<>> /\ Len(e) = 1
         \/ /\ e # <<>> /\ Len(e) = 2
            /\ \E c \in DOMAIN Numbers : e = <<Request, c>>
  BY EntriesAssumption

LEMMA ClassesOfEntries ==
  ASSUME NEW e \in Entries
  PROVE  Len(e) \in Nat /\ \A i \in 1..Len(e) : e[i] \in Classes
<1>1. CASE e = <<>>
  BY <1>1
<1>2. CASE \E c \in Classes : e = <<c>>
  BY <1>2
<1>3. CASE \E c \in DOMAIN Numbers : e = <<Request, c>>
  <2>1. PICK c \in DOMAIN Numbers : e = <<Request, c>>
    BY <1>3
  <2>2. Request \in Classes /\ c \in Classes
    BY EntriesAssumption
  <2> QED
    BY <2>1, <2>2
<1> QED
  BY <1>1, <1>2, <1>3, EntriesAssumption

(* Behind its flag, `decode` takes up what was written. *)
LEMMA FlagIsRemoved ==
  ASSUME NEW i \in 1..2, NEW flag \in {0, 1}, NEW class,
         IsSeq(bodies[i].pieces),
         flag = 0 => bodies[i].pieces = <<>>,
         decode(Body(i, flag), class)
  PROVE  Start(class, bodies[i].pieces)
<1> DEFINE b == bodies[i].pieces
           w == <<Flag(flag)>> \o b
<1>1. /\ Len(w) = 1 + Len(b)
      /\ w[1] = Flag(flag)
      /\ slice(w, 1, Len(w)) = b
  BY SliceBehindFirst
<1>2. Flag(flag).n = flag
  BY DEF Flag
<1>3. Body(i, flag) = w
  BY DEF Body
<1>4. b # <<>> => flag = 1
  OBVIOUS
<1>5. Len(b) \in Nat
  BY LenProperties DEF IsSeq
<1>6. w # <<>>
  BY <1>1, <1>5
<1>7. (IF w # <<>> /\ w[1].n = 0 THEN <<>> ELSE slice(w, 1, Len(w))) = b
  <2> HIDE DEF w
  <2> QED
    BY <1>1, <1>2, <1>4, <1>6
<1> QED
  BY <1>3, <1>7 DEF decode

(* The sizes, the request and the response are where they are looked for. *)
LEMMA LayoutIsCut ==
  ASSUME NEW c \in DOMAIN Numbers, parts = <<Request, c>>,
         NEW flags \in [1..2 -> {0, 1}],
         IsSeq(bodies[1].pieces), IsSeq(bodies[2].pieces)
  PROVE  LET resp == <<Int32(Numbers[c])>> \o Body(2, flags[2])
         IN /\ readInt(Layout(flags), 0) = Len(Body(1, flags[1]))
            /\ readInt(Layout(flags), 1) = Len(resp)
            /\ slice(Layout(flags), 2, 2 + Len(Body(1, flags[1]))) = Body(1, flags[1])
            /\ slice(Layout(flags), 2 + Len(Body(1, flags[1])),
                     2 + Len(Body(1, flags[1])) + Len(resp)) = resp
            /\ Len(Body(1, flags[1])) \in Nat
            /\ Len(resp) \in Nat
            /\ readInt(resp, 0) = Numbers[c]
            /\ slice(resp, 1, Len(resp)) = Body(2, flags[2])
<1> DEFINE req  == Body(1, flags[1])
           resp == <<Int32(Numbers[c])>> \o Body(2, flags[2])
           head == <<Int32(Len(req)), Int32(Len(resp))>>
<1>1. IsSeq(req) /\ Len(req) \in Nat
  BY SliceBehindFirst DEF Body
<1>2. IsSeq(Body(2, flags[2]))
  BY SliceBehindFirst DEF Body
<1>3. /\ IsSeq(resp) /\ Len(resp) \in Nat
      /\ Len(resp) = 1 + Len(Body(2, flags[2]))
      /\ resp[1] = Int32(Numbers[c])
      /\ slice(resp, 1, Len(resp)) = Body(2, flags[2])
  BY <1>2, SliceBehindFirst
<1>4. readInt(resp, 0) = Numbers[c]
  <2>1. Len(Body(2, flags[2])) \in Nat
    BY <1>2, LenProperties DEF IsSeq
  <2>2. 0 < Len(resp)
    BY <1>3, <2>1
  <2> HIDE DEF resp
  <2> QED
    BY <1>3, <2>2 DEF readInt, Int32
<1>5. /\ IsSeq(head) /\ Len(head) = 2
      /\ head[1] = Int32(Len(req)) /\ head[2] = Int32(Len(resp))
  <2> HIDE DEF req, resp
  <2>1. head \in Seq({Int32(Len(req)), Int32(Len(resp))})
    OBVIOUS
  <2> QED
    BY <2>1 DEF IsSeq
<1>6. Layout(flags) = head \o req \o resp
  BY DEF Layout
<1> HIDE DEF req, resp, head
<1>7. slice(head \o req \o resp, 2, 2 + Len(req)) = req
  BY <1>1, <1>3, <1>5, SliceOfMiddle
<1>8. IsSeq(head \o req) /\ Len(head \o req) = 2 + Len(req)
  <2>1. PICK S : head \in Seq(S) /\ req \in Seq(S)
    BY <1>1, <1>5, CommonSet
  <2>2. Len(head \o req) = Len(head) + Len(req)
    BY <2>1, ConcatProperties
  <2>3. IsSeq(head \o req)
    BY <1>1, <1>5, ConcatIsSeq
  <2> QED
    BY <1>5, <2>2, <2>3
<1>9. slice(head \o req \o resp, 2 + Len(req), 2 + Len(req) + Len(resp)) = resp
  BY <1>3, <1>8, SliceOfEnd
<1>10. /\ Len(head \o req \o resp) = 2 + Len(req) + Len(resp)
       /\ (head \o req \o resp)[1] = head[1]
       /\ (head \o req \o resp)[2] = head[2]
  <2>1. PICK S : head \in Seq(S) /\ req \in Seq(S)
    BY <1>1, <1>5, CommonSet
  <2>2. (head \o req)[1] = head[1] /\ (head \o req)[2] = head[2]
    <3>1. \A i \in 1 .. Len(head) + Len(req) :
            (head \o req)[i] = IF i <= Len(head) THEN head[i] ELSE req[i - Len(head)]
      BY <2>1, ConcatProperties
    <3>2. {1, 2} \subseteq 1 .. Len(head) + Len(req)
      BY <1>1, <1>5
    <3>3. 1 <= Len(head) /\ 2 <= Len(head)
      BY <1>5
    <3> DEFINE h == head \o req
    <3>4. \A i \in {1, 2} : h[i] = IF i <= Len(head) THEN head[i] ELSE req[i - Len(head)]
      BY <3>1, <3>2
    <3> HIDE DEF h
    <3>5. h[1] = head[1] /\ h[2] = head[2]
      BY <3>3, <3>4
    <3> QED
      BY <3>5 DEF h
  <2>3. PICK T : head \o req \in Seq(T) /\ resp \in Seq(T)
    BY <1>3, <1>8, CommonSet
  <2> DEFINE h == head \o req
  <2>4. /\ Len(h \o resp) = Len(h) + Len(resp)
        /\ \A i \in 1 .. Len(h) + Len(resp) :
             (h \o resp)[i] = IF i <= Len(h) THEN h[i] ELSE resp[i - Len(h)]
    BY <2>3, ConcatProperties
  <2>5. Len(h) = 2 + Len(req)
    BY <1>8
  <2> HIDE DEF h
  <2>6. (h \o resp)[1] = h[1] /\ (h \o resp)[2] = h[2]
    BY <1>1, <1>3, <2>4, <2>5
  <2> USE DEF h
  <2> QED
    BY <2>2, <2>4, <2>5, <2>6
<1>11. /\ readInt(Layout(flags), 0) = Len(req)
       /\ readInt(Layout(flags), 1) = Len(resp)
  BY <1>1, <1>3, <1>5, <1>6, <1>10 DEF readInt, Int32
<1> QED
  BY <1>1, <1>3, <1>4, <1>6, <1>7, <1>9, <1>11 DEF req, resp

-----------------------------------------------------------------------------
(* The steps, and Inv.                                                     *)

(* What is not written any more stays. *)
LEMMA BodiesStay ==
  ASSUME Shape, UNCHANGED <<author, left, parts, bodies>>,
         step' \in {"message", "request", "response", "returned", "threw"},
         phase' \in {"read", "done"}
  PROVE  Shape' /\ NextBody'
<1>1. Shape'
  BY DEF Shape, IsBody
<1>2. phase' # "write" /\ phase' # "written"
  OBVIOUS
<1> QED
  BY <1>1, <1>2 DEF NextBody

LEMMA InitInv == ASSUME Init PROVE Inv
<1>1. parts \in Entries /\ bodies = <<>> /\ Len(bodies) = 0 /\ IsSeq(bodies)
      /\ Len(parts) \in Nat
  BY EmptyIsSeq, ClassesOfEntries DEF Init
<1>2. Shape
  <2>1. left \in 0..Budget[parts]
    BY EntriesAssumption DEF Init
  <2> QED
    BY <1>1, <2>1 DEF Init, Shape
<1>3. NextBody
  <2>1. CASE parts = <<>>
    <3>1. phase = "written" /\ ~ (Len(bodies) < Len(parts))
      BY <1>1, <2>1 DEF Init
    <3> QED
      BY <3>1 DEF NextBody
  <2>2. CASE parts # <<>>
    <3>1. phase = "write" /\ buf = <<>> /\ writing = <<Begin(parts[1])>>
      BY <2>2 DEF Init
    <3>2. 1 \in 1..Len(parts) /\ Len(bodies) < Len(parts) /\ Len(bodies) + 1 = 1
      BY <1>1, <2>2, KindsOfEntries
    <3>3. parts[1] \in Classes
      BY <1>1, <3>2, ClassesOfEntries
    <3> QED
      BY <3>1, <3>2, <3>3, OpenAtFirst DEF NextBody
  <2> QED
    BY <2>1, <2>2
<1> QED
  BY <1>2, <1>3 DEF Init, Inv, SlicesAreRight, OnlyBlanksThrow

(* The bound of the writer. *)
LEMMA LeftFalls ==
  ASSUME left \in Nat, Write
  PROVE  left' \in 0..left /\ UNCHANGED <<author, reader>>
<1>1. ASSUME NEW f, WriteScalar(f)
      PROVE  left' \in 0..left /\ UNCHANGED <<author, reader>>
  BY <1>1 DEF WriteScalar, InTurn
<1>2. ASSUME NEW f, WritePacked(f)
      PROVE  left' \in 0..left /\ UNCHANGED <<author, reader>>
  <2>1. PICK k \in (IF author = "compiled" THEN 1 ELSE 0) .. 2 :
          k <= left /\ left' = left - (IF k = 0 THEN 1 ELSE k)
    BY <1>2 DEF WritePacked
  <2>2. left > 0 /\ UNCHANGED <<author, reader>>
    BY <1>2 DEF WritePacked, InTurn
  <2> QED
    BY <2>1, <2>2
<1>3. ASSUME NEW f, Fork(f)
      PROVE  left' \in 0..left /\ UNCHANGED <<author, reader>>
  BY <1>3 DEF Fork, InTurn
<1>4. WriteUnknown => left' \in 0..left /\ UNCHANGED <<author, reader>>
  BY DEF WriteUnknown
<1>5. Ldelim \/ FinishWriting => left' \in 0..left /\ UNCHANGED <<author, reader>>
  BY DEF Ldelim, FinishWriting
<1> QED
  BY <1>1, <1>2, <1>3, <1>4, <1>5 DEF Write

LEMMA WriteStep ==
  ASSUME Inv, phase = "write", Write, UNCHANGED entry
  PROVE  Inv'
<1>1. /\ step = "bodies" /\ parts \in Entries /\ Open(writing, buf)
      /\ Len(bodies) < Len(parts) /\ writing[1].class = parts[Len(bodies) + 1]
  BY DEF Inv, Shape, NextBody
<1>2. UNCHANGED <<parts, bodies, data, step>>
  BY DEF entry
<1>3. \/ StaysOpen
      \/ /\ phase' = "written" /\ buf' = buf
         /\ Holds(buf', writing[1].class, 0, Len(buf'), written')
  BY <1>1, WriteKeepsOpen
<1>4. left' \in 0..Budget[parts] /\ author' = author
  <2>1. left \in 0..Budget[parts] /\ Budget[parts] \in Nat
    BY <1>1, EntriesAssumption DEF Inv, Shape
  <2>2. left \in Nat
    BY <2>1
  <2>3. left' \in 0..left /\ author' = author
    BY <2>2, LeftFalls
  <2> QED
    BY <2>1, <2>3
<1>5. Shape'
  <2>1. phase' \in {"write", "written"}
    BY <1>3 DEF StaysOpen
  <2> QED
    BY <1>1, <1>2, <1>4, <2>1 DEF Inv, Shape, IsBody
<1>6. NextBody'
  <2>1. CASE StaysOpen
    BY <1>1, <1>2, <2>1 DEF StaysOpen, NextBody
  <2>2. CASE /\ phase' = "written" /\ buf' = buf
             /\ Holds(buf', writing[1].class, 0, Len(buf'), written')
    <3>1. IsSeq(buf')
      BY <1>1, <2>2 DEF Open
    <3> QED
      BY <1>1, <1>2, <2>2, <3>1 DEF NextBody, IsBody
  <2> QED
    BY <1>3, <2>1, <2>2
<1> QED
  BY <1>1, <1>2, <1>5, <1>6 DEF Inv, SlicesAreRight, OnlyBlanksThrow

LEMMA TakeBodyStep ==
  ASSUME Inv, TakeBody
  PROVE  Inv'
<1> DEFINE body == [pieces |-> buf, message |-> written]
           n == Len(bodies)
<1>1. /\ step = "bodies" /\ phase = "written" /\ n < Len(parts) /\ IsSeq(bodies)
      /\ parts \in Entries /\ IsBody(body, parts[n + 1])
  BY DEF Inv, Shape, NextBody, TakeBody
<1>2. bodies' = Append(bodies, body)
  BY DEF TakeBody
<1>3. Len(parts) \in Nat /\ n \in Nat
  BY <1>1, ClassesOfEntries, SeqBasics
<1> HIDE DEF body
<1>4. /\ IsSeq(bodies') /\ Len(bodies') = n + 1 /\ bodies'[n + 1] = body
      /\ \A i \in 1..n : bodies'[i] = bodies[i]
  BY <1>1, <1>2, AppendAt
<1>5. UNCHANGED <<parts, data, step, left, author>>
  BY DEF TakeBody, writer
<1> HIDE DEF n
<1>6. \A i \in 1..Len(bodies') : IsBody(bodies'[i], parts[i])
  <2>1. TAKE i \in 1..Len(bodies')
  <2>2. CASE i = n + 1
    BY <1>1, <1>4, <2>2
  <2>3. CASE i # n + 1
    <3>1. i \in 1..n
      BY <1>3, <1>4, <2>3
    <3>2. IsBody(bodies[i], parts[i])
      BY <3>1 DEF Inv, Shape, n
    <3> QED
      BY <1>4, <3>1, <3>2
  <2> QED
    BY <2>2, <2>3
<1>7. Len(bodies') <= Len(parts)
  BY <1>1, <1>3, <1>4
<1>8. CASE Len(bodies') < Len(parts)
  <2>1. phase' = "write" /\ buf' = <<>> /\ writing' = <<Begin(parts[Len(bodies') + 1])>>
    BY <1>8 DEF TakeBody
  <2>2. Len(bodies') + 1 \in 1..Len(parts)
    BY <1>3, <1>4, <1>8
  <2>3. parts[Len(bodies') + 1] \in Classes
    BY <1>1, <2>2, ClassesOfEntries
  <2>4. NextBody'
    BY <1>5, <1>8, <2>1, <2>3, OpenAtFirst DEF NextBody
  <2>5. Shape'
    BY <1>1, <1>4, <1>5, <1>6, <1>7, <2>1 DEF Inv, Shape, IsBody
  <2> QED
    BY <1>1, <1>5, <2>4, <2>5 DEF Inv, SlicesAreRight, OnlyBlanksThrow
<1>9. CASE ~ (Len(bodies') < Len(parts))
  <2>1. phase' = "written"
    BY <1>1, <1>9 DEF TakeBody
  <2>2. NextBody'
    BY <1>5, <1>9, <2>1 DEF NextBody
  <2>3. Shape'
    BY <1>1, <1>4, <1>5, <1>6, <1>7, <2>1 DEF Inv, Shape, IsBody
  <2> QED
    BY <1>1, <1>5, <2>2, <2>3 DEF Inv, SlicesAreRight, OnlyBlanksThrow
<1> QED
  BY <1>8, <1>9

(* Decoding does not touch what it reads. *)
LEMMA DecodeStep ==
  ASSUME Inv, phase = "read", Decode, UNCHANGED entry
  PROVE  Inv'
<1>1. phase' \in {"read", "done"} /\ UNCHANGED <<author, left, buf>>
  BY DEF Decode, ReadScalar, ReadPacked, ReadEmbedded, ReadEntry, SkipUnknown,
         Return, ReturnMessage, writer
<1>2. step \in {"message", "request", "response", "returned", "threw"}
  BY DEF Inv, Shape
<1>3. UNCHANGED <<parts, bodies, data, step>>
  BY DEF entry
<1>4. Shape' /\ NextBody'
  BY <1>1, <1>2, <1>3, BodiesStay DEF Inv
<1>5. (Blank => Blank') /\ (Exchange => Exchange')
  BY <1>3 DEF Blank, Exchange, Layout, Body
<1> QED
  BY <1>1, <1>3, <1>4, <1>5 DEF Inv, SlicesAreRight, OnlyBlanksThrow

LEMMA MessageStarts ==
  ASSUME Inv, DecodeMessage
  PROVE  /\ step' = "message" /\ UNCHANGED <<parts, bodies, data, results>>
         /\ Len(parts) = 1 /\ Len(bodies) = 1 /\ parts # <<>> /\ step = "bodies"
         /\ IsBody(bodies[1], parts[1]) /\ Start(parts[1], bodies[1].pieces)
<1>1. /\ step' = "message" /\ UNCHANGED <<parts, bodies, data, results>> /\ step = "bodies"
      /\ Len(parts) = 1 /\ Len(bodies) = 1 /\ Start(parts[1], bodies[1].pieces)
  BY DEF DecodeMessage, AllTaken
<1>2. 1 \in 1..Len(bodies)
  BY <1>1
<1>3. IsBody(bodies[1], parts[1])
  BY <1>2 DEF Inv, Shape
<1>4. parts # <<>>
  BY <1>1
<1> QED
  BY <1>1, <1>3, <1>4

LEMMA DecodeMessageStep ==
  ASSUME Inv, DecodeMessage
  PROVE  Inv'
<1>1. /\ step' = "message" /\ UNCHANGED <<parts, bodies, data>>
      /\ Len(parts) = 1 /\ Len(bodies) = 1 /\ parts # <<>>
      /\ Start(parts[1], bodies[1].pieces)
  BY MessageStarts
<1>2. phase' = "read" /\ UNCHANGED <<author, left>>
  BY <1>1 DEF Start
<1>3. Shape' /\ NextBody'
  BY <1>1, <1>2, BodiesStay DEF Inv
<1> QED
  BY <1>1, <1>3 DEF Inv, SlicesAreRight, OnlyBlanksThrow

(* What is decoded first. *)
LEMMA RequestStarts ==
  ASSUME Inv, DecodeRequest
  PROVE  /\ step' = "request" /\ UNCHANGED <<parts, bodies, results>> /\ step = "bodies"
         /\ \/ parts = <<>> /\ Blank' /\ Start(Request, <<>>)
            \/ parts # <<>> /\ Exchange' /\ Start(Request, bodies[1].pieces)
<1>1. step' = "request" /\ UNCHANGED <<parts, bodies, results>> /\ step = "bodies"
  BY DEF DecodeRequest, AllTaken
<1>2. CASE parts = <<>> /\ data' = <<>>
  <2>1. readInt(data', 0) = 0
    BY <1>2 DEF readInt
  <2>2. slice(data', 2, 2 + readInt(data', 0)) = <<>>
    BY <1>2, <2>1, SliceOfNothing
  <2>3. decode(<<>>, Request)
    BY <2>2 DEF DecodeRequest
  <2>4. slice(<<>>, 1, Len(<<>>)) = <<>>
    BY SliceOfNothing
  <2>5. Start(Request, <<>>)
    BY <2>3, <2>4 DEF decode
  <2> QED
    BY <1>1, <1>2, <2>5 DEF Blank
<1>3. CASE /\ Len(parts) = 2
           /\ \E flags \in [1..2 -> {0, 1}] :
                /\ \A i \in 1..2 : flags[i] = 0 => bodies[i].pieces = <<>>
                /\ data' = Layout(flags)
  <2>1. PICK flags \in [1..2 -> {0, 1}] :
          /\ \A i \in 1..2 : flags[i] = 0 => bodies[i].pieces = <<>>
          /\ data' = Layout(flags)
    BY <1>3
  <2>2. PICK c \in DOMAIN Numbers : parts = <<Request, c>>
    BY <1>3, KindsOfEntries DEF Inv, Shape
  <2>3. Len(bodies) = 2 /\ parts # <<>>
    BY <1>3, <2>2 DEF DecodeRequest, AllTaken
  <2>4. IsSeq(bodies[1].pieces) /\ IsSeq(bodies[2].pieces)
    BY <2>3 DEF Inv, Shape, IsBody
  <2>5. slice(data', 2, 2 + readInt(data', 0)) = Body(1, flags[1])
    BY <2>1, <2>2, <2>4, LayoutIsCut
  <2>6. decode(Body(1, flags[1]), Request)
    BY <2>5 DEF DecodeRequest
  <2>7. Start(Request, bodies[1].pieces)
    BY <2>1, <2>4, <2>6, FlagIsRemoved
  <2>8. Exchange'
    <3>1. Layout(flags)' = Layout(flags)
      BY <1>1 DEF Layout, Body
    <3> QED
      BY <1>1, <2>1, <2>2, <2>3, <3>1 DEF Exchange
  <2> QED
    BY <1>1, <2>3, <2>7, <2>8
<1> QED
  BY <1>2, <1>3 DEF DecodeRequest

LEMMA DecodeRequestStep ==
  ASSUME Inv, DecodeRequest
  PROVE  Inv'
<1>1. /\ step' = "request" /\ UNCHANGED <<parts, bodies>>
      /\ \/ parts = <<>> /\ Blank' /\ Start(Request, <<>>)
         \/ parts # <<>> /\ Exchange' /\ Start(Request, bodies[1].pieces)
  BY RequestStarts
<1>2. phase' = "read" /\ UNCHANGED <<author, left>>
  BY <1>1 DEF Start
<1>3. Shape' /\ NextBody'
  BY <1>1, <1>2, BodiesStay DEF Inv
<1>4. buf' = IF parts = <<>> THEN <<>> ELSE bodies[1].pieces
  BY <1>1 DEF Start
<1> QED
  BY <1>1, <1>3, <1>4 DEF Inv, SlicesAreRight, OnlyBlanksThrow

(* What is decoded after the request. *)
LEMMA ResponseStarts ==
  ASSUME Inv, decodeRespOrError
  PROVE  /\ UNCHANGED <<parts, bodies, data>> /\ step = "request" /\ phase = "done"
         /\ results' = Append(results, result)
         /\ \/ Blank /\ step' = "threw" /\ UNCHANGED vars
            \/ /\ Exchange /\ step' = "response"
               /\ Start(parts[2], bodies[2].pieces)
<1>1. /\ UNCHANGED <<parts, bodies, data>> /\ step = "request" /\ phase = "done"
      /\ results' = Append(results, result)
  BY DEF decodeRespOrError
<1>2. CASE Blank
  <2>1. readInt(data, 0) = 0 /\ readInt(data, 1) = 0
    BY <1>2 DEF Blank, readInt
  <2>2. respBody = <<>>
    BY <1>2, <2>1, SliceOfNothing DEF respBody, Blank
  <2>3. readInt(respBody, 0) = 0
    BY <2>2 DEF readInt
  <2>4. \A class \in DOMAIN Numbers : Numbers[class] # 0
    BY DEF Numbers
  <2>5. step' = "threw" /\ UNCHANGED vars
    BY <2>3, <2>4 DEF decodeRespOrError
  <2> QED
    BY <1>1, <1>2, <2>5
<1>3. CASE Exchange
  <2>1. PICK c \in DOMAIN Numbers : parts = <<Request, c>>
    BY <1>3 DEF Exchange
  <2>2. PICK flags \in [1..2 -> {0, 1}] :
          /\ \A i \in 1..2 : flags[i] = 0 => bodies[i].pieces = <<>>
          /\ data = Layout(flags)
    BY <1>3 DEF Exchange
  <2>3. IsSeq(bodies[1].pieces) /\ IsSeq(bodies[2].pieces)
    BY <1>3 DEF Exchange, Inv, Shape, IsBody
  <2> DEFINE resp == <<Int32(Numbers[c])>> \o Body(2, flags[2])
  <2>4. /\ respBody = resp
        /\ readInt(resp, 0) = Numbers[c]
        /\ slice(resp, 1, Len(resp)) = Body(2, flags[2])
    BY <2>1, <2>2, <2>3, LayoutIsCut DEF respBody
  <2>5. readInt(respBody, 0) = Numbers[c]
    BY <2>4
  <2>6. PICK class \in DOMAIN Numbers :
          /\ Numbers[c] = Numbers[class]
          /\ decode(slice(respBody, 1, Len(respBody)), class)
          /\ step' = "response"
    BY <2>5 DEF decodeRespOrError
  <2>7. class = parts[2]
    BY <2>1, <2>6 DEF Numbers
  <2>8. decode(Body(2, flags[2]), parts[2])
    BY <2>4, <2>6, <2>7
  <2>9. Start(parts[2], bodies[2].pieces)
    BY <2>2, <2>3, <2>8, FlagIsRemoved
  <2> QED
    BY <1>1, <1>3, <2>6, <2>9
<1> QED
  BY <1>1, <1>2, <1>3 DEF Inv

LEMMA DecodeRespOrErrorStep ==
  ASSUME Inv, decodeRespOrError
  PROVE  Inv'
<1>1. UNCHANGED <<parts, bodies, data>> /\ phase = "done"
  BY ResponseStarts
<1>2. CASE Blank /\ step' = "threw" /\ UNCHANGED vars
  <2>1. phase' = "done" /\ UNCHANGED <<author, left>>
    BY <1>1, <1>2 DEF vars, writer
  <2>2. Shape' /\ NextBody'
    BY <1>1, <1>2, <2>1, BodiesStay DEF Inv
  <2> QED
    BY <1>1, <1>2, <2>2 DEF Inv, Blank, SlicesAreRight, OnlyBlanksThrow
<1>3. CASE /\ Exchange /\ step' = "response"
           /\ Start(parts[2], bodies[2].pieces)
  <2>1. phase' = "read" /\ UNCHANGED <<author, left>> /\ buf' = bodies[2].pieces
    BY <1>3 DEF Start
  <2>2. Shape' /\ NextBody'
    BY <1>1, <1>3, <2>1, BodiesStay DEF Inv
  <2>3. Exchange'
    BY <1>1, <1>3 DEF Exchange, Layout, Body
  <2> QED
    BY <1>1, <1>3, <2>1, <2>2, <2>3 DEF Inv, SlicesAreRight, OnlyBlanksThrow
<1> QED
  BY <1>2, <1>3, ResponseStarts

LEMMA ReturnResultStep ==
  ASSUME Inv, ReturnResult
  PROVE  Inv'
<1>1. /\ step \in {"message", "response"} /\ step' = "returned" /\ phase = "done"
      /\ UNCHANGED <<parts, bodies, phase, author, left>>
  BY DEF ReturnResult, vars, writer
<1>2. Shape' /\ NextBody'
  BY <1>1, BodiesStay DEF Inv
<1>3. parts # <<>>
  <2>1. CASE step = "message"
    BY <2>1 DEF Inv
  <2>2. CASE step = "response"
    BY <2>2 DEF Inv, Exchange
  <2> QED
    BY <1>1, <2>1, <2>2
<1> QED
  BY <1>1, <1>2, <1>3 DEF Inv, SlicesAreRight, OnlyBlanksThrow

LEMMA StutterStep ==
  ASSUME Inv, UNCHANGED allVars
  PROVE  Inv'
<1>1. UNCHANGED <<phase, author, buf, writing, left, written, parts, bodies, data, step>>
  BY DEF allVars, vars, writer, entry
<1>2. Shape' /\ NextBody'
  BY <1>1 DEF Inv, Shape, NextBody, IsBody
<1>3. (Blank => Blank') /\ (Exchange => Exchange')
  BY <1>1 DEF Blank, Exchange, Layout, Body
<1> QED
  BY <1>1, <1>2, <1>3 DEF Inv, SlicesAreRight, OnlyBlanksThrow

LEMMA NextInv == Inv /\ [Next]_allVars => Inv'
  BY WriteStep, TakeBodyStep, DecodeStep, DecodeMessageStep, DecodeRequestStep,
     DecodeRespOrErrorStep, ReturnResultStep, StutterStep
     DEF Next, Reading, Ended

THEOREM InvHolds == Spec => []Inv
<1>1. Init => Inv
  BY InitInv
<1> QED
  BY <1>1, NextInv, PTL DEF Spec

-----------------------------------------------------------------------------
(* What is read, and Sound.                                                *)

(* The reader within the pieces. *)
LEMMA DecodingInside ==
  ASSUME NEW b, NEW cs, NEW p, NEW v, Decoding(b, cs, p, v)
  PROVE  /\ p \in 0..Len(b)
         /\ \A i \in DOMAIN cs : /\ cs[i].class \in Classes
                                 /\ i > 1 => cs[i].end <= cs[i - 1].end
<1>1. /\ Len(cs) \in Nat /\ Len(b) \in Nat /\ p \in Nat
      /\ cs[Len(cs)].end \in Nat /\ p <= cs[Len(cs)].end /\ cs[Len(cs)].end <= Len(b)
      /\ \A i \in 1..Len(cs) : cs[i].class \in Classes
      /\ \A i \in 2..Len(cs) : cs[i].end <= cs[i - 1].end
  BY DecodingBounds
<1>2. DOMAIN cs = 1..Len(cs)
  BY SeqBasics DEF Decoding, Calls
<1>3. p \in 0..Len(b)
  BY <1>1
<1>4. ASSUME NEW i \in DOMAIN cs
      PROVE  cs[i].class \in Classes /\ (i > 1 => cs[i].end <= cs[i - 1].end)
  <2>1. i \in 1..Len(cs) /\ (i > 1 => i \in 2..Len(cs))
    BY <1>1, <1>2
  <2> QED
    BY <1>1, <2>1
<1> QED
  BY <1>3, <1>4

(* A decode that starts has its message before it. *)
LEMMA StartReads ==
  ASSUME NEW class, NEW b, NEW v, Start(class, b), IsSeq(b),
         Holds(b, class, 0, Len(b), v)
  PROVE  phase' = "read" /\ Decoding(buf', calls', pos', v)
<1>1. /\ phase' = "read" /\ buf' = b /\ pos' = 0
      /\ calls' = <<[class |-> class, end |-> Len(b), message |-> New(class),
                     for |-> NoField, key |-> NoKey]>>
  BY DEF Start
<1>2. Decoding(b, <<[class |-> class, end |-> Len(b), message |-> New(class),
                     for |-> NoField, key |-> NoKey]>>, 0, v)
  BY DecodingBegins
<1> QED
  BY <1>1, <1>2

(* Sound, once the reader is at work. *)
ReadsOn ==
  /\ step' \in {"message", "request", "response"}
  /\ step' \in {"message", "request"} => results' = <<>>
  /\ step' = "response" => results' = <<bodies'[1].message>>
  /\ phase' = "read"
  /\ Decoding(buf', calls', pos', Expected')

LEMMA ReadingIsSound == ASSUME ReadsOn PROVE Sound'
<1>1. /\ pos' \in 0..Len(buf')
      /\ \A i \in DOMAIN calls' : /\ calls'[i].class \in Classes
                                  /\ i > 1 => calls'[i].end <= calls'[i - 1].end
  BY DecodingInside DEF ReadsOn
<1> QED
  BY <1>1 DEF ReadsOn, Sound, DecodesWhatWasWritten

(* What is expected of a body that was taken. *)
LEMMA BodyIsExpected ==
  /\ parts # <<>> /\ step # "response" => Expected = bodies[1].message
  /\ parts = <<>> /\ step # "response" => Expected = New(Request)
  /\ step = "response" => Expected = bodies[2].message
  BY DEF Expected

LEMMA InitSound == ASSUME Init PROVE Sound
<1>1. /\ pos = 0 /\ calls = <<>> /\ results = <<>> /\ step = "bodies" /\ buf = <<>>
      /\ phase \in {"write", "written"}
  BY DEF Init
<1>2. pos \in 0..Len(buf) /\ DOMAIN calls = {}
  BY <1>1
<1> QED
  BY <1>1, <1>2 DEF Sound, DecodesWhatWasWritten

(* Nothing is read while the messages are written. *)
LEMMA BodiesAreSound ==
  ASSUME Sound, step = "bodies", UNCHANGED <<pos, calls, results, step>>,
         phase' \in {"write", "written"}, IsSeq(buf')
  PROVE  Sound'
<1>1. pos' = 0 /\ calls' = <<>> /\ results' = <<>> /\ step' = "bodies"
  BY DEF Sound
<1>2. pos' \in 0..Len(buf') /\ DOMAIN calls' = {}
  BY <1>1, SeqBasics
<1> QED
  BY <1>1, <1>2 DEF Sound, DecodesWhatWasWritten

LEMMA WriteSound ==
  ASSUME Inv, Inv', Sound, phase = "write", Write, UNCHANGED entry
  PROVE  Sound'
<1>1. step = "bodies" /\ parts \in Entries /\ Len(bodies) < Len(parts) /\ Open(writing, buf)
  BY DEF Inv, Shape, NextBody
<1>2. UNCHANGED <<parts, bodies, step, results>>
  BY DEF entry
<1>3. UNCHANGED <<pos, calls>>
  <2>1. left \in Nat
    BY <1>1, EntriesAssumption DEF Inv, Shape
  <2> QED
    BY <2>1, LeftFalls DEF reader
<1>4. phase' \in {"write", "written"}
  BY <1>1, <1>2 DEF Inv, Shape
<1>5. IsSeq(buf')
  <2>1. CASE phase' = "write"
    BY <2>1 DEF Inv, NextBody, Open
  <2>2. CASE phase' = "written"
    BY <1>1, <1>2, <2>2 DEF Inv, NextBody, IsBody
  <2> QED
    BY <1>4, <2>1, <2>2
<1> QED
  BY <1>1, <1>2, <1>3, <1>4, <1>5, BodiesAreSound

LEMMA TakeBodySound ==
  ASSUME Inv, Sound, TakeBody
  PROVE  Sound'
<1>1. /\ step = "bodies" /\ phase = "written" /\ Len(bodies) < Len(parts)
      /\ UNCHANGED <<pos, calls, results, step>>
  BY DEF TakeBody, reader
<1>2. IsSeq(buf)
  BY <1>1 DEF Inv, NextBody, IsBody
<1>3. phase' \in {"write", "written"} /\ IsSeq(buf')
  BY <1>1, <1>2, EmptyIsSeq DEF TakeBody, writer
<1> QED
  BY <1>1, <1>3, BodiesAreSound

LEMMA DecodeSound ==
  ASSUME Inv, Sound, phase = "read", Decode, UNCHANGED entry
  PROVE  /\ Sound'
         /\ phase' = "done" \/ Ahead' < Ahead
<1>1. step \in {"message", "request", "response"} /\ Decoding(buf, calls, pos, Expected)
  BY DEF Sound
<1>2. UNCHANGED <<parts, bodies, step, results>>
  BY DEF entry
<1>3. Expected' = Expected
  BY <1>2 DEF Expected
<1>4. \/ GoesOn(Expected)
      \/ phase' = "done" /\ result' = Expected /\ UNCHANGED <<writer, pos, calls>>
  BY <1>1, DecodeReadsIt
<1>5. CASE GoesOn(Expected)
  <2>1. phase' = "read" /\ Decoding(buf', calls', pos', Expected) /\ Ahead' < Ahead
    BY <1>5 DEF GoesOn
  <2>2. ReadsOn
    BY <1>1, <1>2, <1>3, <2>1 DEF ReadsOn, Sound
  <2> QED
    BY <2>1, <2>2, ReadingIsSound
<1>6. CASE phase' = "done" /\ result' = Expected /\ UNCHANGED <<writer, pos, calls>>
  <2>1. UNCHANGED <<buf, pos, calls>>
    BY <1>6 DEF writer
  <2> QED
    BY <1>1, <1>2, <1>3, <1>6, <2>1 DEF Sound, DecodesWhatWasWritten
<1> QED
  BY <1>4, <1>5, <1>6

LEMMA DecodeMessageSound ==
  ASSUME Inv, Sound, DecodeMessage
  PROVE  Sound'
<1>1. /\ step' = "message" /\ UNCHANGED <<parts, bodies, results>> /\ step = "bodies"
      /\ parts # <<>> /\ IsBody(bodies[1], parts[1])
      /\ Start(parts[1], bodies[1].pieces)
  BY MessageStarts
<1>2. phase' = "read" /\ Decoding(buf', calls', pos', bodies[1].message)
  BY <1>1, StartReads DEF IsBody
<1>3. Expected' = bodies[1].message
  BY <1>1 DEF Expected
<1>4. ReadsOn
  BY <1>1, <1>2, <1>3 DEF ReadsOn, Sound
<1> QED
  BY <1>4, ReadingIsSound

LEMMA DecodeRequestSound ==
  ASSUME Inv, Sound, DecodeRequest
  PROVE  Sound'
<1>1. /\ step' = "request" /\ UNCHANGED <<parts, bodies, results>> /\ step = "bodies"
      /\ \/ parts = <<>> /\ Blank' /\ Start(Request, <<>>)
         \/ parts # <<>> /\ Exchange' /\ Start(Request, bodies[1].pieces)
  BY RequestStarts
<1>2. CASE parts = <<>> /\ Start(Request, <<>>)
  <2>1. Request \in Classes /\ Len(<<>>) = 0 /\ IsSeq(<<>>)
    BY EntriesAssumption, EmptyIsSeq
  <2>2. Holds(<<>>, Request, 0, 0, New(Request))
    BY <2>1, HoldsNothing
  <2>3. phase' = "read" /\ Decoding(buf', calls', pos', New(Request))
    BY <1>2, <2>1, <2>2, StartReads
  <2>4. Expected' = New(Request)
    BY <1>1, <1>2 DEF Expected
  <2>5. ReadsOn
    BY <1>1, <2>3, <2>4 DEF ReadsOn, Sound
  <2> QED
    BY <2>5, ReadingIsSound
<1>3. CASE parts # <<>> /\ Exchange' /\ Start(Request, bodies[1].pieces)
  <2>1. Len(bodies) = 2 /\ \E c \in DOMAIN Numbers : parts = <<Request, c>>
    BY <1>1, <1>3 DEF Exchange
  <2>2. 1 \in 1..Len(bodies) /\ parts[1] = Request
    BY <2>1
  <2>3. IsBody(bodies[1], Request)
    BY <2>2 DEF Inv, Shape
  <2>4. phase' = "read" /\ Decoding(buf', calls', pos', bodies[1].message)
    BY <1>3, <2>3, StartReads DEF IsBody
  <2>5. Expected' = bodies[1].message
    BY <1>1, <1>3 DEF Expected
  <2>6. ReadsOn
    BY <1>1, <2>4, <2>5 DEF ReadsOn, Sound
  <2> QED
    BY <2>6, ReadingIsSound
<1> QED
  BY <1>1, <1>2, <1>3

LEMMA DecodeRespOrErrorSound ==
  ASSUME Inv, Sound, decodeRespOrError
  PROVE  Sound'
<1>1. /\ UNCHANGED <<parts, bodies>> /\ step = "request" /\ phase = "done"
      /\ results' = Append(results, result)
      /\ \/ Blank /\ step' = "threw" /\ UNCHANGED vars
         \/ /\ Exchange /\ step' = "response"
            /\ Start(parts[2], bodies[2].pieces)
  BY ResponseStarts
<1>2. CASE step' = "threw" /\ UNCHANGED vars
  <2>1. UNCHANGED <<phase, buf, pos, calls, result>>
    BY <1>2 DEF vars, writer, reader
  <2> QED
    BY <1>1, <1>2, <2>1 DEF Sound, DecodesWhatWasWritten
<1>3. CASE Exchange /\ step' = "response" /\ Start(parts[2], bodies[2].pieces)
  <2>1. Len(bodies) = 2 /\ parts # <<>>
    BY <1>3 DEF Exchange
  <2>2. IsBody(bodies[2], parts[2])
    <3>1. 2 \in 1..Len(bodies)
      BY <2>1
    <3> QED
      BY <3>1 DEF Inv, Shape
  <2>3. phase' = "read" /\ Decoding(buf', calls', pos', bodies[2].message)
    BY <1>3, <2>2, StartReads DEF IsBody
  <2>4. Expected' = bodies[2].message
    BY <1>1, <1>3 DEF Expected
  <2>5. results' = <<bodies[1].message>>
    <3>1. results = <<>> /\ result = bodies[1].message
      BY <1>1, <2>1, BodyIsExpected DEF Sound
    <3> QED
      BY <1>1, <3>1
  <2>6. ReadsOn
    BY <1>1, <1>3, <2>3, <2>4, <2>5 DEF ReadsOn
  <2> QED
    BY <2>6, ReadingIsSound
<1> QED
  BY <1>1, <1>2, <1>3

LEMMA ReturnResultSound ==
  ASSUME Inv, Sound, ReturnResult
  PROVE  Sound'
<1>1. /\ step \in {"message", "response"} /\ step' = "returned" /\ phase = "done"
      /\ results' = Append(results, result) /\ result = Expected
      /\ UNCHANGED <<phase, buf, pos, calls, parts, bodies>>
  BY DEF ReturnResult, vars, writer, reader, Sound
<1>2. DecodesWhatWasWritten'
  <2>1. CASE step = "message"
    <3>1. Len(bodies) = 1 /\ results = <<>> /\ parts # <<>>
      BY <2>1 DEF Inv, Sound
    <3>2. result = bodies[1].message
      BY <1>1, <2>1, <3>1, BodyIsExpected
    <3>3. results' = <<bodies[1].message>>
      BY <1>1, <3>1, <3>2
    <3> QED
      BY <1>1, <3>1, <3>3 DEF DecodesWhatWasWritten
  <2>2. CASE step = "response"
    <3>1. Len(bodies) = 2 /\ results = <<bodies[1].message>>
      BY <2>2 DEF Inv, Sound, Exchange
    <3>2. result = bodies[2].message
      BY <1>1, <2>2, BodyIsExpected
    <3>3. results' = <<bodies[1].message, bodies[2].message>>
      <4> DEFINE x == bodies[1].message
                 y == bodies[2].message
      <4>1. results' = Append(<<x>>, y)
        BY <1>1, <3>1, <3>2
      <4>2. x = bodies[1].message /\ y = bodies[2].message
        OBVIOUS
      <4> HIDE DEF x, y
      <4>3. Append(<<x>>, y) = <<x, y>>
        <5>1. <<x>> \in Seq({x, y}) /\ y \in {x, y} /\ Len(<<x>>) = 1
          OBVIOUS
        <5>2. /\ Append(<<x>>, y) \in Seq({x, y})
              /\ Len(Append(<<x>>, y)) = 2
              /\ Append(<<x>>, y)[1] = x
              /\ Append(<<x>>, y)[2] = y
          BY <5>1, AppendProperties
        <5>3. <<x, y>> \in Seq({x, y}) /\ Len(<<x, y>>) = 2
          OBVIOUS
        <5>4. \A i \in 1..2 : Append(<<x>>, y)[i] = <<x, y>>[i]
          <6>1. <<x, y>>[1] = x /\ <<x, y>>[2] = y
            OBVIOUS
          <6>2. \A i \in 1..2 : i = 1 \/ i = 2
            OBVIOUS
          <6> QED
            BY <5>2, <6>1, <6>2
        <5> QED
          BY <5>2, <5>3, <5>4, SeqEqual
      <4> QED
        BY <4>1, <4>2, <4>3
    <3> QED
      BY <1>1, <3>1, <3>3 DEF DecodesWhatWasWritten
  <2> QED
    BY <1>1, <2>1, <2>2
<1> QED
  BY <1>1, <1>2 DEF Sound

LEMMA StutterSound ==
  ASSUME Sound, UNCHANGED allVars
  PROVE  Sound'
<1>1. UNCHANGED <<phase, buf, pos, calls, result, parts, bodies, step, results>>
  BY DEF allVars, vars, writer, reader, entry
<1> QED
  BY <1>1 DEF Sound, Expected, DecodesWhatWasWritten

LEMMA NextSound == Inv /\ Inv' /\ Sound /\ [Next]_allVars => Sound'
  BY WriteSound, TakeBodySound, DecodeSound, DecodeMessageSound, DecodeRequestSound,
     DecodeRespOrErrorSound, ReturnResultSound, StutterSound
     DEF Next, Reading, Ended

THEOREM SoundHolds == Spec => []Sound
<1>1. Init => Sound
  BY InitSound
<1> QED
  BY <1>1, InvHolds, NextSound, PTL DEF Spec

-----------------------------------------------------------------------------
(* Whatever request and response were written, and however long they are,   *)
(* the client takes the request for its request and the response for its    *)
(* response (asServingReqRes, index.ts:54-62).                             *)
THEOREM EntriesAreCutRight == Spec => []SlicesAreRight
<1>1. Inv => SlicesAreRight
  BY DEF Inv
<1> QED
  BY <1>1, InvHolds, PTL

(* An entry is refused if and only if it is the blank a subsample has for  *)
(* what it did not find (index.ts:74).                                     *)
THEOREM BlanksAreRefused == Spec => []OnlyBlanksThrow
<1>1. Inv => OnlyBlanksThrow
  BY DEF Inv
<1> QED
  BY <1>1, InvHolds, PTL

(* The variables have their types: in particular, the reader is within the *)
(* pieces, and decodes classes of compiled.js only.                        *)
THEOREM TypesAreRight == Spec => []TypeOK
<1>1. Inv /\ Sound => TypeOK
  <2> SUFFICES ASSUME Inv, Sound
               PROVE  TypeOK
    OBVIOUS
  <2>1. /\ phase \in {"write", "written", "read", "done"}
        /\ author \in Writers
        /\ parts \in Entries
        /\ Len(bodies) <= Len(parts)
        /\ step \in {"bodies", "message", "request", "response", "returned", "threw"}
        /\ left \in 0..Budget[parts]
    BY DEF Inv, Shape
  <2>2. pos \in 0..Len(buf)
    BY DEF Sound
  <2>3. \A i \in DOMAIN calls : calls[i].class \in Classes
    BY DEF Sound
  <2> QED
    BY <2>1, <2>2, <2>3 DEF TypeOK
<1> QED
  BY <1>1, InvHolds, SoundHolds, PTL

(* Whatever order, repetition, packing, nesting and unknown fields a writer *)
(* chose, the reader takes each piece for what it is, and no nested decode  *)
(* goes beyond the one that called it (compiled.js:12928).                 *)
THEOREM ReaderIsInside == Spec => []ReaderStaysInside
<1>1. Sound => ReaderStaysInside
  <2> SUFFICES ASSUME Sound
               PROVE  ReaderStaysInside
    OBVIOUS
  <2>1. phase = "read" => Decoding(buf, calls, pos, Expected)
    BY DEF Sound
  <2>2. ~ Lost
    BY <2>1, NeverLost
  <2>3. phase = "read" => pos <= call.end
    BY <2>1, CallOf
  <2>4. \A i \in DOMAIN calls : i > 1 => calls[i].end <= calls[i - 1].end
    BY DEF Sound
  <2> QED
    BY <2>2, <2>3, <2>4 DEF ReaderStaysInside
<1> QED
  BY <1>1, SoundHolds, PTL

(* What the client gets is what was written, field by field: for any table *)
(* of classes with distinct numbers, any writer and any depth.             *)
THEOREM WhatWasWrittenIsDecoded == Spec => []DecodesWhatWasWritten
<1>1. Sound => DecodesWhatWasWritten
  BY DEF Sound
<1> QED
  BY <1>1, SoundHolds, PTL

(* The loops of decode have no bound but the position (compiled.js:12929),  *)
(* and every turn and every return brings it, or the caller, nearer to the *)
(* end: with ReaderIsInside, a decode has no more steps than its pieces.    *)
THEOREM DecodeComesNearer == Spec => DecodeAdvances
<1>1. Inv /\ Sound /\ [Next]_allVars
        => [phase = "read" /\ UNCHANGED step => phase' = "done" \/ Ahead' < Ahead]_allVars
  <2> SUFFICES ASSUME Inv, Sound, Next, phase = "read", UNCHANGED step,
                      ~ UNCHANGED allVars
               PROVE  phase' = "done" \/ Ahead' < Ahead
    OBVIOUS
  <2>1. CASE Decode /\ UNCHANGED entry
    BY <2>1, DecodeSound
  <2>2. ~ TakeBody /\ ~ DecodeMessage /\ ~ DecodeRequest /\ ~ decodeRespOrError
        /\ ~ ReturnResult
    BY DEF TakeBody, DecodeMessage, DecodeRequest, AllTaken, decodeRespOrError, ReturnResult
  <2> QED
    BY <2>1, <2>2 DEF Next, Reading, Ended
<1> QED
  BY <1>1, InvHolds, SoundHolds, PTL DEF Spec, DecodeAdvances

=============================================================================
