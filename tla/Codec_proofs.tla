---------------------------- MODULE Codec_proofs ----------------------------
(***************************************************************************)
(* What `decode` makes of the pieces `encode` wrote, for any table of       *)
(* classes, any writer and any nesting.                                    *)
(*                                                                         *)
(* Messages nest, but no induction over them is needed: a set of points     *)
(* says what is read from each position, and each point is justified by    *)
(* the next one.  The writer keeps such a set, the reader walks along it.  *)
(***************************************************************************)
EXTENDS Codec, SequenceTheorems, TLAPS

IsSeq(s) == \E S : s \in Seq(S)

-----------------------------------------------------------------------------
(* Sequences. *)

(* Two sequences have their elements in one set. *)
LEMMA CommonSet ==
  ASSUME NEW s, NEW t, IsSeq(s), IsSeq(t)
  PROVE  \E S : s \in Seq(S) /\ t \in Seq(S)
<1>1. PICK A : s \in Seq(A)
  BY DEF IsSeq
<1>2. PICK B : t \in Seq(B)
  BY DEF IsSeq
<1>3. s \in Seq(A \cup B)
  BY <1>1, SeqMonotonic
<1>4. t \in Seq(A \cup B)
  BY <1>2, SeqMonotonic
<1> QED
  BY <1>3, <1>4

LEMMA EmptyIsSeq == IsSeq(<<>>)
  BY EmptySeq DEF IsSeq

LEMMA ConcatIsSeq ==
  ASSUME NEW s, NEW t, IsSeq(s), IsSeq(t)
  PROVE  IsSeq(s \o t)
<1>1. PICK S : s \in Seq(S) /\ t \in Seq(S)
  BY CommonSet
<1> QED
  BY <1>1, ConcatProperties DEF IsSeq

(* One element may be replaced by anything. *)
LEMMA ExceptIsSeq ==
  ASSUME NEW s, NEW i, NEW e, IsSeq(s)
  PROVE  IsSeq([s EXCEPT ![i] = e])
<1>1. PICK S : s \in Seq(S)
  BY DEF IsSeq
<1>2. s \in [1..Len(s) -> S] /\ Len(s) \in Nat
  BY <1>1, LenProperties
<1>3. [s EXCEPT ![i] = e] \in [1..Len(s) -> S \cup {e}]
  BY <1>2
<1>4. [1..Len(s) -> S \cup {e}] \subseteq Seq(S \cup {e})
  <2>1. Seq(S \cup {e}) = UNION {[1..n -> S \cup {e}] : n \in Nat}
    BY SeqDef
  <2> QED
    BY <1>2, <2>1
<1>5. [s EXCEPT ![i] = e] \in Seq(S \cup {e})
  BY <1>3, <1>4
<1> QED
  BY <1>5 DEF IsSeq

LEMMA PairIsSeq == \A d, e : IsSeq(<<d, e>>)
<1>1. TAKE d, e
<1>2. <<d, e>> \in Seq({d, e})
  OBVIOUS
<1> QED
  BY <1>2 DEF IsSeq

LEMMA FourAreSeq == \A d, e, f, g : IsSeq(<<d, e, f, g>>)
<1>1. TAKE d, e, f, g
<1>2. <<d, e, f, g>> \in Seq({d, e, f, g})
  OBVIOUS
<1> QED
  BY <1>2 DEF IsSeq


LEMMA FunctionIsSeq ==
  ASSUME NEW k \in Nat, NEW f, f = [i \in 1..k |-> f[i]]
  PROVE  IsSeq(f) /\ Len(f) = k
<1> DEFINE S == {f[i] : i \in 1..k}
<1>1. f \in [1..k -> S]
  OBVIOUS
<1>2. Seq(S) = UNION {[1..n -> S] : n \in Nat}
  BY SeqDef
<1> HIDE DEF S
<1>3. f \in Seq(S)
  BY <1>1, <1>2
<1>4. DOMAIN f = 1..k
  BY <1>1
<1>5. DOMAIN f = 1..Len(f) /\ Len(f) \in Nat
  BY <1>3, LenProperties
<1> QED
  BY <1>3, <1>4, <1>5 DEF IsSeq

LEMMA ConcatThree ==
  ASSUME NEW s, NEW t, NEW u, IsSeq(s), IsSeq(t), IsSeq(u)
  PROVE  (s \o t) \o u = s \o (t \o u)
<1>1. PICK A : s \in Seq(A) /\ t \in Seq(A)
  BY CommonSet
<1>2. PICK B : u \in Seq(B)
  BY DEF IsSeq
<1> DEFINE S == A \cup B
<1>3. s \in Seq(S) /\ t \in Seq(S) /\ u \in Seq(S)
  <2>1. A \subseteq S /\ B \subseteq S
    OBVIOUS
  <2> HIDE DEF S
  <2> QED
    BY <1>1, <1>2, <2>1, SeqMonotonic
<1> HIDE DEF S
<1> QED
  BY <1>3, ConcatAssociative
LEMMA SeqBasics ==
  ASSUME NEW s, IsSeq(s)
  PROVE  Len(s) \in Nat /\ DOMAIN s = 1..Len(s)
  BY LenProperties DEF IsSeq

LEMMA ConcatAt ==
  ASSUME NEW s, NEW t, IsSeq(s), IsSeq(t)
  PROVE  /\ IsSeq(s \o t)
         /\ Len(s \o t) = Len(s) + Len(t)
         /\ \A i \in 1..Len(s) : (s \o t)[i] = s[i]
         /\ \A i \in 1..Len(t) : (s \o t)[Len(s) + i] = t[i]
<1>1. PICK S : s \in Seq(S) /\ t \in Seq(S)
  BY CommonSet
<1>2. Len(s) \in Nat /\ Len(t) \in Nat
  BY SeqBasics
<1> DEFINE w == s \o t
<1>3. /\ Len(w) = Len(s) + Len(t)
      /\ \A i \in 1 .. Len(s) + Len(t) :
           w[i] = IF i <= Len(s) THEN s[i] ELSE t[i - Len(s)]
  BY <1>1, ConcatProperties
<1>4. IsSeq(w)
  BY ConcatIsSeq
<1> HIDE DEF w
<1>5. \A i \in 1..Len(s) : w[i] = s[i]
  BY <1>2, <1>3
<1>6. \A i \in 1..Len(t) : w[Len(s) + i] = t[i]
  <2>1. TAKE i \in 1..Len(t)
  <2>2. Len(s) + i \in 1 .. Len(s) + Len(t) /\ ~ (Len(s) + i <= Len(s))
        /\ Len(s) + i - Len(s) = i
    BY <1>2
  <2> QED
    BY <1>3, <2>2
<1> QED
  BY <1>3, <1>4, <1>5, <1>6 DEF w

LEMMA AppendAt ==
  ASSUME NEW s, NEW e, IsSeq(s)
  PROVE  /\ IsSeq(Append(s, e))
         /\ Len(Append(s, e)) = Len(s) + 1
         /\ \A i \in 1..Len(s) : Append(s, e)[i] = s[i]
         /\ Append(s, e)[Len(s) + 1] = e
<1>1. PICK S : s \in Seq(S)
  BY DEF IsSeq
<1> DEFINE T == S \cup {e}
<1>2. s \in Seq(T) /\ e \in T
  BY <1>1, SeqMonotonic
<1> HIDE DEF T
<1>3. Append(s, e) \in Seq(T)
  BY <1>2
<1> QED
  BY <1>2, <1>3 DEF IsSeq

LEMMA ReplaceIs ==
  ASSUME NEW s, NEW i, NEW e, IsSeq(s)
  PROVE  /\ IsSeq(ReplaceAt(s, i, e))
         /\ Len(ReplaceAt(s, i, e)) = Len(s)
         /\ \A j \in 1..Len(s) :
              ReplaceAt(s, i, e)[j] = IF j = i THEN e ELSE s[j]
<1>1. DOMAIN s = 1..Len(s) /\ Len(s) \in Nat
  BY SeqBasics
<1> DEFINE t == ReplaceAt(s, i, e)
<1>2. IsSeq(t)
  BY ExceptIsSeq DEF ReplaceAt
<1>3. DOMAIN t = 1..Len(s)
  BY <1>1 DEF ReplaceAt
<1>4. \A j \in 1..Len(s) : t[j] = IF j = i THEN e ELSE s[j]
  BY <1>1 DEF ReplaceAt
<1> HIDE DEF t
<1>5. DOMAIN t = 1..Len(t) /\ Len(t) \in Nat
  BY <1>2, SeqBasics
<1>6. Len(t) = Len(s)
  BY <1>1, <1>3, <1>5
<1> QED
  BY <1>2, <1>4, <1>6 DEF t

LEMMA FrontAt ==
  ASSUME NEW s, IsSeq(s), Len(s) > 0
  PROVE  /\ IsSeq(Front(s))
         /\ Len(Front(s)) = Len(s) - 1
         /\ \A i \in 1 .. Len(s) - 1 : Front(s)[i] = s[i]
<1>1. PICK S : s \in Seq(S)
  BY DEF IsSeq
<1>2. Len(s) \in Nat /\ \A i \in 1..Len(s) : s[i] \in S
  BY <1>1, LenProperties, ElementOfSeq
<1>3. 1 \in Int /\ Len(s) - 1 \in Int /\ \A i \in 1 .. Len(s) - 1 : s[i] \in S
  BY <1>2
<1> DEFINE t == SubSeq(s, 1, Len(s) - 1)
<1>4. /\ t \in Seq(S)
      /\ Len(t) = IF 1 <= Len(s) - 1 THEN Len(s) - 1 - 1 + 1 ELSE 0
      /\ \A i \in 1 .. Len(s) - 1 - 1 + 1 : t[i] = s[1 + i - 1]
  BY <1>3, SubSeqProperties
<1> HIDE DEF t
<1>5. Len(t) = Len(s) - 1
  <2> DEFINE n == Len(s)
  <2>1. n \in Nat /\ n > 0 /\ Len(t) = IF 1 <= n - 1 THEN n - 1 - 1 + 1 ELSE 0
    BY <1>2, <1>4
  <2> HIDE DEF n
  <2>2. Len(t) = n - 1
    BY <2>1
  <2> QED
    BY <2>2 DEF n
<1>6. ASSUME NEW i \in 1 .. Len(s) - 1
      PROVE  t[i] = s[i]
  <2>1. i \in 1 .. Len(s) - 1 - 1 + 1 /\ 1 + i - 1 = i
    BY <1>2
  <2> QED
    BY <1>4, <2>1
<1> QED
  BY <1>4, <1>5, <1>6 DEF t, Front, IsSeq

LEMMA PairAt ==
  ASSUME NEW d, NEW e
  PROVE  IsSeq(<<d, e>>) /\ Len(<<d, e>>) = 2 /\ <<d, e>>[1] = d /\ <<d, e>>[2] = e
  BY PairIsSeq

-----------------------------------------------------------------------------
(* Points.  At position `at`, in the loop of a `decode` of `class` that     *)
(* ends at `end`, the message so far is `message` and will be `total`.     *)

Point(at, class, end, message, total) ==
  [at |-> at, class |-> class, end |-> end, message |-> message, total |-> total]

PieceAt(b, i) == IF i < Len(b) THEN b[i + 1].piece ELSE "none"

CaseAt(b, at, f) ==
  CASE f.label = "map" -> "entry"
    [] f.label # "map" /\ IsEmbedded(f) -> "message"
    [] f.label = "packed" /\ b[at + 1].wire = 2 -> "elements"
    [] OTHER -> "scalar"

Elements(b, from, to) == [i \in 1 .. to - from |-> b[from + i].v]

(* Field f at `at` makes m2 of the message m and ends at at2; what is nested *)
(* in it is read along the points P.                                       *)
ScalarAt(b, f, at, m, at2, m2) ==
  /\ CaseAt(b, at, f) = "scalar"
  /\ PieceAt(b, at + 1) = "scalar"
  /\ at2 = at + 2
  /\ m2 = Put(m, f, <<b[at + 2].v>>)

ElementsAt(b, f, at, m, at2, m2) ==
  /\ CaseAt(b, at, f) = "elements"
  /\ PieceAt(b, at + 1) = "length"
  /\ b[at + 2].n \in Nat
  /\ at2 = at + 2 + b[at + 2].n
  /\ m2 = Put(m, f, Elements(b, at + 2, at2))

MessageAt(b, P, f, at, m, at2, m2) ==
  /\ CaseAt(b, at, f) = "message"
  /\ PieceAt(b, at + 1) = "length"
  /\ b[at + 2].n \in Nat
  /\ at2 = at + 2 + b[at + 2].n
  /\ \E v : /\ Point(at + 2, f.type, at2, New(f.type), v) \in P
            /\ m2 = Store(m, f, NoKey, v)

EntryAt(b, P, f, at, m, at2, m2) ==
  /\ CaseAt(b, at, f) = "entry"
  /\ PieceAt(b, at + 3) = "scalar"
  /\ PieceAt(b, at + 5) = "length"
  /\ b[at + 6].n \in Nat
  /\ at2 = at + 6 + b[at + 6].n
  /\ \E v : /\ Point(at + 6, f.type, at2, New(f.type), v) \in P
            /\ m2 = Store(m, f, b[at + 4].v, v)

FieldAt(b, P, f, at, m, at2, m2) ==
  \/ ScalarAt(b, f, at, m, at2, m2)
  \/ ElementsAt(b, f, at, m, at2, m2)
  \/ MessageAt(b, P, f, at, m, at2, m2)
  \/ EntryAt(b, P, f, at, m, at2, m2)

UnknownAt(b, at, m, at2, m2) ==
  /\ PieceAt(b, at + 1) = "length" => b[at + 2].n \in Nat
  /\ at2 = IF PieceAt(b, at + 1) = "length" THEN at + 2 + b[at + 2].n ELSE at + 2
  /\ m2 = m

(* The loop of `class` goes from `at` to at2. *)
Goes(b, P, class, at, m, at2, m2) ==
  /\ at2 \in Nat /\ at + 2 <= at2 /\ at2 <= Len(b)
  /\ PieceAt(b, at) = "tag"
  /\ \A f \in Fields[class] :
       f.number = b[at + 1].number => FieldAt(b, P, f, at, m, at2, m2)
  /\ (\A f \in Fields[class] : f.number # b[at + 1].number)
       => UnknownAt(b, at, m, at2, m2)

InPlace(b, x) ==
  /\ x = Point(x.at, x.class, x.end, x.message, x.total)
  /\ x.at \in Nat /\ x.end \in Nat
  /\ x.at <= x.end /\ x.end <= Len(b)
  /\ x.class \in Classes

Leads(b, P, x) ==
  IF x.at = x.end
    THEN x.message = x.total
    ELSE \E at2, m2 : /\ Goes(b, P, x.class, x.at, x.message, at2, m2)
                      /\ Point(at2, x.class, x.end, m2, x.total) \in P

Parsed(b, P) == \A x \in P : InPlace(b, x) /\ Leads(b, P, x)

(* The pieces from `from` to `to` are the message v. *)
Holds(b, class, from, to, v) ==
  \E P : Parsed(b, P) /\ Point(from, class, to, New(class), v) \in P

LEMMA PointFields ==
  ASSUME NEW at, NEW class, NEW end, NEW m, NEW t
  PROVE  LET x == Point(at, class, end, m, t)
         IN /\ x.at = at /\ x.class = class /\ x.end = end
            /\ x.message = m /\ x.total = t
            /\ x = Point(x.at, x.class, x.end, x.message, x.total)
  BY DEF Point

LEMMA CaseIs ==
  ASSUME NEW b, NEW at, NEW f, f.label = "packed" => ~ IsEmbedded(f)
  PROVE  /\ f.label = "map" => CaseAt(b, at, f) = "entry"
         /\ f.label # "map" /\ IsEmbedded(f) => CaseAt(b, at, f) = "message"
         /\ f.label = "packed" /\ ~ IsEmbedded(f) /\ b[at + 1].wire = 2
              => CaseAt(b, at, f) = "elements"
         /\ f.label # "map" /\ ~ IsEmbedded(f) /\ ~ (f.label = "packed" /\ b[at + 1].wire = 2)
              => CaseAt(b, at, f) = "scalar"
  BY DEF CaseAt

(* More points do no harm. *)
LEMMA GoesMonotonic ==
  ASSUME NEW b, NEW P, NEW Q, P \subseteq Q,
         NEW class, NEW at, NEW m, NEW at2, NEW m2, Goes(b, P, class, at, m, at2, m2)
  PROVE  Goes(b, Q, class, at, m, at2, m2)
<1>1. ASSUME NEW f, FieldAt(b, P, f, at, m, at2, m2)
      PROVE  FieldAt(b, Q, f, at, m, at2, m2)
  <2>1. MessageAt(b, P, f, at, m, at2, m2) => MessageAt(b, Q, f, at, m, at2, m2)
    BY DEF MessageAt
  <2>2. EntryAt(b, P, f, at, m, at2, m2) => EntryAt(b, Q, f, at, m, at2, m2)
    BY DEF EntryAt
  <2> QED
    BY <1>1, <2>1, <2>2 DEF FieldAt
<1> QED
  BY <1>1 DEF Goes

LEMMA LeadsMonotonic ==
  ASSUME NEW b, NEW P, NEW Q, P \subseteq Q, NEW x, Leads(b, P, x)
  PROVE  Leads(b, Q, x)
  BY GoesMonotonic DEF Leads

LEMMA ParsedUnion ==
  ASSUME NEW b, NEW P, NEW Q, Parsed(b, P), Parsed(b, Q)
  PROVE  Parsed(b, P \cup Q)
<1>1. P \subseteq P \cup Q /\ Q \subseteq P \cup Q
  OBVIOUS
<1>2. ASSUME NEW x \in P \cup Q
      PROVE  InPlace(b, x) /\ Leads(b, P \cup Q, x)
  <2>1. CASE x \in P
    BY <1>1, <2>1, LeadsMonotonic DEF Parsed
  <2>2. CASE x \in Q
    BY <1>1, <2>2, LeadsMonotonic DEF Parsed
  <2> QED
    BY <2>1, <2>2
<1> QED
  BY <1>2 DEF Parsed

(* A message without fields. *)
LEMMA HoldsNothing ==
  ASSUME NEW b, IsSeq(b), NEW class \in Classes, NEW at \in Nat, at <= Len(b)
  PROVE  Holds(b, class, at, at, New(class))
<1> DEFINE x == Point(at, class, at, New(class), New(class))
<1>1. /\ x.at = at /\ x.class = class /\ x.end = at
      /\ x.message = New(class) /\ x.total = New(class)
      /\ x = Point(x.at, x.class, x.end, x.message, x.total)
  BY PointFields
<1> HIDE DEF x
<1>2. InPlace(b, x) /\ Leads(b, {x}, x)
  BY <1>1 DEF InPlace, Leads
<1>3. Parsed(b, {x})
  BY <1>2 DEF Parsed
<1> QED
  BY <1>3 DEF Holds, x

(* One field more. *)
LEMMA HoldsOneMore ==
  ASSUME NEW b, NEW class, NEW from, NEW to, NEW v,
         Holds(b, class, from, to, v),
         NEW Q, Parsed(b, Q), NEW to2, NEW v2, Goes(b, Q, class, to, v, to2, v2)
  PROVE  Holds(b, class, from, to2, v2)
<1>1. PICK P : Parsed(b, P) /\ Point(from, class, to, New(class), v) \in P
  BY DEF Holds
<1> DEFINE Moved(x) == Point(x.at, class, to2, x.message, v2)
           M == {x \in P : x.class = class /\ x.end = to /\ x.total = v}
           last == Point(to2, class, to2, v2, v2)
           R == P \cup Q \cup {Moved(x) : x \in M} \cup {last}
<1>2. P \subseteq R /\ Q \subseteq R /\ last \in R /\ \A x \in M : Moved(x) \in R
  OBVIOUS
<1>3. Parsed(b, P \cup Q)
  BY <1>1, ParsedUnion
<1>4. to2 \in Nat /\ to + 2 <= to2 /\ to2 <= Len(b)
  BY DEF Goes
<1>5. to \in Nat /\ from \in Nat /\ class \in Classes /\ from <= to
  <2> DEFINE p == Point(from, class, to, New(class), v)
  <2>1. p.at = from /\ p.end = to /\ p.class = class
    BY PointFields
  <2>2. InPlace(b, p)
    BY <1>1 DEF Parsed
  <2> HIDE DEF p
  <2> QED
    BY <2>1, <2>2 DEF InPlace
<1>6. ASSUME NEW x \in P \cup Q
      PROVE  InPlace(b, x) /\ Leads(b, R, x)
  <2>1. P \cup Q \subseteq R
    OBVIOUS
  <2> HIDE DEF R
  <2> QED
    BY <1>3, <2>1, LeadsMonotonic DEF Parsed
<1>7. InPlace(b, last) /\ Leads(b, R, last)
  <2>1. /\ last.at = to2 /\ last.class = class /\ last.end = to2
        /\ last.message = v2 /\ last.total = v2
        /\ last = Point(last.at, last.class, last.end, last.message, last.total)
    BY PointFields
  <2> HIDE DEF last, R
  <2> QED
    BY <1>4, <1>5, <2>1 DEF InPlace, Leads
<1>8. ASSUME NEW x \in M
      PROVE  InPlace(b, Moved(x)) /\ Leads(b, R, Moved(x))
  <2> DEFINE y == Moved(x)
  <2>1. /\ y.at = x.at /\ y.class = class /\ y.end = to2
        /\ y.message = x.message /\ y.total = v2
        /\ y = Point(y.at, y.class, y.end, y.message, y.total)
    BY PointFields
  <2>2. x \in P /\ x.class = class /\ x.end = to /\ x.total = v
    OBVIOUS
  <2>3. InPlace(b, x) /\ Leads(b, P, x)
    BY <1>1, <2>2 DEF Parsed
  <2>4. x.at \in Nat /\ x.at <= to
    BY <2>2, <2>3 DEF InPlace
  <2>5. InPlace(b, y)
    <3> HIDE DEF y
    <3> QED
      BY <1>4, <1>5, <2>1, <2>4 DEF InPlace
  <2>6. Leads(b, R, y)
    <3>1. y.at # y.end
      <4> HIDE DEF y
      <4> QED
        BY <1>4, <1>5, <2>1, <2>4
    <3>2. CASE x.at = to
      <4>1. x.message = v
        BY <2>2, <2>3, <3>2 DEF Leads
      <4>2. Goes(b, R, class, to, v, to2, v2)
        <5> HIDE DEF R
        <5> QED
          BY <1>2, GoesMonotonic
      <4>3. Goes(b, R, y.class, y.at, y.message, to2, v2)
            /\ Point(to2, y.class, y.end, v2, y.total) \in R
        <5> HIDE DEF R, y
        <5> QED
          BY <1>2, <2>1, <3>2, <4>1, <4>2 DEF last
      <4> HIDE DEF R, y
      <4> QED
        BY <3>1, <4>3 DEF Leads
    <3>3. CASE x.at # to
      <4>1. PICK at2, m2 : /\ Goes(b, P, class, x.at, x.message, at2, m2)
                           /\ Point(at2, class, to, m2, v) \in P
        BY <2>2, <2>3, <3>3 DEF Leads
      <4> DEFINE z == Point(at2, class, to, m2, v)
      <4>2. z.at = at2 /\ z.class = class /\ z.end = to /\ z.total = v /\ z.message = m2
        BY PointFields
      <4>3. z \in M
        <5> HIDE DEF z
        <5>1. z \in P
          BY <4>1 DEF z
        <5> QED
          BY <4>2, <5>1
      <4>4. Moved(z) = Point(at2, class, to2, m2, v2)
        BY <4>2
      <4>5. Point(at2, class, to2, m2, v2) \in R
        <5> HIDE DEF z, M
        <5> QED
          BY <1>2, <4>3, <4>4
      <4>6. Goes(b, R, class, x.at, x.message, at2, m2)
        <5> HIDE DEF R
        <5> QED
          BY <1>2, <4>1, GoesMonotonic
      <4> HIDE DEF R, y
      <4> QED
        BY <2>1, <3>1, <4>5, <4>6 DEF Leads
    <3> QED
      BY <3>2, <3>3
  <2> QED
    BY <2>5, <2>6
<1>9. Parsed(b, R)
  <2> SUFFICES ASSUME NEW x \in R
               PROVE  InPlace(b, x) /\ Leads(b, R, x)
    BY DEF Parsed
  <2>1. x \in P \cup Q \/ x = last \/ \E y \in M : x = Moved(y)
    OBVIOUS
  <2> HIDE DEF R, Moved, M, last
  <2> QED
    BY <1>6, <1>7, <1>8, <2>1
<1>10. Point(from, class, to2, New(class), v2) \in R
  <2> DEFINE p == Point(from, class, to, New(class), v)
  <2>1. /\ p.at = from /\ p.end = to /\ p.class = class /\ p.total = v
        /\ p.message = New(class)
    BY PointFields
  <2>2. p \in M
    <3>1. p \in P
      BY <1>1
    <3> HIDE DEF p
    <3> QED
      BY <2>1, <3>1
  <2>3. Moved(p) = Point(from, class, to2, New(class), v2)
    BY <2>1
  <2> HIDE DEF p, M
  <2> QED
    BY <1>2, <2>2, <2>3
<1> HIDE DEF R
<1> QED
  BY <1>9, <1>10 DEF Holds

(* What is outside of a message does not matter to it. *)
LEMMA GoesElsewhere ==
  ASSUME NEW b, NEW b2, IsSeq(b), IsSeq(b2),
         NEW from \in Nat, NEW to \in Nat, to <= Len(b), to <= Len(b2),
         \A i \in from + 1 .. to : b2[i] = b[i],
         NEW P, NEW class, NEW at \in Nat, NEW m, NEW at2, NEW m2,
         Goes(b, P, class, at, m, at2, m2), from <= at, at2 <= to
  PROVE  Goes(b2, {x \in P : from <= x.at /\ x.end <= to}, class, at, m, at2, m2)
<1> DEFINE R == {x \in P : from <= x.at /\ x.end <= to}
<1>1. at2 \in Nat /\ at + 2 <= at2 /\ Len(b) \in Nat /\ Len(b2) \in Nat
  BY SeqBasics DEF Goes
<1>2. ASSUME NEW i \in Nat, from <= i, i < to
      PROVE  b2[i + 1] = b[i + 1] /\ PieceAt(b2, i) = PieceAt(b, i)
  <2>1. i + 1 \in from + 1 .. to /\ i < Len(b) /\ i < Len(b2)
    BY <1>1, <1>2
  <2>2. b2[i + 1] = b[i + 1]
    BY <2>1
  <2> QED
    BY <2>1, <2>2 DEF PieceAt
<1>3. /\ b2[at + 1] = b[at + 1] /\ PieceAt(b2, at) = PieceAt(b, at)
      /\ b2[at + 2] = b[at + 2] /\ PieceAt(b2, at + 1) = PieceAt(b, at + 1)
  <2>1. at + 1 \in Nat /\ at + 1 + 1 = at + 2 /\ from <= at + 1 /\ at < to /\ at + 1 < to
    BY <1>1
  <2> QED
    BY <1>2, <2>1
<1>4. ASSUME NEW f, FieldAt(b, P, f, at, m, at2, m2)
      PROVE  FieldAt(b2, R, f, at, m, at2, m2)
  <2>1. CaseAt(b2, at, f) = CaseAt(b, at, f)
    BY <1>3 DEF CaseAt
  <2>2. CASE ScalarAt(b, f, at, m, at2, m2)
    <3>1. ScalarAt(b2, f, at, m, at2, m2)
      BY <1>3, <2>1, <2>2 DEF ScalarAt
    <3> QED
      BY <3>1 DEF FieldAt
  <2>3. CASE ElementsAt(b, f, at, m, at2, m2)
    <3>1. \A i \in 1 .. at2 - (at + 2) : b2[at + 2 + i] = b[at + 2 + i]
      <4>1. TAKE i \in 1 .. at2 - (at + 2)
      <4>2. at + 2 + i \in from + 1 .. to
        BY <1>1
      <4> QED
        BY <4>2
    <3>2. Elements(b2, at + 2, at2) = Elements(b, at + 2, at2)
      BY <3>1 DEF Elements
    <3>3. ElementsAt(b2, f, at, m, at2, m2)
      BY <1>3, <2>1, <2>3, <3>2 DEF ElementsAt
    <3> QED
      BY <3>3 DEF FieldAt
  <2>4. CASE MessageAt(b, P, f, at, m, at2, m2)
    <3>1. PICK v : /\ Point(at + 2, f.type, at2, New(f.type), v) \in P
                   /\ m2 = Store(m, f, NoKey, v)
      BY <2>4 DEF MessageAt
    <3> DEFINE x == Point(at + 2, f.type, at2, New(f.type), v)
    <3>2. x.at = at + 2 /\ x.end = at2
      BY PointFields
    <3>3. x \in R
      <4>1. x \in P
        BY <3>1
      <4> HIDE DEF x
      <4> QED
        BY <3>2, <4>1
    <3> HIDE DEF R
    <3>4. MessageAt(b2, R, f, at, m, at2, m2)
      BY <1>3, <2>1, <2>4, <3>1, <3>3 DEF MessageAt
    <3> QED
      BY <3>4 DEF FieldAt
  <2>5. CASE EntryAt(b, P, f, at, m, at2, m2)
    <3>1. PICK v : /\ Point(at + 6, f.type, at2, New(f.type), v) \in P
                   /\ m2 = Store(m, f, b[at + 4].v, v)
      BY <2>5 DEF EntryAt
    <3>2. at + 6 <= at2
      <4>1. at2 = at + 6 + b[at + 6].n /\ b[at + 6].n \in Nat
        BY <2>5 DEF EntryAt
      <4> QED
        BY <1>1, <4>1
    <3>3. /\ b2[at + 4] = b[at + 4] /\ PieceAt(b2, at + 3) = PieceAt(b, at + 3)
          /\ b2[at + 6] = b[at + 6] /\ PieceAt(b2, at + 5) = PieceAt(b, at + 5)
      <4>1. /\ at + 3 \in Nat /\ at + 3 + 1 = at + 4 /\ from <= at + 3 /\ at + 3 < to
            /\ at + 5 \in Nat /\ at + 5 + 1 = at + 6 /\ from <= at + 5 /\ at + 5 < to
        BY <1>1, <3>2
      <4> QED
        BY <1>2, <4>1
    <3> DEFINE x == Point(at + 6, f.type, at2, New(f.type), v)
    <3>4. x.at = at + 6 /\ x.end = at2
      BY PointFields
    <3>5. x \in R
      <4>1. x \in P
        BY <3>1
      <4> HIDE DEF x
      <4> QED
        BY <3>4, <4>1
    <3> HIDE DEF R
    <3>6. EntryAt(b2, R, f, at, m, at2, m2)
      BY <2>1, <2>5, <3>1, <3>3, <3>5 DEF EntryAt
    <3> QED
      BY <3>6 DEF FieldAt
  <2> QED
    BY <1>4, <2>2, <2>3, <2>4, <2>5 DEF FieldAt
<1>5. UnknownAt(b, at, m, at2, m2) => UnknownAt(b2, at, m, at2, m2)
  BY <1>3 DEF UnknownAt
<1>6. at2 <= Len(b2)
  BY <1>1
<1> HIDE DEF R
<1>7. Goes(b2, R, class, at, m, at2, m2)
  BY <1>1, <1>3, <1>4, <1>5, <1>6 DEF Goes
<1> QED
  BY <1>7 DEF R

LEMMA HoldsElsewhere ==
  ASSUME NEW b, NEW b2, IsSeq(b), IsSeq(b2), NEW class, NEW from, NEW to, NEW v,
         Holds(b, class, from, to, v),
         to <= Len(b2), \A i \in from + 1 .. to : b2[i] = b[i]
  PROVE  Holds(b2, class, from, to, v)
<1>1. PICK P : Parsed(b, P) /\ Point(from, class, to, New(class), v) \in P
  BY DEF Holds
<1> DEFINE p == Point(from, class, to, New(class), v)
           R == {x \in P : from <= x.at /\ x.end <= to}
<1>2. p.at = from /\ p.end = to
  BY PointFields
<1>3. p \in P /\ InPlace(b, p)
  BY <1>1 DEF Parsed
<1> HIDE DEF p
<1>4. from \in Nat /\ to \in Nat /\ to <= Len(b)
  BY <1>2, <1>3 DEF InPlace
<1>5. p \in R
  BY <1>2, <1>3, <1>4
<1>6. Len(b2) \in Nat
  BY SeqBasics
<1>7. ASSUME NEW c, NEW at \in Nat, NEW m, NEW at2, NEW m2,
             Goes(b, P, c, at, m, at2, m2), from <= at, at2 <= to
      PROVE  Goes(b2, R, c, at, m, at2, m2)
  BY <1>4, <1>7, GoesElsewhere
<1>8. ASSUME NEW x \in R
      PROVE  InPlace(b2, x) /\ Leads(b2, R, x)
  <2>1. x \in P /\ from <= x.at /\ x.end <= to
    OBVIOUS
  <2>2. InPlace(b, x) /\ Leads(b, P, x)
    BY <1>1, <2>1 DEF Parsed
  <2>3. InPlace(b2, x)
    <3>1. x.end <= Len(b2)
      BY <1>4, <1>6, <2>1, <2>2 DEF InPlace
    <3> QED
      BY <2>2, <3>1 DEF InPlace
  <2>4. CASE x.at = x.end
    BY <2>2, <2>3, <2>4 DEF Leads
  <2>5. CASE x.at # x.end
    <3>1. PICK at2, m2 : /\ Goes(b, P, x.class, x.at, x.message, at2, m2)
                         /\ Point(at2, x.class, x.end, m2, x.total) \in P
      BY <2>2, <2>5 DEF Leads
    <3> DEFINE y == Point(at2, x.class, x.end, m2, x.total)
    <3>2. y.at = at2 /\ y.end = x.end
      BY PointFields
    <3>3. y \in P /\ InPlace(b, y)
      BY <1>1, <3>1 DEF Parsed
    <3>4. at2 \in Nat /\ x.at + 2 <= at2 /\ at2 <= x.end
      <4> HIDE DEF y
      <4> QED
        BY <3>1, <3>2, <3>3 DEF Goes, InPlace
    <3>5. from <= at2 /\ at2 <= to
      BY <1>4, <2>1, <2>2, <3>4 DEF InPlace
    <3>6. y \in R
      <4> HIDE DEF y
      <4> QED
        BY <2>1, <3>2, <3>3, <3>5
    <3>7. Goes(b2, R, x.class, x.at, x.message, at2, m2)
      <4>1. x.at \in Nat
        BY <2>2 DEF InPlace
      <4> HIDE DEF R
      <4> QED
        BY <1>7, <2>1, <3>1, <3>5, <4>1
    <3> HIDE DEF R
    <3> QED
      BY <2>3, <2>5, <3>6, <3>7 DEF Leads
  <2> QED
    BY <2>3, <2>4, <2>5
<1> HIDE DEF R
<1>9. Parsed(b2, R)
  BY <1>8 DEF Parsed
<1> QED
  BY <1>5, <1>9 DEF Holds, p

LEMMA HoldsBounds ==
  ASSUME NEW b, NEW class, NEW from, NEW to, NEW v, Holds(b, class, from, to, v)
  PROVE  from \in Nat /\ to \in Nat /\ from <= to /\ to <= Len(b) /\ class \in Classes
<1>1. PICK P : Parsed(b, P) /\ Point(from, class, to, New(class), v) \in P
  BY DEF Holds
<1> DEFINE p == Point(from, class, to, New(class), v)
<1>2. p.at = from /\ p.end = to /\ p.class = class
  BY PointFields
<1>3. InPlace(b, p)
  BY <1>1 DEF Parsed
<1> HIDE DEF p
<1> QED
  BY <1>2, <1>3 DEF InPlace

-----------------------------------------------------------------------------
(* The messages W being written to b.  What each has so far is a message in *)
(* the pieces up to its frontier, where the header of the next one is.     *)

HeaderLength(f) == IF f.label = "map" THEN 6 ELSE 2

Frontier(W, b, i) ==
  IF i = Len(W) THEN Len(b) ELSE W[i + 1].at - HeaderLength(W[i + 1].for)

IsLevel(l) ==
  l = [class |-> l.class, message |-> l.message, for |-> l.for, key |-> l.key,
       at |-> l.at, last |-> l.last]

(* In a message of `class`, the header of l with its lengths still open. *)
HeaderAt(b, class, l) ==
  LET h == l.at - HeaderLength(l.for) IN
  /\ l.for \in Fields[class] /\ l.for.type = l.class /\ IsEmbedded(l.for)
  /\ h \in Nat /\ l.at \in Nat
  /\ b[h + 1] = Tag(l.for.number, 2)
  /\ b[l.at] = Length(0)
  /\ IF l.for.label = "map"
       THEN b[h + 2] = Length(0) /\ b[h + 4] = Scalar(l.key)
       ELSE l.key = NoKey

Open(W, b) ==
  /\ IsSeq(b) /\ IsSeq(W) /\ Len(W) > 0
  /\ W[1].at = 0
  /\ \A i \in 1..Len(W) :
       /\ IsLevel(W[i])
       /\ Holds(b, W[i].class, W[i].at, Frontier(W, b, i), W[i].message)
  /\ \A i \in 1 .. Len(W) - 1 : HeaderAt(b, W[i].class, W[i + 1])
  /\ \A i, j \in 1..Len(W) : i < j => Frontier(W, b, i) < W[j].at

LEMMA OpenBounds ==
  ASSUME NEW W, NEW b, Open(W, b)
  PROVE  /\ Len(W) \in Nat \ {0} /\ Len(b) \in Nat
         /\ \A i \in 1..Len(W) :
              /\ W[i].at \in Nat /\ W[i].at <= Frontier(W, b, i)
              /\ Frontier(W, b, i) \in Nat /\ Frontier(W, b, i) <= Len(b)
              /\ W[i].class \in Classes
<1>1. Len(W) \in Nat \ {0} /\ Len(b) \in Nat
  BY SeqBasics DEF Open
<1>2. ASSUME NEW i \in 1..Len(W)
      PROVE  /\ W[i].at \in Nat /\ W[i].at <= Frontier(W, b, i)
             /\ Frontier(W, b, i) \in Nat /\ Frontier(W, b, i) <= Len(b)
             /\ W[i].class \in Classes
  <2>1. Holds(b, W[i].class, W[i].at, Frontier(W, b, i), W[i].message)
    BY DEF Open
  <2> QED
    BY <2>1, HoldsBounds
<1> QED
  BY <1>1, <1>2

(* A header is in front of its message. *)
LEMMA HeaderBounds ==
  ASSUME NEW W, NEW b, Open(W, b), NEW i \in 1 .. Len(W) - 1
  PROVE  /\ Frontier(W, b, i) = W[i + 1].at - HeaderLength(W[i + 1].for)
         /\ HeaderLength(W[i + 1].for) \in {2, 6}
         /\ W[i + 1].at \in Nat /\ W[i + 1].at <= Len(b)
<1>1. Len(W) \in Nat /\ i \in 1..Len(W) /\ i + 1 \in 1..Len(W) /\ i # Len(W)
  BY OpenBounds
<1>2. /\ W[i + 1].at \in Nat /\ W[i + 1].at <= Frontier(W, b, i + 1)
      /\ Frontier(W, b, i + 1) \in Nat /\ Frontier(W, b, i + 1) <= Len(b)
      /\ Len(b) \in Nat
  BY <1>1, OpenBounds
<1>3. W[i + 1].at <= Len(b)
  BY <1>2
<1> QED
  BY <1>1, <1>2, <1>3 DEF Frontier, HeaderLength

LEMMA HeaderElsewhere ==
  ASSUME NEW b, NEW c, NEW class, NEW l, HeaderAt(b, class, l),
         \A j \in 1..l.at : c[j] = b[j]
  PROVE  HeaderAt(c, class, l)
<1> DEFINE h == l.at - HeaderLength(l.for)
<1>1. h \in Nat /\ l.at \in Nat
  BY DEF HeaderAt
<1>2. CASE l.for.label = "map"
  <2>1. l.at = h + 6
    BY <1>1, <1>2 DEF HeaderLength
  <2> HIDE DEF h
  <2>2. {h + 1, h + 2, h + 4, l.at} \subseteq 1..l.at
    BY <1>1, <2>1
  <2>3. c[h + 1] = b[h + 1] /\ c[h + 2] = b[h + 2] /\ c[h + 4] = b[h + 4]
        /\ c[l.at] = b[l.at]
    BY <2>2
  <2> USE DEF h
  <2> QED
    BY <1>2, <2>3 DEF HeaderAt
<1>3. CASE l.for.label # "map"
  <2>1. l.at = h + 2
    BY <1>1, <1>3 DEF HeaderLength
  <2> HIDE DEF h
  <2>2. {h + 1, l.at} \subseteq 1..l.at
    BY <1>1, <2>1
  <2>3. c[h + 1] = b[h + 1] /\ c[l.at] = b[l.at]
    BY <2>2
  <2> USE DEF h
  <2> QED
    BY <1>3, <2>3 DEF HeaderAt
<1> QED
  BY <1>2, <1>3

(* The same message, with other contents. *)
SameLevel(l, k) ==
  /\ IsLevel(l)
  /\ l.class = k.class /\ l.for = k.for /\ l.key = k.key /\ l.at = k.at

(* Writing a field without messages in it. *)
LEMMA OpenOneMore ==
  ASSUME NEW W, NEW b, Open(W, b), NEW ps, IsSeq(ps),
         NEW l, SameLevel(l, W[Len(W)]),
         Goes(b \o ps, {}, l.class, Len(b), W[Len(W)].message, Len(b) + Len(ps), l.message)
  PROVE  Open(ReplaceAt(W, Len(W), l), b \o ps)
<1> DEFINE n == Len(W)
           V == ReplaceAt(W, n, l)
           c == b \o ps
<1>1. n \in Nat \ {0} /\ Len(b) \in Nat /\ n \in 1..n
  BY OpenBounds
<1>2. IsSeq(V) /\ Len(V) = n /\ \A i \in 1..n : V[i] = IF i = n THEN l ELSE W[i]
  <2>1. IsSeq(W)
    BY DEF Open
  <2> QED
    BY <2>1, ReplaceIs
<1>3. /\ IsSeq(c) /\ Len(c) = Len(b) + Len(ps) /\ Len(ps) \in Nat
      /\ \A i \in 1..Len(b) : c[i] = b[i]
  BY ConcatAt, SeqBasics DEF Open
<1>4. \A i \in 1..n : /\ V[i].class = W[i].class /\ V[i].for = W[i].for
                      /\ V[i].key = W[i].key /\ V[i].at = W[i].at
  BY <1>2 DEF SameLevel
<1> HIDE DEF V, c
<1>5. \A i \in 1 .. n - 1 : Frontier(V, c, i) = Frontier(W, b, i)
  <2>1. TAKE i \in 1 .. n - 1
  <2>2. i # n /\ i + 1 \in 1..n
    BY <1>1
  <2> QED
    BY <1>2, <1>4, <2>2 DEF Frontier
<1>6. ASSUME NEW i \in 1..n
      PROVE  IsLevel(V[i]) /\ Holds(c, V[i].class, V[i].at, Frontier(V, c, i), V[i].message)
  <2>1. /\ IsLevel(W[i])
        /\ Holds(b, W[i].class, W[i].at, Frontier(W, b, i), W[i].message)
    BY DEF Open
  <2>2. Holds(c, W[i].class, W[i].at, Frontier(W, b, i), W[i].message)
    <3>1. /\ W[i].at \in Nat /\ Frontier(W, b, i) \in Nat
          /\ Frontier(W, b, i) <= Len(b)
      BY OpenBounds
    <3>2. /\ Frontier(W, b, i) <= Len(c)
          /\ \A j \in W[i].at + 1 .. Frontier(W, b, i) : c[j] = b[j]
      <4>1. \A j \in W[i].at + 1 .. Frontier(W, b, i) : j \in 1..Len(b)
        BY <1>1, <3>1
      <4>2. Frontier(W, b, i) <= Len(c)
        BY <1>1, <1>3, <3>1
      <4> QED
        BY <1>3, <4>1, <4>2
    <3> QED
      BY <1>3, <2>1, <3>2, HoldsElsewhere DEF Open
  <2>3. CASE i = n
    <3>1. Parsed(c, {})
      BY DEF Parsed
    <3>2. Frontier(W, b, i) = Len(b) /\ Frontier(V, c, i) = Len(b) + Len(ps)
      BY <1>2, <1>3, <2>3 DEF Frontier
    <3>3. Holds(c, W[i].class, W[i].at, Len(b), W[n].message)
      BY <2>2, <2>3, <3>2
    <3>4. Goes(c, {}, W[i].class, Len(b), W[n].message, Len(b) + Len(ps), l.message)
      BY <2>3 DEF c, SameLevel
    <3>5. Holds(c, W[i].class, W[i].at, Len(b) + Len(ps), l.message)
      BY <3>1, <3>3, <3>4, HoldsOneMore
    <3> QED
      BY <1>2, <1>4, <2>3, <3>2, <3>5 DEF SameLevel
  <2>4. CASE i # n
    <3>1. i \in 1 .. n - 1 /\ V[i] = W[i]
      BY <1>1, <1>2, <2>4
    <3> QED
      BY <1>5, <2>1, <2>2, <3>1
  <2> QED
    BY <2>3, <2>4
<1>7. ASSUME NEW i \in 1 .. n - 1
      PROVE  HeaderAt(c, V[i].class, V[i + 1])
  <2>1. HeaderAt(b, W[i].class, W[i + 1])
    BY DEF Open
  <2>2. i \in 1..n /\ i + 1 \in 1..n
    BY <1>1
  <2>3. W[i + 1].at \in Nat /\ W[i + 1].at <= Len(b)
    BY HeaderBounds
  <2>4. \A j \in 1..W[i + 1].at : c[j] = b[j]
    BY <1>1, <1>3, <2>3
  <2>5. HeaderAt(c, W[i].class, W[i + 1])
    BY <2>1, <2>4, HeaderElsewhere
  <2> QED
    BY <1>4, <2>2, <2>5 DEF HeaderAt
<1>8. \A i, j \in 1..n : i < j => Frontier(V, c, i) < V[j].at
  <2>1. TAKE i, j \in 1..n
  <2>2. HAVE i < j
  <2>3. i \in 1 .. n - 1
    BY <1>1, <2>2
  <2>4. Frontier(W, b, i) < W[j].at
    BY <2>2 DEF Open
  <2> QED
    BY <1>4, <1>5, <2>3, <2>4
<1>9. V[1].at = 0
  BY <1>1, <1>4 DEF Open
<1>10. Open(V, c)
  BY <1>1, <1>2, <1>3, <1>6, <1>7, <1>8, <1>9 DEF Open
<1> QED
  BY <1>10 DEF V, c

(* ps is the header of e, a new message in one of `class`. *)
HeaderOf(ps, class, e) ==
  /\ IsLevel(e)
  /\ e.for \in Fields[class] /\ e.for.type = e.class /\ IsEmbedded(e.for)
  /\ e.message = New(e.class)
  /\ Len(ps) = HeaderLength(e.for)
  /\ ps[1] = Tag(e.for.number, 2) /\ ps[Len(ps)] = Length(0)
  /\ IF e.for.label = "map" THEN ps[2] = Length(0) /\ ps[4] = Scalar(e.key)
                            ELSE e.key = NoKey

(* Beginning a message in the innermost one. *)
LEMMA OpenNested ==
  ASSUME NEW W, NEW b, Open(W, b), NEW ps, IsSeq(ps),
         NEW l, SameLevel(l, W[Len(W)]), l.message = W[Len(W)].message,
         NEW e, HeaderOf(ps, l.class, e), e.at = Len(b) + Len(ps)
  PROVE  Open(Append(ReplaceAt(W, Len(W), l), e), b \o ps)
<1> DEFINE n == Len(W)
           V == Append(ReplaceAt(W, n, l), e)
           c == b \o ps
<1>1. n \in Nat \ {0} /\ Len(b) \in Nat /\ n \in 1..n
  BY OpenBounds
<1>2. /\ IsSeq(V) /\ Len(V) = n + 1 /\ V[n + 1] = e
      /\ \A i \in 1..n : V[i] = IF i = n THEN l ELSE W[i]
  <2> DEFINE U == ReplaceAt(W, n, l)
  <2>1. IsSeq(W)
    BY DEF Open
  <2>2. IsSeq(U) /\ Len(U) = n /\ \A i \in 1..n : U[i] = IF i = n THEN l ELSE W[i]
    BY <2>1, ReplaceIs
  <2> HIDE DEF U
  <2>3. IsSeq(Append(U, e)) /\ Len(Append(U, e)) = n + 1 /\ Append(U, e)[n + 1] = e
        /\ \A i \in 1..n : Append(U, e)[i] = U[i]
    BY <2>2, AppendAt
  <2> QED
    BY <2>2, <2>3 DEF U
<1>3. HeaderLength(e.for) \in {2, 6}
  BY DEF HeaderLength
<1>4. /\ IsSeq(c) /\ Len(c) = Len(b) + Len(ps) /\ Len(ps) \in {2, 6}
      /\ \A i \in 1..Len(b) : c[i] = b[i]
      /\ \A i \in 1..Len(ps) : c[Len(b) + i] = ps[i]
  BY <1>3, ConcatAt DEF Open, HeaderOf
<1>5. \A i \in 1..n : /\ V[i].class = W[i].class /\ V[i].for = W[i].for
                      /\ V[i].key = W[i].key /\ V[i].at = W[i].at
                      /\ V[i].message = W[i].message
  BY <1>2 DEF SameLevel
<1> HIDE DEF V, c
<1>6. \A i \in 1..n : Frontier(V, c, i) = Frontier(W, b, i)
  <2>1. TAKE i \in 1..n
  <2>2. i # n + 1 /\ i + 1 \in 1 .. n + 1
    BY <1>1
  <2>3. CASE i = n
    <3>1. Frontier(V, c, i) = Len(c) - Len(ps)
      BY <1>2, <1>4, <2>2, <2>3 DEF Frontier, HeaderOf
    <3>2. Frontier(W, b, i) = Len(b)
      BY <2>3 DEF Frontier
    <3> QED
      BY <1>1, <1>4, <3>1, <3>2
  <2>4. CASE i # n
    <3>1. i + 1 \in 1..n
      BY <1>1, <2>4
    <3> QED
      BY <1>2, <1>5, <2>2, <2>4, <3>1 DEF Frontier
  <2> QED
    BY <2>3, <2>4
<1>7. ASSUME NEW i \in 1 .. n + 1
      PROVE  IsLevel(V[i]) /\ Holds(c, V[i].class, V[i].at, Frontier(V, c, i), V[i].message)
  <2>1. CASE i = n + 1
    <3>1. e.class \in Classes
      BY DEF IsEmbedded, HeaderOf
    <3>2. Frontier(V, c, i) = e.at /\ e.at \in Nat /\ e.at <= Len(c)
      BY <1>1, <1>2, <1>4, <2>1 DEF Frontier
    <3>3. Holds(c, e.class, e.at, e.at, New(e.class))
      BY <1>4, <3>1, <3>2, HoldsNothing
    <3> QED
      BY <1>2, <2>1, <3>2, <3>3 DEF HeaderOf
  <2>2. CASE i # n + 1
    <3>1. i \in 1..n
      BY <1>1, <2>2
    <3>2. /\ IsLevel(W[i])
          /\ Holds(b, W[i].class, W[i].at, Frontier(W, b, i), W[i].message)
      BY <3>1 DEF Open
    <3>3. /\ W[i].at \in Nat /\ Frontier(W, b, i) \in Nat
          /\ Frontier(W, b, i) <= Len(b)
      BY <3>1, OpenBounds
    <3>4. /\ Frontier(W, b, i) <= Len(c)
          /\ \A j \in W[i].at + 1 .. Frontier(W, b, i) : j \in 1..Len(b)
      BY <1>1, <1>4, <3>3
    <3>5. \A j \in W[i].at + 1 .. Frontier(W, b, i) : c[j] = b[j]
      BY <1>4, <3>4
    <3>6. IsSeq(b)
      BY DEF Open
    <3>8. IsSeq(c)
      BY <1>4
    <3>7. Holds(c, W[i].class, W[i].at, Frontier(W, b, i), W[i].message)
      BY <3>2, <3>4, <3>5, <3>6, <3>8, HoldsElsewhere
    <3> QED
      BY <1>2, <1>5, <1>6, <3>1, <3>2, <3>7 DEF SameLevel
  <2> QED
    BY <2>1, <2>2
<1>8. ASSUME NEW i \in 1..n
      PROVE  HeaderAt(c, V[i].class, V[i + 1])
  <2>1. CASE i = n
    <3> DEFINE h == e.at - HeaderLength(e.for)
    <3>1. h = Len(b) /\ e.at \in Nat /\ e.at = Len(b) + Len(ps)
      BY <1>1, <1>4 DEF HeaderOf
    <3>2. c[Len(b) + 1] = ps[1] /\ c[Len(b) + Len(ps)] = ps[Len(ps)]
      BY <1>4
    <3>3. CASE e.for.label = "map"
      <4>1. Len(ps) = 6
        BY <3>3 DEF HeaderLength, HeaderOf
      <4>2. c[Len(b) + 2] = ps[2] /\ c[Len(b) + 4] = ps[4]
        BY <1>4, <4>1
      <4>3. HeaderAt(c, l.class, e)
        BY <1>1, <3>1, <3>2, <3>3, <4>2 DEF HeaderAt, HeaderOf
      <4> QED
        BY <1>2, <2>1, <4>3
    <3>4. CASE e.for.label # "map"
      <4>1. HeaderAt(c, l.class, e)
        BY <1>1, <3>1, <3>2, <3>4 DEF HeaderAt, HeaderOf
      <4> QED
        BY <1>2, <2>1, <4>1
    <3> QED
      BY <3>3, <3>4
  <2>2. CASE i # n
    <3>1. i \in 1 .. n - 1 /\ i + 1 \in 1..n
      BY <1>1, <2>2
    <3>2. HeaderAt(b, W[i].class, W[i + 1])
      BY <3>1 DEF Open
    <3>3. W[i + 1].at \in Nat /\ W[i + 1].at <= Len(b)
      BY <3>1, HeaderBounds
    <3>4. \A j \in 1..W[i + 1].at : c[j] = b[j]
      <4>1. \A j \in 1..W[i + 1].at : j \in 1..Len(b)
        BY <1>1, <3>3
      <4> QED
        BY <1>4, <4>1
    <3>5. HeaderAt(c, W[i].class, W[i + 1])
      BY <3>2, <3>4, HeaderElsewhere
    <3> QED
      BY <1>5, <3>1, <3>5 DEF HeaderAt
  <2> QED
    BY <2>1, <2>2
<1>9. \A i, j \in 1 .. n + 1 : i < j => Frontier(V, c, i) < V[j].at
  <2>1. TAKE i, j \in 1 .. n + 1
  <2>2. HAVE i < j
  <2>3. i \in 1..n
    BY <1>1, <2>2
  <2>4. CASE j = n + 1
    <3>1. Frontier(W, b, i) \in Nat /\ Frontier(W, b, i) <= Len(b)
      BY <2>3, OpenBounds
    <3>2. V[j].at = Len(b) + Len(ps)
      BY <1>2, <2>4
    <3>3. Len(ps) \in {2, 6}
      BY DEF HeaderOf, HeaderLength
    <3>4. ASSUME NEW x \in Nat, NEW y \in Nat, NEW k \in {2, 6}, x <= y
          PROVE  x < y + k
      BY <3>4
    <3>5. Frontier(W, b, i) < V[j].at
      BY <1>1, <3>1, <3>2, <3>3, <3>4
    <3> QED
      BY <1>6, <2>3, <3>5
  <2>5. CASE j # n + 1
    <3>1. j \in 1..n
      BY <1>1, <2>5
    <3>2. Frontier(W, b, i) < W[j].at
      BY <2>2, <2>3, <3>1 DEF Open
    <3> QED
      BY <1>5, <1>6, <2>3, <3>1, <3>2
  <2> QED
    BY <2>4, <2>5
<1>10. V[1].at = 0
  BY <1>1, <1>5 DEF Open
<1>11. n + 1 - 1 = n /\ n + 1 > 0
  BY <1>1
<1>12. Open(V, c)
  <2>1. \A i \in 1 .. Len(V) - 1 : HeaderAt(c, V[i].class, V[i + 1])
    <3>1. Len(V) = n + 1
      BY <1>2
    <3>2. Len(V) - 1 = n
      BY <1>1, <3>1
    <3> QED
      BY <1>8, <3>2
  <2> QED
    BY <1>2, <1>4, <1>7, <1>9, <1>10, <1>11, <2>1 DEF Open
<1> QED
  BY <1>12 DEF V, c

(* c is b with the lengths of e filled in. *)
Filled(b, c, e) ==
  /\ IsSeq(c) /\ Len(c) = Len(b)
  /\ c[e.at] = Length(Len(b) - e.at)
  /\ \A j \in 1..Len(b) :
       j # e.at /\ (e.for.label = "map" => j # e.at - 4) => c[j] = b[j]

(* Ending the innermost message. *)
LEMMA OpenClosed ==
  ASSUME NEW W, NEW b, Open(W, b), Len(W) > 1,
         NEW c, Filled(b, c, W[Len(W)]),
         NEW l, SameLevel(l, W[Len(W) - 1]),
         l.message = Store(W[Len(W) - 1].message, W[Len(W)].for, W[Len(W)].key,
                           W[Len(W)].message)
  PROVE  Open(ReplaceAt(Front(W), Len(Front(W)), l), c)
<1> DEFINE n == Len(W)
           m == n - 1
           e == W[n]
           f == e.for
           at == e.at
           end == Len(b)
           h == Frontier(W, b, m)
           V == ReplaceAt(Front(W), Len(Front(W)), l)
<1>1. n \in Nat \ {0, 1} /\ end \in Nat /\ n \in 1..n /\ m \in 1..n /\ m + 1 = n
      /\ m \in 1 .. n - 1 /\ m \in Nat /\ m > 0
  BY OpenBounds
<1>2. IsSeq(V) /\ Len(V) = m /\ \A i \in 1..m : V[i] = IF i = m THEN l ELSE W[i]
  <2> DEFINE U == Front(W)
  <2>1. IsSeq(U) /\ Len(U) = n - 1 /\ \A i \in 1 .. n - 1 : U[i] = W[i]
    BY <1>1, FrontAt DEF Open
  <2> HIDE DEF U
  <2>2. /\ IsSeq(ReplaceAt(U, Len(U), l)) /\ Len(ReplaceAt(U, Len(U), l)) = Len(U)
        /\ \A i \in 1..Len(U) :
             ReplaceAt(U, Len(U), l)[i] = IF i = Len(U) THEN l ELSE U[i]
    BY <2>1, ReplaceIs
  <2> QED
    BY <2>1, <2>2 DEF U
<1>3. \A i \in 1..m : /\ V[i].class = W[i].class /\ V[i].for = W[i].for
                      /\ V[i].key = W[i].key /\ V[i].at = W[i].at
  BY <1>2 DEF SameLevel
<1>4. /\ HeaderAt(b, W[m].class, e)
      /\ Holds(b, e.class, at, end, e.message)
      /\ Holds(b, W[m].class, W[m].at, h, W[m].message)
  <2>1. HeaderAt(b, W[m].class, W[m + 1])
    BY <1>1 DEF Open
  <2>2. Holds(b, e.class, at, Frontier(W, b, n), e.message)
    BY <1>1 DEF Open
  <2>3. Frontier(W, b, n) = end
    BY DEF Frontier
  <2>4. Holds(b, W[m].class, W[m].at, h, W[m].message)
    BY <1>1 DEF Open
  <2> QED
    BY <1>1, <2>1, <2>2, <2>3, <2>4
<1>5. /\ h = at - HeaderLength(f) /\ HeaderLength(f) \in {2, 6}
      /\ at \in Nat /\ at <= end /\ h \in Nat
  <2>1. /\ h = W[m + 1].at - HeaderLength(W[m + 1].for)
        /\ HeaderLength(W[m + 1].for) \in {2, 6}
        /\ W[m + 1].at \in Nat /\ W[m + 1].at <= end
    BY <1>1, HeaderBounds
  <2>2. h \in Nat
    BY <1>1, OpenBounds
  <2> QED
    BY <1>1, <2>1, <2>2
<1>6. /\ f \in Fields[W[m].class] /\ f.type = e.class /\ IsEmbedded(f)
      /\ b[h + 1] = Tag(f.number, 2)
      /\ IF f.label = "map" THEN b[h + 2] = Length(0) /\ b[h + 4] = Scalar(e.key)
                            ELSE e.key = NoKey
  BY <1>4, <1>5 DEF HeaderAt
<1>7. /\ c[at] = Length(end - at)
      /\ IsSeq(c) /\ Len(c) = end /\ end - at \in Nat
      /\ h + 2 <= at
      /\ f.label = "map" => at = h + 6
      /\ f.label # "map" => at = h + 2
  <2>1. c[at] = Length(end - at) /\ IsSeq(c) /\ Len(c) = end
    BY DEF Filled
  <2>2. f.label = "map" => at = h + 6
    BY <1>5 DEF HeaderLength
  <2>3. f.label # "map" => at = h + 2
    BY <1>5 DEF HeaderLength
  <2> HIDE DEF e, f, h, at, end
  <2>4. end - at \in Nat /\ h + 2 <= at
    BY <1>1, <1>5, <2>2, <2>3
  <2> QED
    BY <2>1, <2>2, <2>3, <2>4
(* What is kept: all before the lengths, the key, and all behind them. *)
<1>8. /\ \A j \in 1 .. h + 1 : c[j] = b[j]
      /\ \A j \in at + 1 .. end : c[j] = b[j]
      /\ f.label = "map" => c[h + 4] = b[h + 4]
  <2>1. \A j \in 1..end :
          j # at /\ (f.label = "map" => j # at - 4) => c[j] = b[j]
    BY DEF Filled
  <2> HIDE DEF e, f, h, at, end
  <2>2. /\ h \in Nat /\ at \in Nat /\ end \in Nat /\ h + 2 <= at /\ at <= end
        /\ f.label = "map" => at = h + 6
    BY <1>1, <1>5, <1>7
  <2>3. ASSUME NEW j \in 1 .. h + 1
        PROVE  c[j] = b[j]
    <3>1. j \in 1..end /\ j # at /\ (f.label = "map" => j # at - 4)
      BY <2>2
    <3> QED
      BY <2>1, <3>1
  <2>4. ASSUME NEW j \in at + 1 .. end
        PROVE  c[j] = b[j]
    <3>1. j \in 1..end /\ j # at /\ j # at - 4
      BY <1>1, <1>5
    <3> QED
      BY <2>1, <3>1
  <2>5. f.label = "map" => c[h + 4] = b[h + 4]
    <3>1. HAVE f.label = "map"
    <3>2. h + 4 \in 1..end /\ h + 4 # at /\ h + 4 # at - 4
      BY <2>2, <3>1
    <3> QED
      BY <2>1, <3>2
  <2> QED
    BY <2>3, <2>4, <2>5
<1>9. l.class = W[m].class /\ l.at = W[m].at
      /\ l.message = Store(W[m].message, f, e.key, e.message) /\ IsLevel(l)
      /\ l.for = W[m].for /\ l.key = W[m].key
  BY DEF SameLevel
<1>10. IsSeq(b) /\ W[m].class \in Classes /\ e.class \in Classes
  BY <1>1, OpenBounds DEF Open
<1>0. f.label = "packed" => ~ IsEmbedded(f)
  BY <1>6, <1>10, CodecAssumption DEF IsEmbedded
<1> HIDE DEF V, m, e, f, h, at, end
<1>20. h \in Nat /\ at \in Nat /\ end \in Nat /\ at <= end /\ Len(c) = end
  BY <1>1, <1>5, <1>7
(* The message that ended is a field of the next one. *)
<1>11. Holds(c, W[m].class, W[m].at, end, l.message)
  <2>1. PICK Q : Parsed(c, Q) /\ Point(at, e.class, end, New(e.class), e.message) \in Q
    <3>1. end <= Len(c)
      BY <1>1, <1>7
    <3>2. Holds(c, e.class, at, end, e.message)
      BY <1>4, <1>7, <1>8, <1>10, <3>1, HoldsElsewhere
    <3> QED
      BY <3>2 DEF Holds
  <2>2. Holds(c, W[m].class, W[m].at, h, W[m].message)
    <3>1. W[m].at \in Nat /\ h <= end
      <4>1. W[m].at \in Nat
        BY <1>4, HoldsBounds
      <4>2. h <= end
        BY <1>7, <1>20
      <4> QED
        BY <4>1, <4>2
    <3>2. \A j \in W[m].at + 1 .. h : j \in 1 .. h + 1
      BY <1>5, <3>1
    <3>3. h <= Len(c)
      BY <1>7, <3>1
    <3> QED
      BY <1>4, <1>7, <1>8, <1>10, <3>2, <3>3, HoldsElsewhere
  <2>3. c[h + 1] = Tag(f.number, 2)
    <3>1. h + 1 \in 1 .. h + 1
      BY <1>5
    <3> QED
      BY <1>6, <1>8, <3>1
  <2>4. \A g \in Fields[W[m].class] : g.number = f.number => g = f
    BY <1>6, <1>10, CodecAssumption
  <2>5. FieldAt(c, Q, f, h, W[m].message, end, l.message)
    <3>1. CASE f.label = "map"
      <4>1. at = h + 6
        BY <1>7, <3>1
      <4>2. c[h + 4] = Scalar(e.key)
        BY <1>6, <1>8, <3>1
      <4>3. c[h + 6] = Length(end - at)
        BY <1>7, <4>1
      <4>4. PieceAt(c, h + 3) = "scalar" /\ PieceAt(c, h + 5) = "length"
        <5>2. h + 3 < Len(c) /\ h + 5 < Len(c)
          BY <1>20, <4>1
        <5>3. h + 3 + 1 = h + 4 /\ h + 5 + 1 = h + 6
          BY <1>20
        <5> QED
          BY <4>2, <4>3, <5>2, <5>3 DEF PieceAt, Scalar, Length
      <4>5. c[h + 6].n \in Nat /\ end = h + 6 + c[h + 6].n
        <5>1. c[h + 6].n = end - at
          BY <4>3 DEF Length
        <5> QED
          BY <1>20, <4>1, <5>1
      <4>6. CaseAt(c, h, f) = "entry"
        BY <3>1 DEF CaseAt
      <4>7. c[h + 4].v = e.key
        BY <4>2 DEF Scalar
      <4>8. Point(h + 6, f.type, end, New(f.type), e.message) \in Q
        BY <1>6, <2>1, <4>1
      <4>9. EntryAt(c, Q, f, h, W[m].message, end, l.message)
        BY <1>9, <4>4, <4>5, <4>6, <4>7, <4>8 DEF EntryAt
      <4> QED
        BY <4>9 DEF FieldAt
    <3>2. CASE f.label # "map"
      <4>1. at = h + 2
        BY <1>7, <3>2
      <4>2. c[h + 2] = Length(end - at)
        BY <1>7, <4>1
      <4>3. PieceAt(c, h + 1) = "length"
        <5>1. h + 1 < Len(c) /\ h + 1 + 1 = h + 2
          BY <1>20, <4>1
        <5> QED
          BY <4>2, <5>1 DEF PieceAt, Length
      <4>4. c[h + 2].n \in Nat /\ end = h + 2 + c[h + 2].n
        <5>1. c[h + 2].n = end - at
          BY <4>2 DEF Length
        <5> QED
          BY <1>20, <4>1, <5>1
      <4>5. CaseAt(c, h, f) = "message"
        BY <1>0, <1>6, <3>2, CaseIs
      <4>6. Point(h + 2, f.type, end, New(f.type), e.message) \in Q
        BY <1>6, <2>1, <4>1
      <4>7. l.message = Store(W[m].message, f, NoKey, e.message)
        BY <1>6, <1>9, <3>2
      <4>8. MessageAt(c, Q, f, h, W[m].message, end, l.message)
        BY <4>3, <4>4, <4>5, <4>6, <4>7 DEF MessageAt
      <4> QED
        BY <4>8 DEF FieldAt
    <3> QED
      BY <3>1, <3>2
  <2>6. PieceAt(c, h) = "tag" /\ c[h + 1].number = f.number
    <3>1. h < Len(c)
      BY <1>1, <1>5, <1>7
    <3> QED
      BY <2>3, <3>1 DEF PieceAt, Tag
  <2>7. h + 2 <= end /\ end <= Len(c) /\ end \in Nat
    BY <1>1, <1>5, <1>7
  <2>8. Goes(c, Q, W[m].class, h, W[m].message, end, l.message)
    BY <1>6, <2>4, <2>5, <2>6, <2>7 DEF Goes
  <2> QED
    BY <2>1, <2>2, <2>8, HoldsOneMore
<1>12. \A i \in 1 .. m - 1 :
         Frontier(V, c, i) = Frontier(W, b, i) /\ Frontier(W, b, i) < W[m].at
  <2>1. TAKE i \in 1 .. m - 1
  <2>2. i \in 1..n /\ m \in 1..n /\ i < m /\ i # m /\ i # n /\ i + 1 \in 1..m
    BY <1>1
  <2>3. Frontier(W, b, i) < W[m].at
    BY <2>2 DEF Open
  <2>4. Frontier(V, c, i) = Frontier(W, b, i)
    BY <1>2, <1>3, <2>2 DEF Frontier, n
  <2> QED
    BY <2>3, <2>4
<1>13. W[m].at \in Nat /\ W[m].at <= h
  BY <1>4, HoldsBounds
<1>14. ASSUME NEW i \in 1..m
       PROVE  IsLevel(V[i]) /\ Holds(c, V[i].class, V[i].at, Frontier(V, c, i), V[i].message)
  <2>1. CASE i = m
    <3>1. Frontier(V, c, i) = end
      BY <1>2, <1>7, <2>1 DEF Frontier
    <3> QED
      BY <1>2, <1>9, <1>11, <2>1, <3>1
  <2>2. CASE i # m
    <3>1. i \in 1 .. m - 1 /\ i \in 1..n
      BY <1>1, <2>2
    <3>2. /\ IsLevel(W[i])
          /\ Holds(b, W[i].class, W[i].at, Frontier(W, b, i), W[i].message)
      BY <3>1 DEF Open, n
    <3>3. W[i].at \in Nat /\ Frontier(W, b, i) \in Nat
      BY <3>2, HoldsBounds
    <3>4. Frontier(W, b, i) <= h
      <4>1. Frontier(W, b, i) < W[m].at
        BY <1>12, <3>1
      <4> QED
        BY <1>13, <1>20, <3>3, <4>1
    <3>5. \A j \in W[i].at + 1 .. Frontier(W, b, i) : j \in 1 .. h + 1
      BY <1>20, <3>3, <3>4
    <3>6. Frontier(W, b, i) <= Len(c)
      <4>1. h <= end
        BY <1>7, <1>20
      <4> QED
        BY <1>20, <3>3, <3>4, <4>1
    <3>7. Holds(c, W[i].class, W[i].at, Frontier(W, b, i), W[i].message)
      BY <1>7, <1>8, <1>10, <3>2, <3>5, <3>6, HoldsElsewhere
    <3> QED
      BY <1>2, <1>12, <2>2, <3>1, <3>2, <3>7
  <2> QED
    BY <2>1, <2>2
<1>15. ASSUME NEW i \in 1 .. m - 1
       PROVE  HeaderAt(c, V[i].class, V[i + 1])
  <2>1. i \in 1 .. n - 1 /\ i \in 1..m /\ i + 1 \in 1..m /\ i + 1 \in 1..n
    BY <1>1
  <2>2. HeaderAt(b, W[i].class, W[i + 1])
    BY <2>1 DEF Open, n
  <2>3. W[i + 1].at \in Nat /\ W[i + 1].at <= h
    <3>1. CASE i + 1 = m
      BY <1>13, <3>1
    <3>2. CASE i + 1 # m
      <4>1. i + 1 \in 1 .. m - 1
        BY <1>1, <3>2
      <4>2. /\ W[i + 1].at \in Nat /\ W[i + 1].at <= Frontier(W, b, i + 1)
            /\ Frontier(W, b, i + 1) \in Nat
        BY <2>1, OpenBounds DEF n
      <4>3. Frontier(W, b, i + 1) < W[m].at
        BY <1>12, <4>1
      <4>4. W[i + 1].at < W[m].at /\ W[m].at \in Nat
        BY <1>13, <4>2, <4>3
      <4>5. W[m].at <= h /\ h \in Nat
        BY <1>13, <1>20
      <4> QED
        BY <4>2, <4>4, <4>5
    <3> QED
      BY <3>1, <3>2
  <2>4. \A j \in 1..W[i + 1].at : c[j] = b[j]
    <3>1. \A j \in 1..W[i + 1].at : j \in 1 .. h + 1
      BY <1>5, <2>3
    <3> QED
      BY <1>8, <3>1
  <2>5. HeaderAt(c, W[i].class, W[i + 1])
    BY <2>2, <2>4, HeaderElsewhere
  <2> QED
    BY <1>3, <2>1, <2>5 DEF HeaderAt
<1>16. \A i, j \in 1..m : i < j => Frontier(V, c, i) < V[j].at
  <2>1. TAKE i, j \in 1..m
  <2>2. HAVE i < j
  <2>3. i \in 1 .. m - 1 /\ i \in 1..n /\ j \in 1..n
    BY <1>1, <2>2
  <2>4. Frontier(W, b, i) < W[j].at
    BY <2>2, <2>3 DEF Open, n
  <2> QED
    BY <1>3, <1>12, <2>3, <2>4
<1>17. V[1].at = 0
  BY <1>1, <1>3 DEF Open
<1>18. Open(V, c)
  BY <1>1, <1>2, <1>7, <1>14, <1>15, <1>16, <1>17 DEF Open
<1> QED
  BY <1>18 DEF V

-----------------------------------------------------------------------------
(* The pieces of a field, appended to b, are the field.                    *)

LEMMA FieldOf ==
  ASSUME NEW class \in Classes, NEW f \in Fields[class]
  PROVE  /\ f.number # Unknown
         /\ \A g \in Fields[class] : g.number = f.number => g = f
         /\ f.label = "map" => IsEmbedded(f)
         /\ f.label = "packed" => ~ IsEmbedded(f) /\ WireType(f.type) # 2
<1>1. f.label = "packed" => f.type \notin Classes \cup {"string", "bytes"}
  BY CodecAssumption
<1>2. f.type \notin Classes \cup {"string", "bytes"} => WireType(f.type) # 2
  BY DEF WireType
<1> QED
  BY <1>1, <1>2, CodecAssumption DEF IsEmbedded

LEMMA TagFields ==
  ASSUME NEW number, NEW wire
  PROVE  Tag(number, wire).piece = "tag" /\ Tag(number, wire).number = number
         /\ Tag(number, wire).wire = wire
  BY DEF Tag

LEMMA LengthFields ==
  ASSUME NEW n
  PROVE  Length(n).piece = "length" /\ Length(n).n = n
  BY DEF Length

LEMMA ScalarFields ==
  ASSUME NEW v
  PROVE  Scalar(v).piece = "scalar" /\ Scalar(v).v = v
  BY DEF Scalar

LEMMA GoesScalar ==
  ASSUME NEW b, IsSeq(b), NEW class \in Classes, NEW f \in Fields[class],
         ~ IsEmbedded(f), NEW m, NEW v
  PROVE  Goes(b \o <<Tag(f.number, WireType(f.type)), Scalar(v)>>, {}, class,
              Len(b), m, Len(b) + 2, Put(m, f, <<v>>))
<1> DEFINE ps == <<Tag(f.number, WireType(f.type)), Scalar(v)>>
           c == b \o ps
           at == Len(b)
<1>1. /\ IsSeq(ps) /\ Len(ps) = 2
      /\ ps[1] = Tag(f.number, WireType(f.type)) /\ ps[2] = Scalar(v)
  BY PairAt
<1> HIDE DEF ps
<1>2. /\ at \in Nat /\ Len(c) = at + 2
      /\ c[at + 1] = Tag(f.number, WireType(f.type)) /\ c[at + 2] = Scalar(v)
  <2>1. Len(c) = Len(b) + Len(ps) /\ \A i \in 1..Len(ps) : c[Len(b) + i] = ps[i]
    <3>1. IsSeq(ps)
      BY <1>1
    <3> QED
      BY <3>1, ConcatAt
  <2>2. at \in Nat /\ 1 \in 1..Len(ps) /\ 2 \in 1..Len(ps)
    BY <1>1, SeqBasics
  <2> HIDE DEF c
  <2> QED
    BY <1>1, <2>1, <2>2
<1> HIDE DEF c, at
<1>3. PieceAt(c, at) = "tag" /\ PieceAt(c, at + 1) = "scalar"
  <2>1. at < Len(c) /\ at + 1 < Len(c) /\ at + 1 + 1 = at + 2
    BY <1>2
  <2> QED
    BY <1>2, <2>1, TagFields, ScalarFields DEF PieceAt
<1>4. c[at + 1].number = f.number /\ c[at + 1].wire = WireType(f.type) /\ c[at + 2].v = v
  BY <1>2, TagFields, ScalarFields
<1>5. CaseAt(c, at, f) = "scalar"
  BY <1>4, FieldOf, CaseIs
<1>6. FieldAt(c, {}, f, at, m, at + 2, Put(m, f, <<v>>))
  BY <1>3, <1>4, <1>5 DEF FieldAt, ScalarAt
<1>7. at + 2 \in Nat /\ at + 2 <= at + 2 /\ at + 2 <= Len(c)
  BY <1>2
<1>8. Goes(c, {}, class, at, m, at + 2, Put(m, f, <<v>>))
  BY <1>3, <1>4, <1>6, <1>7, FieldOf DEF Goes
<1> QED
  BY <1>8 DEF c, at, ps

LEMMA GoesElements ==
  ASSUME NEW b, IsSeq(b), NEW class \in Classes, NEW f \in Fields[class],
         f.label = "packed", NEW m, NEW k \in Nat, NEW es, IsSeq(es), Len(es) = k,
         NEW vs, vs = [i \in 1..k |-> vs[i]], \A i \in 1..k : es[i] = Scalar(vs[i])
  PROVE  Goes(b \o (<<Tag(f.number, 2), Length(k)>> \o es), {}, class,
              Len(b), m, Len(b) + (2 + k), Put(m, f, vs))
<1> DEFINE hs == <<Tag(f.number, 2), Length(k)>>
           ps == hs \o es
           c == b \o ps
           at == Len(b)
           at2 == at + (2 + k)
<1>1. IsSeq(hs) /\ Len(hs) = 2 /\ hs[1] = Tag(f.number, 2) /\ hs[2] = Length(k)
  BY PairAt
<1> HIDE DEF hs
<1>2. /\ IsSeq(ps) /\ Len(ps) = 2 + k /\ ps[1] = Tag(f.number, 2) /\ ps[2] = Length(k)
      /\ \A i \in 1..k : ps[2 + i] = es[i]
  <2>1. /\ IsSeq(ps) /\ Len(ps) = Len(hs) + Len(es)
        /\ \A i \in 1..Len(hs) : ps[i] = hs[i]
        /\ \A i \in 1..Len(es) : ps[Len(hs) + i] = es[i]
    <3>1. IsSeq(hs)
      BY <1>1
    <3> QED
      BY <3>1, ConcatAt
  <2>2. 1 \in 1..Len(hs) /\ 2 \in 1..Len(hs)
    BY <1>1
  <2> HIDE DEF ps
  <2> QED
    BY <1>1, <2>1, <2>2
<1> HIDE DEF ps
<1>3. at \in Nat /\ Len(c) = at2 /\ \A i \in 1 .. 2 + k : c[at + i] = ps[i]
  <2>1. Len(c) = Len(b) + Len(ps) /\ \A i \in 1..Len(ps) : c[Len(b) + i] = ps[i]
    BY <1>2, ConcatAt
  <2>2. at \in Nat
    BY SeqBasics
  <2> HIDE DEF c
  <2> QED
    BY <1>2, <2>1, <2>2
<1> HIDE DEF c, at
<1>4. c[at + 1] = Tag(f.number, 2) /\ c[at + 2] = Length(k)
  <2>1. 1 \in 1 .. 2 + k /\ 2 \in 1 .. 2 + k
    OBVIOUS
  <2> QED
    BY <1>2, <1>3, <2>1
<1>5. PieceAt(c, at) = "tag" /\ PieceAt(c, at + 1) = "length"
  <2>1. at < Len(c) /\ at + 1 < Len(c) /\ at + 1 + 1 = at + 2
    BY <1>3
  <2> QED
    BY <1>4, <2>1, TagFields, LengthFields DEF PieceAt
<1>6. c[at + 1].number = f.number /\ c[at + 1].wire = 2 /\ c[at + 2].n = k
  BY <1>4, TagFields, LengthFields
<1>7. CaseAt(c, at, f) = "elements"
  BY <1>6, FieldOf, CaseIs
<1>8. Elements(c, at + 2, at2) = vs
  <2>1. at2 - (at + 2) = k
    BY <1>3
  <2>2. ASSUME NEW i \in 1..k
        PROVE  c[at + 2 + i].v = vs[i]
    <3>1. 2 + i \in 1 .. 2 + k /\ at + 2 + i = at + (2 + i)
      BY <1>3
    <3>2. c[at + 2 + i] = Scalar(vs[i])
      BY <1>2, <1>3, <3>1
    <3> QED
      BY <3>2, ScalarFields
  <2>3. Elements(c, at + 2, at2) = [i \in 1..k |-> c[at + 2 + i].v]
    BY <2>1 DEF Elements
  <2>4. [i \in 1..k |-> c[at + 2 + i].v] = [i \in 1..k |-> vs[i]]
    BY <2>2
  <2> QED
    BY <2>3, <2>4
<1>9. at2 \in Nat /\ at + 2 <= at2 /\ at2 <= Len(c) /\ at2 = at + 2 + k
  BY <1>3
<1> HIDE DEF at2
<1>10. FieldAt(c, {}, f, at, m, at2, Put(m, f, vs))
  BY <1>5, <1>6, <1>7, <1>8, <1>9 DEF FieldAt, ElementsAt
<1>11. Goes(c, {}, class, at, m, at2, Put(m, f, vs))
  BY <1>5, <1>6, <1>9, <1>10, FieldOf DEF Goes
<1> QED
  BY <1>11 DEF c, at, at2, ps, hs

LEMMA GoesUnknown ==
  ASSUME NEW b, IsSeq(b), NEW class \in Classes, NEW m,
         NEW ps \in {<<Tag(Unknown, 0), Scalar(0)>>,
                     <<Tag(Unknown, 2), Length(2), Tag(1, 0), Scalar(0)>>}
  PROVE  IsSeq(ps) /\ Goes(b \o ps, {}, class, Len(b), m, Len(b) + Len(ps), m)
<1> DEFINE c == b \o ps
           at == Len(b)
           at2 == at + Len(ps)
<1>1. /\ IsSeq(ps) /\ Len(ps) \in {2, 4}
      /\ ps[1].piece = "tag" /\ ps[1].number = Unknown
      /\ \/ Len(ps) = 2 /\ ps[2].piece = "scalar"
         \/ Len(ps) = 4 /\ ps[2].piece = "length" /\ ps[2].n = 2
  <2>1. CASE ps = <<Tag(Unknown, 0), Scalar(0)>>
    BY <2>1, PairAt, TagFields, ScalarFields
  <2>2. CASE ps = <<Tag(Unknown, 2), Length(2), Tag(1, 0), Scalar(0)>>
    <3>1. ps[1] = Tag(Unknown, 2) /\ ps[2] = Length(2) /\ Len(ps) = 4
      BY <2>2
    <3> QED
      BY <2>2, <3>1, FourAreSeq, TagFields, LengthFields
  <2> QED
    BY <2>1, <2>2
<1>2. at \in Nat /\ Len(c) = at2 /\ c[at + 1] = ps[1] /\ c[at + 2] = ps[2]
  <2>1. Len(c) = at + Len(ps) /\ \A i \in 1..Len(ps) : c[at + i] = ps[i]
    BY <1>1, ConcatAt
  <2>2. 1 \in 1..Len(ps) /\ 2 \in 1..Len(ps)
    BY <1>1
  <2>3. at \in Nat
    BY SeqBasics
  <2> QED
    BY <2>1, <2>2, <2>3
<1>3. at2 \in Nat /\ at + 2 <= at2 /\ at2 <= Len(c)
  BY <1>1, <1>2
<1> HIDE DEF c, at
<1>4. PieceAt(c, at) = "tag" /\ PieceAt(c, at + 1) = ps[2].piece
  <2>1. at < Len(c) /\ at + 1 < Len(c) /\ at + 1 + 1 = at + 2
    BY <1>1, <1>2
  <2> QED
    BY <1>1, <1>2, <2>1 DEF PieceAt
<1>5. UnknownAt(c, at, m, at2, m)
  <2>1. CASE Len(ps) = 2
    BY <1>1, <1>2, <1>4, <2>1 DEF UnknownAt
  <2>2. CASE Len(ps) = 4
    <3>1. at2 = at + 2 + 2
      BY <1>2, <2>2
    <3> QED
      BY <1>1, <1>2, <1>4, <2>2, <3>1 DEF UnknownAt
  <2> QED
    BY <1>1, <2>1, <2>2
<1>6. \A f \in Fields[class] : f.number # c[at + 1].number
  BY <1>1, <1>2, FieldOf
<1>7. Goes(c, {}, class, at, m, at2, m)
  BY <1>3, <1>4, <1>5, <1>6 DEF Goes
<1> QED
  BY <1>1, <1>7 DEF c, at, at2

-----------------------------------------------------------------------------
(* The steps of the writer.                                                *)

LEMMA TopOf ==
  ASSUME Open(writing, buf)
  PROVE  /\ top = writing[Len(writing)] /\ IsLevel(top) /\ top.class \in Classes
         /\ IsSeq(writing) /\ IsSeq(buf)
         /\ Len(writing) \in Nat \ {0} /\ Len(buf) \in Nat
<1>1. Len(writing) \in Nat \ {0} /\ Len(buf) \in Nat
  BY OpenBounds
<1>2. Len(writing) \in 1..Len(writing)
  BY <1>1
<1>3. writing[Len(writing)].class \in Classes
  BY <1>2, OpenBounds
<1> QED
  BY <1>1, <1>2, <1>3 DEF Open, Last, top

LEMMA LevelExcept ==
  ASSUME NEW l, IsLevel(l), NEW m, NEW number
  PROVE  LET k == [l EXCEPT !.message = m, !.last = number]
         IN SameLevel(k, l) /\ k.message = m
<1> DEFINE k == [l EXCEPT !.message = m, !.last = number]
<1>1. k = [x \in DOMAIN l |->
             IF x = "last" THEN number ELSE IF x = "message" THEN m ELSE l[x]]
  OBVIOUS
<1>2. k = [class |-> l.class, message |-> m, for |-> l.for, key |-> l.key,
           at |-> l.at, last |-> number]
  <2>1. DOMAIN l = {"class", "message", "for", "key", "at", "last"}
    BY DEF IsLevel
  <2> HIDE DEF k
  <2> QED
    BY <1>1, <2>1
<1> HIDE DEF k
<1>3. /\ k.class = l.class /\ k.message = m /\ k.for = l.for /\ k.key = l.key
      /\ k.at = l.at /\ k.last = number
  BY <1>2
<1>4. SameLevel(k, l)
  BY <1>2, <1>3 DEF SameLevel, IsLevel
<1> QED
  BY <1>3, <1>4 DEF k

LEMMA LevelMarked ==
  ASSUME NEW l, IsLevel(l), NEW number
  PROVE  LET k == [l EXCEPT !.last = number]
         IN SameLevel(k, l) /\ k.message = l.message
<1> DEFINE k == [l EXCEPT !.last = number]
<1>1. k = [class |-> l.class, message |-> l.message, for |-> l.for, key |-> l.key,
           at |-> l.at, last |-> number]
  BY DEF IsLevel
<1> HIDE DEF k
<1>2. SameLevel(k, l) /\ k.message = l.message
  BY <1>1 DEF SameLevel, IsLevel
<1> QED
  BY <1>2 DEF k

(* All the writer promises a step to leave. *)
StaysOpen ==
  /\ phase' = "write"
  /\ Open(writing', buf')
  /\ writing'[1].class = writing[1].class

(* The outermost message stays of its class. *)
LEMMA FirstClass ==
  ASSUME NEW W, IsSeq(W), Len(W) > 0, NEW l, l.class = W[Len(W)].class
  PROVE  ReplaceAt(W, Len(W), l)[1].class = W[1].class
<1>1. Len(W) \in Nat /\ 1 \in 1..Len(W)
  BY SeqBasics
<1> DEFINE U == ReplaceAt(W, Len(W), l)
<1>2. \A j \in 1..Len(W) : U[j] = IF j = Len(W) THEN l ELSE W[j]
  BY ReplaceIs
<1> HIDE DEF U
<1>3. U[1].class = W[1].class
  BY <1>1, <1>2
<1> QED
  BY <1>3 DEF U

(* A field without messages in it was written. *)
LEMMA FieldStaysOpen ==
  ASSUME Open(writing, buf), phase' = "write", NEW ps, IsSeq(ps), buf' = buf \o ps,
         NEW l, SameLevel(l, top), writing' = ReplaceAt(writing, Len(writing), l),
         Goes(buf \o ps, {}, top.class, Len(buf), top.message, Len(buf) + Len(ps), l.message)
  PROVE  StaysOpen
<1>1. top = writing[Len(writing)] /\ IsSeq(writing) /\ Len(writing) > 0
  BY TopOf
<1>2. l.class = top.class
  BY DEF SameLevel
<1>3. Open(ReplaceAt(writing, Len(writing), l), buf \o ps)
  BY <1>1, <1>2, OpenOneMore
<1>4. ReplaceAt(writing, Len(writing), l)[1].class = writing[1].class
  BY <1>1, <1>2, FirstClass
<1> QED
  BY <1>3, <1>4 DEF StaysOpen

LEMMA ScalarStaysOpen ==
  ASSUME Open(writing, buf), NEW f \in Fields[top.class], WriteScalar(f)
  PROVE  StaysOpen
<1> DEFINE ps == <<Tag(f.number, WireType(f.type)), Scalar(left)>>
           m == Put(top.message, f, <<left>>)
           l == [top EXCEPT !.message = m, !.last = f.number]
<1>1. /\ phase' = "write" /\ ~ IsEmbedded(f) /\ buf' = buf \o ps
      /\ writing' = ReplaceAt(writing, Len(writing), l)
  BY DEF WriteScalar, Written
<1>2. /\ top.class \in Classes /\ IsSeq(buf) /\ IsLevel(top)
  BY TopOf
<1>3. IsSeq(ps) /\ Len(ps) = 2
  BY PairAt
<1>4. Goes(buf \o ps, {}, top.class, Len(buf), top.message, Len(buf) + 2, m)
  BY <1>1, <1>2, GoesScalar
<1>5. SameLevel(l, top) /\ l.message = m
  BY <1>2, LevelExcept
<1> HIDE DEF ps, m, l
<1> QED
  BY <1>1, <1>3, <1>4, <1>5, FieldStaysOpen

LEMMA PackedStaysOpen ==
  ASSUME Open(writing, buf), NEW f \in Fields[top.class], WritePacked(f)
  PROVE  StaysOpen
<1>1. PICK k \in (IF author = "compiled" THEN 1 ELSE 0) .. 2 :
        LET elements == [i \in 1..k |-> left + 1 - i] IN
        /\ buf' = buf \o <<Tag(f.number, 2), Length(k)>>
                      \o [i \in 1..k |-> Scalar(elements[i])]
        /\ Written(f, elements)
  BY DEF WritePacked
<1> DEFINE hs == <<Tag(f.number, 2), Length(k)>>
           vs == [i \in 1..k |-> left + 1 - i]
           es == [i \in 1..k |-> Scalar(vs[i])]
           m == Put(top.message, f, vs)
           l == [top EXCEPT !.message = m, !.last = f.number]
<1>2. /\ phase' = "write" /\ f.label = "packed" /\ buf' = (buf \o hs) \o es
      /\ writing' = ReplaceAt(writing, Len(writing), l)
  BY <1>1 DEF WritePacked, Written
<1>3. top.class \in Classes /\ IsSeq(buf) /\ IsLevel(top) /\ k \in Nat
  BY TopOf
<1>4. IsSeq(hs) /\ Len(hs) = 2
  BY PairAt
<1>5. IsSeq(es) /\ Len(es) = k /\ \A i \in 1..k : es[i] = Scalar(vs[i])
  BY <1>3, FunctionIsSeq
<1>6. vs = [i \in 1..k |-> vs[i]]
  OBVIOUS
<1> HIDE DEF hs, es, vs, m, l
<1>7. buf' = buf \o (hs \o es) /\ IsSeq(hs \o es) /\ Len(hs \o es) = 2 + k
  <2>1. (buf \o hs) \o es = buf \o (hs \o es)
    <3>1. IsSeq(buf) /\ IsSeq(hs) /\ IsSeq(es)
      BY <1>3, <1>4, <1>5
    <3> QED
      BY <3>1, ConcatThree
  <2>2. IsSeq(hs) /\ IsSeq(es)
    BY <1>4, <1>5
  <2>3. IsSeq(hs \o es) /\ Len(hs \o es) = Len(hs) + Len(es)
    BY <2>2, ConcatAt
  <2> QED
    BY <1>2, <1>4, <1>5, <2>1, <2>3
<1>8. Goes(buf \o (hs \o es), {}, top.class, Len(buf), top.message, Len(buf) + (2 + k), m)
  BY <1>2, <1>3, <1>5, <1>6, GoesElements DEF hs, m
<1>9. SameLevel(l, top) /\ l.message = m
  BY <1>3, LevelExcept DEF l
<1> QED
  BY <1>2, <1>7, <1>8, <1>9, FieldStaysOpen

LEMMA UnknownStaysOpen ==
  ASSUME Open(writing, buf), WriteUnknown
  PROVE  StaysOpen
<1>1. PICK ps \in {<<Tag(Unknown, 0), Scalar(0)>>,
                   <<Tag(Unknown, 2), Length(2), Tag(1, 0), Scalar(0)>>} :
        buf' = buf \o ps
  BY DEF WriteUnknown
<1>2. /\ top.class \in Classes /\ IsSeq(buf) /\ IsLevel(top) /\ IsSeq(writing)
      /\ top = writing[Len(writing)] /\ Len(writing) \in Nat \ {0}
  BY TopOf
<1>3. /\ IsSeq(ps)
      /\ Goes(buf \o ps, {}, top.class, Len(buf), top.message, Len(buf) + Len(ps), top.message)
  BY <1>2, GoesUnknown
<1>4. phase' = "write" /\ writing' = writing
  BY DEF WriteUnknown
<1>5. writing = ReplaceAt(writing, Len(writing), top)
  <2>1. Len(writing) \in DOMAIN writing /\ writing = [i \in DOMAIN writing |-> writing[i]]
    BY <1>2, SeqBasics DEF IsSeq
  <2> QED
    BY <1>2, <2>1 DEF ReplaceAt
<1>6. SameLevel(top, top)
  BY <1>2 DEF SameLevel
<1> QED
  BY <1>1, <1>3, <1>4, <1>5, <1>6, FieldStaysOpen

LEMMA ForkStaysOpen ==
  ASSUME Open(writing, buf), NEW f \in Fields[top.class], Fork(f)
  PROVE  StaysOpen
<1>1. PICK key \in (IF f.label = "map" THEN Keys ELSE {NoKey}) :
        /\ buf' = buf \o <<Tag(f.number, 2), Length(0)>>
                      \o (IF f.label = "map"
                            THEN <<Tag(1, 2), Scalar(key), Tag(2, 2), Length(0)>>
                            ELSE <<>>)
        /\ writing' = Append([writing EXCEPT ![Len(writing)].last = f.number],
             [Begin(f.type) EXCEPT !.for = f, !.key = key, !.at = Len(buf')])
  BY DEF Fork
<1> DEFINE hs == <<Tag(f.number, 2), Length(0)>>
           ts == IF f.label = "map"
                   THEN <<Tag(1, 2), Scalar(key), Tag(2, 2), Length(0)>>
                   ELSE <<>>
           ps == hs \o ts
           l == [top EXCEPT !.last = f.number]
           e == [Begin(f.type) EXCEPT !.for = f, !.key = key, !.at = Len(buf')]
<1>2. phase' = "write" /\ IsEmbedded(f)
  BY DEF Fork
<1>3. /\ top.class \in Classes /\ IsSeq(buf) /\ IsLevel(top) /\ IsSeq(writing)
      /\ top = writing[Len(writing)] /\ Len(writing) \in Nat \ {0}
  BY TopOf
<1>4. IsSeq(hs) /\ Len(hs) = 2 /\ hs[1] = Tag(f.number, 2) /\ hs[2] = Length(0)
  BY PairAt
<1>5. /\ IsSeq(ts)
      /\ f.label = "map" => Len(ts) = 4 /\ ts[2] = Scalar(key) /\ ts[4] = Length(0)
      /\ f.label # "map" => Len(ts) = 0
  BY FourAreSeq, EmptyIsSeq
<1>6. e = [class |-> f.type, message |-> New(f.type), for |-> f, key |-> key,
           at |-> Len(buf'), last |-> 0]
  <2> DEFINE g == Begin(f.type)
  <2>1. e = [x \in DOMAIN g |-> IF x = "at" THEN Len(buf') ELSE
               IF x = "key" THEN key ELSE IF x = "for" THEN f ELSE g[x]]
    OBVIOUS
  <2>2. /\ DOMAIN g = {"class", "message", "for", "key", "at", "last"}
        /\ g.class = f.type /\ g.message = New(f.type) /\ g.last = 0
    BY DEF Begin
  <2> HIDE DEF g, e
  <2> QED
    BY <2>1, <2>2
<1>7. SameLevel(l, top) /\ l.message = top.message
  <2>1. IsLevel(top)
    BY <1>3
  <2> QED
    BY <2>1, LevelMarked
<1>8. writing' = Append(ReplaceAt(writing, Len(writing), l), e)
  <2>1. [writing EXCEPT ![Len(writing)].last = f.number]
          = ReplaceAt(writing, Len(writing), l)
    BY <1>3 DEF ReplaceAt
  <2> QED
    BY <1>1, <2>1
<1>9. buf' = buf \o ps
  <2>1. buf' = (buf \o hs) \o ts /\ ps = hs \o ts
    BY <1>1
  <2>2. IsSeq(buf) /\ IsSeq(hs) /\ IsSeq(ts)
    BY <1>3, <1>4, <1>5
  <2> HIDE DEF hs, ts, ps
  <2>3. (buf \o hs) \o ts = buf \o (hs \o ts)
    BY <2>2, ConcatThree
  <2> QED
    BY <2>1, <2>3
<1> HIDE DEF hs, ts, ps, l, e
<1>10. /\ IsSeq(ps) /\ Len(ps) = Len(hs) + Len(ts)
       /\ \A i \in 1..Len(hs) : ps[i] = hs[i]
       /\ \A i \in 1..Len(ts) : ps[Len(hs) + i] = ts[i]
  <2>1. IsSeq(hs) /\ IsSeq(ts)
    BY <1>4, <1>5
  <2> QED
    BY <2>1, ConcatAt DEF ps
<1>11. ps[1] = Tag(f.number, 2) /\ ps[2] = Length(0)
  <2>1. 1 \in 1..Len(hs) /\ 2 \in 1..Len(hs)
    BY <1>4
  <2> QED
    BY <1>4, <1>10, <2>1
<1>12. /\ e.class = f.type /\ e.message = New(f.type) /\ e.for = f /\ e.key = key
       /\ e.at = Len(buf') /\ IsLevel(e)
  BY <1>6 DEF IsLevel
<1>13. HeaderOf(ps, top.class, e)
  <2>1. CASE f.label = "map"
    <3>1. Len(ts) = 4 /\ ts[2] = Scalar(key) /\ ts[4] = Length(0) /\ Len(hs) = 2
      BY <1>4, <1>5, <2>1
    <3>2. Len(ps) = 6 /\ 2 \in 1..Len(ts) /\ 4 \in 1..Len(ts)
      BY <1>10, <3>1
    <3>3. ps[4] = Scalar(key) /\ ps[6] = Length(0)
      BY <1>10, <3>1, <3>2
    <3> QED
      BY <1>2, <1>11, <1>12, <2>1, <3>2, <3>3 DEF HeaderOf, HeaderLength
  <2>2. CASE f.label # "map"
    <3>1. Len(ps) = 2
      BY <1>4, <1>5, <1>10, <2>2
    <3>2. key = NoKey
      BY <2>2
    <3> QED
      BY <1>2, <1>11, <1>12, <2>2, <3>1, <3>2 DEF HeaderOf, HeaderLength
  <2> QED
    BY <2>1, <2>2
<1>14. Len(buf') = Len(buf) + Len(ps)
  BY <1>3, <1>9, <1>10, ConcatAt
<1>15. l.class = top.class
  BY <1>7 DEF SameLevel
<1>16. Open(writing', buf')
  <2>1. Open(Append(ReplaceAt(writing, Len(writing), l), e), buf \o ps)
    BY <1>3, <1>7, <1>10, <1>12, <1>13, <1>14, <1>15, OpenNested
  <2> QED
    BY <1>8, <1>9, <2>1
<1>17. writing'[1].class = writing[1].class
  <2> DEFINE U == ReplaceAt(writing, Len(writing), l)
  <2>1. IsSeq(U) /\ Len(U) = Len(writing)
    BY <1>3, ReplaceIs
  <2>2. U[1].class = writing[1].class
    BY <1>3, <1>15, FirstClass
  <2> HIDE DEF U
  <2>3. 1 \in 1..Len(U)
    BY <1>3, <2>1
  <2>4. Append(U, e)[1] = U[1]
    BY <2>1, <2>3, AppendAt
  <2> QED
    BY <1>8, <2>2, <2>4 DEF U
<1> QED
  BY <1>2, <1>16, <1>17 DEF StaysOpen

LEMMA LdelimStaysOpen ==
  ASSUME Open(writing, buf), Ldelim
  PROVE  StaysOpen
<1> DEFINE n == Len(writing)
           e == top
           at == top.at
           length == Len(buf) - at
           outer == Front(writing)
           o == Last(outer)
           m == Store(o.message, e.for, e.key, e.message)
           l == [o EXCEPT !.message = m]
           inner == [buf EXCEPT ![at].n = length]
           c == IF e.for.label = "map" THEN [inner EXCEPT ![at - 4].n = length + 4]
                                       ELSE inner
<1>1. /\ phase' = "write" /\ n > 1 /\ buf' = c
      /\ writing' = [outer EXCEPT ![Len(outer)].message =
                       Store(@, e.for, e.key, e.message)]
  BY DEF Ldelim
<1>2. /\ IsSeq(buf) /\ IsLevel(top) /\ IsSeq(writing)
      /\ e = writing[n] /\ n \in Nat \ {0, 1} /\ Len(buf) \in Nat
  BY <1>1, TopOf
<1>3. /\ IsSeq(outer) /\ Len(outer) = n - 1 /\ \A i \in 1 .. n - 1 : outer[i] = writing[i]
  BY <1>2, FrontAt
<1>4. o = writing[n - 1] /\ n - 1 \in 1 .. n - 1 /\ n - 1 \in 1..n /\ 1 \in 1 .. n - 1
  <2>1. o = outer[n - 1]
    BY <1>3 DEF Last
  <2>2. n - 1 \in 1 .. n - 1 /\ n - 1 \in 1..n /\ 1 \in 1 .. n - 1
    BY <1>2
  <2> QED
    BY <1>3, <2>1, <2>2
<1>5. writing' = ReplaceAt(outer, Len(outer), l)
  BY <1>1 DEF ReplaceAt, Last
<1>6. SameLevel(l, o) /\ l.message = m
  <2>1. IsLevel(o)
    BY <1>4 DEF Open
  <2> HIDE DEF m, o
  <2>2. l = [class |-> o.class, message |-> m, for |-> o.for, key |-> o.key,
             at |-> o.at, last |-> o.last]
    BY <2>1 DEF IsLevel
  <2> HIDE DEF l
  <2> QED
    BY <2>2 DEF SameLevel, IsLevel
(* The place of the length, and that of the length of the entry. *)
<1>7. /\ at \in 1..Len(buf) /\ buf[at] = Length(0)
      /\ e.for.label = "map" => at - 4 \in 1..Len(buf) /\ buf[at - 4] = Length(0)
  <2>1. n - 1 \in 1 .. Len(writing) - 1 /\ n - 1 + 1 = n
    <3>1. n \in Nat
      BY <1>2
    <3> QED
      BY <1>4, <3>1
  <2>2. HeaderAt(buf, writing[n - 1].class, e)
    BY <1>2, <2>1 DEF Open
  <2>3. e.at <= Len(buf)
    BY <1>2, <2>1, HeaderBounds
  <2> DEFINE h == at - HeaderLength(e.for)
  <2>4. h \in Nat /\ at \in Nat /\ buf[at] = Length(0)
    BY <2>2 DEF HeaderAt
  <2>5. e.for.label = "map" => buf[h + 2] = Length(0) /\ HeaderLength(e.for) = 6
    BY <2>2 DEF HeaderAt, HeaderLength
  <2>6. HeaderLength(e.for) \in {2, 6}
    BY DEF HeaderLength
  <2> DEFINE k == HeaderLength(e.for)
             end == Len(buf)
  <2>7. at <= end /\ end \in Nat /\ k \in {2, 6} /\ at - k \in Nat /\ at \in Nat
        /\ (e.for.label = "map" => k = 6)
    BY <1>2, <2>3, <2>4, <2>5, <2>6
  <2> HIDE DEF k, end, at
  <2>8. at \in 1..end /\ at - 6 + 2 = at - 4 /\ (k = 6 => at - 4 \in 1..end)
    BY <2>7
  <2> QED
    BY <2>4, <2>5, <2>8 DEF k, end
<1>8. [Length(0) EXCEPT !.n = length] = Length(length)
  BY DEF Length
<1>9. Filled(buf, c, e)
  <2>1. DOMAIN buf = 1..Len(buf)
    BY <1>2, SeqBasics
  <2> HIDE DEF length
  <2>2. /\ inner = ReplaceAt(buf, at, Length(length))
    BY <1>7, <1>8 DEF ReplaceAt
  <2>3. /\ IsSeq(inner) /\ Len(inner) = Len(buf)
        /\ \A j \in 1..Len(buf) : inner[j] = IF j = at THEN Length(length) ELSE buf[j]
    BY <1>2, <2>2, ReplaceIs
  <2> DEFINE x == [inner[at - 4] EXCEPT !.n = length + 4]
  <2>4. c = IF e.for.label = "map" THEN ReplaceAt(inner, at - 4, x) ELSE inner
    BY DEF ReplaceAt
  <2> HIDE DEF inner, x, c
  <2>5. /\ IsSeq(c) /\ Len(c) = Len(buf)
        /\ \A j \in 1..Len(buf) :
             (e.for.label = "map" => j # at - 4) => c[j] = inner[j]
    <3>1. CASE e.for.label = "map"
      BY <2>3, <2>4, <3>1, ReplaceIs
    <3>2. CASE e.for.label # "map"
      BY <2>3, <2>4, <3>2
    <3> QED
      BY <3>1, <3>2
  <2>6. at # at - 4
    BY <1>7
  <2>7. c[at] = Length(length)
    BY <1>7, <2>3, <2>5, <2>6
  <2>8. \A j \in 1..Len(buf) :
          j # at /\ (e.for.label = "map" => j # at - 4) => c[j] = buf[j]
    BY <2>3, <2>5
  <2> QED
    BY <2>5, <2>7, <2>8 DEF Filled, length
<1>10. l.class = outer[Len(outer)].class
  BY <1>3, <1>4, <1>6 DEF SameLevel
<1> HIDE DEF c, l, o, m, outer, at, length, inner
<1>11. Open(writing', buf')
  <2>1. Open(ReplaceAt(outer, Len(outer), l), c)
    BY <1>2, <1>4, <1>6, <1>9, OpenClosed DEF outer, m
  <2> QED
    BY <1>1, <1>5, <2>1
<1>12. writing'[1].class = writing[1].class
  <2>1. Len(outer) > 0
    BY <1>2, <1>3
  <2>2. ReplaceAt(outer, Len(outer), l)[1].class = outer[1].class
    BY <1>3, <1>10, <2>1, FirstClass
  <2> QED
    BY <1>3, <1>4, <1>5, <2>2
<1> QED
  BY <1>1, <1>11, <1>12 DEF StaysOpen

(* The writer has pieces that are the message, once it is finished. *)
LEMMA WriteKeepsOpen ==
  ASSUME Open(writing, buf), Write
  PROVE  \/ StaysOpen
         \/ /\ phase' = "written" /\ buf' = buf
            /\ Holds(buf', writing[1].class, 0, Len(buf'), written')
<1>1. CASE \E f \in Fields[top.class] : WriteScalar(f) \/ WritePacked(f) \/ Fork(f)
  BY <1>1, ScalarStaysOpen, PackedStaysOpen, ForkStaysOpen
<1>2. CASE WriteUnknown
  BY <1>2, UnknownStaysOpen
<1>3. CASE Ldelim
  BY <1>3, LdelimStaysOpen
<1>4. CASE FinishWriting
  <2>1. /\ phase' = "written" /\ buf' = buf /\ written' = top.message
        /\ Len(writing) = 1
    BY <1>4 DEF FinishWriting
  <2>2. top = writing[1]
    BY <2>1, TopOf
  <2>3. Holds(buf, writing[1].class, writing[1].at, Frontier(writing, buf, 1), writing[1].message)
        /\ writing[1].at = 0
    BY <2>1 DEF Open
  <2>4. Frontier(writing, buf, 1) = Len(buf)
    BY <2>1 DEF Frontier
  <2> QED
    BY <2>1, <2>2, <2>3, <2>4
<1> QED
  BY <1>1, <1>2, <1>3, <1>4 DEF Write

(* A message that is begun. *)
LEMMA OpenAtFirst ==
  ASSUME NEW class \in Classes
  PROVE  Open(<<Begin(class)>>, <<>>) /\ <<Begin(class)>>[1].class = class
<1> DEFINE l == Begin(class)
           W == <<l>>
<1>1. /\ IsSeq(W) /\ Len(W) = 1 /\ W[1] = l /\ IsSeq(<<>>) /\ Len(<<>>) = 0
  <2>1. W \in Seq({l})
    OBVIOUS
  <2> QED
    BY <2>1, EmptyIsSeq DEF IsSeq
<1>2. IsLevel(l) /\ l.class = class /\ l.at = 0 /\ l.message = New(class)
  BY DEF Begin, IsLevel
<1> HIDE DEF W, l
<1>3. Holds(<<>>, class, 0, 0, New(class))
  BY <1>1, HoldsNothing
<1>4. \A i \in 1..Len(W) :
        IsLevel(W[i]) /\ Holds(<<>>, W[i].class, W[i].at, Frontier(W, <<>>, i), W[i].message)
  BY <1>1, <1>2, <1>3 DEF Frontier
<1>5. Open(W, <<>>)
  BY <1>1, <1>2, <1>4 DEF Open
<1> QED
  BY <1>1, <1>2, <1>5 DEF W, l

-----------------------------------------------------------------------------
(* The calls cs of `decode` at position p of b.  There are points P and a   *)
(* total for every call, v for the outermost: each call is at a point, the *)
(* callers at the one behind the message they wait for.                    *)

IsCall(c) ==
  c = [class |-> c.class, end |-> c.end, message |-> c.message, for |-> c.for,
       key |-> c.key]

Walk(b, cs, p, v, P, ts) ==
  /\ Parsed(b, P)
  /\ ts[1] = v
  /\ \A i \in 1 .. Len(cs) - 1 :
       Point(cs[i + 1].end, cs[i].class, cs[i].end,
             Store(cs[i].message, cs[i + 1].for, cs[i + 1].key, ts[i + 1]), ts[i]) \in P
  /\ Point(p, cs[Len(cs)].class, cs[Len(cs)].end, cs[Len(cs)].message, ts[Len(cs)]) \in P

Calls(cs) == IsSeq(cs) /\ Len(cs) > 0 /\ \A i \in 1..Len(cs) : IsCall(cs[i])

Decoding(b, cs, p, v) ==
  /\ IsSeq(b) /\ Calls(cs)
  /\ \E P, ts : Walk(b, cs, p, v, P, ts)

LEMMA PointBounds ==
  ASSUME NEW b, NEW P, Parsed(b, P), NEW at, NEW class, NEW end, NEW m, NEW t,
         Point(at, class, end, m, t) \in P
  PROVE  /\ at \in Nat /\ end \in Nat /\ at <= end /\ end <= Len(b)
         /\ class \in Classes
         /\ at = end => m = t
         /\ at # end => \E at2, m2 : /\ Goes(b, P, class, at, m, at2, m2)
                                     /\ Point(at2, class, end, m2, t) \in P
<1> DEFINE x == Point(at, class, end, m, t)
<1>1. /\ x.at = at /\ x.class = class /\ x.end = end
      /\ x.message = m /\ x.total = t
  BY PointFields
<1>2. InPlace(b, x) /\ Leads(b, P, x)
  BY DEF Parsed
<1> HIDE DEF x
<1>3. at \in Nat /\ end \in Nat /\ at <= end /\ end <= Len(b) /\ class \in Classes
  BY <1>1, <1>2 DEF InPlace
<1>4. at = end => m = t
  BY <1>1, <1>2 DEF Leads
<1>5. at # end => \E at2, m2 : /\ Goes(b, P, class, at, m, at2, m2)
                               /\ Point(at2, class, end, m2, t) \in P
  BY <1>1, <1>2 DEF Leads
<1> QED
  BY <1>3, <1>4, <1>5

(* The calls end within each other. *)
LEMMA DecodingBounds ==
  ASSUME NEW b, NEW cs, NEW p, NEW v, Decoding(b, cs, p, v)
  PROVE  /\ Len(cs) \in Nat \ {0} /\ Len(b) \in Nat
         /\ \A i \in 1..Len(cs) : cs[i].class \in Classes
         /\ \A i \in 2..Len(cs) : cs[i].end <= cs[i - 1].end
         /\ p \in Nat /\ p <= cs[Len(cs)].end
         /\ cs[Len(cs)].end \in Nat /\ cs[Len(cs)].end <= Len(b)
<1>1. PICK P, ts : Walk(b, cs, p, v, P, ts)
  BY DEF Decoding
<1> DEFINE n == Len(cs)
<1>2. n \in Nat \ {0} /\ Len(b) \in Nat
  BY SeqBasics DEF Decoding, Calls
<1>3. Parsed(b, P)
  BY <1>1 DEF Walk
<1>4. Point(p, cs[n].class, cs[n].end, cs[n].message, ts[n]) \in P
  BY <1>1 DEF Walk
<1>5. /\ p \in Nat /\ p <= cs[n].end /\ cs[n].end \in Nat /\ cs[n].end <= Len(b)
      /\ cs[n].class \in Classes
  BY <1>3, <1>4, PointBounds
<1>6. ASSUME NEW i \in 1 .. n - 1
      PROVE  cs[i].class \in Classes /\ cs[i + 1].end <= cs[i].end
  <2> DEFINE m == Store(cs[i].message, cs[i + 1].for, cs[i + 1].key, ts[i + 1])
  <2>1. Point(cs[i + 1].end, cs[i].class, cs[i].end, m, ts[i]) \in P
    BY <1>1 DEF Walk
  <2> HIDE DEF m
  <2> QED
    BY <1>3, <2>1, PointBounds
<1> HIDE DEF n
<1>7. \A i \in 1..n : cs[i].class \in Classes
  <2>1. TAKE i \in 1..n
  <2>2. i = n \/ i \in 1 .. n - 1
    BY <1>2
  <2> QED
    BY <1>5, <1>6, <2>2
<1>8. \A i \in 2..n : cs[i].end <= cs[i - 1].end
  <2>1. TAKE i \in 2..n
  <2>2. i - 1 \in 1 .. n - 1 /\ i - 1 + 1 = i
    BY <1>2
  <2> QED
    BY <1>6, <2>2
<1> QED
  BY <1>2, <1>5, <1>7, <1>8 DEF n

(* The same call, with other contents. *)
SameCall(l, c) ==
  /\ IsCall(l)
  /\ l.class = c.class /\ l.end = c.end /\ l.for = c.for /\ l.key = c.key

(* A field was read. *)
LEMMA WalkOn ==
  ASSUME NEW b, NEW cs, NEW p, NEW v, NEW P, NEW ts, IsSeq(b), Calls(cs),
         Walk(b, cs, p, v, P, ts), NEW l, SameCall(l, cs[Len(cs)]), NEW at2,
         Point(at2, l.class, l.end, l.message, ts[Len(cs)]) \in P
  PROVE  Decoding(b, ReplaceAt(cs, Len(cs), l), at2, v)
<1> DEFINE n == Len(cs)
           ds == ReplaceAt(cs, n, l)
<1>1. n \in Nat \ {0} /\ n \in 1..n
  BY SeqBasics DEF Calls
<1>2. IsSeq(ds) /\ Len(ds) = n /\ \A i \in 1..n : ds[i] = IF i = n THEN l ELSE cs[i]
  <2>1. IsSeq(cs)
    BY DEF Calls
  <2> QED
    BY <2>1, ReplaceIs
<1> HIDE DEF ds
<1>3. Calls(ds)
  BY <1>1, <1>2 DEF Calls, SameCall
<1>4. ASSUME NEW i \in 1 .. n - 1
      PROVE  Point(ds[i + 1].end, ds[i].class, ds[i].end,
                   Store(ds[i].message, ds[i + 1].for, ds[i + 1].key, ts[i + 1]), ts[i]) \in P
  <2>1. Point(cs[i + 1].end, cs[i].class, cs[i].end,
              Store(cs[i].message, cs[i + 1].for, cs[i + 1].key, ts[i + 1]), ts[i]) \in P
    BY DEF Walk
  <2>2. i \in 1..n /\ i + 1 \in 1..n /\ i # n
    BY <1>1
  <2>3. ds[i] = cs[i]
    BY <1>2, <2>2
  <2>4. ds[i + 1].end = cs[i + 1].end /\ ds[i + 1].for = cs[i + 1].for
        /\ ds[i + 1].key = cs[i + 1].key
    BY <1>2, <2>2 DEF SameCall
  <2> QED
    BY <2>1, <2>3, <2>4
<1>5. ds[n] = l
  BY <1>1, <1>2
<1>6. Parsed(b, P) /\ ts[1] = v
  BY DEF Walk
<1>7. Walk(b, ds, at2, v, P, ts)
  BY <1>2, <1>4, <1>5, <1>6 DEF Walk
<1>8. Decoding(b, ds, at2, v)
  BY <1>3, <1>7 DEF Decoding
<1> QED
  BY <1>8 DEF ds

(* A message begins: its decode is called. *)
LEMMA WalkDown ==
  ASSUME NEW b, NEW cs, NEW p, NEW v, NEW P, NEW ts, IsSeq(b), Calls(cs),
         Walk(b, cs, p, v, P, ts), NEW c, IsCall(c), NEW at, NEW w,
         Point(at, c.class, c.end, c.message, w) \in P,
         Point(c.end, cs[Len(cs)].class, cs[Len(cs)].end,
               Store(cs[Len(cs)].message, c.for, c.key, w), ts[Len(cs)]) \in P
  PROVE  Decoding(b, Append(cs, c), at, v)
<1> DEFINE n == Len(cs)
           ds == Append(cs, c)
           us == [i \in 1 .. n + 1 |-> IF i = n + 1 THEN w ELSE ts[i]]
<1>1. n \in Nat \ {0} /\ n \in 1..n
  BY SeqBasics DEF Calls
<1>2. IsSeq(ds) /\ Len(ds) = n + 1 /\ ds[n + 1] = c /\ \A i \in 1..n : ds[i] = cs[i]
  <2>1. IsSeq(cs)
    BY DEF Calls
  <2> QED
    BY <2>1, AppendAt
<1>3. us[n + 1] = w /\ \A i \in 1..n : us[i] = ts[i]
  BY <1>1
<1> HIDE DEF ds, us
<1>4. Calls(ds)
  <2>1. ASSUME NEW i \in 1 .. n + 1
        PROVE  IsCall(ds[i])
    <3>1. i = n + 1 \/ i \in 1..n
      BY <1>1
    <3> QED
      BY <1>2, <3>1 DEF Calls
  <2>2. n + 1 > 0
    BY <1>1
  <2> QED
    BY <1>2, <2>1, <2>2 DEF Calls
<1>5. ASSUME NEW i \in 1..n
      PROVE  Point(ds[i + 1].end, ds[i].class, ds[i].end,
                   Store(ds[i].message, ds[i + 1].for, ds[i + 1].key, us[i + 1]), us[i]) \in P
  <2>1. CASE i = n
    BY <1>2, <1>3, <2>1
  <2>2. CASE i # n
    <3>1. i \in 1 .. n - 1 /\ i + 1 \in 1..n
      BY <1>1, <2>2
    <3>2. Point(cs[i + 1].end, cs[i].class, cs[i].end,
                Store(cs[i].message, cs[i + 1].for, cs[i + 1].key, ts[i + 1]), ts[i]) \in P
      BY <3>1 DEF Walk
    <3> QED
      BY <1>2, <1>3, <3>1, <3>2
  <2> QED
    BY <2>1, <2>2
<1>6. Parsed(b, P) /\ us[1] = v
  <2>1. 1 \in 1..n
    BY <1>1
  <2> QED
    BY <1>3, <2>1 DEF Walk
<1>7. Len(ds) - 1 = n
  BY <1>1, <1>2
<1>8. Walk(b, ds, at, v, P, us)
  BY <1>2, <1>3, <1>5, <1>6, <1>7 DEF Walk
<1>9. Decoding(b, ds, at, v)
  BY <1>4, <1>8 DEF Decoding
<1> QED
  BY <1>9 DEF ds

(* A message ends: the caller gets it. *)
LEMMA WalkUp ==
  ASSUME NEW b, NEW cs, NEW p, NEW v, Decoding(b, cs, p, v), Len(cs) > 1,
         p = cs[Len(cs)].end, NEW l, SameCall(l, cs[Len(cs) - 1]),
         l.message = Store(cs[Len(cs) - 1].message, cs[Len(cs)].for, cs[Len(cs)].key,
                           cs[Len(cs)].message)
  PROVE  Decoding(b, ReplaceAt(Front(cs), Len(Front(cs)), l), p, v)
<1> DEFINE n == Len(cs)
           m == n - 1
           ds == Front(cs)
           d == cs[m]
           e == cs[n]
<1>1. PICK P, ts : Walk(b, cs, p, v, P, ts)
  BY DEF Decoding
<1>2. n \in Nat /\ n > 1 /\ IsSeq(cs) /\ IsSeq(b) /\ \A i \in 1..n : IsCall(cs[i])
  BY SeqBasics DEF Decoding, Calls
<1>3. m \in Nat /\ m > 0 /\ m + 1 = n /\ m \in 1 .. n - 1 /\ m \in 1..n
  BY <1>2
<1>4. IsSeq(ds) /\ Len(ds) = m /\ \A i \in 1..m : ds[i] = cs[i]
  BY <1>2, FrontAt
<1>5. e.message = ts[n]
  <2>1. Parsed(b, P) /\ Point(p, e.class, e.end, e.message, ts[n]) \in P
    BY <1>1 DEF Walk
  <2> QED
    BY <2>1, PointBounds
<1>6. Point(p, l.class, l.end, l.message, ts[m]) \in P
  <2>1. Point(cs[m + 1].end, d.class, d.end,
              Store(d.message, cs[m + 1].for, cs[m + 1].key, ts[m + 1]), ts[m]) \in P
    BY <1>1, <1>3 DEF Walk
  <2>2. l.class = d.class /\ l.end = d.end
    BY DEF SameCall
  <2>3. l.message = Store(d.message, e.for, e.key, e.message) /\ p = e.end
    OBVIOUS
  <2> HIDE DEF m
  <2> QED
    BY <1>3, <1>5, <2>1, <2>2, <2>3
<1> HIDE DEF ds, m
<1> DEFINE us == ReplaceAt(ds, Len(ds), l)
<1>7. IsSeq(us) /\ Len(us) = m /\ \A i \in 1..m : us[i] = IF i = m THEN l ELSE cs[i]
  <2>1. IsSeq(us) /\ Len(us) = Len(ds)
        /\ \A i \in 1..Len(ds) : us[i] = IF i = Len(ds) THEN l ELSE ds[i]
    BY <1>4, ReplaceIs
  <2> HIDE DEF us
  <2> QED
    BY <1>4, <2>1
<1> HIDE DEF us
<1>8. Calls(us)
  <2>1. IsCall(l)
    BY DEF SameCall
  <2>2. \A i \in 1..m : i \in 1..n
    BY <1>3
  <2>3. \A i \in 1..m : IsCall(us[i])
    BY <1>2, <1>7, <2>1, <2>2
  <2> QED
    BY <1>3, <1>7, <2>3 DEF Calls
<1>9. ASSUME NEW i \in 1 .. m - 1
      PROVE  Point(us[i + 1].end, us[i].class, us[i].end,
                   Store(us[i].message, us[i + 1].for, us[i + 1].key, ts[i + 1]), ts[i]) \in P
  <2>1. i \in 1 .. n - 1 /\ i \in 1..m /\ i + 1 \in 1..m /\ i # m
    BY <1>3
  <2>2. Point(cs[i + 1].end, cs[i].class, cs[i].end,
              Store(cs[i].message, cs[i + 1].for, cs[i + 1].key, ts[i + 1]), ts[i]) \in P
    BY <1>1, <2>1 DEF Walk
  <2>3. us[i] = cs[i]
    BY <1>7, <2>1
  <2>4. us[i + 1].end = cs[i + 1].end /\ us[i + 1].for = cs[i + 1].for
        /\ us[i + 1].key = cs[i + 1].key
    <3>1. l.end = cs[m].end /\ l.for = cs[m].for /\ l.key = cs[m].key
      BY DEF SameCall, m
    <3> QED
      BY <1>7, <2>1, <3>1
  <2> QED
    BY <2>2, <2>3, <2>4
<1>10. us[m] = l
  <2>1. m \in 1..m
    BY <1>3
  <2> QED
    BY <1>7, <2>1
<1>11. Parsed(b, P) /\ ts[1] = v
  BY <1>1 DEF Walk
<1>12. Walk(b, us, p, v, P, ts)
  BY <1>6, <1>7, <1>9, <1>10, <1>11 DEF Walk
<1>13. Decoding(b, us, p, v)
  BY <1>2, <1>8, <1>12 DEF Decoding
<1> QED
  BY <1>13 DEF us, ds

-----------------------------------------------------------------------------
(* The steps of the reader.                                                *)

(* A call that begins. *)
LEMMA CallIs ==
  ASSUME NEW class, NEW end, NEW f, NEW key
  PROVE  LET c == [class |-> class, end |-> end, message |-> New(class), for |-> f,
                   key |-> key]
         IN /\ IsCall(c) /\ c.class = class /\ c.end = end /\ c.message = New(class)
            /\ c.for = f /\ c.key = key
  BY DEF IsCall

LEMMA CallExcept ==
  ASSUME NEW c, IsCall(c), NEW m
  PROVE  LET l == [c EXCEPT !.message = m] IN SameCall(l, c) /\ l.message = m
<1> DEFINE l == [c EXCEPT !.message = m]
<1>1. l = [class |-> c.class, end |-> c.end, message |-> m, for |-> c.for, key |-> c.key]
  BY DEF IsCall
<1> HIDE DEF l
<1>2. SameCall(l, c) /\ l.message = m
  BY <1>1 DEF SameCall, IsCall
<1> QED
  BY <1>2 DEF l

(* decode of a body that is the message v. *)
LEMMA DecodingBegins ==
  ASSUME NEW b, IsSeq(b), NEW class, NEW v, Holds(b, class, 0, Len(b), v)
  PROVE  Decoding(b, <<[class |-> class, end |-> Len(b), message |-> New(class),
                        for |-> NoField, key |-> NoKey]>>, 0, v)
<1> DEFINE c == [class |-> class, end |-> Len(b), message |-> New(class),
                 for |-> NoField, key |-> NoKey]
           cs == <<c>>
           ts == <<v>>
<1>1. IsCall(c) /\ c.class = class /\ c.end = Len(b) /\ c.message = New(class)
  BY CallIs
<1>2. IsSeq(cs) /\ Len(cs) = 1 /\ cs[1] = c /\ ts[1] = v
  <2>1. cs \in Seq({c})
    OBVIOUS
  <2> QED
    BY <2>1 DEF IsSeq
<1>3. PICK P : Parsed(b, P) /\ Point(0, class, Len(b), New(class), v) \in P
  BY DEF Holds
<1> HIDE DEF c, cs, ts
<1>4. Walk(b, cs, 0, v, P, ts)
  BY <1>1, <1>2, <1>3 DEF Walk
<1>5. Calls(cs)
  BY <1>1, <1>2 DEF Calls
<1> QED
  BY <1>4, <1>5 DEF Decoding, cs, c

LEMMA CallOf ==
  ASSUME NEW v, Decoding(buf, calls, pos, v)
  PROVE  /\ call = calls[Len(calls)] /\ IsCall(call) /\ call.class \in Classes
         /\ Calls(calls) /\ IsSeq(calls) /\ IsSeq(buf)
         /\ Len(calls) \in Nat \ {0} /\ Len(buf) \in Nat
         /\ pos \in Nat /\ call.end \in Nat /\ pos <= call.end /\ call.end <= Len(buf)
<1>1. call = calls[Len(calls)]
  BY DEF call, Last
<1>2. Len(calls) \in Nat \ {0} /\ Len(buf) \in Nat
  BY DecodingBounds
<1>3. Len(calls) \in 1..Len(calls)
  BY <1>2
<1>4. call.class \in Classes
  BY <1>1, <1>3, DecodingBounds
<1>5. pos \in Nat /\ call.end \in Nat /\ pos <= call.end /\ call.end <= Len(buf)
  BY <1>1, DecodingBounds
<1>6. IsCall(call) /\ Calls(calls) /\ IsSeq(calls) /\ IsSeq(buf)
  BY <1>1, <1>3 DEF Decoding, Calls
<1> QED
  BY <1>1, <1>2, <1>4, <1>5, <1>6

LEMMA SameView ==
  /\ \A i : Piece(i) = PieceAt(buf, i)
  /\ \A f : Case(f) = CaseAt(buf, pos, f)
  BY DEF Piece, PieceAt, Case, CaseAt, tag

(* What the loop is at. *)
LEMMA LoopIsAt ==
  ASSUME NEW v, Decoding(buf, calls, pos, v), InLoop
  PROVE  \E P, ts, at2, m2 :
           /\ Walk(buf, calls, pos, v, P, ts)
           /\ Goes(buf, P, call.class, pos, call.message, at2, m2)
           /\ Point(at2, call.class, call.end, m2, ts[Len(calls)]) \in P
<1>1. PICK P, ts : Walk(buf, calls, pos, v, P, ts)
  BY DEF Decoding
<1>2. call = calls[Len(calls)] /\ pos \in Nat
  BY CallOf
<1>3. Parsed(buf, P) /\ Point(pos, call.class, call.end, call.message, ts[Len(calls)]) \in P
  BY <1>1, <1>2 DEF Walk
<1>4. pos # call.end
  BY <1>2 DEF InLoop
<1>5. \E at2, m2 : /\ Goes(buf, P, call.class, pos, call.message, at2, m2)
                   /\ Point(at2, call.class, call.end, m2, ts[Len(calls)]) \in P
  BY <1>3, <1>4, PointBounds
<1> QED
  BY <1>1, <1>5

(* The reader takes every piece for what it is. *)
LEMMA NeverLost ==
  ASSUME NEW v, phase = "read" => Decoding(buf, calls, pos, v)
  PROVE  ~ Lost
<1> SUFFICES ASSUME InLoop
             PROVE  /\ Piece(pos) = "tag"
                    /\ \A f \in Fields[call.class] : f.number = tag.number => Fits(f)
  BY DEF Lost
<1>1. PICK P, ts, at2, m2 : Goes(buf, P, call.class, pos, call.message, at2, m2)
  BY LoopIsAt DEF InLoop
<1>2. Piece(pos) = "tag"
  BY <1>1, SameView DEF Goes
<1>3. ASSUME NEW f \in Fields[call.class], f.number = tag.number
      PROVE  Fits(f)
  <2>1. FieldAt(buf, P, f, pos, call.message, at2, m2)
    BY <1>1, <1>3 DEF Goes, tag
  <2>2. \/ Case(f) = "scalar" /\ Piece(pos + 1) = "scalar"
        \/ Case(f) \in {"elements", "message"} /\ Piece(pos + 1) = "length"
        \/ Case(f) = "entry" /\ Piece(pos + 3) = "scalar" /\ Piece(pos + 5) = "length"
    BY <2>1, SameView DEF FieldAt, ScalarAt, ElementsAt, MessageAt, EntryAt
  <2> QED
    BY <2>2 DEF Fits
<1> QED
  BY <1>2, <1>3

(* All a step of the reader leaves, but the last one. *)
GoesOn(v) ==
  /\ phase' = "read" /\ UNCHANGED <<writer, result>>
  /\ Decoding(buf', calls', pos', v)
  /\ Ahead' < Ahead

LEMMA FieldHere ==
  ASSUME NEW v, Decoding(buf, calls, pos, v), NEW f, NEW case, AtField(f, case)
  PROVE  \E P, ts, at2, m2 :
           /\ Walk(buf, calls, pos, v, P, ts)
           /\ pos + 2 <= at2 /\ at2 \in Nat
           /\ FieldAt(buf, P, f, pos, call.message, at2, m2)
           /\ Point(at2, call.class, call.end, m2, ts[Len(calls)]) \in P
<1>1. PICK P, ts, at2, m2 :
        /\ Walk(buf, calls, pos, v, P, ts)
        /\ Goes(buf, P, call.class, pos, call.message, at2, m2)
        /\ Point(at2, call.class, call.end, m2, ts[Len(calls)]) \in P
  BY LoopIsAt DEF AtField
<1>2. f \in Fields[call.class] /\ f.number = buf[pos + 1].number
  BY DEF AtField, tag
<1>3. FieldAt(buf, P, f, pos, call.message, at2, m2) /\ pos + 2 <= at2 /\ at2 \in Nat
  BY <1>1, <1>2 DEF Goes
<1> QED
  BY <1>1, <1>3

(* A field without messages in it was read. *)
LEMMA ReadGoesOn ==
  ASSUME NEW v, Decoding(buf, calls, pos, v),
         NEW P, NEW ts, Walk(buf, calls, pos, v, P, ts),
         NEW f, NEW vs, Read(f, vs), pos' \in Nat, pos + 2 <= pos',
         Point(pos', call.class, call.end, Put(call.message, f, vs), ts[Len(calls)]) \in P,
         phase' = "read", UNCHANGED <<writer, result>>
  PROVE  GoesOn(v)
<1> DEFINE m == Put(call.message, f, vs)
           l == [call EXCEPT !.message = m]
<1>1. calls' = ReplaceAt(calls, Len(calls), l)
  BY DEF Read
<1>2. /\ call = calls[Len(calls)] /\ IsCall(call) /\ Calls(calls) /\ IsSeq(buf)
      /\ IsSeq(calls) /\ Len(calls) \in Nat /\ Len(buf) \in Nat /\ pos \in Nat
  BY CallOf
<1> HIDE DEF m
<1>3. SameCall(l, call) /\ l.message = m
  BY <1>2, CallExcept
<1> HIDE DEF l
<1>4. Point(pos', l.class, l.end, l.message, ts[Len(calls)]) \in P
  BY <1>3 DEF SameCall, m
<1>5. Decoding(buf, ReplaceAt(calls, Len(calls), l), pos', v)
  BY <1>2, <1>3, <1>4, WalkOn
<1>6. buf' = buf
  BY DEF writer
<1>7. Len(calls') = Len(calls)
  BY <1>1, <1>2, ReplaceIs
<1>8. Ahead' < Ahead
  <2>1. Len(buf) - pos' + Len(calls) < Len(buf) - pos + Len(calls)
    BY <1>2
  <2> QED
    BY <1>6, <1>7, <2>1 DEF Ahead
<1> QED
  BY <1>1, <1>5, <1>6, <1>8 DEF GoesOn

LEMMA ReadScalarGoesOn ==
  ASSUME NEW v, Decoding(buf, calls, pos, v), NEW f, ReadScalar(f)
  PROVE  GoesOn(v)
<1>1. /\ AtField(f, "scalar") /\ Read(f, <<buf[pos + 2].v>>) /\ pos' = pos + 2
      /\ phase' = "read" /\ UNCHANGED <<writer, result>>
  BY DEF ReadScalar, AtField, InLoop
<1>2. PICK P, ts, at2, m2 :
        /\ Walk(buf, calls, pos, v, P, ts)
        /\ pos + 2 <= at2 /\ at2 \in Nat
        /\ FieldAt(buf, P, f, pos, call.message, at2, m2)
        /\ Point(at2, call.class, call.end, m2, ts[Len(calls)]) \in P
  BY <1>1, FieldHere
<1>3. ScalarAt(buf, f, pos, call.message, at2, m2)
  <2>1. CaseAt(buf, pos, f) = "scalar"
    BY <1>1, SameView DEF AtField
  <2> QED
    BY <1>2, <2>1 DEF FieldAt, ElementsAt, MessageAt, EntryAt
<1>4. at2 = pos' /\ m2 = Put(call.message, f, <<buf[pos + 2].v>>)
  BY <1>1, <1>3 DEF ScalarAt
<1> QED
  BY <1>1, <1>2, <1>4, ReadGoesOn

LEMMA ReadPackedGoesOn ==
  ASSUME NEW v, Decoding(buf, calls, pos, v), NEW f, ReadPacked(f)
  PROVE  GoesOn(v)
<1> DEFINE end2 == pos + 2 + buf[pos + 2].n
           elements == SubSeq(buf, pos + 3, end2)
           vs == [i \in DOMAIN elements |-> elements[i].v]
<1>1. /\ AtField(f, "elements") /\ Read(f, vs) /\ pos' = end2
      /\ phase' = "read" /\ UNCHANGED <<writer, result>>
  BY DEF ReadPacked, AtField, InLoop
<1>2. PICK P, ts, at2, m2 :
        /\ Walk(buf, calls, pos, v, P, ts)
        /\ pos + 2 <= at2 /\ at2 \in Nat
        /\ FieldAt(buf, P, f, pos, call.message, at2, m2)
        /\ Point(at2, call.class, call.end, m2, ts[Len(calls)]) \in P
  BY <1>1, FieldHere
<1>3. ElementsAt(buf, f, pos, call.message, at2, m2)
  <2>1. CaseAt(buf, pos, f) = "elements"
    BY <1>1, SameView DEF AtField
  <2> QED
    BY <1>2, <2>1 DEF FieldAt, ScalarAt, MessageAt, EntryAt
<1>4. /\ at2 = end2 /\ m2 = Put(call.message, f, Elements(buf, pos + 2, at2))
      /\ buf[pos + 2].n \in Nat
  BY <1>3 DEF ElementsAt
<1>5. at2 <= Len(buf) /\ pos \in Nat /\ Len(buf) \in Nat
  <2>1. Parsed(buf, P)
    BY <1>2 DEF Walk
  <2>2. at2 <= call.end /\ at2 \in Nat /\ call.end <= Len(buf) /\ call.end \in Nat
    BY <1>2, <2>1, PointBounds
  <2> QED
    BY <2>2, CallOf
<1>6. vs = Elements(buf, pos + 2, at2)
  <2> DEFINE k == buf[pos + 2].n
  <2>1. k \in Nat /\ at2 = pos + 2 + k /\ end2 = at2 /\ at2 <= Len(buf)
    BY <1>4, <1>5
  <2>2. PICK S : buf \in Seq(S)
    BY CallOf DEF IsSeq
  <2>3. \A i \in pos + 3 .. at2 : buf[i] \in S
    <3>1. TAKE i \in pos + 3 .. at2
    <3>2. i \in 1..Len(buf)
      BY <1>2, <1>5
    <3> QED
      BY <2>2, <3>2, ElementOfSeq
  <2>4. pos + 3 \in Int /\ at2 \in Int
    BY <1>2, <1>5
  <2>5. /\ Len(elements) = IF pos + 3 <= at2 THEN at2 - (pos + 3) + 1 ELSE 0
        /\ elements \in Seq(S)
        /\ \A i \in 1 .. at2 - (pos + 3) + 1 : elements[i] = buf[pos + 3 + i - 1]
    BY <2>1, <2>3, <2>4, SubSeqProperties
  <2> HIDE DEF k, elements, end2
  <2>6. Len(elements) = k /\ at2 - (pos + 3) + 1 = k /\ at2 - (pos + 2) = k
    BY <1>5, <2>1, <2>5
  <2>7. DOMAIN elements = 1..k
    BY <2>5, <2>6, LenProperties
  <2>8. ASSUME NEW i \in 1..k
        PROVE  elements[i].v = buf[pos + 2 + i].v
    <3>1. pos + 3 + i - 1 = pos + 2 + i
      BY <1>5
    <3> QED
      BY <2>5, <2>6, <3>1
  <2>9. Elements(buf, pos + 2, at2) = [i \in 1..k |-> buf[pos + 2 + i].v]
    BY <2>6 DEF Elements
  <2> QED
    BY <2>7, <2>8, <2>9
<1> HIDE DEF vs, end2
<1> QED
  BY <1>1, <1>2, <1>4, <1>6, ReadGoesOn

(* A decode was called for a message. *)
LEMMA CallGoesOn ==
  ASSUME NEW v, Decoding(buf, calls, pos, v),
         NEW P, NEW ts, Walk(buf, calls, pos, v, P, ts),
         NEW c, IsCall(c), calls' = Append(calls, c), NEW w,
         Point(pos', c.class, c.end, c.message, w) \in P,
         Point(c.end, call.class, call.end, Store(call.message, c.for, c.key, w),
               ts[Len(calls)]) \in P,
         pos' \in Nat, pos + 2 <= pos', phase' = "read", UNCHANGED <<writer, result>>
  PROVE  GoesOn(v)
<1>1. /\ call = calls[Len(calls)] /\ Calls(calls) /\ IsSeq(buf)
      /\ IsSeq(calls) /\ Len(calls) \in Nat /\ Len(buf) \in Nat /\ pos \in Nat
  BY CallOf
<1>2. Decoding(buf, Append(calls, c), pos', v)
  BY <1>1, WalkDown
<1>3. buf' = buf
  BY DEF writer
<1>4. Len(calls') = Len(calls) + 1
  BY <1>1, AppendAt
<1>5. Ahead' < Ahead
  <2>1. Len(buf) - pos' + (Len(calls) + 1) < Len(buf) - pos + Len(calls)
    BY <1>1
  <2> QED
    BY <1>3, <1>4, <2>1 DEF Ahead
<1> QED
  BY <1>2, <1>3, <1>5 DEF GoesOn

LEMMA ReadEmbeddedGoesOn ==
  ASSUME NEW v, Decoding(buf, calls, pos, v), NEW f, ReadEmbedded(f)
  PROVE  GoesOn(v)
<1> DEFINE c == Call(f, NoKey, pos + 1)
<1>1. /\ AtField(f, "message") /\ calls' = Append(calls, c) /\ pos' = pos + 2
      /\ phase' = "read" /\ UNCHANGED <<writer, result>>
  BY DEF ReadEmbedded, AtField, InLoop
<1>2. PICK P, ts, at2, m2 :
        /\ Walk(buf, calls, pos, v, P, ts)
        /\ pos + 2 <= at2 /\ at2 \in Nat
        /\ FieldAt(buf, P, f, pos, call.message, at2, m2)
        /\ Point(at2, call.class, call.end, m2, ts[Len(calls)]) \in P
  BY <1>1, FieldHere
<1>3. MessageAt(buf, P, f, pos, call.message, at2, m2)
  <2>1. CaseAt(buf, pos, f) = "message"
    BY <1>1, SameView DEF AtField
  <2> QED
    BY <1>2, <2>1 DEF FieldAt, ScalarAt, ElementsAt, EntryAt
<1>4. PICK w : /\ Point(pos + 2, f.type, at2, New(f.type), w) \in P
               /\ m2 = Store(call.message, f, NoKey, w)
  BY <1>3 DEF MessageAt
<1>5. pos \in Nat
  BY CallOf
<1>6. c = [class |-> f.type, end |-> at2, message |-> New(f.type), for |-> f, key |-> NoKey]
  <2>1. at2 = pos + 2 + buf[pos + 2].n /\ buf[pos + 2].n \in Nat
    BY <1>3 DEF MessageAt
  <2>2. pos + 1 + 1 = pos + 2
    BY <1>5
  <2> QED
    BY <2>1, <2>2 DEF Call
<1>7. /\ IsCall(c) /\ c.class = f.type /\ c.end = at2 /\ c.message = New(f.type)
      /\ c.for = f /\ c.key = NoKey
  BY <1>6, CallIs
<1>8. pos' \in Nat /\ pos + 2 <= pos'
  BY <1>1, <1>5
<1> HIDE DEF c
<1>9. Point(pos', c.class, c.end, c.message, w) \in P
  BY <1>1, <1>4, <1>7
<1>10. Point(c.end, call.class, call.end, Store(call.message, c.for, c.key, w),
             ts[Len(calls)]) \in P
  BY <1>2, <1>4, <1>7
<1> QED
  BY <1>1, <1>2, <1>7, <1>8, <1>9, <1>10, CallGoesOn

LEMMA ReadEntryGoesOn ==
  ASSUME NEW v, Decoding(buf, calls, pos, v), NEW f, ReadEntry(f)
  PROVE  GoesOn(v)
<1> DEFINE key == buf[pos + 4].v
           c == Call(f, key, pos + 5)
<1>1. /\ AtField(f, "entry") /\ calls' = Append(calls, c) /\ pos' = pos + 6
      /\ phase' = "read" /\ UNCHANGED <<writer, result>>
  BY DEF ReadEntry, AtField, InLoop
<1>2. PICK P, ts, at2, m2 :
        /\ Walk(buf, calls, pos, v, P, ts)
        /\ pos + 2 <= at2 /\ at2 \in Nat
        /\ FieldAt(buf, P, f, pos, call.message, at2, m2)
        /\ Point(at2, call.class, call.end, m2, ts[Len(calls)]) \in P
  BY <1>1, FieldHere
<1>3. EntryAt(buf, P, f, pos, call.message, at2, m2)
  <2>1. CaseAt(buf, pos, f) = "entry"
    BY <1>1, SameView DEF AtField
  <2> QED
    BY <1>2, <2>1 DEF FieldAt, ScalarAt, ElementsAt, MessageAt
<1>4. PICK w : /\ Point(pos + 6, f.type, at2, New(f.type), w) \in P
               /\ m2 = Store(call.message, f, key, w)
  BY <1>3 DEF EntryAt
<1>5. pos \in Nat
  BY CallOf
<1>6. c = [class |-> f.type, end |-> at2, message |-> New(f.type), for |-> f, key |-> key]
  <2>1. at2 = pos + 6 + buf[pos + 6].n /\ buf[pos + 6].n \in Nat
    BY <1>3 DEF EntryAt
  <2>2. pos + 5 + 1 = pos + 6
    BY <1>5
  <2> QED
    BY <2>1, <2>2 DEF Call
<1> HIDE DEF key
<1>7. /\ IsCall(c) /\ c.class = f.type /\ c.end = at2 /\ c.message = New(f.type)
      /\ c.for = f /\ c.key = key
  BY <1>6, CallIs
<1>8. pos' \in Nat /\ pos + 2 <= pos'
  BY <1>1, <1>5
<1> HIDE DEF c
<1>9. Point(pos', c.class, c.end, c.message, w) \in P
  BY <1>1, <1>4, <1>7
<1>10. Point(c.end, call.class, call.end, Store(call.message, c.for, c.key, w),
             ts[Len(calls)]) \in P
  BY <1>2, <1>4, <1>7
<1> QED
  BY <1>1, <1>2, <1>7, <1>8, <1>9, <1>10, CallGoesOn

LEMMA SkipGoesOn ==
  ASSUME NEW v, Decoding(buf, calls, pos, v), SkipUnknown
  PROVE  GoesOn(v)
<1>1. /\ AtUnknown /\ phase' = "read" /\ UNCHANGED <<writer, calls, result>>
      /\ pos' = IF Piece(pos + 1) = "length" THEN pos + 2 + buf[pos + 2].n ELSE pos + 2
  BY DEF SkipUnknown, AtUnknown, InLoop
<1>2. PICK P, ts, at2, m2 :
        /\ Walk(buf, calls, pos, v, P, ts)
        /\ Goes(buf, P, call.class, pos, call.message, at2, m2)
        /\ Point(at2, call.class, call.end, m2, ts[Len(calls)]) \in P
  BY <1>1, LoopIsAt DEF AtUnknown
<1>3. UnknownAt(buf, pos, call.message, at2, m2)
  BY <1>1, <1>2 DEF Goes, AtUnknown, tag
<1>4. pos' = at2 /\ m2 = call.message
  BY <1>1, <1>3, SameView DEF UnknownAt
<1>5. /\ call = calls[Len(calls)] /\ Calls(calls) /\ IsSeq(buf)
      /\ Len(calls) \in Nat /\ Len(buf) \in Nat /\ pos \in Nat
  BY CallOf
<1>6. Walk(buf, calls, pos', v, P, ts)
  BY <1>2, <1>4, <1>5 DEF Walk
<1>7. buf' = buf /\ calls' = calls
  BY <1>1 DEF writer
<1>8. Ahead' < Ahead
  <2>1. pos' \in Nat /\ pos + 2 <= pos'
    BY <1>2, <1>4 DEF Goes
  <2>2. Len(buf) - pos' + Len(calls) < Len(buf) - pos + Len(calls)
    BY <1>5, <2>1
  <2> QED
    BY <1>7, <2>2 DEF Ahead
<1> QED
  BY <1>1, <1>5, <1>6, <1>7, <1>8 DEF GoesOn, Decoding

LEMMA ReturnGoesOn ==
  ASSUME NEW v, Decoding(buf, calls, pos, v), Return
  PROVE  GoesOn(v)
<1> DEFINE n == Len(calls)
           callers == Front(calls)
           d == callers[Len(callers)]
           m == Store(d.message, call.for, call.key, call.message)
           l == [d EXCEPT !.message = m]
<1>1. /\ phase' = "read" /\ ~ InLoop /\ n > 1 /\ UNCHANGED <<writer, pos, result>>
      /\ calls' = [callers EXCEPT ![Len(callers)].message =
                     Store(@, call.for, call.key, call.message)]
  BY DEF Return
<1>2. /\ call = calls[n] /\ Calls(calls) /\ IsSeq(calls) /\ IsSeq(buf)
      /\ n \in Nat /\ Len(buf) \in Nat /\ pos \in Nat /\ call.end \in Nat /\ pos <= call.end
  BY CallOf
<1>3. pos = call.end
  BY <1>1, <1>2 DEF Return, InLoop
<1>4. calls' = ReplaceAt(callers, Len(callers), l)
  BY <1>1 DEF ReplaceAt
<1>5. IsSeq(callers) /\ Len(callers) = n - 1 /\ \A i \in 1 .. n - 1 : callers[i] = calls[i]
  BY <1>1, <1>2, FrontAt
<1>6. d = calls[n - 1] /\ n - 1 \in 1..n
  <2>1. n - 1 \in 1 .. n - 1 /\ n - 1 \in 1..n
    BY <1>1, <1>2
  <2> QED
    BY <1>5, <2>1
<1>7. IsCall(d)
  BY <1>2, <1>6 DEF Calls
<1> HIDE DEF m, d, callers
<1>8. SameCall(l, d) /\ l.message = m
  BY <1>7, CallExcept
<1> HIDE DEF l
<1>9. Decoding(buf, ReplaceAt(callers, Len(callers), l), pos, v)
  <2>1. SameCall(l, calls[n - 1])
    BY <1>6, <1>8
  <2>2. l.message = Store(calls[n - 1].message, calls[n].for, calls[n].key, calls[n].message)
    BY <1>2, <1>6, <1>8 DEF m
  <2> QED
    BY <1>1, <1>2, <1>3, <2>1, <2>2, WalkUp DEF callers
<1>10. buf' = buf /\ pos' = pos
  BY <1>1 DEF writer
<1>11. Len(calls') = n - 1
  BY <1>4, <1>5, ReplaceIs
<1>12. Ahead' < Ahead
  <2>1. Len(buf) - pos + (n - 1) < Len(buf) - pos + n
    BY <1>2
  <2> QED
    BY <1>10, <1>11, <2>1 DEF Ahead
<1> QED
  BY <1>1, <1>4, <1>9, <1>10, <1>12 DEF GoesOn

LEMMA ReturnMessageIsRight ==
  ASSUME NEW v, Decoding(buf, calls, pos, v), ReturnMessage
  PROVE  phase' = "done" /\ result' = v /\ UNCHANGED <<writer, pos, calls>>
<1>1. /\ phase' = "done" /\ ~ InLoop /\ phase = "read" /\ Len(calls) = 1
      /\ result' = call.message /\ UNCHANGED <<writer, pos, calls>>
  BY DEF ReturnMessage
<1>2. call = calls[Len(calls)] /\ pos \in Nat /\ call.end \in Nat /\ pos <= call.end
  BY CallOf
<1>3. pos = call.end
  BY <1>1, <1>2 DEF InLoop
<1>4. PICK P, ts : Walk(buf, calls, pos, v, P, ts)
  BY DEF Decoding
<1>5. /\ Parsed(buf, P) /\ ts[1] = v
      /\ Point(pos, call.class, call.end, call.message, ts[Len(calls)]) \in P
  BY <1>2, <1>4 DEF Walk
<1>6. call.message = ts[Len(calls)]
  BY <1>3, <1>5, PointBounds
<1> QED
  BY <1>1, <1>5, <1>6

(* The message that is there is the one that is returned, and every step    *)
(* comes nearer to it.                                                     *)
LEMMA DecodeReadsIt ==
  ASSUME NEW v, Decoding(buf, calls, pos, v), Decode
  PROVE  \/ GoesOn(v)
         \/ phase' = "done" /\ result' = v /\ UNCHANGED <<writer, pos, calls>>
<1>1. CASE \E f \in Fields[call.class] :
             ReadScalar(f) \/ ReadPacked(f) \/ ReadEmbedded(f) \/ ReadEntry(f)
  BY <1>1, ReadScalarGoesOn, ReadPackedGoesOn, ReadEmbeddedGoesOn, ReadEntryGoesOn
<1>2. CASE SkipUnknown
  BY <1>2, SkipGoesOn
<1>3. CASE Return
  BY <1>3, ReturnGoesOn
<1>4. CASE ReturnMessage
  BY <1>4, ReturnMessageIsRight
<1> QED
  BY <1>1, <1>2, <1>3, <1>4 DEF Decode
=============================================================================
