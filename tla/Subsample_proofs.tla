-------------------------- MODULE Subsample_proofs --------------------------
(***************************************************************************)
(* Safety of subsampling, for any folder, request and width of integers:   *)
(* how many messages a sample has, when no lookup of a batch fails, and    *)
(* which messages a period may give.                                       *)
(***************************************************************************)
EXTENDS Subsample, IDComparator_proofs, WellFoundedInduction

USE DEF vars

Answer == [unique : Nat, sent : Keys \cup {Blank}]

-----------------------------------------------------------------------------
(* Types.                                                                  *)

LEMMA RequestType ==
  ASSUME TypeOK
  PROVE  /\ request.amount \in Nat /\ request.batchSize \in Nat
         /\ request.from \in Nat /\ request.till \in Nat
         /\ StepOf \in Int /\ Amount \in Int
         /\ 0 < Amount => 0 < StepOf
<1>1. request \in Request BY SubsampleAssumption DEF TypeOK
<1>2. PICK api : request \in RequestOver(api) BY <1>1 DEF Request
<1>3. IntSpan \in Nat /\ 0 < IntSpan /\ IntSpan \div 2 \in Int
  BY SubsampleAssumption, SMT
<1>4. Numbers(api) \subseteq Nat BY <1>3, SMT DEF Numbers
<1>5. request.amount \in Nat /\ request.batchSize \in Nat
      /\ request.from \in Nat /\ request.till \in Nat
  BY <1>2, <1>4 DEF RequestOver
<1>6. \A n \in Nat : Signed(n) \in Int /\ Signed(n) <= n
  BY <1>3, SMT DEF Signed
<1>7. PICK b \in Nat \ {0} : StepOf = Signed(Smaller(b, request.amount))
  BY <1>5, SubsampleAssumption DEF StepOf
<1>8. /\ Smaller(b, request.amount) \in Nat
      /\ Smaller(b, request.amount) <= request.amount
      /\ 0 < request.amount => 0 < Smaller(b, request.amount)
  BY <1>5, SMT DEF Smaller
<1>9. StepOf \in Int /\ Amount \in Int BY <1>5, <1>6, <1>7, <1>8 DEF Amount
<1>10. ASSUME 0 < Amount PROVE 0 < StepOf
  <2>1. \A n \in Nat : 0 < Signed(n) /\ n < IntSpan => n < IntSpan \div 2
    BY <1>3, SMT DEF Signed
  <2>2. request.amount < IntSpan BY <1>2, <1>3, <1>5, SMT DEF RequestOver, Numbers
  <2>3. request.amount < IntSpan \div 2 BY <1>5, <1>10, <2>1, <2>2 DEF Amount
  <2>4. 0 < request.amount BY <1>3, <1>5, <1>10, <2>3, SMT DEF Amount, Signed
  <2>5. Smaller(b, request.amount) < IntSpan \div 2
    BY <1>3, <1>5, <1>8, <2>3, SMT
  <2> QED BY <1>7, <1>8, <2>4, <2>5 DEF Signed
<1> QED BY <1>5, <1>9, <1>10

(* The bounds are uniques of stored messages or 0, cut to an int. *)
LEMMA BoundsType ==
  ASSUME TypeOK
  PROVE  /\ UniqueRange.from \in Nat /\ UniqueRange.till \in Nat
         /\ Cast(UniqueRange.from) \in Int /\ Cast(UniqueRange.till) \in Int
<1>1. stored \in SUBSET StoredID BY SubsampleAssumption DEF TypeOK
<1>2. ASSUME NEW ts PROVE UniqueUpTo(ts) \in Nat
  <2> DEFINE early == {k \in stored :
                         Compare(k, [timestamp |-> ts, unique |-> 0]) <= 0}
  <2>1. early \in SUBSET StoredID BY <1>1
  <2>2. GetUniqueRange(early).till \in Nat BY <2>1, UniqueRangeType
  <2> QED BY <2>2 DEF UniqueUpTo
<1>3. UniqueRange.from \in Nat /\ UniqueRange.till \in Nat
  BY <1>1, <1>2, UniqueRangeType DEF UniqueRange, GetUniqueRangeForTS
<1>4. ASSUME NEW n \in Nat PROVE Cast(n) \in Int
  <2>1. n % IntSpan \in Int /\ IntSpan \in Int BY SubsampleAssumption, SMT
  <2> QED BY <2>1, SMT DEF Cast, ToInt, Signed
<1> QED BY <1>3, <1>4

LEMMA DrawnType == TypeOK => Drawn \subseteq Nat
<1>1. AnyUnique \subseteq Nat BY SubsampleAssumption, SMT DEF AnyUnique
<1>2. TypeOK /\ 0 <= from => from..till \subseteq Nat BY SMT DEF TypeOK
<1>3. TypeOK /\ 0 <= till => till..from \subseteq Nat BY SMT DEF TypeOK
<1>4. TypeOK => (from < 0 \/ 0 <= from) /\ (till < 0 \/ 0 <= till)
  BY SMT DEF TypeOK
<1> QED BY <1>1, <1>2, <1>3, <1>4 DEF Drawn

LEMMA AnswersType == TypeOK => Answers \subseteq Answer
<1> SUFFICES ASSUME TypeOK, NEW a \in Answers PROVE a \in Answer
  OBVIOUS
<1>1. PICK u \in Drawn :
        \E m \in Lookup([timestamp |-> 0, unique |-> u]) :
           a = [unique |-> u, sent |-> m]
  BY DEF Answers
<1>2. u \in Nat BY DrawnType
<1>3. Lookup([timestamp |-> 0, unique |-> u]) \subseteq Keys \cup {Blank}
  BY DEF Lookup, Matches, TypeOK
<1> QED BY <1>1, <1>2, <1>3 DEF Answer

(* A batch has as many answers as keys. *)
LEMMA BatchType ==
  ASSUME TypeOK, GetBatch
  PROVE  /\ batch' \in Seq(Answer)
         /\ 0 < step => Len(batch') = step
<1>1. batch' \in [1..step -> Answers] BY DEF GetBatch
<1>2. batch' \in [1..step -> Answer] BY <1>1, AnswersType
<1>3. step \in Int BY DEF TypeOK
<1>4. CASE 0 < step BY <1>2, <1>3, <1>4, SMT
<1>5. CASE step <= 0
  <2>1. 1..step = 1..0 BY <1>3, <1>5, SMT
  <2> QED BY <1>2, <1>3, <1>5, <2>1, SMT
<1> QED BY <1>3, <1>4, <1>5

LEMMA InitType == Init => TypeOK
BY SubsampleAssumption, SMT DEF Init, TypeOK

LEMMA NextType == TypeOK /\ [Next]_vars => TypeOK'
<1> SUFFICES ASSUME TypeOK, [Next]_vars PROVE TypeOK'
  OBVIOUS
<1>1. CASE Range
  BY <1>1, RequestType, BoundsType DEF Range, TypeOK
<1>2. CASE GetBatch
  BY <1>2, BatchType DEF GetBatch, TypeOK, Answer
<1>3. CASE Write
  <2>1. Len(batch) \in Nat /\ step \in Int /\ i \in Int /\ messages \in Nat
    BY SMT DEF TypeOK
  <2>2. messages' \in Nat /\ i' \in Int BY <1>3, <2>1, SMT DEF Write
  <2>3. batch' \in Seq([unique : Nat, sent : Keys \cup {Blank}])
    BY <1>3, SMT DEF Write
  <2> QED BY <1>3, <2>2, <2>3 DEF Write, TypeOK
<1>4. CASE Return
  BY <1>4 DEF Return, TypeOK
<1>5. CASE \E k \in Keys : Put(k)
  BY <1>5 DEF Put, TypeOK
<1>6. CASE Returned \/ UNCHANGED vars
  BY <1>6 DEF Returned, TypeOK
<1> QED BY <1>1, <1>2, <1>3, <1>4, <1>5, <1>6 DEF Next, Step

(* Type correctness of subsampling (GRPCServer.cpp:168-254). *)
THEOREM SampleTypes == Spec => []TypeOK
BY InitType, NextType, PTL DEF Spec

-----------------------------------------------------------------------------
(* The size of the sample.                                                 *)

LEMMA InitSize == Init => SizeInv
BY DEF Init, SizeInv

LEMMA NextSize == TypeOK /\ SizeInv /\ [Next]_vars => SizeInv'
<1> SUFFICES ASSUME TypeOK, SizeInv, [Next]_vars PROVE SizeInv'
  OBVIOUS
<1>0. /\ i \in Int /\ messages \in Nat /\ step \in Int
      /\ Amount \in Int /\ StepOf \in Int
      /\ 0 < Amount => 0 < StepOf
  BY RequestType DEF TypeOK
<1>1. CASE Range
  <2>1. StepOf' = StepOf /\ Amount' = Amount BY <1>1 DEF Range, StepOf, Amount
  <2>2. messages' = 0 /\ i' = Amount /\ step' = StepOf /\ pc' = "loop"
    BY <1>1 DEF Range, SizeInv
  <2> QED BY <1>0, <2>1, <2>2, SMT DEF SizeInv
<1>2. CASE GetBatch
  <2>1. StepOf' = StepOf /\ Amount' = Amount
    BY <1>2 DEF GetBatch, StepOf, Amount
  <2>2. pc = "loop" /\ 0 < i /\ i + messages = Amount /\ step = StepOf
    BY <1>2 DEF GetBatch, SizeInv
  <2>3. 0 < Amount BY <1>0, <2>2, SMT
  <2>4. Len(batch') = step BY <1>0, <1>2, <2>2, <2>3, BatchType
  <2> QED BY <1>2, <2>1, <2>2, <2>4 DEF GetBatch, SizeInv
<1>3. CASE Write
  <2>1. StepOf' = StepOf /\ Amount' = Amount BY <1>3 DEF Write, StepOf, Amount
  <2>2. messages' = messages + step /\ i' = i - step /\ 0 < i /\ pc' = "loop"
        /\ i + messages = Amount
    BY <1>3 DEF Write, SizeInv
  <2>3. i' + messages' = Amount BY <1>0, <2>2, SMT
  <2>4. 0 < i' + step /\ 0 < Amount BY <1>0, <2>2, SMT
  <2> QED BY <1>3, <2>1, <2>2, <2>3, <2>4 DEF Write, SizeInv
<1>4. CASE Return
  <2>1. StepOf' = StepOf /\ Amount' = Amount BY <1>4 DEF Return, StepOf, Amount
  <2> QED BY <1>4, <2>1 DEF Return, SizeInv
<1>5. CASE \E k \in Keys : Put(k)
  <2>1. StepOf' = StepOf /\ Amount' = Amount BY <1>5 DEF Put, StepOf, Amount
  <2> QED BY <1>5, <2>1 DEF Put, SizeInv
<1>6. CASE Returned \/ UNCHANGED vars
  <2>1. StepOf' = StepOf /\ Amount' = Amount
    BY <1>6 DEF Returned, StepOf, Amount
  <2> QED BY <1>6, <2>1 DEF Returned, SizeInv
<1> QED BY <1>1, <1>2, <1>3, <1>4, <1>5, <1>6 DEF Next, Step

(* A sample has the amount asked for, rounded up to whole batches.  Blanks *)
(* count.                                                                  *)
THEOREM SamplesAreLargeEnough == Spec => []SampleIsLargeEnough
<1>1. ASSUME TypeOK, SizeInv PROVE SampleIsLargeEnough
  <2>1. i \in Int /\ messages \in Nat /\ step \in Int /\ Amount \in Int
    BY <1>1, RequestType DEF TypeOK
  <2> SUFFICES ASSUME pc = "done"
               PROVE  IF 0 < Amount
                        THEN Amount <= messages /\ messages < Amount + step
                        ELSE messages = 0
    BY DEF SampleIsLargeEnough
  <2>2. /\ i <= 0 /\ i + messages = Amount
        /\ messages = 0 \/ (0 < Amount /\ 0 < i + step)
    BY <1>1 DEF SizeInv
  <2> QED BY <2>1, <2>2, SMT
<1>2. Init => TypeOK /\ SizeInv BY InitType, InitSize
<1>3. TypeOK /\ SizeInv /\ [Next]_vars => (TypeOK /\ SizeInv)'
  BY NextType, NextSize
<1> QED BY <1>1, <1>2, <1>3, PTL DEF Spec

-----------------------------------------------------------------------------
(* The lookups.                                                            *)

(* A key without a timestamp matches the messages of its unique. *)
LEMMA WildcardMatches ==
  ASSUME NEW k \in StoredID, NEW u \in Nat
  PROVE  Compare(k, [timestamp |-> 0, unique |-> u]) = 0 <=> k.unique = u
BY SMT DEF StoredID, Compare, compareByTs, compareByUnique, CompareNumbers

(* In a folder in order no lookup of a stored unique fails. *)
LEMMA LookupInOrder ==
  ASSUME TypeOK, InOrder(stored), NEW k \in stored
  PROVE  Blank \notin Lookup([timestamp |-> 0, unique |-> k.unique])
<1> DEFINE w == [timestamp |-> 0, unique |-> k.unique]
<1>1. stored \subseteq StoredID /\ Blank \notin stored
  BY SubsampleAssumption DEF TypeOK
<1>2. k \in StoredID /\ k.unique \in Nat BY <1>1 DEF StoredID
<1>3. k \in Matches(w) BY <1>2, WildcardMatches DEF Matches
<1>4. ~ Misplaced(k, k)
  BY <1>2, SMT DEF Misplaced, compareByUnique, CompareNumbers
<1>5. \A j \in stored : ~ Misplaced(j, k) BY <1>4 DEF InOrder
<1>6. Blank \notin Matches(w) BY <1>1 DEF Matches
<1> QED BY <1>3, <1>5, <1>6 DEF Lookup

(* A batch drawn between bounds that are filled by a folder in order has no *)
(* blanks, whatever is saved between the batches.                           *)
THEOREM OrderedSamplesAreFull == Spec => NoBlanksInOrder
<1> DEFINE Full == /\ pc = "loop" /\ pc' = "write"
                   /\ 0 <= from /\ from <= till
                   /\ \A u \in from..till : \E k \in stored : k.unique = u
                   /\ InOrder(stored)
                   => \A n \in DOMAIN batch' : batch'[n].sent # Blank
<1>1. ASSUME TypeOK, [Next]_vars PROVE [Full]_vars
  <2> SUFFICES ASSUME pc = "loop", pc' = "write", 0 <= from, from <= till,
                      \A u \in from..till : \E k \in stored : k.unique = u,
                      InOrder(stored), NEW n \in DOMAIN batch'
               PROVE  batch'[n].sent # Blank
    OBVIOUS
  <2>1. GetBatch
    BY <1>1 DEF Next, Step, Range, Write, Return, Put, Returned
  <2>2. batch'[n] \in Answers BY <2>1 DEF GetBatch
  <2>3. PICK u \in Drawn :
          \E m \in Lookup([timestamp |-> 0, unique |-> u]) :
             batch'[n] = [unique |-> u, sent |-> m]
    BY <2>2 DEF Answers
  <2>4. u \in from..till
    <3>1. ~ (from < 0) BY <1>1, SMT DEF TypeOK
    <3> QED BY <2>3, <3>1 DEF Drawn
  <2>5. PICK k \in stored : k.unique = u BY <2>4
  <2>6. Blank \notin Lookup([timestamp |-> 0, unique |-> u])
    BY <1>1, <2>5, LookupInOrder
  <2> QED BY <2>3, <2>6
<1>2. Spec => [][Full]_vars
  BY <1>1, InitType, NextType, PTL DEF Spec
<1> QED BY <1>2 DEF NoBlanksInOrder

-----------------------------------------------------------------------------
(* The period of a sample.                                                 *)

(* A set of natural numbers has a least one. *)
LEMMA LeastNumber ==
  ASSUME NEW T, T \subseteq Nat, T # {}
  PROVE  \E x \in T : \A y \in T : x <= y
<1> DEFINE Less == {p \in Nat \X Nat : p[1] < p[2]}
<1>1. IsWellFoundedOn(Less, Nat)
  BY NatLessThanWellFounded, Zenon DEF OpToRel
<1>2. PICK x \in T : \A y \in T : ~ (<<y, x>> \in Less)
  <2> HIDE DEF Less
  <2> QED BY <1>1, WFMin
<1>3. ASSUME NEW y \in T PROVE x <= y
  <2>1. x \in Nat /\ y \in Nat OBVIOUS
  <2>2. ~ (y < x) BY <1>2, <2>1
  <2> QED BY <2>1, <2>2
<1> QED BY <1>3

(* In a folder in order, keys compare like their uniques. *)
LEMMA ByUnique ==
  ASSUME TypeOK, InOrder(stored), NEW j \in stored, NEW k \in stored
  PROVE  /\ j \in StoredID /\ k \in StoredID
         /\ Compare(j, k) <= 0 <=> j.unique <= k.unique
<1>1. j \in StoredID /\ k \in StoredID BY SubsampleAssumption DEF TypeOK
<1>2. j.unique \in Nat /\ k.unique \in Nat BY <1>1 DEF StoredID
<1>3. CASE j = k
  BY <1>1, <1>2, <1>3, CompareStored
<1>4. CASE j # k
  <2>1. ~ Misplaced(j, k) /\ j.unique # k.unique BY <1>4 DEF InOrder
  <2>2. compareByUnique(j, k) = IF j.unique < k.unique THEN -1 ELSE 1
    BY <1>2, <2>1 DEF compareByUnique, CompareNumbers
  <2>3. Compare(j, k) = compareByUnique(j, k)
    BY <2>1, <2>2, SMT DEF Misplaced
  <2> QED BY <1>1, <1>2, <2>1, <2>2, <2>3
<1> QED BY <1>3, <1>4

(* Some of its keys have a last one, for uniques are bounded. *)
LEMMA HasLast ==
  ASSUME TypeOK, InOrder(stored), NEW K \in SUBSET stored, NEW k \in K
  PROVE  \E l \in K : IsLast(l, K)
<1> DEFINE B == {m \in Nat : \A j \in K : j.unique <= m}
<1>1. ASSUME NEW j \in K PROVE j.unique \in Nat /\ j.unique < LongSpan
  BY SubsampleAssumption DEF TypeOK, StoredID
<1>2. LongSpan \in B BY <1>1, SubsampleAssumption
<1>3. PICK m \in B : \A n \in B : m <= n
  <2> HIDE DEF B
  <2>1. B \subseteq Nat BY DEF B
  <2> QED BY <1>2, <2>1, LeastNumber
<1>4. m \in Nat /\ \A j \in K : j.unique <= m OBVIOUS
<1>5. PICK l \in K : l.unique = m
  <2> SUFFICES ASSUME \A j \in K : j.unique # m PROVE FALSE
    OBVIOUS
  <2>1. \A j \in K : j.unique <= m - 1 BY <1>1, <1>4
  <2>2. m - 1 \in Nat BY <1>1, <1>4
  <2>3. m - 1 \in B BY <2>1, <2>2
  <2>4. m <= m - 1 BY <1>3, <2>3
  <2> QED BY <1>4, <2>4
<1>6. ASSUME NEW j \in K PROVE Compare(j, l) <= 0
  BY <1>4, <1>5, ByUnique
<1> QED BY <1>6 DEF IsLast

(* A message as early as a timestamp bounds the sample from below, and so   *)
(* does no message but an early one.                                       *)
LEMMA UpToBounds ==
  ASSUME TypeOK, InOrder(stored), NEW ts \in Nat \ {0}, NEW k \in stored,
         Compare(k, [timestamp |-> ts, unique |-> 0]) <= 0
  PROVE  /\ k.unique <= UniqueUpTo(ts)
         /\ \E l \in stored : /\ Compare(l, [timestamp |-> ts, unique |-> 0]) <= 0
                              /\ UniqueUpTo(ts) = l.unique
<1> DEFINE early == {j \in stored :
                       Compare(j, [timestamp |-> ts, unique |-> 0]) <= 0}
<1>1. PICK l \in early : IsLast(l, early) BY HasLast
<1>2. early \in SUBSET StoredID BY SubsampleAssumption DEF TypeOK
<1>3. UniqueUpTo(ts) = l.unique
  <2> HIDE DEF early
  <2>1. GetUniqueRange(early).till = l.unique BY <1>1, <1>2, TillOfLast
  <2> QED BY <2>1 DEF UniqueUpTo, early
<1>4. Compare(k, l) <= 0 BY <1>1 DEF IsLast
<1>5. k.unique <= l.unique BY <1>4, ByUnique
<1> QED BY <1>1, <1>3, <1>5

(* Where no message is early, or the timestamp is the wildcard, it is 0. *)
LEMMA UpToNone ==
  ASSUME TypeOK, NEW ts \in Nat,
         \A k \in stored :
           Compare(k, [timestamp |-> ts, unique |-> 0]) <= 0 => k.unique = 0
  PROVE  UniqueUpTo(ts) = 0
<1> DEFINE early == {j \in stored :
                       Compare(j, [timestamp |-> ts, unique |-> 0]) <= 0}
<1>1. \A k \in early : k.unique = 0 OBVIOUS
<1> HIDE DEF early
<1>2. GetUniqueRange(early).till = 0
  <2>1. CASE \E k \in early : IsLast(k, early)
    <3>1. (CHOOSE k \in early : IsLast(k, early)) \in early BY <2>1
    <3> QED BY <1>1, <2>1, <3>1 DEF GetUniqueRange
  <2>2. CASE ~ \E k \in early : IsLast(k, early)
    BY <2>2 DEF GetUniqueRange
  <2> QED BY <2>1, <2>2
<1> QED BY <1>2 DEF UniqueUpTo, early

LEMMA CompareWithBound ==
  ASSUME NEW k \in StoredID, NEW ts \in Nat
  PROVE  Compare(k, [timestamp |-> ts, unique |-> 0]) <= 0 <=>
           IF ts = 0 THEN k.unique = 0
                     ELSE \/ k.timestamp < ts
                          \/ k.timestamp = ts /\ k.unique = 0
BY SMT DEF StoredID, Compare, compareByTs, compareByUnique, CompareNumbers

(* The bounds of a period are in order if the period is. *)
LEMMA BoundsInOrder ==
  ASSUME TypeOK, InOrder(stored), NEW f \in Nat, NEW t \in Nat, f <= t
  PROVE  UniqueUpTo(f) <= UniqueUpTo(t)
<1>1. \A ts \in Nat : UniqueUpTo(ts) \in Nat
  <2> TAKE ts \in Nat
  <2> DEFINE early == {k \in stored :
                         Compare(k, [timestamp |-> ts, unique |-> 0]) <= 0}
  <2>1. early \in SUBSET StoredID BY SubsampleAssumption DEF TypeOK
  <2>2. GetUniqueRange(early).till \in Nat BY <2>1, UniqueRangeType
  <2> QED BY <2>2 DEF UniqueUpTo
<1>2. \A k \in stored : k \in StoredID BY SubsampleAssumption DEF TypeOK
<1>3. CASE \A k \in stored :
             Compare(k, [timestamp |-> f, unique |-> 0]) <= 0 => k.unique = 0
  <2>1. UniqueUpTo(f) = 0 BY <1>3, UpToNone
  <2> QED BY <1>1, <2>1
<1>4. CASE \E k \in stored :
             Compare(k, [timestamp |-> f, unique |-> 0]) <= 0 /\ k.unique # 0
  <2>1. f # 0 BY <1>2, <1>4, CompareWithBound
  <2>2. PICK l \in stored :
          /\ Compare(l, [timestamp |-> f, unique |-> 0]) <= 0
          /\ UniqueUpTo(f) = l.unique
    BY <1>4, <2>1, UpToBounds
  <2>3. l.timestamp \in Nat BY <1>2 DEF StoredID
  <2>4. Compare(l, [timestamp |-> t, unique |-> 0]) <= 0
    BY <1>2, <2>1, <2>2, <2>3, CompareWithBound
  <2>5. t \in Nat \ {0} BY <2>1
  <2> QED BY <2>2, <2>4, <2>5, UpToBounds
<1> QED BY <1>3, <1>4

(* Every message sampled of a period is of it, or the last one before it,   *)
(* for every folder in order and every width of the integers.               *)
THEOREM SamplesAreNear == Spec => SampleIsNearPeriod
<1> DEFINE Near(k) == /\ k.timestamp <= request.till
                      /\ request.from <= k.timestamp \/ k.unique = from
           Sampled == /\ pc = "loop" /\ pc' = "write"
                      /\ ~ request.total
                      /\ request.from <= request.till
                      /\ \E k \in stored : k.unique = till /\ k.timestamp <= request.till
                      /\ BoundsHold
                      /\ InOrder(stored)
           NearPeriod == Sampled => \A n \in DOMAIN batch' :
                           batch'[n].sent # Blank => Near(batch'[n].sent)
<1>1. ASSUME TypeOK, [Next]_vars PROVE [NearPeriod]_vars
  <2> SUFFICES ASSUME Sampled, NEW n \in DOMAIN batch', batch'[n].sent # Blank
               PROVE  Near(batch'[n].sent)
    OBVIOUS
  <2> DEFINE k == batch'[n].sent
  <2>1. GetBatch
    BY <1>1 DEF Next, Step, Range, Write, Return, Put, Returned
  <2>2. batch'[n] \in Answers BY <2>1 DEF GetBatch
  <2>3. PICK u \in Drawn :
          \E m \in Lookup([timestamp |-> 0, unique |-> u]) :
             batch'[n] = [unique |-> u, sent |-> m]
    BY <2>2 DEF Answers
  <2>4. u \in Nat BY <1>1, <2>3, DrawnType
  <2>5. k \in stored /\ k.unique = u
    <3>1. k \in Lookup([timestamp |-> 0, unique |-> u]) BY <2>3
    <3>2. k \in stored /\ Compare(k, [timestamp |-> 0, unique |-> u]) = 0
      BY <3>1 DEF Lookup, Matches
    <3>3. k \in StoredID BY <1>1, <3>2, SubsampleAssumption DEF TypeOK
    <3> QED BY <2>4, <3>2, <3>3, WildcardMatches
  <2> HIDE DEF k
  <2>6. /\ from = UniqueUpTo(request.from) /\ till = UniqueUpTo(request.till)
        /\ from \in Nat /\ till \in Nat
    BY <1>1, BoundsType DEF BoundsHold, UniqueRange, GetUniqueRangeForTS
  <2>7. /\ request.from \in Nat /\ request.till \in Nat
        /\ request.from <= request.till
    BY <1>1, RequestType
  <2>8. from <= till BY <1>1, <2>6, <2>7, BoundsInOrder
  <2>9. from <= k.unique /\ k.unique <= till
    <3>1. u \in from..till BY <2>3, <2>6, <2>8 DEF Drawn
    <3> QED BY <2>4, <2>5, <2>6, <3>1
  <2>10. k \in StoredID /\ k.timestamp \in Nat /\ k.unique \in Nat
    BY <1>1, <2>5, SubsampleAssumption DEF TypeOK, StoredID
  <2>11. k.timestamp <= request.till
    <3>1. PICK last \in stored :
            last.unique = till /\ last.timestamp <= request.till
      OBVIOUS
    <3>2. last \in StoredID /\ Compare(k, last) <= 0
      BY <1>1, <2>5, <2>9, <3>1, ByUnique
    <3>3. last.timestamp \in Nat BY <3>2 DEF StoredID
    <3>4. k.timestamp <= last.timestamp
      BY <2>10, <3>2, <3>3, CompareStored
    <3> QED BY <2>7, <2>10, <3>1, <3>3, <3>4
  <2>12. ASSUME k.timestamp < request.from PROVE k.unique = from
    <3>1. request.from \in Nat \ {0} BY <2>7, <2>10, <2>12
    <3>2. Compare(k, [timestamp |-> request.from, unique |-> 0]) <= 0
      BY <2>7, <2>10, <2>12, <3>1, CompareWithBound
    <3>3. k.unique <= from BY <1>1, <2>5, <2>6, <3>1, <3>2, UpToBounds
    <3> QED BY <2>6, <2>9, <2>10, <3>3
  <2> QED BY <2>7, <2>10, <2>11, <2>12 DEF k
<1>2. Spec => [][NearPeriod]_vars
  BY <1>1, InitType, NextType, PTL DEF Spec
<1> QED BY <1>2 DEF SampleIsNearPeriod
=============================================================================
