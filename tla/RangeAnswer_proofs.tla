------------------------- MODULE RangeAnswer_proofs -------------------------
(***************************************************************************)
(* A range request from the scan to the client, for every set of stored    *)
(* keys, every request and every body.                                     *)
(*                                                                         *)
(* First, DbClient::Iter implements Range: its steps are steps of Range or *)
(* leave Range's variables alone.  Then, the frames of the answer: what    *)
(* the client decodes is a first part of what was sent, and the limits of  *)
(* the request hold for the bytes on the wire.  That scan and decoding     *)
(* come to an end is left to TLC.                                          *)
(***************************************************************************)
EXTENDS RangeAnswer, IDComparator_proofs

USE DEF request, answer

-----------------------------------------------------------------------------
(* Compare on stored keys, in terms of their numbers. *)
LEMMA Orders ==
  ASSUME NEW a \in StoredID, NEW b \in StoredID
  PROVE  /\ Compare(a, b) <= 0 <=> \/ a.timestamp < b.timestamp
                                   \/ a.timestamp = b.timestamp /\ a.unique <= b.unique
         /\ Compare(a, b) < 0 <=> \/ a.timestamp < b.timestamp
                                  \/ a.timestamp = b.timestamp /\ a.unique < b.unique
         /\ Compare(a, b) > 0 <=> Compare(b, a) < 0
         /\ a = b \/ Compare(a, b) < 0 \/ Compare(b, a) < 0
<1>1. a = b <=> a.timestamp = b.timestamp /\ a.unique = b.unique
  BY SMT DEF StoredID
<1> QED
  BY <1>1, SMT DEF StoredID, Compare, compareByTs, compareByUnique, CompareNumbers

(* Range has its own copy of the comparator. *)
LEMMA SameCompare ==
  ASSUME NEW a, NEW b
  PROVE  Abstract!Compare(a, b) = Compare(a, b)
BY DEF Abstract!Compare, Abstract!compareByTs, Abstract!compareByUnique,
       Abstract!CompareNumbers, Compare, compareByTs, compareByUnique, CompareNumbers

LEMMA AtOrBeforeMeans ==
  ASSUME NEW key
  PROVE  Abstract!AtOrBefore(key) = {k \in stored : Compare(k, key) <= 0}
BY SameCompare DEF Abstract!AtOrBefore

(* What it is for a key to be sent before another. *)
LEMMA PrecedesMeans ==
  ASSUME NEW a \in StoredID, NEW b \in StoredID
  PROVE  Abstract!Precedes(a, b) <=>
           IF query.reverse THEN Compare(b, a) < 0 ELSE Compare(a, b) < 0
<1>1. CASE query.reverse BY <1>1, Orders, SameCompare DEF Abstract!Precedes
<1>2. CASE ~ query.reverse BY <1>2, SameCompare DEF Abstract!Precedes
<1> QED BY <1>1, <1>2

LEMMA KeyAtIsStored ==
  ASSUME NEW t \in Nat \ {0}
  PROVE  Abstract!KeyAt(t) \in StoredID
BY DEF Abstract!KeyAt, StoredID

LEMMA KeysAreStored ==
  ASSUME TypeOK
  PROVE  /\ stored \subseteq StoredID
         /\ query \in Query
         /\ Invalid \notin stored
BY ScanAssumption DEF TypeOK

(* Where the scan is when it has sought or advanced: at the end of a set.   *)
LEMMA FirstOf ==
  ASSUME NEW K \in SUBSET StoredID, MoveToFirst(K), Invalid \notin K
  PROVE  /\ iter' = Invalid <=> K = {}
         /\ iter' \in K \cup {Invalid}
         /\ \A k \in K : iter' # Invalid /\ (k = iter' \/ Compare(iter', k) < 0)
<1>1. CASE K = {} /\ iter' = Invalid BY <1>1
<1>2. CASE IsFirst(iter', K)
  <2>1. iter' \in K /\ iter' \in StoredID BY <1>2 DEF IsFirst
  <2>2. ASSUME NEW k \in K PROVE k = iter' \/ Compare(iter', k) < 0
    <3>1. Compare(iter', k) <= 0 BY <1>2 DEF IsFirst
    <3>2. Compare(iter', k) \in {-1, 0, 1}
      BY <2>1, StoredIsID, CompareAntisymmetric
    <3>3. Compare(iter', k) = 0 <=> iter' = k BY <2>1, CompareIsZero
    <3> QED BY <3>1, <3>2, <3>3
  <2> QED BY <2>1, <2>2
<1> QED BY <1>1, <1>2 DEF MoveToFirst

LEMMA LastOf ==
  ASSUME NEW K \in SUBSET StoredID, MoveToLast(K), Invalid \notin K
  PROVE  /\ iter' = Invalid <=> K = {}
         /\ iter' \in K \cup {Invalid}
         /\ \A k \in K : iter' # Invalid /\ (k = iter' \/ Compare(k, iter') < 0)
<1>1. CASE K = {} /\ iter' = Invalid BY <1>1
<1>2. CASE IsLast(iter', K)
  <2>1. iter' \in K /\ iter' \in StoredID BY <1>2 DEF IsLast
  <2>2. ASSUME NEW k \in K PROVE k = iter' \/ Compare(k, iter') < 0
    <3>1. Compare(k, iter') <= 0 BY <1>2 DEF IsLast
    <3>2. Compare(k, iter') \in {-1, 0, 1}
      BY <2>1, StoredIsID, CompareAntisymmetric
    <3>3. Compare(k, iter') = 0 <=> k = iter' BY <2>1, CompareIsZero
    <3> QED BY <3>1, <3>2, <3>3
  <2> QED BY <2>1, <2>2
<1> QED BY <1>1, <1>2 DEF MoveToLast

-----------------------------------------------------------------------------
LEMMA InitInv == Init => ScanInv
BY ScanAssumption DEF Init, ScanInv, TypeOK, PendingIsAhead

LEMMA NextType == TypeOK /\ [Next]_vars => TypeOK'
<1> SUFFICES ASSUME TypeOK, [Next]_vars PROVE TypeOK'
  OBVIOUS
<1> USE KeysAreStored DEF TypeOK
<1>1. ASSUME NEW K \in SUBSET stored, MoveToFirst(K) \/ MoveToLast(K)
      PROVE  iter' \in stored \cup {Invalid}
  BY <1>1 DEF MoveToFirst, MoveToLast, IsFirst, IsLast
<1>2. CASE SeekEnd BY <1>1, <1>2 DEF SeekEnd
<1>3. CASE SeekKey BY <1>1, <1>3 DEF SeekKey, SeekForPrev
<1>4. CASE Fallback BY <1>1, <1>4 DEF Fallback
<1>5. CASE Break BY <1>5 DEF Break
<1>6. CASE Continue BY <1>6 DEF Continue
<1>7. CASE Send BY <1>7, ScanAssumption DEF Send
<1>8. CASE Advance BY <1>1, <1>8 DEF Advance
<1>9. CASE UNCHANGED vars BY <1>9 DEF vars
<1> QED
  BY <1>2, <1>3, <1>4, <1>5, <1>6, <1>7, <1>8, <1>9 DEF Next, Returned

(* PendingIsAhead and the clause on reverse scans, after a move of iter.    *)
Sought ==
  /\ iter # Invalid /\ query.reverse =>
       \/ query.till = 0
       \/ Abstract!AtOrBefore(Abstract!KeyAt(query.till)) = {}
       \/ iter \in Abstract!AtOrBefore(Abstract!KeyAt(query.till))
  /\ \A k \in stored :
       k \in Abstract!Pending <=> Abstract!InPeriod(k) /\ (k = iter \/ Ahead(k))

LEMMA SoughtInv ==
  ASSUME TypeOK', messagesSend' = Len(sent'),
         \A i \in DOMAIN sent' : sent'[i] \in stored',
         pc' = "loop", Sought'
  PROVE  ScanInv'
BY DEF ScanInv, PendingIsAhead, Sought

(* The seeks: everything in the period is pending, and the iterator comes  *)
(* to the first message of it, or before that.                             *)
LEMMA StartSought ==
  ASSUME TypeOK, TypeOK', sent = <<>>, UNCHANGED <<query, stored, sent>>,
         \A k \in stored : Abstract!InPeriod(k) =>
           /\ iter' # Invalid
           /\ k = iter' \/ Abstract!Precedes(iter', k),
         query.reverse /\ iter' # Invalid =>
           \/ query.till = 0
           \/ Abstract!AtOrBefore(Abstract!KeyAt(query.till)) = {}
           \/ iter' \in Abstract!AtOrBefore(Abstract!KeyAt(query.till))
  PROVE  Sought'
<1>1. \A k \in stored : (k \in Abstract!Pending)' <=> Abstract!InPeriod(k)
  BY DEF Abstract!Pending, Abstract!InPeriod, Abstract!AtOrBefore
<1>2. ASSUME NEW k \in stored
      PROVE  (k \in Abstract!Pending <=> Abstract!InPeriod(k) /\ (k = iter \/ Ahead(k)))'
  BY <1>1, <1>2
     DEF Ahead, Abstract!InPeriod, Abstract!AtOrBefore, Abstract!Precedes
<1> QED BY <1>2 DEF Sought, Abstract!AtOrBefore

LEMMA SeekEndSought ==
  ASSUME ScanInv, TypeOK', SeekEnd
  PROVE  Sought'
<1>1. stored \in SUBSET StoredID /\ Invalid \notin stored
  BY KeysAreStored DEF ScanInv
<1>2. CASE ~ query.reverse /\ MoveToFirst(stored)
  <2>1. \A k \in stored : iter' # Invalid /\ (k = iter' \/ Compare(iter', k) < 0)
    BY <1>1, <1>2, FirstOf
  <2>2. ASSUME NEW k \in stored PROVE k = iter' \/ Abstract!Precedes(iter', k)
    BY <1>2, <2>1, SameCompare DEF Abstract!Precedes
  <2> QED BY <1>2, <2>1, <2>2, StartSought DEF SeekEnd, ScanInv
<1>3. CASE query.reverse /\ query.till = 0 /\ MoveToLast(stored)
  <2>1. /\ iter' \in stored \cup {Invalid}
        /\ \A k \in stored : iter' # Invalid /\ (k = iter' \/ Compare(k, iter') < 0)
    BY <1>1, <1>3, LastOf
  <2>2. ASSUME NEW k \in stored PROVE k = iter' \/ Abstract!Precedes(iter', k)
    BY <1>1, <1>3, <2>1, PrecedesMeans
  <2> QED BY <1>3, <2>1, <2>2, StartSought DEF SeekEnd, ScanInv
<1> QED BY <1>2, <1>3 DEF SeekEnd

LEMMA SeekKeyInv ==
  ASSUME ScanInv, TypeOK', SeekKey
  PROVE  ScanInv'
<1> DEFINE bound == IF query.reverse THEN query.till ELSE query.from
           key == Abstract!KeyAt(bound)
           K == Abstract!AtOrBefore(key)
<1>1. stored \in SUBSET StoredID /\ Invalid \notin stored /\ query \in Query
  BY KeysAreStored DEF ScanInv
<1>2. bound \in Nat \ {0} BY <1>1 DEF SeekKey, Query
<1>3. key \in StoredID BY <1>2, KeyAtIsStored
<1>4. K \in SUBSET stored /\ MoveToLast(K)
  <2>1. SeekForPrev(key) BY DEF SeekKey, Abstract!KeyAt
  <2> HIDE DEF key
  <2>2. K = {k \in stored : Compare(k, key) <= 0} BY AtOrBeforeMeans
  <2>3. MoveToLast({k \in stored : Compare(k, key) <= 0}) BY <2>1 DEF SeekForPrev
  <2> HIDE DEF K
  <2> QED BY <2>2, <2>3
<1>5. /\ iter' = Invalid <=> K = {}
      /\ iter' \in K \cup {Invalid}
      /\ \A k \in K : k = iter' \/ Compare(k, iter') < 0
  BY <1>1, <1>4, LastOf
<1>6. UNCHANGED <<query, stored, sent, messagesSend, bytesSend>> BY DEF SeekKey
<1>7. sent = <<>> /\ messagesSend = Len(sent) BY DEF ScanInv, SeekKey
<1>8. CASE iter' = Invalid
  <2>1. pc' = "fallback" BY <1>8 DEF SeekKey
  <2> QED
    BY <1>2, <1>5, <1>6, <1>7, <1>8, <2>1
       DEF ScanInv, PendingIsAhead, Abstract!AtOrBefore, Abstract!KeyAt
<1>9. CASE iter' # Invalid
  <2>1. pc' = "loop" BY <1>9 DEF SeekKey
  <2>2. iter' \in StoredID /\ Compare(iter', key) <= 0
    <3> HIDE DEF key
    <3>1. iter' \in K BY <1>5, <1>9
    <3> QED BY <1>1, <3>1, AtOrBeforeMeans
  <2>3. ASSUME NEW k \in stored, Abstract!InPeriod(k)
        PROVE  k = iter' \/ Abstract!Precedes(iter', k)
    <3>1. k \in StoredID BY <1>1
    <3>2. CASE query.reverse
      <4>1. k \in K
        BY <1>2, <1>5, <1>9, <2>3, <3>2 DEF Abstract!InPeriod
      <4> QED BY <1>5, <2>2, <3>1, <3>2, <4>1, PrecedesMeans
    <3>3. CASE ~ query.reverse
      <4>1. query.from <= k.timestamp BY <2>3, <3>3 DEF Abstract!InPeriod
      <4>2. /\ key.timestamp = query.from
            /\ key.unique = 0
        BY <3>3 DEF Abstract!KeyAt
      <4>3. Compare(key, k) <= 0
        BY <1>3, <3>1, <4>1, <4>2, Orders DEF StoredID
      <4>4. Compare(iter', k) <= 0
        BY <1>3, <2>2, <3>1, <4>3, CompareTransitive
      <4>5. k = iter' \/ Compare(iter', k) < 0
        BY <2>2, <3>1, <4>4, CompareAntisymmetric, CompareIsZero, StoredIsID
      <4> QED BY <2>2, <3>1, <3>3, <4>5, PrecedesMeans
    <3> QED BY <3>2, <3>3
  <2>4. Sought'
    BY <1>5, <1>6, <1>7, <1>9, <2>3, StartSought DEF ScanInv
  <2>5. \A i \in DOMAIN sent' : sent'[i] \in stored' BY <1>6, <1>7
  <2> QED BY <1>6, <1>7, <2>1, <2>4, <2>5, SoughtInv
<1> QED BY <1>8, <1>9

LEMMA FallbackSought ==
  ASSUME ScanInv, TypeOK', Fallback
  PROVE  Sought'
<1>1. stored \in SUBSET StoredID /\ Invalid \notin stored
  BY KeysAreStored DEF ScanInv
<1>2. CASE ~ query.reverse /\ MoveToFirst(stored)
  <2>1. \A k \in stored : iter' # Invalid /\ (k = iter' \/ Compare(iter', k) < 0)
    BY <1>1, <1>2, FirstOf
  <2>2. ASSUME NEW k \in stored PROVE k = iter' \/ Abstract!Precedes(iter', k)
    BY <1>2, <2>1, SameCompare DEF Abstract!Precedes
  <2> QED BY <1>2, <2>1, <2>2, StartSought DEF Fallback, ScanInv
<1>3. CASE query.reverse /\ MoveToLast(stored)
  <2>1. /\ iter' \in stored \cup {Invalid}
        /\ \A k \in stored : iter' # Invalid /\ (k = iter' \/ Compare(k, iter') < 0)
    BY <1>1, <1>3, LastOf
  <2>2. ASSUME NEW k \in stored PROVE k = iter' \/ Abstract!Precedes(iter', k)
    BY <1>1, <1>3, <2>1, PrecedesMeans
  <2>3. Abstract!AtOrBefore(Abstract!KeyAt(query.till)) = {}
    BY <1>3 DEF Fallback, ScanInv
  <2> QED BY <1>3, <2>1, <2>2, <2>3, StartSought DEF Fallback, ScanInv
<1> QED BY <1>2, <1>3 DEF Fallback

-----------------------------------------------------------------------------
(* The loop.                                                               *)

LEMMA SameRequest ==
  ASSUME UNCHANGED <<query, stored>>, NEW k
  PROVE  /\ Abstract!InPeriod(k)' <=> Abstract!InPeriod(k)
         /\ Abstract!AtOrBefore(Abstract!KeyAt(query.till))'
              = Abstract!AtOrBefore(Abstract!KeyAt(query.till))
BY DEF Abstract!InPeriod, Abstract!AtOrBefore

(* A message that is not after the iterator's is not ahead of it. *)
LEMMA NotAheadOfItself ==
  ASSUME ScanInv, iter # Invalid
  PROVE  iter \in StoredID /\ iter \in stored /\ ~ Ahead(iter)
<1>1. iter \in stored /\ iter \in StoredID BY KeysAreStored DEF ScanInv, TypeOK
<1>2. ~ (Compare(iter, iter) < 0) BY <1>1, Orders DEF StoredID
<1> QED BY <1>1, <1>2, PrecedesMeans DEF Ahead

LEMMA ContinueInv == ScanInv /\ TypeOK' /\ Continue => ScanInv'
<1> SUFFICES ASSUME ScanInv, TypeOK', Continue PROVE ScanInv'
  OBVIOUS
<1>1. UNCHANGED <<query, stored, iter, sent, messagesSend, bytesSend>>
  BY DEF Continue
<1>2. iter # Invalid /\ pc = "loop" /\ pc' = "advance" BY DEF Continue
<1>3. iter \in StoredID BY <1>2, NotAheadOfItself
<1>4. ~ Abstract!InPeriod(iter)
  <2>1. ~ query.reverse /\ query.from > iter.timestamp
    BY DEF Continue, BeforePeriod
  <2>2. query.from \in Nat /\ iter.timestamp \in Nat
    BY <1>3, KeysAreStored DEF ScanInv, Query, StoredID
  <2>3. ~ (query.from <= iter.timestamp) BY <2>1, <2>2
  <2> QED BY <2>1, <2>3 DEF Abstract!InPeriod
<1>5. ASSUME NEW k \in stored
      PROVE  k \in Abstract!Pending <=> Abstract!InPeriod(k) /\ Ahead(k)
  BY <1>2, <1>4 DEF ScanInv, PendingIsAhead
<1>6. PendingIsAhead'
  BY <1>1, <1>2, <1>5
     DEF PendingIsAhead, Ahead, Abstract!Pending, Abstract!InPeriod,
         Abstract!AtOrBefore, Abstract!Precedes
<1> QED BY <1>1, <1>2, <1>6 DEF ScanInv, Abstract!AtOrBefore

(* The iterator is at the next message of the period. *)
LEMMA SendIsPending ==
  ASSUME ScanInv, Send
  PROVE  iter \in Abstract!Pending
<1>1. pc = "loop" /\ iter # Invalid /\ ~ PastPeriod /\ ~ BeforePeriod BY DEF Send
<1>2. iter \in StoredID /\ iter \in stored BY <1>1, NotAheadOfItself
<1>3. /\ query.from \in Nat /\ query.till \in Nat /\ query.reverse \in BOOLEAN
      /\ iter.timestamp \in Nat
  BY <1>2, KeysAreStored DEF ScanInv, Query, StoredID
<1>4. CASE query.reverse
  <2>1. query.from = 0 \/ query.from < iter.timestamp
    BY <1>1, <1>3, <1>4 DEF PastPeriod
  <2>2. \/ query.till = 0
        \/ Abstract!AtOrBefore(Abstract!KeyAt(query.till)) = {}
        \/ iter \in Abstract!AtOrBefore(Abstract!KeyAt(query.till))
    BY <1>1, <1>4 DEF ScanInv
  <2>3. Abstract!InPeriod(iter) BY <1>4, <2>1, <2>2 DEF Abstract!InPeriod
  <2> QED BY <1>1, <1>2, <2>3 DEF ScanInv, PendingIsAhead
<1>5. CASE ~ query.reverse
  <2>1. query.till = 0 \/ iter.timestamp <= query.till
    BY <1>1, <1>3, <1>5 DEF PastPeriod
  <2>2. query.from <= iter.timestamp BY <1>1, <1>3, <1>5 DEF BeforePeriod
  <2>3. Abstract!InPeriod(iter) BY <1>5, <2>1, <2>2 DEF Abstract!InPeriod
  <2> QED BY <1>1, <1>2, <2>3 DEF ScanInv, PendingIsAhead
<1> QED BY <1>3, <1>4, <1>5

LEMMA SendInv == ScanInv /\ TypeOK' /\ Send => ScanInv'
<1> SUFFICES ASSUME ScanInv, TypeOK', Send PROVE ScanInv'
  OBVIOUS
<1>1. /\ UNCHANGED <<query, stored, iter>>
      /\ pc = "loop" /\ pc' = "advance" /\ iter # Invalid
      /\ sent' = Append(sent, iter) /\ messagesSend' = messagesSend + 1
  BY DEF Send
<1>2. iter \in stored /\ ~ Ahead(iter) BY <1>1, NotAheadOfItself
<1>3. sent \in Seq(Keys) BY DEF ScanInv, TypeOK
<1>4. /\ Len(sent') = Len(sent) + 1
      /\ \A i \in DOMAIN sent' : \/ i \in DOMAIN sent /\ sent'[i] = sent[i]
                                 \/ sent'[i] = iter
      /\ \A i \in DOMAIN sent : i \in DOMAIN sent' /\ sent'[i] = sent[i]
      /\ Len(sent') \in DOMAIN sent' /\ sent'[Len(sent')] = iter
  BY <1>1, <1>3
<1>5. ASSUME NEW k \in stored
      PROVE  (k \in Abstract!Pending)' <=> k \in Abstract!Pending /\ k # iter
  BY <1>1, <1>4 DEF Abstract!Pending, Abstract!InPeriod, Abstract!AtOrBefore
<1>6. ASSUME NEW k \in stored
      PROVE  (k \in Abstract!Pending)' <=> Abstract!InPeriod(k) /\ Ahead(k)
  BY <1>1, <1>2, <1>5 DEF ScanInv, PendingIsAhead
<1>7. PendingIsAhead'
  BY <1>1, <1>6
     DEF PendingIsAhead, Ahead, Abstract!InPeriod, Abstract!AtOrBefore,
         Abstract!Precedes
<1>8. messagesSend' = Len(sent') BY <1>1, <1>4 DEF ScanInv
<1>9. \A i \in DOMAIN sent' : sent'[i] \in stored'
  BY <1>1, <1>2, <1>4 DEF ScanInv
<1> QED BY <1>1, <1>7, <1>8, <1>9 DEF ScanInv, Abstract!AtOrBefore

LEMMA PrecedesTransitive ==
  ASSUME NEW a \in StoredID, NEW b \in StoredID, NEW c \in StoredID,
         Abstract!Precedes(a, b), Abstract!Precedes(b, c)
  PROVE  Abstract!Precedes(a, c)
<1>1. CASE query.reverse
  <2>1. Compare(b, a) < 0 /\ Compare(c, b) < 0 BY <1>1, PrecedesMeans
  <2>2. Compare(c, a) < 0 BY <2>1, Orders, SMT DEF StoredID
  <2> QED BY <1>1, <2>2, PrecedesMeans
<1>2. CASE ~ query.reverse
  <2>1. Compare(a, b) < 0 /\ Compare(b, c) < 0 BY <1>2, PrecedesMeans
  <2>2. Compare(a, c) < 0 BY <2>1, Orders, SMT DEF StoredID
  <2> QED BY <1>2, <2>2, PrecedesMeans
<1> QED BY <1>1, <1>2

LEMMA AdvanceInv == ScanInv /\ TypeOK' /\ Advance => ScanInv'
<1> SUFFICES ASSUME ScanInv, TypeOK', Advance PROVE ScanInv'
  OBVIOUS
<1> DEFINE later == {k \in stored : Abstract!Precedes(iter, k)}
<1>1. /\ UNCHANGED <<query, stored, sent, messagesSend, bytesSend>>
      /\ pc = "advance" /\ pc' = "loop" /\ iter # Invalid
  BY DEF Advance, ScanInv
<1>2. iter \in StoredID /\ iter \in stored BY <1>1, NotAheadOfItself
<1>3. stored \in SUBSET StoredID /\ Invalid \notin stored /\ query \in Query
  BY KeysAreStored DEF ScanInv
<1>4. /\ iter' \in later \cup {Invalid}
      /\ \A k \in later : iter' # Invalid /\ (k = iter' \/ Abstract!Precedes(iter', k))
  <2>1. CASE query.reverse
    <3>1. {k \in stored : Compare(k, iter) < 0} = later
      BY <1>2, <1>3, <2>1, PrecedesMeans
    <3>2. MoveToLast(later) BY <2>1, <3>1 DEF Advance
    <3>3. /\ iter' \in later \cup {Invalid}
          /\ \A k \in later : iter' # Invalid /\ (k = iter' \/ Compare(k, iter') < 0)
      BY <1>3, <3>2, LastOf
    <3> QED BY <1>3, <2>1, <3>3, PrecedesMeans
  <2>2. CASE ~ query.reverse
    <3>1. {k \in stored : Compare(k, iter) > 0} = later
      BY <1>2, <1>3, <2>2, PrecedesMeans, Orders
    <3>2. MoveToFirst(later) BY <2>2, <3>1 DEF Advance
    <3>3. /\ iter' \in later \cup {Invalid}
          /\ \A k \in later : iter' # Invalid /\ (k = iter' \/ Compare(iter', k) < 0)
      BY <1>3, <3>2, FirstOf
    <3> QED BY <1>3, <2>2, <3>3, PrecedesMeans
  <2> QED BY <2>1, <2>2
<1>5. ASSUME NEW k \in stored
      PROVE  k \in Abstract!Pending <=>
               /\ Abstract!InPeriod(k)
               /\ iter' # Invalid
               /\ k = iter' \/ Abstract!Precedes(iter', k)
  <2>1. k \in Abstract!Pending <=> Abstract!InPeriod(k) /\ k \in later
    BY <1>1 DEF ScanInv, PendingIsAhead, Ahead
  <2>2. iter' # Invalid /\ Abstract!Precedes(iter', k) => k \in later
    BY <1>2, <1>3, <1>4, PrecedesTransitive
  <2> QED BY <1>4, <2>1, <2>2
<1>6. PendingIsAhead'
  <2>1. ASSUME NEW k \in stored
        PROVE  /\ (k \in Abstract!Pending)' <=> k \in Abstract!Pending
               /\ Abstract!InPeriod(k)' <=> Abstract!InPeriod(k)
    BY <1>1 DEF Abstract!Pending, Abstract!InPeriod, Abstract!AtOrBefore
  <2>2. ASSUME NEW k \in stored
        PROVE  Ahead(k)' <=> iter' # Invalid /\ Abstract!Precedes(iter', k)
    BY <1>1 DEF Ahead, Abstract!Precedes
  <2>3. ASSUME NEW k \in stored
        PROVE  (k \in Abstract!Pending <=> Abstract!InPeriod(k) /\ (k = iter \/ Ahead(k)))'
    <3>1. k = iter' /\ iter' = Invalid => FALSE BY <1>3
    <3> QED BY <1>5, <2>1, <2>2, <3>1
  <2> QED BY <1>1, <2>3 DEF PendingIsAhead
<1>7. ASSUME iter' # Invalid, query.reverse, query.till # 0,
             iter \in Abstract!AtOrBefore(Abstract!KeyAt(query.till))
      PROVE  iter' \in Abstract!AtOrBefore(Abstract!KeyAt(query.till))
  <2> DEFINE key == Abstract!KeyAt(query.till)
  <2>1. key \in StoredID BY <1>3, <1>7, KeyAtIsStored DEF Query
  <2>2. iter' \in stored /\ iter' \in StoredID /\ Compare(iter', iter) < 0
    BY <1>2, <1>3, <1>4, <1>7, PrecedesMeans
  <2> HIDE DEF key
  <2>3. Compare(iter, key) <= 0 BY <1>7, AtOrBeforeMeans DEF key
  <2>4. Compare(iter', iter) <= 0 BY <1>2, <2>2, Orders, SMT DEF StoredID
  <2>5. Compare(iter', key) <= 0 BY <1>2, <2>1, <2>2, <2>3, <2>4, CompareTransitive
  <2> QED BY <2>2, <2>5, AtOrBeforeMeans DEF key
<1> QED BY <1>1, <1>6, <1>7 DEF ScanInv, Abstract!AtOrBefore

LEMMA NextInv == ScanInv /\ [Next]_vars => ScanInv'
<1> SUFFICES ASSUME ScanInv, [Next]_vars PROVE ScanInv'
  OBVIOUS
<1>1. TypeOK' BY NextType DEF ScanInv
<1>2. CASE SeekEnd
  <2>1. Sought' BY <1>1, <1>2, SeekEndSought
  <2> QED BY <1>1, <1>2, <2>1, SoughtInv DEF SeekEnd, ScanInv
<1>3. CASE SeekKey BY <1>1, <1>3, SeekKeyInv
<1>4. CASE Fallback
  <2>1. Sought' BY <1>1, <1>4, FallbackSought
  <2> QED BY <1>1, <1>4, <2>1, SoughtInv DEF Fallback, ScanInv
<1>5. CASE Break
  BY <1>1, <1>5 DEF Break, ScanInv, PendingIsAhead
<1>6. CASE Continue BY <1>1, <1>6, ContinueInv
<1>7. CASE Send BY <1>1, <1>7, SendInv
<1>8. CASE Advance BY <1>1, <1>8, AdvanceInv
<1>9. CASE UNCHANGED vars
  BY <1>1, <1>9
     DEF vars, ScanInv, PendingIsAhead, Ahead, Abstract!Pending,
         Abstract!InPeriod, Abstract!AtOrBefore, Abstract!Precedes
<1> QED
  BY <1>2, <1>3, <1>4, <1>5, <1>6, <1>7, <1>8, <1>9 DEF Next, Returned

(* The iterator walks the period from the one end to the other. *)
THEOREM ScanInvHolds == Spec => []ScanInv
BY InitInv, NextInv, PTL DEF Spec

(* What is left to send is always what lies ahead of the iterator. *)
THEOREM PendingHolds == Spec => []PendingIsAhead
<1>1. ScanInv => PendingIsAhead BY DEF ScanInv
<1> QED BY <1>1, ScanInvHolds, PTL

-----------------------------------------------------------------------------
(* The refinement.                                                         *)

(* Breaking off leaves nothing to send, or nothing the limits allow. *)
LEMMA BreakIsEnd ==
  ASSUME ScanInv, Break
  PROVE  Abstract!Pending = {} \/ Abstract!LimitReached
<1>1. pc = "loop" BY DEF Break
<1>2. CASE iter = Invalid
  BY <1>1, <1>2, ScanAssumption
     DEF ScanInv, TypeOK, PendingIsAhead, Ahead, Abstract!Pending
<1>3. CASE iter # Invalid /\ PastPeriod
  <2>1. iter \in StoredID /\ iter \in stored BY <1>3, NotAheadOfItself
  <2>2. stored \subseteq StoredID /\ query \in Query BY KeysAreStored DEF ScanInv
  <2>3. ASSUME NEW k \in stored, k = iter \/ Ahead(k)
        PROVE  ~ Abstract!InPeriod(k)
    <3>1. k \in StoredID BY <2>2
    <3>2. CASE query.reverse
      <4>1. k.timestamp <= iter.timestamp
        BY <2>1, <2>3, <3>1, <3>2, PrecedesMeans, Orders, SMT DEF Ahead, StoredID
      <4>2. query.from # 0 /\ ~ (query.from < k.timestamp)
        BY <1>3, <2>1, <2>2, <3>1, <3>2, <4>1 DEF PastPeriod, Query, StoredID
      <4> QED BY <3>2, <4>2 DEF Abstract!InPeriod
    <3>3. CASE ~ query.reverse
      <4>1. iter.timestamp <= k.timestamp
        BY <2>1, <2>3, <3>1, <3>3, PrecedesMeans, Orders, SMT DEF Ahead, StoredID
      <4>2. query.till # 0 /\ ~ (k.timestamp <= query.till)
        BY <1>3, <2>1, <2>2, <3>1, <3>3, <4>1 DEF PastPeriod, Query, StoredID
      <4> QED BY <3>3, <4>2 DEF Abstract!InPeriod
    <3> QED BY <3>2, <3>3
  <2> QED BY <1>1, <2>3 DEF ScanInv, PendingIsAhead, Abstract!Pending
<1>4. CASE LimitReached
  BY <1>4 DEF ScanInv, LimitReached, Abstract!LimitReached
<1> QED BY <1>2, <1>3, <1>4 DEF Break

LEMMA SendIsSend ==
  ASSUME ScanInv, Send
  PROVE  Abstract!Next
<1>1. pc = "loop" /\ pc' = "advance" /\ iter # Invalid /\ ~ LimitReached BY DEF Send
<1>2. iter \in Abstract!Pending BY SendIsPending
<1>3. iter \in Keys BY <1>1, ScanAssumption DEF ScanInv, TypeOK
<1>4. \A l \in Abstract!Pending : l = iter \/ Abstract!Precedes(iter, l)
  BY <1>1 DEF ScanInv, PendingIsAhead, Ahead, Abstract!Pending
<1>5. ~ Abstract!LimitReached
  BY <1>1 DEF ScanInv, LimitReached, Abstract!LimitReached
<1>6. (pc = "done") = FALSE /\ (pc' = "done") = FALSE BY <1>1
<1>7. Abstract!Send(iter)
  BY <1>1, <1>2, <1>4, <1>5, <1>6 DEF Abstract!Send, Send
<1> QED BY <1>3, <1>7 DEF Abstract!Next

(* DbClient::Iter sends what a range request promises and nothing else. *)
THEOREM ScanRefines == Spec => Abstract!Spec
<1>1. Init => Abstract!Init
  <2>1. Init => (pc = "done") = FALSE BY DEF Init
  <2> QED BY <2>1 DEF Init, Abstract!Init
<1>2. ScanInv /\ [Next]_vars => [Abstract!Next]_Abstract!vars
  <2> SUFFICES ASSUME ScanInv, [Next]_vars PROVE [Abstract!Next]_Abstract!vars
    OBVIOUS
  <2>1. ASSUME UNCHANGED <<query, stored, sent, bytesSend>>,
               pc # "done", pc' # "done"
        PROVE  UNCHANGED Abstract!vars
    BY <2>1 DEF Abstract!vars
  <2>2. CASE SeekEnd BY <2>1, <2>2 DEF SeekEnd
  <2>3. CASE SeekKey BY <2>1, <2>3 DEF SeekKey
  <2>4. CASE Fallback BY <2>1, <2>4 DEF Fallback
  <2>5. CASE Break
    <3>1. Abstract!Pending = {} \/ Abstract!LimitReached BY <2>5, BreakIsEnd
    <3>2. (pc = "done") = FALSE /\ (pc' = "done") = TRUE BY <2>5 DEF Break
    <3>3. Abstract!End BY <2>5, <3>1, <3>2 DEF Abstract!End, Break
    <3> QED BY <3>3 DEF Abstract!Next
  <2>6. CASE Continue BY <2>1, <2>6 DEF Continue
  <2>7. CASE Send BY <2>7, SendIsSend
  <2>8. CASE Advance BY <2>1, <2>8 DEF Advance
  <2>9. CASE UNCHANGED vars BY <2>9 DEF vars, Abstract!vars
  <2> QED
    BY <2>2, <2>3, <2>4, <2>5, <2>6, <2>7, <2>8, <2>9 DEF Next, Returned
<1> QED BY <1>1, <1>2, ScanInvHolds, PTL DEF Spec, Abstract!Spec

-----------------------------------------------------------------------------
(* The frames of the answer. *)

USE DEF HeaderSize

LEMMA BodyIsSeq ==
  ASSUME NEW k \in Keys
  PROVE  Body[k] \in Seq(Nat) /\ Len(Body[k]) \in Nat
BY AnswerAssumption

LEMMA PlusIsAssociative ==
  ASSUME NEW l \in Nat, NEW m \in Nat, NEW n \in Nat
  PROVE  l + m + n = l + (m + n)
OBVIOUS

LEMMA Concatenation ==
  ASSUME NEW h \in Seq(Nat), NEW b \in Seq(Nat)
  PROVE  /\ h \o b \in Seq(Nat)
         /\ Len(h \o b) = Len(h) + Len(b)
         /\ \A i \in 1..Len(h) : (h \o b)[i] = h[i]
         /\ \A i \in 1..Len(b) : (h \o b)[Len(h) + i] = b[i]
<1>1. h \o b \in Seq(Nat) /\ Len(h \o b) = Len(h) + Len(b) OBVIOUS
<1>2. \A i \in 1..Len(h) : (h \o b)[i] = h[i] OBVIOUS
<1>3. \A i \in 1..Len(b) : (h \o b)[Len(h) + i] = b[i] OBVIOUS
<1> QED BY <1>1, <1>2, <1>3

LEMMA FrameParts ==
  ASSUME NEW k \in Keys
  PROVE  /\ Frame(k) \in Seq(Nat)
         /\ Len(Frame(k)) = Size[k]
         /\ Size[k] = 3 + Len(Body[k])
         /\ Frame(k)[1] = k.timestamp
         /\ Frame(k)[2] = k.unique
         /\ Frame(k)[3] = Len(Body[k])
         /\ \A i \in 1..Len(Body[k]) : Frame(k)[3 + i] = Body[k][i]
<1>1. k.timestamp \in Nat /\ k.unique \in Nat
  BY ScanAssumption DEF StoredID
<1>2. Size[k] = 3 + Len(Body[k]) BY AnswerAssumption
<1> DEFINE H == <<k.timestamp, k.unique, Len(Body[k])>>
<1>3. H \in Seq(Nat) /\ Len(H) = 3 /\ H[1] = k.timestamp /\ H[2] = k.unique
        /\ H[3] = Len(Body[k])
  BY <1>1, BodyIsSeq
<1> HIDE DEF H
<1>4. Frame(k) = H \o Body[k] BY DEF Frame, H
<1>5. /\ Frame(k) \in Seq(Nat)
      /\ Len(Frame(k)) = 3 + Len(Body[k])
      /\ \A i \in 1..3 : Frame(k)[i] = H[i]
      /\ \A i \in 1..Len(Body[k]) : Frame(k)[3 + i] = Body[k][i]
  <2> DEFINE b == Body[k]
  <2>1. b \in Seq(Nat) BY BodyIsSeq
  <2> HIDE DEF b
  <2>2. /\ H \o b \in Seq(Nat)
        /\ Len(H \o b) = Len(H) + Len(b)
        /\ \A i \in 1..Len(H) : (H \o b)[i] = H[i]
        /\ \A i \in 1..Len(b) : (H \o b)[Len(H) + i] = b[i]
    BY <1>3, <2>1, Concatenation
  <2>3. Frame(k) = H \o b BY <1>4 DEF b
  <2>4. /\ Frame(k) \in Seq(Nat)
        /\ Len(Frame(k)) = 3 + Len(b)
        /\ \A i \in 1..3 : Frame(k)[i] = H[i]
        /\ \A i \in 1..Len(b) : Frame(k)[3 + i] = b[i]
    BY <1>3, <2>2, <2>3
  <2> QED BY <2>4 DEF b
<1>6. Frame(k)[1] = H[1] /\ Frame(k)[2] = H[2] /\ Frame(k)[3] = H[3]
  BY <1>5
<1> QED BY <1>2, <1>3, <1>5, <1>6

(* Every step is a step of the scan or leaves it alone. *)
LEMMA StepOfScan == [AnswerNext]_allVars => [Next]_vars
BY DEF AnswerNext, allVars, Server, Scan, SendFrame, Deliver, Client,
       ReadRecord, ReadThrows, ReturnRecords, Ended, Next

LEMMA ScanStays == ScanInv /\ [AnswerNext]_allVars => ScanInv'
BY StepOfScan, NextInv

-----------------------------------------------------------------------------
LEMMA InitAnswer == AnswerInit => AnswerInv
<1> SUFFICES ASSUME AnswerInit PROVE AnswerInv
  OBVIOUS
<1>1. ScanInv BY InitInv DEF AnswerInit
<1>2. sent = <<>> /\ messagesSend = 0 /\ bytesSend = 0 /\ query \in Query
  BY ScanAssumption DEF AnswerInit, Init
<1>3. AnswerTypeOK BY DEF AnswerInit, AnswerTypeOK
<1>4. LimitsHold BY <1>2 DEF AnswerInit, LimitsHold, Query
<1>5. Framing BY <1>2 DEF AnswerInit, Framing, Start
<1>6. Decoding BY DEF AnswerInit, Decoding, Start
<1>7. ClientSeesAnswer BY <1>2 DEF AnswerInit, ClientSeesAnswer
<1>8. CutIsNoticed BY DEF AnswerInit, CutIsNoticed
<1> QED BY <1>1, <1>3, <1>4, <1>5, <1>6, <1>7, <1>8 DEF AnswerInv

(* What one more frame does to the stream. *)
LEMMA OneMoreFrame ==
  ASSUME AnswerInv, SendFrame
  PROVE  /\ iter \in Keys
         /\ sent' = Append(sent, iter) /\ sent \in Seq(Keys)
         /\ Len(sent') = Len(sent) + 1
         /\ sent'[Len(sent) + 1] = iter
         /\ \A i \in DOMAIN sent : sent'[i] = sent[i]
         /\ wire' \in Seq(Nat)
         /\ Len(wire') = Len(wire) + Size[iter]
         /\ \A i \in DOMAIN wire : wire'[i] = wire[i]
         /\ \A j \in 1..Size[iter] : wire'[Len(wire) + j] = Frame(iter)[j]
         /\ ends' \in Seq(Nat)
         /\ Len(ends') = Len(ends) + 1
         /\ ends'[Len(ends) + 1] = Len(wire')
         /\ \A i \in DOMAIN ends : ends'[i] = ends[i]
         /\ \A i \in 1..(Len(ends) + 1) : Start(i)' = Start(i)
<1>1. iter \in Keys
  BY ScanAssumption DEF SendFrame, Send, AnswerInv, ScanInv, TypeOK
<1>2. sent' = Append(sent, iter) /\ sent \in Seq(Keys)
  BY DEF SendFrame, Send, AnswerInv, ScanInv, TypeOK
<1>3. wire' = wire \o Frame(iter) /\ wire \in Seq(Nat)
  BY DEF SendFrame, AnswerInv, AnswerTypeOK
<1>4. Frame(iter) \in Seq(Nat) /\ Len(Frame(iter)) = Size[iter]
  BY <1>1, FrameParts
<1>5. /\ wire' \in Seq(Nat)
      /\ Len(wire') = Len(wire) + Size[iter]
      /\ \A i \in DOMAIN wire : wire'[i] = wire[i]
      /\ \A j \in 1..Size[iter] : wire'[Len(wire) + j] = Frame(iter)[j]
  <2> DEFINE F == Frame(iter)
  <2>1. F \in Seq(Nat) /\ Len(F) = Size[iter] /\ wire' = wire \o F
    BY <1>3, <1>4
  <2> HIDE DEF F
  <2>2. wire \in Seq(Nat) BY <1>3
  <2>3. /\ wire \o F \in Seq(Nat)
        /\ Len(wire \o F) = Len(wire) + Len(F)
        /\ \A i \in 1..Len(wire) : (wire \o F)[i] = wire[i]
        /\ \A j \in 1..Len(F) : (wire \o F)[Len(wire) + j] = F[j]
    BY <2>1, <2>2, Concatenation, Zenon
  <2>4. DOMAIN wire = 1..Len(wire) BY <2>2
  <2> QED BY <2>1, <2>3, <2>4, Zenon DEF F
<1>6. ends' = Append(ends, Len(wire')) /\ ends \in Seq(Nat)
  BY DEF SendFrame, AnswerInv, AnswerTypeOK
<1>7. Len(wire') \in Nat BY <1>5
<1>8. /\ ends' \in Seq(Nat)
      /\ Len(ends') = Len(ends) + 1
      /\ ends'[Len(ends) + 1] = Len(wire')
      /\ \A i \in DOMAIN ends : ends'[i] = ends[i]
  BY <1>6, <1>7
<1>9. ASSUME NEW i \in 1..(Len(ends) + 1) PROVE Start(i)' = Start(i)
  <2>1. i = 1 \/ i - 1 \in DOMAIN ends BY <1>6
  <2> QED BY <1>8, <2>1 DEF Start
<1> QED BY <1>1, <1>2, <1>5, <1>8, <1>9

LEMMA SendFraming == AnswerInv /\ SendFrame => Framing'
<1> SUFFICES ASSUME AnswerInv, SendFrame PROVE Framing'
  OBVIOUS
<1>1. Framing /\ ends \in Seq(Nat) /\ wire \in Seq(Nat)
  BY DEF AnswerInv, AnswerTypeOK
<1>2. Size[iter] \in Nat /\ Size[iter] >= 3
  BY OneMoreFrame, FrameParts, BodyIsSeq
<1>3. Len(ends') = Len(sent') BY <1>1, OneMoreFrame DEF Framing
<1>4. Len(wire') = Start(Len(ends) + 1)'
  <2>1. Len(ends) \in Nat /\ Len(ends') = Len(ends) + 1 /\ Len(ends') + 1 # 1
    BY <1>1, OneMoreFrame
  <2>2. Len(ends') + 1 - 1 = Len(ends) + 1 BY <2>1
  <2>3. Start(Len(ends) + 1)' = ends'[Len(ends) + 1]
    BY <2>1, <2>2 DEF Start
  <2> QED BY <2>3, OneMoreFrame
<1>5. ASSUME NEW i \in DOMAIN ends'
      PROVE  /\ ends'[i] = Start(i)' + Size[sent'[i]]
             /\ ends'[i] <= Len(wire')
             /\ \A j \in 1..Size[sent'[i]] : wire'[Start(i)' + j] = Frame(sent'[i])[j]
             /\ \A j \in DOMAIN ends' : i < j => ends'[i] < ends'[j]
  <2>1. i \in 1..(Len(ends) + 1) /\ Start(i)' = Start(i)
    BY OneMoreFrame
  <2>2. CASE i = Len(ends) + 1
    <3>1. sent'[i] = iter /\ Start(i) = Len(wire) /\ ends'[i] = Len(wire) + Size[iter]
      BY <1>1, <2>2, OneMoreFrame DEF Framing
    <3>2. \A j \in DOMAIN ends' : ~ (i < j) BY <2>2, <1>1, OneMoreFrame
    <3>3. Len(wire') = Len(wire) + Size[iter] /\ Len(wire) \in Nat
          /\ \A j \in 1..Size[iter] : wire'[Len(wire) + j] = Frame(iter)[j]
      BY <1>1, OneMoreFrame
    <3>4. ends'[i] <= Len(wire') BY <1>2, <3>1, <3>3
    <3> QED BY <2>1, <3>1, <3>2, <3>3, <3>4
  <2>3. CASE i \in DOMAIN ends
    <3>1. ends'[i] = ends[i] /\ sent'[i] = sent[i] /\ sent[i] \in Keys
      BY <1>1, <2>3, OneMoreFrame DEF Framing
    <3>2. ends[i] = Start(i) + Size[sent[i]] /\ ends[i] <= Len(wire) /\ ends[i] \in Nat
      BY <1>1, <2>3 DEF Framing
    <3>3. Start(i) \in Nat /\ Size[sent[i]] \in Nat
      <4>1. i = 1 \/ ends[i - 1] \in Nat BY <1>1, <2>3
      <4>2. Start(i) \in Nat BY <4>1 DEF Start
      <4>3. Size[sent[i]] = 3 + Len(Body[sent[i]]) /\ Len(Body[sent[i]]) \in Nat
        BY <3>1, FrameParts, BodyIsSeq
      <4> QED BY <4>2, <4>3
    <3>4. ends'[i] <= Len(wire') /\ ends'[i] < Len(wire')
      <4>1. Len(wire) \in Nat BY <1>1
      <4>2. Len(wire') = Len(wire) + Size[iter] BY OneMoreFrame
      <4> QED BY <1>2, <3>1, <3>2, <4>1, <4>2
    <3>5. ASSUME NEW j \in 1..Size[sent[i]]
          PROVE  wire'[Start(i) + j] = Frame(sent[i])[j]
      <4>1. Start(i) + j \in DOMAIN wire BY <1>1, <3>2, <3>3
      <4>2. wire[Start(i) + j] = Frame(sent[i])[j] BY <1>1, <2>3 DEF Framing
      <4> QED BY <4>1, <4>2, OneMoreFrame
    <3>6. ASSUME NEW j \in DOMAIN ends', i < j
          PROVE  ends'[i] < ends'[j]
      <4>1. CASE j \in DOMAIN ends
        <5>1. ends[i] < ends[j] BY <1>1, <2>3, <3>6, <4>1 DEF Framing
        <5>2. ends'[j] = ends[j] BY <4>1, OneMoreFrame
        <5> QED BY <3>1, <5>1, <5>2
      <4>2. CASE j = Len(ends) + 1
        BY <3>4, <4>2, OneMoreFrame
      <4>3. j \in 1..(Len(ends) + 1) /\ DOMAIN ends = 1..Len(ends) /\ Len(ends) \in Nat
        BY <1>1, OneMoreFrame
      <4> QED BY <4>1, <4>2, <4>3
    <3> QED BY <2>1, <3>1, <3>2, <3>4, <3>5, <3>6
  <2> QED BY <1>1, <2>1, <2>2, <2>3
<1> QED BY <1>1, <1>3, <1>4, <1>5, OneMoreFrame DEF Framing

LEMMA SendLimits == AnswerInv /\ SendFrame => LimitsHold'
<1> SUFFICES ASSUME AnswerInv, SendFrame PROVE LimitsHold'
  OBVIOUS
<1>1. /\ LimitsHold /\ Framing /\ ends \in Seq(Nat) /\ wire \in Seq(Nat)
      /\ query \in Query
  BY ScanAssumption DEF AnswerInv, AnswerTypeOK, ScanInv, TypeOK
<1>2. Size[iter] \in Nat BY OneMoreFrame, FrameParts, BodyIsSeq
<1>3. /\ messagesSend' = messagesSend + 1 /\ bytesSend' = bytesSend + Size[iter]
      /\ ~ LimitReached /\ query' = query
  BY DEF SendFrame, Send, request
<1>4. messagesSend = Len(ends) /\ bytesSend = Len(wire)
  BY <1>1 DEF LimitsHold
<1>5. messagesSend' = Len(ends') /\ bytesSend' = Len(wire')
  BY <1>1, <1>3, <1>4, OneMoreFrame
<1>6. query.maxmessages \in Nat /\ query.maxbytes \in Nat BY <1>1 DEF Query
<1>7. query'.maxmessages # 0 => Len(ends') <= query'.maxmessages
  BY <1>1, <1>3, <1>4, <1>6, OneMoreFrame DEF LimitReached
<1>8. sent'[Len(sent')] = iter BY OneMoreFrame
<1>9. query'.maxbytes # 0 => Len(wire') - Size[sent'[Len(sent')]] < query'.maxbytes
  BY <1>1, <1>2, <1>3, <1>4, <1>6, <1>8, OneMoreFrame DEF LimitReached
<1> QED BY <1>5, <1>7, <1>9 DEF LimitsHold

LEMMA SendStep == AnswerInv /\ SendFrame => AnswerInv'
<1> SUFFICES ASSUME AnswerInv, SendFrame PROVE AnswerInv'
  OBVIOUS
<1>1. ScanInv' BY ScanStays DEF AnswerInv, AnswerNext, Server
<1>2. UNCHANGED <<received, offset, records, client>> BY DEF SendFrame, decoder
<1>3. AnswerTypeOK' BY <1>2, OneMoreFrame DEF AnswerInv, AnswerTypeOK
<1>4. client = "waiting" /\ records = <<>> /\ client' = "waiting" /\ records' = <<>>
  BY <1>2 DEF AnswerInv, Decoding, SendFrame, Send
<1>5. Decoding'
  <2>1. /\ wire \in Seq(Nat) /\ received \in Seq(Nat)
        /\ Len(received) <= Len(wire) /\ offset = Start(1) /\ offset <= Len(received)
        /\ \A i \in DOMAIN received : received[i] = wire[i]
    BY <1>4 DEF AnswerInv, AnswerTypeOK, Decoding
  <2>2. Start(1)' = Start(1) BY DEF Start
  <2>3. Size[iter] \in Nat BY OneMoreFrame, FrameParts, BodyIsSeq
  <2>4. Len(received) <= Len(wire')
    <3>1. Len(wire') = Len(wire) + Size[iter] BY OneMoreFrame
    <3>2. /\ Len(received) \in Nat /\ Len(wire) \in Nat
          /\ Len(received) <= Len(wire)
      BY <2>1
    <3> QED BY <2>3, <3>1, <3>2
  <2>5. ASSUME NEW i \in DOMAIN received PROVE received[i] = wire'[i]
    <3>1. i \in DOMAIN wire BY <2>1
    <3> QED BY <2>1, <3>1, OneMoreFrame
  <2>6. Len(records') = 0 /\ Len(records') <= Len(ends')
    BY <1>3, <1>4 DEF AnswerTypeOK
  <2> QED BY <1>2, <1>4, <2>1, <2>2, <2>4, <2>5, <2>6 DEF Decoding
<1>6. ClientSeesAnswer' BY <1>4, OneMoreFrame DEF ClientSeesAnswer
<1>7. CutIsNoticed' BY <1>4 DEF CutIsNoticed
<1> QED BY <1>1, <1>3, <1>5, <1>6, <1>7, SendFraming, SendLimits DEF AnswerInv
-----------------------------------------------------------------------------
(* The frame the client is at, when its loop goes on. *)
LEMMA NextFrame ==
  ASSUME AnswerInv, InLoop
  PROVE  LET n == Len(records) + 1 IN
         /\ n \in DOMAIN ends /\ n \in DOMAIN sent /\ sent[n] \in Keys
         /\ offset = Start(n) /\ offset \in Nat
         /\ ends[n] = offset + Size[sent[n]]
         /\ ends[n] \in Nat
         /\ Size[sent[n]] = 3 + Len(Body[sent[n]])
         /\ \A j \in 1..Size[sent[n]] :
              offset + j <= Len(received) => received[offset + j] = Frame(sent[n])[j]
<1> DEFINE n == Len(records) + 1
<1>1. /\ ends \in Seq(Nat) /\ wire \in Seq(Nat) /\ received \in Seq(Nat)
      /\ offset \in Nat /\ Len(records) \in Nat /\ sent \in Seq(Keys)
  BY DEF AnswerInv, AnswerTypeOK, ScanInv, TypeOK
<1>2. /\ Len(records) <= Len(ends) /\ offset = Start(n)
      /\ Len(received) <= Len(wire)
      /\ \A i \in DOMAIN received : received[i] = wire[i]
  BY DEF AnswerInv, Decoding
<1>3. Len(ends) = Len(sent) /\ Len(wire) = Start(Len(ends) + 1)
  BY DEF AnswerInv, Framing
<1>4. offset < Len(received) BY DEF InLoop
<1>5. Len(records) # Len(ends)
  <2> SUFFICES ASSUME Len(records) = Len(ends) PROVE FALSE
    OBVIOUS
  <2>1. offset = Len(wire) BY <1>2, <1>3
  <2> QED BY <1>1, <1>2, <1>4, <2>1
<1>6. n \in DOMAIN ends /\ n \in DOMAIN sent /\ sent[n] \in Keys
  BY <1>1, <1>2, <1>3, <1>5
<1> HIDE DEF n
<1>7. /\ ends[n] = Start(n) + Size[sent[n]]
      /\ \A j \in 1..Size[sent[n]] : wire[Start(n) + j] = Frame(sent[n])[j]
  BY <1>6 DEF AnswerInv, Framing
<1>8. Size[sent[n]] = 3 + Len(Body[sent[n]]) BY <1>6, FrameParts
<1>9. ends[n] \in Nat BY <1>1, <1>6
<1>10. ASSUME NEW j \in 1..Size[sent[n]], offset + j <= Len(received)
       PROVE  received[offset + j] = Frame(sent[n])[j]
  <2>1. offset + j \in DOMAIN received
    BY <1>1, <1>10
  <2> QED BY <1>2, <1>7, <1>10, <2>1
<1>11. /\ n \in DOMAIN ends /\ n \in DOMAIN sent /\ sent[n] \in Keys
       /\ offset = Start(n) /\ offset \in Nat
       /\ ends[n] = offset + Size[sent[n]]
       /\ ends[n] \in Nat
       /\ Size[sent[n]] = 3 + Len(Body[sent[n]])
       /\ \A j \in 1..Size[sent[n]] :
            offset + j <= Len(received) => received[offset + j] = Frame(sent[n])[j]
  BY <1>1, <1>2, <1>6, <1>7, <1>8, <1>9, <1>10
<1> QED BY <1>11 DEF n

LEMMA ServerUntouched ==
  ASSUME AnswerInv, UNCHANGED <<vars, written>>
  PROVE  /\ ScanInv' /\ Framing' /\ LimitsHold'
         /\ UNCHANGED <<sent, pc, wire, ends>>
         /\ \A i : Start(i)' = Start(i)
<1>1. UNCHANGED <<query, stored, iter, messagesSend, bytesSend, sent, pc, wire, ends>>
  BY DEF vars, written
<1>2. ScanInv'
  <2>1. [Next]_vars OBVIOUS
  <2> QED BY <2>1, NextInv DEF AnswerInv
<1>3. \A i : Start(i)' = Start(i) BY <1>1 DEF Start
<1>4. LimitsHold' BY <1>1 DEF AnswerInv, LimitsHold
<1>5. Framing' BY <1>1, <1>3 DEF AnswerInv, Framing, Frame
<1> QED BY <1>1, <1>2, <1>3, <1>4, <1>5

LEMMA ReadRecordStep == AnswerInv /\ ReadRecord => AnswerInv'
<1> SUFFICES ASSUME AnswerInv, ReadRecord PROVE AnswerInv'
  OBVIOUS
<1> DEFINE n == Len(records) + 1
           k == sent[n]
<1>1. InLoop /\ FrameThere /\ UNCHANGED <<vars, written, received, client>>
      /\ offset' = FrameEnd /\ records' = Append(records, Record)
  BY DEF ReadRecord
<1>2. /\ n \in DOMAIN ends /\ n \in DOMAIN sent /\ k \in Keys
      /\ offset = Start(n) /\ offset \in Nat
      /\ ends[n] = offset + Size[k]
      /\ ends[n] \in Nat
      /\ Size[k] = 3 + Len(Body[k])
      /\ \A j \in 1..Size[k] :
           offset + j <= Len(received) => received[offset + j] = Frame(k)[j]
  BY <1>1, NextFrame
<1>3. /\ Len(received) \in Nat /\ Len(Body[k]) \in Nat /\ Body[k] \in Seq(Nat)
      /\ received \in Seq(Nat) /\ n \in Nat \ {0} /\ n = Len(records) + 1
      /\ records \in Seq([ts : Int, uid : Int, data : Seq(Nat)])
      /\ Size[k] \in Nat /\ Size[k] >= 3
  <2>1. Len(Body[k]) \in Nat /\ Body[k] \in Seq(Nat) BY <1>2, BodyIsSeq
  <2>2. /\ received \in Seq(Nat)
        /\ records \in Seq([ts : Int, uid : Int, data : Seq(Nat)])
    BY DEF AnswerInv, AnswerTypeOK
  <2>3. Len(received) \in Nat /\ Len(records) \in Nat BY <2>2
  <2>4. n \in Nat \ {0} /\ n = Len(records) + 1 BY <2>3
  <2> HIDE DEF n, k
  <2>5. Size[k] \in Nat /\ Size[k] >= 3 BY <1>2, <2>1
  <2> QED BY <2>1, <2>2, <2>3, <2>4, <2>5
<1> HIDE DEF n, k
<1>4. /\ received[offset + 1] = k.timestamp
      /\ received[offset + 2] = k.unique
      /\ received[offset + 3] = Len(Body[k])
  <2>1. \A j \in {1, 2, 3} : j \in 1..Size[k] /\ offset + j <= Len(received)
    <3>1. offset + 3 <= Len(received) BY <1>1 DEF FrameThere
    <3>2. 1 \in 1..Size[k] /\ 2 \in 1..Size[k] /\ 3 \in 1..Size[k] BY <1>3
    <3>3. offset \in Nat /\ Len(received) \in Nat BY <1>2, <1>3
    <3>4. /\ offset + 1 <= Len(received) /\ offset + 2 <= Len(received)
      BY <3>1, <3>3
    <3> QED BY <3>1, <3>2, <3>4
  <2>2. \A j \in {1, 2, 3} : received[offset + j] = Frame(k)[j]
    BY <1>2, <2>1
  <2>3. /\ Frame(k)[1] = k.timestamp /\ Frame(k)[2] = k.unique
        /\ Frame(k)[3] = Len(Body[k])
    BY <1>2, FrameParts
  <2> QED BY <2>2, <2>3
<1>5. FrameEnd = ends[n] /\ ends[n] <= Len(received)
  <2>1. FrameEnd = offset + 3 + Len(Body[k]) BY <1>4 DEF FrameEnd
  <2>2. FrameEnd = ends[n] BY <1>2, <1>3, <2>1
  <2> QED BY <1>1, <2>2 DEF FrameThere
<1>6. ASSUME NEW i \in 1..Len(Body[k])
      PROVE  received[offset + 3 + i] = Body[k][i]
  <2>1. 3 + i \in 1..Size[k] /\ offset + (3 + i) <= Len(received)
    <3>1. i \in Nat /\ 1 <= i /\ i <= Len(Body[k]) BY <1>3
    <3>2. Size[k] = 3 + Len(Body[k]) /\ Len(Body[k]) \in Nat BY <1>2, <1>3
    <3>3. 3 + i \in 1..Size[k] BY <3>1, <3>2
    <3>4. ends[n] = offset + Size[k] /\ offset \in Nat BY <1>2
    <3>5. offset + (3 + i) <= ends[n] BY <3>1, <3>2, <3>4
    <3>6. ends[n] \in Nat /\ Len(received) \in Nat BY <1>2, <1>3
    <3>7. ends[n] <= Len(received) BY <1>5
    <3> QED BY <3>1, <3>3, <3>4, <3>5, <3>6, <3>7
  <2>2. received[offset + (3 + i)] = Frame(k)[3 + i] BY <1>2, <2>1
  <2>3. Frame(k)[3 + i] = Body[k][i] BY <1>2, FrameParts
  <2>4. offset + (3 + i) = offset + 3 + i BY <1>2
  <2> QED BY <2>2, <2>3, <2>4
<1>7. Record = [ts |-> ToNumber[k.timestamp], uid |-> ToNumber[k.unique], data |-> Body[k]]
  <2>1. Body[k] = [i \in 1..Len(Body[k]) |-> Body[k][i]] BY <1>3
  <2>2. [i \in 1..received[offset + 3] |-> received[offset + 3 + i]] = Body[k]
    BY <1>4, <1>6, <2>1
  <2> QED BY <1>4, <2>2 DEF Record
<1>8. Record \in [ts : Int, uid : Int, data : Seq(Nat)]
  BY <1>2, <1>3, <1>7, AnswerAssumption
<1>9. /\ Len(records') = n
      /\ records' \in Seq([ts : Int, uid : Int, data : Seq(Nat)])
      /\ records'[n] = Record
      /\ \A i \in DOMAIN records : records'[i] = records[i]
      /\ DOMAIN records' = DOMAIN records \cup {n}
  <2> DEFINE R == [ts : Int, uid : Int, data : Seq(Nat)]
  <2>1. records \in Seq(R) /\ Record \in R BY <1>3, <1>8
  <2> HIDE DEF R
  <2>2. records' \in Seq(R) /\ Len(records') = n BY <1>1, <1>3, <2>1
  <2>3. records'[n] = Record BY <1>1, <1>3, <2>1
  <2>4. \A i \in DOMAIN records : records'[i] = records[i] BY <1>1, <2>1
  <2>5. DOMAIN records' = DOMAIN records \cup {n} BY <1>3, <2>1, <2>2
  <2> QED BY <2>2, <2>3, <2>4, <2>5 DEF R
<1>10. /\ ScanInv' /\ Framing' /\ LimitsHold'
       /\ UNCHANGED <<sent, pc, wire, ends>>
       /\ \A i : Start(i)' = Start(i)
  BY <1>1, ServerUntouched
<1>11. AnswerTypeOK'
  BY <1>1, <1>2, <1>5, <1>9, <1>10 DEF AnswerInv, AnswerTypeOK
<1>12. Decoding'
  <2>1. Start(Len(records) + 1)' = ends[n]
    <3>1. Len(records') + 1 # 1 /\ Len(records') + 1 - 1 = n BY <1>3, <1>9
    <3> QED BY <1>10, <3>1 DEF Start
  <2>2. client = "decoding" BY <1>1 DEF InLoop
  <2>3. Len(records') <= Len(ends')
    BY <1>2, <1>3, <1>9, <1>10 DEF AnswerInv, AnswerTypeOK
  <2> QED BY <1>1, <1>5, <1>10, <2>1, <2>2, <2>3 DEF AnswerInv, Decoding
<1>13. ClientSeesAnswer'
  <2>1. Len(records') <= Len(sent')
    BY <1>2, <1>3, <1>9, <1>10 DEF AnswerInv, ScanInv, TypeOK
  <2>2. ASSUME NEW i \in DOMAIN records'
        PROVE  /\ records'[i].ts = ToNumber[sent[i].timestamp]
               /\ records'[i].uid = ToNumber[sent[i].unique]
               /\ records'[i].data = Body[sent[i]]
    <3>1. CASE i = n BY <1>7, <1>9, <3>1 DEF k
    <3>2. CASE i \in DOMAIN records
      BY <1>9, <3>2 DEF AnswerInv, ClientSeesAnswer
    <3> QED BY <1>9, <3>1, <3>2
  <2> QED BY <1>10, <2>1, <2>2 DEF ClientSeesAnswer
<1>14. CutIsNoticed' BY <1>1 DEF CutIsNoticed, InLoop
<1> QED BY <1>10, <1>11, <1>12, <1>13, <1>14 DEF AnswerInv

LEMMA ReadThrowsStep == AnswerInv /\ ReadThrows => AnswerInv'
<1> SUFFICES ASSUME AnswerInv, ReadThrows PROVE AnswerInv'
  OBVIOUS
<1> DEFINE n == Len(records) + 1
           k == sent[n]
<1>1. /\ InLoop /\ ~ FrameThere /\ client = "decoding" /\ client' = "threw"
      /\ UNCHANGED <<vars, written, received, offset, records>>
  BY DEF ReadThrows, InLoop
<1>2. /\ n \in DOMAIN ends /\ k \in Keys
      /\ offset = Start(n) /\ offset \in Nat
      /\ ends[n] = offset + Size[k]
      /\ ends[n] \in Nat
      /\ Size[k] = 3 + Len(Body[k])
      /\ \A j \in 1..Size[k] :
           offset + j <= Len(received) => received[offset + j] = Frame(k)[j]
  BY <1>1, NextFrame
<1>3. /\ received \in Seq(Nat) /\ Len(received) \in Nat
      /\ ends \in Seq(Nat) /\ n \in Nat /\ n = Len(records) + 1
      /\ Len(records) \in Nat
  BY DEF AnswerInv, AnswerTypeOK
<1>4. Len(Body[k]) \in Nat /\ Body[k] \in Seq(Nat) BY <1>2, BodyIsSeq
<1>5. offset < Len(received) BY <1>1 DEF InLoop
<1> HIDE DEF n, k
<1>6. Len(received) < ends[n]
  <2>1. CASE ~ (offset + 3 <= Len(received))
    BY <1>2, <1>3, <1>4, <2>1
  <2>2. CASE offset + 3 <= Len(received)
    <3>1. 3 \in 1..Size[k] BY <1>2, <1>4
    <3>2. received[offset + 3] = Frame(k)[3] BY <1>2, <2>2, <3>1
    <3>3. received[offset + 3] = Len(Body[k]) BY <1>2, <3>2, FrameParts
    <3>4. ~ (FrameEnd <= Len(received)) BY <1>1, <2>2 DEF FrameThere
    <3>5. FrameEnd = offset + 3 + Len(Body[k]) BY <3>3 DEF FrameEnd
    <3>6. FrameEnd = ends[n]
      <4>1. offset \in Nat /\ Len(Body[k]) \in Nat BY <1>2, <1>4
      <4>2. ends[n] = offset + (3 + Len(Body[k])) BY <1>2
      <4>3. offset + 3 + Len(Body[k]) = offset + (3 + Len(Body[k]))
        BY <4>1, 3 \in Nat, PlusIsAssociative, Zenon
      <4> QED BY <3>5, <4>2, <4>3, Zenon
    <3>7. ends[n] \in Nat /\ Len(received) \in Nat BY <1>2, <1>3
    <3> QED BY <3>4, <3>6, <3>7
  <2> QED BY <2>1, <2>2
<1>7. ASSUME NEW i \in DOMAIN ends PROVE ends[i] # Len(received)
  <2>1. \A a, b \in DOMAIN ends : a < b => ends[a] < ends[b]
    BY DEF AnswerInv, Framing
  <2>2. i \in Nat /\ i >= 1 /\ ends[i] \in Nat BY <1>3
  <2>3. CASE n <= i
    <3>1. i = n \/ ends[n] < ends[i] BY <1>2, <1>3, <2>1, <2>2, <2>3
    <3> QED BY <1>2, <1>3, <1>6, <2>2, <3>1
  <2>4. CASE i < n
    <3>1. n # 1 /\ n - 1 \in DOMAIN ends BY <1>2, <1>3, <2>2, <2>4
    <3>2. offset = ends[n - 1] BY <1>2, <3>1 DEF Start
    <3>3. i = n - 1 \/ ends[i] < ends[n - 1] BY <1>3, <2>1, <2>2, <2>4, <3>1
    <3>4. ends[n - 1] \in Nat BY <1>3, <3>1
    <3>5. offset \in Nat /\ Len(received) \in Nat BY <1>2, <1>3
    <3> QED BY <1>5, <2>2, <3>2, <3>3, <3>4, <3>5
  <2> QED BY <1>3, <2>2, <2>3, <2>4
<1>8. /\ ScanInv' /\ Framing' /\ LimitsHold'
      /\ UNCHANGED <<sent, pc, wire, ends>>
      /\ \A i : Start(i)' = Start(i)
  BY <1>1, ServerUntouched
<1>9. AnswerTypeOK' BY <1>1, <1>8 DEF AnswerInv, AnswerTypeOK
<1>10. Decoding' BY <1>1, <1>8 DEF AnswerInv, Decoding, Start
<1>11. ClientSeesAnswer' BY <1>1, <1>8 DEF AnswerInv, ClientSeesAnswer
<1>12. CutIsNoticed' BY <1>1, <1>7, <1>8 DEF CutIsNoticed
<1> QED BY <1>8, <1>9, <1>10, <1>11, <1>12 DEF AnswerInv

LEMMA ReturnStep == AnswerInv /\ ReturnRecords => AnswerInv'
<1> SUFFICES ASSUME AnswerInv, ReturnRecords PROVE AnswerInv'
  OBVIOUS
<1>1. /\ client = "decoding" /\ ~ InLoop /\ client' = "returned"
      /\ UNCHANGED <<vars, written, received, offset, records>>
  BY DEF ReturnRecords
<1>2. /\ ScanInv' /\ Framing' /\ LimitsHold'
      /\ UNCHANGED <<sent, pc, wire, ends>>
      /\ \A i : Start(i)' = Start(i)
  BY <1>1, ServerUntouched
<1>3. AnswerTypeOK' BY <1>1, <1>2 DEF AnswerInv, AnswerTypeOK
<1>4. Decoding' BY <1>1, <1>2 DEF AnswerInv, Decoding, Start
<1>5. ClientSeesAnswer' BY <1>1, <1>2 DEF AnswerInv, ClientSeesAnswer
<1>6. Len(received) = IF records = <<>> THEN 0 ELSE ends[Len(records)]
  <2>1. /\ received \in Seq(Nat) /\ offset \in Nat /\ Len(records) \in Nat
        /\ records \in Seq([ts : Int, uid : Int, data : Seq(Nat)])
    BY DEF AnswerInv, AnswerTypeOK
  <2>2. Len(received) = offset
    BY <1>1, <2>1 DEF InLoop, AnswerInv, Decoding
  <2>3. offset = Start(Len(records) + 1) BY DEF AnswerInv, Decoding
  <2>4. records = <<>> <=> Len(records) = 0 BY <2>1
  <2>5. Len(records) + 1 - 1 = Len(records) BY <2>1
  <2>6. Len(records) + 1 = 1 <=> Len(records) = 0 BY <2>1
  <2> QED BY <2>2, <2>3, <2>4, <2>5, <2>6 DEF Start
<1>7. CutIsNoticed' BY <1>1, <1>2, <1>6 DEF CutIsNoticed
<1> QED BY <1>2, <1>3, <1>4, <1>5, <1>7 DEF AnswerInv

LEMMA DeliverStep == AnswerInv /\ Deliver => AnswerInv'
<1> SUFFICES ASSUME AnswerInv, Deliver PROVE AnswerInv'
  OBVIOUS
<1>1. /\ pc = "done" /\ client = "waiting" /\ client' = "decoding"
      /\ UNCHANGED <<vars, written, offset, records>>
  BY DEF Deliver
<1>2. wire \in Seq(Nat) /\ records = <<>>
  BY <1>1 DEF AnswerInv, AnswerTypeOK, Decoding
<1>3. PICK m \in 0..Len(wire) : received' = SubSeq(wire, 1, m)
  BY DEF Deliver
<1>4. /\ received' \in Seq(Nat) /\ Len(received') = m /\ m \in Nat
      /\ m <= Len(wire)
      /\ \A i \in DOMAIN received' : received'[i] = wire[i]
  <2>1. Len(wire) \in Nat BY <1>2
  <2>2. m \in Nat /\ m <= Len(wire) BY <2>1
  <2>3. received' \in Seq(Nat) BY <1>2, <1>3, <2>2
  <2>4. Len(received') = m BY <1>2, <1>3, <2>2
  <2>5. \A i \in DOMAIN received' : received'[i] = wire[i]
    BY <1>2, <1>3, <2>2
  <2> QED BY <2>2, <2>3, <2>4, <2>5
<1>5. /\ ScanInv' /\ Framing' /\ LimitsHold'
      /\ UNCHANGED <<sent, pc, wire, ends>>
      /\ \A i : Start(i)' = Start(i)
  BY <1>1, ServerUntouched
<1>6. AnswerTypeOK' BY <1>1, <1>4, <1>5 DEF AnswerInv, AnswerTypeOK
<1>7. Decoding'
  <2>1. offset = 0 /\ Len(records) = 0
    BY <1>2 DEF AnswerInv, Decoding, Start
  <2>2. offset' = Start(Len(records) + 1)'
    BY <1>1, <1>5, <2>1 DEF Start
  <2>3. Len(records') <= Len(ends')
    BY <1>1, <1>5 DEF AnswerInv, Decoding
  <2>4. offset' <= Len(received') BY <1>1, <1>4, <2>1
  <2> QED BY <1>1, <1>4, <1>5, <2>2, <2>3, <2>4 DEF Decoding
<1>8. ClientSeesAnswer' BY <1>1, <1>5 DEF AnswerInv, ClientSeesAnswer
<1>9. CutIsNoticed' BY <1>1 DEF CutIsNoticed
<1> QED BY <1>5, <1>6, <1>7, <1>8, <1>9 DEF AnswerInv

(* A step of the scan that sends nothing, and a stuttering step. *)
LEMMA QuietStep ==
  ASSUME AnswerInv, [AnswerNext]_allVars,
         UNCHANGED <<query, answer, written, decoder>>,
         client # "waiting" => UNCHANGED pc
  PROVE  AnswerInv'
<1>1. UNCHANGED <<query, messagesSend, bytesSend, sent, wire, ends, received,
                  offset, records, client>>
  BY DEF written, decoder
<1>2. ScanInv' BY ScanStays DEF AnswerInv
<1>3. AnswerTypeOK' BY <1>1 DEF AnswerInv, AnswerTypeOK
<1>4. LimitsHold' BY <1>1 DEF AnswerInv, LimitsHold
<1>5. Framing'
  <2>1. \A i : Start(i)' = Start(i) BY <1>1 DEF Start
  <2>2. sent' = sent /\ wire' = wire /\ ends' = ends BY <1>1
  <2>3. \A k : Frame(k)' = Frame(k) BY DEF Frame
  <2>4. Framing BY DEF AnswerInv
  <2> QED BY <2>1, <2>2, <2>3, <2>4 DEF Framing
<1>6. Decoding' BY <1>1 DEF AnswerInv, Decoding, Start
<1>7. ClientSeesAnswer' BY <1>1 DEF AnswerInv, ClientSeesAnswer
<1>8. CutIsNoticed' BY <1>1 DEF AnswerInv, CutIsNoticed
<1> QED BY <1>2, <1>3, <1>4, <1>5, <1>6, <1>7, <1>8 DEF AnswerInv

LEMMA ScanStep == AnswerInv /\ Scan => AnswerInv'
<1> SUFFICES ASSUME AnswerInv, Scan PROVE AnswerInv'
  OBVIOUS
<1>1. UNCHANGED <<query, answer, written, decoder>>
  BY DEF Scan, SeekEnd, SeekKey, Fallback, Break, Continue, Advance
<1>2. pc # "done"
  BY DEF Scan, SeekEnd, SeekKey, Fallback, Break, Continue, Advance
<1>3. client = "waiting" BY <1>2 DEF AnswerInv, Decoding
<1>4. [AnswerNext]_allVars BY DEF AnswerNext, Server
<1> QED BY <1>1, <1>3, <1>4, QuietStep

-----------------------------------------------------------------------------
(* The frames on the wire, what has been decoded of them and the limits, as *)
(* one inductive invariant of GetRangeHandler and decodeTsRecord.           *)
THEOREM AnswersAreFramed == AnswerSpec => []AnswerInv
<1>1. AnswerInv /\ [AnswerNext]_allVars => AnswerInv'
  <2> SUFFICES ASSUME AnswerInv, [AnswerNext]_allVars PROVE AnswerInv'
    OBVIOUS
  <2>1. CASE Scan BY <2>1, ScanStep
  <2>2. CASE SendFrame BY <2>2, SendStep
  <2>3. CASE Deliver BY <2>3, DeliverStep
  <2>4. CASE ReadRecord BY <2>4, ReadRecordStep
  <2>5. CASE ReadThrows BY <2>5, ReadThrowsStep
  <2>6. CASE ReturnRecords BY <2>6, ReturnStep
  <2>7. CASE UNCHANGED allVars
    <3>1. UNCHANGED <<query, answer, written, decoder, pc>>
      BY <2>7 DEF allVars, vars
    <3> QED BY <3>1, QuietStep
  <2> QED
    BY <2>1, <2>2, <2>3, <2>4, <2>5, <2>6, <2>7
       DEF AnswerNext, Server, Client, Ended
<1> QED BY <1>1, InitAnswer, PTL DEF AnswerSpec

(* What the client has decoded is the first part of what was sent, message  *)
(* for message, however the bodies look and wherever the stream was cut     *)
(* (decodeTsRecord).                                                       *)
THEOREM RecordsAreTheAnswer == AnswerSpec => []ClientSeesAnswer
<1>1. AnswerInv => ClientSeesAnswer BY DEF AnswerInv
<1> QED BY <1>1, AnswersAreFramed, PTL

(* An answer that arrives whole is never refused, and one that was cut      *)
(* inside a frame always is.                                               *)
THEOREM CutsAreNoticed == AnswerSpec => []CutIsNoticed
<1>1. AnswerInv => CutIsNoticed BY DEF AnswerInv
<1> QED BY <1>1, AnswersAreFramed, PTL

(* The limits of the request hold for the messages and bytes on the wire    *)
(* (DbClient::Iter with what GetRangeHandler's function returns).           *)
THEOREM LimitsAreKept == AnswerSpec => []LimitsHold
<1>1. AnswerInv => LimitsHold BY DEF AnswerInv
<1> QED BY <1>1, AnswersAreFramed, PTL
=============================================================================
