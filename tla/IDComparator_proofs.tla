------------------------- MODULE IDComparator_proofs -------------------------
(***************************************************************************)
(* What RocksDB requires of a comparator, proved of Compare for the keys   *)
(* that are stored: a total order in which only equal keys compare equal.  *)
(* Lookup keys with the wildcard timestamp 0 are outside of these lemmas:  *)
(* with them Compare is not transitive.                                    *)
(***************************************************************************)
EXTENDS IDComparator, TLAPS

(* Swapping the arguments of Compare changes its sign, for every key. *)
LEMMA CompareAntisymmetric ==
  ASSUME NEW a \in ID, NEW b \in ID
  PROVE  /\ Compare(a, b) \in {-1, 0, 1}
         /\ Compare(b, a) = -Compare(a, b)
BY SMT DEF ID, Compare, compareByTs, compareByUnique, CompareNumbers

LEMMA StoredIsID == StoredID \subseteq ID
BY DEF StoredID, ID

(* Compare orders stored keys by timestamp, then by unique. *)
LEMMA CompareStored ==
  ASSUME NEW a \in StoredID, NEW b \in StoredID
  PROVE  Compare(a, b) <= 0 <=>
           \/ a.timestamp < b.timestamp
           \/ a.timestamp = b.timestamp /\ a.unique <= b.unique
BY SMT DEF StoredID, Compare, compareByTs, compareByUnique, CompareNumbers

(* Two stored keys compare equal only if they are the same key: a put never *)
(* replaces the message of another id (IDComparator::Equal).                *)
THEOREM CompareIsZero ==
  ASSUME NEW a \in StoredID, NEW b \in StoredID
  PROVE  Compare(a, b) = 0 <=> a = b
<1>1. Compare(a, b) = 0 <=> a.timestamp = b.timestamp /\ a.unique = b.unique
  BY SMT DEF StoredID, Compare, compareByTs, compareByUnique, CompareNumbers
<1>2. a = b <=> a.timestamp = b.timestamp /\ a.unique = b.unique
  BY SMT DEF StoredID
<1> QED BY <1>1, <1>2

(* The order of the stored keys is transitive. *)
THEOREM CompareTransitive ==
  ASSUME NEW a \in StoredID, NEW b \in StoredID, NEW c \in StoredID,
         Compare(a, b) <= 0, Compare(b, c) <= 0
  PROVE  Compare(a, c) <= 0
<1>1. \/ a.timestamp < b.timestamp
      \/ a.timestamp = b.timestamp /\ a.unique <= b.unique
  BY CompareStored
<1>2. \/ b.timestamp < c.timestamp
      \/ b.timestamp = c.timestamp /\ b.unique <= c.unique
  BY CompareStored
<1>3. \/ a.timestamp < c.timestamp
      \/ a.timestamp = c.timestamp /\ a.unique <= c.unique
  BY <1>1, <1>2, SMT DEF StoredID
<1> QED BY <1>3, CompareStored

(* A set of stored keys has at most one last key. *)
LEMMA LastIsUnique ==
  ASSUME NEW K \in SUBSET StoredID, NEW k, NEW l, IsLast(k, K), IsLast(l, K)
  PROVE  k = l
<1>1. k \in StoredID /\ l \in StoredID BY DEF IsLast
<1>2. Compare(k, l) <= 0 /\ Compare(l, k) <= 0 BY DEF IsLast
<1>3. Compare(k, l) = 0
  BY <1>1, <1>2, CompareAntisymmetric, StoredIsID, SMT
<1> QED BY <1>1, <1>3, CompareIsZero

LEMMA UniqueRangeType ==
  ASSUME NEW K \in SUBSET StoredID
  PROVE  GetUniqueRange(K) \in [from : Nat, till : Nat]
<1>1. ASSUME NEW k \in K PROVE k.unique \in Nat
  BY DEF StoredID
<1>2. (\E k \in K : IsFirst(k, K)) => (CHOOSE k \in K : IsFirst(k, K)) \in K
  OBVIOUS
<1>3. (\E k \in K : IsLast(k, K)) => (CHOOSE k \in K : IsLast(k, K)) \in K
  OBVIOUS
<1> QED BY <1>1, <1>2, <1>3 DEF GetUniqueRange

(* GetUniqueRange reports the unique of the last key as `till`. *)
LEMMA TillOfLast ==
  ASSUME NEW K \in SUBSET StoredID, NEW k, IsLast(k, K)
  PROVE  GetUniqueRange(K).till = k.unique
<1> DEFINE last == CHOOSE l \in K : IsLast(l, K)
<1>1. k \in K BY DEF IsLast
<1>2. last \in K /\ IsLast(last, K) BY <1>1
<1>3. last = k BY <1>2, LastIsUnique
<1> QED BY <1>1, <1>3 DEF GetUniqueRange

=============================================================================
