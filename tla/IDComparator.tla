---------------------------- MODULE IDComparator ----------------------------
(***************************************************************************)
(* Message identifiers and the order RocksDB keeps them in.                *)
(*                                                                         *)
(* An ID is a (timestamp, unique) pair.  Every column family is opened     *)
(* with IDComparator, so the keys of a folder are sorted by timestamp,     *)
(* then by unique.  A timestamp of 0 is a wildcard: it never occurs in a   *)
(* stored key (GenerateId replaces it by the clock), but a lookup key may  *)
(* carry it to be compared by unique alone, as subsampling does.           *)
(***************************************************************************)
EXTENDS Integers

ID == [timestamp : Nat, unique : Nat]

(* The identifiers that can be stored: their timestamp is never 0. *)
StoredID == [timestamp : Nat \ {0}, unique : Nat]

CompareNumbers(m, n) == IF m < n THEN -1 ELSE IF m > n THEN 1 ELSE 0

compareByTs(first, second) ==
  IF first.timestamp = 0 \/ second.timestamp = 0
    THEN 0
    ELSE CompareNumbers(first.timestamp, second.timestamp)

compareByUnique(first, second) == CompareNumbers(first.unique, second.unique)

Compare(a, b) ==
  IF compareByTs(a, b) # 0 THEN compareByTs(a, b) ELSE compareByUnique(a, b)

-----------------------------------------------------------------------------
(* What an iterator positioned by SeekToFirst, SeekToLast finds in the     *)
(* set of keys K (the positioning itself is RocksDB's).                    *)

IsFirst(k, K) == k \in K /\ \A other \in K : Compare(k, other) <= 0
IsLast(k, K)  == k \in K /\ \A other \in K : Compare(other, k) <= 0

(* DbClient::GetUniqueRange: the uniques of the first and of the last key, *)
(* 0 where the iterator is not valid.                                      *)
GetUniqueRange(K) ==
  [from |-> IF \E k \in K : IsFirst(k, K)
              THEN (CHOOSE k \in K : IsFirst(k, K)).unique
              ELSE 0,
   till |-> IF \E k \in K : IsLast(k, K)
              THEN (CHOOSE k \in K : IsLast(k, K)).unique
              ELSE 0]
=============================================================================
