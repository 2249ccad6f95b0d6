----------------------------- MODULE MCReaders -----------------------------
(***************************************************************************)
(* Instances of Readers for TLC.                                           *)
(***************************************************************************)
EXTENDS Readers, TLC

RequestSymmetry == Permutations(Requests)
ReaderSymmetry  == Permutations(Readers) \cup Permutations(Requests)

=============================================================================
