----------------------------- MODULE MCDbClient -----------------------------
(***************************************************************************)
(* Instances of DbClient for TLC.  The save calls are interchangeable, and *)
(* so are the folders that exist (or do not exist) at the start; symmetry  *)
(* is only used by the runs that check no liveness property.               *)
(***************************************************************************)
EXTENDS DbClient, TLC

RequestSymmetry == Permutations(Requests)

=============================================================================
