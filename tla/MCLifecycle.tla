---------------------------- MODULE MCLifecycle ----------------------------
(***************************************************************************)
(* Instances of Lifecycle for TLC.  No symmetry: StopEnds is a liveness    *)
(* property.                                                               *)
(***************************************************************************)
EXTENDS Lifecycle

=============================================================================
