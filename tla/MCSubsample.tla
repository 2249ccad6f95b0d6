---------------------------- MODULE MCSubsample ----------------------------
(***************************************************************************)
(* An instance of Subsample.  The first three keys are in order; the       *)
(* fourth is out of order beside them and repeats a unique; the unique of  *)
(* the fifth is out of the range of the small int, with a gap before it.   *)
(***************************************************************************)
EXTENDS Subsample

Key(timestamp, unique) == [timestamp |-> timestamp, unique |-> unique]

MCKeys == {Key(1, 0), Key(2, 1), Key(3, 2), Key(4, 0), Key(5, 5)}

(* Total, periods that begin or end on, between and outside of the         *)
(* timestamps, and one that ends before it begins.                         *)
Periods == {<<TRUE, 0, 0>>, <<FALSE, 0, 2>>, <<FALSE, 2, 4>>, <<FALSE, 3, 6>>,
            <<FALSE, 4, 2>>}

(* No message; one batch, of the default size or less; two batches, of     *)
(* which the second overshoots; two that fit.                              *)
Sizes == {<<0, 0>>, <<1, 0>>, <<2, 3>>, <<3, 2>>, <<2, 1>>}

(* Over HTTP, a negative amount, a negative batch size, and both.          *)
Negative == {<<6, 1>>, <<2, 6>>, <<5, 6>>}

Asking(a, S) ==
  {[api |-> a, total |-> p[1], from |-> p[2], till |-> p[3],
    amount |-> s[1], batchSize |-> s[2]] : p \in Periods, s \in S}

MCRequests == Asking("grpc", Sizes) \cup Asking("http", Sizes \cup Negative)
=============================================================================
