--------------------------- MODULE MCRangeAnswer ---------------------------
(***************************************************************************)
(* An instance of RangeAnswer: three timestamps with two uniques each, and *)
(* requests whose bounds lie on, between and outside of them.  Numbers are *)
(* exact up to 2, and even above.                                          *)
(***************************************************************************)
EXTENDS RangeAnswer

MCKeys == [timestamp : {1, 3, 4}, unique : {0, 1}]

MCBody == [k \in MCKeys |-> [i \in 1..k.unique |-> k.timestamp]]

MCSize == [k \in MCKeys |-> HeaderSize + Len(MCBody[k])]

MCToNumber == [n \in 0..9 |-> IF n <= 2 THEN n ELSE 2 * ((n + 1) \div 2)]

(* Every period in both directions with every limit on the messages, and    *)
(* some of them with a limit on the bytes, or with both.                   *)
Query5(F, T, M, B) ==
  [from : F, till : T, reverse : BOOLEAN, maxmessages : M, maxbytes : B]

MCQueries ==
  Query5(0..4, 0..5, 0..2, {0})
    \cup Query5({0, 1, 3}, {0, 3, 4}, {0, 2}, {4, 7})

=============================================================================
