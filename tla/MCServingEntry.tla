--------------------------- MODULE MCServingEntry ---------------------------
(***************************************************************************)
(* An instance of ServingEntry: every class of compiled.js by itself, and   *)
(* the entries of the gateway.                                             *)
(***************************************************************************)
EXTENDS ServingEntry, Messages, FiniteSets

MCEntries ==
  {<<c>> : c \in DOMAIN Schema}
    \cup {<<"PredictRequest", c>> : c \in {"PredictResponse", "ExecutionError"}}
    \cup {<<>>}

(* Messages of classes with more than two fields have room for two, the    *)
(* others for three.                                                       *)
MCBudget ==
  [e \in MCEntries |->
     IF \A i \in DOMAIN e : Cardinality(Schema[e[i]]) <= 2 THEN 3 ELSE 2]

=============================================================================
