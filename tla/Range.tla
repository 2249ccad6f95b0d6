------------------------------- MODULE Range -------------------------------
(***************************************************************************)
(* What a range request promises: the stored messages of a period, each    *)
(* one once, in the order of their keys or against it, cut short only by   *)
(* the limits of the request.                                              *)
(*                                                                         *)
(* The two directions do not bound the period in the same way, and this    *)
(* specification records what the code does: forward, `from` and `till`    *)
(* are both inside; in reverse, `from` is outside, `till` is inside for    *)
(* the unique 0 alone, and it does not bound anything if no message is as  *)
(* early as that.                                                          *)
(***************************************************************************)
EXTENDS IDComparator, Sequences

CONSTANTS
  Keys,     (* the keys of the messages that may be stored                 *)
  Size,     (* key -> bytes its message counts for                         *)
  Queries   (* the requests: from, till, reverse, maxmessages, maxbytes    *)

VARIABLES
  query,    (* the request                                                 *)
  stored,   (* the keys of the folder                                      *)
  sent,     (* the keys of the messages sent so far                        *)
  bytes,    (* their size                                                  *)
  ended     (* the answer is complete                                      *)

vars == <<query, stored, sent, bytes, ended>>

(* k is sent before l. *)
Precedes(k, l) == IF query.reverse THEN Compare(k, l) > 0 ELSE Compare(k, l) < 0

(* The lookup key a timestamp is turned into. *)
KeyAt(timestamp) == [timestamp |-> timestamp, unique |-> 0]

AtOrBefore(key) == {k \in stored : Compare(k, key) <= 0}

InPeriod(k) ==
  IF query.reverse
    THEN /\ query.from = 0 \/ query.from < k.timestamp
         /\ \/ query.till = 0
            \/ AtOrBefore(KeyAt(query.till)) = {}
            \/ k \in AtOrBefore(KeyAt(query.till))
    ELSE /\ query.from <= k.timestamp
         /\ query.till = 0 \/ k.timestamp <= query.till

Pending == {k \in stored : InPeriod(k) /\ \A i \in DOMAIN sent : sent[i] # k}

LimitReached ==
  \/ query.maxmessages # 0 /\ query.maxmessages <= Len(sent)
  \/ query.maxbytes # 0 /\ query.maxbytes <= bytes

Init ==
  /\ query \in Queries
  /\ stored \in SUBSET Keys
  /\ sent = <<>>
  /\ bytes = 0
  /\ ended = FALSE

Send(k) ==
  /\ ~ ended
  /\ ~ LimitReached
  /\ k \in Pending
  /\ \A l \in Pending : l = k \/ Precedes(k, l)
  /\ sent' = Append(sent, k)
  /\ bytes' = bytes + Size[k]
  /\ UNCHANGED <<query, stored, ended>>

End ==
  /\ ~ ended
  /\ Pending = {} \/ LimitReached
  /\ ended' = TRUE
  /\ UNCHANGED <<query, stored, sent, bytes>>

Next == End \/ \E k \in Keys : Send(k)

Spec == Init /\ [][Next]_vars
FairSpec == Spec /\ WF_vars(Next)
=============================================================================
