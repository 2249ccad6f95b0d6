----------------------------- MODULE RangeScan -----------------------------
(***************************************************************************)
(* DbClient::Iter, which answers range requests by walking a RocksDB       *)
(* iterator.  The iterator is a snapshot, and the walk holds the shared    *)
(* lock from the seek to the end, so the stored messages do not change     *)
(* under it.                                                               *)
(***************************************************************************)
EXTENDS IDComparator, Sequences

CONSTANTS
  Keys,     (* the keys of the messages that may be stored                 *)
  Size,     (* key -> bytes its message counts for                         *)
  Queries,  (* the requests                                                *)
  Invalid   (* the position of an iterator that is not valid               *)

Query == [from : Nat, till : Nat, reverse : BOOLEAN,
          maxmessages : Nat, maxbytes : Nat]

ASSUME ScanAssumption ==
  /\ Keys \subseteq StoredID
  /\ Size \in [Keys -> Nat]
  /\ Queries \subseteq Query
  /\ Invalid \notin Keys

VARIABLES
  query,         (* the request                                            *)
  stored,        (* the keys of the folder                                 *)
  iter,          (* the key the iterator is at, or Invalid                 *)
  messagesSend,  (* number of messages sent                                *)
  bytesSend,     (* their size                                             *)
  sent,          (* what fn has been called with                           *)
  pc             (* "seek", "fallback", "loop", "advance" or "done"        *)

request == <<query, stored>>
answer  == <<messagesSend, bytesSend, sent>>
vars == <<request, iter, answer, pc>>

Init ==
  /\ query \in Queries
  /\ stored \in SUBSET Keys
  /\ iter = Invalid
  /\ messagesSend = 0
  /\ bytesSend = 0
  /\ sent = <<>>
  /\ pc = "seek"

-----------------------------------------------------------------------------
(* The iterator of RocksDB: a position is the key at an end of a set of     *)
(* keys, and is not valid if that set is empty.                             *)

MoveToFirst(K) == \/ IsFirst(iter', K)
                  \/ K = {} /\ iter' = Invalid
MoveToLast(K)  == \/ IsLast(iter', K)
                  \/ K = {} /\ iter' = Invalid

SeekForPrev(key) == MoveToLast({k \in stored : Compare(k, key) <= 0})

-----------------------------------------------------------------------------
SeekEnd ==
  /\ pc = "seek"
  /\ \/ ~ query.reverse /\ query.from = 0 /\ MoveToFirst(stored)
     \/ query.reverse /\ query.till = 0 /\ MoveToLast(stored)
  /\ pc' = "loop"
  /\ UNCHANGED <<request, answer>>

(* Mutant: only an exact match counts as found. *)
SeekKeyExact ==
  /\ pc = "seek"
  /\ IF query.reverse THEN query.till # 0 ELSE query.from # 0
  /\ MoveToFirst({k \in stored :
       k.timestamp = IF query.reverse THEN query.till ELSE query.from})
  /\ pc' = IF iter' = Invalid THEN "fallback" ELSE "loop"
  /\ UNCHANGED <<request, answer>>

SeekKey ==
  /\ pc = "seek"
  /\ IF query.reverse THEN query.till # 0 ELSE query.from # 0
  /\ SeekForPrev([timestamp |-> IF query.reverse THEN query.till ELSE query.from,
                  unique |-> 0])
  /\ pc' = IF iter' = Invalid THEN "fallback" ELSE "loop"
  /\ UNCHANGED <<request, answer>>

(* Mutant: both directions fall back to the first message. *)
FallbackToFirst ==
  /\ pc = "fallback"
  /\ MoveToFirst(stored)
  /\ pc' = "loop"
  /\ UNCHANGED <<request, answer>>

(* No message is as early as the key. *)
Fallback ==
  /\ pc = "fallback"
  /\ IF query.reverse THEN MoveToLast(stored) ELSE MoveToFirst(stored)
  /\ pc' = "loop"
  /\ UNCHANGED <<request, answer>>

(* The tests of the loop, in the order of the code.  `stopIteration` is     *)
(* passed to fn by value, so it is never set.                               *)
PastPeriod ==
  IF query.reverse
    THEN query.from # 0 /\ query.from >= iter.timestamp
    ELSE query.till # 0 /\ query.till < iter.timestamp

(* Mutant: the start of the period is left out. *)
UpToPeriod == ~ query.reverse /\ query.from >= iter.timestamp

BeforePeriod == ~ query.reverse /\ query.from > iter.timestamp

(* Mutant: off by one. *)
LimitExceeded ==
  \/ query.maxbytes # 0 /\ query.maxbytes < bytesSend
  \/ query.maxmessages # 0 /\ query.maxmessages < messagesSend

LimitReached ==
  \/ query.maxbytes # 0 /\ query.maxbytes <= bytesSend
  \/ query.maxmessages # 0 /\ query.maxmessages <= messagesSend

Break ==
  /\ pc = "loop"
  /\ iter # Invalid => PastPeriod \/ (~ BeforePeriod /\ LimitReached)
  /\ pc' = "done"
  /\ UNCHANGED <<request, iter, answer>>

Continue ==
  /\ pc = "loop"
  /\ iter # Invalid
  /\ ~ PastPeriod
  /\ BeforePeriod
  /\ pc' = "advance"
  /\ UNCHANGED <<request, iter, answer>>

Send ==
  /\ pc = "loop"
  /\ iter # Invalid
  /\ ~ PastPeriod
  /\ ~ BeforePeriod
  /\ ~ LimitReached
  /\ sent' = Append(sent, iter)
  /\ messagesSend' = messagesSend + 1
  /\ bytesSend' = bytesSend + Size[iter]
  /\ pc' = "advance"
  /\ UNCHANGED <<request, iter>>

(* Prev or Next. *)
Advance ==
  /\ pc = "advance"
  /\ IF query.reverse
       THEN MoveToLast({k \in stored : Compare(k, iter) < 0})
       ELSE MoveToFirst({k \in stored : Compare(k, iter) > 0})
  /\ pc' = "loop"
  /\ UNCHANGED <<request, answer>>

Returned == pc = "done" /\ UNCHANGED vars

Next == SeekEnd \/ SeekKey \/ Fallback \/ Break \/ Continue \/ Send \/ Advance
        \/ Returned

Spec == Init /\ [][Next]_vars

(* The thread of the request is scheduled, and writing an answer returns. *)
FairSpec == Spec /\ WF_vars(Next)

-----------------------------------------------------------------------------
TypeOK ==
  /\ query \in Queries
  /\ stored \in SUBSET Keys
  /\ iter \in stored \cup {Invalid}
  /\ messagesSend \in Nat
  /\ bytesSend \in Nat
  /\ sent \in Seq(Keys)
  /\ pc \in {"seek", "fallback", "loop", "advance", "done"}

Abstract == INSTANCE Range WITH bytes <- bytesSend, ended <- pc = "done"

(* The scan sends what the request promises, in order, each message once,  *)
(* leaves none out unless a limit says so, and comes to an end             *)
(* (DbClient.cpp:75-171).                                                  *)
ImplementsRange == Abstract!FairSpec

(* While the scan is under way, what the request has still to get is what  *)
(* lies ahead of the iterator (DbClient.cpp:80-123 and 130).               *)
Ahead(k) == iter # Invalid /\ Abstract!Precedes(iter, k)

PendingIsAhead ==
  \A k \in stored :
    /\ pc = "loop" =>
         (k \in Abstract!Pending <=> Abstract!InPeriod(k) /\ (k = iter \/ Ahead(k)))
    /\ pc = "advance" =>
         (k \in Abstract!Pending <=> Abstract!InPeriod(k) /\ Ahead(k))

(* What makes it inductive: a reverse scan does not meet a message after    *)
(* `till` once it has found one before, and the counter of the limit counts *)
(* what was sent.                                                          *)
ScanInv ==
  /\ TypeOK
  /\ messagesSend = Len(sent)
  /\ \A i \in DOMAIN sent : sent[i] \in stored
  /\ pc \in {"seek", "fallback"} => sent = <<>>
  /\ pc = "fallback" =>
       IF query.reverse
         THEN query.till # 0 /\ Abstract!AtOrBefore(Abstract!KeyAt(query.till)) = {}
         ELSE query.from # 0 /\ Abstract!AtOrBefore(Abstract!KeyAt(query.from)) = {}
  /\ pc = "advance" => iter # Invalid
  /\ pc \in {"loop", "advance"} /\ iter # Invalid /\ query.reverse =>
       \/ query.till = 0
       \/ Abstract!AtOrBefore(Abstract!KeyAt(query.till)) = {}
       \/ iter \in Abstract!AtOrBefore(Abstract!KeyAt(query.till))
  /\ PendingIsAhead

=============================================================================
