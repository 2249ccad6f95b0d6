----------------------------- MODULE Subsample -----------------------------
(***************************************************************************)
(* GRPCServer::GetSubsample and SubsamplingHandler::handleRequest: a       *)
(* random sample of a folder, or of a period of it.                        *)
(*                                                                         *)
(* Messages are drawn by their unique, out of the uniques of two messages  *)
(* that bound the sample, and looked up in batches.  Nothing holds the     *)
(* folder still from the bounds to the last batch: saves go on.            *)
(*                                                                         *)
(* A sample against a database that is being replaced is not modelled.     *)
(***************************************************************************)
EXTENDS IDComparator, FiniteSets, Sequences

CONSTANTS
  Keys,         (* the keys of the messages that may be stored             *)
  Requests,     (* the requests                                            *)
  DefaultStep,  (* the size of a batch if the request does not say: 100    *)
  IntSpan,      (* number of values of an int: 2^32                        *)
  LongSpan,     (* number of values of an unsigned long: 2^64              *)
  Blank         (* the empty Data a lookup that failed is answered with    *)

(* A request bounds the sample by two timestamps unless it is total.  Its  *)
(* numbers are unsigned ints, and over HTTP stoi fills them with negative  *)
(* ones too, all but -1.  gRPC's fields are declared outside of the        *)
(* repository: only what fits an int of either sign is taken for them.     *)
Numbers(api) == 0..(IF api = "http" THEN IntSpan - 2 ELSE IntSpan \div 2 - 1)

RequestOver(api) ==
  [api : {api}, total : BOOLEAN, from : Nat, till : Nat,
   amount : Numbers(api), batchSize : Numbers(api)]

Request == RequestOver("grpc") \cup RequestOver("http")

ASSUME SubsampleAssumption ==
  /\ Keys \subseteq StoredID
  /\ \A k \in Keys : k.unique < LongSpan
  /\ IntSpan \in Nat /\ 2 <= IntSpan
  /\ LongSpan \in Nat
  /\ DefaultStep \in Nat \ {0}
  /\ Requests \subseteq Request
  /\ Blank \notin Keys

VARIABLES
  request,
  stored,   (* the keys of the folder                                      *)
  pc,       (* "range", "loop", "write" or "done"                          *)
  from,     (* the bounds of the uniques to draw                           *)
  till,
  step,     (* the size of a batch                                         *)
  i,        (* what is left of the amount                                  *)
  batch,    (* what was read for each unique drawn, and is to be sent      *)
  messages  (* number of messages sent, blanks included                    *)

vars == <<request, stored, pc, from, till, step, i, batch, messages>>

-----------------------------------------------------------------------------
(* The bounds.                                                             *)

(* The unique of the last message as early as a timestamp, 0 if none is. *)
UniqueUpTo(timestamp) ==
  GetUniqueRange({k \in stored :
    Compare(k, [timestamp |-> timestamp, unique |-> 0]) <= 0}).till

(* Mutant: the second seek is not made, and the period starts where the    *)
(* folder does.                                                            *)
RangeFromFirst(fromTs, tillTs) ==
  [from |-> GetUniqueRange(stored).from, till |-> UniqueUpTo(tillTs)]

GetUniqueRangeForTS(fromTs, tillTs) ==
  [from |-> UniqueUpTo(fromTs), till |-> UniqueUpTo(tillTs)]

UniqueRange ==
  IF request.total THEN GetUniqueRange(stored)
                   ELSE GetUniqueRangeForTS(request.from, request.till)

(* An unsigned int taken for an int, and an unsigned long cut down to one. *)
Signed(n) == IF n < IntSpan \div 2 THEN n ELSE n - IntSpan

ToInt(n) == Signed(n % IntSpan)

Cast(n) == IF request.api = "grpc" THEN ToInt(n) ELSE n

Smaller(m, n) == IF m < n THEN m ELSE n

(* Mutant: a request without a batch size gets a step of 0. *)
StepUnset == Signed(Smaller(request.batchSize, request.amount))

(* The step is an int, but compared with the amount as an unsigned one. *)
StepOf ==
  Signed(Smaller(IF request.batchSize = 0 THEN DefaultStep ELSE request.batchSize,
                 request.amount))

(* What the loop counts down from. *)
Amount == Signed(request.amount)

Range ==
  /\ pc = "range"
  /\ from' = Cast(UniqueRange.from)
  /\ till' = Cast(UniqueRange.till)
  /\ step' = StepOf
  /\ i' = Amount
  /\ pc' = "loop"
  /\ UNCHANGED <<request, stored, batch, messages>>

-----------------------------------------------------------------------------
(* The uniques that may be drawn.  The width of the range is an int over    *)
(* gRPC, and may be negative; over HTTP it is an unsigned long and wraps    *)
(* around.  The conversion of a double that no unsigned long can hold is    *)
(* undefined, and may give any of them.                                     *)

AnyUnique == 0..(LongSpan - 1)

(* Mutant: the width counts both ends. *)
DrawnPastEnd ==
  IF from <= till
    THEN IF from < 0 THEN AnyUnique ELSE from..(till + 1)
    ELSE IF request.api = "http" \/ till < 0 THEN AnyUnique ELSE till..from

(* Mutant: the unique stays an int. *)
DrawnSigned == IF from <= till THEN from..till ELSE till..from

Drawn ==
  IF from <= till
    THEN IF from < 0 THEN AnyUnique ELSE from..till
    ELSE IF request.api = "http" \/ till < 0 THEN AnyUnique ELSE till..from

(* A lookup by unique alone searches an order that is not the one of the    *)
(* keys.  A search by comparisons is certain to meet a message k only if    *)
(* every other message is on the side of k its unique says; if one is not,  *)
(* it depends on the layout of the files and of the memtable.               *)
Misplaced(j, k) ==
  /\ compareByUnique(j, k) # 0
  /\ compareByUnique(j, k) # Compare(j, k)

Matches(key) == {k \in stored : Compare(k, key) = 0}

Lookup(key) ==
  Matches(key) \cup
  {b \in {Blank} : \A k \in Matches(key) : \E j \in stored : Misplaced(j, k)}

Answers ==
  UNION {{[unique |-> u, sent |-> m] :
            m \in Lookup([timestamp |-> 0, unique |-> u])} : u \in Drawn}

(* All keys of a batch are looked up in one snapshot, under the shared lock. *)
GetBatch ==
  /\ pc = "loop"
  /\ 0 < i
  /\ batch' \in [1..step -> Answers]
  /\ pc' = "write"
  /\ UNCHANGED <<request, stored, from, till, step, i, messages>>

(* Mutant: blanks are not sent. *)
WriteFound ==
  /\ pc = "write"
  /\ messages' = messages + Cardinality({n \in 1..step : batch[n].sent # Blank})
  /\ batch' = <<>>
  /\ i' = i - step
  /\ pc' = "loop"
  /\ UNCHANGED <<request, stored, from, till, step>>

Write ==
  /\ pc = "write"
  /\ messages' = messages + Len(batch)
  /\ batch' = <<>>
  /\ i' = i - step
  /\ pc' = "loop"
  /\ UNCHANGED <<request, stored, from, till, step>>

Return ==
  /\ pc = "loop"
  /\ i <= 0
  /\ pc' = "done"
  /\ UNCHANGED <<request, stored, from, till, step, i, batch, messages>>

(* A save of another call. *)
Put(k) ==
  /\ pc # "done"
  /\ k \notin stored
  /\ stored' = stored \cup {k}
  /\ UNCHANGED <<request, pc, from, till, step, i, batch, messages>>

Returned == pc = "done" /\ UNCHANGED vars

-----------------------------------------------------------------------------
Init ==
  /\ request \in Requests
  /\ stored \in SUBSET Keys
  /\ pc = "range"
  /\ from = 0
  /\ till = 0
  /\ step = 0
  /\ i = 0
  /\ batch = <<>>
  /\ messages = 0

Step == Range \/ GetBatch \/ Write \/ Return

Next == Step \/ Returned \/ \E k \in Keys : Put(k)

Spec == Init /\ [][Next]_vars

(* The thread of the request is scheduled; the saves are up to others. *)
FairSpec == Spec /\ WF_vars(Step)

-----------------------------------------------------------------------------
TypeOK ==
  /\ request \in Requests
  /\ stored \in SUBSET Keys
  /\ pc \in {"range", "loop", "write", "done"}
  /\ from \in Int
  /\ till \in Int
  /\ step \in Int
  /\ i \in Int
  /\ batch \in Seq([unique : Nat, sent : Keys \cup {Blank}])
  /\ messages \in Nat

(* The sample has the amount that was asked for, rounded up to whole        *)
(* batches: never fewer, and less than a batch more (the loop of            *)
(* GRPCServer.cpp:203-248 and of SubsamplingHandler.cpp:85-139).  Where the *)
(* amount is negative as an int, it is empty.                               *)
SampleIsLargeEnough ==
  pc = "done" =>
    IF 0 < Amount THEN Amount <= messages /\ messages < Amount + step
                  ELSE messages = 0

(* A folder is in order if uniques grow with the keys. *)
InOrder(K) == \A j, k \in K : j # k => ~ Misplaced(j, k) /\ j.unique # k.unique

(* The bounds are those of the folder as it is, and the cast has not        *)
(* changed them.                                                           *)
BoundsHold == from = UniqueRange.from /\ till = UniqueRange.till

(* In a folder that is in order and has no gaps within the bounds, every   *)
(* lookup of a batch finds its message, whatever is saved in the meantime  *)
(* (the wildcard of IDComparator.cpp:34 and the draw of GRPCServer.cpp:219).*)
NoBlanksInOrder ==
  [][/\ pc = "loop" /\ pc' = "write"
     /\ 0 <= from /\ from <= till
     /\ \A u \in from..till : \E k \in stored : k.unique = u
     /\ InOrder(stored)
     => \A n \in DOMAIN batch' : batch'[n].sent # Blank]_vars

(* The messages sampled of a period, from a folder in order, are of the     *)
(* period or the last one before it (SeekForPrev in DbClient.cpp:214 and    *)
(* 228), as long as the bounds are not stale; where no message is as early  *)
(* as `till` the bounds are 0 and 0, and the first message may be sent      *)
(* though it is later.                                                     *)
SampleIsNearPeriod ==
  [][/\ pc = "loop" /\ pc' = "write"
     /\ ~ request.total
     /\ request.from <= request.till
     /\ \E k \in stored : k.unique = till /\ k.timestamp <= request.till
     /\ BoundsHold
     /\ InOrder(stored)
     => \A n \in DOMAIN batch' : batch'[n].sent # Blank =>
          LET k == batch'[n].sent IN
          /\ k.timestamp <= request.till
          /\ request.from <= k.timestamp \/ k.unique = from]_vars

(* A sample ends: every turn of the loop takes something off the amount. *)
SampleEnds == <>(pc = "done")

-----------------------------------------------------------------------------
(* What tests and comments of the repository expect, and the code does not *)
(* do.                                                                     *)

(* A lookup by unique alone finds a message of that unique, as             *)
(* IDComparator.cpp:33 means it to: "we should compare by unique (for       *)
(* subsampling)".                                                          *)
StoredUniqueIsFound ==
  [][pc = "loop" /\ pc' = "write" =>
       \A n \in DOMAIN batch' :
         (\E k \in stored : k.unique = batch'[n].unique)
         => batch'[n].sent # Blank]_vars

-----------------------------------------------------------------------------
(* What makes SampleIsLargeEnough inductive. *)
SizeInv ==
  /\ pc = "range" => messages = 0
  /\ pc # "range" =>
       /\ step = StepOf
       /\ i + messages = Amount
       /\ messages = 0 \/ (0 < Amount /\ 0 < i + step)
  /\ pc = "write" => 0 < i /\ Len(batch) = step
  /\ pc = "done" => i <= 0
=============================================================================
