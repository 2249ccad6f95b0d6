------------------------------ MODULE Readers ------------------------------
(***************************************************************************)
(* The calls that read, beside the saves of DbClient: GRPCServer::Get,     *)
(* GetRange and GetSubsample, and the handlers of the HTTP server for      *)
(* ranges, samples and the list of folders.                                *)
(*                                                                         *)
(* A reader fetches the handle of its folder, releases the lock, and then  *)
(* reads through the handle: under the shared lock in Get, Iter and        *)
(* GetBatch, under no lock in GetUniqueRange, GetUniqueRangeForTS and      *)
(* StatusHandler.  CreateColumnFamily can replace the database in between. *)
(*                                                                         *)
(* What a range or a sample consists of is the subject of RangeScan and    *)
(* Subsample; here a range asks for all of its folder, and a sample is the *)
(* accesses it makes.                                                      *)
(***************************************************************************)
EXTENDS DbClient

CONSTANTS
  Readers,     (* the reading calls                                         *)
  Kinds,       (* the functions that serve them                             *)
  MaxBatches   (* bound on the batches of a sample                          *)

Handlers == {"GetRangeHandler", "SubsamplingHandler", "StatusHandler"}
Methods  == {"Get", "GetRange", "GetSubsample"}
Samplers == {"GetSubsample", "SubsamplingHandler"}

ASSUME ReadersAssumption ==
  /\ Kinds \subseteq Handlers \cup Methods
  /\ MaxBatches \in Nat

VARIABLES
  holding,  (* the readers that hold DbClient::lock shared                  *)
  call,     (* reader -> what it serves, None before it has begun           *)
  rpc,      (* reader -> its next step                                      *)
  handle,   (* reader -> gen of the handle it reads through                 *)
  left,     (* reader -> the locked reads it has still to make              *)
  owed,     (* reader -> the ids of what its folder held when it began      *)
  seen,     (* reader -> those it has read                                  *)
  answer    (* reader -> "none", or what the client is told: "ok",          *)
            (* "missing" (no such folder), "error" (no such message), or    *)
            (* "wrong" for what was read through freed memory               *)

reading == <<holding, call, rpc, handle, left, owed, seen, answer>>
allVars == <<vars, reading>>

(* A Get asks for the id some save was answered with. *)
Calls ==
  [kind : Kinds \cap {"Get"}, save : Requests] \cup
  [kind : Kinds \ {"Get"}, folder : Folders]

ReaderInFlight == {"find", "open", "close", "walk", "list", "lock", "read"}
ReaderPCs == ReaderInFlight \cup {"new", "done", "dead"}

kind(r) == call[r].kind
Sought(c) == IF c.kind = "Get" THEN folder(c.save) ELSE c.folder

Move(r, from, to) == rpc[r] = from /\ rpc' = [rpc EXCEPT ![r] = to]

Tell(r, what) == answer' = [answer EXCEPT ![r] = what]

-----------------------------------------------------------------------------
(* A call begins.  The list of folders needs no handle. *)

Owed(c) ==
  LET f == Sought(c)
      stored == Ids({e \in mem[f] : folder(e.req) = f})
  IN CASE c.kind = "Get" -> {id(c.save)} \cap stored
       [] c.kind \in {"GetRange", "GetRangeHandler"} -> stored
       [] OTHER -> {}

Batches(k) == IF k \in Samplers THEN 0..MaxBatches ELSE {1}

Ask(r, c) ==
  /\ db # "down"
  /\ c.kind = "Get" => reply[c.save] = "ok"
  /\ Move(r, "new", IF c.kind = "StatusHandler" THEN "walk" ELSE "find")
  /\ call' = [call EXCEPT ![r] = c]
  /\ owed' = [owed EXCEPT ![r] = Owed(c)]
  /\ \E n \in Batches(c.kind) : left' = [left EXCEPT ![r] = n]
  /\ UNCHANGED <<vars, holding, handle, seen, answer>>

(* gRPC answers NOT_FOUND.  The HTTP handlers set the status after they     *)
(* have sent it: the client gets 200 and nothing else.                      *)
Unknown(r) == IF kind(r) \in Methods THEN "missing" ELSE "ok"

(* GetColumnFamily, under the shared lock for its duration. *)
FindFolder(r) ==
  /\ writer = None
  /\ LET h == columnFamalies[Sought(call[r])] IN
     \/ /\ Move(r, "find", IF kind(r) \in Samplers THEN "open" ELSE "lock")
        /\ h # NoHandle
        /\ handle' = [handle EXCEPT ![r] = h]
        /\ UNCHANGED answer
     \/ /\ Move(r, "find", "done")
        /\ h = NoHandle
        /\ Tell(r, Unknown(r))
        /\ UNCHANGED handle
  /\ UNCHANGED <<vars, holding, call, left, owed, seen>>

-----------------------------------------------------------------------------
(* Is what the reader is about to touch still there?  `handles` may be read *)
(* when Open has failed too: it is empty then.                              *)
Safe(r) ==
  /\ \/ db = "open"
     \/ db = "null" /\ rpc[r] \in {"walk", "list"}
  /\ rpc[r] # "walk" => handle[r] = gen

(* An access to freed memory can go on, but not one through the null        *)
(* database; the walk over `handles` is not through db.                     *)
GoesOn(r) == db # "null" \/ rpc[r] \in {"walk", "list"}

(* GetUniqueRange and GetUniqueRangeForTS, from NewIterator to `delete      *)
(* iter`, without the lock.                                                 *)
OpenIterator(r) ==
  /\ GoesOn(r)
  /\ Move(r, "open", "close")
  /\ UNCHANGED <<vars, holding, call, handle, left, owed, seen, answer>>

CloseIterator(r) ==
  /\ GoesOn(r)
  /\ \/ /\ left[r] > 0
        /\ Move(r, "close", "lock")
        /\ UNCHANGED answer
     \/ /\ left[r] = 0
        /\ Move(r, "close", "done")
        /\ Tell(r, "ok")
  /\ UNCHANGED <<vars, holding, call, handle, left, owed, seen>>

(* StatusHandler walks `handles` and asks each for its name, without the    *)
(* lock.                                                                    *)
WalkHandles(r) ==
  /\ GoesOn(r)
  /\ Move(r, "walk", "list")
  /\ handle' = [handle EXCEPT ![r] = IF Safe(r) THEN gen ELSE NoHandle]
  /\ UNCHANGED <<vars, holding, call, left, owed, seen, answer>>

ListNames(r) ==
  /\ GoesOn(r)
  /\ Move(r, "list", "done")
  /\ Tell(r, IF Safe(r) THEN "ok" ELSE "wrong")
  /\ UNCHANGED <<vars, holding, call, handle, left, owed, seen>>

-----------------------------------------------------------------------------
(* DbClient::Get, Iter and GetBatch, under the shared lock. *)

(* Mutant: without it. *)
ReadUnlocked(r) ==
  /\ Move(r, "lock", "read")
  /\ UNCHANGED <<vars, holding, call, handle, left, owed, seen, answer>>

LockForRead(r) ==
  /\ writer = None
  /\ holding' = holding \cup {r}
  /\ Move(r, "lock", "read")
  /\ UNCHANGED <<vars, call, handle, left, owed, seen, answer>>

(* Mutant: the lock is not released. *)
LeaveLocked(r) == holding' = holding

Unlock(r) == holding' = holding \ {r}

(* A sample makes one read per batch.  A Get that finds nothing is an error. *)
ReadStored(r) ==
  LET stored == Ids(mem[Sought(call[r])]) IN
  /\ rpc[r] = "read" /\ Safe(r)
  /\ Unlock(r)
  /\ left' = [left EXCEPT ![r] = @ - 1]
  /\ seen' = [seen EXCEPT ![r] = owed[r] \cap stored]
  /\ \/ /\ left[r] > 1
        /\ Move(r, "read", "lock")
        /\ UNCHANGED answer
     \/ /\ Move(r, "read", "done")
        /\ left[r] = 1
        /\ Tell(r, IF kind(r) = "Get" /\ id(call[r].save) \notin stored
                     THEN "error" ELSE "ok")
  /\ UNCHANGED <<vars, call, handle, owed>>

(* Through a handle of a deleted database: what is read is of any folder.   *)
ReadFreed(r) ==
  /\ ~ Safe(r) /\ GoesOn(r)
  /\ Unlock(r)
  /\ Move(r, "read", "done")
  /\ left' = [left EXCEPT ![r] = 0]
  /\ Tell(r, "wrong")
  /\ UNCHANGED <<vars, call, handle, owed, seen>>

-----------------------------------------------------------------------------
(* The calls in flight die with the process. *)
KillReaders ==
  LET alive(r) == rpc[r] \notin ReaderInFlight IN
  /\ holding' = {}
  /\ rpc' = [r \in Readers |-> IF alive(r) THEN rpc[r] ELSE "dead"]
  /\ UNCHANGED <<call, handle, left, owed, seen, answer>>

ReadCrashes(r) ==
  /\ rpc[r] \in {"open", "close", "walk", "list", "read"}
  /\ ~ Safe(r)
  /\ Die
  /\ KillReaders
  /\ UNCHANGED crashes

ReadStep(r) ==
  \/ FindFolder(r)
  \/ OpenIterator(r) \/ CloseIterator(r)
  \/ WalkHandles(r) \/ ListNames(r)
  \/ LockForRead(r) \/ ReadStored(r) \/ ReadFreed(r)
  \/ ReadCrashes(r)

(* The readers' part of a step of the others. *)
Beside ==
  \/ db' # "down" /\ UNCHANGED reading
  \/ db' = "down" /\ KillReaders

(* Mutant: a creation does not wait for the readers. *)
SaveOverReaders(q) == Step(q) /\ Beside

(* The creation of a folder takes the lock only when no reader has it. *)
SaveStep(q) ==
  /\ Step(q)
  /\ pc[q] = "lock" => holding = {}
  /\ Beside

Environment ==
  /\ \/ \E q \in Requests : Arrive(q)
     \/ \E f \in Folders : Flush(f)
     \/ Crash
     \/ Restart
  /\ Beside

ReadersQuiescent ==
  /\ Quiescent
  /\ \A r \in Readers : rpc[r] \in {"new", "done", "dead"}
  /\ UNCHANGED reading

ReadersInit ==
  /\ Init
  /\ holding = {}
  /\ call = [r \in Readers |-> None]
  /\ rpc = [r \in Readers |-> "new"]
  /\ handle = [r \in Readers |-> NoHandle]
  /\ left = [r \in Readers |-> 0]
  /\ owed = [r \in Readers |-> {}]
  /\ seen = [r \in Readers |-> {}]
  /\ answer = [r \in Readers |-> "none"]

ReadersNext ==
  \/ \E r \in Readers : (\E c \in Calls : Ask(r, c)) \/ ReadStep(r)
  \/ \E q \in Requests : SaveStep(q)
  \/ Environment
  \/ ReadersQuiescent

ReadersSpec == ReadersInit /\ [][ReadersNext]_allVars

(* The threads of calls that have begun are scheduled.  This is enough for  *)
(* the lock: calls and batches are finite in number, so whoever waits for   *)
(* it finds it free for good in the end.                                    *)
FairReadersSpec ==
  /\ ReadersSpec
  /\ \A r \in Readers : WF_allVars(ReadStep(r))
  /\ \A q \in Requests : WF_allVars(SaveStep(q))

-----------------------------------------------------------------------------
(* Types, the only invariant about them. *)
ReadersTypeOK ==
  /\ holding \subseteq Readers
  /\ call \in [Readers -> Calls \cup {None}]
  /\ rpc \in [Readers -> ReaderPCs]
  /\ handle \in [Readers -> Nat]
  /\ left \in [Readers -> 0..(MaxBatches + 1)]
  /\ owed \in [Readers -> SUBSET StoredID]
  /\ seen \in [Readers -> SUBSET StoredID]
  /\ answer \in [Readers -> {"none", "ok", "missing", "error", "wrong"}]

(* A Get, a scan or a batch never runs while the database is replaced, and  *)
(* never beside CreateColumnFamily at all (DbClient.cpp:58, 70, 77 against  *)
(* LocalDBClient.cpp:78).                                                   *)
LockedReadsSeeOpenDb ==
  \A r \in Readers : rpc[r] = "read" => writer = None /\ db # "closed"

(* A reader that is given an answer, of whatever status, and that did not   *)
(* read freed memory, has been given every message its folder held when it  *)
(* began, wherever the database was closed, opened or restarted before: a   *)
(* folder that is reported missing held nothing (the cache of               *)
(* LocalDBClient.cpp:54-60 and 98-104 behind GRPCServer.cpp:27-31 and       *)
(* GetRangeHandler.cpp:51-56).                                              *)
ReadsMissNothing ==
  \A r \in Readers :
    answer[r] \in {"ok", "missing", "error"} => owed[r] = seen[r]

(* A reader that has begun is answered, or dies with the process, whatever  *)
(* the creations of folders do with the lock.                               *)
EveryReadEnds ==
  \A r \in Readers :
    rpc[r] \in ReaderInFlight ~> rpc[r] \in {"done", "dead"}

(* A read that goes wrong is an error of the call, not of the server:       *)
(* GRPCServer.cpp:41 answers "Ouch!, something wrong".                      *)
FailedReadIsAnError ==
  \A r \in Readers : rpc[r] = "dead" => crashes > 0

-----------------------------------------------------------------------------
(* What makes the invariants inductive.                                    *)

(* The readers that hold the lock are those inside a read, and they and the *)
(* creation of a folder exclude each other.                                 *)
ReadLocks ==
  /\ \A r \in Readers : r \in holding <=> rpc[r] = "read"
  /\ writer # None => holding = {}
  /\ \A r \in Readers : rpc[r] \in ReaderInFlight => db # "down"

(* Who puts has looked its folder up. *)
Writers ==
  \A q \in Requests :
    /\ pc[q] \in {"load", "add"} => stage[q] = "id"
    /\ pc[q] \in {"put", "write"} => cf[q] # NoHandle
    /\ pc[q] \in InFlight /\ stage[q] = "id" /\ req[q].api = "grpc"
         => cf[q] # NoHandle

(* A folder somebody has looked up, or stored into, is in the cache. *)
Cached ==
  /\ \A q \in Requests :
       cf[q] # NoHandle => columnFamalies[folder(q)] # NoHandle
  /\ \A f \in Folders : \A e \in mem[f] \cup disk[f] :
       folder(e.req) = f => columnFamalies[f] # NoHandle

(* What a reader is owed is in its folder for as long as it reads, and only *)
(* who is owed nothing reads without the lock.                              *)
Owing ==
  \A r \in Readers :
    /\ rpc[r] = "new" => answer[r] = "none" /\ owed[r] = {}
    /\ rpc[r] \in {"new", "find"} => seen[r] = {}
    /\ rpc[r] \in {"open", "close", "walk", "list"} => owed[r] = {}
    /\ seen[r] \subseteq owed[r]
    /\ rpc[r] \in ReaderInFlight =>
         /\ answer[r] = "none"
         /\ call[r] \in Calls
         /\ kind(r) \in Samplers => owed[r] = {}
         /\ owed[r] \subseteq Ids(mem[Sought(call[r])])
         /\ owed[r] # {} => columnFamalies[Sought(call[r])] # NoHandle

ReadersInv ==
  /\ IInv
  /\ ReadersTypeOK
  /\ ReadLocks
  /\ Writers
  /\ Cached
  /\ Owing
  /\ ReadsMissNothing

=============================================================================
