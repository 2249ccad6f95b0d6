------------------------------ MODULE DbClient ------------------------------
(***************************************************************************)
(* Concurrent saves through DbClient: the folder cache, the reader/writer  *)
(* lock, the counters that number the messages of a folder, and the        *)
(* RocksDB database below them, which CreateColumnFamily closes and opens  *)
(* again each time a folder is used for the first time.                    *)
(*                                                                         *)
(* Each element of Requests is one call of GRPCServer::Save or of          *)
(* SaveHandler::handleRequest, run by a thread of its own.  The steps of a *)
(* call are the points at which another thread can get in: one step per    *)
(* locked section, and one per access made without the lock.               *)
(*                                                                         *)
(* RocksDB is external code, modelled from how DbClient uses it.           *)
(***************************************************************************)
EXTENDS IDComparator

CONSTANTS
  Requests,    (* the save calls                                            *)
  Folders,     (* the folder names they may use                             *)
  Existing,    (* the column families the database already has              *)
  Timestamps,  (* what a call is stamped with: by its client or the clock   *)
  Apis,        (* the front ends in use, among "grpc" and "http"            *)
  WalModes,    (* the values of useWAL                                      *)
  Faults,      (* RocksDB calls that may fail: "create", "list", "open",    *)
               (* "put"                                                     *)
  Garbage,     (* what an access to a freed counter may read                *)
  MaxCrashes,  (* bound on crashes that do not come from the program        *)
  None         (* the owner of a lock nobody holds                          *)

ASSUME ConstantsAssumption ==
  /\ Existing \subseteq Folders
  /\ Timestamps \subseteq Nat \ {0}
  /\ Apis \subseteq {"grpc", "http"}
  /\ WalModes \subseteq BOOLEAN
  /\ Faults \subseteq {"create", "list", "open", "put"}
  /\ Garbage \subseteq Nat
  /\ MaxCrashes \in Nat
  /\ None \notin Requests

VARIABLES
  writer,          (* who holds DbClient::lock exclusively, or None         *)
  readers,         (* who holds it shared                                   *)
  db,              (* the database object: "open", "closed" between         *)
                   (* `delete db` and Open, "null" after an Open that       *)
                   (* failed, "down" when the process is not running        *)
  gen,             (* numbers the database objects: a handle carries the    *)
                   (* number of the object it belongs to                    *)
  families,        (* the column families in the database                   *)
  columnFamalies,  (* folder -> gen of the cached handle, NoHandle if none  *)
  lastUnique,      (* folder -> the counter cached beside the handle        *)
  counterGen,      (* the gen the counter objects were allocated in         *)
  mem,             (* folder -> entries a reader of the database sees       *)
  disk,            (* folder -> entries that survive the process            *)
  crashes,         (* number of environment crashes so far                  *)
  req,             (* request -> its parameters                             *)
  pc,              (* request -> its next step                              *)
  stage,           (* request -> what it calls GetOrCreateColumnFamily for  *)
  cf,              (* request -> the handle it will write through           *)
  counter,         (* request -> gen of the counter object it looked up     *)
  unique,          (* request -> the number it drew                         *)
  origin,          (* request -> gen of the live counter it drew from, or   *)
                   (* Dangling if the counter had been freed                *)
  reply            (* request -> "none", "ok" or "error"                    *)

locking   == <<writer, readers>>
database  == <<db, gen, families, mem, disk>>
cache     == <<columnFamalies, lastUnique, counterGen>>
drawn     == <<counter, unique, origin>>
vars == <<locking, database, cache, crashes, req, pc, stage, cf, drawn, reply>>

NoHandle == 0
Dangling == 0

Parameters ==
  [folder : Folders, timestamp : Timestamps, api : Apis, useWAL : WalModes]

(* A stored message: its key, the call that wrote it, the gen its unique   *)
(* was drawn in and the gen it was written in (the last two are ghosts).   *)
Entry == [id : StoredID, req : Requests, drawn : Nat, landed : Nat]

InCreate == {"create", "close", "open", "refresh"}
InFlight == InCreate \cup
            {"find", "lock", "refind", "load", "add", "put", "write"}
PCs == InFlight \cup {"new", "done", "dead"}

folder(r) == req[r].folder
Ids(entries) == {e.id : e \in entries}

Transition(r, from, to) == pc[r] = from /\ pc' = [pc EXCEPT ![r] = to]

Reply(r, status) == reply' = [reply EXCEPT ![r] = status]

-----------------------------------------------------------------------------
(* The process dies: of SIGSEGV, which the handler in reqstore.cpp turns   *)
(* into exit(1), or killed from outside.  Nothing closes the database, so  *)
(* only what is on disk is left, and the calls in flight get no answer.    *)

Die ==
  LET Kill(fn, nil) ==
        [r \in Requests |-> IF pc[r] \in InFlight THEN nil ELSE fn[r]]
  IN /\ db' = "down"
     /\ mem' = disk
     /\ writer' = None
     /\ readers' = {}
     /\ pc' = Kill(pc, "dead")
     /\ stage' = Kill(stage, "handle")
     /\ cf' = Kill(cf, NoHandle)
     /\ counter' = Kill(counter, Dangling)
     /\ unique' = Kill(unique, 0)
     /\ origin' = Kill(origin, Dangling)
     /\ UNCHANGED <<gen, families, disk, cache, req, reply>>

Crash ==
  /\ db # "down"
  /\ crashes < MaxCrashes
  /\ crashes' = crashes + 1
  /\ Die

(* Mutant: insert, as with emplace, which leaves existing entries alone. *)
CacheNewHandles(g) ==
  /\ columnFamalies' = [f \in Folders |->
       IF f \in families /\ columnFamalies[f] = NoHandle THEN g ELSE columnFamalies[f]]
  /\ lastUnique' = [f \in Folders |->
       IF f \in families THEN GetUniqueRange(Ids(mem[f])).till ELSE lastUnique[f]]
  /\ counterGen' = g

(* Mutant: the counter starts from the first key. *)
CacheFirstUniques(g) ==
  /\ columnFamalies' = [f \in Folders |->
       IF f \in families THEN g ELSE columnFamalies[f]]
  /\ lastUnique' = [f \in Folders |->
       IF f \in families THEN GetUniqueRange(Ids(mem[f])).from ELSE lastUnique[f]]
  /\ counterGen' = g

(* Every family of the database gets its handle and a new counter object,  *)
(* which starts from the unique of the last key.                           *)
CacheHandles(g) ==
  /\ columnFamalies' = [f \in Folders |->
       IF f \in families THEN g ELSE columnFamalies[f]]
  /\ lastUnique' = [f \in Folders |->
       IF f \in families THEN GetUniqueRange(Ids(mem[f])).till
                         ELSE lastUnique[f]]
  /\ counterGen' = g

Restart ==
  /\ db = "down"
  /\ db' = "open"
  /\ gen' = gen + 1
  /\ CacheHandles(gen + 1)
  /\ UNCHANGED <<locking, families, mem, disk, crashes, req, pc, stage, cf,
                 drawn, reply>>

(* RocksDB writes a memtable out in the background. *)
Flush(f) ==
  /\ db = "open"
  /\ disk[f] # mem[f]
  /\ disk' = [disk EXCEPT ![f] = mem[f]]
  /\ UNCHANGED <<locking, db, gen, families, mem, cache, crashes, req, pc,
                 stage, cf, drawn, reply>>

-----------------------------------------------------------------------------
(* A call starts.  Over gRPC, Perform first gets the handle and Save then  *)
(* generates the id; the HTTP handler generates the id first.              *)

Arrive(r) ==
  /\ db # "down"
  /\ Transition(r, "new", "find")
  /\ stage' = [stage EXCEPT ![r] = IF req[r].api = "grpc" THEN "handle" ELSE "id"]
  /\ UNCHANGED <<locking, database, cache, crashes, req, cf, drawn, reply>>

(* GetOrCreateColumnFamily returns the cached handle to its caller: Perform *)
(* or SaveHandler keep it for Put, GenerateId goes on to the counter.       *)
ReturnHandle(r, from) ==
  LET f == folder(r) IN
  /\ columnFamalies[f] # NoHandle
  /\ \/ /\ stage[r] = "handle"
        /\ cf' = [cf EXCEPT ![r] = columnFamalies[f]]
        /\ \/ /\ req[r].api = "grpc"
              /\ stage' = [stage EXCEPT ![r] = "id"]
              /\ Transition(r, from, "find")
           \/ /\ req[r].api = "http"
              /\ Transition(r, from, "put")
              /\ UNCHANGED stage
     \/ /\ stage[r] = "id"
        /\ Transition(r, from, "load")
        /\ UNCHANGED <<stage, cf>>

(* The first GetColumnFamily, under the shared lock for its duration. *)
Find(r) ==
  /\ writer = None
  /\ \/ ReturnHandle(r, "find")
     \/ /\ columnFamalies[folder(r)] = NoHandle
        /\ Transition(r, "find", "lock")
        /\ UNCHANGED <<stage, cf>>
  /\ UNCHANGED <<locking, database, cache, crashes, req, drawn, reply>>

(* The second one, after CreateColumnFamily. *)
FindCreated(r) ==
  /\ writer = None
  /\ ReturnHandle(r, "refind")
  /\ UNCHANGED <<locking, database, cache, crashes, req, drawn, reply>>

-----------------------------------------------------------------------------
(* CreateColumnFamily, under the exclusive lock.                           *)

(* Mutant: the writer does not wait for the readers. *)
LockOverReaders(r) ==
  /\ writer = None
  /\ writer' = r
  /\ Transition(r, "lock", "create")
  /\ UNCHANGED <<readers, database, cache, crashes, req, stage, cf, drawn,
                 reply>>

LockForCreate(r) ==
  /\ writer = None
  /\ readers = {}
  /\ writer' = r
  /\ Transition(r, "lock", "create")
  /\ UNCHANGED <<readers, database, cache, crashes, req, stage, cf, drawn,
                 reply>>

(* Mutant: lock() without a guard. *)
ThrowLocked(r, from) ==
  /\ writer' = writer
  /\ Transition(r, from, "done")
  /\ Reply(r, "error")

(* The exception unwinds the lock_guard and ends the call. *)
Throw(r, from) ==
  /\ writer' = None
  /\ Transition(r, from, "done")
  /\ Reply(r, "error")

(* RocksDB refuses a family that exists, and may fail; either way the       *)
(* handle it returns is null.  `if (s.OK)` tests a function, not the        *)
(* status, so the code goes on to cf->GetName(); so it does on the null db  *)
(* a failed Open left behind.                                               *)
CreateRefused(r) ==
  /\ pc[r] = "create"
  /\ \/ folder(r) \in families
     \/ "create" \in Faults
     \/ db = "null"
  /\ Die
  /\ UNCHANGED crashes

CreateFamily(r) ==
  /\ db = "open"
  /\ folder(r) \notin families
  /\ families' = families \cup {folder(r)}
  /\ Transition(r, "create", "close")
  /\ UNCHANGED <<locking, db, gen, mem, disk, cache, crashes, req, stage, cf,
                 drawn, reply>>

(* GetColumnFamalies throws when the list cannot be read: the family has    *)
(* been created, but the cache does not know it.                            *)
ListFails(r) ==
  /\ "list" \in Faults
  /\ Throw(r, "close")
  /\ UNCHANGED <<readers, database, cache, crashes, req, stage, cf, drawn>>

(* Mutant: the memtables are dropped. *)
CloseUnflushed(r) ==
  /\ Transition(r, "close", "open")
  /\ db' = "closed"
  /\ gen' = gen + 1
  /\ UNCHANGED <<locking, families, mem, disk, cache, crashes, req, stage, cf,
                 drawn, reply>>

(* `delete db` flushes what is not on disk and frees the handles. *)
CloseDb(r) ==
  /\ Transition(r, "close", "open")
  /\ db' = "closed"
  /\ gen' = gen + 1
  /\ disk' = mem
  /\ UNCHANGED <<locking, families, mem, cache, crashes, req, stage, cf,
                 drawn, reply>>

OpenDb(r) ==
  /\ Transition(r, "open", "refresh")
  /\ db' = "open"
  /\ mem' = disk
  /\ UNCHANGED <<locking, gen, families, disk, cache, crashes, req, stage, cf,
                 drawn, reply>>

(* Open clears the handles and leaves db null; the cache is not touched. *)
OpenFails(r) ==
  /\ "open" \in Faults
  /\ Throw(r, "open")
  /\ db' = "null"
  /\ UNCHANGED <<readers, gen, families, mem, disk, cache, crashes, req, stage,
                 cf, drawn>>

Refresh(r) ==
  /\ Transition(r, "refresh", "refind")
  /\ CacheHandles(gen)
  /\ writer' = None
  /\ UNCHANGED <<readers, database, crashes, req, stage, cf, drawn, reply>>

-----------------------------------------------------------------------------
(* GenerateId draws from columnFamalies[folder]->lastUnique without the     *)
(* lock: a lookup in the map, then the fetch_add on what it points to.      *)

LoadCounter(r) ==
  /\ Transition(r, "load", "add")
  /\ counter' = [counter EXCEPT ![r] = counterGen]
  /\ UNCHANGED <<locking, database, cache, crashes, req, stage, cf, unique,
                 origin, reply>>

(* The lookup races with the insertions of Refresh, which may rehash. *)
LoadRaces(r) ==
  /\ pc[r] = "load"
  /\ \E w \in Requests : pc[w] = "refresh"
  /\ Die
  /\ UNCHANGED crashes

AfterDraw(r) ==
  \/ /\ req[r].api = "grpc"
     /\ Transition(r, "add", "put")
     /\ UNCHANGED stage
  \/ /\ req[r].api = "http"
     /\ Transition(r, "add", "find")
     /\ stage' = [stage EXCEPT ![r] = "handle"]

(* Mutant: a load in the place of the fetch_add. *)
DrawSame(r) ==
  /\ counter[r] = counterGen
  /\ unique' = [unique EXCEPT ![r] = lastUnique[folder(r)]]
  /\ origin' = [origin EXCEPT ![r] = counterGen]
  /\ AfterDraw(r)
  /\ UNCHANGED <<locking, database, cache, crashes, req, cf, counter, reply>>

Draw(r) ==
  /\ counter[r] = counterGen
  /\ unique' = [unique EXCEPT ![r] = lastUnique[folder(r)]]
  /\ lastUnique' = [lastUnique EXCEPT ![folder(r)] = @ + 1]
  /\ origin' = [origin EXCEPT ![r] = counterGen]
  /\ AfterDraw(r)
  /\ UNCHANGED <<locking, database, columnFamalies, counterGen, crashes, req,
                 cf, counter, reply>>

(* The counter was freed by a Refresh since it was looked up. *)
DrawFreed(r) ==
  /\ counter[r] # counterGen
  /\ \E v \in Garbage : unique' = [unique EXCEPT ![r] = v]
  /\ origin' = [origin EXCEPT ![r] = Dangling]
  /\ AfterDraw(r)
  /\ UNCHANGED <<locking, database, cache, crashes, req, cf, counter, reply>>

-----------------------------------------------------------------------------
(* DbClient::Put, under the shared lock.                                    *)

(* Mutant: Put does not take the lock. *)
PutUnlocked(r) ==
  /\ readers' = readers
  /\ Transition(r, "put", "write")
  /\ UNCHANGED <<writer, database, cache, crashes, req, stage, cf, drawn,
                 reply>>

LockForPut(r) ==
  /\ writer = None
  /\ readers' = readers \cup {r}
  /\ Transition(r, "put", "write")
  /\ UNCHANGED <<writer, database, cache, crashes, req, stage, cf, drawn,
                 reply>>

HandleIsLive(r) == db = "open" /\ cf[r] = gen

(* Mutant: a missing timestamp is not replaced by the clock. *)
IdUnstamped(r) == [timestamp |-> 0, unique |-> unique[r]]

id(r) == [timestamp |-> req[r].timestamp, unique |-> unique[r]]

EntryOf(r) ==
  [id |-> id(r), req |-> r, drawn |-> origin[r], landed |-> gen]

(* A put replaces the entry whose key compares equal. *)
Overwrite(entries, e) == {x \in entries : Compare(x.id, e.id) # 0} \cup {e}

(* Mutant: disableWAL = useWAL. *)
StoreInverted(r, f) ==
  /\ mem' = [mem EXCEPT ![f] = Overwrite(@, EntryOf(r))]
  /\ disk' = IF req[r].useWAL
               THEN disk
               ELSE [disk EXCEPT ![f] = Overwrite(@, EntryOf(r))]

StoreIn(r, f) ==
  /\ mem' = [mem EXCEPT ![f] = Overwrite(@, EntryOf(r))]
  /\ disk' = IF req[r].useWAL
               THEN [disk EXCEPT ![f] = Overwrite(@, EntryOf(r))]
               ELSE disk

EndPut(r, status) ==
  /\ readers' = readers \ {r}
  /\ Transition(r, "write", "done")
  /\ Reply(r, status)
  /\ UNCHANGED <<writer, db, gen, families, cache, crashes, req, stage, cf,
                 drawn>>

PutStores(r) ==
  /\ HandleIsLive(r)
  /\ StoreIn(r, folder(r))
  /\ EndPut(r, "ok")

(* A status that is not ok: gRPC answers INTERNAL, the HTTP handler still   *)
(* answers 200 with the id.                                                 *)
Refusal(r) == IF req[r].api = "grpc" THEN "error" ELSE "ok"

PutRefused(r) ==
  /\ HandleIsLive(r)
  /\ "put" \in Faults
  /\ EndPut(r, Refusal(r))
  /\ UNCHANGED <<mem, disk>>

(* A handle of a database that has been deleted: the family id it is read   *)
(* from is freed memory, so the write reaches some family, or none.         *)
PutThroughFreedHandle(r) ==
  /\ db = "open"
  /\ cf[r] # gen
  /\ \/ /\ \E f \in families : StoreIn(r, f)
        /\ EndPut(r, "ok")
     \/ /\ EndPut(r, Refusal(r))
        /\ UNCHANGED <<mem, disk>>

PutCrashes(r) ==
  /\ pc[r] = "write"
  /\ ~ HandleIsLive(r)
  /\ Die
  /\ UNCHANGED crashes

-----------------------------------------------------------------------------
Init ==
  /\ writer = None
  /\ readers = {}
  /\ db = "open"
  /\ gen = 1
  /\ families = Existing
  /\ columnFamalies = [f \in Folders |-> IF f \in Existing THEN 1 ELSE NoHandle]
  /\ lastUnique = [f \in Folders |-> 0]
  /\ counterGen = 1
  /\ mem = [f \in Folders |-> {}]
  /\ disk = [f \in Folders |-> {}]
  /\ crashes = 0
  /\ req \in [Requests -> Parameters]
  /\ pc = [r \in Requests |-> "new"]
  /\ stage = [r \in Requests |-> "handle"]
  /\ cf = [r \in Requests |-> NoHandle]
  /\ counter = [r \in Requests |-> Dangling]
  /\ unique = [r \in Requests |-> 0]
  /\ origin = [r \in Requests |-> Dangling]
  /\ reply = [r \in Requests |-> "none"]

Step(r) ==
  \/ Find(r) \/ FindCreated(r)
  \/ LockForCreate(r) \/ CreateFamily(r) \/ CreateRefused(r)
  \/ CloseDb(r) \/ ListFails(r)
  \/ OpenDb(r) \/ OpenFails(r)
  \/ Refresh(r)
  \/ LoadCounter(r) \/ LoadRaces(r)
  \/ Draw(r) \/ DrawFreed(r)
  \/ LockForPut(r)
  \/ PutStores(r) \/ PutRefused(r) \/ PutThroughFreedHandle(r) \/ PutCrashes(r)

(* Every call has ended: nothing is left to do. *)
Quiescent ==
  /\ \A r \in Requests : pc[r] \in {"done", "dead"}
  /\ UNCHANGED vars

Next ==
  \/ \E r \in Requests : Arrive(r) \/ Step(r)
  \/ \E f \in Folders : Flush(f)
  \/ Crash
  \/ Restart
  \/ Quiescent

Spec == Init /\ [][Next]_vars

(* The threads of calls that have started are scheduled; whether a call     *)
(* starts, a crash happens or the server is restarted is up to others.      *)
FairSpec == Spec /\ \A r \in Requests : WF_vars(Step(r))

-----------------------------------------------------------------------------
(* Types, the only invariant about them. *)
TypeOK ==
  /\ writer \in Requests \cup {None}
  /\ readers \subseteq Requests
  /\ db \in {"open", "closed", "null", "down"}
  /\ gen \in Nat
  /\ families \subseteq Folders
  /\ columnFamalies \in [Folders -> Nat]
  /\ lastUnique \in [Folders -> Nat]
  /\ counterGen \in Nat
  /\ mem \in [Folders -> SUBSET Entry]
  /\ disk \in [Folders -> SUBSET Entry]
  /\ crashes \in 0..MaxCrashes
  /\ req \in [Requests -> Parameters]
  /\ pc \in [Requests -> PCs]
  /\ stage \in [Requests -> {"handle", "id"}]
  /\ cf \in [Requests -> Nat]
  /\ counter \in [Requests -> Nat]
  /\ unique \in [Requests -> Nat]
  /\ origin \in [Requests -> Nat]
  /\ reply \in [Requests -> {"none", "ok", "error"}]

(* A Put runs under the shared lock, so CreateColumnFamily is never between *)
(* `delete db` and Open meanwhile: no call uses a database that is being    *)
(* replaced (DbClient.cpp:64, LocalDBClient.cpp:78).                        *)
LockedCallsSeeOpenDb ==
  \A r \in Requests : pc[r] = "write" =>
    /\ r \in readers
    /\ writer = None
    /\ db # "closed"

(* Whenever GetColumnFamily can look at the map and the database is open,   *)
(* the handles it may return belong to that database (LocalDBClient.cpp:103 *)
(* replaces all of them before the lock is released).                       *)
MapHandlesLive ==
  writer = None /\ db = "open" =>
    \A f \in Folders : columnFamalies[f] \in {NoHandle, gen}

(* Two calls for one folder that draw from the same counter object get      *)
(* different uniques, whatever happens between their steps (the fetch_add   *)
(* of DbClient.cpp:50).                                                     *)
FreshUniquesPerOpen ==
  \A r, q \in Requests :
    /\ r # q
    /\ folder(r) = folder(q)
    /\ origin[r] = origin[q]
    /\ origin[r] # Dangling
    => unique[r] # unique[q]

(* A counter is never behind the last key of its folder (DbClient.cpp:173   *)
(* through LocalDBClient.cpp:102), but for keys written after it was set    *)
(* by a call that had drawn from an earlier counter or that wrote through   *)
(* the handle of another folder.                                            *)
CounterCoversLastKey ==
  db # "down" =>
    \A f \in Folders : \A e \in mem[f] :
      /\ IsLast(e.id, Ids(mem[f]))
      /\ \/ e.landed < counterGen
         \/ e.drawn = e.landed /\ folder(e.req) = f
      => e.id.unique <= lastUnique[f]

(* Reopening the database when a folder is created loses no message: only   *)
(* the death of the process can (LocalDBClient.cpp:92-94; RocksDB flushes   *)
(* in `delete db` what was written without the WAL).                        *)
ReopenLosesNothing ==
  [][db' # "down" =>
       \A f \in Folders : Ids(mem[f]) \subseteq Ids(mem'[f])]_vars

(* A message saved with the WAL is on disk as long as a reader finds it: no *)
(* crash takes it away or brings back one it had replaced, whoever created  *)
(* a folder meanwhile and whatever handle it was written through            *)
(* (DbClient.cpp:64, LocalDBClient.cpp:92).                                 *)
LoggedMessagesSurvive ==
  \A f \in Folders : \A e \in mem[f] : req[e.req].useWAL => e \in disk[f]

(* Under all of this there is a store that loses nothing while it runs.     *)
Store == INSTANCE MessageStore
  WITH up <- db # "down", shown <- mem, kept <- disk

(* Every step of the saves, of RocksDB's and of a creation that closes and  *)
(* opens the database is a step of that store, or none (DbClient.cpp:64,    *)
(* LocalDBClient.cpp:77-113).  A message gives way to one saved under its   *)
(* id and to nothing else.                                                  *)
ImplementsStore == Store!Spec

(* Where no folder is created, a gRPC save that was answered OK is read     *)
(* back from its folder, under the id in the answer, until the process      *)
(* dies: no concurrent save takes its place.                                *)
AckedSaveReadable ==
  \A r \in Requests :
    /\ reply[r] = "ok"
    /\ req[r].api = "grpc"
    /\ origin[r] = gen
    /\ db = "open"
    => \E e \in mem[folder(r)] : e.req = r /\ e.id = id(r)

(* Where no folder is created, the message of a gRPC save that asked for    *)
(* the WAL and was answered OK is under its id for readers and on disk,     *)
(* through crashes, stops and starts, unless a save drew the same unique    *)
(* after a LATER start, for the same timestamp: LocalDBClient.cpp:58 starts *)
(* the counter at the last unique, DbClient.cpp:50 gives it out again, and  *)
(* the put replaces the acknowledged message.                               *)
AckedWalSaveSurvives ==
  \A r \in Requests :
    /\ reply[r] = "ok"
    /\ req[r].api = "grpc"
    /\ req[r].useWAL
    => \A entries \in {mem[folder(r)], disk[folder(r)]} :
         \E e \in entries :
           /\ e.id = id(r)
           /\ e.req = r \/ e.drawn > origin[r]

(* A call that has started ends: it is answered, or dies with the process.  *)
(* No path out of CreateColumnFamily keeps the lock.                        *)
EveryCallEnds ==
  \A r \in Requests : pc[r] \in InFlight ~> pc[r] \in {"done", "dead"}

-----------------------------------------------------------------------------
(* What comments, error messages and tests of the repository expect of     *)
(* this code, and what it does not do.                                     *)

(* A lookup by unique alone finds one message: IDComparator.cpp:33 says of  *)
(* keys without a timestamp that "we should compare by unique (for         *)
(* subsampling)".                                                          *)
UniqueIdentifiesMessage ==
  \A f \in Folders : \A e, d \in mem[f] : e.id.unique = d.id.unique => e = d

(* A save whose answer carries an id, with no crash since, is in its        *)
(* folder under that id, as HttpApiSpec.scala:59-60 and                    *)
(* TimeMachineClientSpec.scala:31-32 check.                                *)
AnsweredSaveIsStored ==
  \A r \in Requests :
    reply[r] = "ok" /\ crashes = 0 /\ db = "open" =>
      id(r) \in Ids(mem[folder(r)])

(* A folder that cannot be created is an error of the call, not of the      *)
(* server: LocalDBClient.cpp:116 throws "Couldn't create columnFamily".    *)
RefusedCreateIsAnError ==
  \A r \in Requests : pc[r] = "dead" => crashes > 0

-----------------------------------------------------------------------------
(* What makes the invariants above inductive, in four parts.               *)

(* The lock has one writer or some readers, and only its writer finds the  *)
(* database closed or newer than the cache.                                *)
Locks ==
  /\ \A r \in Requests : writer = r <=> pc[r] \in InCreate
  /\ \A r \in Requests : r \in readers <=> pc[r] = "write"
  /\ writer # None => readers = {}
  /\ \A r \in Requests :
       /\ pc[r] = "open" => db = "closed"
       /\ pc[r] \in {"close", "refresh"} => db = "open"
       /\ pc[r] \in InFlight => db # "down"
  /\ db = "closed" => \E r \in Requests : pc[r] = "open"

(* The cached handles and counters were all made at the same open, which   *)
(* is the current one unless a writer is on its way to replace them.       *)
Replacing(r) == pc[r] \in {"open", "refresh"}

Handles ==
  /\ \A f \in Folders :
       /\ columnFamalies[f] \in {NoHandle, counterGen}
       /\ columnFamalies[f] # NoHandle => f \in families
  /\ 0 < counterGen /\ counterGen <= gen
  /\ \A r \in Requests : Replacing(r) => counterGen < gen
  /\ db = "open" /\ counterGen # gen => \E r \in Requests : Replacing(r)

(* Every number drawn from the current counter of a folder is below it. *)
Counters ==
  \A r \in Requests :
    /\ origin[r] <= counterGen
    /\ origin[r] = counterGen /\ origin[r] # Dangling
         => unique[r] < lastUnique[folder(r)]

(* Messages and the handles of calls are of families of the database, and a *)
(* database that was closed has been flushed.                              *)
Storage ==
  /\ \A f \in Folders : \A S \in {mem[f], disk[f]} :
       /\ S # {} => f \in families
       /\ \A e \in S : e.landed <= gen
  /\ \A r \in Requests :
       /\ cf[r] # NoHandle => folder(r) \in families
       /\ pc[r] = "open" => disk = mem

IInv ==
  /\ TypeOK
  /\ Locks
  /\ Handles
  /\ Counters
  /\ Storage
  /\ CounterCoversLastKey

=============================================================================
