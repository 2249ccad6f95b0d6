--------------------------- MODULE Readers_proofs ---------------------------
(***************************************************************************)
(* Safety of the readers of Readers.tla beside the saves of DbClient, for  *)
(* any number of both.  ReadersInv is shown to be inductive, one part      *)
(* after the other; the part about saves is IInv of DbClient.              *)
(***************************************************************************)
EXTENDS Readers, DbClient_proofs

USE DEF vars, locking, database, cache, drawn, reading, allVars

-----------------------------------------------------------------------------
(* What a step of the whole is to the saves, and what it is to the readers. *)

ReadDeath == Die /\ UNCHANGED crashes

LEMMA SavesStep ==
  ASSUME [ReadersNext]_allVars
  PROVE  [Next]_vars \/ ReadDeath
<1>1. ASSUME NEW r \in Readers, NEW c \in Calls, Ask(r, c) PROVE UNCHANGED vars
  BY <1>1 DEF Ask
<1>2. ASSUME NEW r \in Readers, ReadStep(r) PROVE UNCHANGED vars \/ ReadDeath
  BY <1>2
     DEF ReadStep, FindFolder, OpenIterator, CloseIterator, WalkHandles,
         ListNames, LockForRead, ReadStored, ReadFreed, ReadCrashes, ReadDeath
<1>3. ASSUME NEW q \in Requests, SaveStep(q) PROVE Next
  BY <1>3 DEF SaveStep, Next
<1>4. Environment => Next BY DEF Environment, Next
<1>5. ReadersQuiescent => UNCHANGED vars BY DEF ReadersQuiescent, Quiescent
<1> QED BY <1>1, <1>2, <1>3, <1>4, <1>5 DEF ReadersNext

LEMMA StepIInv == IInv /\ [ReadersNext]_allVars => IInv'
<1> SUFFICES ASSUME IInv, [ReadersNext]_allVars PROVE IInv'
  OBVIOUS
<1>1. CASE [Next]_vars
  BY <1>1, NextType, NextLocks, NextHandles, NextCounters, NextStorage, NextCovers
     DEF IInv
<1>2. CASE ReadDeath
  <2>1. TypeOK' BY <1>2, DieType DEF IInv, ReadDeath, TypeOK
  <2> QED
    BY <1>2, <2>1, DieLocks, DieHandles, DieCounters, DieStorage, DieCovers
       DEF IInv, ReadDeath
<1> QED BY <1>1, <1>2, SavesStep

-----------------------------------------------------------------------------
(* Types.                                                                  *)

LEMMA ReadersInitType == ReadersInit => ReadersTypeOK
BY ReadersAssumption DEF ReadersInit, ReadersTypeOK, ReaderPCs, ReaderInFlight, NoHandle

LEMMA KillType == ReadersTypeOK /\ KillReaders => ReadersTypeOK'
BY DEF KillReaders, ReadersTypeOK, ReaderPCs, ReaderInFlight

LEMMA BesideType == ReadersTypeOK /\ Beside => ReadersTypeOK'
<1>1. ReadersTypeOK /\ UNCHANGED reading => ReadersTypeOK' BY DEF ReadersTypeOK
<1> QED BY <1>1, KillType DEF Beside

LEMMA SoughtType ==
  ASSUME TypeOK, NEW c \in Calls
  PROVE  Sought(c) \in Folders
BY FoldersUseIDs DEF Calls, Sought

LEMMA OwedType ==
  ASSUME TypeOK, NEW c \in Calls
  PROVE  /\ Owed(c) \subseteq Ids(mem[Sought(c)])
         /\ Owed(c) \in SUBSET StoredID
<1> DEFINE f == Sought(c)
<1>1. f \in Folders BY SoughtType
<1>2. Ids({e \in mem[f] : folder(e.req) = f}) \subseteq Ids(mem[f])
  BY DEF Ids
<1>3. Ids(mem[f]) \in SUBSET StoredID BY <1>1, IdsType DEF TypeOK
<1>4. Owed(c) \subseteq Ids({e \in mem[f] : folder(e.req) = f})
  BY DEF Owed
<1> QED BY <1>2, <1>3, <1>4

LEMMA StepReadersType ==
  TypeOK /\ ReadersTypeOK /\ Owing /\ [ReadersNext]_allVars => ReadersTypeOK'
<1> SUFFICES ASSUME TypeOK, ReadersTypeOK, Owing, [ReadersNext]_allVars
             PROVE  ReadersTypeOK'
  OBVIOUS
<1>1. ASSUME NEW r \in Readers, NEW c \in Calls, Ask(r, c) PROVE ReadersTypeOK'
  <2>1. Owed(c) \in SUBSET StoredID BY OwedType
  <2>2. \A n \in Batches(c.kind) : n \in 0..(MaxBatches + 1)
    BY ReadersAssumption DEF Batches
  <2> QED
    BY <1>1, <2>1, <2>2 DEF Ask, Move, ReadersTypeOK, ReaderPCs, ReaderInFlight
<1>2. ASSUME NEW r \in Readers, ReadStep(r) PROVE ReadersTypeOK'
  <2> USE DEF Move, Tell, ReadersTypeOK, ReaderPCs, ReaderInFlight
  <2>1. CASE FindFolder(r)
    <3>1. CASE columnFamalies[Sought(call[r])] = NoHandle
      BY <2>1, <3>1 DEF FindFolder, Unknown
    <3>2. CASE columnFamalies[Sought(call[r])] # NoHandle
      <4> DEFINE h == columnFamalies[Sought(call[r])]
      <4>1. h \in Nat
        BY <2>1, <3>2, SoughtType DEF FindFolder, Owing, TypeOK
      <4> QED BY <2>1, <3>2, <4>1 DEF FindFolder
    <3> QED BY <3>1, <3>2
  <2>2. CASE OpenIterator(r) BY <2>2 DEF OpenIterator
  <2>3. CASE CloseIterator(r) BY <2>3 DEF CloseIterator
  <2>4. CASE WalkHandles(r) BY <2>4 DEF WalkHandles, NoHandle, TypeOK
  <2>5. CASE ListNames(r) BY <2>5 DEF ListNames
  <2>6. CASE LockForRead(r) BY <2>6 DEF LockForRead
  <2>7. CASE ReadStored(r)
    <3>1. left'[r] \in 0..(MaxBatches + 1)
      BY <2>7, ReadersAssumption DEF ReadStored
    <3> QED BY <2>7, <3>1 DEF ReadStored, Unlock
  <2>8. CASE ReadFreed(r) BY <2>8, ReadersAssumption DEF ReadFreed, Unlock
  <2>9. CASE ReadCrashes(r) BY <2>9, KillType DEF ReadCrashes
  <2> QED
    BY <1>2, <2>1, <2>2, <2>3, <2>4, <2>5, <2>6, <2>7, <2>8, <2>9 DEF ReadStep
<1>3. ASSUME NEW q \in Requests, SaveStep(q) PROVE ReadersTypeOK'
  BY <1>3, BesideType DEF SaveStep
<1>4. CASE Environment BY <1>4, BesideType DEF Environment
<1>5. UNCHANGED reading => ReadersTypeOK' BY DEF ReadersTypeOK
<1> QED BY <1>1, <1>2, <1>3, <1>4, <1>5 DEF ReadersNext, ReadersQuiescent

-----------------------------------------------------------------------------
(* The lock.                                                               *)

LEMMA KillLocks == KillReaders => ReadLocks'
BY DEF KillReaders, ReadLocks, ReaderInFlight

(* The lock is taken for a creation only when no reader has it, and the     *)
(* steps of the saves that stop the process stop the readers.               *)
LEMMA SaveLocks ==
  ASSUME ReadLocks, NEW q \in Requests, SaveStep(q)
  PROVE  ReadLocks'
<1>1. CASE KillReaders BY <1>1, KillLocks
<1>2. CASE UNCHANGED reading /\ db' # "down"
  <2>1. writer' = writer \/ writer' = None \/ pc[q] = "lock"
    BY DEF SaveStep, Step, Find, FindCreated, LockForCreate, CreateFamily,
           CreateRefused, CloseDb, ListFails, OpenDb, OpenFails, Throw, Refresh,
           LoadCounter, LoadRaces, Draw, DrawFreed, LockForPut, PutStores,
           PutRefused, PutThroughFreedHandle, PutCrashes, EndPut, Die, Transition
  <2> QED BY <1>2, <2>1 DEF SaveStep, ReadLocks
<1> QED BY <1>1, <1>2 DEF SaveStep, Beside

LEMMA StepReadLocks ==
  ReadersTypeOK /\ ReadLocks /\ [ReadersNext]_allVars => ReadLocks'
<1> SUFFICES ASSUME ReadersTypeOK, ReadLocks, [ReadersNext]_allVars
             PROVE  ReadLocks'
  OBVIOUS
<1>1. ASSUME NEW r \in Readers, NEW c \in Calls, Ask(r, c) PROVE ReadLocks'
  BY <1>1 DEF Ask, Move, ReadersTypeOK, ReadLocks, ReaderInFlight
<1>2. ASSUME NEW r \in Readers, ReadStep(r) PROVE ReadLocks'
  <2> USE DEF Move, ReadersTypeOK, ReadLocks, ReaderInFlight
  <2>1. CASE FindFolder(r) BY <2>1 DEF FindFolder
  <2>2. CASE OpenIterator(r) BY <2>2 DEF OpenIterator
  <2>3. CASE CloseIterator(r) BY <2>3 DEF CloseIterator
  <2>4. CASE WalkHandles(r) BY <2>4 DEF WalkHandles
  <2>5. CASE ListNames(r) BY <2>5 DEF ListNames
  <2>6. CASE LockForRead(r) BY <2>6 DEF LockForRead
  <2>7. CASE ReadStored(r) BY <2>7 DEF ReadStored, Unlock
  <2>8. CASE ReadFreed(r) BY <2>8 DEF ReadFreed, Unlock
  <2>9. CASE ReadCrashes(r) BY <2>9, KillLocks DEF ReadCrashes
  <2> QED
    BY <1>2, <2>1, <2>2, <2>3, <2>4, <2>5, <2>6, <2>7, <2>8, <2>9 DEF ReadStep
<1>3. ASSUME NEW q \in Requests, SaveStep(q) PROVE ReadLocks'
  BY <1>3, SaveLocks
<1>4. CASE Environment
  <2>1. CASE KillReaders BY <2>1, KillLocks
  <2>2. CASE UNCHANGED reading /\ db' # "down"
    BY <1>4, <2>2
       DEF Environment, Arrive, Flush, Crash, Die, Restart, ReadLocks
  <2> QED BY <1>4, <2>1, <2>2 DEF Environment, Beside
<1>5. UNCHANGED allVars => ReadLocks' BY DEF ReadLocks
<1> QED
  BY <1>1, <1>2, <1>3, <1>4, <1>5 DEF ReadersNext, ReadersQuiescent, Quiescent

-----------------------------------------------------------------------------
(* Who puts has looked its folder up.                                      *)

LEMMA DieWriters == TypeOK /\ Die => Writers'
BY DEF Die, TypeOK, Writers, InFlight, InCreate, PCs

LEMMA KeptWriters == Writers /\ UNCHANGED <<pc, stage, cf, req>> => Writers'
BY DEF Writers

LEMMA ReturnWriters ==
  ASSUME TypeOK, Writers, NEW q \in Requests, NEW from \in {"find", "refind"},
         ReturnHandle(q, from), UNCHANGED req
  PROVE  Writers'
BY FoldersUseIDs
   DEF TypeOK, Writers, ReturnHandle, Transition, InFlight, InCreate

(* A call that moves on before its put and keeps what it looked up. *)
LEMMA MoveWriters ==
  ASSUME TypeOK, Writers, NEW q \in Requests, UNCHANGED <<stage, cf, req>>,
         NEW from \in InFlight,
         NEW to \in PCs \ {"load", "add", "put"},
         Transition(q, from, to),
         to = "write" => from = "put"
  PROVE  Writers'
BY DEF TypeOK, Writers, Transition, InFlight, InCreate, PCs

LEMMA NextWriters == TypeOK /\ Writers /\ [Next]_vars => Writers'
<1> SUFFICES ASSUME TypeOK, Writers, [Next]_vars PROVE Writers'
  OBVIOUS
<1> USE DEF PCs, InFlight, InCreate
<1>1. ASSUME NEW q \in Requests, Arrive(q) PROVE Writers'
  BY <1>1 DEF Arrive, Transition, TypeOK, Writers
<1>2. ASSUME NEW q \in Requests, Step(q) PROVE Writers'
  <2>1. CASE Find(q)
    <3>1. CASE ReturnHandle(q, "find") BY <2>1, <3>1, ReturnWriters DEF Find
    <3>2. CASE ~ ReturnHandle(q, "find") BY <2>1, <3>2, MoveWriters DEF Find
    <3> QED BY <3>1, <3>2
  <2>2. CASE FindCreated(q) BY <2>2, ReturnWriters DEF FindCreated
  <2>3. CASE LockForCreate(q) BY <2>3, MoveWriters DEF LockForCreate
  <2>4. CASE CreateFamily(q) BY <2>4, MoveWriters DEF CreateFamily
  <2>5. CASE CreateRefused(q) BY <2>5, DieWriters DEF CreateRefused
  <2>6. CASE CloseDb(q) BY <2>6, MoveWriters DEF CloseDb
  <2>7. CASE ListFails(q) BY <2>7, MoveWriters DEF ListFails, Throw
  <2>8. CASE OpenDb(q) BY <2>8, MoveWriters DEF OpenDb
  <2>9. CASE OpenFails(q) BY <2>9, MoveWriters DEF OpenFails, Throw
  <2>10. CASE Refresh(q) BY <2>10, MoveWriters DEF Refresh
  <2>11. CASE LoadCounter(q)
    BY <2>11 DEF LoadCounter, Transition, TypeOK, Writers
  <2>12. CASE LoadRaces(q) BY <2>12, DieWriters DEF LoadRaces
  <2>13. ASSUME AfterDraw(q), UNCHANGED <<cf, req>> PROVE Writers'
    BY <2>13 DEF AfterDraw, Transition, TypeOK, Writers
  <2>14. CASE Draw(q) BY <2>13, <2>14 DEF Draw
  <2>15. CASE DrawFreed(q) BY <2>13, <2>15 DEF DrawFreed
  <2>16. CASE LockForPut(q) BY <2>16, MoveWriters DEF LockForPut
  <2>17. ASSUME NEW status, EndPut(q, status) PROVE Writers'
    BY <2>17, MoveWriters DEF EndPut
  <2>18. CASE PutStores(q) BY <2>17, <2>18 DEF PutStores
  <2>19. CASE PutRefused(q) BY <2>17, <2>19 DEF PutRefused
  <2>20. CASE PutThroughFreedHandle(q) BY <2>17, <2>20 DEF PutThroughFreedHandle
  <2>21. CASE PutCrashes(q) BY <2>21, DieWriters DEF PutCrashes
  <2> QED
    BY <1>2, <2>1, <2>2, <2>3, <2>4, <2>5, <2>6, <2>7, <2>8, <2>9, <2>10,
       <2>11, <2>12, <2>14, <2>15, <2>16, <2>18, <2>19, <2>20, <2>21 DEF Step
<1>3. ASSUME NEW f \in Folders, Flush(f) PROVE Writers'
  BY <1>3, KeptWriters DEF Flush
<1>4. CASE Crash BY <1>4, DieWriters DEF Crash
<1>5. CASE Restart BY <1>5, KeptWriters DEF Restart
<1>6. CASE UNCHANGED vars BY <1>6, KeptWriters
<1> QED BY <1>1, <1>2, <1>3, <1>4, <1>5, <1>6 DEF Next, Quiescent

-----------------------------------------------------------------------------
(* The cache.                                                              *)

Others(q) ==
  \/ FindCreated(q) \/ Find(q) \/ LockForCreate(q) \/ CreateFamily(q)
  \/ CloseDb(q) \/ ListFails(q) \/ OpenDb(q) \/ OpenFails(q)
  \/ LoadCounter(q) \/ Draw(q) \/ DrawFreed(q) \/ LockForPut(q) \/ PutRefused(q)

Deaths(q) == CreateRefused(q) \/ LoadRaces(q) \/ PutCrashes(q)

Stores(q) == PutStores(q) \/ PutThroughFreedHandle(q)

(* The steps by what they do to the cache and to what is stored. *)
LEMMA StepKinds ==
  ASSUME NEW q \in Requests, Step(q)
  PROVE  Others(q) \/ Refresh(q) \/ Stores(q) \/ Deaths(q)
BY DEF Step, Others, Deaths, Stores

LEMMA DeathsDie == ASSUME NEW q \in Requests, Deaths(q) PROVE Die
BY DEF Deaths, CreateRefused, LoadRaces, PutCrashes

LEMMA RequestsKept == [Next]_vars \/ ReadDeath => req' = req
<1>1. Die => req' = req BY DEF Die
<1>2. ASSUME NEW q \in Requests, Step(q) PROVE req' = req
  <2>1. Others(q) => req' = req
    BY DEF Others, FindCreated, Find, LockForCreate, CreateFamily, CloseDb,
           ListFails, OpenDb, OpenFails, LoadCounter, Draw, DrawFreed,
           LockForPut, PutRefused, EndPut
  <2>2. Refresh(q) \/ Stores(q) => req' = req
    BY DEF Refresh, Stores, PutStores, PutThroughFreedHandle, EndPut
  <2> QED BY <1>1, <1>2, <2>1, <2>2, StepKinds, DeathsDie
<1> QED
  BY <1>1, <1>2 DEF Next, Arrive, Flush, Crash, Restart, Quiescent, ReadDeath

(* A folder that is in the cache stays there. *)
LEMMA FillGrows ==
  ASSUME NEW g \in Nat, g # NoHandle, CacheHandles(g), NEW f \in Folders,
         columnFamalies[f] # NoHandle
  PROVE  columnFamalies'[f] # NoHandle
BY DEF CacheHandles

LEMMA CacheGrows ==
  ASSUME IInv, [Next]_vars \/ ReadDeath, NEW f \in Folders,
         columnFamalies[f] # NoHandle
  PROVE  columnFamalies'[f] # NoHandle
<1>0. gen \in Nat /\ gen # NoHandle /\ gen + 1 \in Nat /\ gen + 1 # NoHandle
  BY DEF IInv, TypeOK, Handles, NoHandle
<1>1. Die => columnFamalies' = columnFamalies BY DEF Die
<1>2. ASSUME NEW q \in Requests, Step(q) PROVE columnFamalies'[f] # NoHandle
  <2>1. Others(q) => columnFamalies' = columnFamalies
    BY DEF Others, FindCreated, Find, LockForCreate, CreateFamily, CloseDb,
           ListFails, OpenDb, OpenFails, LoadCounter, Draw, DrawFreed,
           LockForPut, PutRefused, EndPut
  <2>2. Stores(q) => columnFamalies' = columnFamalies
    BY DEF Stores, PutStores, PutThroughFreedHandle, EndPut
  <2>3. Refresh(q) => columnFamalies'[f] # NoHandle
    BY <1>0, FillGrows DEF Refresh
  <2> QED BY <1>1, <1>2, <2>1, <2>2, <2>3, StepKinds, DeathsDie
<1>3. Restart => columnFamalies'[f] # NoHandle BY <1>0, FillGrows DEF Restart
<1> QED
  BY <1>1, <1>2, <1>3
     DEF Next, Arrive, Flush, Crash, Quiescent, ReadDeath

(* A handle is a new one only if it was looked up in the cache. *)
LEMMA HandlesAreLookedUp ==
  ASSUME TypeOK, [Next]_vars \/ ReadDeath, NEW p \in Requests
  PROVE  \/ cf'[p] \in {cf[p], NoHandle}
         \/ columnFamalies[folder(p)] # NoHandle
<1> DEFINE Goal == \/ cf'[p] \in {cf[p], NoHandle}
                   \/ columnFamalies[folder(p)] # NoHandle
<1>1. Die => Goal BY DEF Die, TypeOK
<1>2. ASSUME NEW q \in Requests, NEW from, ReturnHandle(q, from) PROVE Goal
  BY <1>2 DEF ReturnHandle, TypeOK
<1>3. ASSUME NEW q \in Requests, Step(q) PROVE Goal
  <2>1. Others(q) => Goal
    BY <1>2
       DEF Others, FindCreated, Find, LockForCreate, CreateFamily, CloseDb,
           ListFails, OpenDb, OpenFails, LoadCounter, Draw, DrawFreed,
           LockForPut, PutRefused, EndPut
  <2>2. Refresh(q) \/ Stores(q) => Goal
    BY DEF Refresh, Stores, PutStores, PutThroughFreedHandle, EndPut
  <2> QED BY <1>1, <1>3, <2>1, <2>2, StepKinds, DeathsDie
<1> QED
  BY <1>1, <1>3 DEF Next, Arrive, Flush, Crash, Restart, Quiescent, ReadDeath

(* An entry is a new one only if it is being put. *)
LEMMA EntriesAreOfWriters ==
  ASSUME TypeOK, [Next]_vars \/ ReadDeath,
         NEW f \in Folders, NEW e \in mem'[f] \cup disk'[f]
  PROVE  e \in mem[f] \cup disk[f] \/ \E q \in Requests : pc[q] = "write" /\ e.req = q
<1> DEFINE Old == e \in mem[f] \cup disk[f]
           Put(q) == pc[q] = "write" /\ e.req = q
<1>1. Die => Old BY DEF Die
<1>2. ASSUME NEW q \in Requests, NEW g \in Folders, StoreIn(q, g)
      PROVE  Old \/ e.req = q
  BY <1>2 DEF StoreIn, Overwrite, EntryOf, TypeOK
<1>3. ASSUME NEW q \in Requests, Stores(q) PROVE Old \/ Put(q)
  <2>1. pc[q] = "write"
    BY <1>3 DEF Stores, PutStores, PutThroughFreedHandle, EndPut, Transition
  <2>2. CASE UNCHANGED <<mem, disk>> BY <2>2
  <2>3. CASE \E g \in Folders : StoreIn(q, g) BY <1>2, <2>1, <2>3
  <2> QED
    BY <1>3, <2>2, <2>3, FoldersUseIDs
       DEF Stores, PutStores, PutThroughFreedHandle, TypeOK
<1>4. ASSUME NEW q \in Requests, Step(q) PROVE Old \/ \E p \in Requests : Put(p)
  <2>1. Others(q) => Old
    BY DEF Others, FindCreated, Find, LockForCreate, CreateFamily, CloseDb,
           ListFails, OpenDb, OpenFails, LoadCounter, Draw, DrawFreed,
           LockForPut, PutRefused, EndPut
  <2>2. Refresh(q) => Old BY DEF Refresh
  <2> QED BY <1>1, <1>3, <1>4, <2>1, <2>2, StepKinds, DeathsDie
<1>5. ASSUME NEW g \in Folders, Flush(g) PROVE Old BY <1>5 DEF Flush, TypeOK
<1> QED
  BY <1>1, <1>4, <1>5 DEF Next, Arrive, Crash, Restart, Quiescent, ReadDeath

LEMMA StepCached ==
  IInv /\ Writers /\ Cached /\ [ReadersNext]_allVars => Cached'
<1> SUFFICES ASSUME IInv, Writers, Cached, [ReadersNext]_allVars PROVE Cached'
  OBVIOUS
<1>1. TypeOK /\ ([Next]_vars \/ ReadDeath) BY SavesStep DEF IInv
<1>2. \A q \in Requests : folder(q) \in Folders /\ folder(q)' = folder(q)
  BY <1>1, FoldersUseIDs, RequestsKept DEF folder
<1>3. ASSUME NEW q \in Requests, cf'[q] # NoHandle
      PROVE  columnFamalies'[folder(q)] # NoHandle
  BY <1>1, <1>2, <1>3, HandlesAreLookedUp, CacheGrows DEF Cached
<1>4. ASSUME NEW f \in Folders, NEW e \in mem'[f] \cup disk'[f],
             folder(e.req) = f
      PROVE  columnFamalies'[f] # NoHandle
  <2>1. CASE e \in mem[f] \cup disk[f] BY <1>1, <1>4, <2>1, CacheGrows DEF Cached
  <2>2. ASSUME NEW q \in Requests, pc[q] = "write", e.req = q
        PROVE  columnFamalies'[f] # NoHandle
    BY <1>1, <1>4, <2>2, CacheGrows DEF Cached, Writers
  <2> QED BY <1>1, <2>1, <2>2, EntriesAreOfWriters
<1>5. ASSUME NEW f \in Folders, NEW e \in mem'[f] \cup disk'[f]
      PROVE  folder(e.req)' = folder(e.req)
  BY <1>1, RequestsKept DEF folder
<1> QED BY <1>2, <1>3, <1>4, <1>5 DEF Cached

LEMMA StepWriters ==
  TypeOK /\ Writers /\ [ReadersNext]_allVars => Writers'
BY SavesStep, NextWriters, DieWriters DEF ReadDeath

-----------------------------------------------------------------------------
(* What readers are owed.                                                  *)

LEMMA OwedIsCached ==
  ASSUME TypeOK, Cached, NEW c \in Calls
  PROVE  /\ Owed(c) # {} => columnFamalies[Sought(c)] # NoHandle
         /\ c.kind \in Samplers \cup {"StatusHandler"} => Owed(c) = {}
<1> DEFINE f == Sought(c)
           own == {e \in mem[f] : folder(e.req) = f}
<1>1. f \in Folders BY SoughtType
<1>2. Owed(c) \subseteq Ids(own) BY DEF Owed
<1>3. Owed(c) # {} => \E e \in mem[f] : folder(e.req) = f
  BY <1>2 DEF Ids
<1> QED BY <1>1, <1>3 DEF Cached, Owed, Samplers

(* What a reader has been given when it has been given all. *)
LEMMA OwedIsStored ==
  ASSUME Owing, NEW r \in Readers, rpc[r] \in ReaderInFlight
  PROVE  owed[r] \cap Ids(mem[Sought(call[r])]) = owed[r]
BY DEF Owing

LEMMA KillOwing == Owing /\ KillReaders => Owing'
BY DEF Owing, KillReaders, ReaderInFlight

(* The steps of the saves. *)
LEMMA BesideOwing ==
  ASSUME IInv, Cached, Owing, [Next]_vars, Beside
  PROVE  Owing'
<1>1. CASE KillReaders BY <1>1, KillOwing
<1>2. CASE UNCHANGED reading /\ db' # "down"
  <2>1. TypeOK BY DEF IInv
  <2>2. \A f \in Folders : Ids(mem[f]) \subseteq Ids(mem'[f])
    BY <1>2, NextKeeps DEF Kept
  <2>3. ASSUME NEW r \in Readers, rpc[r] \in ReaderInFlight
        PROVE  /\ owed[r] \subseteq Ids(mem'[Sought(call[r])'])
               /\ owed[r] # {} => columnFamalies'[Sought(call[r])'] # NoHandle
    <3>1. call[r] \in Calls /\ call'[r] = call[r] BY <1>2, <2>3 DEF Owing
    <3>2. Sought(call[r])' = Sought(call[r]) BY <3>1, RequestsKept DEF Sought, folder
    <3> QED BY <2>1, <2>2, <2>3, <3>1, <3>2, SoughtType, CacheGrows DEF Owing
  <2> QED BY <1>2, <2>3 DEF Owing, kind, Ids
<1> QED BY <1>1, <1>2 DEF Beside

(* The steps of the readers leave what is stored and cached alone. *)
LEMMA AskOwing ==
  ASSUME TypeOK, ReadersTypeOK, Cached, Owing,
         NEW r \in Readers, NEW c \in Calls, Ask(r, c)
  PROVE  Owing'
<1>1. /\ Owed(c) \subseteq Ids(mem[Sought(c)])
      /\ Owed(c) # {} => columnFamalies[Sought(c)] # NoHandle
      /\ c.kind \in Samplers \cup {"StatusHandler"} => Owed(c) = {}
  BY OwedType, OwedIsCached
<1>2. /\ rpc[r] = "new"
      /\ rpc' = [rpc EXCEPT ![r] =
                   IF c.kind = "StatusHandler" THEN "walk" ELSE "find"]
      /\ call' = [call EXCEPT ![r] = c]
      /\ owed' = [owed EXCEPT ![r] = Owed(c)]
      /\ UNCHANGED <<vars, seen, answer>>
  BY DEF Ask, Move
<1>3. \A x : Sought(x)' = Sought(x) BY <1>2 DEF Sought, folder
<1>4. ASSUME NEW p \in Readers, p # r
      PROVE  UNCHANGED <<rpc[p], call[p], owed[p], seen[p], answer[p]>>
  BY <1>2, <1>4 DEF ReadersTypeOK
<1>5. /\ rpc'[r] \in {"walk", "find"} /\ call'[r] = c /\ owed'[r] = Owed(c)
      /\ rpc'[r] = "walk" => c.kind = "StatusHandler"
      /\ seen'[r] = {} /\ answer'[r] = "none"
  BY <1>2 DEF ReadersTypeOK, Owing
<1> QED
  BY <1>1, <1>2, <1>3, <1>4, <1>5
     DEF Owing, ReaderInFlight, kind, Ids

(* The steps of a reader that has begun. *)
LEMMA ReadOwing ==
  ASSUME ReadersTypeOK, Owing, NEW r \in Readers, ReadStep(r)
  PROVE  Owing'
<1> DEFINE Reads ==
             /\ UNCHANGED <<vars, call, owed>>
             /\ rpc[r] \in ReaderInFlight
             /\ \A p \in Readers \ {r} : UNCHANGED <<rpc[p], seen[p], answer[p]>>
             /\ rpc'[r] \notin {"new", "find", "walk"}
             /\ rpc'[r] \in {"open", "close", "list"} => owed[r] = {}
             /\ seen'[r] \subseteq owed[r]
             /\ rpc'[r] \in ReaderInFlight => answer'[r] = "none"
<1>1. ASSUME Reads PROVE Owing'
  <2>1. \A x : Sought(x)' = Sought(x) BY <1>1 DEF Sought, folder
  <2>2. ASSUME NEW p \in Readers, p # r
        PROVE  UNCHANGED <<rpc[p], seen[p], answer[p]>>
    BY <1>1, <2>2
  <2> QED BY <1>1, <2>1, <2>2 DEF Owing, ReaderInFlight, kind, Ids
<1> HIDE DEF Reads
<1>2. ReadStep(r) /\ ~ ReadCrashes(r) => Reads
  <2> USE DEF Reads, Move, Tell, ReadersTypeOK, Owing, ReaderInFlight
  <2>1. FindFolder(r) => Reads BY DEF FindFolder
  <2>2. OpenIterator(r) => Reads BY DEF OpenIterator
  <2>3. CloseIterator(r) => Reads BY DEF CloseIterator
  <2>4. WalkHandles(r) => Reads BY DEF WalkHandles
  <2>5. ListNames(r) => Reads BY DEF ListNames
  <2>6. LockForRead(r) => Reads BY DEF LockForRead
  <2>7. ReadStored(r) => Reads BY DEF ReadStored
  <2>8. ReadFreed(r) => Reads BY DEF ReadFreed
  <2> QED BY <2>1, <2>2, <2>3, <2>4, <2>5, <2>6, <2>7, <2>8 DEF ReadStep
<1>3. CASE ReadCrashes(r) BY <1>3, KillOwing DEF ReadCrashes
<1> QED BY <1>1, <1>2, <1>3

LEMMA StepOwing ==
  ASSUME IInv, ReadersTypeOK, Cached, Owing, [ReadersNext]_allVars
  PROVE  Owing'
<1>1. TypeOK BY DEF IInv
<1>2. ASSUME NEW r \in Readers, NEW c \in Calls, Ask(r, c) PROVE Owing'
  BY <1>1, <1>2, AskOwing
<1>3. ASSUME NEW r \in Readers, ReadStep(r) PROVE Owing' BY <1>3, ReadOwing
<1>4. ASSUME NEW q \in Requests, SaveStep(q) PROVE Owing'
  BY <1>4, BesideOwing DEF SaveStep, Next
<1>5. CASE Environment BY <1>5, BesideOwing DEF Environment, Next
<1>6. CASE UNCHANGED allVars
  <2>1. \A x : Sought(x)' = Sought(x) BY <1>6 DEF Sought, folder
  <2> QED BY <1>6, <2>1 DEF Owing, kind, Ids
<1> QED
  BY <1>2, <1>3, <1>4, <1>5, <1>6 DEF ReadersNext, ReadersQuiescent, Quiescent

(* Who is answered has been given what it was owed. *)
LEMMA StepMisses ==
  ASSUME ReadersTypeOK, Owing, ReadsMissNothing, [ReadersNext]_allVars
  PROVE  ReadsMissNothing'
<1>1. UNCHANGED <<owed, seen, answer>> => ReadsMissNothing'
  BY DEF ReadsMissNothing
<1>2. KillReaders \/ Beside => UNCHANGED <<owed, seen, answer>>
  BY DEF KillReaders, Beside
<1>3. ASSUME NEW r \in Readers, NEW c \in Calls, Ask(r, c)
      PROVE  ReadsMissNothing'
  BY <1>3 DEF Ask, Move, ReadersTypeOK, Owing, ReadsMissNothing
<1>4. ASSUME NEW r \in Readers, ReadStep(r) PROVE ReadsMissNothing'
  <2> USE DEF Move, Tell, ReadersTypeOK, ReadsMissNothing
  <2>1. CASE FindFolder(r) BY <2>1 DEF FindFolder, Owing, ReaderInFlight
  <2>2. CASE OpenIterator(r) BY <2>2 DEF OpenIterator
  <2>3. CASE CloseIterator(r)
    <3>1. owed[r] = {} /\ seen[r] = {}
      BY <2>3 DEF CloseIterator, Owing
    <3>2. /\ UNCHANGED <<owed, seen>>
          /\ \A p \in Readers \ {r} : answer'[p] = answer[p]
      BY <2>3 DEF CloseIterator
    <3> QED BY <3>1, <3>2
  <2>4. CASE WalkHandles(r) BY <2>4 DEF WalkHandles
  <2>5. CASE ListNames(r) BY <2>5 DEF ListNames, Owing
  <2>6. CASE LockForRead(r) BY <2>6 DEF LockForRead
  <2>7. CASE ReadStored(r)
    <3>1. seen' = [seen EXCEPT ![r] = owed[r]]
      BY <2>7, OwedIsStored DEF ReadStored, ReaderInFlight
    <3>2. UNCHANGED owed /\ \A p \in Readers \ {r} : answer'[p] = answer[p]
      BY <2>7 DEF ReadStored
    <3> QED BY <3>1, <3>2
  <2>8. CASE ReadFreed(r) BY <2>8 DEF ReadFreed
  <2>9. CASE ReadCrashes(r) BY <1>1, <1>2, <2>9 DEF ReadCrashes
  <2> QED
    BY <1>4, <2>1, <2>2, <2>3, <2>4, <2>5, <2>6, <2>7, <2>8, <2>9 DEF ReadStep
<1> QED
  BY <1>1, <1>2, <1>3, <1>4
     DEF ReadersNext, SaveStep, Environment, ReadersQuiescent

-----------------------------------------------------------------------------
(* All parts together are inductive. *)
THEOREM ReadersKeepInv == ReadersSpec => []ReadersInv
<1>1. ReadersInit => ReadersInv
  <2> SUFFICES ASSUME ReadersInit PROVE ReadersInv
    OBVIOUS
  <2>1. IInv
    BY InitType, InitLocks, InitHandles, InitCounters, InitStorage, InitCovers
       DEF ReadersInit, IInv
  <2>2. ReadLocks
    BY DEF ReadersInit, ReadLocks, ReaderInFlight
  <2>3. Writers /\ Cached
    BY DEF ReadersInit, Init, Writers, Cached, InFlight, InCreate
  <2>4. Owing /\ ReadsMissNothing
    BY DEF ReadersInit, Owing, ReadsMissNothing, ReaderInFlight
  <2> QED BY <2>1, <2>2, <2>3, <2>4, ReadersInitType DEF ReadersInv
<1>2. ReadersInv /\ [ReadersNext]_allVars => ReadersInv'
  <2> SUFFICES ASSUME ReadersInv, [ReadersNext]_allVars PROVE ReadersInv'
    OBVIOUS
  <2>1. TypeOK BY DEF ReadersInv, IInv
  <2> QED
    BY <2>1, StepIInv, StepReadersType, StepReadLocks, StepWriters, StepCached,
       StepOwing, StepMisses
       DEF ReadersInv
<1> QED BY <1>1, <1>2, PTL DEF ReadersSpec

(* No Get, scan or batch meets a database that is being replaced. *)
THEOREM LockedReadsAreSafe == ReadersSpec => []LockedReadsSeeOpenDb
<1>1. ASSUME IInv, ReadLocks, NEW r \in Readers, rpc[r] = "read"
      PROVE  writer = None /\ db # "closed"
  <2>1. writer = None BY <1>1 DEF ReadLocks
  <2>2. ASSUME NEW q \in Requests PROVE pc[q] # "open"
    BY <1>1, <2>1, ConstantsAssumption DEF IInv, Locks, InCreate
  <2> QED BY <1>1, <2>1, <2>2 DEF IInv, Locks
<1>2. ReadersInv => LockedReadsSeeOpenDb
  BY <1>1 DEF ReadersInv, LockedReadsSeeOpenDb
<1> QED BY <1>2, ReadersKeepInv, PTL

(* Nobody is told less than its folder held. *)
THEOREM ReadsAreComplete == ReadersSpec => []ReadsMissNothing
<1>1. ReadersInv => ReadsMissNothing BY DEF ReadersInv
<1> QED BY <1>1, ReadersKeepInv, PTL

=============================================================================
