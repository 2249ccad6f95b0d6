--------------------------- MODULE DbClient_proofs ---------------------------
(***************************************************************************)
(* The safety properties of DbClient, for any number of calls, folders,    *)
(* crashes and faults.  IInv of DbClient.tla is shown to be inductive, one *)
(* part after the other.                                                   *)
(***************************************************************************)
EXTENDS DbClient, IDComparator_proofs

USE DEF vars, locking, database, cache, drawn

-----------------------------------------------------------------------------
(* The operators the actions are built from.                               *)

LEMMA IdsType ==
  ASSUME NEW S \in SUBSET Entry
  PROVE  Ids(S) \in SUBSET StoredID
BY DEF Ids, Entry

LEMMA FoldersUseIDs ==
  ASSUME TypeOK, NEW r \in Requests
  PROVE  id(r) \in StoredID /\ folder(r) \in Folders
BY ConstantsAssumption DEF TypeOK, Parameters, id, folder, StoredID

LEMMA EntryType ==
  ASSUME TypeOK, NEW r \in Requests
  PROVE  EntryOf(r) \in Entry
BY FoldersUseIDs DEF TypeOK, EntryOf, Entry

(* A put keeps every key of the family and adds its own. *)
LEMMA OverwriteIds ==
  ASSUME NEW S \in SUBSET Entry, NEW e \in Entry
  PROVE  /\ Overwrite(S, e) \in SUBSET Entry
         /\ Ids(Overwrite(S, e)) = Ids(S) \cup {e.id}
<1>1. Overwrite(S, e) \in SUBSET Entry
  BY DEF Overwrite
<1>2. ASSUME NEW x \in S, Compare(x.id, e.id) = 0 PROVE x.id = e.id
  BY <1>2, CompareIsZero DEF Entry
<1>3. Ids(Overwrite(S, e)) \subseteq Ids(S) \cup {e.id}
  BY DEF Ids, Overwrite
<1>4. Ids(S) \cup {e.id} \subseteq Ids(Overwrite(S, e))
  BY <1>2 DEF Ids, Overwrite
<1> QED BY <1>1, <1>3, <1>4

(* Among stored messages, replacing the one whose key compares equal is     *)
(* replacing the one with the same id.                                     *)
LEMMA OverwriteReplaces ==
  ASSUME NEW S \in SUBSET Entry, NEW e \in Entry
  PROVE  Overwrite(S, e) = {x \in S : x.id # e.id} \cup {e}
<1>1. \A x \in S : Compare(x.id, e.id) = 0 <=> x.id = e.id
  BY CompareIsZero DEF Entry
<1> QED BY <1>1 DEF Overwrite

LEMMA CachedCountersType ==
  ASSUME TypeOK, NEW g \in Nat, CacheHandles(g)
  PROVE  /\ columnFamalies' \in [Folders -> Nat]
         /\ lastUnique' \in [Folders -> Nat]
         /\ counterGen' \in Nat
<1>1. ASSUME NEW f \in Folders PROVE GetUniqueRange(Ids(mem[f])).till \in Nat
  BY IdsType, UniqueRangeType DEF TypeOK
<1> QED BY <1>1 DEF CacheHandles, TypeOK

-----------------------------------------------------------------------------
(* Types.                                                                  *)

LEMMA InitType == Init => TypeOK
BY ConstantsAssumption DEF Init, TypeOK, PCs, InFlight, InCreate, NoHandle, Dangling

LEMMA DieType == TypeOK /\ Die /\ crashes' \in 0..MaxCrashes => TypeOK'
BY DEF Die, TypeOK, PCs, NoHandle, Dangling

LEMMA StoreType ==
  ASSUME TypeOK, NEW r \in Requests, NEW f \in Folders, StoreIn(r, f)
  PROVE  mem' \in [Folders -> SUBSET Entry] /\ disk' \in [Folders -> SUBSET Entry]
<1>1. /\ Overwrite(mem[f], EntryOf(r)) \in SUBSET Entry
      /\ Overwrite(disk[f], EntryOf(r)) \in SUBSET Entry
  BY EntryType, OverwriteIds DEF TypeOK
<1> QED BY <1>1 DEF StoreIn, TypeOK

LEMMA StepType ==
  ASSUME TypeOK, NEW r \in Requests, Step(r)
  PROVE  TypeOK'
<1> USE DEF TypeOK, PCs, InFlight, InCreate, Transition
<1>0. folder(r) \in Folders BY FoldersUseIDs
<1>1. ASSUME NEW from, ReturnHandle(r, from)
      PROVE  /\ cf' \in [Requests -> Nat]
             /\ stage' \in [Requests -> {"handle", "id"}]
             /\ pc' \in [Requests -> PCs]
  BY <1>0, <1>1 DEF ReturnHandle
<1>2. CASE Find(r) BY <1>1, <1>2 DEF Find
<1>3. CASE FindCreated(r) BY <1>1, <1>3 DEF FindCreated
<1>4. CASE LockForCreate(r) BY <1>4 DEF LockForCreate
<1>5. CASE CreateFamily(r) BY <1>0, <1>5 DEF CreateFamily
<1>6. CASE CreateRefused(r) BY <1>6, DieType DEF CreateRefused
<1>7. CASE CloseDb(r) BY <1>7 DEF CloseDb
<1>8. CASE ListFails(r) BY <1>8 DEF ListFails, Throw, Reply
<1>9. CASE OpenDb(r) BY <1>9 DEF OpenDb
<1>10. CASE OpenFails(r) BY <1>10 DEF OpenFails, Throw, Reply
<1>11. CASE Refresh(r) BY <1>11, CachedCountersType DEF Refresh
<1>12. CASE LoadCounter(r) BY <1>12 DEF LoadCounter
<1>13. CASE LoadRaces(r) BY <1>13, DieType DEF LoadRaces
<1>14. ASSUME AfterDraw(r)
       PROVE  /\ pc' \in [Requests -> PCs]
              /\ stage' \in [Requests -> {"handle", "id"}]
  BY <1>14 DEF AfterDraw
<1>15. CASE Draw(r) BY <1>0, <1>14, <1>15 DEF Draw
<1>16. CASE DrawFreed(r)
  BY <1>14, <1>16, ConstantsAssumption DEF DrawFreed, Dangling
<1>17. CASE LockForPut(r) BY <1>17 DEF LockForPut
<1>18. ASSUME NEW status \in {"ok", "error"}, EndPut(r, status),
              mem' \in [Folders -> SUBSET Entry],
              disk' \in [Folders -> SUBSET Entry]
       PROVE  TypeOK'
  BY <1>18 DEF EndPut, Reply
<1>19. Refusal(r) \in {"ok", "error"} BY DEF Refusal
<1>20. CASE PutStores(r) BY <1>0, <1>18, <1>20, StoreType DEF PutStores
<1>21. CASE PutRefused(r) BY <1>18, <1>19, <1>21 DEF PutRefused
<1>22. CASE PutThroughFreedHandle(r)
  BY <1>18, <1>19, <1>22, StoreType DEF PutThroughFreedHandle
<1>23. CASE PutCrashes(r) BY <1>23, DieType DEF PutCrashes
<1> QED
  BY <1>2, <1>3, <1>4, <1>5, <1>6, <1>7, <1>8, <1>9, <1>10, <1>11, <1>12,
     <1>13, <1>15, <1>16, <1>17, <1>20, <1>21, <1>22, <1>23 DEF Step

LEMMA NextType == TypeOK /\ [Next]_vars => TypeOK'
<1> SUFFICES ASSUME TypeOK, [Next]_vars PROVE TypeOK'
  OBVIOUS
<1>1. ASSUME NEW r \in Requests, Arrive(r) PROVE TypeOK'
  BY <1>1 DEF Arrive, Transition, TypeOK, PCs, InFlight
<1>2. ASSUME NEW f \in Folders, Flush(f) PROVE TypeOK'
  BY <1>2 DEF Flush, TypeOK
<1>3. CASE Crash BY <1>3, DieType, ConstantsAssumption DEF Crash, TypeOK
<1>4. CASE Restart BY <1>4, CachedCountersType DEF Restart, TypeOK
<1>5. CASE UNCHANGED vars BY <1>5 DEF TypeOK
<1> QED BY <1>1, <1>2, <1>3, <1>4, <1>5, StepType DEF Next, Quiescent

THEOREM TypeCorrect == Spec => []TypeOK
BY InitType, NextType, PTL DEF Spec

-----------------------------------------------------------------------------
(* The lock.                                                               *)

LEMMA InitLocks == Init => Locks
BY ConstantsAssumption DEF Init, Locks, InCreate, InFlight

LEMMA DieLocks == TypeOK /\ Die => Locks'
BY ConstantsAssumption DEF TypeOK, Die, Locks, InCreate, InFlight

(* A step that keeps the lock and the database, and that moves a call       *)
(* between places where it does not hold the lock, disturbs nothing.        *)
LEMMA UnlockedMoveLocks ==
  ASSUME TypeOK, Locks, NEW r \in Requests, UNCHANGED <<writer, readers, db>>,
         NEW from \in PCs \ (InCreate \cup {"write"}),
         NEW to \in PCs \ (InCreate \cup {"write"}),
         Transition(r, from, to), to \in InFlight => db # "down"
  PROVE  Locks'
BY DEF TypeOK, Locks, Transition, InCreate, InFlight

LEMMA NextLocks == TypeOK /\ Locks /\ [Next]_vars => Locks'
<1> SUFFICES ASSUME TypeOK, Locks, [Next]_vars PROVE Locks'
  OBVIOUS
<1> USE DEF PCs, InFlight, InCreate
<1>1. ASSUME NEW r \in Requests, Arrive(r) PROVE Locks'
  BY <1>1, UnlockedMoveLocks DEF Arrive
<1>2. ASSUME NEW r \in Requests, Step(r) PROVE Locks'
  <2>0. pc[r] \in InFlight => db # "down" BY DEF Locks
  <2>1. ASSUME NEW from \in {"find", "refind"}, ReturnHandle(r, from),
               UNCHANGED <<writer, readers, db>>
        PROVE  Locks'
    <3>1. PICK to \in {"find", "put", "load"} : Transition(r, from, to)
      BY <2>1 DEF ReturnHandle
    <3>2. db # "down" BY <2>0, <3>1 DEF Transition
    <3> QED BY <2>1, <3>1, <3>2, UnlockedMoveLocks
  <2>2. CASE Find(r)
    <3>1. CASE ReturnHandle(r, "find") BY <2>1, <2>2, <3>1 DEF Find
    <3>2. CASE Transition(r, "find", "lock")
      BY <2>0, <2>2, <3>2, UnlockedMoveLocks DEF Find, Transition
    <3> QED BY <2>2, <3>1, <3>2 DEF Find
  <2>3. CASE FindCreated(r) BY <2>1, <2>3 DEF FindCreated
  <2>4. CASE LockForCreate(r)
    BY <2>4, ConstantsAssumption DEF LockForCreate, Locks, Transition, TypeOK
  <2>5. CASE CreateFamily(r)
    BY <2>5 DEF CreateFamily, Locks, Transition, TypeOK
  <2>6. CASE CreateRefused(r) BY <2>6, DieLocks DEF CreateRefused
  <2>7. CASE CloseDb(r) BY <2>7 DEF CloseDb, Locks, Transition, TypeOK
  <2>8. CASE ListFails(r)
    BY <2>8, ConstantsAssumption DEF ListFails, Throw, Locks, Transition, TypeOK
  <2>9. CASE OpenDb(r) BY <2>9 DEF OpenDb, Locks, Transition, TypeOK
  <2>10. CASE OpenFails(r)
    BY <2>10, ConstantsAssumption DEF OpenFails, Throw, Locks, Transition, TypeOK
  <2>11. CASE Refresh(r)
    BY <2>11, ConstantsAssumption DEF Refresh, Locks, Transition, TypeOK
  <2>12. CASE LoadCounter(r)
    BY <2>0, <2>12, UnlockedMoveLocks DEF LoadCounter, Transition
  <2>13. CASE LoadRaces(r) BY <2>13, DieLocks DEF LoadRaces
  <2>14. ASSUME AfterDraw(r), UNCHANGED <<writer, readers, db>> PROVE Locks'
    BY <2>0, <2>14, UnlockedMoveLocks DEF AfterDraw, Transition
  <2>15. CASE Draw(r) BY <2>14, <2>15 DEF Draw
  <2>16. CASE DrawFreed(r) BY <2>14, <2>16 DEF DrawFreed
  <2>17. CASE LockForPut(r)
    BY <2>17, ConstantsAssumption DEF LockForPut, Locks, Transition, TypeOK
  <2>18. ASSUME NEW status, EndPut(r, status) PROVE Locks'
    BY <2>18 DEF EndPut, Locks, Transition, TypeOK
  <2>19. CASE PutStores(r) BY <2>18, <2>19 DEF PutStores
  <2>20. CASE PutRefused(r) BY <2>18, <2>20 DEF PutRefused
  <2>21. CASE PutThroughFreedHandle(r)
    BY <2>18, <2>21 DEF PutThroughFreedHandle
  <2>22. CASE PutCrashes(r) BY <2>22, DieLocks DEF PutCrashes
  <2> QED
    BY <1>2, <2>2, <2>3, <2>4, <2>5, <2>6, <2>7, <2>8, <2>9, <2>10, <2>11,
       <2>12, <2>13, <2>15, <2>16, <2>17, <2>19, <2>20, <2>21, <2>22 DEF Step
<1>3. ASSUME NEW f \in Folders, Flush(f) PROVE Locks'
  BY <1>3 DEF Flush, Locks
<1>4. CASE Crash BY <1>4, DieLocks DEF Crash
<1>5. CASE Restart BY <1>5, ConstantsAssumption DEF Restart, Locks, TypeOK
<1>6. CASE UNCHANGED vars BY <1>6 DEF Locks
<1> QED BY <1>1, <1>2, <1>3, <1>4, <1>5, <1>6 DEF Next, Quiescent

THEOREM LocksHold == Spec => []Locks
<1>1. Init => TypeOK /\ Locks BY InitType, InitLocks
<1>2. TypeOK /\ Locks /\ [Next]_vars => (TypeOK /\ Locks)'
  BY NextType, NextLocks
<1> QED BY <1>1, <1>2, PTL DEF Spec

(* No Put uses a database that CreateColumnFamily is replacing. *)
THEOREM LockedCallsAreSafe == Spec => []LockedCallsSeeOpenDb
<1>1. ASSUME TypeOK, Locks, NEW r \in Requests, pc[r] = "write"
      PROVE  r \in readers /\ writer = None /\ db # "closed"
  <2>1. r \in readers /\ writer = None BY <1>1 DEF Locks
  <2>2. ASSUME NEW q \in Requests PROVE pc[q] # "open"
    BY <1>1, <2>1, ConstantsAssumption DEF Locks, InCreate
  <2> QED BY <1>1, <2>1, <2>2 DEF Locks
<1>2. TypeOK /\ Locks => LockedCallsSeeOpenDb
  BY <1>1 DEF LockedCallsSeeOpenDb
<1> QED BY <1>2, TypeCorrect, LocksHold, PTL

-----------------------------------------------------------------------------
(* The cached handles.                                                     *)

LEMMA InitHandles == Init => Handles
BY ConstantsAssumption DEF Init, Handles, Replacing, NoHandle

(* Filling the cache at the current gen brings it up to date. *)
LEMMA FillHandles ==
  ASSUME TypeOK, Handles, gen' \in Nat, gen <= gen', families' = families,
         CacheHandles(gen'), \A r \in Requests : ~ Replacing(r)'
  PROVE  Handles'
BY DEF TypeOK, Handles, CacheHandles

(* The steps that leave the cache and the database alone move no call into *)
(* or out of the replacement of the database.                              *)
LEMMA OtherMoveHandles ==
  ASSUME TypeOK, Handles, NEW r \in Requests,
         UNCHANGED <<db, gen, families, columnFamalies, counterGen>>,
         NEW from \in PCs \ {"open", "refresh"},
         NEW to \in PCs \ {"open", "refresh"},
         Transition(r, from, to)
  PROVE  Handles'
BY DEF TypeOK, Handles, Replacing, Transition

LEMMA DieHandles == TypeOK /\ Handles /\ Die => Handles'
BY DEF TypeOK, Handles, Die, Replacing, InFlight, InCreate

LEMMA NextHandles == TypeOK /\ Locks /\ Handles /\ [Next]_vars => Handles'
<1> SUFFICES ASSUME TypeOK, Locks, Handles, [Next]_vars PROVE Handles'
  OBVIOUS
<1> USE DEF PCs, InFlight, InCreate
<1>1. ASSUME NEW r \in Requests, Arrive(r) PROVE Handles'
  BY <1>1, OtherMoveHandles DEF Arrive
<1>2. ASSUME NEW r \in Requests, Step(r) PROVE Handles'
  <2>1. ASSUME NEW from \in {"find", "refind"}, ReturnHandle(r, from),
               UNCHANGED <<db, gen, families, columnFamalies, counterGen>>
        PROVE  Handles'
    <3>1. PICK to \in {"find", "put", "load"} : Transition(r, from, to)
      BY <2>1 DEF ReturnHandle
    <3> QED BY <2>1, <3>1, OtherMoveHandles
  <2>2. CASE Find(r) BY <2>1, <2>2, OtherMoveHandles DEF Find
  <2>3. CASE FindCreated(r) BY <2>1, <2>3 DEF FindCreated
  <2>4. CASE LockForCreate(r) BY <2>4, OtherMoveHandles DEF LockForCreate
  <2>5. CASE CreateFamily(r)
    BY <2>5 DEF CreateFamily, Transition, TypeOK, Handles, Replacing
  <2>6. CASE CreateRefused(r) BY <2>6, DieHandles DEF CreateRefused
  <2>7. CASE CloseDb(r)
    BY <2>7 DEF CloseDb, Transition, TypeOK, Handles, Replacing
  <2>8. CASE ListFails(r) BY <2>8, OtherMoveHandles DEF ListFails, Throw
  <2>9. CASE OpenDb(r)
    BY <2>9 DEF OpenDb, Transition, TypeOK, Handles, Replacing
  <2>10. CASE OpenFails(r)
    BY <2>10 DEF OpenFails, Throw, Transition, TypeOK, Handles, Replacing
  <2>11. CASE Refresh(r)
    <3>1. ASSUME NEW q \in Requests PROVE ~ Replacing(q)'
      BY <2>11 DEF Refresh, Transition, TypeOK, Locks, Replacing
    <3> QED BY <2>11, <3>1, FillHandles DEF Refresh, TypeOK
  <2>12. CASE LoadCounter(r) BY <2>12, OtherMoveHandles DEF LoadCounter
  <2>13. CASE LoadRaces(r) BY <2>13, DieHandles DEF LoadRaces
  <2>14. ASSUME AfterDraw(r),
                UNCHANGED <<db, gen, families, columnFamalies, counterGen>>
         PROVE  Handles'
    BY <2>14, OtherMoveHandles DEF AfterDraw
  <2>15. CASE Draw(r) BY <2>14, <2>15 DEF Draw
  <2>16. CASE DrawFreed(r) BY <2>14, <2>16 DEF DrawFreed
  <2>17. CASE LockForPut(r) BY <2>17, OtherMoveHandles DEF LockForPut
  <2>18. ASSUME NEW status, EndPut(r, status) PROVE Handles'
    BY <2>18, OtherMoveHandles DEF EndPut
  <2>19. CASE PutStores(r) BY <2>18, <2>19 DEF PutStores
  <2>20. CASE PutRefused(r) BY <2>18, <2>20 DEF PutRefused
  <2>21. CASE PutThroughFreedHandle(r)
    BY <2>18, <2>21 DEF PutThroughFreedHandle
  <2>22. CASE PutCrashes(r) BY <2>22, DieHandles DEF PutCrashes
  <2> QED
    BY <1>2, <2>2, <2>3, <2>4, <2>5, <2>6, <2>7, <2>8, <2>9, <2>10, <2>11,
       <2>12, <2>13, <2>15, <2>16, <2>17, <2>19, <2>20, <2>21, <2>22 DEF Step
<1>3. ASSUME NEW f \in Folders, Flush(f) PROVE Handles'
  BY <1>3 DEF Flush, Handles, Replacing
<1>4. CASE Crash BY <1>4, DieHandles DEF Crash
<1>5. CASE Restart
  <2>1. ASSUME NEW q \in Requests PROVE ~ Replacing(q)'
    BY <1>5 DEF Restart, Locks, Replacing
  <2> QED BY <1>5, <2>1, FillHandles DEF Restart, TypeOK
<1>6. CASE UNCHANGED vars BY <1>6 DEF Handles, Replacing
<1> QED BY <1>1, <1>2, <1>3, <1>4, <1>5, <1>6 DEF Next, Quiescent

THEOREM HandlesHold == Spec => []Handles
<1>1. Init => TypeOK /\ Locks /\ Handles
  BY InitType, InitLocks, InitHandles
<1>2. TypeOK /\ Locks /\ Handles /\ [Next]_vars => (TypeOK /\ Locks /\ Handles)'
  BY NextType, NextLocks, NextHandles
<1> QED BY <1>1, <1>2, PTL DEF Spec

(* GetColumnFamily never returns a handle of a deleted database. *)
THEOREM MapIsLive == Spec => []MapHandlesLive
<1>1. ASSUME TypeOK, Locks, Handles, writer = None, db = "open"
      PROVE  \A f \in Folders : columnFamalies[f] \in {NoHandle, gen}
  <2>1. ASSUME NEW r \in Requests PROVE ~ Replacing(r)
    BY <1>1, ConstantsAssumption DEF Locks, InCreate, Replacing
  <2>2. counterGen = gen BY <1>1, <2>1 DEF Handles
  <2> QED BY <1>1, <2>2 DEF Handles
<1>2. TypeOK /\ Locks /\ Handles => MapHandlesLive
  BY <1>1 DEF MapHandlesLive
<1> QED BY <1>2, TypeCorrect, LocksHold, HandlesHold, PTL

-----------------------------------------------------------------------------
(* The counters.                                                           *)

LEMMA InitCounters == Init => Counters
BY DEF Init, Counters, Dangling

(* New counters are of a gen nobody has drawn from. *)
LEMMA FillCounters ==
  ASSUME TypeOK, Counters, counterGen < gen', gen' \in Nat,
         CacheHandles(gen'), UNCHANGED <<req, unique, origin>>
  PROVE  Counters'
BY DEF TypeOK, Counters, CacheHandles, folder

LEMMA DieCounters == TypeOK /\ Counters /\ Die => Counters'
BY DEF TypeOK, Counters, Die, Dangling, folder

LEMMA KeptCounters ==
  Counters /\ UNCHANGED <<counterGen, lastUnique, req, unique, origin>> => Counters'
BY DEF Counters, folder

LEMMA NextCounters ==
  TypeOK /\ Handles /\ Counters /\ [Next]_vars => Counters'
<1> SUFFICES ASSUME TypeOK, Handles, Counters, [Next]_vars PROVE Counters'
  OBVIOUS
<1>1. ASSUME NEW r \in Requests, Arrive(r) PROVE Counters'
  BY <1>1, KeptCounters DEF Arrive
<1>2. ASSUME NEW r \in Requests, Step(r) PROVE Counters'
  <2>1. CASE Find(r) BY <2>1, KeptCounters DEF Find
  <2>2. CASE FindCreated(r) BY <2>2, KeptCounters DEF FindCreated
  <2>3. CASE LockForCreate(r) BY <2>3, KeptCounters DEF LockForCreate
  <2>4. CASE CreateFamily(r) BY <2>4, KeptCounters DEF CreateFamily
  <2>5. CASE CreateRefused(r) BY <2>5, DieCounters DEF CreateRefused
  <2>6. CASE CloseDb(r) BY <2>6, KeptCounters DEF CloseDb
  <2>7. CASE ListFails(r) BY <2>7, KeptCounters DEF ListFails
  <2>8. CASE OpenDb(r) BY <2>8, KeptCounters DEF OpenDb
  <2>9. CASE OpenFails(r) BY <2>9, KeptCounters DEF OpenFails
  <2>10. CASE Refresh(r)
    <3>1. counterGen < gen
      BY <2>10 DEF Refresh, Transition, Handles, Replacing
    <3> QED BY <2>10, <3>1, FillCounters DEF Refresh, TypeOK
  <2>11. CASE LoadCounter(r) BY <2>11, KeptCounters DEF LoadCounter
  <2>12. CASE LoadRaces(r) BY <2>12, DieCounters DEF LoadRaces
  <2>13. CASE Draw(r)
    <3> DEFINE f == folder(r)
    <3>1. f \in Folders BY FoldersUseIDs
    <3>2. /\ unique' = [unique EXCEPT ![r] = lastUnique[f]]
          /\ lastUnique' = [lastUnique EXCEPT ![f] = lastUnique[f] + 1]
          /\ origin' = [origin EXCEPT ![r] = counterGen]
          /\ UNCHANGED <<counterGen, req>>
      BY <2>13 DEF Draw
    <3>3. ASSUME NEW q \in Requests, origin'[q] = counterGen, origin'[q] # Dangling
          PROVE  unique'[q] < lastUnique'[folder(q)]
      <4>1. folder(q) \in Folders BY FoldersUseIDs
      <4>2. CASE q = r BY <3>1, <3>2, <4>2 DEF TypeOK
      <4>3. CASE q # r
        <5>1. unique[q] < lastUnique[folder(q)]
          BY <3>2, <3>3, <4>3 DEF TypeOK, Counters
        <5> QED BY <3>1, <3>2, <4>1, <4>3, <5>1 DEF TypeOK
      <4> QED BY <4>2, <4>3
    <3>4. ASSUME NEW q \in Requests PROVE origin'[q] <= counterGen
      BY <3>2 DEF TypeOK, Counters
    <3> QED BY <3>2, <3>3, <3>4 DEF Counters, folder
  <2>14. CASE DrawFreed(r)
    BY <2>14 DEF DrawFreed, TypeOK, Counters, Dangling, folder
  <2>15. CASE LockForPut(r) BY <2>15, KeptCounters DEF LockForPut
  <2>16. ASSUME NEW status, EndPut(r, status) PROVE Counters'
    BY <2>16, KeptCounters DEF EndPut
  <2>17. CASE PutStores(r) BY <2>16, <2>17 DEF PutStores
  <2>18. CASE PutRefused(r) BY <2>16, <2>18 DEF PutRefused
  <2>19. CASE PutThroughFreedHandle(r)
    BY <2>16, <2>19 DEF PutThroughFreedHandle
  <2>20. CASE PutCrashes(r) BY <2>20, DieCounters DEF PutCrashes
  <2> QED
    BY <1>2, <2>1, <2>2, <2>3, <2>4, <2>5, <2>6, <2>7, <2>8, <2>9, <2>10,
       <2>11, <2>12, <2>13, <2>14, <2>15, <2>17, <2>18, <2>19, <2>20 DEF Step
<1>3. ASSUME NEW f \in Folders, Flush(f) PROVE Counters'
  BY <1>3, KeptCounters DEF Flush
<1>4. CASE Crash BY <1>4, DieCounters DEF Crash
<1>5. CASE Restart
  <2>1. counterGen < gen' BY <1>5 DEF Restart, Handles, TypeOK
  <2> QED BY <1>5, <2>1, FillCounters DEF Restart, TypeOK
<1>6. CASE UNCHANGED vars BY <1>6, KeptCounters
<1> QED BY <1>1, <1>2, <1>3, <1>4, <1>5, <1>6 DEF Next, Quiescent

-----------------------------------------------------------------------------
(* FreshUniquesPerOpen relates two calls that may have drawn from a counter *)
(* that is gone by now, so it is carried along with Counters.               *)

LEMMA InitFresh == Init => FreshUniquesPerOpen
BY DEF Init, FreshUniquesPerOpen, Dangling

LEMMA NextFresh ==
  TypeOK /\ Counters /\ FreshUniquesPerOpen /\ [Next]_vars => FreshUniquesPerOpen'
<1> SUFFICES ASSUME TypeOK, Counters, FreshUniquesPerOpen, [Next]_vars
             PROVE  FreshUniquesPerOpen'
  OBVIOUS
<1>1. UNCHANGED <<req, unique, origin>> => FreshUniquesPerOpen'
  BY DEF FreshUniquesPerOpen, folder
<1>2. Die => FreshUniquesPerOpen'
  BY DEF Die, TypeOK, FreshUniquesPerOpen, folder, Dangling
<1>3. ASSUME NEW r \in Requests, Draw(r) PROVE FreshUniquesPerOpen'
  <2>1. /\ unique' = [unique EXCEPT ![r] = lastUnique[folder(r)]]
        /\ origin' = [origin EXCEPT ![r] = counterGen]
        /\ req' = req
    BY <1>3 DEF Draw
  <2>2. ASSUME NEW q \in Requests, q # r, folder(q) = folder(r),
               origin[q] = counterGen, origin[q] # Dangling
        PROVE  unique[q] # lastUnique[folder(r)]
    <3>1. unique[q] < lastUnique[folder(r)] BY <2>2 DEF Counters
    <3>2. unique[q] \in Nat BY DEF TypeOK
    <3>3. lastUnique[folder(r)] \in Nat BY FoldersUseIDs DEF TypeOK
    <3> QED BY <3>1, <3>2, <3>3
  <2> QED BY <2>1, <2>2 DEF TypeOK, FreshUniquesPerOpen, folder
<1>4. ASSUME NEW r \in Requests, DrawFreed(r) PROVE FreshUniquesPerOpen'
  BY <1>4 DEF DrawFreed, TypeOK, FreshUniquesPerOpen, folder
<1>5. ASSUME NEW r \in Requests, Step(r) PROVE FreshUniquesPerOpen'
  BY <1>1, <1>2, <1>3, <1>4, <1>5
     DEF Step, Find, FindCreated, LockForCreate, CreateFamily, CreateRefused,
         CloseDb, ListFails, OpenDb, OpenFails, Refresh, LoadCounter, LoadRaces,
         LockForPut, EndPut, PutStores, PutRefused, PutThroughFreedHandle,
         PutCrashes
<1> QED BY <1>1, <1>2, <1>5 DEF Next, Arrive, Flush, Crash, Restart, Quiescent

(* No two saves of a folder draw the same number from one counter. *)
THEOREM UniquesAreFresh == Spec => []FreshUniquesPerOpen
<1>1. Init => Counters /\ FreshUniquesPerOpen
  BY InitCounters, InitFresh
<1>2. /\ TypeOK /\ Handles /\ Counters /\ FreshUniquesPerOpen
      /\ [Next]_vars
      => (Counters /\ FreshUniquesPerOpen)'
  BY NextCounters, NextFresh
<1> QED BY <1>1, <1>2, TypeCorrect, HandlesHold, PTL DEF Spec

-----------------------------------------------------------------------------
(* The stored messages.                                                    *)

LEMMA InitStorage == Init => Storage
BY DEF Init, Storage, NoHandle

(* The steps that neither store nor reopen. *)
LEMMA KeptStorage ==
  ASSUME TypeOK, Storage, UNCHANGED <<mem, disk, cf, req>>,
         families \subseteq families', gen' \in Nat, gen <= gen',
         \A r \in Requests : pc'[r] = "open" => pc[r] = "open"
  PROVE  Storage'
<1>1. ASSUME NEW f \in Folders, NEW e \in mem[f] \cup disk[f]
      PROVE  e.landed \in Nat /\ e.landed <= gen
  BY DEF TypeOK, Entry, Storage
<1>2. ASSUME NEW f \in Folders, NEW e \in mem[f] \cup disk[f]
      PROVE  e.landed <= gen'
  BY <1>1 DEF TypeOK
<1> QED BY <1>2 DEF Storage, folder

LEMMA DieStorage == TypeOK /\ Storage /\ Die => Storage'
BY DEF TypeOK, Storage, Die, InFlight, InCreate, NoHandle, folder

(* While a call is in its Put the cache is up to date and nobody reopens. *)
LEMMA PutIsUndisturbed ==
  ASSUME TypeOK, Locks, Handles, NEW r \in Requests, pc[r] = "write"
  PROVE  /\ \A q \in Requests : pc[q] \notin InCreate
         /\ db = "open" => counterGen = gen
<1>1. writer = None BY DEF Locks
<1>2. \A q \in Requests : pc[q] \notin InCreate
  BY <1>1, ConstantsAssumption DEF Locks
<1> QED BY <1>2 DEF Handles, Replacing, InCreate

LEMMA StoreStorage ==
  ASSUME TypeOK, Storage, NEW r \in Requests, NEW f \in families,
         StoreIn(r, f), UNCHANGED <<families, gen, cf, req>>,
         \A q \in Requests : pc'[q] # "open"
  PROVE  Storage'
<1> DEFINE e == EntryOf(r)
<1>1. f \in Folders BY DEF TypeOK
<1>2. e \in Entry /\ e.landed = gen BY EntryType DEF EntryOf
<1>3. ASSUME NEW S \in SUBSET Entry, \A x \in S : x.landed <= gen
      PROVE  \A x \in Overwrite(S, e) : x.landed <= gen
  BY <1>2, <1>3 DEF Overwrite, TypeOK
<1>4. ASSUME NEW S \in {mem[f], disk[f]}
      PROVE  \A x \in Overwrite(S, e) : x.landed <= gen
  BY <1>1, <1>3, <1>4 DEF Storage, TypeOK
<1>5. ASSUME NEW g \in Folders, NEW S \in {mem'[g], disk'[g]}
      PROVE  /\ S # {} => g \in families
             /\ \A x \in S : x.landed <= gen
  <2>1. CASE g = f
    <3>1. S \in {Overwrite(mem[f], e), Overwrite(disk[f], e), disk[f]}
      BY <1>1, <1>5, <2>1 DEF StoreIn, TypeOK
    <3> QED BY <1>1, <1>4, <2>1, <3>1 DEF Storage
  <2>2. CASE g # f
    <3>1. S \in {mem[g], disk[g]} BY <1>5, <2>2 DEF StoreIn, TypeOK
    <3> QED BY <3>1 DEF Storage
  <2> QED BY <2>1, <2>2
<1> QED BY <1>5 DEF Storage, folder

LEMMA NextStorage ==
  TypeOK /\ Locks /\ Handles /\ Storage /\ [Next]_vars => Storage'
<1> SUFFICES ASSUME TypeOK, Locks, Handles, Storage, [Next]_vars PROVE Storage'
  OBVIOUS
<1>0. gen \in Nat /\ gen + 1 \in Nat /\ gen <= gen /\ gen <= gen + 1
  BY DEF TypeOK
<1>1. ASSUME NEW r \in Requests, Arrive(r) PROVE Storage'
  BY <1>0, <1>1, KeptStorage DEF Arrive, Transition, TypeOK
<1>2. ASSUME NEW r \in Requests, Step(r) PROVE Storage'
  <2>0. folder(r) \in Folders BY FoldersUseIDs
  <2>1. ASSUME NEW from \in {"find", "refind"}, ReturnHandle(r, from),
               UNCHANGED <<gen, families, columnFamalies, mem, disk, req>>
        PROVE  Storage'
    <3>1. PICK to \in {"find", "put", "load"} : Transition(r, from, to)
      BY <2>1 DEF ReturnHandle
    <3>2. \A q \in Requests : pc'[q] = "open" => pc[q] = "open"
      BY <3>1 DEF Transition, TypeOK
    <3>3. folder(r) \in families BY <2>0, <2>1 DEF ReturnHandle, Handles
    <3>4. \A q \in Requests : cf'[q] # NoHandle => folder(q) \in families
      BY <2>1, <3>3 DEF ReturnHandle, Storage, TypeOK
    <3> QED BY <2>1, <3>2, <3>4 DEF Storage, folder
  <2>2. CASE Find(r)
    <3>1. CASE ReturnHandle(r, "find") BY <2>1, <2>2, <3>1 DEF Find
    <3>2. CASE Transition(r, "find", "lock") /\ cf' = cf
      BY <1>0, <2>2, <3>2, KeptStorage DEF Find, Transition, TypeOK
    <3> QED BY <2>2, <3>1, <3>2 DEF Find
  <2>3. CASE FindCreated(r) BY <2>1, <2>3 DEF FindCreated
  <2>4. CASE LockForCreate(r)
    BY <1>0, <2>4, KeptStorage DEF LockForCreate, Transition, TypeOK
  <2>5. CASE CreateFamily(r)
    BY <1>0, <2>5, KeptStorage DEF CreateFamily, Transition, TypeOK
  <2>6. CASE CreateRefused(r) BY <2>6, DieStorage DEF CreateRefused
  <2>7. CASE CloseDb(r)
    <3>1. ASSUME NEW f \in Folders, NEW e \in mem[f]
          PROVE  e.landed <= gen + 1
      BY <1>0 DEF TypeOK, Entry, Storage
    <3> QED BY <2>7, <3>1 DEF CloseDb, Storage, folder
  <2>8. CASE ListFails(r)
    BY <1>0, <2>8, KeptStorage DEF ListFails, Throw, Transition, TypeOK
  <2>9. CASE OpenDb(r)
    <3>1. mem' = mem /\ disk' = disk BY <2>9 DEF OpenDb, Transition, Storage
    <3> QED
      BY <1>0, <2>9, <3>1, KeptStorage DEF OpenDb, Transition, TypeOK
  <2>10. CASE OpenFails(r)
    BY <1>0, <2>10, KeptStorage DEF OpenFails, Throw, Transition, TypeOK
  <2>11. CASE Refresh(r)
    BY <1>0, <2>11, KeptStorage DEF Refresh, Transition, TypeOK
  <2>12. CASE LoadCounter(r)
    BY <1>0, <2>12, KeptStorage DEF LoadCounter, Transition, TypeOK
  <2>13. CASE LoadRaces(r) BY <2>13, DieStorage DEF LoadRaces
  <2>14. ASSUME AfterDraw(r)
         PROVE  \A q \in Requests : pc'[q] = "open" => pc[q] = "open"
    BY <2>14 DEF AfterDraw, Transition, TypeOK
  <2>15. CASE Draw(r) BY <1>0, <2>14, <2>15, KeptStorage DEF Draw
  <2>16. CASE DrawFreed(r) BY <1>0, <2>14, <2>16, KeptStorage DEF DrawFreed
  <2>17. CASE LockForPut(r)
    BY <1>0, <2>17, KeptStorage DEF LockForPut, Transition, TypeOK
  <2>18. ASSUME NEW status, EndPut(r, status)
         PROVE  /\ \A q \in Requests : pc'[q] # "open"
                /\ UNCHANGED <<families, gen, cf, req>>
    <3>1. pc[r] = "write" BY <2>18 DEF EndPut, Transition
    <3> QED
      BY <2>18, <3>1, PutIsUndisturbed
         DEF EndPut, Transition, TypeOK, InCreate
  <2>19. CASE PutStores(r)
    <3>1. folder(r) \in families
      BY <2>19 DEF PutStores, HandleIsLive, Handles, Storage, TypeOK, NoHandle
    <3> QED BY <2>18, <2>19, <3>1, StoreStorage DEF PutStores
  <2>20. CASE PutRefused(r)
    BY <1>0, <2>18, <2>20, KeptStorage DEF PutRefused
  <2>21. CASE PutThroughFreedHandle(r)
    BY <1>0, <2>18, <2>21, KeptStorage, StoreStorage
       DEF PutThroughFreedHandle
  <2>22. CASE PutCrashes(r) BY <2>22, DieStorage DEF PutCrashes
  <2> QED
    BY <1>2, <2>2, <2>3, <2>4, <2>5, <2>6, <2>7, <2>8, <2>9, <2>10, <2>11,
       <2>12, <2>13, <2>15, <2>16, <2>17, <2>19, <2>20, <2>21, <2>22 DEF Step
<1>3. ASSUME NEW f \in Folders, Flush(f) PROVE Storage'
  <2>1. \A r \in Requests : pc[r] # "open" BY <1>3 DEF Flush, Locks
  <2> QED BY <1>3, <2>1 DEF Flush, Storage, TypeOK, folder
<1>4. CASE Crash BY <1>4, DieStorage DEF Crash
<1>5. CASE Restart BY <1>0, <1>5, KeptStorage DEF Restart
<1>6. CASE UNCHANGED vars BY <1>0, <1>6, KeptStorage
<1> QED BY <1>1, <1>2, <1>3, <1>4, <1>5, <1>6 DEF Next, Quiescent

THEOREM StorageHolds == Spec => []Storage
<1>1. TypeOK /\ Locks /\ Handles /\ Storage /\ [Next]_vars => Storage'
  BY NextStorage
<1> QED BY <1>1, InitStorage, TypeCorrect, LocksHold, HandlesHold, PTL DEF Spec

-----------------------------------------------------------------------------
(* The counters and the last keys.                                         *)

LEMMA InitCovers == Init => CounterCoversLastKey
BY DEF Init, CounterCoversLastKey

LEMMA KeptCovers ==
  ASSUME CounterCoversLastKey, UNCHANGED <<counterGen, lastUnique, mem, req>>,
         db' # "down" => db # "down"
  PROVE  CounterCoversLastKey'
BY DEF CounterCoversLastKey, folder

LEMMA DieCovers == Die => CounterCoversLastKey'
BY DEF Die, CounterCoversLastKey

(* A new counter starts at the unique of the last key of its folder. *)
LEMMA FillCovers ==
  ASSUME TypeOK, Storage, NEW g \in Nat, CacheHandles(g), mem' = mem
  PROVE  CounterCoversLastKey'
<1>1. ASSUME NEW f \in Folders, NEW e \in mem[f], IsLast(e.id, Ids(mem[f]))
      PROVE  e.id.unique <= lastUnique'[f]
  <2>1. f \in families BY DEF Storage
  <2>2. Ids(mem[f]) \in SUBSET StoredID BY IdsType DEF TypeOK
  <2>3. lastUnique'[f] = e.id.unique
    BY <1>1, <2>1, <2>2, TillOfLast DEF CacheHandles
  <2>4. e.id.unique \in Nat BY <1>1, <2>2 DEF IsLast, StoredID
  <2> QED BY <2>3, <2>4
<1> QED BY <1>1 DEF CounterCoversLastKey

(* A save brings its folder past the counter only if it drew its number    *)
(* from another counter.                                                   *)
LEMMA StoreCovers ==
  ASSUME TypeOK, Counters, CounterCoversLastKey, NEW r \in Requests,
         NEW f \in Folders, StoreIn(r, f), db # "down", gen = counterGen,
         0 < counterGen, UNCHANGED <<counterGen, lastUnique, req>>
  PROVE  CounterCoversLastKey'
<1> DEFINE e == EntryOf(r)
<1>1. e \in Entry BY EntryType
<1>2. /\ Overwrite(mem[f], e) \in SUBSET Entry
      /\ Ids(Overwrite(mem[f], e)) = Ids(mem[f]) \cup {e.id}
  BY <1>1, OverwriteIds DEF TypeOK
<1>3. mem' = [mem EXCEPT ![f] = Overwrite(mem[f], e)] BY DEF StoreIn
<1>4. ASSUME NEW g \in Folders, NEW x \in mem'[g], IsLast(x.id, Ids(mem'[g])),
             \/ x.landed < counterGen
             \/ x.drawn = x.landed /\ folder(x.req) = g
      PROVE  x.id.unique <= lastUnique[g]
  <2>1. CASE g # f
    BY <1>3, <1>4, <2>1 DEF CounterCoversLastKey, TypeOK
  <2>2. CASE g = f /\ x \in mem[f]
    <3>1. Ids(mem'[g]) = Ids(mem[f]) \cup {e.id} BY <1>2, <1>3, <2>2 DEF TypeOK
    <3>2. IsLast(x.id, Ids(mem[f]))
      BY <1>4, <2>2, <3>1 DEF IsLast, Ids
    <3> QED BY <1>4, <2>2, <3>2 DEF CounterCoversLastKey
  <2>3. CASE g = f /\ x = e
    <3>1. x.landed = counterGen /\ x.drawn = origin[r] /\ x.req = r
          /\ x.id.unique = unique[r]
      BY <2>3 DEF EntryOf, id
    <3>2. origin[r] = counterGen /\ folder(r) = f
      BY <1>4, <2>3, <3>1 DEF TypeOK
    <3>3. unique[r] < lastUnique[f]
      BY <3>2 DEF Counters, Dangling, TypeOK
    <3> QED BY <2>3, <3>1, <3>3 DEF TypeOK
  <2>4. x \in mem[f] \/ x = e \/ g # f
    BY <1>3, <1>4 DEF TypeOK, Overwrite
  <2> QED BY <2>1, <2>2, <2>3, <2>4
<1> QED BY <1>4 DEF CounterCoversLastKey, folder

LEMMA NextCovers == IInv /\ [Next]_vars => CounterCoversLastKey'
<1> SUFFICES ASSUME IInv, [Next]_vars PROVE CounterCoversLastKey'
  OBVIOUS
<1> USE DEF IInv
<1>1. ASSUME NEW r \in Requests, Arrive(r) PROVE CounterCoversLastKey'
  BY <1>1, KeptCovers DEF Arrive
<1>2. ASSUME NEW r \in Requests, Step(r) PROVE CounterCoversLastKey'
  <2>1. CASE Find(r) BY <2>1, KeptCovers DEF Find
  <2>2. CASE FindCreated(r) BY <2>2, KeptCovers DEF FindCreated
  <2>3. CASE LockForCreate(r) BY <2>3, KeptCovers DEF LockForCreate
  <2>4. CASE CreateFamily(r) BY <2>4, KeptCovers DEF CreateFamily
  <2>5. CASE CreateRefused(r) BY <2>5, DieCovers DEF CreateRefused
  <2>6. CASE CloseDb(r)
    <3>1. db # "down" BY <2>6 DEF CloseDb, Transition, Locks
    <3> QED BY <2>6, <3>1, KeptCovers DEF CloseDb
  <2>7. CASE ListFails(r) BY <2>7, KeptCovers DEF ListFails
  <2>8. CASE OpenDb(r)
    <3>1. mem' = mem /\ db # "down"
      BY <2>8 DEF OpenDb, Transition, Storage, Locks
    <3> QED BY <2>8, <3>1, KeptCovers DEF OpenDb
  <2>9. CASE OpenFails(r)
    <3>1. db # "down" BY <2>9 DEF OpenFails, Throw, Transition, Locks
    <3> QED BY <2>9, <3>1, KeptCovers DEF OpenFails
  <2>10. CASE Refresh(r) BY <2>10, FillCovers DEF Refresh, TypeOK
  <2>11. CASE LoadCounter(r) BY <2>11, KeptCovers DEF LoadCounter
  <2>12. CASE LoadRaces(r) BY <2>12, DieCovers DEF LoadRaces
  <2>13. CASE Draw(r)
    <3>1. ASSUME NEW f \in Folders
          PROVE  lastUnique[f] \in Nat /\ lastUnique[f] <= lastUnique'[f]
                 /\ lastUnique'[f] \in Nat
      BY <2>13 DEF Draw, TypeOK
    <3>2. ASSUME NEW f \in Folders, NEW e \in mem[f] PROVE e.id.unique \in Nat
      BY DEF TypeOK, Entry, StoredID
    <3> QED BY <2>13, <3>1, <3>2 DEF Draw, CounterCoversLastKey, folder
  <2>14. CASE DrawFreed(r) BY <2>14, KeptCovers DEF DrawFreed
  <2>15. CASE LockForPut(r) BY <2>15, KeptCovers DEF LockForPut
  <2>16. ASSUME NEW f \in families, NEW status, StoreIn(r, f), EndPut(r, status),
                db = "open"
         PROVE  CounterCoversLastKey'
    <3>1. counterGen = gen
      BY <2>16, PutIsUndisturbed DEF EndPut, Transition
    <3>2. f \in Folders BY DEF TypeOK
    <3> QED BY <2>16, <3>1, <3>2, StoreCovers DEF EndPut, Handles
  <2>17. CASE PutStores(r)
    <3>1. folder(r) \in families
      BY <2>17, FoldersUseIDs
         DEF PutStores, HandleIsLive, Handles, Storage, TypeOK, NoHandle
    <3> QED BY <2>16, <2>17, <3>1 DEF PutStores, HandleIsLive
  <2>18. CASE PutRefused(r) BY <2>18, KeptCovers DEF PutRefused, EndPut
  <2>19. CASE PutThroughFreedHandle(r)
    BY <2>16, <2>19, KeptCovers DEF PutThroughFreedHandle, EndPut
  <2>20. CASE PutCrashes(r) BY <2>20, DieCovers DEF PutCrashes
  <2> QED
    BY <1>2, <2>1, <2>2, <2>3, <2>4, <2>5, <2>6, <2>7, <2>8, <2>9, <2>10,
       <2>11, <2>12, <2>13, <2>14, <2>15, <2>17, <2>18, <2>19, <2>20 DEF Step
<1>3. ASSUME NEW f \in Folders, Flush(f) PROVE CounterCoversLastKey'
  BY <1>3, KeptCovers DEF Flush
<1>4. CASE Crash BY <1>4, DieCovers DEF Crash
<1>5. CASE Restart BY <1>5, FillCovers DEF Restart, TypeOK
<1>6. CASE UNCHANGED vars BY <1>6, KeptCovers
<1> QED BY <1>1, <1>2, <1>3, <1>4, <1>5, <1>6 DEF Next, Quiescent

(* All parts together are inductive. *)
THEOREM Inductive == Spec => []IInv
<1>1. Init => IInv
  BY InitType, InitLocks, InitHandles, InitCounters, InitStorage, InitCovers DEF IInv
<1>2. IInv /\ [Next]_vars => IInv'
  BY NextType, NextLocks, NextHandles, NextCounters, NextStorage, NextCovers DEF IInv
<1> QED BY <1>1, <1>2, PTL DEF Spec

(* A counter is never behind the last key, but for the writes of stragglers. *)
THEOREM CountersCover == Spec => []CounterCoversLastKey
<1>1. IInv => CounterCoversLastKey BY DEF IInv
<1> QED BY <1>1, Inductive, PTL

-----------------------------------------------------------------------------
Kept == \A f \in Folders : Ids(mem[f]) \subseteq Ids(mem'[f])

(* No step that leaves the process alive removes a key. *)
LEMMA NextKeeps == IInv /\ [Next]_vars => [db' # "down" => Kept]_vars
<1> USE DEF Kept
<1>1. ASSUME TypeOK, NEW r \in Requests, NEW f \in Folders, StoreIn(r, f)
      PROVE  Kept
  <2>1. Ids(Overwrite(mem[f], EntryOf(r))) = Ids(mem[f]) \cup {EntryOf(r).id}
    BY <1>1, EntryType, OverwriteIds DEF TypeOK
  <2> QED BY <1>1, <2>1 DEF StoreIn, TypeOK
<1>2. ASSUME IInv, NEW r \in Requests, Step(r), db' # "down" PROVE Kept
  <2>1. CASE OpenDb(r) BY <1>2, <2>1 DEF IInv, OpenDb, Transition, Storage
  <2>2. CASE PutStores(r)
    BY <1>1, <1>2, <2>2, FoldersUseIDs DEF IInv, PutStores
  <2>3. CASE PutThroughFreedHandle(r)
    BY <1>1, <1>2, <2>3 DEF IInv, TypeOK, PutThroughFreedHandle
  <2>4. ~ Die BY <1>2 DEF Die
  <2> QED
    BY <1>2, <2>1, <2>2, <2>3, <2>4
       DEF Step, Find, FindCreated, LockForCreate, CreateFamily, CreateRefused,
           CloseDb, ListFails, OpenFails, Refresh, LoadCounter, LoadRaces,
           Draw, DrawFreed, LockForPut, PutRefused, PutCrashes
<1> QED BY <1>2 DEF Next, Arrive, Flush, Crash, Die, Restart, Quiescent

(* Creating a folder replaces the database object and loses no message. *)
THEOREM ReopenIsLossless == Spec => ReopenLosesNothing
<1>1. IInv /\ [Next]_vars
      => [db' # "down" =>
            \A f \in Folders : Ids(mem[f]) \subseteq Ids(mem'[f])]_vars
  BY NextKeeps DEF Kept
<1> QED BY <1>1, Inductive, PTL DEF Spec, ReopenLosesNothing

-----------------------------------------------------------------------------
(* The messages saved with the WAL.                                        *)

LEMMA InitLogged == Init => LoggedMessagesSurvive
BY DEF Init, LoggedMessagesSurvive

LEMMA KeptLogged ==
  LoggedMessagesSurvive /\ UNCHANGED <<mem, disk, req>> => LoggedMessagesSurvive'
BY DEF LoggedMessagesSurvive

LEMMA DieLogged == Die => LoggedMessagesSurvive'
BY DEF Die, LoggedMessagesSurvive

LEMMA StoreLogged ==
  ASSUME TypeOK, LoggedMessagesSurvive, NEW r \in Requests, NEW g \in Folders,
         StoreIn(r, g), UNCHANGED req
  PROVE  LoggedMessagesSurvive'
<1> DEFINE e == EntryOf(r)
<1>1. e.req = r BY DEF EntryOf
<1>2. mem' = [mem EXCEPT ![g] = Overwrite(mem[g], e)]
      /\ disk' = IF req[r].useWAL
                   THEN [disk EXCEPT ![g] = Overwrite(disk[g], e)]
                   ELSE disk
  BY DEF StoreIn
<1>3. ASSUME NEW f \in Folders, NEW x \in mem'[f], req[x.req].useWAL
      PROVE  x \in disk'[f]
  <2>1. CASE f # g
    <3>1. x \in mem[f] /\ disk'[f] = disk[f] BY <1>2, <1>3, <2>1 DEF TypeOK
    <3> QED BY <1>3, <3>1 DEF LoggedMessagesSurvive
  <2>2. CASE f = g
    <3>1. x \in Overwrite(mem[g], e) BY <1>2, <1>3, <2>2 DEF TypeOK
    <3>2. disk'[g] = disk[g] \/ disk'[g] = Overwrite(disk[g], e)
      BY <1>2 DEF TypeOK
    <3>3. CASE x = e
      BY <1>1, <1>2, <1>3, <2>2, <3>3 DEF TypeOK, Overwrite
    <3>4. CASE x # e
      <4>1. x \in mem[g] /\ Compare(x.id, e.id) # 0
        BY <3>1, <3>4 DEF Overwrite
      <4>2. x \in disk[g] BY <1>3, <4>1 DEF LoggedMessagesSurvive
      <4> QED BY <2>2, <3>2, <4>1, <4>2 DEF Overwrite
    <3> QED BY <3>3, <3>4
  <2> QED BY <2>1, <2>2
<1> QED BY <1>3 DEF LoggedMessagesSurvive

LEMMA NextLogged ==
  TypeOK /\ LoggedMessagesSurvive /\ [Next]_vars => LoggedMessagesSurvive'
<1> SUFFICES ASSUME TypeOK, LoggedMessagesSurvive, [Next]_vars
             PROVE  LoggedMessagesSurvive'
  OBVIOUS
<1>1. ASSUME NEW r \in Requests, Step(r) PROVE LoggedMessagesSurvive'
  <2>1. CASE CloseDb(r)
    BY <2>1 DEF CloseDb, LoggedMessagesSurvive
  <2>2. CASE OpenDb(r)
    BY <2>2 DEF OpenDb, LoggedMessagesSurvive
  <2>3. CASE PutStores(r)
    BY <2>3, StoreLogged, FoldersUseIDs DEF PutStores, EndPut
  <2>4. CASE PutThroughFreedHandle(r)
    BY <2>4, StoreLogged, KeptLogged
       DEF PutThroughFreedHandle, EndPut, TypeOK
  <2> QED
    BY <1>1, <2>1, <2>2, <2>3, <2>4, KeptLogged, DieLogged
       DEF Step, Find, FindCreated, LockForCreate, CreateFamily, CreateRefused,
           ListFails, OpenFails, Refresh, LoadCounter, LoadRaces, Draw,
           DrawFreed, LockForPut, PutRefused, EndPut, PutCrashes
<1>2. ASSUME NEW f \in Folders, Flush(f) PROVE LoggedMessagesSurvive'
  BY <1>2 DEF Flush, LoggedMessagesSurvive, TypeOK
<1> QED
  BY <1>1, <1>2, KeptLogged, DieLogged
     DEF Next, Arrive, Crash, Restart, Quiescent

(* A message saved with the WAL is on disk while it can be read, creations  *)
(* of folders and writes through freed handles included.                   *)
THEOREM LoggedIsDurable == Spec => []LoggedMessagesSurvive
<1>1. TypeOK /\ LoggedMessagesSurvive /\ [Next]_vars => LoggedMessagesSurvive'
  BY NextLogged
<1> QED BY <1>1, InitLogged, TypeCorrect, PTL DEF Spec

-----------------------------------------------------------------------------
(* The refinement of MessageStore.                                         *)

storeVars == <<db # "down", mem, disk>>

LEMMA InitStore == Init => Store!Init
BY DEF Init, Store!Init

LEMMA DieIsEnd == TypeOK /\ Die /\ db # "down" => Store!Next
BY DEF TypeOK, Die, Store!Next, Store!End

(* A put is a save of its folder, durable if it asked for the WAL. *)
LEMMA StoreIsSave ==
  ASSUME TypeOK, NEW r \in Requests, NEW g \in Folders, StoreIn(r, g),
         db # "down", UNCHANGED db
  PROVE  Store!Next
<1> DEFINE e == EntryOf(r)
           wal == req[r].useWAL
<1>1. /\ Overwrite(mem[g], e) = Store!Replace(mem[g], e)
      /\ Overwrite(disk[g], e) = Store!Replace(disk[g], e)
  BY EntryType, OverwriteReplaces DEF TypeOK, Store!Replace
<1>2. wal \in BOOLEAN
  BY ConstantsAssumption DEF TypeOK, Parameters
<1>3. Store!Save(g, e, wal)
  BY <1>1 DEF StoreIn, Store!Save
<1>4. e \in mem'[g] BY DEF StoreIn, TypeOK, Overwrite
<1> QED BY <1>2, <1>3, <1>4 DEF Store!Next

LEMMA FlushIsPersist ==
  ASSUME TypeOK, NEW g \in Folders, Flush(g)
  PROVE  Store!Next
<1>1. Store!Persist({g}) BY DEF Flush, TypeOK, Store!Persist
<1> QED BY <1>1 DEF Store!Next

LEMMA CloseIsPersist ==
  ASSUME TypeOK, NEW r \in Requests, CloseDb(r), db # "down"
  PROVE  Store!Next
<1>1. Store!Persist(Folders) BY DEF CloseDb, TypeOK, Store!Persist
<1> QED BY <1>1 DEF Store!Next

LEMMA NextStore == IInv /\ [Next]_vars => [Store!Next]_storeVars
<1> SUFFICES ASSUME IInv, [Next]_vars PROVE [Store!Next]_storeVars
  OBVIOUS
<1> USE DEF IInv
<1>1. UNCHANGED <<mem, disk>> /\ ((db = "down") <=> (db' = "down"))
      => UNCHANGED storeVars
  BY DEF storeVars
<1>2. ASSUME NEW r \in Requests, Step(r) PROVE [Store!Next]_storeVars
  <2>1. ASSUME pc[r] \in InFlight PROVE db # "down" BY <2>1 DEF Locks
  <2>2. ASSUME NEW from \in InFlight, pc[r] = from, UNCHANGED <<mem, disk>>,
               db' \in {db, "open", "closed", "null"}
        PROVE  UNCHANGED storeVars
    BY <1>1, <2>1, <2>2
  <2>3. ASSUME Die, pc[r] \in InFlight PROVE Store!Next
    BY <2>1, <2>3, DieIsEnd
  <2> USE DEF InFlight, InCreate
  <2>4. CASE CloseDb(r)
    BY <2>1, <2>4, CloseIsPersist DEF CloseDb, Transition
  <2>5. CASE OpenDb(r)
    <3>1. UNCHANGED <<mem, disk>> /\ pc[r] = "open" /\ db' = "open"
      BY <2>5 DEF OpenDb, Transition, Storage
    <3> QED BY <2>2, <3>1
  <2>6. CASE PutStores(r)
    BY <2>1, <2>6, StoreIsSave, FoldersUseIDs DEF PutStores, EndPut, Transition
  <2>7. CASE PutThroughFreedHandle(r)
    <3>1. pc[r] = "write" /\ db' = db /\ db # "down"
      BY <2>1, <2>7 DEF PutThroughFreedHandle, EndPut, Transition
    <3>2. ASSUME NEW f \in families, StoreIn(r, f) PROVE Store!Next
      BY <3>1, <3>2, StoreIsSave DEF TypeOK
    <3> QED BY <2>2, <2>7, <3>1, <3>2 DEF PutThroughFreedHandle
  <2>8. CASE CreateRefused(r) \/ LoadRaces(r) \/ PutCrashes(r)
    BY <2>3, <2>8 DEF CreateRefused, LoadRaces, PutCrashes
  <2>9. CASE Find(r) \/ FindCreated(r)
    BY <2>2, <2>9 DEF Find, FindCreated, ReturnHandle, Transition
  <2>10. CASE LockForCreate(r) \/ CreateFamily(r) \/ ListFails(r) \/ OpenFails(r)
              \/ Refresh(r)
    BY <2>2, <2>10
       DEF LockForCreate, CreateFamily, ListFails, OpenFails, Refresh, Throw,
           Transition
  <2>11. CASE LoadCounter(r) \/ Draw(r) \/ DrawFreed(r)
    BY <2>2, <2>11 DEF LoadCounter, Draw, DrawFreed, AfterDraw, Transition
  <2>12. CASE LockForPut(r) \/ PutRefused(r)
    BY <2>2, <2>12 DEF LockForPut, PutRefused, EndPut, Transition
  <2> QED
    BY <1>2, <2>4, <2>5, <2>6, <2>7, <2>8, <2>9, <2>10, <2>11, <2>12 DEF Step
<1>3. ASSUME NEW r \in Requests, Arrive(r) PROVE UNCHANGED storeVars
  BY <1>1, <1>3 DEF Arrive
<1>4. ASSUME NEW f \in Folders, Flush(f) PROVE Store!Next
  BY <1>4, FlushIsPersist
<1>5. CASE Crash BY <1>5, DieIsEnd DEF Crash
<1>6. CASE Restart
  <2>1. Store!Begin BY <1>6 DEF Restart, Store!Begin
  <2> QED BY <2>1 DEF Store!Next
<1>7. CASE UNCHANGED vars BY <1>1, <1>7
<1> QED BY <1>2, <1>3, <1>4, <1>5, <1>6, <1>7 DEF Next, Quiescent

(* Every run of the saves is a run of a store in which a message gives way  *)
(* to one with its id only, while the process lives, and in which what is   *)
(* durable stays when it ends.                                             *)
THEOREM SavesImplementStore == Spec => ImplementsStore
<1>1. IInv /\ [Next]_vars => [Store!Next]_storeVars BY NextStore
<1> QED
  BY <1>1, InitStore, Inductive, PTL
     DEF Spec, ImplementsStore, Store!Spec, storeVars

=============================================================================
