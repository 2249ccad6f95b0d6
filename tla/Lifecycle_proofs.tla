-------------------------- MODULE Lifecycle_proofs --------------------------
(***************************************************************************)
(* What an answer of the server is worth over its life, for any number of  *)
(* calls, crashes, stops and starts, where the folders exist: LifeInv of   *)
(* Lifecycle.tla is inductive.                                             *)
(***************************************************************************)
EXTENDS Lifecycle, DbClient_proofs

USE DEF vars, locking, database, cache, drawn

-----------------------------------------------------------------------------
(* To DbClient, a step of the server is one of its own steps, or the end of *)
(* a process that did not crash.                                           *)
LEMMA LifeSteps ==
  [LifeNext]_lifeVars => [Next]_vars \/ (Die /\ UNCHANGED crashes)
BY DEF LifeNext, lifeVars, Next, BuildAndStart, InitService, StartHttp, HttpFails,
       Terminate, CloseGrpc, Exit, Boot, ArriveCall, NullClient, RunCall,
       CrashProcess, FlushFolder, StayDown

LEMMA LifeIInv ==
  ASSUME IInv, FreshUniquesPerOpen, [LifeNext]_lifeVars
  PROVE  IInv' /\ FreshUniquesPerOpen'
<1>1. CASE [Next]_vars
  BY <1>1, NextType, NextLocks, NextHandles, NextCounters, NextStorage,
     NextCovers, NextFresh DEF IInv
<1>2. CASE Die /\ UNCHANGED crashes
  <2>1. crashes' \in 0..MaxCrashes BY <1>2 DEF IInv, TypeOK
  <2>2. FreshUniquesPerOpen'
    BY <1>2 DEF Die, IInv, TypeOK, FreshUniquesPerOpen, folder, Dangling
  <2> QED
    BY <1>2, <2>1, <2>2, DieType, DieLocks, DieHandles, DieCounters, DieStorage,
       DieCovers DEF IInv
<1> QED BY <1>1, <1>2, LifeSteps

-----------------------------------------------------------------------------
(* Calls run between the start of gRPC and the end of main.                *)

LEMMA DieEndsCalls ==
  ASSUME TypeOK, Die
  PROVE  /\ db' = "down"
         /\ \A r \in Requests : pc'[r] \notin InFlight
BY DEF Die, TypeOK, InFlight, InCreate

(* A step of a call puts no other call in flight and keeps the database     *)
(* object, if it does not end the process.                                 *)
LEMMA StepStaysInFlight ==
  ASSUME IInv, NEW r \in Requests, Step(r)
  PROVE  /\ req' = req
         /\ pc[r] \in InFlight
         /\ \A q \in Requests : pc'[q] \in InFlight => pc[q] \in InFlight
         /\ db # "down"
         /\ db' = "down" => \A q \in Requests : pc'[q] \notin InFlight
<1> USE DEF InFlight, InCreate
<1>1. TypeOK /\ Locks BY DEF IInv
<1>2. pc[r] \in InFlight /\ req' = req
  BY DEF Step, Find, FindCreated, ReturnHandle, LockForCreate, CreateFamily,
         CreateRefused, CloseDb, ListFails, OpenDb, OpenFails, Refresh,
         LoadCounter, LoadRaces, Draw, DrawFreed, AfterDraw, LockForPut,
         EndPut, PutStores, PutRefused, PutThroughFreedHandle, PutCrashes,
         Throw, Transition, Die
<1>3. db # "down" BY <1>1, <1>2 DEF Locks
<1>4. CASE Die
  BY <1>2, <1>3, <1>4, <1>1, DieEndsCalls
<1>5. CASE ~ Die
  <2>1. \E from, to : Transition(r, from, to)
    BY <1>5
       DEF Step, Find, FindCreated, ReturnHandle, LockForCreate, CreateFamily,
           CreateRefused, CloseDb, ListFails, OpenDb, OpenFails, Refresh,
           LoadCounter, LoadRaces, Draw, DrawFreed, AfterDraw, LockForPut,
           EndPut, PutStores, PutRefused, PutThroughFreedHandle, PutCrashes,
           Throw
  <2>2. \A q \in Requests : pc'[q] \in InFlight => pc[q] \in InFlight
    BY <1>1, <1>2, <2>1 DEF Transition, TypeOK
  <2>3. db' # "down"
    BY <1>3, <1>5
       DEF Step, Find, FindCreated, LockForCreate, CreateFamily, CreateRefused,
           CloseDb, ListFails, OpenDb, OpenFails, Refresh, LoadCounter,
           LoadRaces, Draw, DrawFreed, LockForPut, EndPut, PutStores,
           PutRefused, PutThroughFreedHandle, PutCrashes
  <2> QED BY <1>2, <1>3, <2>2, <2>3
<1> QED BY <1>4, <1>5

LEMMA NextCallsWithinLife ==
  ASSUME IInv, CallsWithinLife, [LifeNext]_lifeVars
  PROVE  CallsWithinLife'
<1> USE DEF CallsWithinLife, Phases, RunServer
<1>1. TypeOK BY DEF IInv
<1>2. UNCHANGED vars => UNCHANGED <<db, Serves("http"), Serves("grpc")>>
  BY DEF Serves
<1>3. ASSUME Die, phase' = "down" PROVE CallsWithinLife'
  BY <1>1, <1>3, DieEndsCalls DEF Serves
<1>4. CASE BuildAndStart \/ InitService \/ StartHttp \/ HttpFails \/ Terminate
           \/ CloseGrpc
  BY <1>2, <1>4
     DEF BuildAndStart, InitService, StartHttp, HttpFails, Terminate, CloseGrpc
<1>5. CASE Exit BY <1>3, <1>5 DEF Exit
<1>6. CASE Boot BY <1>6 DEF Boot, Restart, Serves
<1>7. ASSUME NEW r \in Requests, ArriveCall(r) PROVE CallsWithinLife'
  <2>1. /\ TakesCalls(req[r].api) /\ UNCHANGED <<phase, req, db>>
        /\ \A q \in Requests : q # r => pc'[q] = pc[q]
    BY <1>1, <1>7 DEF ArriveCall, Arrive, Transition, TypeOK
  <2> QED BY <2>1 DEF TakesCalls, Serves
<1>8. ASSUME NEW r \in Requests, NullClient(r) PROVE CallsWithinLife'
  BY <1>3, <1>8 DEF NullClient
<1>9. ASSUME NEW r \in Requests, RunCall(r) PROVE CallsWithinLife'
  <2>1. /\ req' = req
        /\ \A q \in Requests : pc'[q] \in InFlight => pc[q] \in InFlight
        /\ db # "down"
        /\ db' = "down" => \A q \in Requests : pc'[q] \notin InFlight
    BY <1>9, StepStaysInFlight DEF RunCall
  <2>2. phase' = IF db' = "down" THEN "down" ELSE phase BY <1>9 DEF RunCall
  <2> QED BY <2>1, <2>2 DEF Serves
<1>10. CASE CrashProcess BY <1>3, <1>10 DEF CrashProcess, Crash
<1>11. ASSUME NEW f \in Folders, FlushFolder(f) PROVE CallsWithinLife'
  BY <1>11 DEF FlushFolder, Flush, Serves
<1>12. CASE UNCHANGED lifeVars BY <1>2, <1>12 DEF lifeVars
<1> QED
  BY <1>4, <1>5, <1>6, <1>7, <1>8, <1>9, <1>10, <1>11, <1>12
     DEF LifeNext, StayDown

-----------------------------------------------------------------------------
(* Where no folder is created.                                             *)

LEMMA InitStable == Existing = Folders /\ Init => Stable
BY DEF Init, Stable, InCreate, InFlight

(* What is left of the steps of a call. *)
LEMMA StableSteps ==
  ASSUME IInv, Stable, NEW r \in Requests, Step(r)
  PROVE  \/ Find(r) /\ ReturnHandle(r, "find")
         \/ LoadCounter(r) \/ Draw(r)
         \/ LockForPut(r) \/ PutStores(r) \/ PutRefused(r)
<1> USE DEF InFlight, InCreate, Transition
<1>1. TypeOK /\ Locks /\ Handles BY DEF IInv
<1>2. folder(r) \in Folders BY <1>1, FoldersUseIDs
<1>3. columnFamalies[folder(r)] # NoHandle
  BY <1>1, <1>2 DEF Stable, Handles, TypeOK, NoHandle
<1>4. pc[r] \in InFlight => db = "open" BY <1>1 DEF Locks, Stable
<1>5. \A q \in Requests : pc[q] \notin InCreate \cup {"lock", "refind"}
  BY DEF Stable
<1>6. ~ (LockForCreate(r) \/ CreateFamily(r) \/ CreateRefused(r) \/ CloseDb(r)
         \/ ListFails(r) \/ OpenDb(r) \/ OpenFails(r) \/ Refresh(r)
         \/ FindCreated(r))
  BY <1>5
     DEF LockForCreate, CreateFamily, CreateRefused, CloseDb, ListFails, OpenDb,
         OpenFails, Refresh, FindCreated, ReturnHandle, Throw
<1>7. ~ LoadRaces(r) BY <1>5 DEF LoadRaces
<1>8. ~ DrawFreed(r) BY DEF DrawFreed, AfterDraw, Stable
<1>9. ~ (PutThroughFreedHandle(r) \/ PutCrashes(r))
  BY <1>4 DEF PutThroughFreedHandle, PutCrashes, EndPut, HandleIsLive, Stable
<1>10. Find(r) => ReturnHandle(r, "find") BY <1>3 DEF Find
<1> QED BY <1>6, <1>7, <1>8, <1>9, <1>10 DEF Step

(* What Stable says of a call. *)
CallIsStable(q) ==
  /\ pc[q] \notin InCreate \cup {"lock", "refind"}
  /\ pc[q] \in {"load", "add"} => stage[q] = "id"
  /\ pc[q] = "add" => counter[q] = gen
  /\ pc[q] \in {"put", "write"} => cf[q] = gen /\ origin[q] = gen
  /\ pc[q] \in InFlight =>
       IF req[q].api = "grpc" THEN stage[q] = "id" => cf[q] = gen
                              ELSE stage[q] = "handle" => origin[q] = gen

(* A step of a call disturbs no other call. *)
LEMMA OneCallStable ==
  ASSUME TypeOK, Stable, NEW r \in Requests, CallIsStable(r)',
         UNCHANGED <<gen, req>>,
         \A q \in Requests : q # r =>
           /\ pc'[q] = pc[q] /\ stage'[q] = stage[q] /\ cf'[q] = cf[q]
           /\ counter'[q] = counter[q] /\ origin'[q] = origin[q]
  PROVE  \A q \in Requests : CallIsStable(q)'
BY DEF Stable, CallIsStable

LEMMA StepStable ==
  ASSUME IInv, Stable, NEW r \in Requests, Step(r)
  PROVE  Stable' /\ db' = db
<1> USE DEF InFlight, InCreate, Transition
<1>1. TypeOK /\ Locks BY DEF IInv
<1>2. folder(r) \in Folders BY <1>1, FoldersUseIDs
<1>3. db = "open" BY <1>1, StepStaysInFlight DEF Stable
<1>4. CallIsStable(r) BY DEF Stable, CallIsStable
<1>5. req[r].api \in {"grpc", "http"}
  BY <1>1, ConstantsAssumption DEF TypeOK, Parameters
<1>6. ASSUME UNCHANGED <<db, gen, families, columnFamalies, counterGen, req>>,
             \A q \in Requests : CallIsStable(q)'
      PROVE  Stable' /\ db' = db
  BY <1>6 DEF Stable, CallIsStable
<1>7. CASE Find(r) /\ ReturnHandle(r, "find")
  <2>1. UNCHANGED <<database, cache, req, drawn>> BY <1>7 DEF Find
  <2>2. columnFamalies[folder(r)] = gen BY <1>2 DEF Stable
  <2>3. CallIsStable(r)'
    BY <1>1, <1>4, <1>5, <1>7, <2>1, <2>2 DEF ReturnHandle, CallIsStable, TypeOK
  <2>4. \A q \in Requests : q # r =>
           pc'[q] = pc[q] /\ stage'[q] = stage[q] /\ cf'[q] = cf[q]
    BY <1>1, <1>7 DEF ReturnHandle, TypeOK
  <2>5. \A q \in Requests : CallIsStable(q)'
    BY <1>1, <2>1, <2>3, <2>4, OneCallStable
  <2> QED BY <1>6, <2>1, <2>5
<1>8. CASE LoadCounter(r)
  <2>1. CallIsStable(r)'
    BY <1>1, <1>4, <1>8 DEF LoadCounter, CallIsStable, Stable, TypeOK
  <2>2. \A q \in Requests : CallIsStable(q)'
    BY <1>1, <1>8, <2>1, OneCallStable DEF LoadCounter, TypeOK
  <2> QED BY <1>6, <1>8, <2>2 DEF LoadCounter
<1>9. CASE Draw(r)
  <2>1. origin'[r] = gen /\ counterGen = gen
    BY <1>1, <1>9 DEF Draw, Stable, TypeOK
  <2>2. CallIsStable(r)'
    BY <1>1, <1>4, <1>5, <1>9, <2>1
       DEF Draw, AfterDraw, CallIsStable, TypeOK
  <2>3. \A q \in Requests : q # r =>
           /\ pc'[q] = pc[q] /\ stage'[q] = stage[q] /\ cf'[q] = cf[q]
           /\ counter'[q] = counter[q] /\ origin'[q] = origin[q]
    BY <1>1, <1>9 DEF Draw, AfterDraw, TypeOK
  <2>4. \A q \in Requests : CallIsStable(q)'
    BY <1>1, <1>9, <2>2, <2>3, OneCallStable DEF Draw
  <2> QED BY <1>6, <1>9, <2>4 DEF Draw
<1>10. CASE LockForPut(r)
  <2>1. CallIsStable(r)'
    BY <1>1, <1>4, <1>10 DEF LockForPut, CallIsStable, TypeOK
  <2>2. \A q \in Requests : CallIsStable(q)'
    BY <1>1, <1>10, <2>1, OneCallStable DEF LockForPut, TypeOK
  <2> QED BY <1>6, <1>10, <2>2 DEF LockForPut
<1>11. ASSUME NEW status, EndPut(r, status)
       PROVE  \A q \in Requests : CallIsStable(q)'
  <2>1. CallIsStable(r)'
    BY <1>1, <1>11 DEF EndPut, CallIsStable, TypeOK
  <2> QED BY <1>1, <1>11, <2>1, OneCallStable DEF EndPut, TypeOK
<1>12. CASE PutStores(r)
  BY <1>6, <1>11, <1>12 DEF PutStores, EndPut
<1>13. CASE PutRefused(r)
  BY <1>6, <1>11, <1>13 DEF PutRefused, EndPut
<1> QED BY <1>7, <1>8, <1>9, <1>10, <1>12, <1>13, StableSteps

LEMMA DieStable == TypeOK /\ Stable /\ Die => Stable'
BY DEF TypeOK, Stable, Die, InFlight, InCreate

LEMMA NextStable ==
  ASSUME IInv, Stable, [LifeNext]_lifeVars
  PROVE  Stable'
<1>1. TypeOK /\ Locks BY DEF IInv
<1>2. ASSUME NEW r \in Requests, Arrive(r) PROVE Stable'
  <2>1. req[r].api \in {"grpc", "http"}
    BY <1>1, ConstantsAssumption DEF TypeOK, Parameters
  <2>2. CallIsStable(r)'
    BY <1>1, <1>2, <2>1
       DEF Arrive, Transition, CallIsStable, TypeOK, InFlight, InCreate
  <2>3. \A q \in Requests : CallIsStable(q)'
    BY <1>1, <1>2, <2>2, OneCallStable DEF Arrive, Transition, TypeOK
  <2> QED BY <1>2, <2>3 DEF Arrive, Stable, CallIsStable
<1>3. ASSUME NEW r \in Requests, Step(r) PROVE Stable'
  BY <1>3, StepStable
<1>4. ASSUME NEW f \in Folders, Flush(f) PROVE Stable'
  BY <1>1, <1>4 DEF Flush, Stable, TypeOK
<1>5. CASE Restart
  <2>1. ASSUME NEW q \in Requests
        PROVE  pc[q] \notin InFlight /\ pc[q] \notin InCreate \cup {"lock", "refind"}
    BY <1>1, <1>5 DEF Restart, Locks, Stable
  <2>2. \A f \in Folders : columnFamalies'[f] = gen'
    BY <1>1, <1>5 DEF Restart, CacheHandles, Stable
  <2> QED
    BY <1>5, <2>1, <2>2 DEF Restart, CacheHandles, Stable, InFlight, InCreate
<1>6. CASE UNCHANGED vars BY <1>6 DEF Stable
<1> QED
  BY <1>1, <1>2, <1>3, <1>4, <1>5, <1>6, DieStable, LifeSteps
     DEF Next, Crash, Quiescent

-----------------------------------------------------------------------------
(* The answers.                                                            *)

LEMMA NextAnswered ==
  ASSUME IInv, Stable, Answered, [LifeNext]_lifeVars
  PROVE  Answered'
<1>1. TypeOK /\ Locks BY DEF IInv
<1>2. UNCHANGED <<pc, reply>> => Answered' BY DEF Answered
<1>3. CASE Die BY <1>1, <1>3 DEF Die, Answered, TypeOK, InFlight, InCreate
<1>4. ASSUME NEW r \in Requests, NEW from, NEW to, Transition(r, from, to),
             from # "done", reply' = reply
      PROVE  Answered'
  BY <1>1, <1>4 DEF Transition, Answered, TypeOK
<1>5. ASSUME NEW r \in Requests, NEW status, EndPut(r, status) PROVE Answered'
  BY <1>1, <1>5 DEF EndPut, Transition, Reply, Answered, TypeOK
<1>6. ASSUME NEW r \in Requests, Step(r) PROVE Answered'
  BY <1>4, <1>5, <1>6, StableSteps
     DEF Find, ReturnHandle, LoadCounter, Draw, AfterDraw, LockForPut,
         PutStores, PutRefused
<1>7. ASSUME NEW r \in Requests, Arrive(r) PROVE Answered'
  BY <1>4, <1>7 DEF Arrive
<1> QED
  BY <1>2, <1>3, <1>6, <1>7, LifeSteps DEF Next, Flush, Crash, Restart, Quiescent

(* A put stores the message of its call, and of other calls that drew from  *)
(* the open counter it overwrites none: their keys differ.                 *)
LEMMA StoreAcked ==
  ASSUME IInv, Stable, FreshUniquesPerOpen, AckedSaveReadable,
         NEW r \in Requests, PutStores(r)
  PROVE  AckedSaveReadable'
<1>1. TypeOK /\ db = "open" BY DEF IInv, PutStores, HandleIsLive
<1>2. folder(r) \in Folders BY <1>1, FoldersUseIDs
<1>3. origin[r] = gen /\ gen # Dangling
  BY DEF PutStores, EndPut, Transition, Stable, IInv, Handles, TypeOK, Dangling
<1>4. /\ mem' = [mem EXCEPT ![folder(r)] = Overwrite(@, EntryOf(r))]
      /\ UNCHANGED <<db, gen, req, origin, unique>>
      /\ \A q \in Requests : q # r => reply'[q] = reply[q]
  BY <1>1 DEF PutStores, EndPut, StoreIn, Reply, TypeOK
<1>5. ASSUME NEW q \in Requests, reply'[q] = "ok", req[q].api = "grpc",
             origin[q] = gen
      PROVE  \E e \in mem'[folder(q)] : e.req = q /\ e.id = id(q)
  <2>1. folder(q) \in Folders BY <1>1, FoldersUseIDs
  <2>2. CASE q = r
    <3>1. EntryOf(r) \in mem'[folder(r)] BY <1>1, <1>2, <1>4 DEF TypeOK, Overwrite
    <3> QED BY <2>2, <3>1 DEF EntryOf
  <2>3. CASE q # r
    <3>1. PICK e \in mem[folder(q)] : e.req = q /\ e.id = id(q)
      BY <1>1, <1>4, <1>5, <2>3 DEF AckedSaveReadable
    <3>2. CASE folder(q) # folder(r)
      BY <1>1, <1>4, <2>1, <3>1, <3>2 DEF TypeOK
    <3>3. CASE folder(q) = folder(r)
      <4>1. unique[q] # unique[r]
        BY <1>3, <1>5, <2>3, <3>3 DEF FreshUniquesPerOpen
      <4>2. e.id # id(r) BY <3>1, <4>1 DEF id
      <4>3. e.id \in StoredID /\ id(r) \in StoredID
        BY <1>1, <2>1, <3>1, FoldersUseIDs DEF TypeOK, Entry
      <4>4. Compare(e.id, EntryOf(r).id) # 0
        BY <4>2, <4>3, CompareIsZero DEF EntryOf
      <4>5. e \in mem'[folder(q)]
        BY <1>1, <1>2, <1>4, <3>1, <3>3, <4>4 DEF TypeOK, Overwrite
      <4> QED BY <3>1, <4>5
    <3> QED BY <3>2, <3>3
  <2> QED BY <2>2, <2>3
<1> QED BY <1>4, <1>5 DEF AckedSaveReadable, folder, id

LEMMA KeptAcked ==
  AckedSaveReadable /\ UNCHANGED <<mem, db, gen, req, origin, unique, reply>>
  => AckedSaveReadable'
BY DEF AckedSaveReadable, folder, id

LEMMA DieAcked == Die => AckedSaveReadable'
BY DEF Die, AckedSaveReadable

LEMMA NextAcked ==
  ASSUME IInv, Stable, Answered, FreshUniquesPerOpen,
         AckedSaveReadable, [LifeNext]_lifeVars
  PROVE  AckedSaveReadable'
<1>1. TypeOK BY DEF IInv
<1>2. ASSUME NEW r \in Requests, Step(r) PROVE AckedSaveReadable'
  <2>1. CASE Draw(r)
    <3>1. pc[r] = "add" BY <2>1 DEF Draw, AfterDraw, Transition
    <3>2. reply[r] # "ok" BY <3>1 DEF Answered
    <3> QED BY <1>1, <2>1, <3>1, <3>2 DEF Draw, AckedSaveReadable, folder, id, TypeOK
  <2>2. CASE PutRefused(r)
    <3>1. req[r].api = "grpc" => reply'[r] = "error"
      BY <1>1, <2>2 DEF PutRefused, EndPut, Reply, Refusal, TypeOK
    <3>2. UNCHANGED <<mem, db, gen, req, origin, unique>>
          /\ \A q \in Requests : q # r => reply'[q] = reply[q]
      BY <1>1, <2>2 DEF PutRefused, EndPut, Reply, TypeOK
    <3> QED BY <3>1, <3>2 DEF AckedSaveReadable, folder, id
  <2> QED
    BY <1>2, <2>1, <2>2, StableSteps, StoreAcked, KeptAcked
       DEF Find, LoadCounter, LockForPut
<1>3. ASSUME NEW r \in Requests, Arrive(r) PROVE AckedSaveReadable'
  BY <1>3, KeptAcked DEF Arrive
<1>4. ASSUME NEW f \in Folders, Flush(f) PROVE AckedSaveReadable'
  BY <1>4, KeptAcked DEF Flush
<1>5. CASE Restart
  <2>1. ASSUME NEW r \in Requests PROVE origin[r] # gen'
    <3>1. origin[r] \in Nat /\ origin[r] <= counterGen /\ counterGen = gen
          /\ gen \in Nat
      BY <1>1 DEF IInv, Counters, Stable, TypeOK
    <3> QED BY <1>5, <3>1 DEF Restart
  <2> QED BY <1>5, <2>1 DEF Restart, AckedSaveReadable
<1>6. CASE UNCHANGED vars BY <1>6, KeptAcked
<1> QED
  BY <1>1, <1>2, <1>3, <1>4, <1>5, <1>6, DieAcked, LifeSteps
     DEF Next, Crash, Quiescent

(* What AckedWalSaveSurvives requires of the entries under the id of r. *)
Holds(r, entries) ==
  \E e \in entries : e.id = id(r) /\ (e.req = r \/ e.drawn > origin[r])

(* A put takes the id of an answered call only after a later start: it drew *)
(* from a counter that is younger.                                         *)
LEMMA StoreSurvives ==
  ASSUME IInv, Stable, FreshUniquesPerOpen, AckedWalSaveSurvives,
         NEW r \in Requests, PutStores(r)
  PROVE  AckedWalSaveSurvives'
<1> DEFINE e == EntryOf(r)
<1>1. TypeOK /\ folder(r) \in Folders BY FoldersUseIDs DEF IInv
<1>2. /\ e.id = id(r) /\ e.req = r /\ e.drawn = gen
      /\ id(r) \in StoredID
  BY <1>1, FoldersUseIDs
     DEF PutStores, EndPut, Transition, Stable, EntryOf
<1>3. /\ UNCHANGED <<req, unique, origin>>
      /\ \A q \in Requests : q # r => reply'[q] = reply[q]
  BY <1>1 DEF PutStores, EndPut, Reply, TypeOK
<1>4. ASSUME NEW q \in Requests, q # r, id(q) = id(r), folder(q) = folder(r)
      PROVE  gen > origin[q]
  <2>1. unique[q] = unique[r] BY <1>4 DEF id
  <2>2. gen \in Nat /\ gen # Dangling /\ origin[r] = gen
    BY <1>1 DEF PutStores, EndPut, Transition, Stable, IInv, Handles, TypeOK, Dangling
  <2>3. origin[q] # gen
    BY <1>4, <2>1, <2>2 DEF FreshUniquesPerOpen
  <2>4. origin[q] \in Nat /\ origin[q] <= gen
    BY <1>1 DEF IInv, Counters, Stable, TypeOK
  <2> QED BY <2>2, <2>3, <2>4
<1>5. ASSUME NEW q \in Requests, q # r, folder(q) = folder(r),
             NEW S \in SUBSET Entry, Holds(q, S)
      PROVE  Holds(q, Overwrite(S, e))
  <2>1. PICK x \in S : x.id = id(q) /\ (x.req = q \/ x.drawn > origin[q])
    BY <1>5 DEF Holds
  <2>2. CASE id(q) = id(r)
    <3>1. e \in Overwrite(S, e) BY DEF Overwrite
    <3>2. e.id = id(q) /\ e.drawn > origin[q] BY <1>2, <1>4, <1>5, <2>2
    <3> HIDE DEF e
    <3> QED BY <3>1, <3>2 DEF Holds
  <2>3. CASE id(q) # id(r)
    <3>1. Compare(x.id, e.id) # 0
      BY <1>2, <2>1, <2>3, CompareIsZero DEF Entry
    <3>2. x \in Overwrite(S, e) BY <3>1 DEF Overwrite
    <3> HIDE DEF e
    <3> QED BY <2>1, <3>2 DEF Holds
  <2> QED BY <2>2, <2>3
<1>6. /\ mem' = [mem EXCEPT ![folder(r)] = Overwrite(mem[folder(r)], e)]
      /\ disk' = IF req[r].useWAL
                   THEN [disk EXCEPT ![folder(r)] = Overwrite(disk[folder(r)], e)]
                   ELSE disk
  BY DEF PutStores, StoreIn
<1> HIDE DEF e
<1>7. ASSUME NEW q \in Requests, reply'[q] = "ok", req[q].api = "grpc",
             req[q].useWAL, NEW S \in {mem'[folder(q)], disk'[folder(q)]}
      PROVE  Holds(q, S)
  <2>1. folder(q) \in Folders BY <1>1, FoldersUseIDs
  <2>2. CASE q = r
    <3>1. S \in {Overwrite(mem[folder(r)], e), Overwrite(disk[folder(r)], e)}
      BY <1>1, <1>6, <1>7, <2>2 DEF TypeOK
    <3>2. e \in S BY <3>1 DEF Overwrite
    <3> QED BY <1>2, <2>2, <3>2 DEF Holds
  <2>3. CASE q # r
    <3>1. Holds(q, mem[folder(q)]) /\ Holds(q, disk[folder(q)])
      BY <1>3, <1>7, <2>3 DEF AckedWalSaveSurvives, Holds
    <3>2. CASE folder(q) # folder(r)
      <4>1. S \in {mem[folder(q)], disk[folder(q)]}
        BY <1>1, <1>6, <1>7, <2>1, <3>2 DEF TypeOK
      <4> QED BY <3>1, <4>1
    <3>3. CASE folder(q) = folder(r)
      <4>1. S \in {Overwrite(mem[folder(r)], e), disk[folder(r)],
                   Overwrite(disk[folder(r)], e)}
        BY <1>1, <1>6, <1>7, <3>3 DEF TypeOK
      <4>2. mem[folder(r)] \in SUBSET Entry /\ disk[folder(r)] \in SUBSET Entry
        BY <1>1 DEF TypeOK
      <4> QED BY <1>5, <2>3, <3>1, <3>3, <4>1, <4>2
    <3> QED BY <3>2, <3>3
  <2> QED BY <2>2, <2>3
<1> QED BY <1>3, <1>7 DEF AckedWalSaveSurvives, Holds, folder, id

LEMMA KeptSurvives ==
  AckedWalSaveSurvives /\ UNCHANGED <<mem, disk, req, unique, origin, reply>>
  => AckedWalSaveSurvives'
BY DEF AckedWalSaveSurvives, folder, id

LEMMA NextSurvives ==
  ASSUME IInv, Stable, Answered, FreshUniquesPerOpen, AckedWalSaveSurvives,
         [LifeNext]_lifeVars
  PROVE  AckedWalSaveSurvives'
<1>1. TypeOK BY DEF IInv
<1>2. ASSUME NEW r \in Requests, Step(r) PROVE AckedWalSaveSurvives'
  <2>1. CASE Draw(r)
    <3>1. pc[r] = "add" BY <2>1 DEF Draw, AfterDraw, Transition
    <3>2. reply[r] # "ok" BY <3>1 DEF Answered
    <3> QED
      BY <1>1, <2>1, <3>2 DEF Draw, AckedWalSaveSurvives, folder, id, TypeOK
  <2>2. CASE PutRefused(r)
    <3>1. req[r].api = "grpc" => reply'[r] = "error"
      BY <1>1, <2>2 DEF PutRefused, EndPut, Reply, Refusal, TypeOK
    <3>2. UNCHANGED <<mem, disk, req, unique, origin>>
          /\ \A q \in Requests : q # r => reply'[q] = reply[q]
      BY <1>1, <2>2 DEF PutRefused, EndPut, Reply, TypeOK
    <3> QED BY <3>1, <3>2 DEF AckedWalSaveSurvives, folder, id
  <2> QED
    BY <1>2, <2>1, <2>2, StableSteps, StoreSurvives, KeptSurvives
       DEF Find, LoadCounter, LockForPut
<1>3. ASSUME NEW r \in Requests, Arrive(r) PROVE AckedWalSaveSurvives'
  BY <1>3, KeptSurvives DEF Arrive
<1>4. ASSUME NEW f \in Folders, Flush(f) PROVE AckedWalSaveSurvives'
  <2>1. \A g \in Folders : disk'[g] \in {mem[g], disk[g]} /\ mem'[g] = mem[g]
    BY <1>1, <1>4 DEF Flush, TypeOK
  <2>2. \A q \in Requests : folder(q) \in Folders BY <1>1, FoldersUseIDs
  <2>3. UNCHANGED <<req, unique, origin, reply>> BY <1>4 DEF Flush
  <2> QED BY <2>1, <2>2, <2>3 DEF AckedWalSaveSurvives, folder, id
<1>5. CASE Die
  <2>1. ASSUME NEW q \in Requests, reply[q] = "ok"
        PROVE  unique'[q] = unique[q] /\ origin'[q] = origin[q]
    BY <1>1, <1>5, <2>1 DEF Die, Answered, TypeOK, InFlight, InCreate
  <2>2. mem' = disk /\ disk' = disk /\ req' = req /\ reply' = reply
    BY <1>5 DEF Die
  <2> QED BY <2>1, <2>2 DEF AckedWalSaveSurvives, folder, id
<1>6. CASE Restart BY <1>6, KeptSurvives DEF Restart
<1>7. CASE UNCHANGED vars BY <1>7, KeptSurvives
<1> QED
  BY <1>2, <1>3, <1>4, <1>5, <1>6, <1>7, LifeSteps DEF Next, Crash, Quiescent

-----------------------------------------------------------------------------
LEMMA InitLife == Existing = Folders /\ LifeInit => LifeInv
<1> SUFFICES ASSUME Existing = Folders, LifeInit PROVE LifeInv
  OBVIOUS
<1>1. Init BY DEF LifeInit
<1>2. IInv
  BY <1>1, InitType, InitLocks, InitHandles, InitCounters, InitStorage, InitCovers
     DEF IInv
<1>3. CallsWithinLife
  BY <1>1 DEF LifeInit, Init, CallsWithinLife, Phases, Serves, InFlight, InCreate
<1>4. Answered /\ AckedSaveReadable /\ AckedWalSaveSurvives
  BY <1>1 DEF Init, Answered, AckedSaveReadable, AckedWalSaveSurvives
<1> QED BY <1>1, <1>2, <1>3, <1>4, InitFresh, InitStable DEF LifeInv

LEMMA NextLife == LifeInv /\ [LifeNext]_lifeVars => LifeInv'
<1> SUFFICES ASSUME LifeInv, [LifeNext]_lifeVars PROVE LifeInv'
  OBVIOUS
<1> USE DEF LifeInv
<1>1. IInv' /\ FreshUniquesPerOpen' BY LifeIInv
<1>2. CallsWithinLife' BY NextCallsWithinLife
<1>3. Stable' /\ Answered' BY NextStable, NextAnswered
<1>4. AckedSaveReadable' BY NextAcked
<1>5. AckedWalSaveSurvives' BY NextSurvives
<1> QED BY <1>1, <1>2, <1>3, <1>4, <1>5

(* Where no folder is created, everything LifeInv says holds over crashes,  *)
(* stops and starts of the server.                                         *)
THEOREM LifeInductive ==
  ASSUME Existing = Folders
  PROVE  LifeSpec => []LifeInv
<1>1. LifeInit => LifeInv BY InitLife
<1>2. LifeInv /\ [LifeNext]_lifeVars => LifeInv' BY NextLife
<1> QED BY <1>1, <1>2, PTL DEF LifeSpec

(* A save that was answered OK over gRPC is read back under its id as long  *)
(* as the database it was saved to is open: no other save takes its place.  *)
THEOREM AckedIsReadable ==
  ASSUME Existing = Folders
  PROVE  LifeSpec => []AckedSaveReadable
<1>1. LifeInv => AckedSaveReadable BY DEF LifeInv
<1> QED BY <1>1, LifeInductive, PTL

(* If it asked for the WAL as well, it outlives crashes and stops: under    *)
(* its id there is its message, or that of a save which drew the same       *)
(* unique after a later start, for readers and on disk.                     *)
THEOREM AckedWalSurvives ==
  ASSUME Existing = Folders
  PROVE  LifeSpec => []AckedWalSaveSurvives
<1>1. LifeInv => AckedWalSaveSurvives BY DEF LifeInv
<1> QED BY <1>1, LifeInductive, PTL

(* Once the service has its client, no call ends the process. *)
THEOREM OnlyEarlyCallsAreDeadly ==
  ASSUME Existing = Folders
  PROVE  LifeSpec => OnlyEarlyCallsKill
<1>1. LifeInv /\ [LifeNext]_lifeVars =>
        [phase \notin {"grpc", "closing"} /\ crashes' = crashes
           => ~ (db # "down" /\ db' = "down")]_lifeVars
  <2> SUFFICES ASSUME LifeInv, LifeNext, phase \notin {"grpc", "closing"},
                      crashes' = crashes, db # "down"
               PROVE  db' # "down"
    BY DEF lifeVars
  <2>1. TypeOK /\ IInv /\ Stable /\ CallsWithinLife BY DEF LifeInv, IInv
  <2>2. ASSUME NEW r \in Requests, NullClient(r) PROVE FALSE
    <3>1. pc[r] \in InFlight BY <2>2 DEF NullClient, InFlight
    <3>2. req[r].api \in {"grpc", "http"}
      BY <2>1, ConstantsAssumption DEF TypeOK, Parameters
    <3>3. phase \notin {"constructed", "down"}
      BY <2>1, <3>1, <3>2 DEF CallsWithinLife, Serves
    <3> QED BY <2>1, <2>2, <3>3 DEF NullClient, ClientSet, CallsWithinLife, Phases
  <2>3. ASSUME NEW r \in Requests, RunCall(r) PROVE db' = db
    BY <2>1, <2>3, StepStable DEF RunCall
  <2>4. ~ CrashProcess
    BY <2>1 DEF CrashProcess, Crash, TypeOK
  <2> QED
    BY <2>2, <2>3, <2>4
       DEF LifeNext, BuildAndStart, InitService, StartHttp, HttpFails, Terminate,
           CloseGrpc, Exit, Boot, Restart, RunServer, ArriveCall, Arrive,
           FlushFolder, Flush, StayDown, lifeVars
<1> QED BY <1>1, LifeInductive, PTL DEF LifeSpec, OnlyEarlyCallsKill

-----------------------------------------------------------------------------
(* Stops included, and with folders being created, the server is still a    *)
(* store that loses nothing while it runs (~DbClient leaves db to the end   *)
(* of the process, which is an end like any other).                        *)
LEMMA InitLifeIInv == LifeInit => IInv /\ FreshUniquesPerOpen
BY InitType, InitLocks, InitHandles, InitCounters, InitStorage, InitCovers,
   InitFresh DEF LifeInit, IInv

THEOREM LifeImplementsStore == LifeSpec => ImplementsStore
<1>1. /\ IInv /\ FreshUniquesPerOpen /\ CallsWithinLife /\ [LifeNext]_lifeVars
      => [Store!Next]_storeVars
  <2> SUFFICES ASSUME IInv, CallsWithinLife, [LifeNext]_lifeVars
               PROVE  [Store!Next]_storeVars
    OBVIOUS
  <2>1. CASE [Next]_vars BY <2>1, NextStore
  <2>2. CASE Exit
    <3>1. Die /\ db # "down" BY <2>2 DEF Exit, RunServer, CallsWithinLife
    <3> QED BY <3>1, DieIsEnd DEF IInv
  <2>3. ASSUME NEW r \in Requests, NullClient(r) PROVE Store!Next
    <3>1. Die /\ db # "down" BY <2>3 DEF NullClient, IInv, Locks, InFlight
    <3> QED BY <3>1, DieIsEnd DEF IInv
  <2>4. CASE ~ Exit /\ \A r \in Requests : ~ NullClient(r)
    <3>1. [Next]_vars
      BY <2>4
         DEF LifeNext, lifeVars, Next, BuildAndStart, InitService, StartHttp,
             HttpFails, Terminate, CloseGrpc, Boot, ArriveCall, RunCall,
             CrashProcess, FlushFolder, StayDown
    <3> QED BY <3>1, <2>1
  <2> QED BY <2>2, <2>3, <2>4
<1>2. LifeInit => CallsWithinLife
  BY DEF LifeInit, Init, CallsWithinLife, Phases, Serves, InFlight, InCreate
<1>3. /\ IInv /\ FreshUniquesPerOpen /\ CallsWithinLife /\ [LifeNext]_lifeVars
      => (IInv /\ FreshUniquesPerOpen /\ CallsWithinLife)'
  BY LifeIInv, NextCallsWithinLife
<1> QED
  BY <1>1, <1>2, <1>3, InitLifeIInv, InitStore, PTL
     DEF LifeSpec, LifeInit, ImplementsStore, Store!Spec, storeVars
=============================================================================
