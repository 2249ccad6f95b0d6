----------------------------- MODULE Lifecycle -----------------------------
(***************************************************************************)
(* The life of the server process around the saves of DbClient: RunServer  *)
(* (reqstore.cpp) opens the database, lets gRPC take calls, only then      *)
(* gives the service its client, runs the HTTP server until the process is *)
(* asked to stop, and ends without closing the database.                   *)
(*                                                                         *)
(* gRPC's and Poco's servers are external code: a port that cannot be      *)
(* bound, and that a server being stopped waits for its calls, is modelled *)
(* from how reqstore.cpp and HTTPServer.cpp use them.                      *)
(***************************************************************************)
EXTENDS DbClient

CONSTANT MaxOpens  (* bound on how often the database is opened *)

ASSUME LifecycleAssumption == MaxOpens \in Nat

VARIABLES
  phase,   (* where RunServer is: "constructed" the db client, "grpc"       *)
           (* started, client "ready", "serving" HTTP, "draining" after     *)
           (* HTTP stopped listening, "closing" after gRPC did, "down"      *)
  grpc     (* gRPC's server has its port                                    *)

lifeVars == <<vars, phase, grpc>>

Phases ==
  {"constructed", "grpc", "ready", "serving", "draining", "closing", "down"}

LifeInit ==
  /\ Init
  /\ phase = "constructed"
  /\ grpc = FALSE

RunServer(from, to) == phase = from /\ phase' = to

-----------------------------------------------------------------------------
(* RunServer, step by step. *)

(* BuildAndStart returns null when the port is taken, and nobody looks: the *)
(* process goes on with HTTP alone.                                        *)
BuildAndStart ==
  /\ RunServer("constructed", "grpc")
  /\ grpc' \in BOOLEAN
  /\ UNCHANGED vars

InitService ==
  /\ RunServer("grpc", "ready")
  /\ UNCHANGED <<vars, grpc>>

StartHttp ==
  /\ RunServer("ready", "serving")
  /\ UNCHANGED <<vars, grpc>>

(* The constructor of the socket throws, RunServer catches it and is done. *)
HttpFails ==
  /\ RunServer("ready", "closing")
  /\ UNCHANGED <<vars, grpc>>

(* waitForTerminationRequest returns. *)
Terminate ==
  /\ RunServer("serving", "draining")
  /\ UNCHANGED <<vars, grpc>>

Serves(api) == \E r \in Requests : req[r].api = api /\ pc[r] \in InFlight

(* Mutant: stop() does not wait for the handlers. *)
CloseGrpcAtOnce ==
  /\ RunServer("draining", "closing")
  /\ UNCHANGED <<vars, grpc>>

(* stopAll has waited for the HTTP handlers; with `server` out of scope     *)
(* gRPC takes no more calls.                                               *)
CloseGrpc ==
  /\ RunServer("draining", "closing")
  /\ ~ Serves("http")
  /\ UNCHANGED <<vars, grpc>>

(* Mutant: server->Wait() first, which returns when another thread has shut *)
(* the gRPC server down.                                                    *)
ExitAfterWait ==
  /\ RunServer("closing", "down")
  /\ ~ grpc
  /\ Die
  /\ UNCHANGED <<crashes, grpc>>

(* The destructor of `server` has waited for the gRPC handlers, and main    *)
(* returns.  ~DbClient does not delete db, so nothing is written out.      *)
Exit ==
  /\ RunServer("closing", "down")
  /\ ~ Serves("grpc")
  /\ Die
  /\ UNCHANGED <<crashes, grpc>>

Boot ==
  /\ RunServer("down", "constructed")
  /\ gen < MaxOpens
  /\ Restart
  /\ grpc' = FALSE

-----------------------------------------------------------------------------
(* The calls. *)

(* Mutant: the client is given to the service after HTTP has started. *)
ClientSetLate == phase \in {"serving", "draining", "closing"}

ClientSet == phase \in {"ready", "serving", "draining", "closing"}

TakesCalls(api) ==
  IF api = "grpc" THEN grpc /\ phase \in {"grpc", "ready", "serving", "draining"}
                  ELSE phase = "serving"

ArriveCall(r) ==
  /\ TakesCalls(req[r].api)
  /\ Arrive(r)
  /\ UNCHANGED <<phase, grpc>>

(* The first step of a call uses the client.  Without one it is SIGSEGV,    *)
(* which the handler in reqstore.cpp makes exit(1).                        *)
NullClient(r) ==
  /\ pc[r] = "find"
  /\ ~ ClientSet
  /\ Die
  /\ phase' = "down"
  /\ UNCHANGED <<crashes, grpc>>

RunCall(r) ==
  /\ ClientSet
  /\ Step(r)
  /\ phase' = IF db' = "down" THEN "down" ELSE phase
  /\ UNCHANGED grpc

CrashProcess ==
  /\ Crash
  /\ phase' = "down"
  /\ UNCHANGED grpc

FlushFolder(f) ==
  /\ Flush(f)
  /\ UNCHANGED <<phase, grpc>>

(* A server that is down may stay down. *)
StayDown == phase = "down" /\ UNCHANGED lifeVars

LifeNext ==
  \/ BuildAndStart \/ InitService \/ StartHttp \/ HttpFails
  \/ Terminate \/ CloseGrpc \/ Exit \/ Boot
  \/ \E r \in Requests : ArriveCall(r) \/ NullClient(r) \/ RunCall(r)
  \/ CrashProcess
  \/ \E f \in Folders : FlushFolder(f)
  \/ StayDown

LifeSpec == LifeInit /\ [][LifeNext]_lifeVars

(* The main thread and the threads of the calls are scheduled; the signal,  *)
(* calls, crashes and whoever starts the server come when they please.     *)
FairLifeSpec ==
  /\ LifeSpec
  /\ WF_lifeVars(BuildAndStart \/ InitService \/ StartHttp \/ CloseGrpc \/ Exit)
  /\ \A r \in Requests : WF_lifeVars(NullClient(r) \/ RunCall(r))

-----------------------------------------------------------------------------
(* Where no folder is created, a process that has its client is ended by    *)
(* none of its calls: only the calls gRPC takes before Init can do that     *)
(* (reqstore.cpp:102-103).                                                 *)
OnlyEarlyCallsKill ==
  [][phase \notin {"grpc", "closing"} /\ crashes' = crashes
       => ~ (db # "down" /\ db' = "down")]_lifeVars

(* Whoever takes calls has a database, and whoever has one runs; calls are  *)
(* only in flight while gRPC or HTTP is up, and none is when main returns   *)
(* (reqstore.cpp:88-106, HTTPServer.cpp:46-52).                            *)
CallsWithinLife ==
  /\ phase \in Phases
  /\ phase = "down" <=> db = "down"
  /\ Serves("http") => phase \in {"serving", "draining"}
  /\ Serves("grpc") => phase \notin {"constructed", "down"}

(* A server that is asked to stop comes to its end, whatever the calls in   *)
(* flight are doing: it waits for them, and they end (HTTPServer.cpp:52).  *)
StopEnds == phase = "draining" ~> phase = "down"

-----------------------------------------------------------------------------
(* Where no folder is created, the cache, the handles and the counters of   *)
(* all calls in flight are those of the database that is open, and nobody   *)
(* creates a folder.                                                       *)
Stable ==
  /\ families = Folders
  /\ db \in {"open", "down"}
  /\ counterGen = gen
  /\ \A f \in Folders : columnFamalies[f] = gen
  /\ \A r \in Requests :
       /\ pc[r] \notin InCreate \cup {"lock", "refind"}
       /\ pc[r] \in {"load", "add"} => stage[r] = "id"
       /\ pc[r] = "add" => counter[r] = gen
       /\ pc[r] \in {"put", "write"} => cf[r] = gen /\ origin[r] = gen
       /\ pc[r] \in InFlight =>
            IF req[r].api = "grpc" THEN stage[r] = "id" => cf[r] = gen
                                   ELSE stage[r] = "handle" => origin[r] = gen

(* An answer is the last thing a call does. *)
Answered == \A r \in Requests : reply[r] # "none" => pc[r] = "done"

(* With what DbClient shows, this makes the answers of Lifecycle inductive. *)
LifeInv ==
  /\ IInv
  /\ FreshUniquesPerOpen
  /\ CallsWithinLife
  /\ Stable
  /\ Answered
  /\ AckedSaveReadable
  /\ AckedWalSaveSurvives

=============================================================================
