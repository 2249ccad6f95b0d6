SPECIFICATION FairReadersSpec
CONSTANTS
  None = None
  Requests = {q1, q2}
  Folders = {f1, f2}
  Existing = {f1}
  Timestamps = {1}
  Apis = {"grpc"}
  WalModes = {FALSE}
  Faults = {"list", "open"}
  Garbage = {0}
  MaxCrashes = 1
  Readers = {r1}
  Kinds = {"Get", "GetRangeHandler", "GetSubsample", "StatusHandler"}
  MaxBatches = 2
INVARIANTS
  LockedReadsSeeOpenDb
  ReadsMissNothing
  ReadersInv
PROPERTIES
  EveryCallEnds
  EveryReadEnds
