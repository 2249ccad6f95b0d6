SPECIFICATION FairLifeSpec
CONSTANTS
  None = None
  Requests = {r1, r2}
  Folders = {f1}
  Existing = {f1}
  Timestamps = {1, 2}
  Apis = {"grpc", "http"}
  WalModes = {TRUE, FALSE}
  Faults = {"put"}
  Garbage = {0}
  MaxCrashes = 1
  MaxOpens = 3
INVARIANTS
  AckedSaveReadable
  AckedWalSaveSurvives
  LifeInv
PROPERTIES
  OnlyEarlyCallsKill
  StopEnds
