SPECIFICATION Spec
CONSTANTS
  None = None
  Requests = {r1, r2}
  Folders = {f1, f2}
  Existing = {f1}
  Timestamps = {1}
  Apis = {"grpc", "http"}
  WalModes = {TRUE}
  Faults = {"put"}
  Garbage = {0}
  MaxCrashes = 0
INVARIANT
  AnsweredSaveIsStored
