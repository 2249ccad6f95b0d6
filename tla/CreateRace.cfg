SPECIFICATION Spec
CONSTANTS
  None = None
  Requests = {r1, r2}
  Folders = {f1}
  Existing = {}
  Timestamps = {1, 2}
  Apis = {"grpc"}
  WalModes = {TRUE}
  Faults = {}
  Garbage = {0}
  MaxCrashes = 0
INVARIANT
  RefusedCreateIsAnError
