SPECIFICATION ReadersSpec
CONSTANTS
  None = None
  Requests = {q1}
  Folders = {f1, f2}
  Existing = {f1}
  Timestamps = {1}
  Apis = {"grpc"}
  WalModes = {FALSE}
  Faults = {}
  Garbage = {0}
  MaxCrashes = 0
  Readers = {r1}
  Kinds = {"Get", "GetRange", "GetSubsample"}
  MaxBatches = 2
INVARIANT
  FailedReadIsAnError
