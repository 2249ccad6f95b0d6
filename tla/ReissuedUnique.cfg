SPECIFICATION Spec
CONSTANTS
  None = None
  Requests = {r1, r2, r3}
  Folders = {f1, f2}
  Existing = {f1}
  Timestamps = {1, 2}
  Apis = {"grpc"}
  WalModes = {TRUE}
  Faults = {}
  Garbage = {0}
  MaxCrashes = 1
SYMMETRY RequestSymmetry
INVARIANT
  UniqueIdentifiesMessage
