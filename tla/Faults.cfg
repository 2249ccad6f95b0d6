SPECIFICATION FairSpec
CONSTANTS
  None = None
  Requests = {r1, r2}
  Folders = {f1, f2}
  Existing = {f1}
  Timestamps = {1, 2}
  Apis = {"grpc", "http"}
  WalModes = {TRUE, FALSE}
  Faults = {"create", "list", "open", "put"}
  Garbage = {0, 1}
  MaxCrashes = 1
INVARIANTS
  TypeOK
  IInv
  LoggedMessagesSurvive
PROPERTIES
  ImplementsStore
  EveryCallEnds
