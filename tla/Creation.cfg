SPECIFICATION Spec
CONSTANTS
  None = None
  Requests = {r1, r2, r3}
  Folders = {f1, f2}
  Existing = {f1}
  Timestamps = {1, 2}
  Apis = {"grpc", "http"}
  WalModes = {FALSE}
  Faults = {}
  Garbage = {0}
  MaxCrashes = 0
SYMMETRY RequestSymmetry
INVARIANTS
  LockedCallsSeeOpenDb
  MapHandlesLive
  FreshUniquesPerOpen
  CounterCoversLastKey
PROPERTY
  ReopenLosesNothing
