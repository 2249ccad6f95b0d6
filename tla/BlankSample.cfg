SPECIFICATION Spec
CONSTANTS
  Blank = Blank
  Keys <- MCKeys
  Requests <- MCRequests
  DefaultStep = 3
  IntSpan = 8
  LongSpan = 16
PROPERTY
  StoredUniqueIsFound
