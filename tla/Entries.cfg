SPECIFICATION FairSpec
CONSTANTS
  Fields <- Schema
  Entries <- MCEntries
  Writers = {"compiled", "foreign"}
  Keys = {"a", "b"}
  Unknown = 200
  Budget <- MCBudget
  MaxDepth = 3
INVARIANTS
  TypeOK
  ReaderStaysInside
  DecodesWhatWasWritten
  SlicesAreRight
  OnlyBlanksThrow
PROPERTIES
  DecodeAdvances
  DecodeEnds
