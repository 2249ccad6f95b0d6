SPECIFICATION FairAnswerSpec
CONSTANTS
  Invalid = Invalid
  Keys <- MCKeys
  Size <- MCSize
  Queries <- MCQueries
  Body <- MCBody
  ToNumber <- MCToNumber
INVARIANTS
  PendingIsAhead
  LimitsHold
  ClientSeesAnswer
  CutIsNoticed
  AnswerInv
PROPERTIES
  ImplementsRange
  DecodeEnds
