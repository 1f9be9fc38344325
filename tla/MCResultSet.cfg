SPECIFICATION MCSpec
CONSTANTS
  Stem = {"id"}
  Columns <- MCColumns
  DefaultRows = 2
  Settings <- MCSettings
  Value <- MCValue
  MaxTotal = 4
CHECK_DEADLOCK FALSE
INVARIANTS
  UniqueKeys
  LimitRespected
  TruncatedIff
PROPERTIES
  AnswerComes
