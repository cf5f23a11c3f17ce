SPECIFICATION Spec
CONSTANTS
  Lines <- LinesRead
  MaxLines = 5
  Null = Null
  Empty <- EmptyText
  ResizeAt = 1
  FailSets <- Environments
INVARIANTS
  TypeOK
  ParsedExactly
  HonestAnswer
  NeverCrashes
  NothingLeft
CHECK_DEADLOCK FALSE
