SPECIFICATION Spec
CONSTANTS
  Null = Null
  ka = ka
  ka2 = ka2
  kb = kb
  kc = kc
  kd = kd
  v1 = v1
  v2 = v2
  Keys <- KeysFive
  Vals <- ValsThree
  Text <- TextsAll
  HashOf <- HashColliding
  StringKeys = TRUE
  KeyFree = TRUE
  ValueFree = TRUE
  InitialSize = 3
  IncreaseFactor = 2
  AllocFails <- AllSites
  PutAfterRemove = FALSE
PROPERTIES
  ResizeKeepsAll
CHECK_DEADLOCK FALSE
