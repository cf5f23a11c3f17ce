SPECIFICATION Spec
CONSTANTS
  Null = Null
  ka = ka
  ka2 = ka2
  kb = kb
  kc = kc
  kd = kd
  v1 = v1
  v2 = v2
  Keys <- KeysFour
  Vals <- ValsTwo
  Text <- TextsAll
  HashOf <- HashColliding
  StringKeys = TRUE
  KeyFree = FALSE
  ValueFree = FALSE
  InitialSize = 3
  IncreaseFactor = 2
  AllocFails <- NoSite
  PutAfterRemove = TRUE
INVARIANTS
  AbsentIsNull
CHECK_DEADLOCK FALSE
