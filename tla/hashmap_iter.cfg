SPECIFICATION SpecI
CONSTANTS
  Null = Null
  NoIter = NoIter
  Freed = Freed
  ka = ka
  ka2 = ka2
  kc = kc
  kd = kd
  v1 = v1
  Keys <- KeysFour
  Vals <- ValsOne
  Text <- TextsAll
  HashOf <- HashColliding
  StringKeys = TRUE
  KeyFree = FALSE
  ValueFree = FALSE
  InitialSize = 3
  IncreaseFactor = 2
  AllocFails <- NoSite
  PutAfterRemove = TRUE
INVARIANTS
  ItemInTable
  ShowsKept
  ReplacingKeepsRows
CHECK_DEADLOCK FALSE
