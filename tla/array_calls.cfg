SPECIFICATION Spec
CONSTANTS
  Null = Null
  Wild = Wild
  p1 = p1
  p2 = p2
  p3 = p3
  Items <- ItemsThree
  Rank <- RankTie
  LenMod = 5
  MinSlots = 3
  AllocFails <- AllSites
INVARIANTS
  TypeOK
  InBounds
PROPERTIES
  ImplementsArray
CHECK_DEADLOCK FALSE
