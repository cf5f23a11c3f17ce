SPECIFICATION FairSpec
CONSTANTS
  Null = Null
  d1 = d1
  d2 = d2
  d3 = d3
  Nodes = {n1, n2, n3, n4}
  Datas <- AllDatas
  Once <- OnceDatas
INVARIANTS
  TypeOK
  Shape
  NoUseAfterFree
  DataFreedOnce
PROPERTIES
  EveryCallReturns
  ImplementsList
