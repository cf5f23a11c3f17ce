SPECIFICATION Spec
CONSTANTS
  Names <- NamesAll
  None = None
  a = a
  A = A
  b = b
  x = x
  y = y
  Zero = Zero
  Trees <- TreesAll
  Remade <- RemadeAll
  Paths <- PathsAll
  Bases <- BasesAll
  NameLists <- ListsAll
  Lower <- LowerNames
  Inodes <- InodesAll
  Bytes <- BytesAll
  Contents <- ContentsAll
  BufferSize = 2
  MaxMoves = 1
PROPERTIES
  MkdirExact
  RmExact
  CopyContent
  CaseCorrect
  CallReturns
CHECK_DEADLOCK FALSE
