CONSTANTS
  Chars <- CharsAll
  MaxLen = 6
SPECIFICATION Spec
INVARIANT KindAndNameRead ValueRead
CHECK_DEADLOCK FALSE
