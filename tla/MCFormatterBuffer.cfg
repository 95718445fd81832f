CONSTANTS
  Length = 14
  U8Max = 8
  TokenTypes = {1, 2}
  Predefined <- MCPredefined
  Chars = {3}
  MaxText = 2
  Junk = 5
SPECIFICATION Spec
INVARIANTS TypeOK NoWriteOutside Accounting LengthFitsByte NulTerminated
PROPERTIES ImplementsStream
CHECK_DEADLOCK FALSE
