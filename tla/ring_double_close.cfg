CONSTANTS
  BufSize = 2
  MaxMsg = 1
  Caller = {u1, u2}
  Closer = Closer
SPECIFICATION Spec
INVARIANT CloseIsSafe
CHECK_DEADLOCK FALSE
