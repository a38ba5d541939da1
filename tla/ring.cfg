\* A ring of three that seven messages wrap twice, one unsubscribing caller and
\* Client.Close.  The subscriber may be closed for good, or its messages used up.
CONSTANTS
  BufSize = 3
  MaxMsg = 7
  Caller = {u1}
  Closer = Closer
SPECIFICATION FairSpec
INVARIANT NoLostWakeup
PROPERTY ImplementsMailbox
PROPERTY NothingRots
PROPERTY LoopExits
CHECK_DEADLOCK FALSE
