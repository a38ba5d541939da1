\* One call of Post, one subscription, two connections.  The client may be closed
\* and every call returned: then it rightly stops.
CONSTANTS
  Poster = {p1}
  Sub = {s1}
  Run = Run
  None = None
  MaxGen = 2
  MaxInbox = 1
  MaxWire = 1
SPECIFICATION FairSpec
INVARIANT NothingBeforeAuth
INVARIANT NobodyForgotten
INVARIANT QuietAfterClose
PROPERTY ImplementsHandlers
PROPERTY NobodyHangs
CHECK_DEADLOCK FALSE
