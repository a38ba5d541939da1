SPECIFICATION Spec
CONSTANTS
  Proc = {p1, p2, p3}
  Sub = {1, 2}
  None = None
  Config = Config
INVARIANTS
  OneOpenSocket
  LostOnlyToClose
  PostFindsSocket
  NoOtherDeadlock
PROPERTIES
  DiscoverySticks
CHECK_DEADLOCK FALSE
