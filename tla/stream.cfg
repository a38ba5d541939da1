\* A channel of three, seven messages, and two goroutines that call stop.
CONSTANTS
  Asked = 3
  MaxMsg = 7
  Stopper = {s1, s2}
SPECIFICATION FairSpec
INVARIANT NewestKept
INVARIANT NoOtherStall
PROPERTY StopFrees
CHECK_DEADLOCK FALSE
