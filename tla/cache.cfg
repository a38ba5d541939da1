\* Two goroutines, two ticks of TTL, one of timeout.  The clock stops at MaxTime.
CONSTANTS
  Caller = {c1, c2}
  Nobody = Nobody
  TTL = 2
  Timeout = 1
  MaxTime = 3
  MaxVersion = 1
SPECIFICATION FairSpec
INVARIANT NeverOlder
INVARIANT NoRedundantFetch
INVARIANT LockedForOneExchange
INVARIANT BoundedLag
PROPERTY CallsReturn
CHECK_DEADLOCK FALSE
