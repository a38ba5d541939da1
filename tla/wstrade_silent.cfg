\* One subscription across one reconnect.
CONSTANTS
  Poster = {}
  Sub = {s1}
  Run = Run
  None = None
  MaxGen = 2
  MaxInbox = 1
  MaxWire = 1
SPECIFICATION Spec
INVARIANT StaysSubscribed
CHECK_DEADLOCK FALSE
