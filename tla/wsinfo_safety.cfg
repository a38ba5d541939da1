\* Two Subscribe calls, one key, two connections.  The client may be closed and
\* every call returned: then it rightly stops.
CONSTANTS
  Sub = {s1, s2}
  Key = {k1}
  Run = Run
  None = None
  MaxGen = 2
SPECIFICATION Spec
SYMMETRY Symmetry
INVARIANT OneSenderPerKey
INVARIANT PendingExact
INVARIANT NoForgottenKey
INVARIANT QuietAfterClose
CHECK_DEADLOCK FALSE
