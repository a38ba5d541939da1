\* One Subscribe call, one key, two connections, under fairness.
CONSTANTS
  Sub = {s1}
  Key = {k1}
  Run = Run
  None = None
  MaxGen = 2
SPECIFICATION FairSpec
PROPERTY SubscribeReturns
PROPERTY ReplayedAfterLoss
PROPERTY CloseReturnsOnceQuiet
CHECK_DEADLOCK FALSE
