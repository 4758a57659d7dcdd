SPECIFICATION LoopFairSpec
CONSTANTS
  MaxWait = 3
  Interval = 5
  Windows = {0, 2, 4}
  MaxVersion = 3
  MaxFailures = 1
INVARIANTS NothingForgotten WaitBounded
PROPERTY EventuallyFresh
