SPECIFICATION FairSpec
CONSTANTS
  Prefixed = {tap}
  Explicit = {eth}
  Resync = TRUE
  ChanDepth = 2
  MaxLinks = 3
  MaxBoots = 2
  MaxFaults = 1
INVARIANTS Instrumented RegistryTrue
PROPERTY EventuallyInstrumented
CHECK_DEADLOCK FALSE
