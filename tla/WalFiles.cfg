SPECIFICATION Spec
CONSTANTS
  Builds = {1, 2}
  MaxGen = 2
  MaxBoots = 3
  MaxDamage = 1
  MaxClock = 2
INVARIANTS Durable OneGenerationLost NeverOverNewer
PROPERTY ImplementsStore
