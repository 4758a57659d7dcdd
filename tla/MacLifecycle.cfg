SPECIFICATION FairSpec
CONSTANTS
  m1 = m1
  m2 = m2
  t1 = t1
  t2 = t2
  None = None
  Macs = {m1, m2}
  Owners = {t1, t2}
  MaxChanges = 4
  MaxFails = 1
INVARIANTS SupersetUnlessRaced
PROPERTIES GraceRespected PortsEventuallyBound GoneEventuallyForgotten
