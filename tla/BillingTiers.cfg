SPECIFICATION Spec
CONSTANTS
  m1 = m1
  m2 = m2
  s1 = s1
  s2 = s2
  t1 = t1
  t2 = t2
  Unknown = Unknown
  None = None
  Macs = {m1}
  Servers = {s1, s2}
  Tenants = {t1, t2}
  TenantOf <- OneEach
  Boot <- AllOnS1
  Mortal = {s1, t1}
  MaxBytes = 2
  MaxPasses = 2
  MaxScrapes = 2
INVARIANTS OwnersExact TotalExact ServersWithinTenant
PROPERTY SeriesMonotone
CHECK_DEADLOCK FALSE
