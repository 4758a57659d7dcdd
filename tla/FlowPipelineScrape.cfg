SPECIFICATION Spec
CONSTANTS
  f1 = f1
  f2 = f2
  m1 = m1
  m2 = m2
  Flows = {f1, f2}
  Macs = {m1, m2}
  VMMAC <- OwnMac
  BootLive = {}
  Departing = {}
  Restorable = {f1}
  PktSizes = {1}
  MaxEntries = 2
  High = 1
  Low = 0
  MaxPerPass = 1
  Cap = 1
  MaxClock = 4
  MaxFails = 1
INVARIANTS BilledOnce
PROPERTY LossIsLate
