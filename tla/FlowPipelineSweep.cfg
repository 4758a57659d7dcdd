SPECIFICATION FairSpec
CONSTANTS
  f1 = f1
  f2 = f2
  m1 = m1
  m2 = m2
  Flows = {f1}
  Macs = {m1}
  VMMAC <- OwnMac
  BootLive = {m1}
  Departing = {m1}
  Restorable = {f1}
  PktSizes = {1}
  MaxEntries = 1
  High = 0
  Low = 0
  MaxPerPass = 1
  Cap = 1
  MaxClock = 3
  MaxFails = 1
INVARIANT Conserved
PROPERTY BufferedEventuallyCounted
