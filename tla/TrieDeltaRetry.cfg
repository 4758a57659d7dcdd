SPECIFICATION FairSpec
CONSTANTS
  own1 = own1
  own2 = own2
  shared1 = shared1
  all = all
  d1 = d1
  d2 = d2
  None = None
  Catchall = all
  External = "external"
  Rows = {own1, shared1, all}
  Own = {own1}
  Zones = {"same", "external"}
  Dests = {d1}
  Covers <- OneDest
  MaxChanges = 2
  MaxFails = 1
PROPERTY FailedPassRetried
