CONSTANTS
  c1 = c1
  c2 = c2
  d1 = d1
  d2 = d2
  d3 = d3
  i1 = i1
  i2 = i2
  Calls = {c1}
  Risky = {c1}
  Callers = {d1, d2}
  Instances = {i1}
  Home <- AllAtHome
  SharedLock = FALSE
  Ops = {"resume", "pause", "approve", "reject"}
  MaxSteps = 2
  MaxRequests = 2
  MaxCrashes = 1
  MaxCancels = 0
  MaxLapses = 0
SPECIFICATION FairSpec
INVARIANT EffectWasApproved
PROPERTY ActiveEnds
CHECK_DEADLOCK FALSE
