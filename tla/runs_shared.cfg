CONSTANTS
  c1 = c1
  c2 = c2
  d1 = d1
  d2 = d2
  d3 = d3
  i1 = i1
  i2 = i2
  Calls = {c1}
  Risky = {}
  Callers = {d1, d2}
  Instances = {i1, i2}
  Home <- FirstAway
  SharedLock = TRUE
  Ops = {"resume", "cancel", "pause"}
  MaxSteps = 2
  MaxRequests = 2
  MaxCrashes = 1
  MaxCancels = 1
  MaxLapses = 0
SPECIFICATION Spec
INVARIANTS
  OneDriver
  ActiveIsOwned
  RepeatNeedsLoss
 
CHECK_DEADLOCK FALSE
