CONSTANTS
  j1 = j1
  j2 = j2
  w1 = w1
  w2 = w2
  c1 = c1
  i1 = i1
  i2 = i2
  key = key
  NoKey = NoKey
  Jobs = {j1}
  Workers = {w1, w2}
  Instances = {i1}
  Clerks = {c1}
  Home <- OneInstance
  Priority <- SamePriority
  DedupeKey <- NoKeys
  MaxAttempts = 2
  Capacity = 100
  ClerkOps = {"recover", "expire"}
  MaxClerkCalls = 0
  MaxCrashes = 1
  MaxStoreErrors = 1
  MaxLateBeats = 1
CHECK_DEADLOCK FALSE
SPECIFICATION FairSpec
INVARIANTS RunningIsHeld OutcomeIsEarned
  
