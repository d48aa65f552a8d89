CONSTANTS
  i1 = i1  i2 = i2  s1 = s1  s2 = s2  s3 = s3  w1 = w1  w2 = w2
  Instances = {i1, i2}
  Searchers = {s1, s2}
  Writers = {w1, w2}
  Home <- MCHome
  MaxChange = 2
  TTL = 1
  Scopes = {"base"}
  None = None
SPECIFICATION FairSpec
INVARIANTS OneSource SingleFlight CurrentUnlessExcused
PROPERTIES EventuallyFresh
