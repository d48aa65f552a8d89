CONSTANTS
  c1 = c1
  c2 = c2
  c3 = c3
  Callers = {c1, c2}
  Threshold = 2
  Window = 2
  Cooldown = 2
  Models = 2
  MaxRetries = 1
  Limit = 1
  Span = 2
SPECIFICATION FairBreakerSpec

  
PROPERTIES
  ToolOpenEnds
  ToolCloses
  CallEnds
