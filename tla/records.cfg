CONSTANTS
  x1 = x1
  x2 = x2
  q1 = q1
  q2 = q2
  v1 = v1
  v2 = v2
  Runs = {x1}
  Requests = {q1, q2}
  Kinds = {"feedback", "seed", "write", "forget", "sweep", "purge"}
  Facts = {"f"}
  Specs = {v1, v2}
  Window = 2
  Absent = Absent
SPECIFICATION RecordsSpec
INVARIANTS RemovedLeavesNothing FeedbackIsRecorded SeedsConverge
PROPERTIES SweptIsOver
CHECK_DEADLOCK FALSE
SYMMETRY RecordSymmetry
