----------------------------- MODULE MCJobQueue -----------------------------
(* Instances of JobQueue small enough for TLC. *)
EXTENDS JobQueue, TLC

CONSTANTS j1, j2, w1, w2, c1, i1, i2, key

OneInstance == [x \in Jobs \cup Workers \cup Clerks |-> i1]
\* j1, w1 and the clerk on one instance, j2 and w2 on the other
TwoInstances == [x \in Jobs \cup Workers \cup Clerks |-> IF x \in {j2, w2} THEN i2 ELSE i1]

SamePriority == [j \in Jobs |-> 2]
\* priorities that the watermark tells apart
TwoPriorities == [j \in Jobs |-> IF j = j1 THEN 0 ELSE 2]
NoKeys == [j \in Jobs |-> NoKey]
SameKey == [j \in Jobs |-> key]

\* Workers of one instance, and requests alike in priority and key, are
\* interchangeable (used by the safety runs with OneInstance only).
Interchangeable == Permutations(Workers) \cup Permutations(Jobs)
=============================================================================
