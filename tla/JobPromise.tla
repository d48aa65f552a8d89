----------------------------- MODULE JobPromise -----------------------------
(***************************************************************************)
(* What the queue promises of a job (docs/enterprise-agent-design.md,      *)
(* "Job State Machine", and the docstrings of app/queue/store.py), with    *)
(* no store, heap or worker in sight: the phases of a job, and a retry     *)
(* while attempts remain, the dead-letter queue when they do not.          *)
(***************************************************************************)
EXTENDS Integers

CONSTANTS Jobs, MaxAttempts

VARIABLES
  phase,  \* job -> phase of its life
  tries   \* job -> claims since it was created or replayed

vars == <<phase, tries>>

Init ==
  /\ phase = [j \in Jobs |-> "NONE"]
  /\ tries = [j \in Jobs |-> 0]

Step(j, from, to) == phase[j] \in from /\ phase' = [phase EXCEPT ![j] = to]

Create(j) == Step(j, {"NONE"}, "CREATED") /\ UNCHANGED tries

Claim(j) ==
  /\ Step(j, {"CREATED", "QUEUED"}, "RUNNING")
  /\ tries' = [tries EXCEPT ![j] = @ + 1]

Complete(j) == Step(j, {"RUNNING"}, "SUCCEEDED") /\ UNCHANGED tries

Retry(j) == tries[j] < MaxAttempts /\ Step(j, {"RUNNING"}, "QUEUED") /\ UNCHANGED tries

Exhaust(j) == tries[j] >= MaxAttempts /\ Step(j, {"RUNNING"}, "DEAD_LETTER") /\ UNCHANGED tries

\* A dead letter is replayed with its attempts reset.
Replay(j) ==
  /\ Step(j, {"DEAD_LETTER"}, "CREATED")
  /\ tries' = [tries EXCEPT ![j] = 0]

\* The zombie scan returns every job with an expired lease at once.
Reclaim ==
  \E S \in SUBSET {j \in Jobs : phase[j] = "RUNNING"} :
     /\ phase' = [j \in Jobs |-> IF j \in S THEN "QUEUED" ELSE phase[j]]
     /\ UNCHANGED tries

Next ==
  \/ \E j \in Jobs : \/ Create(j) \/ Claim(j) \/ Complete(j)
                     \/ Retry(j) \/ Exhaust(j) \/ Replay(j)
  \/ Reclaim

Spec == Init /\ [][Next]_vars
=============================================================================
