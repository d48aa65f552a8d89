------------------------------ MODULE JobQueue ------------------------------
(***************************************************************************)
(* The asynchronous job queue: JobStore (app/queue/store.py) over the      *)
(* shared `jobs` table and JobQueue (app/queue/queue.py), the per-process  *)
(* heap and worker loops in front of it.                                   *)
(*                                                                         *)
(* Every store method opens a session, reads a row (await), changes it in  *)
(* memory and commits (await): other coroutines and other instances run    *)
(* between the read and the commit, and the commit writes only the columns *)
(* that differ from what was read.  A method whose write depends on what   *)
(* it read is therefore two actions here, and snap is what it read.        *)
(*                                                                         *)
(* Abstractions: one job type (the one main.py registers); a heap is the   *)
(* bag of its job ids, so jobs of one priority are popped in any order;    *)
(* lease_until is whether a lease was given and whether it is in the past. *)
(***************************************************************************)
EXTENDS Integers, FiniteSets, Functions

CONSTANTS
  Jobs,           \* enqueue requests; the job a request creates has its name
  Instances,      \* processes, each with a heap of its own
  Workers,        \* worker coroutines
  Clerks,         \* API calls on the queue that may be in flight at once
  Home,           \* instance of every job request, worker and clerk
  Priority,       \* [Jobs -> Nat], 0 is the most urgent
  DedupeKey,      \* [Jobs -> key or NoKey]
  NoKey,
  MaxAttempts,    \* JobRow.max_attempts
  Capacity,       \* JobQueue.capacity
  ClerkOps,       \* the API calls made: subset of AllClerkOps
  MaxClerkCalls,  \* bound: API calls in a behaviour
  MaxCrashes,     \* bound: process crashes
  MaxStoreErrors, \* bound: database errors met by workers
  MaxLateBeats    \* bound: leases that run out under a live worker

NoJob == "NO_JOB"
AllClerkOps == {"cancel", "expire", "requeue", "recover"}

ASSUME JobQueueAssumption ==
  /\ NoJob \notin Jobs
  /\ Home \in [Jobs \cup Workers \cup Clerks -> Instances]
  /\ Priority \in [Jobs -> Nat]
  /\ MaxAttempts \in Nat /\ Capacity \in Nat \ {0}
  /\ ClerkOps \subseteq AllClerkOps
  /\ {MaxClerkCalls, MaxCrashes, MaxStoreErrors, MaxLateBeats} \subseteq Nat

VARIABLES
  rows,     \* the jobs table: job -> [state, attempts, lease]
  request,  \* progress of every enqueue call
  heap,     \* instance -> bag of job ids
  pc, job,  \* worker -> where it is, and the job it handles
  cand,     \* worker -> rows its claim_queued SELECT still has to try
  snap,     \* worker -> the [state, attempts] its open session read
  clerk,    \* clerk -> [pc, op, targets] of the API call it makes
  orphaned, \* history: jobs whose last worker was lost while it held them
  executed, \* history: jobs whose handler returned
  faulted,  \* history: jobs with a handler or success write that raised
  left      \* what remains of the bounds

vars == <<rows, request, heap, pc, job, cand, snap, clerk, orphaned,
          executed, faulted, left>>
history == <<orphaned, executed, faulted>>

States == {"NONE", "CREATED", "QUEUED", "RUNNING", "SUCCEEDED", "DEAD_LETTER",
           "CANCELLED", "EXPIRED"}
Waiting == {"CREATED", "QUEUED"}
Active == Waiting \cup {"RUNNING"}
Settled == {"SUCCEEDED", "DEAD_LETTER", "CANCELLED", "EXPIRED"}

Row == [state: States, attempts: Nat, lease: {"none", "live", "lapsed"}]
NoRow == [state |-> "NONE", attempts |-> 0, lease |-> "none"]
Snapshot == [state: States, attempts: Nat]
NoSnap == [state |-> "NONE", attempts |-> 0]
SnapOf(j) == [state |-> rows[j].state, attempts |-> rows[j].attempts]

\* popped, scan: before a claim is read; claiming: read, not committed;
\* returned, raised: the handler is over and its outcome is not read or saved;
\* failing: fail() has read the row; repush: fail() answered QUEUED.
WorkerPcs == {"idle", "popped", "scan", "claiming", "running", "returned",
              "raised", "failing", "repush", "dead"}
Call == [pc: {"idle", "commit", "heap"}, op: AllClerkOps, targets: SUBSET Jobs]
NoCall == [pc |-> "idle", op |-> "cancel", targets |-> {}]
Bounds == {"calls", "crashes", "errors", "late"}

Init ==
  /\ rows = [j \in Jobs |-> NoRow]
  /\ request = [j \in Jobs |-> "idle"]
  /\ heap = [i \in Instances |-> [j \in Jobs |-> 0]]
  /\ pc = [w \in Workers |-> "idle"]
  /\ job = [w \in Workers |-> NoJob]
  /\ cand = [w \in Workers |-> {}]
  /\ snap = [w \in Workers |-> NoSnap]
  /\ clerk = [c \in Clerks |-> NoCall]
  /\ orphaned = {} /\ executed = {} /\ faulted = {}
  /\ left = [b \in Bounds |-> CASE b = "calls" -> MaxClerkCalls
                                [] b = "crashes" -> MaxCrashes
                                [] b = "errors" -> MaxStoreErrors
                                [] b = "late" -> MaxLateBeats]

SetState(S, s) ==
  rows' = [j \in Jobs |-> IF j \in S THEN [rows[j] EXCEPT !.state = s] ELSE rows[j]]
SetLease(j, l) == rows' = [rows EXCEPT ![j] = [@ EXCEPT !.lease = l]]
Spend(b) == left[b] > 0 /\ left' = [left EXCEPT ![b] = @ - 1]
Push(i, j) == [heap EXCEPT ![i][j] = @ + 1]
Drop(i, S) == [heap EXCEPT ![i] = [j \in Jobs |-> IF j \in S THEN 0 ELSE @[j]]]
InHeap(i) == {j \in Jobs : heap[i][j] > 0}
MostUrgent(S) == {j \in S : \A k \in S : Priority[j] <= Priority[k]}

(***************************************************************************)
(* enqueue: admission on the watermark of the local heap, the single       *)
(* flight lookup, the insert and, after its commit, the push.              *)
(***************************************************************************)
Pending(i) == FoldFunction(+, 0, heap[i])

Admitted(i, p) ==
  LET load == 100 * Pending(i)
  IN  \/ load < 70 * Capacity
      \/ load < 85 * Capacity /\ p <= 1
      \/ load < 95 * Capacity /\ p = 0

ActiveTwin(j) ==
  /\ DedupeKey[j] # NoKey
  /\ \E k \in Jobs : rows[k].state \in Active /\ DedupeKey[k] = DedupeKey[j]

Submit(j) ==
  /\ request[j] = "idle"
  /\ request' = [request EXCEPT ![j] =
       IF ~Admitted(Home[j], Priority[j]) THEN "rejected"
       ELSE IF ActiveTwin(j) THEN "merged" ELSE "creating"]
  /\ UNCHANGED <<rows, heap, pc, job, cand, snap, clerk, history, left>>

CreateRow(j) ==
  /\ request[j] = "creating"
  /\ request' = [request EXCEPT ![j] = "pushing"]
  /\ SetState({j}, "CREATED")
  /\ UNCHANGED <<heap, pc, job, cand, snap, clerk, history, left>>

PushNew(j) ==
  /\ request[j] = "pushing"
  /\ request' = [request EXCEPT ![j] = "done"]
  /\ heap' = Push(Home[j], j)
  /\ UNCHANGED <<rows, pc, job, cand, snap, clerk, history, left>>

(***************************************************************************)
(* A worker: pop the local heap until a claim succeeds, and when the heap  *)
(* is empty list the shared table and claim from the list.                 *)
(***************************************************************************)
Move(w, to, j) == pc' = [pc EXCEPT ![w] = to] /\ job' = [job EXCEPT ![w] = j]

Pop(w) ==
  /\ pc[w] = "idle"
  /\ \E j \in MostUrgent(InHeap(Home[w])) :
       /\ heap' = [heap EXCEPT ![Home[w]][j] = @ - 1]
       /\ Move(w, "popped", j)
  /\ UNCHANGED <<rows, request, cand, snap, clerk, history, left>>

\* Fault: a worker that looks for work in its own heap only.
ClaimableHere(i) == {j \in InHeap(i) : rows[j].state \in Waiting}
\* claim_queued lists the waiting rows of every instance.
Claimable(i) == {j \in Jobs : rows[j].state \in Waiting}

Scan(w) ==
  /\ pc[w] = "idle" /\ InHeap(Home[w]) = {}
  /\ cand' = [cand EXCEPT ![w] = Claimable(Home[w])]
  /\ cand'[w] # {}
  /\ Move(w, "scan", NoJob)
  /\ UNCHANGED <<rows, request, heap, snap, clerk, history, left>>

\* claim() up to its commit: a row that is no longer waiting is refused.
ReadForClaim(w, j, refused) ==
  IF rows[j].state \in Waiting
  THEN Move(w, "claiming", j) /\ snap' = [snap EXCEPT ![w] = SnapOf(j)]
  ELSE Move(w, refused, NoJob) /\ UNCHANGED snap

ClaimPopped(w) ==
  /\ pc[w] = "popped"
  /\ ReadForClaim(w, job[w], "idle")
  /\ UNCHANGED <<rows, request, heap, cand, clerk, history, left>>

ClaimScanned(w) ==
  /\ pc[w] = "scan"
  /\ \E j \in MostUrgent(cand[w]) :
       /\ ReadForClaim(w, j, IF cand[w] = {j} THEN "idle" ELSE "scan")
       /\ cand' = [cand EXCEPT ![w] = IF rows[j].state \in Waiting THEN {} ELSE @ \ {j}]
  /\ UNCHANGED <<rows, request, heap, clerk, history, left>>

\* Fault: a claim that gives no lease.
UnleasedRow(r, read) == [r EXCEPT !.state = "RUNNING", !.attempts = read.attempts + 1]
ClaimedRow(r, read) ==
  [state |-> "RUNNING", attempts |-> read.attempts + 1, lease |-> "live"]

ClaimCommit(w) ==
  /\ pc[w] = "claiming"
  /\ rows' = [rows EXCEPT ![job[w]] = ClaimedRow(rows[job[w]], snap[w])]
  /\ Move(w, "running", job[w])
  /\ snap' = [snap EXCEPT ![w] = NoSnap]
  /\ orphaned' = orphaned \ {job[w]}
  /\ UNCHANGED <<request, heap, cand, clerk, executed, faulted, left>>

(***************************************************************************)
(* _process_job: the handler, then succeed(), or fail() and the push of a  *)
(* job to retry.  succeed() writes the same whatever it read, so one       *)
(* action is enough; fail() decides on the row it read.                    *)
(***************************************************************************)
HandlerReturns(w) ==
  /\ pc[w] = "running"
  /\ Move(w, "returned", job[w])
  /\ executed' = executed \cup {job[w]}
  /\ UNCHANGED <<rows, request, heap, cand, snap, clerk, orphaned, faulted, left>>

\* Fault: the exception of a handler is swallowed.
HandlerSwallows(w) ==
  /\ pc[w] = "running"
  /\ Move(w, "returned", job[w])
  /\ UNCHANGED <<rows, request, heap, cand, snap, clerk, history, left>>

HandlerRaises(w) ==
  /\ pc[w] = "running"
  /\ Move(w, "raised", job[w])
  /\ faulted' = faulted \cup {job[w]}
  /\ UNCHANGED <<rows, request, heap, cand, snap, clerk, orphaned, executed, left>>

Succeed(w) ==
  /\ pc[w] = "returned"
  /\ SetState({job[w]}, "SUCCEEDED")
  /\ Move(w, "idle", NoJob)
  /\ UNCHANGED <<request, heap, cand, snap, clerk, history, left>>

\* The success write is inside the try: a database error there is a failure.
SucceedRaises(w) ==
  /\ pc[w] = "returned"
  /\ Spend("errors")
  /\ Move(w, "raised", job[w])
  /\ faulted' = faulted \cup {job[w]}
  /\ UNCHANGED <<rows, request, heap, cand, snap, clerk, orphaned, executed>>

FailRead(w) ==
  /\ pc[w] = "raised"
  /\ Move(w, "failing", job[w])
  /\ snap' = [snap EXCEPT ![w] = SnapOf(job[w])]
  /\ UNCHANGED <<rows, request, heap, cand, clerk, history, left>>

\* Fault: exhausted jobs get the state of the docstring instead of the DLQ's.
AfterFailureFailed(read) == IF read.attempts >= MaxAttempts THEN "FAILED" ELSE "QUEUED"

AfterFailure(read) == IF read.attempts >= MaxAttempts THEN "DEAD_LETTER" ELSE "QUEUED"

\* Fault: fail() writes dead letters only and leaves a retry as it is.
RewritesDeadOnly(read) == AfterFailure(read) = "DEAD_LETTER" /\ read.state # "DEAD_LETTER"
\* The commit writes the state only if it differs from the one read.
Rewrites(read) == AfterFailure(read) # read.state

FailCommit(w) ==
  /\ pc[w] = "failing"
  /\ LET new == AfterFailure(snap[w])
     IN  /\ IF Rewrites(snap[w]) THEN SetState({job[w]}, new) ELSE UNCHANGED rows
         /\ IF new = "QUEUED" THEN Move(w, "repush", job[w]) ELSE Move(w, "idle", NoJob)
  /\ snap' = [snap EXCEPT ![w] = NoSnap]
  /\ UNCHANGED <<request, heap, cand, clerk, history, left>>

Repush(w) ==
  /\ pc[w] = "repush"
  /\ heap' = Push(Home[w], job[w])
  /\ Move(w, "idle", NoJob)
  /\ UNCHANGED <<rows, request, cand, snap, clerk, history, left>>

(***************************************************************************)
(* Leases.  The heartbeat task renews the lease of a RUNNING row, whoever  *)
(* owns it.  A lease runs out when nobody renews it, and under a live      *)
(* worker when its event loop or its database stalls.                      *)
(***************************************************************************)
Handling == {"running", "returned", "raised", "failing", "repush"}

Heartbeat(w) ==
  /\ pc[w] \in Handling
  /\ rows[job[w]].state = "RUNNING" /\ rows[job[w]].lease = "lapsed"
  /\ SetLease(job[w], "live")
  /\ UNCHANGED <<request, heap, pc, job, cand, snap, clerk, history, left>>

LeaseRunsOut(j) ==
  /\ rows[j].state = "RUNNING" /\ rows[j].lease = "live"
  /\ IF \E w \in Workers : pc[w] \in Handling /\ job[w] = j
     THEN Spend("late") ELSE UNCHANGED left
  /\ SetLease(j, "lapsed")
  /\ UNCHANGED <<request, heap, pc, job, cand, snap, clerk, history>>

(***************************************************************************)
(* API calls: cancel, expire_old, requeue and recover_zombies.  Each reads *)
(* the rows it will change, commits the change to all of them, and then    *)
(* brings the heap of its own instance in line.                            *)
(***************************************************************************)
\* Fault: the zombie scan compares the lease the wrong way round.
LeaseGood(r) == r.state = "RUNNING" /\ r.lease = "live"
LeaseOver(r) == r.state = "RUNNING" /\ r.lease = "lapsed"

Eligible(op) ==
  {j \in Jobs :
     CASE op = "cancel" -> rows[j].state \in Waiting \cup {"CANCELLED"}
       [] op = "expire" -> rows[j].state \in Waiting
       [] op = "requeue" -> rows[j].state = "DEAD_LETTER"
       [] op = "recover" -> LeaseOver(rows[j])}

\* cancel and requeue name a job (any other job is refused without effect; a
\* CANCELLED one is only taken off the heap again), expire takes the rows older
\* than a cutoff, recover every expired lease.
Selections(op) ==
  CASE op \in {"cancel", "requeue"} -> {{j} : j \in Eligible(op)}
    [] op = "expire" -> (SUBSET Eligible(op)) \ {{}}
    [] op = "recover" -> {Eligible(op)} \ {{}}

Written(op) == CASE op = "cancel" -> "CANCELLED" [] op = "expire" -> "EXPIRED"
                 [] op = "requeue" -> "CREATED" [] op = "recover" -> "QUEUED"

ClerkRead(c, op) ==
  /\ clerk[c].pc = "idle"
  /\ \E S \in Selections(op) :
       /\ clerk' = [clerk EXCEPT ![c] =
            [pc |-> IF op = "cancel" /\ \A j \in S : rows[j].state = "CANCELLED"
                    THEN "heap" ELSE "commit",
             op |-> op, targets |-> S]]
       /\ IF op = "recover" THEN UNCHANGED left ELSE Spend("calls")
  /\ UNCHANGED <<rows, request, heap, pc, job, cand, snap, history>>

\* Fault: a replayed dead letter keeps its attempts.
Retouched(op, r) == [r EXCEPT !.state = Written(op)]
Rewritten(op, r) ==
  IF op = "requeue" THEN [state |-> "CREATED", attempts |-> 0, lease |-> "none"]
  ELSE [r EXCEPT !.state = Written(op)]

ClerkCommit(c) ==
  /\ clerk[c].pc = "commit"
  /\ rows' = [j \in Jobs |-> IF j \in clerk[c].targets
                              THEN Rewritten(clerk[c].op, rows[j]) ELSE rows[j]]
  /\ clerk' = [clerk EXCEPT ![c] = [@ EXCEPT !.pc = "heap"]]
  /\ UNCHANGED <<request, heap, pc, job, cand, snap, history, left>>

ClerkHeap(c) ==
  /\ clerk[c].pc = "heap"
  /\ LET op == clerk[c].op
         pushed == IF op = "requeue" THEN clerk[c].targets
                   ELSE {j \in clerk[c].targets : rows[j].state = "QUEUED"}
     IN  heap' = IF op \in {"cancel", "expire"} THEN Drop(Home[c], clerk[c].targets)
                 ELSE [heap EXCEPT ![Home[c]] =
                         [j \in Jobs |-> IF j \in pushed THEN @[j] + 1 ELSE @[j]]]
  /\ clerk' = [clerk EXCEPT ![c] = NoCall]
  /\ UNCHANGED <<rows, request, pc, job, cand, snap, history, left>>

(***************************************************************************)
(* Faults.  A database error outside the try of _process_job ends the      *)
(* worker task for good; a crash (or a stop: stop() cancels the handlers   *)
(* and leaves their rows RUNNING) loses the process's memory and restarts  *)
(* it with empty heaps and idle workers.                                   *)
(***************************************************************************)
\* w answers for its job: until it lets go it will move the row out of RUNNING.
Holds(w) ==
  \/ pc[w] \in {"running", "returned", "raised"}
  \/ pc[w] = "failing" /\ Rewrites(snap[w])

HeldBy(W) == {job[w] : w \in {v \in W : Holds(v)}}

WorkerDies(w) ==
  /\ pc[w] \in {"popped", "scan", "claiming", "raised", "failing"}
  /\ Spend("errors")
  /\ Move(w, "dead", NoJob)
  /\ cand' = [cand EXCEPT ![w] = {}]
  /\ snap' = [snap EXCEPT ![w] = NoSnap]
  /\ orphaned' = orphaned \cup HeldBy({w})
  /\ UNCHANGED <<rows, request, heap, clerk, executed, faulted>>

At(i, S) == {x \in S : Home[x] = i}

Crash(i) ==
  /\ Spend("crashes")
  /\ heap' = [heap EXCEPT ![i] = [j \in Jobs |-> 0]]
  /\ request' = [j \in Jobs |->
       IF j \in At(i, Jobs) /\ request[j] \in {"creating", "pushing"} THEN "lost" ELSE request[j]]
  /\ pc' = [w \in Workers |-> IF w \in At(i, Workers) THEN "idle" ELSE pc[w]]
  /\ job' = [w \in Workers |-> IF w \in At(i, Workers) THEN NoJob ELSE job[w]]
  /\ cand' = [w \in Workers |-> IF w \in At(i, Workers) THEN {} ELSE cand[w]]
  /\ snap' = [w \in Workers |-> IF w \in At(i, Workers) THEN NoSnap ELSE snap[w]]
  /\ clerk' = [c \in Clerks |-> IF c \in At(i, Clerks) THEN NoCall ELSE clerk[c]]
  /\ orphaned' = orphaned \cup HeldBy(At(i, Workers))
  /\ UNCHANGED <<rows, executed, faulted>>

(***************************************************************************)
(* The specification.  Crashes, database errors, stalls and API calls may  *)
(* happen; a started coroutine goes on, a handler ends (execute_run is     *)
(* bounded by its budget), and time passes.                                *)
(***************************************************************************)
ClaimStep(w) == Pop(w) \/ Scan(w) \/ ClaimPopped(w) \/ ClaimScanned(w) \/ ClaimCommit(w)
HandlerStep(w) == HandlerReturns(w) \/ HandlerRaises(w)
OutcomeStep(w) == Succeed(w) \/ FailRead(w) \/ FailCommit(w) \/ Repush(w)
FaultStep(w) == SucceedRaises(w) \/ WorkerDies(w)
CallerStep(j) == Submit(j) \/ CreateRow(j) \/ PushNew(j)

Next ==
  \/ \E j \in Jobs : CallerStep(j) \/ LeaseRunsOut(j)
  \/ \E w \in Workers : ClaimStep(w) \/ HandlerStep(w) \/ OutcomeStep(w)
                          \/ Heartbeat(w) \/ FaultStep(w)
  \/ \E c \in Clerks : (\E op \in ClerkOps : ClerkRead(c, op)) \/ ClerkCommit(c) \/ ClerkHeap(c)
  \/ \E i \in Instances : Crash(i)

Spec == Init /\ [][Next]_vars

Fairness ==
  /\ \A j \in Jobs : WF_vars(CreateRow(j) \/ PushNew(j)) /\ WF_vars(LeaseRunsOut(j))
  /\ \A w \in Workers : /\ WF_vars(ClaimStep(w) \/ OutcomeStep(w))
                        /\ WF_vars(HandlerStep(w))
                        /\ WF_vars(Heartbeat(w))
  /\ \A c \in Clerks : /\ WF_vars(ClerkCommit(c) \/ ClerkHeap(c))
                       /\ WF_vars("recover" \in ClerkOps /\ ClerkRead(c, "recover"))

FairSpec == Spec /\ Fairness

-----------------------------------------------------------------------------
\* The types of the variables: rows of the jobs table, coroutine positions.
TypeOK ==
  /\ rows \in [Jobs -> Row]
  /\ request \in [Jobs -> {"idle", "creating", "pushing", "done", "merged", "rejected", "lost"}]
  /\ heap \in [Instances -> [Jobs -> Nat]]
  /\ pc \in [Workers -> WorkerPcs]
  /\ job \in [Workers -> Jobs \cup {NoJob}]
  /\ \A w \in Workers : job[w] = NoJob <=> pc[w] \in {"idle", "scan", "dead"}
  /\ cand \in [Workers -> SUBSET Jobs]
  /\ snap \in [Workers -> Snapshot]
  /\ clerk \in [Clerks -> Call]
  /\ {orphaned, executed, faulted} \subseteq SUBSET Jobs
  /\ left \in [Bounds -> Nat]

\* A RUNNING row is never in limbo: some live worker still holds it and will
\* move it on, or its worker was lost and the zombie scan has to (queue.py
\* 111-133, store.py 96-135).  Holds under every race of claims and outcomes.
RunningIsHeld ==
  \A j \in Jobs : rows[j].state = "RUNNING" =>
     j \in orphaned \/ \E w \in Workers : job[w] = j /\ Holds(w)

\* A RUNNING row always carries a lease, so the zombie scan, which skips rows
\* without one (store.py 104-105), can reclaim every one of them; and its
\* attempts count the claim that started it.
RunningHasLease ==
  \A j \in Jobs : rows[j].state = "RUNNING" => rows[j].lease # "none" /\ rows[j].attempts > 0

\* No outcome is reported for work that did not happen: a SUCCEEDED job had a
\* handler return, a DEAD_LETTER job had one fail, whatever raced on the row.
OutcomeIsEarned ==
  \A j \in Jobs : /\ rows[j].state = "SUCCEEDED" => j \in executed
                  /\ rows[j].state = "DEAD_LETTER" => j \in faulted

\* What the queue promises of claims (store.py 60, 75: CAS and lease keep two
\* workers from running one job): no two workers handle the same job.
NoDoubleRun ==
  \A v, w \in Workers : pc[v] = "running" /\ pc[w] = "running" /\ job[v] = job[w] => v = w

\* Single flight (store.py 47, queue.py 79): concurrent requests with one
\* dedupe key are merged, so at most one job of a key is active.
SingleFlight ==
  \A j, k \in Jobs :
     /\ rows[j].state \in Active /\ rows[k].state \in Active
     /\ DedupeKey[j] = DedupeKey[k] /\ DedupeKey[j] # NoKey
     => j = k

\* cancel and expire withdraw waiting jobs only (store.py 225, 237): a job
\* that is RUNNING is left to its worker.
WithdrawOnlyWaiting ==
  [][\A j \in Jobs : rows'[j].state \in {"CANCELLED", "EXPIRED"} /\ rows'[j] # rows[j]
                       => rows[j].state \in Waiting]_vars

\* Every job that is accepted ends, for good, in a settled state, whatever the
\* order of pushes, claims, double runs, retries, crashes and zombie scans.
EventuallySettled ==
  \A j \in Jobs : rows[j].state # "NONE" ~> [](rows[j].state \in Settled)

\* A job whose worker crashed goes back to the queue once its lease is over
\* (queue.py 103, store.py 97).
OrphanIsReclaimed ==
  \A j \in Jobs : rows[j].state = "RUNNING" /\ rows[j].lease = "lapsed" /\ j \in orphaned
                    ~> rows[j].state # "RUNNING"

\* One worker and no withdrawal in flight: the queue then keeps the documented
\* life of a job (design doc 11.2) through crashes, restarts, zombie scans,
\* database errors and dead-letter replays.  The mapping reads phase and tries
\* off the row.
Promise == INSTANCE JobPromise WITH
  phase <- [j \in Jobs |-> rows[j].state],
  tries <- [j \in Jobs |-> rows[j].attempts]

KeepsPromise == Promise!Spec
=============================================================================
