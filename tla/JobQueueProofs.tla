--------------------------- MODULE JobQueueProofs ---------------------------
(***************************************************************************)
(* Proofs about JobQueue, for any number of jobs, instances, workers and   *)
(* API calls in flight, any bounds and any placement.                      *)
(***************************************************************************)
EXTENDS JobQueue, TLAPS

\* Reading for a claim moves the worker to claiming with what it read, or to
\* the refused position with nothing.
LEMMA InitType == Init => TypeOK
<1> SUFFICES ASSUME Init PROVE TypeOK
  OBVIOUS
<1>1. left \in [Bounds -> Nat]
  BY JobQueueAssumption DEF Init, Bounds
<1> QED
  BY <1>1 DEF Init, TypeOK, Row, NoRow, Snapshot, NoSnap, States, WorkerPcs,
              Call, NoCall, AllClerkOps

\* Moving a worker keeps the types of its position and of its job.
LEMMA MoveType ==
  ASSUME TypeOK, NEW w \in Workers, NEW to \in WorkerPcs, NEW j \in Jobs \cup {NoJob},
         Move(w, to, j), j = NoJob <=> to \in {"idle", "scan", "dead"}
  PROVE  /\ pc' \in [Workers -> WorkerPcs]
         /\ job' \in [Workers -> Jobs \cup {NoJob}]
         /\ \A v \in Workers : job'[v] = NoJob <=> pc'[v] \in {"idle", "scan", "dead"}
BY DEF Move, TypeOK

\* The rows a SetState leaves behind are rows.
LEMMA SetStateType ==
  ASSUME TypeOK, NEW S, NEW s \in States, SetState(S, s)
  PROVE  rows' \in [Jobs -> Row]
BY DEF SetState, TypeOK, Row

\* A worker that has a job handles a job of Jobs.
LEMMA JobOf ==
  ASSUME TypeOK, NEW w \in Workers, pc[w] \notin {"idle", "scan", "dead"}
  PROVE  job[w] \in Jobs
BY DEF TypeOK

\* What a session reads of a row is a snapshot.
LEMMA SnapType ==
  ASSUME TypeOK, NEW j \in Jobs
  PROVE  SnapOf(j) \in Snapshot
BY DEF TypeOK, SnapOf, Snapshot, Row

\* The enqueue calls keep the types.
LEMMA CallerType ==
  ASSUME TypeOK, NEW j \in Jobs, CallerStep(j)
  PROVE  TypeOK'
<1> USE JobQueueAssumption
<1>1. CASE Submit(j)
  BY <1>1 DEF Submit, TypeOK, history
<1>2. CASE CreateRow(j)
  <2>1. rows' \in [Jobs -> Row]
    BY <1>2, SetStateType DEF CreateRow, States
  <2> QED
    BY <1>2, <2>1 DEF CreateRow, TypeOK, history
<1>3. CASE PushNew(j)
  <2>1. Home[j] \in Instances
    OBVIOUS
  <2>2. heap' \in [Instances -> [Jobs -> Nat]]
    BY <1>3, <2>1 DEF PushNew, Push, TypeOK
  <2> QED
    BY <1>3, <2>2 DEF PushNew, TypeOK, history
<1> QED
  BY <1>1, <1>2, <1>3 DEF CallerStep

\* Claims keep the types.
LEMMA ClaimType ==
  ASSUME TypeOK, NEW w \in Workers, ClaimStep(w)
  PROVE  TypeOK'
<1> USE JobQueueAssumption
<1>1. CASE Pop(w)
  <2>1. PICK j \in MostUrgent(InHeap(Home[w])) :
          heap' = [heap EXCEPT ![Home[w]][j] = @ - 1] /\ Move(w, "popped", j)
    BY <1>1 DEF Pop
  <2>2. j \in Jobs /\ heap[Home[w]][j] > 0 /\ Home[w] \in Instances
    BY <2>1 DEF MostUrgent, InHeap
  <2>3. heap' \in [Instances -> [Jobs -> Nat]]
    BY <2>1, <2>2 DEF TypeOK
  <2> QED
    BY <1>1, <2>1, <2>2, <2>3, MoveType DEF Pop, TypeOK, history, WorkerPcs
<1>2. CASE Scan(w)
  BY <1>2, MoveType DEF Scan, Claimable, TypeOK, history, WorkerPcs
<1>3. ASSUME NEW j \in Jobs, NEW refused \in {"idle", "scan"}, ReadForClaim(w, j, refused)
      PROVE  /\ pc' \in [Workers -> WorkerPcs]
             /\ job' \in [Workers -> Jobs \cup {NoJob}]
             /\ \A v \in Workers : job'[v] = NoJob <=> pc'[v] \in {"idle", "scan", "dead"}
             /\ snap' \in [Workers -> Snapshot]
  <2>1. CASE rows[j].state \in Waiting
    <3>1. Move(w, "claiming", j) /\ snap' = [snap EXCEPT ![w] = SnapOf(j)]
      BY <1>3, <2>1 DEF ReadForClaim
    <3>2. j # NoJob /\ "claiming" \in WorkerPcs
      BY DEF WorkerPcs
    <3>3. snap' \in [Workers -> Snapshot]
      BY <3>1, SnapType DEF TypeOK
    <3> QED
      BY <3>1, <3>2, <3>3, MoveType
  <2>2. CASE rows[j].state \notin Waiting
    BY <1>3, <2>2, MoveType DEF ReadForClaim, TypeOK, WorkerPcs
  <2> QED
    BY <2>1, <2>2
<1>4. CASE ClaimPopped(w)
  <2>1. job[w] \in Jobs
    BY <1>4, JobOf DEF ClaimPopped
  <2> QED
    BY <1>4, <2>1, <1>3 DEF ClaimPopped, TypeOK, history
<1>5. CASE ClaimScanned(w)
  <2>1. PICK j \in MostUrgent(cand[w]) :
          /\ ReadForClaim(w, j, IF cand[w] = {j} THEN "idle" ELSE "scan")
          /\ cand' = [cand EXCEPT ![w] = IF rows[j].state \in Waiting THEN {} ELSE @ \ {j}]
    BY <1>5 DEF ClaimScanned
  <2>2. j \in Jobs
    BY <2>1 DEF MostUrgent, TypeOK
  <2>3. cand' \in [Workers -> SUBSET Jobs]
    BY <2>1 DEF TypeOK
  <2> QED
    BY <1>5, <2>1, <2>2, <2>3, <1>3 DEF ClaimScanned, TypeOK, history
<1>6. CASE ClaimCommit(w)
  <2>1. job[w] \in Jobs
    BY <1>6, JobOf DEF ClaimCommit, ClaimedRow
  <2>2. snap[w].attempts + 1 \in Nat
    BY DEF TypeOK, Snapshot
  <2>3. rows' \in [Jobs -> Row]
    BY <1>6, <2>1, <2>2 DEF ClaimCommit, ClaimedRow, TypeOK, Row, States
  <2> QED
    BY <1>6, <2>1, <2>3, MoveType DEF ClaimCommit, ClaimedRow, TypeOK, history, WorkerPcs,
       NoSnap, Snapshot, States
<1> QED
  BY <1>1, <1>2, <1>4, <1>5, <1>6 DEF ClaimStep

\* Handlers and their outcomes keep the types.
LEMMA OutcomeType ==
  ASSUME TypeOK, NEW w \in Workers, HandlerStep(w) \/ OutcomeStep(w)
  PROVE  TypeOK'
<1> USE JobQueueAssumption
<1>1. pc[w] \in Handling
  BY DEF HandlerStep, HandlerReturns, HandlerRaises, OutcomeStep, Succeed, FailRead,
         FailCommit, Rewrites, Repush, Handling
<1>2. job[w] \in Jobs /\ job[w] # NoJob
  BY <1>1, JobOf DEF Handling
<1>3. CASE HandlerReturns(w)
  BY <1>2, <1>3, MoveType DEF HandlerReturns, TypeOK, WorkerPcs
<1>4. CASE HandlerRaises(w)
  BY <1>2, <1>4, MoveType DEF HandlerRaises, TypeOK, WorkerPcs
<1>5. CASE Succeed(w)
  <2>1. rows' \in [Jobs -> Row]
    BY <1>5, SetStateType DEF Succeed, States
  <2> QED
    BY <1>5, <2>1, MoveType DEF Succeed, TypeOK, WorkerPcs, history
<1>6. CASE FailRead(w)
  <2>1. snap' \in [Workers -> Snapshot]
    BY <1>2, <1>6, SnapType DEF FailRead, TypeOK
  <2> QED
    BY <1>2, <1>6, <2>1, MoveType DEF FailRead, TypeOK, WorkerPcs, history
<1>7. CASE FailCommit(w)
  <2>1. AfterFailure(snap[w]) \in States
    BY DEF AfterFailure, States
  <2>2. rows' \in [Jobs -> Row]
    BY <1>7, <2>1, SetStateType DEF FailCommit, Rewrites, TypeOK
  <2>3. snap' \in [Workers -> Snapshot]
    BY <1>7 DEF FailCommit, Rewrites, TypeOK, NoSnap, Snapshot, States
  <2>4. Move(w, "repush", job[w]) \/ Move(w, "idle", NoJob)
    BY <1>7 DEF FailCommit, Rewrites
  <2>5. {"repush", "idle"} \subseteq WorkerPcs
    BY DEF WorkerPcs
  <2>6. /\ pc' \in [Workers -> WorkerPcs]
        /\ job' \in [Workers -> Jobs \cup {NoJob}]
        /\ \A v \in Workers : job'[v] = NoJob <=> pc'[v] \in {"idle", "scan", "dead"}
    BY <1>2, <2>4, <2>5, MoveType
  <2> QED
    BY <1>7, <2>2, <2>3, <2>6 DEF FailCommit, Rewrites, TypeOK, history
<1>8. CASE Repush(w)
  <2>1. Home[w] \in Instances
    OBVIOUS
  <2>2. heap' \in [Instances -> [Jobs -> Nat]]
    BY <1>2, <1>8, <2>1 DEF Repush, Push, TypeOK
  <2> QED
    BY <1>8, <2>2, MoveType DEF Repush, TypeOK, WorkerPcs, history
<1> QED
  BY <1>3, <1>4, <1>5, <1>6, <1>7, <1>8 DEF HandlerStep, OutcomeStep

\* Spending a bound keeps the bounds natural numbers.
LEMMA SpendType ==
  ASSUME TypeOK, NEW b \in Bounds, Spend(b)
  PROVE  left' \in [Bounds -> Nat]
BY DEF TypeOK, Spend

\* Leases and heartbeats keep the types.
LEMMA LeaseType ==
  ASSUME TypeOK, NEW j \in Jobs, NEW l \in {"none", "live", "lapsed"}, SetLease(j, l)
  PROVE  rows' \in [Jobs -> Row]
BY DEF TypeOK, SetLease, Row

LEMMA HeartbeatType ==
  ASSUME TypeOK, NEW w \in Workers, Heartbeat(w)
  PROVE  TypeOK'
<1>1. job[w] \in Jobs
  BY JobOf DEF Heartbeat, Handling
<1>2. rows' \in [Jobs -> Row]
  BY <1>1, LeaseType DEF Heartbeat
<1> QED
  BY <1>2 DEF Heartbeat, TypeOK, history

LEMMA RunOutType ==
  ASSUME TypeOK, NEW j \in Jobs, LeaseRunsOut(j)
  PROVE  TypeOK'
<1>1. rows' \in [Jobs -> Row]
  BY LeaseType DEF LeaseRunsOut
<1>2. left' \in [Bounds -> Nat]
  BY SpendType DEF LeaseRunsOut, Bounds, TypeOK
<1> QED
  BY <1>1, <1>2 DEF LeaseRunsOut, TypeOK, history

\* API calls keep the types.
LEMMA ClerkType ==
  ASSUME TypeOK, NEW c \in Clerks,
         (\E op \in ClerkOps : ClerkRead(c, op)) \/ ClerkCommit(c) \/ ClerkHeap(c)
  PROVE  TypeOK'
<1> USE JobQueueAssumption
<1>1. ASSUME NEW op \in ClerkOps, ClerkRead(c, op) PROVE TypeOK'
  <2>1. PICK S \in Selections(op) :
          /\ \E at \in {"commit", "heap"} :
               clerk' = [clerk EXCEPT ![c] = [pc |-> at, op |-> op, targets |-> S]]
          /\ IF op = "recover" THEN UNCHANGED left ELSE Spend("calls")
    BY <1>1 DEF ClerkRead
  <2>2. op \in AllClerkOps
    OBVIOUS
  <2>3. S \subseteq Jobs
    <3>1. Eligible(op) \subseteq Jobs
      BY DEF Eligible
    <3> QED
      BY <2>1, <2>2, <3>1 DEF Selections, AllClerkOps
  <2>4. clerk' \in [Clerks -> Call]
    BY <2>1, <2>2, <2>3 DEF Call, TypeOK
  <2>5. left' \in [Bounds -> Nat]
    BY <2>1, SpendType DEF Bounds, TypeOK
  <2> QED
    BY <1>1, <2>4, <2>5 DEF ClerkRead, TypeOK, history
<1>2. CASE ClerkCommit(c)
  <2>1. \A r \in Row : [r EXCEPT !.state = Written(clerk[c].op)] \in Row
    BY DEF Row, States, Written, TypeOK, Call, AllClerkOps
  <2>2. [state |-> "CREATED", attempts |-> 0, lease |-> "none"] \in Row
    BY DEF Row, States
  <2>3. rows' \in [Jobs -> Row]
    BY <1>2, <2>1, <2>2 DEF ClerkCommit, Rewritten, TypeOK
  <2>4. clerk' \in [Clerks -> Call]
    <3>1. clerk[c] \in Call
      BY DEF TypeOK
    <3>2. [clerk[c] EXCEPT !.pc = "heap"] \in Call
      BY <3>1 DEF Call
    <3> QED
      BY <1>2, <3>2 DEF ClerkCommit, Rewritten, TypeOK
  <2> QED
    BY <1>2, <2>3, <2>4 DEF ClerkCommit, Rewritten, TypeOK, history
<1>3. CASE ClerkHeap(c)
  <2>1. Home[c] \in Instances
    OBVIOUS
  <2>2. heap' \in [Instances -> [Jobs -> Nat]]
    BY <1>3, <2>1 DEF ClerkHeap, Drop, TypeOK
  <2>3. clerk' \in [Clerks -> Call]
    BY <1>3 DEF ClerkHeap, TypeOK, Call, NoCall, AllClerkOps
  <2> QED
    BY <1>3, <2>2, <2>3 DEF ClerkHeap, TypeOK, history
<1> QED
  BY <1>1, <1>2, <1>3

\* Jobs held by workers are jobs.
LEMMA HeldType ==
  ASSUME TypeOK, NEW W \in SUBSET Workers
  PROVE  HeldBy(W) \subseteq Jobs
BY JobOf DEF HeldBy, Holds, Rewrites

\* Faults of workers and crashes keep the types.
LEMMA FaultType ==
  ASSUME TypeOK, NEW w \in Workers, FaultStep(w)
  PROVE  TypeOK'
<1>1. CASE SucceedRaises(w)
  <2>1. job[w] \in Jobs /\ job[w] # NoJob
    BY <1>1, JobOf, JobQueueAssumption DEF SucceedRaises
  <2>2. left' \in [Bounds -> Nat]
    BY <1>1, SpendType DEF SucceedRaises, Bounds
  <2> QED
    BY <1>1, <2>1, <2>2, MoveType DEF SucceedRaises, TypeOK, WorkerPcs
<1>2. CASE WorkerDies(w)
  <2>1. left' \in [Bounds -> Nat]
    BY <1>2, SpendType DEF WorkerDies, Bounds
  <2>2. orphaned' \subseteq Jobs
    BY <1>2, HeldType DEF WorkerDies, TypeOK
  <2>3. snap' \in [Workers -> Snapshot] /\ cand' \in [Workers -> SUBSET Jobs]
    BY <1>2 DEF WorkerDies, TypeOK, NoSnap, Snapshot, States
  <2> QED
    BY <1>2, <2>1, <2>2, <2>3, MoveType DEF WorkerDies, TypeOK, WorkerPcs
<1> QED
  BY <1>1, <1>2 DEF FaultStep

LEMMA CrashType ==
  ASSUME TypeOK, NEW i \in Instances, Crash(i)
  PROVE  TypeOK'
<1>1. left' \in [Bounds -> Nat]
  BY SpendType DEF Crash, Bounds
<1>2. orphaned' \subseteq Jobs
  BY HeldType DEF Crash, TypeOK, At
<1>3. clerk' \in [Clerks -> Call]
  BY DEF Crash, TypeOK, Call, NoCall, AllClerkOps
<1>4. snap' \in [Workers -> Snapshot]
  BY DEF Crash, TypeOK, NoSnap, Snapshot, States
<1>5. heap' \in [Instances -> [Jobs -> Nat]]
  BY DEF Crash, TypeOK
<1>6. request' \in [Jobs -> {"idle", "creating", "pushing", "done", "merged", "rejected", "lost"}]
  BY DEF Crash, TypeOK
<1> QED
  BY <1>1, <1>2, <1>3, <1>4, <1>5, <1>6 DEF Crash, TypeOK, WorkerPcs

\* Type correctness of the queue (the invariant of the queue runs).
THEOREM TypeCorrect == Spec => []TypeOK
<1>1. TypeOK /\ [Next]_vars => TypeOK'
  <2> SUFFICES ASSUME TypeOK, [Next]_vars PROVE TypeOK'
    OBVIOUS
  <2>1. CASE UNCHANGED vars
    BY <2>1 DEF vars, TypeOK
  <2>2. CASE Next
    BY <2>2, CallerType, RunOutType, ClaimType, OutcomeType, HeartbeatType, FaultType,
       ClerkType, CrashType DEF Next
  <2> QED
    BY <2>1, <2>2
<1> QED
  BY <1>1, InitType, PTL DEF Spec

-----------------------------------------------------------------------------
(***************************************************************************)
(* The safety invariants.  RunningIsHeld is inductive with the types: what *)
(* makes it so is Holds, which counts a worker inside fail() as a holder   *)
(* only if its commit will change the row it read.                         *)
(***************************************************************************)

\* A row is made RUNNING by a claim commit and by nothing else; what else
\* leaves it RUNNING leaves its attempts alone and at most renews or ends its
\* lease.
LEMMA OnlyClaimsRun ==
  ASSUME TypeOK, [Next]_vars, NEW j \in Jobs, rows'[j].state = "RUNNING"
  PROVE  \/ \E w \in Workers : ClaimCommit(w) /\ job[w] = j
         \/ /\ rows[j].state = "RUNNING"
            /\ rows'[j].attempts = rows[j].attempts
            /\ rows'[j].lease \in {rows[j].lease, "live", "lapsed"}
<1> DEFINE Kept == /\ rows[j].state = "RUNNING"
                   /\ rows'[j].attempts = rows[j].attempts
                   /\ rows'[j].lease \in {rows[j].lease, "live", "lapsed"}
<1> SUFFICES ASSUME \A w \in Workers : ~(ClaimCommit(w) /\ job[w] = j)
             PROVE  Kept
  OBVIOUS
<1>0. rows[j] \in Row
  BY DEF TypeOK
<1>1. ASSUME NEW S, NEW s \in States \ {"RUNNING"}, SetState(S, s) PROVE Kept
  BY <1>0, <1>1 DEF SetState, Row
<1>2. ASSUME NEW k \in Jobs, NEW l \in {"live", "lapsed"}, SetLease(k, l) PROVE Kept
  BY <1>0, <1>2 DEF SetLease, TypeOK, Row
<1>3. ASSUME NEW k \in Jobs, CallerStep(k) \/ LeaseRunsOut(k) PROVE Kept
  BY <1>1, <1>2, <1>3 DEF CallerStep, Submit, CreateRow, PushNew, LeaseRunsOut, States
<1>4. ASSUME NEW w \in Workers, ClaimStep(w) PROVE Kept
  <2>1. CASE ClaimCommit(w)
    BY <2>1 DEF ClaimCommit, ClaimedRow, TypeOK
  <2> QED
    BY <1>4, <2>1 DEF ClaimStep, Pop, Scan, Claimable, ClaimPopped, ClaimScanned
<1>5. ASSUME NEW w \in Workers, HandlerStep(w) \/ OutcomeStep(w) PROVE Kept
  BY <1>1, <1>5 DEF HandlerStep, HandlerReturns, HandlerRaises, OutcomeStep, Succeed, FailRead,
     FailCommit, Rewrites, Repush, AfterFailure, States
<1>6. ASSUME NEW w \in Workers, Heartbeat(w) \/ FaultStep(w) PROVE Kept
  BY <1>2, <1>6, JobOf DEF Heartbeat, FaultStep, SucceedRaises, WorkerDies, Handling
<1>7. ASSUME NEW c \in Clerks,
             (\E op \in ClerkOps : ClerkRead(c, op)) \/ ClerkCommit(c) \/ ClerkHeap(c)
      PROVE Kept
  <2>1. CASE ClerkCommit(c)
    BY <1>0, <2>1 DEF ClerkCommit, Rewritten, Written, Row, TypeOK, Call, AllClerkOps
  <2> QED
    BY <1>7, <2>1 DEF ClerkRead, ClerkHeap
<1>8. ASSUME NEW i \in Instances, Crash(i) PROVE Kept
  BY <1>8 DEF Crash
<1>9. CASE UNCHANGED vars
  BY <1>9 DEF vars
<1> QED
  BY <1>3, <1>4, <1>5, <1>6, <1>7, <1>8, <1>9 DEF Next

\* A step after which a row is still RUNNING and that is no claim of it keeps
\* its holder a holder, or records that the holder was lost.
LEMMA HolderStays ==
  ASSUME TypeOK, [Next]_vars, NEW w \in Workers, Holds(w),
         rows[job[w]].state = "RUNNING", rows'[job[w]].state = "RUNNING",
         \A v \in Workers : ~(ClaimCommit(v) /\ job[v] = job[w])
  PROVE  job[w] \in orphaned' \/ (job'[w] = job[w] /\ Holds(w)')
<1> DEFINE Same == pc'[w] = pc[w] /\ job'[w] = job[w] /\ snap'[w] = snap[w]
<1>1. Same => job'[w] = job[w] /\ Holds(w)'
  BY DEF Holds, Rewrites, AfterFailure
<1>2. ASSUME NEW v \in Workers, v # w,
             ClaimStep(v) \/ HandlerStep(v) \/ OutcomeStep(v) \/ Heartbeat(v) \/ FaultStep(v)
      PROVE  Same
  BY <1>2 DEF ClaimStep, Pop, Scan, Claimable, ClaimPopped, ClaimScanned, ReadForClaim, ClaimCommit, ClaimedRow,
     HandlerStep, HandlerReturns, HandlerRaises, OutcomeStep, Succeed, FailRead, FailCommit, Rewrites,
     Repush, Heartbeat, FaultStep, SucceedRaises, WorkerDies, Move, TypeOK
<1>3. pc[w] \in {"running", "returned", "raised", "failing"} /\ job[w] \in Jobs
  BY JobOf DEF Holds, Rewrites
<1>4. ~ClaimStep(w)
  BY <1>3 DEF ClaimStep, Pop, Scan, Claimable, ClaimPopped, ClaimScanned, ClaimCommit, ClaimedRow
<1>5. CASE HandlerStep(w)
  BY <1>5 DEF HandlerStep, HandlerReturns, HandlerRaises, Move, Holds, Rewrites, TypeOK
<1>6. CASE OutcomeStep(w)
  <2>1. ~Succeed(w)
    BY <1>3 DEF Succeed, SetState, TypeOK, Row
  <2>2. CASE FailRead(w)
    <3>1. AfterFailure(SnapOf(job[w])) # SnapOf(job[w]).state
      BY DEF AfterFailure, SnapOf
    <3>2. pc'[w] = "failing" /\ job'[w] = job[w] /\ snap'[w] = SnapOf(job[w])
      BY <2>2 DEF FailRead, Move, TypeOK
    <3> QED
      BY <3>1, <3>2 DEF Holds, Rewrites, AfterFailure
  <2>3. ~FailCommit(w)
    <3> SUFFICES ASSUME FailCommit(w) PROVE FALSE
      OBVIOUS
    <3>1. snap[w].state # AfterFailure(snap[w])
      BY DEF FailCommit, Rewrites, Holds
    <3>2. SetState({job[w]}, AfterFailure(snap[w]))
      BY <3>1 DEF FailCommit, Rewrites
    <3>3. rows'[job[w]].state = AfterFailure(snap[w])
      BY <1>3, <3>2 DEF SetState, TypeOK, Row
    <3> QED
      BY <3>3 DEF AfterFailure
  <2>4. ~Repush(w)
    BY <1>3 DEF Repush
  <2> QED
    BY <1>6, <2>1, <2>2, <2>3, <2>4 DEF OutcomeStep
<1>7. CASE FaultStep(w)
  <2>1. CASE SucceedRaises(w)
    BY <2>1 DEF SucceedRaises, Move, Holds, Rewrites, TypeOK
  <2>2. CASE WorkerDies(w)
    BY <2>2 DEF WorkerDies, HeldBy
  <2> QED
    BY <1>7, <2>1, <2>2 DEF FaultStep
<1>8. ASSUME NEW i \in Instances, Crash(i) PROVE job[w] \in orphaned' \/ Same
  <2>1. CASE w \in At(i, Workers)
    BY <1>8, <2>1 DEF Crash, HeldBy, At
  <2>2. CASE w \notin At(i, Workers)
    BY <1>8, <2>2 DEF Crash
  <2> QED
    BY <2>1, <2>2
<1>9. ASSUME \/ \E j \in Jobs : CallerStep(j) \/ LeaseRunsOut(j)
             \/ Heartbeat(w)
             \/ \E c \in Clerks : (\E op \in ClerkOps : ClerkRead(c, op)) \/ ClerkCommit(c)
                                     \/ ClerkHeap(c)
             \/ UNCHANGED vars
      PROVE  Same
  BY <1>9 DEF CallerStep, Submit, CreateRow, PushNew, LeaseRunsOut, Heartbeat, ClerkRead,
     ClerkCommit, Rewritten, ClerkHeap, vars
<1> QED
  BY <1>1, <1>2, <1>4, <1>5, <1>6, <1>7, <1>8, <1>9 DEF Next

\* Only a claim takes a job off the list of orphans.
LEMMA OrphansStay ==
  ASSUME TypeOK, [Next]_vars, NEW j \in orphaned,
         \A v \in Workers : ~(ClaimCommit(v) /\ job[v] = j)
  PROVE  j \in orphaned'
BY DEF Next, CallerStep, Submit, CreateRow, PushNew, LeaseRunsOut, ClaimStep, Pop, Scan, Claimable,
   ClaimPopped, ClaimScanned, ClaimCommit, ClaimedRow, HandlerStep, HandlerReturns, HandlerRaises,
   OutcomeStep, Succeed, FailRead, FailCommit, Rewrites, Repush, Heartbeat, FaultStep, SucceedRaises,
   WorkerDies, ClerkRead, ClerkCommit, Rewritten, ClerkHeap, Crash, history, vars

\* No RUNNING row is ever in limbo, whatever claims, outcomes, zombie scans,
\* API calls, database errors and crashes race on it.
THEOREM RunningAlwaysHeld == Spec => []RunningIsHeld
<1>1. Init => RunningIsHeld
  BY DEF Init, RunningIsHeld, NoRow
<1>2. TypeOK /\ RunningIsHeld /\ [Next]_vars => RunningIsHeld'
  <2> SUFFICES ASSUME TypeOK, RunningIsHeld, [Next]_vars,
                      NEW j \in Jobs, rows'[j].state = "RUNNING"
               PROVE  j \in orphaned' \/ \E w \in Workers : job'[w] = j /\ Holds(w)'
    BY DEF RunningIsHeld
  <2>1. CASE \E w \in Workers : ClaimCommit(w) /\ job[w] = j
    BY <2>1 DEF ClaimCommit, ClaimedRow, Move, Holds, Rewrites, TypeOK
  <2>2. CASE ~ \E w \in Workers : ClaimCommit(w) /\ job[w] = j
    <3>1. rows[j].state = "RUNNING"
      BY <2>2, OnlyClaimsRun
    <3>2. CASE j \in orphaned
      BY <2>2, <3>2, OrphansStay
    <3>3. CASE j \notin orphaned
      <4>1. PICK w \in Workers : job[w] = j /\ Holds(w)
        BY <3>1, <3>3 DEF RunningIsHeld
      <4> QED
        BY <2>2, <3>1, <4>1, HolderStays
    <3> QED
      BY <3>2, <3>3
  <2> QED
    BY <2>1, <2>2
<1> QED
  BY <1>1, <1>2, TypeCorrect, PTL DEF Spec

\* The zombie scan can reclaim every RUNNING row: none is without a lease.
THEOREM RunningAlwaysLeased == Spec => []RunningHasLease
<1>1. Init => RunningHasLease
  BY DEF Init, RunningHasLease, NoRow
<1>2. TypeOK /\ RunningHasLease /\ [Next]_vars => RunningHasLease'
  <2> SUFFICES ASSUME TypeOK, RunningHasLease, [Next]_vars,
                      NEW j \in Jobs, rows'[j].state = "RUNNING"
               PROVE  rows'[j].lease # "none" /\ rows'[j].attempts > 0
    BY DEF RunningHasLease
  <2>1. ASSUME NEW w \in Workers, ClaimCommit(w), job[w] = j
        PROVE  rows'[j].lease # "none" /\ rows'[j].attempts > 0
    <3>1. snap[w].attempts \in Nat
      BY DEF TypeOK, Snapshot
    <3> QED
      BY <2>1, <3>1 DEF ClaimCommit, ClaimedRow, TypeOK
  <2> QED
    BY <2>1, OnlyClaimsRun DEF RunningHasLease
<1> QED
  BY <1>1, <1>2, TypeCorrect, PTL DEF Spec

\* What backs an outcome: a handler that returned is recorded before its
\* success is written, one that raised before its failure is.
Evidence ==
  /\ OutcomeIsEarned
  /\ \A w \in Workers : /\ pc[w] = "returned" => job[w] \in executed
                        /\ pc[w] \in {"raised", "failing"} => job[w] \in faulted

\* No job is reported SUCCEEDED that no handler finished, or DEAD_LETTER that
\* no handler failed.
THEOREM OutcomeAlwaysEarned == Spec => []OutcomeIsEarned
<1>1. Init => Evidence
  BY DEF Init, Evidence, OutcomeIsEarned, NoRow
<1>2. TypeOK /\ Evidence /\ [Next]_vars => Evidence'
  <2> SUFFICES ASSUME TypeOK, Evidence, [Next]_vars PROVE Evidence'
    OBVIOUS
  <2> USE DEF Evidence, OutcomeIsEarned
  <2>0. \A j \in Jobs : rows[j] \in Row
    BY DEF TypeOK
  <2>1. ASSUME NEW w \in Workers, ClaimStep(w) PROVE Evidence'
    <3>1. CASE ClaimCommit(w)
      BY <3>1 DEF ClaimCommit, ClaimedRow, Move, TypeOK
    <3>2. CASE ~ClaimCommit(w)
      <4>1. rows' = rows /\ executed' = executed /\ faulted' = faulted
        BY <2>1, <3>2 DEF ClaimStep, Pop, Scan, Claimable, ClaimPopped, ClaimScanned, history
      <4>2. \E to \in {"idle", "popped", "scan", "claiming"}, j \in Jobs \cup {NoJob} : Move(w, to, j)
        BY <2>1, <3>2, JobOf DEF ClaimStep, Pop, Scan, Claimable, ClaimPopped, ClaimScanned, ReadForClaim,
           MostUrgent, InHeap, TypeOK
      <4>3. \A v \in Workers : pc'[v] \in {"returned", "raised", "failing"}
                                => pc'[v] = pc[v] /\ job'[v] = job[v]
        BY <4>2 DEF Move, TypeOK
      <4> QED
        BY <4>1, <4>3
    <3> QED
      BY <3>1, <3>2
  <2>2. ASSUME NEW w \in Workers, HandlerStep(w) PROVE Evidence'
    BY <2>2 DEF HandlerStep, HandlerReturns, HandlerRaises, Move, TypeOK
  <2>3. ASSUME NEW w \in Workers, OutcomeStep(w) PROVE Evidence'
    <3>1. CASE Succeed(w)
      BY <2>0, <3>1 DEF Succeed, SetState, Move, TypeOK, Row, history
    <3>2. CASE FailCommit(w)
      <4>1. job[w] \in faulted
        BY <3>2 DEF FailCommit, Rewrites
      <4>2. \A j \in Jobs : \/ rows'[j].state = rows[j].state
                            \/ j = job[w] /\ rows'[j].state # "SUCCEEDED"
        BY <2>0, <3>2 DEF FailCommit, Rewrites, AfterFailure, SetState, Row
      <4>3. \A v \in Workers : pc'[v] \in {"returned", "raised", "failing"}
                                => pc'[v] = pc[v] /\ job'[v] = job[v]
        BY <3>2 DEF FailCommit, Rewrites, Move, TypeOK
      <4> QED
        BY <3>2, <4>1, <4>2, <4>3 DEF FailCommit, Rewrites, history
    <3> QED
      BY <2>3, <3>1, <3>2 DEF OutcomeStep, FailRead, Repush, Move, TypeOK, history
  <2>4. ASSUME NEW w \in Workers, Heartbeat(w) \/ FaultStep(w) PROVE Evidence'
    <3>1. CASE Heartbeat(w)
      <4>1. \A j \in Jobs : rows'[j].state = rows[j].state
        BY <2>0, <3>1 DEF Heartbeat, SetLease, TypeOK, Row
      <4> QED
        BY <3>1, <4>1 DEF Heartbeat, history
    <3> QED
      BY <2>4, <3>1 DEF FaultStep, SucceedRaises, WorkerDies, Move, TypeOK
  <2>5. ASSUME NEW j \in Jobs, CallerStep(j) PROVE Evidence'
    BY <2>0, <2>5 DEF CallerStep, Submit, CreateRow, PushNew, SetState, Row, history
  <2>6. ASSUME NEW j \in Jobs, LeaseRunsOut(j) PROVE Evidence'
    BY <2>0, <2>6 DEF LeaseRunsOut, SetLease, TypeOK, Row, history
  <2>7. ASSUME NEW c \in Clerks,
               (\E op \in ClerkOps : ClerkRead(c, op)) \/ ClerkCommit(c) \/ ClerkHeap(c)
        PROVE Evidence'
    <3>1. CASE ClerkCommit(c)
      <4>1. \A j \in Jobs : rows'[j] = rows[j] \/ rows'[j].state \notin {"SUCCEEDED", "DEAD_LETTER"}
        BY <2>0, <3>1 DEF ClerkCommit, Rewritten, Written, Row, TypeOK, Call, AllClerkOps
      <4> QED
        BY <3>1, <4>1 DEF ClerkCommit, Rewritten, history
    <3> QED
      BY <2>7, <3>1 DEF ClerkRead, ClerkHeap, history
  <2>8. ASSUME NEW i \in Instances, Crash(i) PROVE Evidence'
    BY <2>8 DEF Crash
  <2>9. CASE UNCHANGED vars
    BY <2>9 DEF vars
  <2> QED
    BY <2>1, <2>2, <2>3, <2>4, <2>5, <2>6, <2>7, <2>8, <2>9 DEF Next
<1>3. Evidence => OutcomeIsEarned
  BY DEF Evidence
<1> QED
  BY <1>1, <1>2, <1>3, TypeCorrect, PTL DEF Spec

-----------------------------------------------------------------------------
(***************************************************************************)
(* The refinement: a queue with a single worker and a single call of the   *)
(* zombie scan or the replay in flight keeps the documented life of a job, *)
(* for any number of jobs and instances, any placement, and any number of  *)
(* crashes and database errors.                                            *)
(***************************************************************************)

\* No two claims or scans overlap, nothing is withdrawn, and no lease runs
\* out under a live worker.
Alone ==
  /\ \A v, w \in Workers : v = w
  /\ \A c, d \in Clerks : c = d
  /\ ClerkOps \subseteq {"recover", "requeue"}
  /\ MaxLateBeats = 0

\* A request that has not created its row has none.
NotYetCreated == \A j \in Jobs : request[j] \in {"idle", "creating"} => rows[j].state = "NONE"

\* What a worker read is what its row still is, and the job that it handles
\* is RUNNING under a lease that holds.
ReadHolds ==
  \A w \in Workers :
    /\ pc[w] = "claiming" => rows[job[w]].state \in Waiting /\ snap[w] = SnapOf(job[w])
    /\ pc[w] \in {"running", "returned", "raised", "failing"} =>
         rows[job[w]].state = "RUNNING" /\ rows[job[w]].lease = "live"
    /\ pc[w] = "failing" => snap[w] = SnapOf(job[w])
    /\ pc[w] = "repush" => rows[job[w]].state = "QUEUED"

\* What a call is about to write, its rows still ask for.
CallHolds ==
  \A c \in Clerks :
    clerk[c].pc = "commit" =>
      \/ clerk[c].op = "recover" /\ \A j \in clerk[c].targets : LeaseOver(rows[j])
      \/ /\ clerk[c].op = "requeue"
         /\ \E j \in Jobs : clerk[c].targets = {j} /\ rows[j].state = "DEAD_LETTER"

AloneInv == TypeOK /\ NotYetCreated /\ ReadHolds /\ CallHolds /\ left["late"] = 0

-----------------------------------------------------------------------------
(***************************************************************************)
(* AloneInv is inductive.                                                  *)
(***************************************************************************)

\* The job of a worker that waits for its claim, or handles it, has a row.
LEMMA HasRow ==
  ASSUME AloneInv, NEW w \in Workers,
         pc[w] \in {"claiming", "running", "returned", "raised", "failing", "repush"}
  PROVE  /\ job[w] \in Jobs /\ rows[job[w]] \in Row
         /\ rows[job[w]].state \in {"CREATED", "QUEUED", "RUNNING"}
         /\ request[job[w]] \notin {"idle", "creating"}
<1>1. job[w] \in Jobs
  BY JobOf DEF AloneInv
<1>2. rows[job[w]].state \in {"CREATED", "QUEUED", "RUNNING"}
  BY DEF AloneInv, ReadHolds, Waiting
<1> QED
  BY <1>1, <1>2 DEF AloneInv, NotYetCreated, TypeOK

\* What a worker read of its row is what the row still says.
LEMMA SnapIs ==
  ASSUME AloneInv, NEW w \in Workers, pc[w] \in {"claiming", "failing"}
  PROVE  snap[w].state = rows[job[w]].state /\ snap[w].attempts = rows[job[w]].attempts
<1>1. snap[w] = SnapOf(job[w])
  BY DEF AloneInv, ReadHolds
<1> QED
  BY <1>1 DEF SnapOf

\* No call is about to write the job of a worker.
LEMMA NoTarget ==
  ASSUME AloneInv, NEW w \in Workers, NEW c \in Clerks, clerk[c].pc = "commit",
         pc[w] \in {"claiming", "running", "returned", "raised", "failing", "repush"}
  PROVE  job[w] \notin clerk[c].targets
BY DEF AloneInv, ReadHolds, CallHolds, LeaseOver, Waiting

\* A step that writes no row and moves no request to creating keeps them.
LEMMA RequestsStay ==
  ASSUME AloneInv, rows' = rows,
         \A j \in Jobs : request'[j] \in {"idle", "creating"} => request[j] \in {"idle", "creating"}
  PROVE  NotYetCreated'
BY DEF AloneInv, NotYetCreated

LEMMA CallsStay ==
  ASSUME AloneInv, clerk' = clerk,
         \A c \in Clerks : clerk[c].pc = "commit" =>
           \A j \in clerk[c].targets : rows'[j] = rows[j]
  PROVE  CallHolds'
BY DEF AloneInv, CallHolds, LeaseOver

\* The rows a call is about to write are lapsed or dead letters.
LEMMA TargetIs ==
  ASSUME AloneInv, NEW c \in Clerks, clerk[c].pc = "commit", NEW j \in clerk[c].targets
  PROVE  j \in Jobs /\ (LeaseOver(rows[j]) \/ rows[j].state = "DEAD_LETTER")
<1>1. clerk[c].targets \subseteq Jobs
  BY DEF AloneInv, TypeOK, Call
<1> QED
  BY <1>1 DEF AloneInv, CallHolds

LEMMA ReadsStay ==
  ASSUME AloneInv, rows' = rows, pc' = pc, job' = job, snap' = snap
  PROVE  ReadHolds'
BY DEF AloneInv, ReadHolds, SnapOf

\* The enqueue calls: a row is created where there was none.
LEMMA CallerKeeps ==
  ASSUME Alone, AloneInv, NEW j \in Jobs, CallerStep(j)
  PROVE  AloneInv'
<1>0. TypeOK'
  BY CallerType DEF AloneInv
<1>1. left'["late"] = 0
  BY DEF AloneInv, CallerStep, Submit, CreateRow, PushNew
<1>2. CASE Submit(j)
  <2>1. NotYetCreated'
    BY <1>2, RequestsStay DEF Submit, AloneInv, TypeOK
  <2> QED
    BY <1>0, <1>1, <1>2, <2>1, CallsStay, ReadsStay DEF Submit, AloneInv
<1>3. CASE PushNew(j)
  <2>1. NotYetCreated'
    BY <1>3, RequestsStay DEF PushNew, AloneInv, TypeOK
  <2> QED
    BY <1>0, <1>1, <1>3, <2>1, CallsStay, ReadsStay DEF PushNew, AloneInv
<1>4. CASE CreateRow(j)
  <2>1. rows[j].state = "NONE"
    BY <1>4 DEF CreateRow, AloneInv, NotYetCreated
  <2>2. \A k \in Jobs : rows'[k] = IF k = j THEN [rows[k] EXCEPT !.state = "CREATED"] ELSE rows[k]
    BY <1>4 DEF CreateRow, SetState
  <2>3. NotYetCreated'
    BY <1>4, <2>2 DEF CreateRow, AloneInv, NotYetCreated, TypeOK
  <2>4. ReadHolds'
    <3> SUFFICES ASSUME NEW w \in Workers,
                        pc[w] \in {"claiming", "running", "returned", "raised", "failing", "repush"}
                 PROVE  rows'[job[w]] = rows[job[w]]
      BY <1>4 DEF CreateRow, AloneInv, ReadHolds, SnapOf
    <3> QED
      BY <2>1, <2>2, HasRow
  <2>5. CallHolds'
    BY <1>4, <2>1, <2>2, TargetIs, CallsStay DEF CreateRow, LeaseOver
  <2> QED
    BY <1>0, <1>1, <2>3, <2>4, <2>5 DEF AloneInv
<1> QED
  BY <1>2, <1>3, <1>4 DEF CallerStep
\* Claims: the row is read while it waits, and nothing else writes it.
LEMMA ClaimKeeps ==
  ASSUME Alone, AloneInv, NEW w \in Workers, ClaimStep(w)
  PROVE  AloneInv'
<1>0. TypeOK' /\ left' = left /\ clerk' = clerk /\ request' = request
  BY ClaimType DEF AloneInv, ClaimStep, Pop, Scan, ClaimPopped, ClaimScanned, ClaimCommit
<1>1. ASSUME NEW to \in {"idle", "popped", "scan"}, NEW j, Move(w, to, j), rows' = rows
      PROVE  AloneInv'
  <2>1. ReadHolds'
    BY <1>1 DEF AloneInv, ReadHolds, Move, Alone, TypeOK
  <2> QED
    BY <1>0, <1>1, <2>1, RequestsStay, CallsStay DEF AloneInv
<1>2. ASSUME NEW j, NEW refused \in {"idle", "scan"}, ReadForClaim(w, j, refused), rows' = rows
      PROVE  AloneInv'
  <2>1. CASE rows[j].state \in Waiting
    <3>1. Move(w, "claiming", j) /\ snap' = [snap EXCEPT ![w] = SnapOf(j)]
      BY <1>2, <2>1 DEF ReadForClaim
    <3>2. ReadHolds'
      BY <1>2, <2>1, <3>1 DEF AloneInv, ReadHolds, Move, Alone, TypeOK, SnapOf
    <3> QED
      BY <1>0, <1>2, <3>2, RequestsStay, CallsStay DEF AloneInv
  <2>2. CASE rows[j].state \notin Waiting
    BY <1>1, <1>2, <2>2 DEF ReadForClaim
  <2> QED
    BY <2>1, <2>2
<1>3. CASE Pop(w)
  BY <1>1, <1>3 DEF Pop
<1>4. CASE Scan(w)
  BY <1>1, <1>4 DEF Scan
<1>5. CASE ClaimPopped(w)
  BY <1>2, <1>5 DEF ClaimPopped
<1>6. CASE ClaimScanned(w)
  BY <1>2, <1>6 DEF ClaimScanned
<1>7. CASE ClaimCommit(w)
  <2>1. /\ job[w] \in Jobs /\ rows[job[w]] \in Row
        /\ request[job[w]] \notin {"idle", "creating"}
    BY <1>7, HasRow DEF ClaimCommit
  <2>2. rows' = [rows EXCEPT ![job[w]] = ClaimedRow(rows[job[w]], snap[w])]
    BY <1>7 DEF ClaimCommit
  <2>3. NotYetCreated'
    BY <1>0, <2>1, <2>2 DEF AloneInv, NotYetCreated, TypeOK
  <2>4. ReadHolds'
    BY <1>7, <2>1, <2>2 DEF ClaimCommit, ClaimedRow, Move, AloneInv, TypeOK, ReadHolds, Alone
  <2>5. CallHolds'
    BY <1>0, <1>7, <2>1, <2>2, NoTarget, TargetIs, CallsStay DEF ClaimCommit, AloneInv, TypeOK
  <2> QED
    BY <1>0, <2>3, <2>4, <2>5 DEF AloneInv
<1> QED
  BY <1>3, <1>4, <1>5, <1>6, <1>7 DEF ClaimStep

\* Handlers and outcomes: only the worker's own row is written.
LEMMA OutcomeKeeps ==
  ASSUME Alone, AloneInv, NEW w \in Workers, HandlerStep(w) \/ OutcomeStep(w)
  PROVE  AloneInv'
<1>0. TypeOK' /\ left' = left /\ clerk' = clerk /\ request' = request
  BY OutcomeType DEF AloneInv, HandlerStep, HandlerReturns, HandlerRaises, OutcomeStep, Succeed,
     FailRead, FailCommit, Repush, history
<1>1. pc[w] \in {"running", "returned", "raised", "failing", "repush"}
  BY DEF HandlerStep, HandlerReturns, HandlerRaises, OutcomeStep, Succeed, FailRead, FailCommit, Repush
<1>2. /\ job[w] \in Jobs /\ rows[job[w]] \in Row
      /\ request[job[w]] \notin {"idle", "creating"}
  BY <1>1, HasRow
<1>3. ASSUME rows' = rows, ReadHolds' PROVE AloneInv'
  BY <1>0, <1>3, RequestsStay, CallsStay DEF AloneInv
<1>4. ASSUME NEW s \in States, SetState({job[w]}, s), ReadHolds' PROVE AloneInv'
  <2>1. \A j \in Jobs : rows'[j] = IF j = job[w] THEN [rows[j] EXCEPT !.state = s] ELSE rows[j]
    BY <1>4 DEF SetState
  <2>2. NotYetCreated'
    BY <1>0, <1>2, <2>1 DEF AloneInv, NotYetCreated
  <2>3. CallHolds'
    BY <1>0, <1>1, <2>1, NoTarget, TargetIs, CallsStay
  <2> QED
    BY <1>0, <1>4, <2>2, <2>3 DEF AloneInv
<1>5. CASE HandlerStep(w)
  <2>1. ReadHolds'
    BY <1>5 DEF HandlerStep, HandlerReturns, HandlerRaises, Move, AloneInv, ReadHolds, Alone, TypeOK, SnapOf
  <2> QED
    BY <1>3, <1>5, <2>1 DEF HandlerStep, HandlerReturns, HandlerRaises
<1>6. CASE Succeed(w)
  <2>1. ReadHolds'
    BY <1>6 DEF Succeed, Move, ReadHolds, Alone, AloneInv, TypeOK
  <2> QED
    BY <1>4, <1>6, <2>1 DEF Succeed, States
<1>7. CASE FailRead(w)
  <2>1. ReadHolds'
    BY <1>7 DEF FailRead, Move, ReadHolds, Alone, AloneInv, TypeOK, SnapOf
  <2> QED
    BY <1>3, <1>7, <2>1 DEF FailRead
<1>8. CASE FailCommit(w)
  <2>0. pc[w] = "failing"
    BY <1>8 DEF FailCommit
  <2>1. snap[w].state = "RUNNING"
    BY <2>0, SnapIs DEF AloneInv, ReadHolds
  <2>2. Rewrites(snap[w]) /\ AfterFailure(snap[w]) \in States
    BY <2>1 DEF Rewrites, AfterFailure, States
  <2>3. SetState({job[w]}, AfterFailure(snap[w]))
    BY <1>8, <2>2 DEF FailCommit
  <2>4. ReadHolds'
    BY <1>8, <1>2, <2>3 DEF FailCommit, SetState, Row, Move, ReadHolds, Alone, AloneInv, TypeOK
  <2> QED
    BY <1>4, <2>2, <2>3, <2>4
<1>9. CASE Repush(w)
  <2>1. ReadHolds'
    BY <1>9 DEF Repush, Move, ReadHolds, Alone, AloneInv, TypeOK
  <2> QED
    BY <1>3, <1>9, <2>1 DEF Repush
<1> QED
  BY <1>5, <1>6, <1>7, <1>8, <1>9 DEF OutcomeStep
\* Faults of the worker: it lets go, or what it handled has failed.
LEMMA FaultKeeps ==
  ASSUME Alone, AloneInv, NEW w \in Workers, FaultStep(w)
  PROVE  AloneInv'
<1>0. /\ TypeOK' /\ left'["late"] = 0
      /\ rows' = rows /\ clerk' = clerk /\ request' = request
  BY FaultType DEF AloneInv, FaultStep, SucceedRaises, WorkerDies, Spend, TypeOK, Bounds
<1>1. ReadHolds'
  BY DEF FaultStep, SucceedRaises, WorkerDies, Move, AloneInv, ReadHolds, Alone, TypeOK
<1> QED
  BY <1>0, <1>1, RequestsStay, CallsStay DEF AloneInv

\* A live worker's lease has not lapsed: there is nothing to renew.
LEMMA NoHeartbeat ==
  ASSUME AloneInv, NEW w \in Workers
  PROVE  ~Heartbeat(w)
BY DEF Heartbeat, Handling, AloneInv, ReadHolds

\* A lease runs out only where no worker handles the job.
LEMMA RunOutKeeps ==
  ASSUME Alone, AloneInv, NEW j \in Jobs, LeaseRunsOut(j)
  PROVE  AloneInv'
<1>1. \A w \in Workers : pc[w] \in Handling => job[w] # j
  BY DEF LeaseRunsOut, Spend, AloneInv
<1>2. /\ TypeOK' /\ left' = left /\ clerk' = clerk /\ request' = request
      /\ pc' = pc /\ job' = job /\ snap' = snap
  BY <1>1, RunOutType DEF AloneInv, LeaseRunsOut
<1>3. \A k \in Jobs : rows'[k] = IF k = j THEN [rows[k] EXCEPT !.lease = "lapsed"] ELSE rows[k]
  BY DEF LeaseRunsOut, SetLease, AloneInv, TypeOK
<1>4. rows[j] \in Row /\ rows[j].state = "RUNNING" /\ rows[j].lease = "live"
  BY DEF LeaseRunsOut, AloneInv, TypeOK
<1>5. NotYetCreated'
  BY <1>2, <1>3, <1>4 DEF AloneInv, NotYetCreated, Row
<1>6. ReadHolds'
  <2> SUFFICES ASSUME NEW w \in Workers,
                      pc[w] \in {"claiming", "running", "returned", "raised", "failing", "repush"}
               PROVE  rows'[job[w]] = rows[job[w]]
    BY <1>2 DEF AloneInv, ReadHolds, SnapOf
  <2>1. job[w] # j
    BY <1>1, <1>4 DEF Handling, AloneInv, ReadHolds, Waiting
  <2> QED
    BY <1>3, <2>1, HasRow
<1>7. CallHolds'
  BY <1>2, <1>3, <1>4, TargetIs, CallsStay DEF LeaseOver
<1> QED
  BY <1>2, <1>5, <1>6, <1>7 DEF AloneInv

\* The zombie scan and the replay read rows that no worker will move, and
\* still find them so when they write.
LEMMA ClerkKeeps ==
  ASSUME Alone, AloneInv, NEW c \in Clerks,
         (\E op \in ClerkOps : ClerkRead(c, op)) \/ ClerkCommit(c) \/ ClerkHeap(c)
  PROVE  AloneInv'
<1>0. /\ TypeOK' /\ left'["late"] = 0
      /\ request' = request /\ pc' = pc /\ job' = job /\ snap' = snap
  BY ClerkType DEF AloneInv, ClerkRead, ClerkCommit, ClerkHeap, Spend, TypeOK, Bounds
<1>1. ASSUME NEW op \in ClerkOps, ClerkRead(c, op) PROVE AloneInv'
  <2>1. PICK S \in Selections(op) :
          clerk' = [clerk EXCEPT ![c] =
            [pc |-> IF op = "cancel" /\ \A j \in S : rows[j].state = "CANCELLED"
                    THEN "heap" ELSE "commit",
             op |-> op, targets |-> S]]
    BY <1>1 DEF ClerkRead
  <2>2. op \in {"recover", "requeue"}
    BY DEF Alone
  <2>3. clerk'[c] = [pc |-> "commit", op |-> op, targets |-> S]
    BY <2>1, <2>2 DEF AloneInv, TypeOK
  <2>4. rows' = rows
    BY <1>1 DEF ClerkRead
  <2>5. ASSUME op = "recover" PROVE CallHolds'
    <3>1. \A j \in S : LeaseOver(rows[j])
      BY <2>5 DEF Selections, Eligible
    <3> QED
      BY <2>3, <2>4, <2>5, <3>1 DEF CallHolds, LeaseOver, Alone
  <2>6. ASSUME op = "requeue" PROVE CallHolds'
    <3>1. \E j \in Jobs : S = {j} /\ rows[j].state = "DEAD_LETTER"
      BY <2>6 DEF Selections, Eligible
    <3> QED
      BY <2>3, <2>4, <2>6, <3>1 DEF CallHolds, Alone
  <2>7. CallHolds'
    BY <2>2, <2>5, <2>6
  <2> QED
    BY <1>0, <2>4, <2>7, RequestsStay, ReadsStay DEF AloneInv
<1>2. CASE ClerkCommit(c)
  <2>1. clerk[c].pc = "commit" /\ clerk'[c].pc = "heap"
    BY <1>2 DEF ClerkCommit, AloneInv, TypeOK, Call
  <2>2. \A j \in Jobs : j \notin clerk[c].targets => rows'[j] = rows[j]
    BY <1>2 DEF ClerkCommit
  <2>3. NotYetCreated'
    BY <1>0, <2>1, <2>2, TargetIs DEF AloneInv, NotYetCreated, LeaseOver
  <2>4. ReadHolds'
    <3> SUFFICES ASSUME NEW w \in Workers,
                        pc[w] \in {"claiming", "running", "returned", "raised", "failing", "repush"}
                 PROVE  rows'[job[w]] = rows[job[w]]
      BY <1>0 DEF AloneInv, ReadHolds, SnapOf
    <3> QED
      BY <2>1, <2>2, HasRow, NoTarget
  <2>5. CallHolds'
    BY <2>1 DEF CallHolds, Alone
  <2> QED
    BY <1>0, <2>3, <2>4, <2>5 DEF AloneInv
<1>3. CASE ClerkHeap(c)
  <2>1. rows' = rows /\ clerk'[c].pc = "idle"
    BY <1>3 DEF ClerkHeap, NoCall, AloneInv, TypeOK
  <2>2. CallHolds'
    BY <2>1 DEF CallHolds, Alone
  <2> QED
    BY <1>0, <2>1, <2>2, RequestsStay, ReadsStay DEF AloneInv
<1> QED
  BY <1>1, <1>2, <1>3

\* A crash frees the worker and drops the call; the rows stay as they are.
LEMMA CrashKeeps ==
  ASSUME Alone, AloneInv, NEW i \in Instances, Crash(i)
  PROVE  AloneInv'
<1>0. TypeOK' /\ left'["late"] = 0 /\ rows' = rows
  BY CrashType DEF AloneInv, Crash, Spend, TypeOK, Bounds
<1>1. NotYetCreated'
  BY <1>0, RequestsStay DEF Crash
<1>2. ReadHolds'
  BY <1>0 DEF Crash, AloneInv, ReadHolds, SnapOf
<1>3. CallHolds'
  BY <1>0 DEF Crash, AloneInv, CallHolds, LeaseOver, NoCall
<1> QED
  BY <1>0, <1>1, <1>2, <1>3 DEF AloneInv

LEMMA AloneKeeps ==
  ASSUME Alone, AloneInv, [Next]_vars
  PROVE  AloneInv'
<1>1. CASE UNCHANGED vars
  <2>1. TypeOK'
    BY <1>1 DEF vars, AloneInv, TypeOK
  <2> QED
    BY <1>1, <2>1, RequestsStay, CallsStay, ReadsStay DEF vars, AloneInv
<1>2. CASE Next
  BY <1>2, CallerKeeps, RunOutKeeps, ClaimKeeps, OutcomeKeeps, NoHeartbeat, FaultKeeps,
     ClerkKeeps, CrashKeeps DEF Next
<1> QED
  BY <1>1, <1>2

-----------------------------------------------------------------------------
(***************************************************************************)
(* The step simulation: every step is a step of JobPromise or a stutter.   *)
(***************************************************************************)
Phase == [j \in Jobs |-> rows[j].state]
Tries == [j \in Jobs |-> rows[j].attempts]

\* A step that leaves states and attempts alone is a stutter.
LEMMA Stutters ==
  ASSUME \A j \in Jobs : rows'[j].state = rows[j].state /\ rows'[j].attempts = rows[j].attempts
  PROVE  UNCHANGED <<Phase, Tries>>
BY DEF Phase, Tries

\* A write of one state is a step of one job.
LEMMA WritesOne ==
  ASSUME TypeOK, NEW j \in Jobs, NEW s \in States, SetState({j}, s)
  PROVE  Phase' = [Phase EXCEPT ![j] = s] /\ UNCHANGED Tries
<1>1. \A k \in Jobs : rows'[k] = IF k = j THEN [rows[k] EXCEPT !.state = s] ELSE rows[k]
  BY DEF SetState
<1>2. \A k \in Jobs : rows[k] \in Row
  BY DEF TypeOK
<1>3. \A k \in Jobs : /\ rows'[k].state = IF k = j THEN s ELSE rows[k].state
                      /\ rows'[k].attempts = rows[k].attempts
  BY <1>1, <1>2 DEF Row
<1>4. Phase' = [Phase EXCEPT ![j] = s]
  BY <1>3 DEF Phase
<1>5. UNCHANGED Tries
  BY <1>3 DEF Tries
<1> QED
  BY <1>4, <1>5

LEMMA StepSimulates ==
  ASSUME Alone, AloneInv, [Next]_vars
  PROVE  [Promise!Next]_Promise!vars
<1> USE DEF Promise!vars
<1>0. UNCHANGED <<Phase, Tries>> => UNCHANGED Promise!vars
  BY DEF Phase, Tries
<1>1. ASSUME rows' = rows PROVE UNCHANGED Promise!vars
  BY <1>0, <1>1, Stutters
<1>2. ASSUME NEW j \in Jobs, CallerStep(j) PROVE [Promise!Next]_Promise!vars
  <2>1. CASE CreateRow(j)
    <3>1. rows[j].state = "NONE" /\ SetState({j}, "CREATED")
      BY <2>1 DEF CreateRow, AloneInv, NotYetCreated
    <3>2. Promise!Create(j)
      BY <3>1, WritesOne DEF Promise!Create, Promise!Step, Phase, Tries, AloneInv, States
    <3> QED
      BY <3>2 DEF Promise!Next
  <2> QED
    BY <1>1, <1>2, <2>1 DEF CallerStep, Submit, PushNew
<1>3. ASSUME NEW j \in Jobs, LeaseRunsOut(j) PROVE UNCHANGED Promise!vars
  <2>1. \A k \in Jobs : rows'[k].state = rows[k].state /\ rows'[k].attempts = rows[k].attempts
    BY <1>3 DEF LeaseRunsOut, SetLease, AloneInv, TypeOK, Row
  <2> QED
    BY <1>0, <2>1, Stutters
<1>4. ASSUME NEW w \in Workers, ClaimStep(w) PROVE [Promise!Next]_Promise!vars
  <2>1. CASE ClaimCommit(w)
    <3>0. pc[w] = "claiming" /\ rows' = [rows EXCEPT ![job[w]] = ClaimedRow(rows[job[w]], snap[w])]
      BY <2>1 DEF ClaimCommit
    <3>1. PICK j \in Jobs : j = job[w]
      BY <3>0, HasRow
    <3>2. /\ rows[j].state \in Waiting /\ snap[w].attempts = rows[j].attempts
          /\ \A k \in Jobs : rows[k] \in Row
      BY <3>0, <3>1, SnapIs DEF AloneInv, ReadHolds, TypeOK
    <3>3. \A k \in Jobs :
            /\ rows'[k].state = IF k = j THEN "RUNNING" ELSE rows[k].state
            /\ rows'[k].attempts = IF k = j THEN rows[k].attempts + 1 ELSE rows[k].attempts
      BY <3>0, <3>1, <3>2 DEF ClaimedRow, AloneInv, TypeOK
    <3>4. /\ Phase' = [Phase EXCEPT ![j] = "RUNNING"]
          /\ Tries' = [Tries EXCEPT ![j] = @ + 1]
      BY <3>3 DEF Phase, Tries
    <3>5. Promise!Claim(j)
      BY <3>2, <3>4 DEF Promise!Claim, Promise!Step, Phase, Tries, Waiting
    <3> QED
      BY <3>5 DEF Promise!Next
  <2> QED
    BY <1>1, <1>4, <2>1 DEF ClaimStep, Pop, Scan, ClaimPopped, ClaimScanned
<1>5. ASSUME NEW w \in Workers, HandlerStep(w) \/ OutcomeStep(w)
      PROVE  [Promise!Next]_Promise!vars
  <2>1. CASE Succeed(w)
    <3>0. pc[w] = "returned" /\ SetState({job[w]}, "SUCCEEDED")
      BY <2>1 DEF Succeed
    <3>1. PICK j \in Jobs : j = job[w]
      BY <3>0, HasRow
    <3>2. rows[j].state = "RUNNING"
      BY <3>0, <3>1 DEF AloneInv, ReadHolds
    <3>3. Phase' = [Phase EXCEPT ![j] = "SUCCEEDED"] /\ UNCHANGED Tries
      BY <3>0, <3>1, WritesOne DEF AloneInv, States
    <3>4. Promise!Complete(j)
      BY <3>2, <3>3 DEF Promise!Complete, Promise!Step, Phase, Tries
    <3> QED
      BY <3>4 DEF Promise!Next
  <2>2. CASE FailCommit(w)
    <3>0. pc[w] = "failing"
      BY <2>2 DEF FailCommit
    <3>1. PICK j \in Jobs : j = job[w]
      BY <3>0, HasRow
    <3>2. /\ rows[j].state = "RUNNING" /\ snap[w].state = "RUNNING"
          /\ snap[w].attempts = rows[j].attempts /\ rows[j].attempts \in Nat
      BY <3>0, <3>1, SnapIs DEF AloneInv, ReadHolds, TypeOK, Row
    <3>3. AfterFailure(snap[w]) \in States /\ Rewrites(snap[w])
      BY <3>2 DEF AfterFailure, States, Rewrites
    <3>4. SetState({j}, AfterFailure(snap[w]))
      BY <2>2, <3>1, <3>3 DEF FailCommit
    <3>5. Phase' = [Phase EXCEPT ![j] = AfterFailure(snap[w])] /\ UNCHANGED Tries
      BY <3>3, <3>4, WritesOne DEF AloneInv
    <3>6. CASE rows[j].attempts >= MaxAttempts
      <4>1. Promise!Exhaust(j)
        BY <3>2, <3>5, <3>6 DEF Promise!Exhaust, Promise!Step, Phase, Tries, AfterFailure
      <4> QED
        BY <4>1 DEF Promise!Next
    <3>7. CASE rows[j].attempts < MaxAttempts
      <4>0. MaxAttempts \in Nat /\ AfterFailure(snap[w]) = "QUEUED"
        BY <3>2, <3>7, JobQueueAssumption DEF AfterFailure
      <4>1. Promise!Retry(j)
        BY <3>2, <3>5, <3>7, <4>0 DEF Promise!Retry, Promise!Step, Phase, Tries
      <4> QED
        BY <4>1 DEF Promise!Next
    <3> QED
      BY <3>2, <3>6, <3>7, JobQueueAssumption
  <2> QED
    BY <1>1, <1>5, <2>1, <2>2 DEF HandlerStep, HandlerReturns, HandlerRaises, OutcomeStep,
       FailRead, Repush
<1>6. ASSUME NEW w \in Workers, Heartbeat(w) \/ FaultStep(w) PROVE UNCHANGED Promise!vars
  BY <1>1, <1>6, NoHeartbeat DEF FaultStep, SucceedRaises, WorkerDies
<1>7. ASSUME NEW c \in Clerks,
             (\E op \in ClerkOps : ClerkRead(c, op)) \/ ClerkCommit(c) \/ ClerkHeap(c)
      PROVE  [Promise!Next]_Promise!vars
  <2>1. CASE ClerkCommit(c)
    <3>0. clerk[c].pc = "commit"
      BY <2>1 DEF ClerkCommit
    <3>1. \A j \in Jobs : rows'[j] = IF j \in clerk[c].targets
                                     THEN Rewritten(clerk[c].op, rows[j]) ELSE rows[j]
      BY <2>1 DEF ClerkCommit
    <3>2. CASE clerk[c].op = "recover"
      <4>1. \A j \in clerk[c].targets : j \in Jobs /\ LeaseOver(rows[j])
        BY <3>0, <3>2, TargetIs DEF AloneInv, CallHolds
      <4>2. \A j \in Jobs :
              /\ rows'[j].state = IF j \in clerk[c].targets THEN "QUEUED" ELSE rows[j].state
              /\ rows'[j].attempts = rows[j].attempts
        <5>1. \A j \in Jobs : rows[j] \in Row
          BY DEF AloneInv, TypeOK
        <5> QED
          BY <3>1, <3>2, <5>1 DEF Rewritten, Written, Row
      <4>3. clerk[c].targets \in SUBSET {j \in Jobs : Phase[j] = "RUNNING"}
        BY <4>1 DEF Phase, LeaseOver
      <4>4. /\ Phase' = [j \in Jobs |-> IF j \in clerk[c].targets THEN "QUEUED" ELSE Phase[j]]
            /\ UNCHANGED Tries
        BY <4>2 DEF Phase, Tries
      <4>5. Promise!Reclaim
        BY <4>3, <4>4 DEF Promise!Reclaim, Phase, Tries
      <4> QED
        BY <4>5 DEF Promise!Next
    <3>3. CASE clerk[c].op # "recover"
      <4>1. PICK j \in Jobs : clerk[c].targets = {j} /\ rows[j].state = "DEAD_LETTER"
        BY <3>0, <3>3 DEF AloneInv, CallHolds
      <4>2. clerk[c].op = "requeue"
        BY <3>0, <3>3 DEF AloneInv, CallHolds
      <4>3. \A k \in Jobs :
              /\ rows'[k].state = IF k = j THEN "CREATED" ELSE rows[k].state
              /\ rows'[k].attempts = IF k = j THEN 0 ELSE rows[k].attempts
        BY <3>1, <4>1, <4>2 DEF Rewritten
      <4>4. Phase' = [Phase EXCEPT ![j] = "CREATED"] /\ Tries' = [Tries EXCEPT ![j] = 0]
        BY <4>3 DEF Phase, Tries
      <4>5. Promise!Replay(j)
        BY <4>1, <4>4 DEF Promise!Replay, Promise!Step, Phase, Tries
      <4> QED
        BY <4>5 DEF Promise!Next
    <3> QED
      BY <3>2, <3>3
  <2> QED
    BY <1>1, <1>7, <2>1 DEF ClerkRead, ClerkHeap
<1>8. ASSUME NEW i \in Instances, Crash(i) PROVE UNCHANGED Promise!vars
  BY <1>1, <1>8 DEF Crash
<1>9. CASE UNCHANGED vars
  BY <1>1, <1>9 DEF vars
<1> QED
  BY <1>2, <1>3, <1>4, <1>5, <1>6, <1>7, <1>8, <1>9 DEF Next

\* A queue with one worker keeps the documented life of a job, whatever
\* crashes, restarts, database errors, zombie scans and replays come between.
THEOREM OneWorkerKeepsPromise == Alone /\ Spec => KeepsPromise
<1> SUFFICES ASSUME Alone PROVE Spec => KeepsPromise
  OBVIOUS
<1>1. Init => Promise!Init
  BY DEF Init, NoRow, Promise!Init
<1>2. Init => AloneInv
  BY InitType DEF Init, Alone, AloneInv, NotYetCreated, NoRow, ReadHolds, CallHolds, NoCall, Bounds
<1>3. AloneInv /\ [Next]_vars => AloneInv'
  BY AloneKeeps
<1>4. AloneInv /\ [Next]_vars => [Promise!Next]_Promise!vars
  BY StepSimulates
<1> QED
  BY <1>1, <1>2, <1>3, <1>4, PTL DEF Spec, KeepsPromise, Promise!Spec
=============================================================================
