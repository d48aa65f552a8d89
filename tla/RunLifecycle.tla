---------------------------- MODULE RunLifecycle ----------------------------
(***************************************************************************)
(* The life of one agent run: execute_run, resume_run and the step loop    *)
(* they share (app/agent/runtime/runtime.py), its row and its tool calls   *)
(* (runtime/store.py), the run lock (storage/lock.py), the cancel and      *)
(* pause flags (runtime/cancel.py), the startup recovery                   *)
(* (runtime/recovery.py), the risk gate of the tool runtime and the        *)
(* approvals behind it (approval/), and the API calls that drive them.     *)
(*                                                                         *)
(* Runs share no state but quotas, so one run is modelled, with everyone   *)
(* who may work on it.  An action ends at an await: what runs between two  *)
(* of them is one step, and every other coroutine, instance or crash may   *)
(* come in between.                                                        *)
(*                                                                         *)
(* Abstractions: a step asks for one tool call; a call is its call_id,     *)
(* (run, tool, arguments); a checkpoint is the number of steps it counts;  *)
(* tokens, cost and wall clock are limits that may be hit at any time;     *)
(* finish_run, whose write does not depend on its read, is one step.       *)
(***************************************************************************)
EXTENDS Integers, FiniteSets

CONSTANTS
  Calls,         \* call_ids the model may ask for
  Risky,         \* calls of a tool at or above the risk threshold
  Callers,       \* API calls and queue workers in flight at once
  Instances,     \* processes; an instance also names its startup coroutine
  Home,          \* [Callers -> Instances]
  SharedLock,    \* TRUE: Redis lock and flags; FALSE: process-local ones
  Ops,           \* what callers ask for, a subset of AllOps
  MaxSteps,      \* ExecutionBudget.max_steps
  MaxRequests,   \* bound: requests after the one that creates the run
  MaxCrashes,    \* bound: process crashes
  MaxCancels,    \* bound: asyncio cancellations (client gone, worker stopped)
  MaxLapses      \* bound: locks that lapse under a live holder

AllOps == {"resume", "approve", "reject", "cancel", "pause"}
NoCall == "NO_CALL"
NoCheckpoint == -1

ASSUME RunAssumption ==
  /\ Risky \subseteq Calls /\ NoCall \notin Calls
  /\ IsFiniteSet(Callers) /\ IsFiniteSet(Instances)
  /\ Callers \cap Instances = {}
  /\ Home \in [Callers -> Instances]
  \* a process-local lock stands for the runs of one process
  /\ SharedLock \in BOOLEAN /\ (SharedLock \/ \A i, j \in Instances : i = j)
  /\ Ops \subseteq AllOps
  /\ {MaxSteps, MaxRequests, MaxCrashes, MaxCancels, MaxLapses} \subseteq Nat

Drivers == Callers \cup Instances
HomeOf(d) == IF d \in Instances THEN d ELSE Home[d]

VARIABLES
  run,       \* the agent_runs row: [state, checkpoint, finished]
  lock,      \* the run lock is taken
  connected, \* instance -> its RunLockService has opened its Redis client
  flags,     \* cancel and pause flags of the run
  drv,       \* driver -> where it is and what it holds in memory
  current,   \* instances whose version read for set_state_cas is still current
  result,    \* call -> recorded outcome of its tool_calls row
  approval,  \* call -> status of its approval
  status,    \* instance -> "up", "starting" or "down"
  effects,   \* history: call -> times the tool took effect
  lost,      \* history: call -> executions that ended unrecorded
  approved,  \* history: calls whose approval was once APPROVED
  orphaned,  \* history: a driver was lost with the run in its hands
  left       \* what remains of the bounds

vars == <<run, lock, connected, flags, drv, current, result, approval, status,
          effects, lost, approved, orphaned, left>>
tools == <<result, approval, effects, lost, approved>>
world == <<connected, flags, status, orphaned, left>>

AgentState == {"NONE", "REQUESTED", "RUNNING", "WAITING_TOOL", "WAITING_APPROVAL",
               "PAUSED", "COMPLETED", "FAILED", "CANCELLED", "TIMEOUT", "UNKNOWN"}
StaleStates == {"RUNNING", "WAITING_TOOL"}   \* PLANNING is never written

\* created: row inserted; resuming, read: before and after get_run_full;
\* locked: lock taken, RUNNING not written; loop .. stepped: _drive_loop;
\* closing, released: before and after lock.release in the finally block;
\* aborted: CancelledError, CANCELLED written, lock not released;
\* deciding, decided, flagging: inside the approval, cancel and pause calls;
\* listing .. rejudging: startup recovery.
Driving == {"loop", "thinking", "planned", "saved", "calling", "executing",
            "executed", "observed", "stepped"}
Holding == Driving \cup {"locked", "closing", "aborted"}
Recovering == {"listing", "judging", "swapping", "failing", "relisting", "rejudging"}
Pcs == Holding \cup Recovering \cup
  {"idle", "created", "refused", "resuming", "read", "released", "deciding",
   "decided", "flagging"}

Budget == 0 .. MaxSteps
Driver == [pc: Pcs, op: AllOps \cup {"create", "boot"}, seen: Budget \cup {NoCheckpoint},
           steps: Budget, call: Calls \cup {NoCall}, terminal: AgentState]
Idle == [pc |-> "idle", op |-> "boot", seen |-> NoCheckpoint, steps |-> 0,
         call |-> NoCall, terminal |-> "FAILED"]
Bounds == {"requests", "crashes", "cancels", "lapses"}

Init ==
  /\ run = [state |-> "NONE", checkpoint |-> NoCheckpoint, finished |-> FALSE]
  /\ lock = FALSE
  /\ connected = [i \in Instances |-> FALSE]
  /\ flags = {}
  /\ drv = [d \in Drivers |-> Idle]
  /\ current = {}
  /\ result = [c \in Calls |-> "none"]
  /\ approval = [c \in Calls |-> "none"]
  /\ status = [i \in Instances |-> "up"]
  /\ effects = [c \in Calls |-> 0] /\ lost = [c \in Calls |-> 0]
  /\ approved = {} /\ orphaned = FALSE
  /\ left = [b \in Bounds |-> CASE b = "requests" -> MaxRequests
                                [] b = "crashes" -> MaxCrashes
                                [] b = "cancels" -> MaxCancels
                                [] b = "lapses" -> MaxLapses]

At(d, pc) == drv[d].pc = pc
Goto(d, pc) == drv' = [drv EXCEPT ![d] = [@ EXCEPT !.pc = pc]]
Close(d, terminal) ==
  drv' = [drv EXCEPT ![d] = [@ EXCEPT !.pc = "closing", !.terminal = terminal]]
Spend(b) == left[b] > 0 /\ left' = [left EXCEPT ![b] = @ - 1]
Incr(f, S) == [c \in Calls |-> IF c \in S THEN f[c] + 1 ELSE f[c]]

\* set_state is one UPDATE that also bumps the version: a version read before
\* it is no longer current.  finish_run does not bump it.
SetState(s) == run' = [run EXCEPT !.state = s] /\ current' = {}
SetCheckpoint(n) == run' = [run EXCEPT !.checkpoint = n] /\ UNCHANGED current
FinishRun(s) ==
  run' = [run EXCEPT !.state = s, !.finished = TRUE] /\ UNCHANGED current

\* the startup coroutine that is done lets its instance serve
Done(d) ==
  /\ drv' = [drv EXCEPT ![d] = Idle]
  /\ status' = IF d \in Instances THEN [status EXCEPT ![d] = "up"] ELSE status

(***************************************************************************)
(* RunLockService.  The Redis client is opened by acquire only; is_expired *)
(* looks at Redis only once it is open, and at an empty local table before *)
(* that.                                                                   *)
(***************************************************************************)
\* Fault: SET without NX.
AcquiredAlways(d) ==
  lock' = TRUE /\ connected' = [connected EXCEPT ![HomeOf(d)] = SharedLock]
Acquired(d) ==
  /\ ~lock /\ lock' = TRUE
  /\ connected' = [connected EXCEPT ![HomeOf(d)] = SharedLock]
NotAcquired(d) ==
  /\ lock /\ UNCHANGED lock
  /\ connected' = [connected EXCEPT ![HomeOf(d)] = SharedLock]
Expired(i) == ~lock \/ (SharedLock /\ ~connected[i])

\* the TTL: no live holder touches the lock, or (bounded) one step of a live
\* holder takes longer than the TTL.  acquire never looks at the deadline of a
\* process-local lock; only is_expired does, at startup, before anyone can hold it
LockLapses ==
  /\ SharedLock /\ lock
  /\ lock' = FALSE
  /\ IF \E d \in Drivers : drv[d].pc \in Holding
     THEN Spend("lapses") ELSE UNCHANGED left
  /\ UNCHANGED <<run, current, drv, tools, connected, flags, status, orphaned>>

(***************************************************************************)
(* Beginning: execute_run inserts the row; a later execute_run of the same *)
(* run (a redelivered job) fails on the primary key and changes nothing.   *)
(***************************************************************************)
Begun(pc, op, c) == [Idle EXCEPT !.pc = pc, !.op = op, !.call = c]
Serving(d) == d \in Callers /\ At(d, "idle") /\ status[HomeOf(d)] = "up"

CreateRun(d) ==
  /\ Serving(d) /\ run.state = "NONE"
  /\ run' = [run EXCEPT !.state = "REQUESTED"]
  /\ drv' = [drv EXCEPT ![d] = Begun("created", "create", NoCall)]
  /\ UNCHANGED <<lock, current, tools, world>>

AcquireForRun(d) ==
  /\ At(d, "created")
  /\ \/ Acquired(d) /\ Goto(d, "locked")
     \/ NotAcquired(d) /\ Goto(d, "refused")
  /\ UNCHANGED <<run, current, tools, flags, status, orphaned, left>>

FinishRefused(d) ==
  /\ At(d, "refused")
  /\ FinishRun("FAILED")
  /\ Done(d)
  /\ UNCHANGED <<lock, tools, connected, flags, orphaned, left>>

(***************************************************************************)
(* resume_run reads the row, clears the pause flag, and only then takes    *)
(* the lock; it drives from the checkpoint it read.                        *)
(***************************************************************************)
ResumeRead(d) ==
  /\ At(d, "resuming")
  /\ flags' = flags \ {"pause"}
  /\ IF run.state = "COMPLETED" THEN Done(d)
     ELSE /\ drv' = [drv EXCEPT ![d] = [@ EXCEPT !.pc = "read", !.seen = run.checkpoint]]
          /\ UNCHANGED status
  /\ UNCHANGED <<run, lock, current, tools, connected, orphaned, left>>

ResumeAcquire(d) ==
  LET seen == drv[d].seen
  IN  /\ At(d, "read")
      /\ \/ /\ Acquired(d)
            /\ IF seen = NoCheckpoint THEN Close(d, "FAILED")
               ELSE drv' = [drv EXCEPT ![d] =
                      [@ EXCEPT !.pc = "locked", !.steps = seen]]
            /\ UNCHANGED status
         \/ NotAcquired(d) /\ Done(d)
      /\ UNCHANGED <<run, current, tools, flags, orphaned, left>>

Start(d) ==
  /\ At(d, "locked")
  /\ SetState("RUNNING")
  /\ Goto(d, "loop")
  /\ UNCHANGED <<lock, tools, world>>

(***************************************************************************)
(* _drive_loop.                                                            *)
(***************************************************************************)
\* Fault: the step budget is off by one.
LoopVerdictLate(d) ==
  IF drv[d].steps > MaxSteps THEN "TIMEOUT"
  ELSE IF "cancel" \in flags THEN "CANCELLED"
  ELSE IF "pause" \in flags THEN "PAUSED"
  ELSE "RUNNING"
LoopVerdict(d) ==
  IF drv[d].steps >= MaxSteps THEN "TIMEOUT"
  ELSE IF "cancel" \in flags THEN "CANCELLED"
  ELSE IF "pause" \in flags THEN "PAUSED"
  ELSE "RUNNING"

LoopTop(d) ==
  /\ At(d, "loop")
  /\ IF LoopVerdict(d) = "RUNNING" THEN Goto(d, "thinking")
     ELSE Close(d, LoopVerdict(d))
  /\ UNCHANGED <<run, lock, current, tools, world>>

Answer(d) ==
  /\ At(d, "thinking")
  /\ Close(d, "COMPLETED")
  /\ UNCHANGED <<run, lock, current, tools, world>>

\* a call is asked for; the pre-execution checkpoint counts its step
AskTool(d, c) ==
  /\ At(d, "thinking")
  /\ drv' = [drv EXCEPT ![d] =
       [@ EXCEPT !.pc = "planned", !.call = c, !.steps = drv[d].steps + 1]]
  /\ UNCHANGED <<run, lock, current, tools, world>>

SavePlan(d) ==
  /\ At(d, "planned")
  /\ SetCheckpoint(drv[d].steps)
  /\ Goto(d, "saved")
  /\ UNCHANGED <<lock, tools, world>>

WaitTool(d) ==
  /\ At(d, "saved")
  /\ SetState("WAITING_TOOL")
  /\ Goto(d, "calling")
  /\ UNCHANGED <<lock, tools, world>>

\* the risk gate, then the idempotency lookup
\* Fault: only successes are kept from running again.
CachedOk(c) == result[c] = "ok"
Cached(c) == result[c] \in {"ok", "failed"}
\* Fault: an approval that timed out opens the gate.
GateLeaks(c) == c \notin Risky \/ approval[c] \in {"APPROVED", "TIMEOUT"}
GatePasses(c) == c \notin Risky \/ approval[c] = "APPROVED"

PassGate(d) ==
  LET c == drv[d].call
  IN  /\ At(d, "calling") /\ GatePasses(c)
      /\ Goto(d, IF Cached(c) THEN "observed" ELSE "executing")
      /\ UNCHANGED <<run, lock, current, tools, world>>

AwaitApproval(d) ==
  LET c == drv[d].call
  IN  /\ At(d, "calling") /\ ~GatePasses(c)
      /\ approval' = [approval EXCEPT ![c] = IF @ = "none" THEN "PENDING" ELSE @]
      /\ Close(d, "WAITING_APPROVAL")
      /\ UNCHANGED <<run, lock, current, result, effects, lost, approved, world>>

\* policy, limiter or breaker refuse the call: a FAILED observation, written
\* over whatever the call's row held
RefuseCall(d) ==
  LET c == drv[d].call
  IN  /\ At(d, "calling")
      /\ result' = [result EXCEPT ![c] = "failed"]
      /\ Goto(d, "observed")
      /\ UNCHANGED <<run, lock, current, approval, effects, lost, approved, world>>

Perform(d) ==
  LET c == drv[d].call
  IN  /\ At(d, "executing")
      /\ effects' = Incr(effects, {c})
      /\ Goto(d, "executed")
      /\ UNCHANGED <<run, lock, current, result, approval, lost, approved, world>>

\* the tool raises before it has any effect
ToolFails(d) ==
  LET c == drv[d].call
  IN  /\ At(d, "executing")
      /\ result' = [result EXCEPT ![c] = "failed"]
      /\ Goto(d, "observed")
      /\ UNCHANGED <<run, lock, current, approval, effects, lost, approved, world>>

\* Fault: the outcome of a call is not recorded.
RecordNothing(d) ==
  /\ At(d, "executed")
  /\ Goto(d, "observed")
  /\ UNCHANGED <<run, lock, current, tools, world>>

\* idem.set and finalize_tool_call, or only finalize_tool_call after an error
RecordCall(d) ==
  LET c == drv[d].call
  IN  /\ At(d, "executed")
      /\ \E r \in {"ok", "failed"} : result' = [result EXCEPT ![c] = r]
      /\ Goto(d, "observed")
      /\ UNCHANGED <<run, lock, current, approval, effects, lost, approved, world>>
SaveStep(d) ==
  /\ At(d, "observed")
  /\ SetCheckpoint(drv[d].steps)
  /\ Goto(d, "stepped")
  /\ UNCHANGED <<lock, tools, world>>

NextStep(d) ==
  /\ At(d, "stepped")
  /\ SetState("RUNNING")
  /\ Goto(d, "loop")
  /\ UNCHANGED <<lock, tools, world>>

\* A call whose driver leaves may still take effect: a synchronous tool runs
\* on in its thread, a request is already on the wire.
InFlight(d, c) == drv[d].pc \in {"executing", "executed"} /\ drv[d].call = c
Abandon(d) ==
  LET S == {c \in Calls : InFlight(d, c)}
  IN  /\ lost' = Incr(lost, S)
      /\ \/ UNCHANGED effects
         \/ (At(d, "executing") /\ effects' = Incr(effects, S))

\* TIMEOUT: the step timeout; UNKNOWN: a tool timeout; FAILED: anything else
\* that raises (model, loop detection, database)
DriveFails(d) ==
  /\ drv[d].pc \in Driving \ {"loop"}
  /\ \/ ~At(d, "executing") /\ Close(d, "FAILED")
     \/ At(d, "thinking") /\ Close(d, "TIMEOUT")
     \/ At(d, "executing") /\ Close(d, "UNKNOWN")
  /\ Abandon(d)
  /\ UNCHANGED <<run, lock, current, result, approval, approved, world>>

\* RunCancelledError: the watcher has seen the cancel flag during a model or
\* tool call
CancelInFlight(d) ==
  /\ drv[d].pc \in {"thinking", "calling", "executing"} /\ "cancel" \in flags
  /\ Close(d, "CANCELLED")
  /\ Abandon(d)
  /\ UNCHANGED <<run, lock, current, result, approval, approved, world>>

(***************************************************************************)
(* The finally block: the lock goes first, then the row is finished.       *)
(***************************************************************************)
Release(d) ==
  /\ At(d, "closing")
  /\ lock' = FALSE
  /\ Goto(d, "released")
  /\ UNCHANGED <<run, current, tools, world>>

Finish(d) ==
  /\ At(d, "released")
  /\ FinishRun(drv[d].terminal)
  /\ Done(d)
  /\ UNCHANGED <<lock, tools, connected, flags, orphaned, left>>

\* asyncio.CancelledError in an execute_run whose stream was closed or whose
\* worker was stopped.  In the loop the row is finished first and the lock is
\* then released (finish_run of the finally block is not reached: terminal is
\* unbound); before the loop the lock stays; in the finally block what is left
\* of it is skipped.
\* Fault: a cancelled driver leaves the row to the finally block.
FinishNothing == UNCHANGED <<run, current>>
FinishCancelled == FinishRun("CANCELLED")

\* a Redis command that was cut off may have been executed
LockAfterCancel(d) ==
  CASE At(d, "created") /\ SharedLock -> {lock, TRUE}
    [] At(d, "closing") -> IF SharedLock THEN {lock, FALSE} ELSE {FALSE}
    [] OTHER -> {lock}

Cancelled(d) ==
  /\ drv[d].op = "create" /\ Spend("cancels")
  /\ IF drv[d].pc \in Driving
     THEN /\ FinishCancelled /\ Goto(d, "aborted") /\ Abandon(d)
          /\ UNCHANGED <<lock, status, orphaned>>
     ELSE /\ drv[d].pc \in {"created", "refused", "locked", "closing", "released"}
          /\ lock' \in LockAfterCancel(d)
          /\ Done(d) /\ orphaned' = TRUE
          /\ UNCHANGED <<run, current, lost, effects>>
  /\ UNCHANGED <<connected, flags, result, approval, approved>>

ReleaseAborted(d) ==
  /\ At(d, "aborted")
  /\ lock' = FALSE
  /\ Done(d)
  /\ UNCHANGED <<run, current, tools, connected, flags, orphaned, left>>

(***************************************************************************)
(* The API: resume, approve and reject, cancel and pause.                  *)
(***************************************************************************)
Request(d, op) ==
  /\ Serving(d) /\ run.state # "NONE" /\ Spend("requests")
  /\ \/ op = "resume" /\ drv' = [drv EXCEPT ![d] = Begun("resuming", op, NoCall)]
     \/ /\ op \in {"cancel", "pause"} /\ ~run.finished
        /\ drv' = [drv EXCEPT ![d] = Begun("flagging", op, NoCall)]
  /\ UNCHANGED <<run, lock, current, tools, connected, flags, status, orphaned>>

SetFlag(d) ==
  /\ At(d, "flagging")
  /\ flags' = flags \cup {drv[d].op}
  /\ Done(d)
  /\ UNCHANGED <<run, lock, current, tools, connected, orphaned, left>>

\* decide reads the approval; approving what is approved already only resumes
DecideRead(d, c, op) ==
  /\ Serving(d) /\ Spend("requests")
  /\ \/ /\ approval[c] = "PENDING"
        /\ drv' = [drv EXCEPT ![d] = Begun("deciding", op, c)]
     \/ /\ approval[c] = "APPROVED" /\ op = "approve"
        /\ drv' = [drv EXCEPT ![d] = Begun("decided", op, c)]
  /\ UNCHANGED <<run, lock, current, tools, connected, flags, status, orphaned>>

\* the deadline may have passed
DecideCommit(d) ==
  LET c == drv[d].call
  IN  /\ At(d, "deciding")
      /\ \E s \in {"TIMEOUT", IF drv[d].op = "approve" THEN "APPROVED" ELSE "REJECTED"} :
           /\ approval' = [approval EXCEPT ![c] = s]
           /\ IF s = "APPROVED"
              THEN /\ approved' = approved \cup {c} /\ Goto(d, "decided")
                   /\ UNCHANGED status
              ELSE Done(d) /\ UNCHANGED approved
      /\ UNCHANGED <<run, lock, current, result, effects, lost, connected, flags,
                     orphaned, left>>

\* approve resumes the run only if it is waiting for approval right now
ResumeApproved(d) ==
  /\ At(d, "decided")
  /\ IF run.state = "WAITING_APPROVAL" THEN Goto(d, "resuming") /\ UNCHANGED status
     ELSE Done(d)
  /\ UNCHANGED <<run, lock, current, tools, connected, flags, orphaned, left>>

(***************************************************************************)
(* Crashes and the startup recovery: recover_stale_runs, then              *)
(* resume_stale_runs.                                                      *)
(***************************************************************************)
On(i) == {d \in Drivers : HomeOf(d) = i}

Crash(i) ==
  /\ status[i] # "down" /\ Spend("crashes")
  /\ status' = [status EXCEPT ![i] = "down"]
  /\ connected' = [connected EXCEPT ![i] = FALSE]
  /\ drv' = [d \in Drivers |-> IF d \in On(i) THEN Idle ELSE drv[d]]
  /\ lost' = [c \in Calls |-> lost[c] + Cardinality({d \in On(i) : InFlight(d, c)})]
  /\ orphaned' = (orphaned \/ \E d \in On(i) : drv[d].pc \notin {"idle", "flagging"})
  /\ IF SharedLock THEN UNCHANGED <<lock, flags>> ELSE lock' = FALSE /\ flags' = {}
  /\ current' = current \ {i}
  /\ UNCHANGED <<run, result, approval, effects, approved>>

Restart(i) ==
  /\ status[i] = "down"
  /\ status' = [status EXCEPT ![i] = "starting"]
  /\ Goto(i, "listing")
  /\ UNCHANGED <<run, lock, current, tools, connected, flags, orphaned, left>>

\* Fault: the scan leaves out runs that wait for a tool.
IsStaleRunning(i) == run.state = "RUNNING" /\ Expired(i)
IsStale(i) == run.state \in StaleStates /\ Expired(i)

ListToAbandon(i) ==
  /\ At(i, "listing")
  /\ Goto(i, IF IsStale(i) THEN "judging" ELSE "relisting")
  /\ UNCHANGED <<run, lock, current, tools, world>>

Judge(i) ==
  /\ At(i, "judging")
  /\ IF run.checkpoint # NoCheckpoint
     THEN Goto(i, "relisting") /\ UNCHANGED current
     ELSE Goto(i, "swapping") /\ current' = current \cup {i}
  /\ UNCHANGED <<run, lock, tools, world>>

CompareAndFail(i) ==
  /\ At(i, "swapping")
  /\ IF i \in current
     THEN SetState("FAILED") /\ Goto(i, "failing")
     ELSE Goto(i, "relisting") /\ UNCHANGED <<run, current>>
  /\ UNCHANGED <<lock, tools, world>>

FinishAbandoned(i) ==
  /\ At(i, "failing")
  /\ FinishRun("FAILED")
  /\ Goto(i, "relisting")
  /\ UNCHANGED <<lock, tools, world>>

ListToResume(i) ==
  /\ At(i, "relisting")
  /\ IF IsStale(i) THEN Goto(i, "rejudging") /\ UNCHANGED status ELSE Done(i)
  /\ UNCHANGED <<run, lock, current, tools, connected, flags, orphaned, left>>

JudgeResumable(i) ==
  /\ At(i, "rejudging")
  /\ IF run.checkpoint # NoCheckpoint
     THEN Goto(i, "resuming") /\ UNCHANGED status ELSE Done(i)
  /\ UNCHANGED <<run, lock, current, tools, connected, flags, orphaned, left>>

-----------------------------------------------------------------------------
Drive(d) ==
  \/ AcquireForRun(d) \/ FinishRefused(d) \/ ResumeRead(d) \/ ResumeAcquire(d)
  \/ Start(d) \/ LoopTop(d) \/ Answer(d) \/ (\E c \in Calls : AskTool(d, c))
  \/ SavePlan(d) \/ WaitTool(d) \/ PassGate(d) \/ AwaitApproval(d)
  \/ RefuseCall(d) \/ Perform(d) \/ ToolFails(d) \/ RecordCall(d)
  \/ SaveStep(d) \/ NextStep(d) \/ DriveFails(d) \/ CancelInFlight(d)
  \/ Release(d) \/ Finish(d) \/ ReleaseAborted(d)
  \/ SetFlag(d) \/ DecideCommit(d) \/ ResumeApproved(d)

Recover(i) ==
  \/ ListToAbandon(i) \/ Judge(i) \/ CompareAndFail(i) \/ FinishAbandoned(i)
  \/ ListToResume(i) \/ JudgeResumable(i)

Call(d) ==
  \/ CreateRun(d)
  \/ \E op \in Ops : Request(d, op)
  \/ \E c \in Calls, op \in Ops \cap {"approve", "reject"} : DecideRead(d, c, op)

Next ==
  \/ \E d \in Drivers : Drive(d)
  \/ \E d \in Callers : Call(d) \/ Cancelled(d)
  \/ \E i \in Instances : Recover(i) \/ Restart(i) \/ Crash(i)
  \/ LockLapses

Spec == Init /\ [][Next]_vars

\* Coroutines that can go on do, a crashed instance is restarted, and a lock
\* nobody touches lapses; nobody has to call, crash or cancel.
Fairness ==
  /\ \A d \in Drivers : WF_vars(Drive(d))
  /\ \A i \in Instances : WF_vars(Recover(i)) /\ WF_vars(Restart(i))
  /\ WF_vars(LockLapses /\ UNCHANGED left)
FairSpec == Spec /\ Fairness

-----------------------------------------------------------------------------
(***************************************************************************)
(* Properties.                                                             *)
(***************************************************************************)

\* Every variable keeps its type, and no driver counts more steps than the
\* budget of the run, across any number of resumes.
TypeOK ==
  /\ run \in [state: AgentState, checkpoint: Budget \cup {NoCheckpoint},
              finished: BOOLEAN]
  /\ lock \in BOOLEAN
  /\ connected \in [Instances -> BOOLEAN]
  /\ flags \subseteq {"cancel", "pause"}
  /\ drv \in [Drivers -> Driver]
  /\ current \subseteq Instances
  /\ result \in [Calls -> {"none", "ok", "failed"}]
  /\ approval \in [Calls -> {"none", "PENDING", "APPROVED", "REJECTED", "TIMEOUT"}]
  /\ status \in [Instances -> {"up", "starting", "down"}]
  /\ effects \in [Calls -> Nat] /\ lost \in [Calls -> Nat]
  /\ approved \subseteq Calls
  /\ orphaned \in BOOLEAN
  /\ left \in [Bounds -> Nat]

\* "Only one executor of a run at a time": no two coroutines are between
\* taking and releasing the run lock, whatever resumes, crashes, restarts
\* and disconnects do.  It needs a lock that outlives each step of its holder.
OneDriver ==
  \A d, e \in Drivers : drv[d].pc \in Holding /\ drv[e].pc \in Holding => d = e

\* A run whose row says it is being executed is in somebody's hands, who will
\* write its outcome, unless a driver was lost: no interleaving of resume,
\* recovery and finish_run leaves RUNNING behind.
ActiveIsOwned ==
  run.state \in StaleStates =>
    \/ orphaned
    \/ \E d \in Drivers : drv[d].pc \in Driving \cup {"closing", "released"}

\* A tool takes effect twice for one call_id only if an execution ended
\* without its outcome being recorded (crash, disconnect, tool timeout,
\* cancellation in flight): the idempotency record covers everything else.
RepeatNeedsLoss == \A c \in Calls : effects[c] <= 1 + lost[c]

\* No run, resumed or not, repeats a call whose outcome is on record.
RecordedNotRepeated ==
  [][\A c \in Calls :
       result[c] \in {"ok", "failed"} => effects'[c] = effects[c]]_vars

\* A tool above the risk threshold takes effect only for a call that somebody
\* approved, through every resume, late decision and timeout.
EffectWasApproved ==
  \A c \in Calls \cap Risky : effects[c] > 0 => c \in approved

\* A run that is RUNNING or WAITING_TOOL does not stay so for ever: it is
\* driven to an outcome, or recovered after a crash.
ActiveEnds == run.state \in StaleStates ~> run.state \notin StaleStates

\* "A run that completed is not replayed" (resume_run): nothing takes the row
\* out of COMPLETED.
CompletedIsFinal == [][run.state = "COMPLETED" => run'.state = "COMPLETED"]_vars

\* "Drives the loop again from the last checkpoint" (resume_run).
ResumesFromLast ==
  \A d \in Drivers : At(d, "locked") /\ drv[d].op # "create" =>
    drv[d].steps = run.checkpoint

\* "Lock expired, no checkpoint: FAILED" (recovery): a run whose executor is
\* alive is not declared abandoned.
LiveNotAbandoned ==
  \A i \in Instances : At(i, "failing") =>
    \A d \in Drivers : drv[d].pc \notin Driving

\* "Tool side effects at most once" (recovery, resume_run).
AtMostOnce == \A c \in Calls : effects[c] <= 1

\* "Approving resumes the run" (approval API): a run does not wait for ever for
\* an approval that was given.
ApprovedIsResumed ==
  \A c \in Calls :
    approval[c] = "APPROVED" /\ run.state = "WAITING_APPROVAL"
      ~> run.state # "WAITING_APPROVAL"
=============================================================================
