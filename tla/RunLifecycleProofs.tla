------------------------- MODULE RunLifecycleProofs -------------------------
(***************************************************************************)
(* Proofs about RunLifecycle, for any number of callers, instances and     *)
(* tool calls, any placement, either lock and any bounds.                  *)
(***************************************************************************)
EXTENDS RunLifecycle, FiniteSetTheorems, TLAPS

\* What one step leaves for the next: who waits for the model has a step left
\* (LoopTop, for AskTool), a cancel or pause call sets its own flag and a
\* decision is about a call (Request and DecideRead, for their second halves).
Entrusted == {"thinking", "flagging", "deciding"}
InTrust ==
  \A d \in Drivers :
    /\ At(d, "thinking") => drv[d].steps < MaxSteps
    /\ At(d, "flagging") => drv[d].op \in {"cancel", "pause"}
    /\ At(d, "deciding") => drv[d].call \in Calls
TypeInv == TypeOK /\ InTrust

-----------------------------------------------------------------------------
\* Every driver lives on an instance.
LEMMA HomeType == \A d \in Drivers : HomeOf(d) \in Instances
BY RunAssumption DEF Drivers, HomeOf

\* A driver at rest is a driver.
LEMMA IdleType == Idle \in Driver
BY RunAssumption DEF Idle, Driver, Pcs, AllOps, Budget, AgentState, NoCheckpoint

\* The updates of a driver's record the actions make keep it a driver.
LEMMA UpdateType ==
  ASSUME NEW r \in Driver
  PROVE  /\ \A pc \in Pcs : [r EXCEPT !.pc = pc] \in Driver
         /\ \A t \in AgentState : [r EXCEPT !.pc = "closing", !.terminal = t] \in Driver
         /\ \A n \in Budget : [r EXCEPT !.pc = "locked", !.steps = n] \in Driver
         /\ \A n \in Budget \cup {NoCheckpoint} : [r EXCEPT !.pc = "read", !.seen = n] \in Driver
         /\ \A n \in Budget, c \in Calls :
              [r EXCEPT !.pc = "planned", !.call = c, !.steps = n] \in Driver
<1>1. {"closing", "locked", "read", "planned"} \subseteq Pcs
  BY DEF Pcs, Holding, Driving
<1>2. \A pc \in Pcs : [r EXCEPT !.pc = pc] \in Driver
  BY DEF Driver
<1>3. \A t \in AgentState : [r EXCEPT !.pc = "closing", !.terminal = t] \in Driver
  BY <1>1 DEF Driver
<1>4. \A n \in Budget : [r EXCEPT !.pc = "locked", !.steps = n] \in Driver
  BY <1>1 DEF Driver
<1>5. \A n \in Budget \cup {NoCheckpoint} : [r EXCEPT !.pc = "read", !.seen = n] \in Driver
  BY <1>1 DEF Driver
<1>6. \A n \in Budget, c \in Calls :
        [r EXCEPT !.pc = "planned", !.call = c, !.steps = n] \in Driver
  BY <1>1 DEF Driver
<1> QED
  BY <1>2, <1>3, <1>4, <1>5, <1>6

\* Goto moves one driver and changes only its position.
LEMMA GotoType ==
  ASSUME drv \in [Drivers -> Driver], NEW d \in Drivers, NEW pc \in Pcs, Goto(d, pc)
  PROVE  /\ drv' \in [Drivers -> Driver]
         /\ drv'[d].pc = pc /\ drv'[d].op = drv[d].op /\ drv'[d].seen = drv[d].seen
         /\ drv'[d].steps = drv[d].steps /\ drv'[d].call = drv[d].call
         /\ drv'[d].terminal = drv[d].terminal
         /\ \A e \in Drivers \ {d} : drv'[e] = drv[e]
<1>1. drv' \in [Drivers -> Driver] /\ drv'[d] = [drv[d] EXCEPT !.pc = pc]
      /\ \A e \in Drivers \ {d} : drv'[e] = drv[e]
  BY UpdateType DEF Goto
<1> QED
  BY <1>1 DEF Driver

\* Close moves one driver to its finally block.
LEMMA CloseType ==
  ASSUME drv \in [Drivers -> Driver], NEW d \in Drivers, NEW t \in AgentState, Close(d, t)
  PROVE  /\ drv' \in [Drivers -> Driver]
         /\ drv'[d].pc = "closing" /\ drv'[d].terminal = t
         /\ drv'[d].steps = drv[d].steps /\ drv'[d].call = drv[d].call
         /\ \A e \in Drivers \ {d} : drv'[e] = drv[e]
<1>1. drv' \in [Drivers -> Driver]
      /\ drv'[d] = [drv[d] EXCEPT !.pc = "closing", !.terminal = t]
      /\ \A e \in Drivers \ {d} : drv'[e] = drv[e]
  BY UpdateType DEF Close
<1> QED
  BY <1>1 DEF Driver

\* A driver that is done is idle, and its instance serves.
LEMMA DoneType ==
  ASSUME TypeOK, NEW d \in Drivers, Done(d)
  PROVE  /\ drv' \in [Drivers -> Driver]
         /\ drv'[d] = Idle
         /\ \A e \in Drivers \ {d} : drv'[e] = drv[e]
         /\ status' \in [Instances -> {"up", "starting", "down"}]
BY IdleType DEF Done, TypeOK

\* A driver that moves anywhere but to an entrusted position keeps what the
\* other drivers rely on.
LEMMA GotoInv ==
  ASSUME TypeInv, NEW d \in Drivers, NEW pc \in Pcs \ Entrusted, Goto(d, pc)
  PROVE  drv' \in [Drivers -> Driver] /\ InTrust'
BY GotoType DEF TypeInv, TypeOK, InTrust, At, Entrusted

LEMMA CloseInv ==
  ASSUME TypeInv, NEW d \in Drivers, NEW t \in AgentState, Close(d, t)
  PROVE  drv' \in [Drivers -> Driver] /\ InTrust'
BY CloseType DEF TypeInv, TypeOK, InTrust, At

LEMMA DoneInv ==
  ASSUME TypeInv, NEW d \in Drivers, Done(d)
  PROVE  /\ drv' \in [Drivers -> Driver] /\ InTrust'
         /\ status' \in [Instances -> {"up", "starting", "down"}]
BY DoneType DEF TypeInv, InTrust, At, Idle

\* Writing a field of the row keeps the row's type.
LEMMA RowType ==
  ASSUME TypeOK
  PROVE  /\ \A s \in AgentState : SetState(s) \/ FinishRun(s) =>
              run' \in [state: AgentState, checkpoint: Budget \cup {NoCheckpoint},
                        finished: BOOLEAN] /\ current' \subseteq Instances
         /\ \A n \in Budget : SetCheckpoint(n) =>
              run' \in [state: AgentState, checkpoint: Budget \cup {NoCheckpoint},
                        finished: BOOLEAN] /\ current' \subseteq Instances
BY DEF TypeOK, SetState, FinishRun, SetCheckpoint

\* Opening the Redis client keeps the table of clients.
LEMMA LockType ==
  ASSUME TypeOK, NEW d \in Drivers, Acquired(d) \/ NotAcquired(d)
  PROVE  lock' \in BOOLEAN /\ connected' \in [Instances -> BOOLEAN]
BY HomeType, RunAssumption DEF TypeOK, Acquired, NotAcquired

\* Counting keeps the counters natural.
LEMMA IncrType ==
  ASSUME NEW f \in [Calls -> Nat], NEW S
  PROVE  Incr(f, S) \in [Calls -> Nat]
BY DEF Incr

\* Spending a bound keeps the bounds natural.
LEMMA SpendType ==
  ASSUME TypeOK, NEW b \in Bounds, Spend(b)
  PROVE  left' \in [Bounds -> Nat]
BY DEF TypeOK, Spend

\* A driver past the model's answer has a call in its hands.
LEMMA AbandonType ==
  ASSUME TypeOK, NEW d \in Drivers, Abandon(d)
  PROVE  effects' \in [Calls -> Nat] /\ lost' \in [Calls -> Nat]
BY IncrType DEF TypeOK, Abandon

-----------------------------------------------------------------------------
\* The initial state has its types.
LEMMA InitType == Init => TypeInv
<1> SUFFICES ASSUME Init PROVE TypeInv
  OBVIOUS
<1>1. left \in [Bounds -> Nat]
  BY RunAssumption DEF Init, Bounds
<1>2. drv \in [Drivers -> Driver] /\ InTrust
  BY IdleType DEF Init, InTrust, At, Idle
<1> QED
  BY <1>1, <1>2 DEF Init, TypeInv, TypeOK, AgentState

\* Beginning and resuming a run keep the types.
LEMMA BeginType ==
  ASSUME TypeInv, NEW d \in Drivers,
         \/ AcquireForRun(d) \/ FinishRefused(d) \/ ResumeRead(d)
         \/ ResumeAcquire(d) \/ Start(d)
  PROVE  TypeInv'
<1> USE DEF TypeInv
<1>1. CASE AcquireForRun(d)
  <2>1. PICK pc \in {"locked", "refused"} : Goto(d, pc)
    BY <1>1 DEF AcquireForRun
  <2>2. pc \in Pcs
    BY DEF Pcs, Holding
  <2>3. pc \in Pcs \ Entrusted
    BY <2>2 DEF Entrusted
  <2> QED
    BY <1>1, <2>1, <2>3, GotoInv, LockType
       DEF AcquireForRun, TypeOK, tools
<1>2. CASE FinishRefused(d)
  BY <1>2, DoneInv, RowType DEF FinishRefused, TypeOK, tools, AgentState
<1>3. CASE ResumeRead(d)
  <2>1. CASE run.state = "COMPLETED"
    BY <1>3, <2>1, DoneInv DEF ResumeRead, TypeOK, tools
  <2>2. CASE run.state # "COMPLETED"
    <3>1. drv' = [drv EXCEPT ![d] = [@ EXCEPT !.pc = "read", !.seen = run.checkpoint]]
      BY <1>3, <2>2 DEF ResumeRead
    <3>2. run.checkpoint \in Budget \cup {NoCheckpoint} /\ "read" \in Pcs
      BY DEF TypeOK, Pcs
    <3>3. drv' \in [Drivers -> Driver]
      BY <3>1, <3>2, UpdateType DEF TypeOK
    <3>4. InTrust'
      BY <3>1 DEF InTrust, At, TypeOK, Driver
    <3> QED
      BY <1>3, <2>2, <3>3, <3>4 DEF ResumeRead, TypeOK, tools
  <2> QED
    BY <2>1, <2>2
<1>4. CASE ResumeAcquire(d)
  <2>1. CASE NotAcquired(d) /\ Done(d)
    BY <1>4, <2>1, DoneInv, LockType DEF ResumeAcquire, TypeOK, tools
  <2>2. CASE Acquired(d) /\ drv[d].seen = NoCheckpoint /\ Close(d, "FAILED") /\ UNCHANGED status
    <3>1. "FAILED" \in AgentState
      BY DEF AgentState
    <3> QED
      BY <1>4, <2>2, <3>1, CloseInv, LockType
         DEF ResumeAcquire, TypeOK, tools
  <2>3. CASE /\ Acquired(d) /\ drv[d].seen # NoCheckpoint /\ UNCHANGED status
             /\ drv' = [drv EXCEPT ![d] = [@ EXCEPT !.pc = "locked", !.steps = drv[d].seen]]
    <3>1. drv[d].seen \in Budget /\ "locked" \in Pcs
      BY <2>3 DEF TypeOK, Driver, Pcs, Holding
    <3>2. drv' \in [Drivers -> Driver]
      BY <2>3, <3>1, UpdateType DEF TypeOK
    <3>3. InTrust'
      BY <2>3 DEF InTrust, At, TypeOK, Driver
    <3> QED
      BY <1>4, <2>3, <3>2, <3>3, LockType DEF ResumeAcquire, TypeOK, tools
  <2> QED
    BY <1>4, <2>1, <2>2, <2>3 DEF ResumeAcquire
<1>5. CASE Start(d)
  <2>1. "loop" \in Pcs \ Entrusted /\ "RUNNING" \in AgentState
    BY DEF Pcs, Holding, Driving, AgentState, Entrusted
  <2> QED
    BY <1>5, <2>1, GotoInv, RowType
       DEF Start, TypeOK, tools, world
<1> QED
  BY <1>1, <1>2, <1>3, <1>4, <1>5

\* The model's turn keeps the types: the loop lets a driver think only while a
\* step is left, so asking for a call stays within the budget.
LEMMA ThinkType ==
  ASSUME TypeInv, NEW d \in Drivers,
         \/ LoopTop(d) \/ Answer(d) \/ (\E c \in Calls : AskTool(d, c))
         \/ SavePlan(d) \/ WaitTool(d) \/ SaveStep(d) \/ NextStep(d)
  PROVE  TypeInv'
<1> USE DEF TypeInv
<1>0. /\ {"saved", "calling", "stepped", "loop"} \subseteq Pcs \ Entrusted
      /\ "thinking" \in Pcs
  BY DEF Pcs, Holding, Driving, Entrusted
<1>1. CASE LoopTop(d)
  <2>1. CASE LoopVerdict(d) = "RUNNING"
    <3>1. drv[d].steps \in Nat /\ MaxSteps \in Nat
      BY RunAssumption DEF TypeOK, Driver, Budget
    <3>2. drv[d].steps < MaxSteps
      BY <2>1, <3>1 DEF LoopVerdict
    <3>3. drv' \in [Drivers -> Driver] /\ InTrust'
      BY <1>0, <1>1, <2>1, <3>2, GotoType DEF LoopTop, TypeOK, InTrust, At
    <3> QED
      BY <1>1, <3>3 DEF LoopTop, TypeOK, tools, world
  <2>2. CASE LoopVerdict(d) # "RUNNING"
    <3>1. LoopVerdict(d) \in AgentState
      BY DEF LoopVerdict, AgentState
    <3> QED
      BY <1>1, <2>2, <3>1, CloseInv DEF LoopTop, TypeOK, tools, world
  <2> QED
    BY <2>1, <2>2
<1>2. CASE Answer(d)
  <2>1. "COMPLETED" \in AgentState
    BY DEF AgentState
  <2> QED
    BY <1>2, <2>1, CloseInv DEF Answer, TypeOK, tools, world
<1>3. ASSUME NEW c \in Calls, AskTool(d, c) PROVE TypeInv'
  <2>1. drv[d].steps + 1 \in Budget
    <3>1. drv[d].steps \in Nat /\ MaxSteps \in Nat
      BY RunAssumption DEF TypeOK, Driver, Budget
    <3>2. drv[d].steps < MaxSteps
      BY <1>3 DEF AskTool, InTrust
    <3> QED
      BY <3>1, <3>2 DEF Budget
  <2>2. drv' = [drv EXCEPT ![d] =
                 [@ EXCEPT !.pc = "planned", !.call = c, !.steps = drv[d].steps + 1]]
    BY <1>3 DEF AskTool
  <2>3. drv' \in [Drivers -> Driver]
    BY <2>1, <2>2, UpdateType DEF TypeOK
  <2>4. drv'[d].pc = "planned" /\ \A e \in Drivers \ {d} : drv'[e] = drv[e]
    BY <2>2 DEF TypeOK, Driver
  <2>5. InTrust'
    BY <2>4 DEF InTrust, At
  <2> QED
    BY <1>3, <2>3, <2>5 DEF AskTool, TypeOK, tools, world
<1>4. CASE SavePlan(d)
  <2>1. drv[d].steps \in Budget
    BY DEF TypeOK, Driver
  <2> QED
    BY <1>0, <1>4, <2>1, GotoInv, RowType
       DEF SavePlan, TypeOK, tools, world
<1>5. CASE WaitTool(d)
  <2>1. "WAITING_TOOL" \in AgentState
    BY DEF AgentState
  <2> QED
    BY <1>0, <1>5, <2>1, GotoInv, RowType
       DEF WaitTool, TypeOK, tools, world
<1>6. CASE SaveStep(d)
  <2>1. drv[d].steps \in Budget
    BY DEF TypeOK, Driver
  <2> QED
    BY <1>0, <1>6, <2>1, GotoInv, RowType
       DEF SaveStep, TypeOK, tools, world
<1>7. CASE NextStep(d)
  <2>1. "RUNNING" \in AgentState
    BY DEF AgentState
  <2> QED
    BY <1>0, <1>7, <2>1, GotoInv, RowType
       DEF NextStep, TypeOK, tools, world
<1> QED
  BY <1>1, <1>2, <1>3, <1>4, <1>5, <1>6, <1>7

\* A driver inside a tool call holds one.
LEMMA CallHeld ==
  ASSUME TypeOK, NEW d \in Drivers, drv[d].call # NoCall
  PROVE  drv[d].call \in Calls
BY DEF TypeOK, Driver

\* The tool pipeline keeps the types.
LEMMA ToolType ==
  ASSUME TypeInv, NEW d \in Drivers,
         \/ PassGate(d) \/ AwaitApproval(d) \/ RefuseCall(d) \/ Perform(d)
         \/ ToolFails(d) \/ RecordCall(d) \/ DriveFails(d) \/ CancelInFlight(d)
  PROVE  TypeInv'
<1> USE DEF TypeInv
<1>0. /\ {"observed", "executing", "executed"} \subseteq Pcs \ Entrusted
      /\ {"WAITING_APPROVAL", "FAILED", "TIMEOUT", "UNKNOWN", "CANCELLED"} \subseteq AgentState
  BY DEF Pcs, Holding, Driving, AgentState, Entrusted
<1>1. CASE PassGate(d)
  <2>1. PICK pc \in {"observed", "executing"} : Goto(d, pc)
    BY <1>1 DEF PassGate
  <2> QED
    BY <1>0, <1>1, <2>1, GotoInv DEF PassGate, TypeOK, tools, world
<1>2. CASE AwaitApproval(d)
  BY <1>0, <1>2, CloseInv DEF AwaitApproval, TypeOK, world
<1>3. CASE RefuseCall(d)
  BY <1>0, <1>3, GotoInv DEF RefuseCall, TypeOK, world
<1>4. CASE Perform(d)
  BY <1>0, <1>4, GotoInv, IncrType DEF Perform, TypeOK, world
<1>5. CASE ToolFails(d)
  BY <1>0, <1>5, GotoInv DEF ToolFails, TypeOK, world
<1>6. CASE RecordCall(d)
  <2>1. PICK r \in {"ok", "failed"} : result' = [result EXCEPT ![drv[d].call] = r]
    BY <1>6 DEF RecordCall
  <2>2. drv' \in [Drivers -> Driver] /\ InTrust'
    BY <1>0, <1>6, GotoInv DEF RecordCall
  <2> QED
    BY <1>6, <2>1, <2>2 DEF RecordCall, TypeOK, world
<1>7. CASE DriveFails(d)
  <2>1. PICK t \in {"FAILED", "TIMEOUT", "UNKNOWN"} : Close(d, t)
    BY <1>7 DEF DriveFails
  <2> QED
    BY <1>0, <1>7, <2>1, CloseInv, AbandonType DEF DriveFails, TypeOK, world
<1>8. CASE CancelInFlight(d)
  BY <1>0, <1>8, CloseInv, AbandonType DEF CancelInFlight, TypeOK, world
<1> QED
  BY <1>1, <1>2, <1>3, <1>4, <1>5, <1>6, <1>7, <1>8

\* Ending a drive keeps the types.
LEMMA EndType ==
  ASSUME TypeInv, NEW d \in Drivers,
         Release(d) \/ Finish(d) \/ ReleaseAborted(d) \/ Cancelled(d)
  PROVE  TypeInv'
<1> USE DEF TypeInv
<1>1. CASE Release(d)
  <2>1. "released" \in Pcs \ Entrusted
    BY DEF Pcs, Entrusted
  <2> QED
    BY <1>1, <2>1, GotoInv DEF Release, TypeOK, tools, world
<1>2. CASE Finish(d)
  <2>1. drv[d].terminal \in AgentState
    BY DEF TypeOK, Driver
  <2> QED
    BY <1>2, <2>1, DoneInv, RowType DEF Finish, TypeOK, tools
<1>3. CASE ReleaseAborted(d)
  BY <1>3, DoneInv DEF ReleaseAborted, TypeOK, tools
<1>4. CASE Cancelled(d)
  <2>0. left' \in [Bounds -> Nat]
    BY <1>4, SpendType DEF Cancelled, Bounds
  <2>1. CASE drv[d].pc \in Driving
    <3>1. "aborted" \in Pcs \ Entrusted /\ "CANCELLED" \in AgentState
      BY DEF Pcs, Holding, AgentState, Entrusted
    <3> QED
      BY <1>4, <2>0, <2>1, <3>1, GotoInv, RowType, AbandonType
         DEF Cancelled, FinishCancelled, TypeOK
  <2>2. CASE drv[d].pc \notin Driving
    <3>1. lock' \in BOOLEAN
      BY <1>4, <2>2 DEF Cancelled, LockAfterCancel, TypeOK
    <3> QED
      BY <1>4, <2>0, <2>2, <3>1, DoneInv DEF Cancelled, TypeOK
  <2> QED
    BY <2>1, <2>2
<1> QED
  BY <1>1, <1>2, <1>3, <1>4

\* A caller that begins is a driver.
LEMMA BeginnerType ==
  ASSUME NEW pc \in Pcs, NEW op \in AllOps \cup {"create"}, NEW c \in Calls \cup {NoCall}
  PROVE  Begun(pc, op, c) \in Driver
BY IdleType DEF Begun, Driver

\* The API calls keep the types.
LEMMA ApiType ==
  ASSUME TypeInv, NEW d \in Drivers,
         Call(d) \/ SetFlag(d) \/ DecideCommit(d) \/ ResumeApproved(d)
  PROVE  TypeInv'
<1> USE DEF TypeInv
<1>0. /\ {"resuming", "decided"} \subseteq Pcs \ Entrusted
      /\ {"created", "resuming", "flagging", "deciding", "decided"} \subseteq Pcs
  BY DEF Pcs, Entrusted
<1>a. ASSUME NEW pc \in {"created", "resuming", "flagging", "deciding", "decided"},
             NEW op \in AllOps \cup {"create"}, NEW c \in Calls \cup {NoCall},
             pc = "flagging" => op \in {"cancel", "pause"},
             pc = "deciding" => c \in Calls,
             drv' = [drv EXCEPT ![d] = Begun(pc, op, c)]
      PROVE  drv' \in [Drivers -> Driver] /\ InTrust'
  <2>1. Begun(pc, op, c) \in Driver
    BY <1>0, BeginnerType
  <2>2. drv' \in [Drivers -> Driver]
    BY <1>a, <2>1 DEF TypeOK
  <2>3. /\ drv'[d].pc = pc /\ drv'[d].op = op /\ drv'[d].call = c
        /\ \A e \in Drivers \ {d} : drv'[e] = drv[e]
    BY <1>a DEF TypeOK, Begun, Idle
  <2> QED
    BY <1>a, <2>2, <2>3 DEF InTrust, At
<1>1. CASE CreateRun(d)
  <2>1. drv' \in [Drivers -> Driver] /\ InTrust'
    BY <1>1, <1>a DEF CreateRun
  <2>2. run' \in [state: AgentState, checkpoint: Budget \cup {NoCheckpoint}, finished: BOOLEAN]
    BY <1>1 DEF CreateRun, TypeOK, AgentState
  <2> QED
    BY <1>1, <2>1, <2>2 DEF CreateRun, TypeOK, tools, world
<1>2. ASSUME NEW op \in Ops, Request(d, op) PROVE TypeInv'
  <2>1. op \in AllOps /\ left' \in [Bounds -> Nat]
    BY <1>2, RunAssumption, SpendType DEF Request, Bounds
  <2>2. PICK pc \in {"resuming", "flagging"} :
          /\ drv' = [drv EXCEPT ![d] = Begun(pc, op, NoCall)]
          /\ pc = "flagging" => op \in {"cancel", "pause"}
    BY <1>2 DEF Request
  <2>4. drv' \in [Drivers -> Driver] /\ InTrust'
    BY <1>a, <2>1, <2>2
  <2> QED
    BY <1>2, <2>1, <2>4 DEF Request, TypeOK, tools
<1>3. ASSUME NEW c \in Calls, NEW op \in Ops, DecideRead(d, c, op) PROVE TypeInv'
  <2>1. op \in AllOps /\ left' \in [Bounds -> Nat]
    BY <1>3, RunAssumption, SpendType DEF DecideRead, Bounds
  <2>2. drv' \in [Drivers -> Driver] /\ InTrust'
    BY <1>3, <1>a, <2>1 DEF DecideRead
  <2> QED
    BY <1>3, <2>1, <2>2 DEF DecideRead, TypeOK, tools
<1>4. CASE SetFlag(d)
  <2>1. flags' \subseteq {"cancel", "pause"}
    BY <1>4 DEF SetFlag, InTrust, TypeOK
  <2> QED
    BY <1>4, <2>1, DoneInv DEF SetFlag, TypeOK, tools
<1>5. CASE DecideCommit(d)
  <2>1. drv[d].call \in Calls
    BY <1>5 DEF DecideCommit, InTrust
  <2>2. PICK s \in {"TIMEOUT", "APPROVED", "REJECTED"} :
          /\ approval' = [approval EXCEPT ![drv[d].call] = s]
          /\ IF s = "APPROVED"
             THEN /\ approved' = approved \cup {drv[d].call} /\ Goto(d, "decided")
                  /\ UNCHANGED status
             ELSE Done(d) /\ UNCHANGED approved
    BY <1>5 DEF DecideCommit
  <2>3. /\ drv' \in [Drivers -> Driver] /\ InTrust'
        /\ status' \in [Instances -> {"up", "starting", "down"}]
    BY <1>0, <2>2, GotoInv, DoneInv DEF TypeOK
  <2> QED
    BY <1>5, <2>1, <2>2, <2>3 DEF DecideCommit, TypeOK
<1>6. CASE ResumeApproved(d)
  BY <1>0, <1>6, GotoInv, DoneInv DEF ResumeApproved, TypeOK, tools
<1> QED
  BY <1>1, <1>2, <1>3, <1>4, <1>5, <1>6 DEF Call

\* The startup recovery keeps the types.
LEMMA RecoverType ==
  ASSUME TypeInv, NEW i \in Instances, Recover(i) \/ Restart(i)
  PROVE  TypeInv'
<1> USE DEF TypeInv
<1>0. /\ i \in Drivers /\ "FAILED" \in AgentState
      /\ {"listing", "judging", "swapping", "failing", "relisting", "rejudging",
          "resuming"} \subseteq Pcs \ Entrusted
  BY DEF Drivers, AgentState, Pcs, Recovering, Entrusted
<1>1. CASE ListToAbandon(i)
  <2>1. PICK pc \in {"judging", "relisting"} : Goto(i, pc)
    BY <1>1 DEF ListToAbandon
  <2> QED
    BY <1>0, <1>1, <2>1, GotoInv DEF ListToAbandon, TypeOK, tools, world
<1>2. CASE Judge(i)
  <2>1. PICK pc \in {"swapping", "relisting"} : Goto(i, pc)
    BY <1>2 DEF Judge
  <2>2. current' \subseteq Instances
    BY <1>2 DEF Judge, TypeOK
  <2> QED
    BY <1>0, <1>2, <2>1, <2>2, GotoInv DEF Judge, TypeOK, tools, world
<1>3. CASE CompareAndFail(i)
  <2>1. PICK pc \in {"failing", "relisting"} : Goto(i, pc)
    BY <1>3 DEF CompareAndFail
  <2>2. SetState("FAILED") \/ UNCHANGED <<run, current>>
    BY <1>3 DEF CompareAndFail
  <2> QED
    BY <1>0, <1>3, <2>1, <2>2, GotoInv, RowType DEF CompareAndFail, TypeOK, tools, world
<1>4. CASE FinishAbandoned(i)
  BY <1>0, <1>4, GotoInv, RowType DEF FinishAbandoned, TypeOK, tools, world
<1>5. CASE ListToResume(i)
  <2>1. (Goto(i, "rejudging") /\ UNCHANGED status) \/ Done(i)
    BY <1>5 DEF ListToResume
  <2> QED
    BY <1>0, <1>5, <2>1, GotoInv, DoneInv DEF ListToResume, TypeOK, tools
<1>6. CASE JudgeResumable(i)
  <2>1. (Goto(i, "resuming") /\ UNCHANGED status) \/ Done(i)
    BY <1>6 DEF JudgeResumable
  <2> QED
    BY <1>0, <1>6, <2>1, GotoInv, DoneInv DEF JudgeResumable, TypeOK, tools
<1>7. CASE Restart(i)
  <2>1. status' \in [Instances -> {"up", "starting", "down"}]
    BY <1>7 DEF Restart, TypeOK
  <2> QED
    BY <1>0, <1>7, <2>1, GotoInv DEF Restart, TypeOK, tools
<1> QED
  BY <1>1, <1>2, <1>3, <1>4, <1>5, <1>6, <1>7 DEF Recover

\* The drivers of an instance that hold a call are finitely many.
LEMMA HoldersFinite ==
  ASSUME NEW i \in Instances, NEW c
  PROVE  /\ IsFiniteSet({d \in On(i) : InFlight(d, c)})
         /\ Cardinality({d \in On(i) : InFlight(d, c)}) \in Nat
<1>1. IsFiniteSet(Drivers)
  BY RunAssumption, FS_Union DEF Drivers
<1>2. {d \in On(i) : InFlight(d, c)} \subseteq Drivers
  BY DEF On
<1> QED
  BY <1>1, <1>2, FS_Subset, FS_CardinalityType

\* A crash leaves every variable in its type.
LEMMA CrashType ==
  ASSUME TypeInv, NEW i \in Instances, Crash(i)
  PROVE  TypeInv'
<1> USE DEF TypeInv
<1>1. left' \in [Bounds -> Nat]
  BY SpendType DEF Crash, Bounds
<1>2. drv' \in [Drivers -> Driver] /\ InTrust'
  <2>1. \A d \in Drivers : drv'[d] = Idle \/ drv'[d] = drv[d]
    BY DEF Crash
  <2>2. drv' \in [Drivers -> Driver]
    BY <2>1, IdleType DEF Crash, TypeOK
  <2> QED
    BY <2>1, <2>2 DEF InTrust, At, Idle
<1>3. lost' \in [Calls -> Nat]
  <2>1. \A c \in Calls : lost[c] + Cardinality({d \in On(i) : InFlight(d, c)}) \in Nat
    BY HoldersFinite DEF TypeOK
  <2> QED
    BY <2>1 DEF Crash
<1>4. lock' \in BOOLEAN /\ flags' \subseteq {"cancel", "pause"} /\ orphaned' \in BOOLEAN
  BY DEF Crash, TypeOK
<1> QED
  BY <1>1, <1>2, <1>3, <1>4 DEF Crash, TypeOK

\* A lock that lapses leaves every variable in its type.
LEMMA LapseType == ASSUME TypeInv, LockLapses PROVE TypeInv'
<1>1. left' \in [Bounds -> Nat]
  BY SpendType DEF LockLapses, Bounds, TypeInv, TypeOK
<1> QED
  BY <1>1 DEF LockLapses, TypeInv, TypeOK, InTrust, At, tools

\* A step that changes nothing changes no type.
LEMMA StutterType == ASSUME TypeInv, UNCHANGED vars PROVE TypeInv'
BY DEF TypeInv, TypeOK, InTrust, At, vars

\* Every step keeps the types.
LEMMA NextType == ASSUME TypeInv, [Next]_vars PROVE TypeInv'
<1>1. ASSUME NEW d \in Drivers, Drive(d) PROVE TypeInv'
  BY <1>1, BeginType, ThinkType, ToolType, EndType, ApiType DEF Drive
<1>2. ASSUME NEW d \in Callers, Call(d) \/ Cancelled(d) PROVE TypeInv'
  BY <1>2, ApiType, EndType DEF Drivers
<1>3. ASSUME NEW i \in Instances, Recover(i) \/ Restart(i) \/ Crash(i) PROVE TypeInv'
  BY <1>3, RecoverType, CrashType
<1> QED
  BY <1>1, <1>2, <1>3, LapseType, StutterType DEF Next

\* Every variable of a run keeps its type, and no driver goes past the step
\* budget, through any number of resumes, recoveries and crashes.
THEOREM TypeCorrect == Spec => []TypeOK
<1>1. Init => TypeInv
  BY InitType
<1>2. TypeInv /\ [Next]_vars => TypeInv'
  BY NextType
<1>3. TypeInv => TypeOK
  BY DEF TypeInv
<1> QED
  BY <1>1, <1>2, <1>3, PTL DEF Spec

-----------------------------------------------------------------------------
(***************************************************************************)
(* Who owns a run whose row says it is being executed.                     *)
(***************************************************************************)
Owner == Driving \cup {"closing", "released"}
OwnInv ==
  /\ ActiveIsOwned
  /\ \A d \in Drivers : drv[d].terminal \notin StaleStates
  /\ \A i \in Instances : status[i] = "down" => At(i, "idle")

\* A step of one driver, which stays an owner if it was one, on a row whose
\* state it does not change.
LEMMA StaysOwned ==
  ASSUME OwnInv, NEW d \in Drivers, run'.state = run.state, orphaned' = orphaned,
         \A e \in Drivers \ {d} : drv'[e] = drv[e],
         drv[d].pc \in Owner => drv'[d].pc \in Owner
  PROVE  ActiveIsOwned'
BY DEF OwnInv, ActiveIsOwned, Owner

\* A step of one driver that ends with the driver in the loop.
LEMMA BecomesOwned ==
  ASSUME NEW d \in Drivers, drv'[d].pc \in Driving
  PROVE  ActiveIsOwned'
BY DEF ActiveIsOwned

\* The rest of OwnInv through a step of one driver: it was not idle, and its
\* outcome stays an outcome.
LEMMA StaysSettled ==
  ASSUME OwnInv, TypeOK, NEW d \in Drivers,
         ~At(d, "idle") \/ (d \in Callers /\ UNCHANGED status),
         \A e \in Drivers \ {d} : drv'[e] = drv[e],
         drv'[d].terminal \notin StaleStates,
         \/ UNCHANGED status
         \/ status' = IF d \in Instances THEN [status EXCEPT ![d] = "up"] ELSE status
  PROVE  /\ \A e \in Drivers : drv'[e].terminal \notin StaleStates
         /\ \A i \in Instances : status'[i] = "down" => drv'[i].pc = "idle"
<1>1. \A e \in Drivers : drv'[e].terminal \notin StaleStates
  BY DEF OwnInv
<1>2. ASSUME NEW i \in Instances, status'[i] = "down" PROVE drv'[i].pc = "idle"
  <2>1. status[i] = "down" /\ At(i, "idle")
    BY <1>2 DEF OwnInv, TypeOK
  <2>2. i # d
    BY <1>2, <2>1, RunAssumption DEF TypeOK
  <2> QED
    BY <2>1, <2>2 DEF At, Drivers
<1> QED
  BY <1>1, <1>2

LEMMA OwnStep ==
  ASSUME OwnInv, TypeOK, NEW d \in Drivers,
         ~At(d, "idle") \/ (d \in Callers /\ UNCHANGED status),
         \A e \in Drivers \ {d} : drv'[e] = drv[e],
         drv'[d].terminal \notin StaleStates,
         \/ UNCHANGED status
         \/ status' = IF d \in Instances THEN [status EXCEPT ![d] = "up"] ELSE status,
         \/ run'.state \notin StaleStates
         \/ orphaned'
         \/ drv'[d].pc \in Driving
         \/ /\ run'.state = run.state /\ orphaned' = orphaned
            /\ drv[d].pc \in Owner => drv'[d].pc \in Owner
  PROVE  OwnInv'
<1>1. ActiveIsOwned'
  BY StaysOwned, BecomesOwned DEF ActiveIsOwned
<1> QED
  BY <1>1, StaysSettled DEF OwnInv, At

\* Goto, Close and Done as OwnStep sees them.
LEMMA GotoOwn ==
  ASSUME OwnInv, TypeOK, NEW d \in Drivers, NEW pc \in Pcs, Goto(d, pc),
         ~At(d, "idle"), UNCHANGED status,
         \/ run'.state \notin StaleStates
         \/ orphaned'
         \/ pc \in Driving
         \/ /\ run'.state = run.state /\ orphaned' = orphaned
            /\ drv[d].pc \in Owner => pc \in Owner
  PROVE  OwnInv'
<1>1. /\ drv'[d].pc = pc /\ drv'[d].terminal = drv[d].terminal
      /\ \A e \in Drivers \ {d} : drv'[e] = drv[e]
  BY GotoType DEF TypeOK
<1>2. drv'[d].terminal \notin StaleStates
  BY <1>1 DEF OwnInv
<1> QED
  BY <1>1, <1>2, OwnStep

LEMMA CloseOwn ==
  ASSUME OwnInv, TypeOK, NEW d \in Drivers, NEW t \in AgentState \ StaleStates, Close(d, t),
         ~At(d, "idle"), UNCHANGED status, UNCHANGED run, UNCHANGED orphaned
  PROVE  OwnInv'
<1>1. /\ drv'[d].pc = "closing" /\ drv'[d].terminal = t
      /\ \A e \in Drivers \ {d} : drv'[e] = drv[e]
  BY CloseType DEF TypeOK
<1>2. drv'[d].pc \in Owner
  BY <1>1 DEF Owner
<1> QED
  BY <1>1, <1>2, OwnStep

LEMMA DoneOwn ==
  ASSUME OwnInv, TypeOK, NEW d \in Drivers, Done(d), ~At(d, "idle"),
         \/ run'.state \notin StaleStates
         \/ orphaned'
         \/ /\ run'.state = run.state /\ orphaned' = orphaned
            /\ drv[d].pc \notin Owner
  PROVE  OwnInv'
<1>1. drv'[d] = Idle /\ \A e \in Drivers \ {d} : drv'[e] = drv[e]
  BY DoneType
<1>2. drv'[d].terminal \notin StaleStates
  BY <1>1 DEF Idle, StaleStates
<1>3. \/ UNCHANGED status
      \/ status' = IF d \in Instances THEN [status EXCEPT ![d] = "up"] ELSE status
  BY DEF Done
<1> QED
  BY <1>1, <1>2, <1>3, OwnStep

\* Beginning, resuming and driving a run keep it owned.
LEMMA BeginOwned ==
  ASSUME OwnInv, TypeOK, NEW d \in Drivers,
         \/ AcquireForRun(d) \/ FinishRefused(d) \/ ResumeRead(d)
         \/ ResumeAcquire(d) \/ Start(d)
  PROVE  OwnInv'
<1>1. CASE AcquireForRun(d)
  <2>1. PICK pc \in {"locked", "refused"} : Goto(d, pc)
    BY <1>1 DEF AcquireForRun
  <2>2. pc \in Pcs /\ ~At(d, "idle") /\ drv[d].pc \notin Owner
    BY <1>1 DEF AcquireForRun, Pcs, Holding, At, Owner, Driving
  <2> QED
    BY <1>1, <2>1, <2>2, GotoOwn DEF AcquireForRun
<1>2. CASE FinishRefused(d)
  <2>1. run'.state \notin StaleStates /\ ~At(d, "idle")
    BY <1>2 DEF FinishRefused, FinishRun, StaleStates, TypeOK, At
  <2> QED
    BY <1>2, <2>1, DoneOwn DEF FinishRefused
<1>3. CASE ResumeRead(d)
  <2>1. ~At(d, "idle") /\ drv[d].pc \notin Owner
    BY <1>3 DEF ResumeRead, At, Owner, Driving
  <2>2. CASE Done(d)
    BY <1>3, <2>1, <2>2, DoneOwn DEF ResumeRead
  <2>3. CASE ~Done(d)
    <3>1. /\ drv' = [drv EXCEPT ![d] = [@ EXCEPT !.pc = "read", !.seen = run.checkpoint]]
          /\ UNCHANGED <<status, run, orphaned>>
      BY <1>3, <2>3 DEF ResumeRead
    <3>2. /\ drv'[d].terminal = drv[d].terminal
          /\ \A e \in Drivers \ {d} : drv'[e] = drv[e]
      BY <3>1 DEF TypeOK, Driver
    <3>3. drv'[d].terminal \notin StaleStates
      BY <3>2 DEF OwnInv
    <3> QED
      BY <2>1, <3>1, <3>2, <3>3, OwnStep
  <2> QED
    BY <2>2, <2>3
<1>4. CASE ResumeAcquire(d)
  <2>1. ~At(d, "idle") /\ drv[d].pc \notin Owner /\ UNCHANGED <<run, orphaned>>
    BY <1>4 DEF ResumeAcquire, At, Owner, Driving
  <2>2. CASE Done(d)
    BY <2>1, <2>2, DoneOwn
  <2>3. CASE Close(d, "FAILED") /\ UNCHANGED status
    BY <2>1, <2>3, CloseOwn DEF AgentState, StaleStates
  <2>4. CASE /\ drv' = [drv EXCEPT ![d] = [@ EXCEPT !.pc = "locked", !.steps = drv[d].seen]]
             /\ UNCHANGED status
    <3>1. /\ drv'[d].terminal = drv[d].terminal
          /\ \A e \in Drivers \ {d} : drv'[e] = drv[e]
      BY <2>4 DEF TypeOK, Driver
    <3>2. drv'[d].terminal \notin StaleStates
      BY <3>1 DEF OwnInv
    <3> QED
      BY <2>1, <2>4, <3>1, <3>2, OwnStep
  <2> QED
    BY <1>4, <2>2, <2>3, <2>4 DEF ResumeAcquire
<1>5. CASE Start(d)
  BY <1>5, GotoOwn DEF Start, world, At, Pcs, Holding, Driving
<1> QED
  BY <1>1, <1>2, <1>3, <1>4, <1>5

LEMMA ThinkOwned ==
  ASSUME OwnInv, TypeOK, NEW d \in Drivers,
         \/ LoopTop(d) \/ Answer(d) \/ (\E c \in Calls : AskTool(d, c))
         \/ SavePlan(d) \/ WaitTool(d) \/ SaveStep(d) \/ NextStep(d)
  PROVE  OwnInv'
<1>0. {"thinking", "planned", "saved", "calling", "stepped", "loop"} \subseteq Pcs \cap Driving
  BY DEF Pcs, Holding, Driving
<1>1. CASE LoopTop(d)
  <2>1. ~At(d, "idle") /\ UNCHANGED <<run, status, orphaned>>
    BY <1>1 DEF LoopTop, At, world
  <2>2. CASE Goto(d, "thinking")
    BY <1>0, <2>1, <2>2, GotoOwn
  <2>3. CASE LoopVerdict(d) # "RUNNING" /\ Close(d, LoopVerdict(d))
    <3>1. LoopVerdict(d) \in AgentState \ StaleStates
      BY <2>3 DEF LoopVerdict, AgentState, StaleStates
    <3> QED
      BY <2>1, <2>3, <3>1, CloseOwn
  <2> QED
    BY <1>1, <2>2, <2>3 DEF LoopTop
<1>2. CASE Answer(d)
  BY <1>2, CloseOwn DEF Answer, At, world, AgentState, StaleStates
<1>3. ASSUME NEW c \in Calls, AskTool(d, c) PROVE OwnInv'
  <2>1. drv' = [drv EXCEPT ![d] =
                 [@ EXCEPT !.pc = "planned", !.call = c, !.steps = drv[d].steps + 1]]
    BY <1>3 DEF AskTool
  <2>2. /\ drv'[d].pc = "planned" /\ drv'[d].terminal = drv[d].terminal
        /\ \A e \in Drivers \ {d} : drv'[e] = drv[e]
    BY <2>1 DEF TypeOK, Driver
  <2>3. drv'[d].terminal \notin StaleStates
    BY <2>2 DEF OwnInv
  <2>4. ~At(d, "idle") /\ UNCHANGED <<run, status, orphaned>>
    BY <1>3 DEF AskTool, At, world
  <2> QED
    BY <1>0, <2>2, <2>3, <2>4, OwnStep
<1>4. CASE SavePlan(d)
  BY <1>0, <1>4, GotoOwn DEF SavePlan, At, world
<1>5. CASE WaitTool(d)
  BY <1>0, <1>5, GotoOwn DEF WaitTool, At, world
<1>6. CASE SaveStep(d)
  BY <1>0, <1>6, GotoOwn DEF SaveStep, At, world
<1>7. CASE NextStep(d)
  BY <1>0, <1>7, GotoOwn DEF NextStep, At, world
<1> QED
  BY <1>1, <1>2, <1>3, <1>4, <1>5, <1>6, <1>7

LEMMA ToolOwned ==
  ASSUME OwnInv, TypeOK, NEW d \in Drivers,
         \/ PassGate(d) \/ AwaitApproval(d) \/ RefuseCall(d) \/ Perform(d)
         \/ ToolFails(d) \/ RecordCall(d) \/ DriveFails(d) \/ CancelInFlight(d)
  PROVE  OwnInv'
<1>0. /\ {"observed", "executing", "executed"} \subseteq Pcs \cap Driving
      /\ {"WAITING_APPROVAL", "FAILED", "TIMEOUT", "UNKNOWN", "CANCELLED"}
           \subseteq AgentState \ StaleStates
  BY DEF Pcs, Holding, Driving, AgentState, StaleStates
<1>1. CASE PassGate(d)
  <2>1. PICK pc \in {"observed", "executing"} : Goto(d, pc)
    BY <1>1 DEF PassGate
  <2> QED
    BY <1>0, <1>1, <2>1, GotoOwn DEF PassGate, At, world
<1>2. CASE AwaitApproval(d)
  BY <1>0, <1>2, CloseOwn DEF AwaitApproval, At, world
<1>3. CASE RefuseCall(d)
  BY <1>0, <1>3, GotoOwn DEF RefuseCall, At, world
<1>4. CASE Perform(d)
  BY <1>0, <1>4, GotoOwn DEF Perform, At, world
<1>5. CASE ToolFails(d)
  BY <1>0, <1>5, GotoOwn DEF ToolFails, At, world
<1>6. CASE RecordCall(d)
  BY <1>0, <1>6, GotoOwn DEF RecordCall, At, world
<1>7. CASE DriveFails(d)
  <2>1. PICK t \in {"FAILED", "TIMEOUT", "UNKNOWN"} : Close(d, t)
    BY <1>7 DEF DriveFails
  <2>2. ~At(d, "idle") /\ UNCHANGED <<run, status, orphaned>>
    BY <1>7 DEF DriveFails, At, Driving, world
  <2> QED
    BY <1>0, <2>1, <2>2, CloseOwn
<1>8. CASE CancelInFlight(d)
  BY <1>0, <1>8, CloseOwn DEF CancelInFlight, At, world
<1> QED
  BY <1>1, <1>2, <1>3, <1>4, <1>5, <1>6, <1>7, <1>8

LEMMA EndOwned ==
  ASSUME OwnInv, TypeOK, NEW d \in Drivers,
         Release(d) \/ Finish(d) \/ ReleaseAborted(d) \/ Cancelled(d)
  PROVE  OwnInv'
<1>1. CASE Release(d)
  BY <1>1, GotoOwn DEF Release, At, world, Owner, Pcs
<1>2. CASE Finish(d)
  <2>1. run'.state = drv[d].terminal
    BY <1>2 DEF Finish, FinishRun, TypeOK
  <2>2. run'.state \notin StaleStates
    BY <2>1 DEF OwnInv
  <2> QED
    BY <1>2, <2>2, DoneOwn DEF Finish, At
<1>3. CASE ReleaseAborted(d)
  BY <1>3, DoneOwn DEF ReleaseAborted, At, Owner, Driving
<1>4. CASE Cancelled(d)
  <2>1. CASE drv[d].pc \in Driving
    <3>1. FinishRun("CANCELLED") /\ Goto(d, "aborted") /\ UNCHANGED status
      BY <1>4, <2>1 DEF Cancelled, FinishCancelled
    <3>2. run'.state \notin StaleStates
      BY <3>1 DEF FinishRun, TypeOK, StaleStates
    <3>3. ~At(d, "idle") /\ "aborted" \in Pcs
      BY <2>1 DEF At, Driving, Pcs, Holding
    <3> QED
      BY <3>1, <3>2, <3>3, GotoOwn
  <2>2. CASE drv[d].pc \notin Driving
    <3>1. Done(d) /\ orphaned' = TRUE /\ ~At(d, "idle")
      BY <1>4, <2>2 DEF Cancelled, At
    <3> QED
      BY <3>1, DoneOwn
  <2> QED
    BY <2>1, <2>2
<1> QED
  BY <1>1, <1>2, <1>3, <1>4

LEMMA ApiOwned ==
  ASSUME OwnInv, TypeOK, NEW d \in Drivers,
         (d \in Callers /\ Call(d)) \/ SetFlag(d) \/ DecideCommit(d) \/ ResumeApproved(d)
  PROVE  OwnInv'
<1>0. {"decided", "resuming"} \subseteq Pcs
  BY DEF Pcs
<1>a. ASSUME NEW pc, NEW op, NEW c, d \in Callers, drv[d].pc = "idle",
             drv' = [drv EXCEPT ![d] = Begun(pc, op, c)],
             UNCHANGED <<status, orphaned>>,
             run'.state = run.state \/ run'.state \notin StaleStates
      PROVE  OwnInv'
  <2>1. /\ drv'[d].terminal = "FAILED" /\ drv[d].pc \notin Owner
        /\ \A e \in Drivers \ {d} : drv'[e] = drv[e]
    BY <1>a DEF Begun, Idle, TypeOK, Owner, Driving
  <2> QED
    BY <1>a, <2>1, OwnStep DEF StaleStates
<1>1. ASSUME d \in Callers, CreateRun(d) PROVE OwnInv'
  <2>1. run'.state \notin StaleStates /\ drv[d].pc = "idle"
    BY <1>1 DEF CreateRun, TypeOK, StaleStates, Serving, At
  <2> QED
    BY <1>1, <2>1, <1>a DEF CreateRun, world
<1>2. ASSUME d \in Callers, NEW op \in Ops, Request(d, op) PROVE OwnInv'
  <2>1. PICK pc \in {"resuming", "flagging"} : drv' = [drv EXCEPT ![d] = Begun(pc, op, NoCall)]
    BY <1>2 DEF Request
  <2> QED
    BY <1>2, <2>1, <1>a DEF Request, Serving, At
<1>3. ASSUME d \in Callers, NEW c \in Calls, NEW op \in Ops, DecideRead(d, c, op) PROVE OwnInv'
  BY <1>3, <1>a DEF DecideRead, Serving, At
<1>4. CASE SetFlag(d)
  BY <1>4, DoneOwn DEF SetFlag, At, Owner, Driving
<1>5. CASE DecideCommit(d)
  <2>1. ~At(d, "idle") /\ drv[d].pc \notin Owner /\ UNCHANGED <<run, orphaned>>
    BY <1>5 DEF DecideCommit, At, Owner, Driving
  <2>2. (Goto(d, "decided") /\ UNCHANGED status) \/ Done(d)
    BY <1>5 DEF DecideCommit
  <2> QED
    BY <1>0, <2>1, <2>2, GotoOwn, DoneOwn
<1>6. CASE ResumeApproved(d)
  <2>1. ~At(d, "idle") /\ drv[d].pc \notin Owner /\ UNCHANGED <<run, orphaned>>
    BY <1>6 DEF ResumeApproved, At, Owner, Driving
  <2>2. (Goto(d, "resuming") /\ UNCHANGED status) \/ Done(d)
    BY <1>6 DEF ResumeApproved
  <2> QED
    BY <1>0, <2>1, <2>2, GotoOwn, DoneOwn
<1> QED
  BY <1>1, <1>2, <1>3, <1>4, <1>5, <1>6 DEF Call

LEMMA RecoverOwned ==
  ASSUME OwnInv, TypeOK, NEW i \in Instances, Recover(i)
  PROVE  OwnInv'
<1>0. /\ i \in Drivers
      /\ {"judging", "swapping", "failing", "relisting", "rejudging", "resuming"} \subseteq Pcs
  BY DEF Drivers, Pcs, Recovering
<1>a. ~At(i, "idle") /\ drv[i].pc \notin Owner
  BY DEF Recover, ListToAbandon, Judge, CompareAndFail, FinishAbandoned, ListToResume,
         JudgeResumable, At, Owner, Driving
<1>1. CASE ListToAbandon(i) \/ Judge(i)
  <2>1. PICK pc \in {"judging", "relisting", "swapping"} : Goto(i, pc)
    BY <1>1 DEF ListToAbandon, Judge
  <2>2. UNCHANGED <<run, status, orphaned>>
    BY <1>1 DEF ListToAbandon, Judge, world
  <2> QED
    BY <1>0, <1>a, <2>1, <2>2, GotoOwn
<1>2. CASE CompareAndFail(i)
  <2>1. PICK pc \in {"failing", "relisting"} : Goto(i, pc)
    BY <1>2 DEF CompareAndFail
  <2>2. run'.state = run.state \/ run'.state \notin StaleStates
    BY <1>2 DEF CompareAndFail, SetState, TypeOK, StaleStates
  <2> QED
    BY <1>0, <1>2, <1>a, <2>1, <2>2, GotoOwn DEF CompareAndFail, world
<1>3. CASE FinishAbandoned(i)
  <2>1. run'.state \notin StaleStates
    BY <1>3 DEF FinishAbandoned, FinishRun, TypeOK, StaleStates
  <2> QED
    BY <1>0, <1>3, <1>a, <2>1, GotoOwn DEF FinishAbandoned, world
<1>4. CASE ListToResume(i)
  <2>1. (Goto(i, "rejudging") /\ UNCHANGED status) \/ Done(i)
    BY <1>4 DEF ListToResume
  <2> QED
    BY <1>0, <1>4, <1>a, <2>1, GotoOwn, DoneOwn DEF ListToResume
<1>5. CASE JudgeResumable(i)
  <2>1. (Goto(i, "resuming") /\ UNCHANGED status) \/ Done(i)
    BY <1>5 DEF JudgeResumable
  <2> QED
    BY <1>0, <1>5, <1>a, <2>1, GotoOwn, DoneOwn DEF JudgeResumable
<1> QED
  BY <1>1, <1>2, <1>3, <1>4, <1>5 DEF Recover

\* A restarting instance has no driver of its own yet.
LEMMA RestartOwned ==
  ASSUME OwnInv, TypeOK, NEW i \in Instances, Restart(i)
  PROVE  OwnInv'
<1>1. i \in Drivers /\ "listing" \in Pcs /\ drv[i].pc = "idle"
  BY DEF Drivers, Pcs, Recovering, Restart, OwnInv, At
<1>2. /\ drv'[i].pc = "listing" /\ drv'[i].terminal = drv[i].terminal
      /\ \A e \in Drivers \ {i} : drv'[e] = drv[e]
  BY <1>1, GotoType DEF Restart, TypeOK
<1>3. ActiveIsOwned'
  BY <1>1, <1>2, StaysOwned DEF Restart, Owner, Driving
<1>4. \A e \in Drivers : drv'[e].terminal \notin StaleStates
  BY <1>2 DEF OwnInv
<1>5. \A j \in Instances : status'[j] = "down" => drv'[j].pc = "idle"
  BY <1>2 DEF OwnInv, Restart, TypeOK, At, Drivers
<1> QED
  BY <1>3, <1>4, <1>5 DEF OwnInv, At

\* A crash takes the drivers of its instance; if one of them was at work, the
\* run is known to be orphaned.
LEMMA CrashOwned ==
  ASSUME OwnInv, TypeOK, NEW i \in Instances, Crash(i)
  PROVE  OwnInv'
<1>1. /\ \A d \in On(i) : drv'[d] = Idle
      /\ \A d \in Drivers \ On(i) : drv'[d] = drv[d]
      /\ UNCHANGED run
  BY DEF Crash, On
<1>2. ActiveIsOwned'
  <2>1. CASE orphaned'
    BY <2>1 DEF ActiveIsOwned
  <2>2. CASE ~orphaned'
    <3>1. \A d \in On(i) : drv[d].pc \notin Owner
      BY <2>2 DEF Crash, Owner, Driving
    <3>2. ~orphaned
      BY <2>2 DEF Crash
    <3> QED
      BY <1>1, <3>1, <3>2 DEF OwnInv, ActiveIsOwned, Owner
  <2> QED
    BY <2>1, <2>2
<1>3. \A e \in Drivers : drv'[e].terminal \notin StaleStates
  BY <1>1 DEF OwnInv, Idle, StaleStates
<1>4. \A j \in Instances : status'[j] = "down" => drv'[j].pc = "idle"
  <2> SUFFICES ASSUME NEW j \in Instances, status'[j] = "down" PROVE drv'[j].pc = "idle"
    OBVIOUS
  <2>1. CASE j = i
    BY <1>1, <2>1 DEF On, HomeOf, Drivers, Idle
  <2>2. CASE j # i
    BY <1>1, <2>2 DEF Crash, OwnInv, TypeOK, At, On, HomeOf, Drivers
  <2> QED
    BY <2>1, <2>2
<1> QED
  BY <1>2, <1>3, <1>4 DEF OwnInv, At

LEMMA NextOwned == ASSUME OwnInv, TypeOK, [Next]_vars PROVE OwnInv'
<1>1. ASSUME NEW d \in Drivers, Drive(d) PROVE OwnInv'
  BY <1>1, BeginOwned, ThinkOwned, ToolOwned, EndOwned, ApiOwned DEF Drive
<1>2. ASSUME NEW d \in Callers, Call(d) \/ Cancelled(d) PROVE OwnInv'
  BY <1>2, ApiOwned, EndOwned DEF Drivers
<1>3. ASSUME NEW i \in Instances, Recover(i) \/ Restart(i) \/ Crash(i) PROVE OwnInv'
  BY <1>3, RecoverOwned, RestartOwned, CrashOwned
<1>4. CASE LockLapses
  BY <1>4 DEF LockLapses, OwnInv, ActiveIsOwned, At
<1>5. CASE UNCHANGED vars
  BY <1>5 DEF vars, OwnInv, ActiveIsOwned, At
<1> QED
  BY <1>1, <1>2, <1>3, <1>4, <1>5 DEF Next

\* A row that says RUNNING or WAITING_TOOL is in a driver's hands, or a driver
\* of the run was lost: no order of resume, recovery, cancel, lapse of the lock
\* and finish leaves it behind.
THEOREM ActiveAlwaysOwned == Spec => []ActiveIsOwned
<1>1. Init => OwnInv
  BY DEF Init, OwnInv, ActiveIsOwned, StaleStates, Idle, At
<1>2. OwnInv /\ TypeOK /\ [Next]_vars => OwnInv'
  BY NextOwned
<1>3. OwnInv => ActiveIsOwned
  BY DEF OwnInv
<1> QED
  BY <1>1, <1>2, <1>3, TypeCorrect, PTL DEF Spec

-----------------------------------------------------------------------------
(***************************************************************************)
(* Who holds the lock.  The inductive invariant ties holders to the lock:  *)
(* it is taken while anybody holds it, and while no lock lapses under a    *)
(* live holder it is only taken when free, so there is one holder.         *)
(***************************************************************************)
LockInv ==
  /\ OneDriver
  /\ \A d \in Drivers : drv[d].pc \in Holding => lock
  /\ left["lapses"] = 0

\* A driver's step, seen from the lock: it stays a holder or stays outside, it
\* leaves, or it finds the lock free and takes it.
Steady(d) == drv'[d].pc \in Holding => drv[d].pc \in Holding
LEMMA HoldStep ==
  ASSUME LockInv, TypeOK, NEW d \in Drivers,
         \A e \in Drivers \ {d} : drv'[e] = drv[e],
         left'["lapses"] = 0,
         \/ Steady(d) /\ lock' = lock
         \/ drv[d].pc \in Holding /\ drv'[d].pc \notin Holding
         \/ drv'[d].pc \notin Holding /\ lock'
         \/ ~lock /\ lock'
  PROVE  LockInv'
BY DEF LockInv, OneDriver, Steady

\* The same for a step made of Goto, Close or Done.
LEMMA GotoHold ==
  ASSUME LockInv, TypeOK, NEW d \in Drivers, NEW pc \in Pcs, Goto(d, pc), UNCHANGED left,
         \/ pc \in Holding => drv[d].pc \in Holding /\ lock' = lock
         \/ ~lock /\ lock',
         lock' = lock \/ drv[d].pc \in Holding \/ lock'
  PROVE  LockInv'
<1>1. drv'[d].pc = pc /\ \A e \in Drivers \ {d} : drv'[e] = drv[e]
  BY GotoType DEF TypeOK
<1>2. left'["lapses"] = 0
  BY DEF LockInv
<1> QED
  BY <1>1, <1>2, HoldStep DEF Steady

LEMMA CloseHold ==
  ASSUME LockInv, TypeOK, NEW d \in Drivers, NEW t \in AgentState, Close(d, t),
         UNCHANGED left,
         (drv[d].pc \in Holding /\ lock' = lock) \/ (~lock /\ lock')
  PROVE  LockInv'
<1>1. drv'[d].pc = "closing" /\ \A e \in Drivers \ {d} : drv'[e] = drv[e]
  BY CloseType DEF TypeOK
<1>2. left'["lapses"] = 0
  BY DEF LockInv
<1> QED
  BY <1>1, <1>2, HoldStep DEF Steady

LEMMA DoneHold ==
  ASSUME LockInv, TypeOK, NEW d \in Drivers, Done(d), left'["lapses"] = 0,
         lock' = lock \/ drv[d].pc \in Holding \/ lock'
  PROVE  LockInv'
<1>1. drv'[d] = Idle /\ \A e \in Drivers \ {d} : drv'[e] = drv[e]
  BY DoneType
<1>2. drv'[d].pc \notin Holding
  BY <1>1 DEF Idle, Holding, Driving
<1> QED
  BY <1>1, <1>2, HoldStep DEF Steady

LEMMA BeginHeld ==
  ASSUME LockInv, TypeOK, NEW d \in Drivers,
         \/ AcquireForRun(d) \/ FinishRefused(d) \/ ResumeRead(d)
         \/ ResumeAcquire(d) \/ Start(d)
  PROVE  LockInv'
<1>0. left["lapses"] = 0
  BY DEF LockInv
<1>1. CASE AcquireForRun(d)
  <2>1. {"locked", "refused"} \subseteq Pcs /\ "refused" \notin Holding
    BY DEF Pcs, Holding, Driving
  <2>2. CASE Acquired(d) /\ Goto(d, "locked")
    BY <1>1, <2>1, <2>2, GotoHold DEF AcquireForRun, Acquired
  <2>3. CASE NotAcquired(d) /\ Goto(d, "refused")
    BY <1>1, <2>1, <2>3, GotoHold DEF AcquireForRun, NotAcquired
  <2> QED
    BY <1>1, <2>2, <2>3 DEF AcquireForRun
<1>2. CASE FinishRefused(d)
  BY <1>0, <1>2, DoneHold DEF FinishRefused
<1>3. CASE ResumeRead(d)
  <2>1. UNCHANGED <<lock, left>>
    BY <1>3 DEF ResumeRead
  <2>2. CASE Done(d)
    BY <1>0, <2>1, <2>2, DoneHold
  <2>3. CASE drv' = [drv EXCEPT ![d] = [@ EXCEPT !.pc = "read", !.seen = run.checkpoint]]
    <3>1. drv'[d].pc = "read" /\ \A e \in Drivers \ {d} : drv'[e] = drv[e]
      BY <2>3 DEF TypeOK, Driver
    <3>2. Steady(d)
      BY <3>1 DEF Steady, Holding, Driving
    <3> QED
      BY <1>0, <2>1, <3>1, <3>2, HoldStep
  <2> QED
    BY <1>3, <2>2, <2>3 DEF ResumeRead
<1>4. CASE ResumeAcquire(d)
  <2>1. UNCHANGED left
    BY <1>4 DEF ResumeAcquire
  <2>2. CASE NotAcquired(d) /\ Done(d)
    BY <1>0, <2>1, <2>2, DoneHold DEF NotAcquired
  <2>3. CASE Acquired(d) /\ Close(d, "FAILED")
    BY <2>1, <2>3, CloseHold DEF Acquired, AgentState
  <2>4. CASE /\ Acquired(d)
             /\ drv' = [drv EXCEPT ![d] = [@ EXCEPT !.pc = "locked", !.steps = drv[d].seen]]
    <3>1. \A e \in Drivers \ {d} : drv'[e] = drv[e]
      BY <2>4
    <3> QED
      BY <1>0, <2>1, <2>4, <3>1, HoldStep DEF Acquired
  <2> QED
    BY <1>4, <2>2, <2>3, <2>4 DEF ResumeAcquire
<1>5. CASE Start(d)
  BY <1>5, GotoHold DEF Start, world, At, Pcs, Holding, Driving
<1> QED
  BY <1>1, <1>2, <1>3, <1>4, <1>5

LEMMA ThinkHeld ==
  ASSUME LockInv, TypeOK, NEW d \in Drivers,
         \/ LoopTop(d) \/ Answer(d) \/ (\E c \in Calls : AskTool(d, c))
         \/ SavePlan(d) \/ WaitTool(d) \/ SaveStep(d) \/ NextStep(d)
  PROVE  LockInv'
<1>0. /\ {"thinking", "planned", "saved", "calling", "stepped", "loop"} \subseteq Pcs \cap Holding
      /\ drv[d].pc \in Holding /\ UNCHANGED <<lock, left>>
  BY DEF Pcs, Holding, Driving, LoopTop, Answer, AskTool, SavePlan, WaitTool, SaveStep,
         NextStep, At, world
<1>1. CASE LoopTop(d)
  <2>1. CASE Goto(d, "thinking")
    BY <1>0, <2>1, GotoHold
  <2>2. CASE Close(d, LoopVerdict(d))
    <3>1. LoopVerdict(d) \in AgentState
      BY DEF LoopVerdict, AgentState
    <3> QED
      BY <1>0, <2>2, <3>1, CloseHold
  <2> QED
    BY <1>1, <2>1, <2>2 DEF LoopTop
<1>2. CASE Answer(d)
  BY <1>0, <1>2, CloseHold DEF Answer, AgentState
<1>3. ASSUME NEW c \in Calls, AskTool(d, c) PROVE LockInv'
  <2>0. drv' = [drv EXCEPT ![d] =
          [@ EXCEPT !.pc = "planned", !.call = c, !.steps = drv[d].steps + 1]]
    BY <1>3 DEF AskTool
  <2>1. \A e \in Drivers \ {d} : drv'[e] = drv[e]
    BY <2>0 DEF TypeOK
  <2>2. left'["lapses"] = 0
    BY <1>0 DEF LockInv
  <2> QED
    BY <1>0, <2>1, <2>2, HoldStep DEF Steady
<1>4. CASE SavePlan(d)
  BY <1>0, <1>4, GotoHold DEF SavePlan
<1>5. CASE WaitTool(d)
  BY <1>0, <1>5, GotoHold DEF WaitTool
<1>6. CASE SaveStep(d)
  BY <1>0, <1>6, GotoHold DEF SaveStep
<1>7. CASE NextStep(d)
  BY <1>0, <1>7, GotoHold DEF NextStep
<1> QED
  BY <1>1, <1>2, <1>3, <1>4, <1>5, <1>6, <1>7

LEMMA ToolHeld ==
  ASSUME LockInv, TypeOK, NEW d \in Drivers,
         \/ PassGate(d) \/ AwaitApproval(d) \/ RefuseCall(d) \/ Perform(d)
         \/ ToolFails(d) \/ RecordCall(d) \/ DriveFails(d) \/ CancelInFlight(d)
  PROVE  LockInv'
<1>0. /\ {"observed", "executing", "executed"} \subseteq Pcs \cap Holding
      /\ {"WAITING_APPROVAL", "FAILED", "TIMEOUT", "UNKNOWN", "CANCELLED"} \subseteq AgentState
      /\ drv[d].pc \in Holding /\ UNCHANGED <<lock, left>>
  BY DEF Pcs, Holding, Driving, AgentState, PassGate, AwaitApproval, RefuseCall, Perform,
         ToolFails, RecordCall, DriveFails, CancelInFlight, At, world
<1>1. CASE PassGate(d)
  <2>1. PICK pc \in {"observed", "executing"} : Goto(d, pc)
    BY <1>1 DEF PassGate
  <2> QED
    BY <1>0, <2>1, GotoHold
<1>2. CASE AwaitApproval(d)
  BY <1>0, <1>2, CloseHold DEF AwaitApproval
<1>3. CASE RefuseCall(d)
  BY <1>0, <1>3, GotoHold DEF RefuseCall
<1>4. CASE Perform(d)
  BY <1>0, <1>4, GotoHold DEF Perform
<1>5. CASE ToolFails(d)
  BY <1>0, <1>5, GotoHold DEF ToolFails
<1>6. CASE RecordCall(d)
  BY <1>0, <1>6, GotoHold DEF RecordCall
<1>7. CASE DriveFails(d)
  <2>1. PICK t \in {"FAILED", "TIMEOUT", "UNKNOWN"} : Close(d, t)
    BY <1>7 DEF DriveFails
  <2> QED
    BY <1>0, <2>1, CloseHold
<1>8. CASE CancelInFlight(d)
  BY <1>0, <1>8, CloseHold DEF CancelInFlight
<1> QED
  BY <1>1, <1>2, <1>3, <1>4, <1>5, <1>6, <1>7, <1>8

LEMMA EndHeld ==
  ASSUME LockInv, TypeOK, NEW d \in Drivers,
         Release(d) \/ Finish(d) \/ ReleaseAborted(d) \/ Cancelled(d)
  PROVE  LockInv'
<1>0. left["lapses"] = 0
  BY DEF LockInv
<1>1. CASE Release(d)
  <2>1. "released" \in Pcs \ Holding /\ "closing" \in Holding
    BY DEF Pcs, Holding, Driving
  <2> QED
    BY <1>1, <2>1, GotoHold DEF Release, world, At
<1>2. CASE Finish(d)
  BY <1>0, <1>2, DoneHold DEF Finish
<1>3. CASE ReleaseAborted(d)
  BY <1>0, <1>3, DoneHold DEF ReleaseAborted, At, Holding
<1>4. CASE Cancelled(d)
  <2>0. left'["lapses"] = 0
    BY <1>0, <1>4 DEF Cancelled, Spend, TypeOK, Bounds
  <2>1. CASE drv[d].pc \in Driving
    <3>1. Goto(d, "aborted") /\ lock' = lock /\ drv[d].pc \in Holding /\ "aborted" \in Pcs
      BY <1>4, <2>1 DEF Cancelled, Holding, Pcs
    <3>2. \A e \in Drivers \ {d} : drv'[e] = drv[e]
      BY <3>1, GotoType DEF TypeOK
    <3> QED
      BY <2>0, <3>1, <3>2, HoldStep DEF Steady
  <2>2. CASE drv[d].pc \notin Driving
    <3>1. Done(d) /\ lock' \in LockAfterCancel(d)
      BY <1>4, <2>2 DEF Cancelled
    <3>2. lock' = lock \/ drv[d].pc \in Holding \/ lock'
      BY <3>1 DEF LockAfterCancel, At, Holding
    <3> QED
      BY <2>0, <3>1, <3>2, DoneHold
  <2> QED
    BY <2>1, <2>2
<1> QED
  BY <1>1, <1>2, <1>3, <1>4

LEMMA ApiHeld ==
  ASSUME LockInv, TypeOK, NEW d \in Drivers,
         Call(d) \/ SetFlag(d) \/ DecideCommit(d) \/ ResumeApproved(d)
  PROVE  LockInv'
<1>0. /\ left["lapses"] = 0 /\ {"decided", "resuming"} \subseteq Pcs \ Holding
      /\ UNCHANGED lock /\ left'["lapses"] = 0
  BY DEF LockInv, Pcs, Holding, Driving, Call, CreateRun, Request, DecideRead, SetFlag,
         DecideCommit, ResumeApproved, Spend, TypeOK, Bounds, world
<1>1. CASE Call(d)
  <2>1. PICK pc \in {"created", "resuming", "flagging", "deciding", "decided"} :
          \E op, c : drv' = [drv EXCEPT ![d] = Begun(pc, op, c)]
    BY <1>1 DEF Call, CreateRun, Request, DecideRead
  <2>2. drv'[d].pc = pc /\ \A e \in Drivers \ {d} : drv'[e] = drv[e]
    BY <2>1 DEF Begun, Idle, TypeOK
  <2>3. Steady(d)
    BY <2>2 DEF Steady, Holding, Driving
  <2> QED
    BY <1>0, <2>2, <2>3, HoldStep
<1>2. CASE SetFlag(d)
  BY <1>0, <1>2, DoneHold DEF SetFlag
<1>3. CASE DecideCommit(d)
  <2>1. Goto(d, "decided") \/ Done(d)
    BY <1>3 DEF DecideCommit
  <2> QED
    BY <1>0, <1>3, <2>1, GotoHold, DoneHold DEF DecideCommit
<1>4. CASE ResumeApproved(d)
  <2>1. Goto(d, "resuming") \/ Done(d)
    BY <1>4 DEF ResumeApproved
  <2> QED
    BY <1>0, <1>4, <2>1, GotoHold, DoneHold DEF ResumeApproved
<1> QED
  BY <1>1, <1>2, <1>3, <1>4

LEMMA RecoverHeld ==
  ASSUME LockInv, TypeOK, NEW i \in Instances, Recover(i) \/ Restart(i)
  PROVE  LockInv'
<1>0. /\ i \in Drivers /\ left["lapses"] = 0
      /\ {"listing", "judging", "swapping", "failing", "relisting", "rejudging",
          "resuming"} \subseteq Pcs \ Holding
      /\ UNCHANGED <<lock, left>>
  BY DEF Drivers, LockInv, Pcs, Recovering, Holding, Driving, Recover, ListToAbandon, Judge,
         CompareAndFail, FinishAbandoned, ListToResume, JudgeResumable, Restart, world
<1>1. \/ \E pc \in {"listing", "judging", "swapping", "failing", "relisting", "rejudging",
                    "resuming"} : Goto(i, pc)
      \/ Done(i)
  BY DEF Recover, ListToAbandon, Judge, CompareAndFail, FinishAbandoned, ListToResume,
         JudgeResumable, Restart
<1> QED
  BY <1>0, <1>1, GotoHold, DoneHold

\* A crash takes holders away, and takes a process-local lock with them.
LEMMA CrashHeld ==
  ASSUME LockInv, TypeOK, NEW i \in Instances, Crash(i)
  PROVE  LockInv'
<1>1. /\ \A d \in On(i) : drv'[d] = Idle
      /\ \A d \in Drivers \ On(i) : drv'[d] = drv[d]
  BY DEF Crash, On
<1>2. \A d \in Drivers : drv'[d].pc \in Holding => drv[d].pc \in Holding /\ d \notin On(i)
  BY <1>1 DEF Idle, Holding, Driving
<1>3. ~SharedLock => \A d \in Drivers : d \in On(i)
  BY HomeType, RunAssumption DEF On
<1>4. left'["lapses"] = 0
  BY DEF LockInv, Crash, Spend, TypeOK, Bounds
<1> QED
  BY <1>2, <1>3, <1>4 DEF LockInv, OneDriver, Crash

LEMMA LapseHeld == ASSUME LockInv, TypeOK, LockLapses PROVE LockInv'
<1>1. \A d \in Drivers : drv[d].pc \notin Holding
  BY DEF LockLapses, LockInv, Spend, TypeOK, Bounds
<1> QED
  BY <1>1 DEF LockLapses, LockInv, OneDriver

LEMMA NextHeld == ASSUME LockInv, TypeOK, [Next]_vars PROVE LockInv'
<1>1. ASSUME NEW d \in Drivers, Drive(d) PROVE LockInv'
  BY <1>1, BeginHeld, ThinkHeld, ToolHeld, EndHeld, ApiHeld DEF Drive
<1>2. ASSUME NEW d \in Callers, Call(d) \/ Cancelled(d) PROVE LockInv'
  BY <1>2, ApiHeld, EndHeld DEF Drivers
<1>3. ASSUME NEW i \in Instances, Recover(i) \/ Restart(i) \/ Crash(i) PROVE LockInv'
  BY <1>3, RecoverHeld, CrashHeld
<1>4. CASE UNCHANGED vars
  BY <1>4 DEF vars, LockInv, OneDriver
<1> QED
  BY <1>1, <1>2, <1>3, <1>4, LapseHeld DEF Next

\* While no lock lapses under a live holder, one driver at a time holds a run,
\* with either lock, through crashes, restarts, disconnects and resumes.
THEOREM OneDriverAtATime == MaxLapses = 0 /\ Spec => []OneDriver
<1> SUFFICES ASSUME MaxLapses = 0 PROVE Spec => []OneDriver
  OBVIOUS
<1>1. Init => LockInv
  BY DEF Init, LockInv, OneDriver, Idle, Holding, Driving, Bounds
<1>2. LockInv /\ TypeOK /\ [Next]_vars => LockInv'
  BY NextHeld
<1>3. LockInv => OneDriver
  BY DEF LockInv
<1> QED
  BY <1>1, <1>2, <1>3, TypeCorrect, PTL DEF Spec

-----------------------------------------------------------------------------
(***************************************************************************)
(* The risk gate.  A tool takes effect only in the hands of a driver that  *)
(* is past the gate, and no driver is past it with an unapproved call.     *)
(***************************************************************************)
Past == {"executing", "executed"}
GateInv ==
  /\ EffectWasApproved
  /\ \A c \in Calls : approval[c] = "APPROVED" => c \in approved
  /\ \A d \in Drivers : drv[d].pc \in Past /\ drv[d].call \in Risky => drv[d].call \in approved

\* A step of d that leaves it before the gate, or out of the tool pipeline.
Outside(d) ==
  drv'[d].pc \notin Past /\ \A e \in Drivers \ {d} : drv'[e] = drv[e]

LEMMA OutsideKeeps ==
  ASSUME GateInv, NEW d \in Drivers, Outside(d), UNCHANGED <<approval, effects, approved>>
  PROVE  GateInv'
BY DEF GateInv, EffectWasApproved, Outside

LEMMA MovesOutside ==
  ASSUME TypeOK, NEW d \in Drivers,
         \/ \E pc \in Pcs \ Past : Goto(d, pc)
         \/ \E t \in AgentState : Close(d, t)
         \/ Done(d)
  PROVE  Outside(d)
<1>1. ASSUME NEW pc \in Pcs \ Past, Goto(d, pc) PROVE Outside(d)
  BY <1>1, GotoType DEF TypeOK, Outside
<1>2. ASSUME NEW t \in AgentState, Close(d, t) PROVE Outside(d)
  BY <1>2, CloseType DEF TypeOK, Outside, Past
<1>3. ASSUME Done(d) PROVE Outside(d)
  BY <1>3, DoneType DEF Outside, Past, Idle
<1> QED
  BY <1>1, <1>2, <1>3

\* What a driver leaves behind in flight takes effect with its approval.
LEMMA AbandonGated ==
  ASSUME GateInv, TypeOK, NEW d \in Drivers, Outside(d), Abandon(d),
         UNCHANGED <<approval, approved>>
  PROVE  GateInv'
<1>1. \A c \in Calls : effects'[c] = effects[c] \/ InFlight(d, c)
  BY DEF Abandon, Incr
<1>2. \A c \in Calls \cap Risky : InFlight(d, c) => c \in approved
  BY DEF GateInv, InFlight, Past
<1>3. EffectWasApproved'
  BY <1>1, <1>2 DEF EffectWasApproved, GateInv
<1> QED
  BY <1>3 DEF GateInv, Outside

LEMMA PassGateGated ==
  ASSUME GateInv, TypeOK, NEW d \in Drivers, PassGate(d)
  PROVE  GateInv'
<1>1. PICK pc \in {"observed", "executing"} : Goto(d, pc)
  BY DEF PassGate
<1>2. pc \in Pcs
  BY DEF Pcs, Holding, Driving
<1>3. /\ drv'[d].call = drv[d].call
      /\ \A e \in Drivers \ {d} : drv'[e] = drv[e]
  BY <1>1, <1>2, GotoType DEF TypeOK
<1>4. drv[d].call \in Risky => drv[d].call \in approved
  BY RunAssumption DEF PassGate, GatePasses, GateInv
<1> QED
  BY <1>3, <1>4 DEF PassGate, GateInv, EffectWasApproved, tools

LEMMA PerformGated ==
  ASSUME GateInv, TypeOK, NEW d \in Drivers, Perform(d)
  PROVE  GateInv'
<1>1. "executed" \in Pcs
  BY DEF Pcs, Holding, Driving
<1>2. /\ drv'[d].call = drv[d].call
      /\ \A e \in Drivers \ {d} : drv'[e] = drv[e]
  BY <1>1, GotoType DEF TypeOK, Perform
<1>3. drv[d].call \in Risky => drv[d].call \in approved
  BY DEF Perform, At, GateInv, Past
<1>4. \A c \in Calls : c # drv[d].call => effects'[c] = effects[c]
  BY DEF Perform, Incr
<1>5. EffectWasApproved'
  BY <1>3, <1>4 DEF EffectWasApproved, GateInv, Perform
<1> QED
  BY <1>2, <1>3, <1>5 DEF Perform, GateInv

LEMMA ToolGated ==
  ASSUME GateInv, TypeOK, NEW d \in Drivers,
         \/ PassGate(d) \/ AwaitApproval(d) \/ RefuseCall(d) \/ Perform(d)
         \/ ToolFails(d) \/ RecordCall(d) \/ DriveFails(d) \/ CancelInFlight(d)
  PROVE  GateInv'
<1>0. /\ "observed" \in Pcs \ Past
      /\ {"WAITING_APPROVAL", "FAILED", "TIMEOUT", "UNKNOWN", "CANCELLED"} \subseteq AgentState
  BY DEF Pcs, Holding, Driving, Past, AgentState
<1>1. CASE AwaitApproval(d)
  <2>1. Outside(d)
    BY <1>0, <1>1, MovesOutside DEF AwaitApproval
  <2>2. \A c \in Calls : approval'[c] = approval[c] \/ approval'[c] = "PENDING"
    BY <1>1 DEF AwaitApproval, TypeOK
  <2> QED
    BY <1>1, <2>1, <2>2 DEF AwaitApproval, GateInv, EffectWasApproved, Outside
<1>2. CASE RefuseCall(d) \/ ToolFails(d) \/ RecordCall(d)
  <2>1. Outside(d)
    BY <1>0, <1>2, MovesOutside DEF RefuseCall, ToolFails, RecordCall
  <2> QED
    BY <1>2, <2>1, OutsideKeeps DEF RefuseCall, ToolFails, RecordCall
<1>3. CASE DriveFails(d) \/ CancelInFlight(d)
  <2>1. Outside(d)
    BY <1>0, <1>3, MovesOutside DEF DriveFails, CancelInFlight
  <2> QED
    BY <1>3, <2>1, AbandonGated DEF DriveFails, CancelInFlight
<1> QED
  BY <1>1, <1>2, <1>3, PassGateGated, PerformGated

\* The actions that touch no call: their driver is outside the tool pipeline
\* when they are done.
LEMMA BeginOutside ==
  ASSUME TypeOK, NEW d \in Drivers,
         \/ AcquireForRun(d) \/ FinishRefused(d) \/ ResumeRead(d) \/ ResumeAcquire(d)
         \/ Start(d)
  PROVE  Outside(d) /\ UNCHANGED tools
<1>0. /\ {"locked", "refused", "loop"} \subseteq Pcs \ Past /\ "FAILED" \in AgentState
      /\ UNCHANGED tools
  BY DEF Pcs, Holding, Driving, Past, AgentState, AcquireForRun, FinishRefused, ResumeRead,
         ResumeAcquire, Start
<1>1. CASE AcquireForRun(d) \/ FinishRefused(d) \/ Start(d)
  BY <1>0, <1>1, MovesOutside DEF AcquireForRun, FinishRefused, Start
<1>2. CASE ResumeRead(d)
  <2>1. CASE Done(d)
    BY <1>0, <2>1, MovesOutside
  <2>2. CASE drv' = [drv EXCEPT ![d] = [@ EXCEPT !.pc = "read", !.seen = run.checkpoint]]
    BY <1>0, <2>2 DEF TypeOK, Driver, Outside, Past
  <2> QED
    BY <1>2, <2>1, <2>2 DEF ResumeRead
<1>3. CASE ResumeAcquire(d)
  <2>1. CASE Done(d) \/ Close(d, "FAILED")
    BY <1>0, <2>1, MovesOutside
  <2>2. CASE drv' = [drv EXCEPT ![d] = [@ EXCEPT !.pc = "locked", !.steps = drv[d].seen]]
    BY <1>0, <2>2 DEF TypeOK, Driver, Outside, Past
  <2> QED
    BY <1>3, <2>1, <2>2 DEF ResumeAcquire
<1> QED
  BY <1>1, <1>2, <1>3

LEMMA ThinkOutside ==
  ASSUME TypeOK, NEW d \in Drivers,
         \/ LoopTop(d) \/ Answer(d) \/ (\E c \in Calls : AskTool(d, c))
         \/ SavePlan(d) \/ WaitTool(d) \/ SaveStep(d) \/ NextStep(d)
  PROVE  Outside(d) /\ UNCHANGED tools
<1>0. /\ {"thinking", "planned", "saved", "calling", "stepped", "loop"} \subseteq Pcs \ Past
      /\ "COMPLETED" \in AgentState /\ LoopVerdict(d) \in AgentState
      /\ UNCHANGED tools
  BY DEF Pcs, Holding, Driving, Past, AgentState, LoopVerdict, LoopTop, Answer, AskTool,
         SavePlan, WaitTool, SaveStep, NextStep
<1>1. CASE LoopTop(d) \/ Answer(d)
  <2>1. \/ \E pc \in Pcs \ Past : Goto(d, pc)
        \/ \E t \in AgentState : Close(d, t)
    BY <1>0, <1>1 DEF LoopTop, Answer
  <2> QED
    BY <1>0, <2>1, MovesOutside
<1>2. CASE SavePlan(d) \/ WaitTool(d) \/ SaveStep(d) \/ NextStep(d)
  BY <1>0, <1>2, MovesOutside DEF SavePlan, WaitTool, SaveStep, NextStep
<1>3. ASSUME NEW c \in Calls, AskTool(d, c) PROVE Outside(d)
  <2>1. drv' = [drv EXCEPT ![d] =
          [@ EXCEPT !.pc = "planned", !.call = c, !.steps = drv[d].steps + 1]]
    BY <1>3 DEF AskTool
  <2> QED
    BY <2>1 DEF TypeOK, Driver, Outside, Past
<1> QED
  BY <1>0, <1>1, <1>2, <1>3

LEMMA EndOutside ==
  ASSUME TypeOK, NEW d \in Drivers,
         Release(d) \/ Finish(d) \/ ReleaseAborted(d) \/ Cancelled(d)
  PROVE  Outside(d)
<1>1. {"released", "aborted"} \subseteq Pcs \ Past
  BY DEF Pcs, Holding, Driving, Past
<1> QED
  BY <1>1, MovesOutside DEF Release, Finish, ReleaseAborted, Cancelled

LEMMA EndGated ==
  ASSUME GateInv, TypeOK, NEW d \in Drivers,
         \/ Release(d) \/ Finish(d) \/ ReleaseAborted(d) \/ (d \in Callers /\ Cancelled(d))
  PROVE  GateInv'
<1>0. Outside(d)
  BY EndOutside
<1>1. CASE Release(d) \/ Finish(d) \/ ReleaseAborted(d)
  BY <1>0, <1>1, OutsideKeeps DEF Release, Finish, ReleaseAborted, tools
<1>2. CASE Cancelled(d)
  <2>1. Abandon(d) \/ UNCHANGED effects
    BY <1>2 DEF Cancelled
  <2> QED
    BY <1>0, <1>2, <2>1, AbandonGated, OutsideKeeps DEF Cancelled
<1> QED
  BY <1>1, <1>2

LEMMA ApiOutside ==
  ASSUME TypeInv, NEW d \in Drivers,
         \/ (d \in Callers /\ Call(d))
         \/ SetFlag(d) \/ DecideCommit(d) \/ ResumeApproved(d)
  PROVE  Outside(d) /\ UNCHANGED <<result, effects, lost>>
<1>0. {"decided", "resuming"} \subseteq Pcs \ Past /\ TypeOK
  BY DEF Pcs, Past, TypeInv
<1>1. CASE Call(d)
  <2>1. PICK pc \in {"created", "resuming", "flagging", "deciding", "decided"},
             op \in AllOps \cup {"create"}, c \in Calls \cup {NoCall} :
               drv' = [drv EXCEPT ![d] = Begun(pc, op, c)]
    BY <1>1, RunAssumption DEF Call, CreateRun, Request, DecideRead, AllOps
  <2>2. Outside(d)
    BY <1>0, <2>1 DEF Outside, Begun, Idle, Past, TypeOK
  <2> QED
    BY <1>1, <2>2 DEF Call, CreateRun, Request, DecideRead, tools
<1>2. CASE SetFlag(d) \/ ResumeApproved(d) \/ DecideCommit(d)
  BY <1>0, <1>2, MovesOutside DEF SetFlag, ResumeApproved, DecideCommit, tools
<1> QED
  BY <1>1, <1>2

LEMMA ApiGated ==
  ASSUME GateInv, TypeInv, NEW d \in Drivers,
         \/ (d \in Callers /\ Call(d))
         \/ SetFlag(d) \/ DecideCommit(d) \/ ResumeApproved(d)
  PROVE  GateInv'
<1>0. Outside(d) /\ UNCHANGED <<result, effects, lost>>
  BY ApiOutside
<1>1. CASE DecideCommit(d)
  <2>1. \A c \in Calls : approval'[c] = "APPROVED" => approval[c] = "APPROVED" \/ c \in approved'
    BY <1>1 DEF DecideCommit, TypeInv, TypeOK
  <2>2. approved \subseteq approved'
    BY <1>1 DEF DecideCommit
  <2> QED
    BY <1>0, <2>1, <2>2 DEF GateInv, EffectWasApproved, Outside
<1>2. CASE (d \in Callers /\ Call(d)) \/ SetFlag(d) \/ ResumeApproved(d)
  BY <1>0, <1>2, OutsideKeeps
     DEF Call, CreateRun, Request, DecideRead, SetFlag, ResumeApproved, tools
<1> QED
  BY <1>1, <1>2

LEMMA RecoverOutside ==
  ASSUME TypeOK, NEW i \in Instances, Recover(i) \/ Restart(i)
  PROVE  i \in Drivers /\ Outside(i) /\ UNCHANGED tools
<1>0. /\ i \in Drivers
      /\ {"listing", "judging", "swapping", "failing", "relisting", "rejudging",
          "resuming"} \subseteq Pcs \ Past
      /\ UNCHANGED tools
  BY DEF Drivers, Pcs, Recovering, Past, Recover, ListToAbandon, Judge, CompareAndFail,
         FinishAbandoned, ListToResume, JudgeResumable, Restart
<1>1. \/ \E pc \in {"listing", "judging", "swapping", "failing", "relisting", "rejudging",
                    "resuming"} : Goto(i, pc)
      \/ Done(i)
  BY DEF Recover, ListToAbandon, Judge, CompareAndFail, FinishAbandoned, ListToResume,
         JudgeResumable, Restart
<1> QED
  BY <1>0, <1>1, MovesOutside

LEMMA CrashGated ==
  ASSUME GateInv, TypeOK, NEW i \in Instances, Crash(i)
  PROVE  GateInv'
<1>1. \A d \in Drivers : drv'[d] = Idle \/ drv'[d] = drv[d]
  BY DEF Crash
<1>2. Idle.pc \notin Past
  BY DEF Idle, Past
<1> QED
  BY <1>1, <1>2 DEF Crash, GateInv, EffectWasApproved

LEMMA NextGated == ASSUME GateInv, TypeInv, [Next]_vars PROVE GateInv'
<1>0. TypeOK
  BY DEF TypeInv
<1>1. ASSUME NEW d \in Drivers, Drive(d) PROVE GateInv'
  BY <1>0, <1>1, BeginOutside, ThinkOutside, OutsideKeeps, ToolGated, EndGated, ApiGated
     DEF Drive, tools
<1>2. ASSUME NEW d \in Callers, Call(d) \/ Cancelled(d) PROVE GateInv'
  BY <1>0, <1>2, ApiGated, EndGated DEF Drivers
<1>3. ASSUME NEW i \in Instances, Recover(i) \/ Restart(i) \/ Crash(i) PROVE GateInv'
  BY <1>0, <1>3, RecoverOutside, OutsideKeeps, CrashGated DEF tools
<1>4. CASE LockLapses \/ UNCHANGED vars
  BY <1>4 DEF LockLapses, vars, tools, GateInv, EffectWasApproved
<1> QED
  BY <1>1, <1>2, <1>3, <1>4 DEF Next

\* A tool above the risk threshold never takes effect for a call nobody
\* approved: through crashes, resumes, late decisions, lapsed locks and calls
\* that finish in an abandoned thread.
THEOREM EffectAlwaysApproved == Spec => []EffectWasApproved
<1>1. Init => GateInv
  BY DEF Init, GateInv, EffectWasApproved, Idle, Past
<1>2. Init => TypeInv
  BY InitType
<1>3. TypeInv /\ [Next]_vars => TypeInv'
  BY NextType
<1>4. GateInv /\ TypeInv /\ [Next]_vars => GateInv'
  BY NextGated
<1>5. GateInv => EffectWasApproved
  BY DEF GateInv
<1> QED
  BY <1>1, <1>2, <1>3, <1>4, <1>5, PTL DEF Spec


-----------------------------------------------------------------------------
(***************************************************************************)
(* How often a tool takes effect.  The argument follows one call through   *)
(* its execution: while it executes nothing of it is on record, an effect  *)
(* is owed a record only by the one driver that is past it, and a driver   *)
(* that leaves without recording is counted as a loss.  It needs that no   *)
(* second driver is past the gate, so it is under MaxLapses = 0.           *)
(***************************************************************************)

Owed(c) == \E d \in Drivers : At(d, "executed") /\ drv[d].call = c
InPast(c) == \E d \in Drivers : drv[d].pc \in Past /\ drv[d].call = c
RecordInv ==
  /\ \A c \in Calls : effects[c] <= 1 + lost[c]
  /\ \A c \in Calls : result[c] = "none" /\ ~Owed(c) => effects[c] <= lost[c]
  /\ \A c \in Calls : InPast(c) => result[c] = "none"

\* What the steps are taken in: one driver holds the run, and an instance
\* that is down has no driver.
Context == TypeInv /\ LockInv /\ OwnInv

\* Nobody else is past the gate.
LEMMA Alone ==
  ASSUME Context, NEW d \in Drivers, NEW e \in Drivers, drv[d].pc \in Holding, drv[e].pc \in Past
  PROVE  e = d
BY DEF Context, LockInv, OneDriver, Holding, Driving, Past

LEMMA Numbers ==
  ASSUME Context, NEW c \in Calls
  PROVE  effects[c] \in Nat /\ lost[c] \in Nat /\ result[c] \in {"none", "ok", "failed"}
BY DEF Context, TypeInv, TypeOK

\* A step that records nothing, of a driver that owes no record.
LEMMA QuietKeeps ==
  ASSUME RecordInv, NEW d \in Drivers, ~At(d, "executed"), Outside(d),
         UNCHANGED <<result, effects, lost>>
  PROVE  RecordInv'
<1>1. \A c \in Calls : Owed(c) => Owed(c)'
  BY DEF Owed, At, Outside
<1>2. \A c \in Calls : result'[c] = "none" /\ ~Owed(c)' => effects'[c] <= lost'[c]
  BY <1>1 DEF RecordInv
<1> QED
  BY <1>2 DEF RecordInv, Outside, InPast

\* A step that writes the record of the call in the driver's hands.
LEMMA RecordKeeps ==
  ASSUME RecordInv, Context, NEW d \in Drivers, drv[d].pc \in Past \cup {"calling"}, Outside(d),
         NEW r \in {"ok", "failed"}, result' = [result EXCEPT ![drv[d].call] = r],
         UNCHANGED <<effects, lost>>
  PROVE  RecordInv'
<1> DEFINE k == drv[d].call
<1>1. drv[d].pc \in Holding
  BY DEF Past, Holding, Driving
<1>2. \A c \in Calls : result'[c] = IF c = k THEN r ELSE result[c]
  BY DEF Context, TypeInv, TypeOK
<1>3. \A c \in Calls : c # k /\ Owed(c) => Owed(c)'
  BY DEF Owed, At, Outside
<1>4. \A c \in Calls : result'[c] = "none" /\ ~Owed(c)' => effects'[c] <= lost'[c]
  BY <1>2, <1>3 DEF RecordInv
<1>5. \A e \in Drivers : drv'[e].pc \notin Past
  BY <1>1, Alone DEF Outside
<1> QED
  BY <1>4, <1>5 DEF RecordInv, InPast

\* A driver that leaves: its call is counted as lost.
LEMMA AbandonKeeps ==
  ASSUME RecordInv, Context, NEW d \in Drivers, drv[d].pc \in Holding, Outside(d), Abandon(d),
         UNCHANGED result
  PROVE  RecordInv'
<1>1. \A e \in Drivers : drv'[e].pc \notin Past
  BY Alone DEF Outside
<1>2. \A c \in Calls : ~InFlight(d, c) =>
        effects'[c] = effects[c] /\ lost'[c] = lost[c] /\ ~Owed(c)
  <2> SUFFICES ASSUME NEW c \in Calls, ~InFlight(d, c)
               PROVE  effects'[c] = effects[c] /\ lost'[c] = lost[c] /\ ~Owed(c)
    OBVIOUS
  <2>1. ~Owed(c)
    BY Alone DEF Owed, At, InFlight, Past
  <2> QED
    BY <2>1 DEF Abandon, Incr
<1>3. \A c \in Calls : InFlight(d, c) => effects'[c] <= lost'[c]
  <2> SUFFICES ASSUME NEW c \in Calls, InFlight(d, c) PROVE effects'[c] <= lost'[c]
    OBVIOUS
  <2>1. result[c] = "none" /\ lost'[c] = lost[c] + 1 /\ effects[c] <= 1 + lost[c]
    BY DEF RecordInv, InPast, InFlight, Past, Abandon, Incr
  <2>2. effects[c] \in Nat /\ lost[c] \in Nat
    BY Numbers
  <2>3. CASE UNCHANGED effects
    BY <2>1, <2>2, <2>3
  <2>4. CASE At(d, "executing") /\ effects' = Incr(effects, {x \in Calls : InFlight(d, x)})
    <3>1. ~Owed(c)
      BY <2>4, Alone DEF Owed, At, Past
    <3>2. effects'[c] = effects[c] + 1 /\ effects[c] <= lost[c]
      BY <2>1, <2>4, <3>1 DEF Incr, RecordInv
    <3> QED
      BY <2>1, <2>2, <3>2
  <2> QED
    BY <2>3, <2>4 DEF Abandon
<1>4. \A c \in Calls : effects'[c] <= 1 + lost'[c]
  <2> SUFFICES ASSUME NEW c \in Calls PROVE effects'[c] <= 1 + lost'[c]
    OBVIOUS
  <2>1. effects[c] \in Nat /\ lost[c] \in Nat
    BY Numbers
  <2>2. lost'[c] \in Nat /\ effects'[c] \in Nat
    BY <2>1 DEF Abandon, Incr
  <2> QED
    BY <1>2, <1>3, <2>1, <2>2 DEF RecordInv
<1>5. \A c \in Calls : result'[c] = "none" /\ ~Owed(c)' => effects'[c] <= lost'[c]
  BY <1>2, <1>3 DEF RecordInv
<1> QED
  BY <1>1, <1>4, <1>5 DEF RecordInv, InPast

LEMMA PassGateKeeps ==
  ASSUME RecordInv, Context, NEW d \in Drivers, PassGate(d)
  PROVE  RecordInv'
<1>1. PICK pc \in {"observed", "executing"} : Goto(d, pc) /\ (pc = "executing" => ~Cached(drv[d].call))
  BY DEF PassGate
<1>2. /\ drv'[d].call = drv[d].call /\ drv'[d].pc = pc
      /\ \A e \in Drivers \ {d} : drv'[e] = drv[e]
  BY <1>1, GotoType DEF Context, TypeInv, TypeOK, Pcs, Holding, Driving
<1>4. \A c \in Calls : pc = "executing" /\ drv[d].call = c => result[c] = "none"
  BY <1>1, Numbers DEF Cached
<1>5. \A c \in Calls : Owed(c) => Owed(c)'
  BY <1>2 DEF Owed, At, PassGate
<1>6. UNCHANGED <<result, effects, lost>>
  BY DEF PassGate, tools
<1>7. \A c \in Calls : result'[c] = "none" /\ ~Owed(c)' => effects'[c] <= lost'[c]
  BY <1>5, <1>6 DEF RecordInv
<1> QED
  BY <1>1, <1>2, <1>4, <1>6, <1>7 DEF RecordInv, InPast, Past

LEMMA PerformKeeps ==
  ASSUME RecordInv, Context, NEW d \in Drivers, Perform(d)
  PROVE  RecordInv'
<1> DEFINE k == drv[d].call
<1>0. "executed" \in Pcs
  BY DEF Pcs, Holding, Driving
<1>1. /\ drv'[d].call = k /\ drv'[d].pc = "executed"
      /\ \A e \in Drivers \ {d} : drv'[e] = drv[e]
  BY <1>0, GotoType DEF Context, TypeInv, TypeOK, Perform
<1>2. drv[d].pc = "executing" /\ drv[d].pc \in Holding /\ drv[d].pc \in Past
  BY DEF Perform, At, Holding, Driving, Past
<1>3. \A c \in Calls : c = k => result[c] = "none"
  BY <1>2 DEF RecordInv, InPast
<1>4. \A c \in Calls : ~Owed(c)
  BY <1>2, Alone DEF Owed, At, Past
<1>5. \A c \in Calls : effects'[c] = IF c = k THEN effects[c] + 1 ELSE effects[c]
  BY DEF Perform, Incr
<1>6. \A c \in Calls : c = k => Owed(c)'
  BY <1>1 DEF Owed, At
<1>7. UNCHANGED <<result, lost>>
  BY DEF Perform
<1>8. \A c \in Calls : effects[c] \in Nat /\ lost[c] \in Nat
  BY Numbers
<1>9. \A c \in Calls : effects'[c] <= 1 + lost'[c]
  BY <1>3, <1>4, <1>5, <1>7, <1>8 DEF RecordInv
<1>10. ASSUME NEW c \in Calls, result'[c] = "none", ~Owed(c)' PROVE effects'[c] <= lost'[c]
  <2>1. c # k /\ effects'[c] = effects[c]
    BY <1>5, <1>6, <1>10
  <2> QED
    BY <1>4, <1>7, <1>10, <2>1 DEF RecordInv
<1>11. \A c \in Calls : InPast(c)' => result'[c] = "none"
  BY <1>1, <1>3, <1>7 DEF RecordInv, InPast
<1> QED
  BY <1>9, <1>10, <1>11 DEF RecordInv

LEMMA ToolKeeps ==
  ASSUME RecordInv, Context, NEW d \in Drivers,
         \/ PassGate(d) \/ AwaitApproval(d) \/ RefuseCall(d) \/ Perform(d)
         \/ ToolFails(d) \/ RecordCall(d) \/ DriveFails(d) \/ CancelInFlight(d)
  PROVE  RecordInv'
<1>0. /\ "observed" \in Pcs \ Past /\ TypeOK
      /\ {"WAITING_APPROVAL", "FAILED", "TIMEOUT", "UNKNOWN", "CANCELLED"} \subseteq AgentState
  BY DEF Pcs, Holding, Driving, Past, AgentState, Context, TypeInv
<1>1. CASE AwaitApproval(d)
  <2>1. Outside(d)
    BY <1>0, <1>1, MovesOutside DEF AwaitApproval
  <2> QED
    BY <1>1, <2>1, QuietKeeps DEF AwaitApproval, At
<1>2. CASE RefuseCall(d) \/ ToolFails(d) \/ RecordCall(d)
  <2>1. Outside(d)
    BY <1>0, <1>2, MovesOutside DEF RefuseCall, ToolFails, RecordCall
  <2>2. drv[d].pc \in Past \cup {"calling"}
    BY <1>2 DEF RefuseCall, ToolFails, RecordCall, At, Past
  <2>3. /\ \E r \in {"ok", "failed"} : result' = [result EXCEPT ![drv[d].call] = r]
        /\ UNCHANGED <<effects, lost>>
    BY <1>2 DEF RefuseCall, ToolFails, RecordCall
  <2> QED
    BY <2>1, <2>2, <2>3, RecordKeeps
<1>3. CASE DriveFails(d) \/ CancelInFlight(d)
  <2>1. Outside(d)
    BY <1>0, <1>3, MovesOutside DEF DriveFails, CancelInFlight
  <2>2. drv[d].pc \in Holding
    BY <1>3 DEF DriveFails, CancelInFlight, Holding, Driving
  <2> QED
    BY <1>3, <2>1, <2>2, AbandonKeeps DEF DriveFails, CancelInFlight
<1> QED
  BY <1>1, <1>2, <1>3, PassGateKeeps, PerformKeeps

LEMMA EndKeeps ==
  ASSUME RecordInv, Context, NEW d \in Drivers,
         Release(d) \/ Finish(d) \/ ReleaseAborted(d) \/ Cancelled(d)
  PROVE  RecordInv'
<1>0. Outside(d)
  BY EndOutside DEF Context, TypeInv
<1>1. CASE Release(d) \/ Finish(d) \/ ReleaseAborted(d)
  BY <1>0, <1>1, QuietKeeps DEF Release, Finish, ReleaseAborted, At, tools
<1>2. CASE Cancelled(d) /\ drv[d].pc \in Driving
  BY <1>0, <1>2, AbandonKeeps DEF Cancelled, Holding
<1>3. CASE Cancelled(d) /\ drv[d].pc \notin Driving
  BY <1>0, <1>3, QuietKeeps DEF Cancelled, At, Driving
<1> QED
  BY <1>1, <1>2, <1>3

LEMMA OtherKeeps ==
  ASSUME RecordInv, Context, NEW d \in Drivers,
         \/ AcquireForRun(d) \/ FinishRefused(d) \/ ResumeRead(d) \/ ResumeAcquire(d) \/ Start(d)
         \/ LoopTop(d) \/ Answer(d) \/ (\E c \in Calls : AskTool(d, c))
         \/ SavePlan(d) \/ WaitTool(d) \/ SaveStep(d) \/ NextStep(d)
         \/ (d \in Callers /\ Call(d)) \/ SetFlag(d) \/ DecideCommit(d) \/ ResumeApproved(d)
  PROVE  RecordInv'
<1>1. Outside(d) /\ UNCHANGED <<result, effects, lost>>
  BY BeginOutside, ThinkOutside, ApiOutside DEF Context, TypeInv, tools
<1>2. ~At(d, "executed")
  BY DEF AcquireForRun, FinishRefused, ResumeRead, ResumeAcquire, Start, LoopTop, Answer, AskTool,
         SavePlan, WaitTool, SaveStep, NextStep, Call, CreateRun, Request, DecideRead, Serving,
         SetFlag, DecideCommit, ResumeApproved, At
<1> QED
  BY <1>1, <1>2, QuietKeeps

LEMMA RecoverKeeps ==
  ASSUME RecordInv, Context, NEW i \in Instances, Recover(i) \/ Restart(i)
  PROVE  RecordInv'
<1>1. i \in Drivers /\ Outside(i) /\ UNCHANGED tools
  BY RecoverOutside DEF Context, TypeInv
<1>2. ~At(i, "executed")
  BY DEF Recover, ListToAbandon, Judge, CompareAndFail, FinishAbandoned, ListToResume,
         JudgeResumable, Restart, Context, OwnInv, At
<1> QED
  BY <1>1, <1>2, QuietKeeps DEF tools

\* A crash counts every call in flight on its instance as lost.
LEMMA CrashKeeps ==
  ASSUME RecordInv, Context, NEW i \in Instances, Crash(i)
  PROVE  RecordInv'
<1> DEFINE H(c) == {d \in On(i) : InFlight(d, c)}
<1>1. /\ \A d \in On(i) : drv'[d] = Idle
      /\ \A d \in Drivers \ On(i) : drv'[d] = drv[d]
      /\ \A c \in Calls : lost'[c] = lost[c] + Cardinality(H(c))
      /\ UNCHANGED <<result, effects>>
  BY DEF Crash, On
<1>2. \A c \in Calls : Cardinality(H(c)) \in Nat /\ effects[c] \in Nat /\ lost[c] \in Nat
  BY HoldersFinite, Numbers
<1>3. ASSUME NEW c \in Calls, Owed(c), ~Owed(c)' PROVE Cardinality(H(c)) >= 1
  <2>1. PICK d \in Drivers : drv[d].pc = "executed" /\ drv[d].call = c
    BY <1>3 DEF Owed, At
  <2>2. d \in On(i)
    BY <1>1, <1>3, <2>1 DEF Owed, At
  <2>3. d \in H(c)
    BY <2>1, <2>2 DEF InFlight
  <2>4. IsFiniteSet(H(c)) /\ Cardinality(H(c)) \in Nat
    BY HoldersFinite
  <2>5. Cardinality(H(c)) # 0
    BY <2>3, <2>4, FS_EmptySet
  <2> QED
    BY <2>4, <2>5
<1>4. \A c \in Calls : effects'[c] <= 1 + lost'[c]
  <2> SUFFICES ASSUME NEW c \in Calls PROVE effects'[c] <= 1 + lost'[c]
    OBVIOUS
  <2>1. effects[c] <= 1 + lost[c]
    BY DEF RecordInv
  <2> HIDE DEF H
  <2>2. effects'[c] = effects[c] /\ lost'[c] = lost[c] + Cardinality(H(c))
    BY <1>1
  <2> QED
    BY <1>2, <2>1, <2>2
<1>5. ASSUME NEW c \in Calls, result'[c] = "none", ~Owed(c)' PROVE effects'[c] <= lost'[c]
  <2>0. effects[c] <= 1 + lost[c] /\ (~Owed(c) => effects[c] <= lost[c])
    BY <1>1, <1>5 DEF RecordInv
  <2> HIDE DEF H
  <2>1. effects'[c] = effects[c] /\ lost'[c] = lost[c] + Cardinality(H(c))
    BY <1>1
  <2> QED
    BY <1>2, <1>3, <1>5, <2>0, <2>1
<1>6. \A c \in Calls : InPast(c)' => result'[c] = "none"
  BY <1>1 DEF RecordInv, InPast, Idle, Past
<1> QED
  BY <1>4, <1>5, <1>6 DEF RecordInv

LEMMA NextKeeps == ASSUME RecordInv, Context, [Next]_vars PROVE RecordInv'
<1>1. ASSUME NEW d \in Drivers, Drive(d) PROVE RecordInv'
  BY <1>1, OtherKeeps, ToolKeeps, EndKeeps DEF Drive
<1>2. ASSUME NEW d \in Callers, Call(d) \/ Cancelled(d) PROVE RecordInv'
  BY <1>2, OtherKeeps, EndKeeps DEF Drivers
<1>3. ASSUME NEW i \in Instances, Recover(i) \/ Restart(i) \/ Crash(i) PROVE RecordInv'
  BY <1>3, RecoverKeeps, CrashKeeps
<1>4. CASE LockLapses \/ UNCHANGED vars
  BY <1>4 DEF LockLapses, vars, tools, RecordInv, InPast, Owed, At
<1> QED
  BY <1>1, <1>2, <1>3, <1>4 DEF Next

\* What takes effect in a step was not on record before it.
LEMMA OnlyUnrecorded ==
  ASSUME RecordInv, Context, [Next]_vars, NEW c \in Calls, result[c] \in {"ok", "failed"}
  PROVE  effects'[c] = effects[c]
<1>1. \A d \in Drivers : ~(drv[d].pc \in Past /\ drv[d].call = c)
  BY DEF RecordInv, InPast
<1>2. ASSUME NEW d \in Drivers, Abandon(d) PROVE effects'[c] = effects[c]
  BY <1>1, <1>2 DEF Abandon, Incr, InFlight, Past
<1>3. ASSUME NEW d \in Drivers, Drive(d) PROVE effects'[c] = effects[c]
  <2>1. CASE Perform(d)
    BY <1>1, <2>1 DEF Perform, Incr, At, Past
  <2>2. CASE DriveFails(d) \/ CancelInFlight(d)
    BY <1>2, <2>2 DEF DriveFails, CancelInFlight
  <2>3. CASE Release(d) \/ Finish(d) \/ ReleaseAborted(d)
    BY <2>3 DEF Release, Finish, ReleaseAborted, tools
  <2>4. CASE \/ PassGate(d) \/ AwaitApproval(d) \/ RefuseCall(d) \/ ToolFails(d) \/ RecordCall(d)
    BY <2>4 DEF PassGate, AwaitApproval, RefuseCall, ToolFails, RecordCall, tools
  <2> QED
    BY <1>3, <2>1, <2>2, <2>3, <2>4, BeginOutside, ThinkOutside, ApiOutside
       DEF Drive, Context, TypeInv, tools
<1>4. ASSUME NEW d \in Callers, Call(d) \/ Cancelled(d) PROVE effects'[c] = effects[c]
  BY <1>2, <1>4, ApiOutside DEF Cancelled, Drivers, Context
<1>5. ASSUME NEW i \in Instances, Recover(i) \/ Restart(i) \/ Crash(i)
      PROVE  effects'[c] = effects[c]
  BY <1>5, RecoverOutside DEF Crash, Context, TypeInv, tools
<1>6. CASE LockLapses \/ UNCHANGED vars
  BY <1>6 DEF LockLapses, vars, tools
<1> QED
  BY <1>3, <1>4, <1>5, <1>6 DEF Next

\* The context and the records are invariant together.
LEMMA RecordsAlways == MaxLapses = 0 /\ Spec => [](RecordInv /\ Context)
<1> SUFFICES ASSUME MaxLapses = 0 PROVE Spec => [](RecordInv /\ Context)
  OBVIOUS
<1>1. Init => RecordInv /\ Context
  <2>1. Init => RecordInv
    BY DEF Init, RecordInv, InPast, Owed, At, Idle, Past
  <2>2. Init => LockInv
    BY DEF Init, LockInv, OneDriver, Idle, Holding, Driving, Bounds
  <2>3. Init => OwnInv
    BY DEF Init, OwnInv, ActiveIsOwned, StaleStates, Idle, At
  <2> QED
    BY <2>1, <2>2, <2>3, InitType DEF Context
<1>2. RecordInv /\ Context /\ [Next]_vars => (RecordInv /\ Context)'
  <2> SUFFICES ASSUME RecordInv, Context, [Next]_vars PROVE RecordInv' /\ Context'
    OBVIOUS
  <2>1. RecordInv'
    BY NextKeeps
  <2> QED
    BY <2>1, NextType, NextHeld, NextOwned DEF Context, TypeInv
<1> QED
  BY <1>1, <1>2, PTL DEF Spec

\* A tool acts again for one call only where an execution of it ended without
\* a record, through every crash, disconnect, time-out, resume and recovery.
THEOREM RepeatAlwaysNeedsLoss == MaxLapses = 0 /\ Spec => []RepeatNeedsLoss
<1>1. RecordInv => RepeatNeedsLoss
  BY DEF RecordInv, RepeatNeedsLoss
<1> QED
  BY <1>1, RecordsAlways, PTL

\* Once the outcome of a call is on record, no step repeats the call.
THEOREM RecordedNeverRepeated == MaxLapses = 0 /\ Spec => RecordedNotRepeated
<1> DEFINE Kept == \A c \in Calls : result[c] \in {"ok", "failed"} => effects'[c] = effects[c]
<1>1. RecordInv /\ Context /\ [Next]_vars => [Kept]_vars
  BY OnlyUnrecorded
<1> QED
  BY <1>1, RecordsAlways, PTL DEF Spec, RecordedNotRepeated
=============================================================================
