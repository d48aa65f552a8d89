------------------------------ MODULE Release ------------------------------
(***************************************************************************)
(* What the versions of one agent serve (app/release/service.py and the    *)
(* handlers of app/release/api.py): publish with its two gates, gray,      *)
(* rollback, halt and the canary that halts and rolls back by itself; and  *)
(* the evaluation (app/evaluation/service.py) whose pass rates the         *)
(* regression gate compares.                                               *)
(*                                                                         *)
(* A request is the sequence of its transactions.  A transaction that      *)
(* reads rows and then writes them is a read step and a commit; what it    *)
(* writes are the rows whose status it changed, as the session sees them.  *)
(* The flow's own state is module ReleaseFlow: here it is terminated or    *)
(* not.                                                                    *)
(*                                                                         *)
(* What the ten checks of the contract compare is not kept: they hold or   *)
(* they do not.  The canary metrics of a version are bad or not, and its   *)
(* pass rate is a rank, ranks being more than the tolerance apart.         *)
(***************************************************************************)
EXTENDS Naturals, Sequences, FiniteSetsExt

CONSTANTS
  Operators,    \* requests under way at once
  MaxVersion,   \* bound on the versions
  PassRates     \* ranks of pass rates

ASSUME ReleaseAssumption ==
  /\ MaxVersion \in Nat \ {0} /\ PassRates \subseteq Nat
  /\ \E best \in PassRates : \A rate \in PassRates : rate <= best

VARIABLES
  version,      \* the rows of agent_versions, by number
  hasCases,     \* the BADCASES dataset is not empty
  terminated,   \* the flow was terminated
  request,      \* where each operator's request stands
  promised      \* the last version published or rolled back to was ACTIVE then,
                \* and no ACTIVE one was halted or made GRAY since

vars == <<version, hasCases, terminated, request, promised>>

Status == {"DRAFT", "GRAY", "ACTIVE", "DISABLED"}
None == 99
\* sick: the runs it served while GRAY are enough, and bad; rate: its latest
\* regression_runs row, None without one.
Version == [status : Status, sick : BOOLEAN, rate : PassRates \cup {None}]
Draft == [status |-> "DRAFT", sick |-> FALSE, rate |-> None]

\* v: the version asked for; others, active: what the transaction read, the
\* versions to disable and whether v is ACTIVE; due, passed: the tenant had
\* cases when the request came, and the gate let it through; late: the flow has
\* been terminated ever since it came.
Request == [pc : {"idle", "gate", "check", "publish", "publishing", "gray",
                  "halt", "fallback", "rollback", "rolling"},
            v : 0 .. MaxVersion, others : SUBSET (1 .. MaxVersion), active : BOOLEAN,
            asked : {"", "force", "default", "canary"},
            due : BOOLEAN, passed : BOOLEAN, late : BOOLEAN]
Idle == [pc |-> "idle", v |-> 0, others |-> {}, active |-> FALSE, asked |-> "",
         due |-> FALSE, passed |-> FALSE, late |-> FALSE]

Versions == DOMAIN version
In(S) == {v \in Versions : version[v].status \in S}

Init ==
  /\ version = <<>> /\ hasCases = FALSE /\ terminated = FALSE
  /\ request = [o \in Operators |-> Idle]
  /\ promised = FALSE

-----------------------------------------------------------------------------
(* Steps of a request *)

Arrives(o, pc, v, asked) ==
  /\ request[o] = Idle
  /\ request' = [request EXCEPT ![o] =
                   [Idle EXCEPT !.pc = pc, !.v = v, !.asked = asked,
                      !.due = hasCases /\ pc \in {"gate", "check"},
                      !.late = terminated]]
Goes(o, pc) == request' = [request EXCEPT ![o].pc = pc]
Ends(o) == request' = [request EXCEPT ![o] = Idle]
At(o, pc) == request[o].pc = pc

\* _ensure_not_terminated comes first, in a transaction of its own.
Admitted(o, pc, v, asked) == ~ terminated /\ Arrives(o, pc, v, asked)

SetStatus(v, s) == version' = [version EXCEPT ![v].status = s]
\* A version that was read ACTIVE is not written: it stays what it is by now.
MakeActive(v, active, others) ==
  version' = [u \in Versions |->
                IF u = v THEN [version[u] EXCEPT !.status = IF active THEN @ ELSE "ACTIVE"]
                ELSE IF u \in others THEN [version[u] EXCEPT !.status = "DISABLED"]
                ELSE version[u]]
Promises(v) == promised' = (version'[v].status = "ACTIVE")

\* Creation: the numbering and the flow are in ReleaseFlow, which also lets a
\* terminated flow run again.
CreateVersion ==
  /\ Len(version) < MaxVersion
  /\ version' = Append(version, Draft)
  /\ terminated' = FALSE
  /\ request' = [o \in Operators |-> [request[o] EXCEPT !.late = FALSE]]
  /\ UNCHANGED <<hasCases, promised>>

Terminate ==
  /\ terminated' = TRUE
  /\ UNCHANGED <<version, hasCases, request, promised>>

\* A user's "bad", a case added by hand, or the seed of a start.
AddCase ==
  /\ hasCases' = TRUE
  /\ UNCHANGED <<version, terminated, request, promised>>

-----------------------------------------------------------------------------
(* The regression gate *)

\* The baseline is the newest record of a lower version, whatever became of
\* that version and whichever dataset the record is about.
Recorded(v) == {u \in 1 .. v - 1 : version[u].rate # None}
Regressed(v, rate) ==
  /\ Recorded(v) # {}
  /\ rate < version[Max(Recorded(v))].rate

\* The cases run one by one before the record is written; without any the
\* rate is the best.
Rates == IF hasCases THEN PassRates ELSE {Max(PassRates)}

\* Regression by hand: the record is the only effect.  run_security_eval
\* writes such a record too, with the share of attacks that failed.
Evaluate(v, rate) ==
  /\ version' = [version EXCEPT ![v].rate = rate]
  /\ UNCHANGED <<hasCases, terminated, request, promised>>

-----------------------------------------------------------------------------
(* Publish *)

\* The gate is due when the tenant has cases or the request asks for it.
\* Fault: force skips it, as the message of the refusal says.
GateUnlessForced(evaluate, force) == ~ force /\ (hasCases \/ evaluate)
GateIsDue(evaluate, force) == hasCases \/ evaluate

PublishRequest(o, v, evaluate, force) ==
  /\ Arrives(o, IF GateIsDue(evaluate, force) THEN "gate" ELSE "check", v,
             IF force THEN "force" ELSE "")
  /\ UNCHANGED <<version, hasCases, terminated, promised>>

RunGate(o) ==
  /\ At(o, "gate")
  /\ \E rate \in Rates : LET v == request[o].v IN
       /\ version' = [version EXCEPT ![v].rate = rate]
       /\ IF Regressed(v, rate) THEN Ends(o)
          ELSE request' = [request EXCEPT ![o].pc = "check", ![o].passed = TRUE]
  /\ UNCHANGED <<hasCases, terminated, promised>>

\* The contract is checked against the newest other version in service; it
\* is skipped by force.
CheckContract(o) ==
  /\ At(o, "check")
  /\ \E holds \in BOOLEAN :
       IF ~ terminated /\ (request[o].asked = "force" \/ holds)
       THEN request' = [request EXCEPT ![o].pc = "publish", ![o].asked = ""]
       ELSE Ends(o)
  /\ UNCHANGED <<version, hasCases, terminated, promised>>

PublishRead(o) ==
  /\ At(o, "publish")
  /\ request' = [request EXCEPT ![o].pc = "publishing",
                                ![o].others = In({"ACTIVE"}) \ {request[o].v},
                                ![o].active = request[o].v \in In({"ACTIVE"})]
  /\ UNCHANGED <<version, hasCases, terminated, promised>>

\* Fault: the version itself is among those that stop serving.
PublishKeepsNone(o) ==
  /\ At(o, "publishing")
  /\ MakeActive(0, FALSE, request[o].others \cup {request[o].v})
  /\ promised' = TRUE /\ Ends(o)
  /\ UNCHANGED <<hasCases, terminated>>
PublishCommit(o) ==
  /\ At(o, "publishing")
  /\ MakeActive(request[o].v, request[o].active, request[o].others)
  /\ Promises(request[o].v) /\ Ends(o)
  /\ UNCHANGED <<hasCases, terminated>>

-----------------------------------------------------------------------------
(* Gray, halt and rollback *)

GrayRequest(o, v) ==
  /\ Admitted(o, "gray", v, "")
  /\ UNCHANGED <<version, hasCases, terminated, promised>>
GrayCommit(o) ==
  /\ At(o, "gray")
  /\ promised' = (promised /\ request[o].v \notin In({"ACTIVE"}))
  /\ SetStatus(request[o].v, "GRAY") /\ Ends(o)
  /\ UNCHANGED <<hasCases, terminated>>

\* A GRAY version serves its share of the users: its metrics move.
ServeGray(v) ==
  /\ version[v].status = "GRAY"
  /\ \E b \in BOOLEAN : version' = [version EXCEPT ![v].sick = b]
  /\ UNCHANGED <<hasCases, terminated, request, promised>>

HaltRequest(o, v) ==
  /\ Admitted(o, "halt", v, "")
  /\ UNCHANGED <<version, hasCases, terminated, promised>>

\* /canary/evaluate judges a GRAY version, /canary/check always version 1.
\* Fault: the canary halts without asking whether the flow was terminated.
CanaryUnchecked(o, v) ==
  /\ v \in In({"GRAY"}) \cup {1} /\ version[v].sick
  /\ Arrives(o, "halt", v, "canary")
  /\ UNCHANGED <<version, hasCases, terminated, promised>>
Canary(o, v) ==
  /\ v \in In({"GRAY"}) \cup {1} /\ version[v].sick
  /\ Admitted(o, "halt", v, "canary")
  /\ UNCHANGED <<version, hasCases, terminated, promised>>

\* Fault: a halted version gets a status of its own.
HaltAsHalted(o) ==
  /\ At(o, "halt")
  /\ promised' = (promised /\ request[o].v \notin In({"ACTIVE"}))
  /\ SetStatus(request[o].v, "HALTED") /\ Ends(o)
  /\ UNCHANGED <<hasCases, terminated>>
HaltCommit(o) ==
  /\ At(o, "halt")
  /\ promised' = (promised /\ request[o].v \notin In({"ACTIVE"}))
  /\ SetStatus(request[o].v, "DISABLED")
  /\ IF request[o].asked = "canary" THEN Goes(o, "fallback") ELSE Ends(o)
  /\ UNCHANGED <<hasCases, terminated>>

\* The canary rolls back to the newest ACTIVE version below, if there is one.
Fallback(o) ==
  LET below == {u \in In({"ACTIVE"}) : u < request[o].v} IN
  /\ At(o, "fallback")
  /\ request' = [request EXCEPT ![o] =
                   IF below = {} \/ terminated THEN Idle
                   ELSE [@ EXCEPT !.pc = "rollback", !.v = Max(below), !.asked = ""]]
  /\ UNCHANGED <<version, hasCases, terminated, promised>>

\* v = 0: no target was named.
RollbackRequest(o, v) ==
  /\ Admitted(o, "rollback", v, IF v = 0 THEN "default" ELSE "")
  /\ UNCHANGED <<version, hasCases, terminated, promised>>

Serving == In({"ACTIVE", "GRAY"})
DefaultTarget ==
  IF Serving # {} /\ Max(Serving) > 1 THEN Max(Serving) - 1 ELSE 1

RollbackRead(o) ==
  LET target == IF request[o].v = 0 THEN DefaultTarget ELSE request[o].v IN
  /\ At(o, "rollback")
  /\ request' = [request EXCEPT ![o] =
                   IF target \in Versions
                   THEN [@ EXCEPT !.pc = "rolling", !.v = target,
                           !.active = target \in In({"ACTIVE"}),
                           !.others = IF Serving = {} THEN {} ELSE {Max(Serving)}]
                   ELSE Idle]
  /\ UNCHANGED <<version, hasCases, terminated, promised>>

\* The target is set last: it stays ACTIVE when it is the newest itself.
\* Fault: the version that served is disabled last.
RollbackDisablesLast(o) ==
  /\ At(o, "rolling")
  /\ MakeActive(IF request[o].v \in request[o].others THEN 0 ELSE request[o].v,
                request[o].active, request[o].others)
  /\ promised' = TRUE /\ Ends(o)
  /\ UNCHANGED <<hasCases, terminated>>
RollbackCommit(o) ==
  /\ At(o, "rolling")
  /\ MakeActive(request[o].v, request[o].active, request[o].others)
  /\ Promises(request[o].v) /\ Ends(o)
  /\ UNCHANGED <<hasCases, terminated>>

\* resolve: of the users, those within the share of a GRAY version get the
\* newest such one, the others the newest ACTIVE version; 0 is an error.
Resolved(inShare) ==
  LET here == IF inShare /\ In({"GRAY"}) # {} THEN In({"GRAY"}) ELSE In({"ACTIVE"})
  IN IF here = {} THEN 0 ELSE Max(here)

\* The server stops, or the client hangs up, between two transactions.
Cut(o) ==
  /\ request[o] # Idle
  /\ Ends(o)
  /\ UNCHANGED <<version, hasCases, terminated, promised>>

Next ==
  \/ CreateVersion \/ Terminate \/ AddCase
  \/ \E v \in Versions :
       ServeGray(v) \/ \E rate \in Rates : Evaluate(v, rate)
  \/ \E o \in Operators :
       \/ \E v \in Versions :
            \/ \E e, f \in BOOLEAN : PublishRequest(o, v, e, f)
            \/ GrayRequest(o, v) \/ HaltRequest(o, v) \/ Canary(o, v)
       \/ \E v \in Versions \cup {0} : RollbackRequest(o, v)
       \/ RunGate(o) \/ CheckContract(o) \/ PublishRead(o) \/ PublishCommit(o)
       \/ GrayCommit(o) \/ HaltCommit(o) \/ Fallback(o)
       \/ RollbackRead(o) \/ RollbackCommit(o) \/ Cut(o)

Spec == Init /\ [][Next]_vars

-----------------------------------------------------------------------------
(* Properties *)

\* The rows and the requests keep their types.
TypeOK ==
  /\ version \in Seq(Version) /\ Len(version) <= MaxVersion
  /\ hasCases \in BOOLEAN /\ terminated \in BOOLEAN /\ promised \in BOOLEAN
  /\ request \in [Operators -> Request]

\* Once a version was published, or rolled back to, every new run resolves to
\* a version, whether its user is within the share of a GRAY version or not:
\* only a halt or a gray of the version that serves, by hand or by a canary
\* that judges it, takes it away, and no publish, no rollback and no canary
\* of a GRAY version does, however requests meet and wherever they are cut;
\* except one whose version was ACTIVE when it looked and is not when it commits.
ServiceKept == promised => \A inShare \in BOOLEAN : Resolved(inShare) # 0

\* The statuses of a terminated flow's versions are changed by no request
\* that came after its end; the canary's own halt and rollback are no
\* exception.
EndedFlowIsFrozen ==
  [][\A v \in Versions : version'[v].status # version[v].status =>
       \E o \in Operators : request[o] # Idle /\ ~ request[o].late]_vars

\* Forced or not, a version is published only after it passed the regression
\* that the tenant's cases made due (api.py:97).
PublishPassedGate ==
  \A o \in Operators : request[o].pc = "publishing" /\ request[o].due =>
    request[o].passed

\* rollback's docstring (service.py:416): without a target it goes back to
\* the ACTIVE version before.  A draft never was one.
RollbackToServed ==
  \A o \in Operators :
    request[o].pc = "rolling" /\ request[o].asked = "default" /\ request[o].others # {} =>
      version[request[o].v].status # "DRAFT"

\* halt's docstring (service.py:445): what the canary stops is a GRAY version,
\* and new runs fall back to the ACTIVE one.
CanaryStopsGray ==
  \A o \in Operators : request[o].pc = "halt" /\ request[o].asked = "canary" =>
    version[request[o].v].status # "ACTIVE"

\* The gate blocks a step back (api.py:97): what passed it is no worse than
\* the version it takes over from.
QualityKept ==
  \A o \in Operators :
    request[o].pc = "publishing" /\ request[o].passed =>
      \A u \in request[o].others : version[u].rate # None =>
        version[u].rate <= version[request[o].v].rate

\* publish's docstring (service.py:362): the version it answered for is ACTIVE.
\* Another request may have disabled it since it was read ACTIVE.
PublishedIsActive ==
  [][\A o \in Operators : request[o].pc = "publishing" /\ version' # version
       /\ request'[o] = Idle => version'[request[o].v].status = "ACTIVE"]_vars

\* At most one version is ACTIVE.
OneActive == Cardinality(In({"ACTIVE"})) <= 1
=============================================================================
