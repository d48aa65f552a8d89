--------------------------- MODULE CircuitBreaker ---------------------------
(***************************************************************************)
(* The circuit breaker (app/common/circuit_breaker.py) with the two places *)
(* that call through one: the tool runtime (app/tool/runtime.py), which    *)
(* has one per tool, and the model gateway (app/agent/model/gateway.py),   *)
(* which has one for all its models, behind a rate limiter                 *)
(* (app/tool/limiter.py), a chain of models and the retries of runs        *)
(* (app/agent/runtime/runtime.py).                                         *)
(*                                                                         *)
(* Breaker code has no await and runs in one step; between allow and       *)
(* record lies the guarded call, during which others enter and leave.      *)
(* Time is kept as ages, each as old as it still matters.  What rate       *)
(* limiter, policy and approvals refuse never reaches a tool's breaker.    *)
(* The gateway asks its limiter for the model and then for the tenant,     *)
(* with the same limit, so the second refuses nothing the first lets       *)
(* through.  The program gives the gateway no pool of providers.           *)
(***************************************************************************)
EXTENDS Integers, Sequences, FiniteSets

CONSTANTS
  Callers,     \* callers, of one guarded call each at a time
  Threshold,   \* failure_threshold
  Window,      \* window_s, in ticks
  Cooldown,    \* cooldown_s, in ticks
  Models,      \* length of the chain of models, the default one the last
  MaxRetries,  \* max_retries
  Limit,       \* llm_rate_limit
  Span         \* llm_rate_limit_window_s, in ticks

ASSUME BreakerAssumption ==
  /\ {Threshold, Window, Cooldown, Models, Limit, Span} \subseteq Nat \ {0}
  /\ MaxRetries \in Nat

VARIABLES
  client,     \* whose breaker it is: a tool's or the model gateway's
  state,      \* CLOSED, OPEN or HALF_OPEN
  opened,     \* age of _opened_at
  failures,   \* ages of _failures, the latest first
  call,       \* call[c]: what c calls, and how far it is
  calm,       \* the callee is well and nobody cancels
  shared,     \* the limiter counts in Redis, not in the process
  entries,    \* entries[m]: ages of what it counted for model m, latest first
  passed      \* passed[m]: ages of what it let through to model m

breaker == <<state, opened, failures>>
limiter == <<entries, passed>>
fixed == <<client, shared>>
breakerVars == <<fixed, breaker, call, calm, limiter>>

Chain == 1 .. Models
Idle == [kind |-> "none", pc |-> "idle", model |-> Models, tries |-> 0]
BreakerInit ==
  /\ client \in {"tool", "model"}
  /\ shared \in (IF client = "tool" THEN {FALSE} ELSE BOOLEAN)
  /\ state = "CLOSED" /\ opened = Cooldown /\ failures = <<>>
  /\ call = [c \in Callers |-> Idle]
  /\ calm \in BOOLEAN
  /\ entries = [m \in Chain |-> <<>>] /\ passed = [m \in Chain |-> <<>>]

\* A count reaches a limit as soon as its latest entries do, so older ones are
\* forgotten.
Ages(limit) == 0 .. limit
Grown(age, limit) == IF age < limit THEN age + 1 ELSE age
\* What left a window is dropped from the old end.
Recent(s, window) == SubSeq(s, 1, Cardinality({n \in DOMAIN s : s[n] < window}))
Youngest(s, n) == SubSeq(s, 1, IF Len(s) > n THEN n ELSE Len(s))

(***************************************************************************)
(* allow and record                                                        *)
(***************************************************************************)
Cooled == opened >= Cooldown
\* Fault: an open breaker is never tried again.
StaysOpen == state # "OPEN" /\ state' = state
Allow ==
  \/ state # "OPEN" /\ state' = state
  \/ state = "OPEN" /\ Cooled /\ state' = "HALF_OPEN"

Open == state' = "OPEN" /\ opened' = 0

Counts(now) ==
  IF state = "HALF_OPEN" THEN Open /\ failures' = <<0>>
  ELSE /\ failures' = now
       /\ IF Len(now) >= Threshold THEN Open ELSE UNCHANGED <<state, opened>>
\* Fault: failures are never dropped from the list.
RecordFailureKept == Counts(<<0>> \o failures)
RecordFailure == Counts(Youngest(<<0>> \o Recent(failures, Window), Threshold))

\* Fault: a successful trial leaves the breaker half open.
RecordSuccessOnly == failures' = <<>> /\ UNCHANGED <<state, opened>>
RecordSuccess ==
  /\ failures' = <<>>
  /\ state' = IF state = "HALF_OPEN" THEN "CLOSED" ELSE state
  /\ UNCHANGED opened

(***************************************************************************)
(* Calls                                                                   *)
(***************************************************************************)
CallAt(c, pc) == call[c].pc = pc
Becomes(c, now) == call' = [call EXCEPT ![c] = now]
CallGoes(c, pc) == Becomes(c, [call[c] EXCEPT !.pc = pc])
Ends(c) == Becomes(c, Idle)
IsHelper(c) == call[c].kind = "helper"

\* A run names its model, so its chain has no other; what distils facts or
\* judges answers names none.  A tool's call is ready for the breaker at once.
Begin(c) ==
  /\ CallAt(c, "idle")
  /\ \/ client = "tool" /\ Becomes(c, [Idle EXCEPT !.kind = "tool", !.pc = "admitted"])
     \/ client = "model" /\ \E kind \in {"run", "stream", "helper"} :
          Becomes(c, [Idle EXCEPT !.kind = kind, !.pc = "asks",
                                  !.model = IF kind = "helper" THEN 1 ELSE Models])
  /\ UNCHANGED <<fixed, breaker, calm, limiter>>

\* _call_llm_with_retry: a time-out or a 429 is tried again after a pause,
\* except in a stream, where tokens may have been shown.
\* Fault: the retries are not counted.
RetryUncounted(c) ==
  IF call[c].kind = "run" THEN CallGoes(c, "pause") ELSE Ends(c)
Retry(c) ==
  IF call[c].kind = "run" /\ call[c].tries < MaxRetries
  THEN Becomes(c, [call[c] EXCEPT !.pc = "pause", !.tries = @ + 1])
  ELSE Ends(c)
PauseEnds(c) ==
  /\ CallAt(c, "pause") /\ CallGoes(c, "asks")
  /\ UNCHANGED <<fixed, breaker, calm, limiter>>

\* The next model of the chain.
Degraded(c) == IsHelper(c) /\ call[c].model < Models
Degrade(c) == Becomes(c, [call[c] EXCEPT !.pc = "asks", !.model = @ + 1])
Raises(c) == IF Degraded(c) THEN Degrade(c) ELSE Ends(c)

(***************************************************************************)
(* The limiter                                                             *)
(***************************************************************************)
\* Fault: one more than the limit.
FreeOnEqual(m) == Len(entries[m]) <= Limit
Free(m) == Len(entries[m]) < Limit
Entered(m) == entries' = [entries EXCEPT ![m] = Youngest(<<0>> \o @, Limit)]

Pass(c) ==
  LET m == call[c].model IN
  /\ CallAt(c, "asks") /\ Free(m)
  /\ Entered(m)
  /\ passed' = [passed EXCEPT ![m] = Youngest(<<0>> \o @, Limit + 1)]
  /\ CallGoes(c, "admitted")
  /\ UNCHANGED <<fixed, breaker, calm>>
\* In Redis the refused call counts too.  A refusal is recorded as a failure,
\* in whatever state the breaker is.
Limited(c) ==
  LET m == call[c].model IN
  /\ CallAt(c, "asks") /\ ~Free(m)
  /\ IF shared THEN Entered(m) ELSE entries' = entries
  /\ RecordFailure /\ Retry(c)
  /\ UNCHANGED <<fixed, calm, passed>>

(***************************************************************************)
(* The guarded calls                                                       *)
(***************************************************************************)
Within == UNCHANGED <<fixed, calm, limiter>>
Enter(c) ==
  /\ CallAt(c, "admitted") /\ Allow /\ CallGoes(c, "calling")
  /\ Within /\ UNCHANGED <<opened, failures>>

\* An open breaker turns the call away.  The gateway raises the refusal where
\* it also catches what the provider raises, and records it as a failure.
TurnedAway(c) ==
  /\ CallAt(c, "admitted") /\ state = "OPEN" /\ ~Cooled
  /\ IF client = "model" THEN RecordFailure ELSE UNCHANGED breaker
  /\ Raises(c) /\ Within

Succeeds(c) == CallAt(c, "calling") /\ RecordSuccess /\ Ends(c) /\ Within

\* An error of the provider; a failure of a tool, or the cancellation of its run.
Fails(c) ==
  /\ CallAt(c, "calling") /\ ~calm
  /\ RecordFailure /\ Raises(c) /\ Within
\* Only complete makes a time-out an error of the model.
TimesOut(c) ==
  /\ CallAt(c, "calling") /\ ~calm /\ call[c].kind \in {"run", "helper"}
  /\ RecordFailure
  /\ IF Degraded(c) THEN Degrade(c) ELSE Retry(c)
  /\ Within
\* A 429 of the provider ends the chain.
Refused(c) ==
  /\ CallAt(c, "calling") /\ ~calm /\ client = "model"
  /\ RecordFailure /\ Retry(c) /\ Within
\* a tool's business error; at the gateway, a cancellation or an exception
\* that is no ModelError, such as a refused connection
Unrecorded(c) ==
  /\ CallAt(c, "calling") /\ (client = "model" => ~calm)
  /\ Ends(c) /\ UNCHANGED breaker /\ Within

Older(s, limit) == [n \in DOMAIN s |-> Grown(s[n], limit)]
Tick ==
  /\ opened' = Grown(opened, Cooldown)
  /\ failures' = Older(failures, Window)
  /\ entries' = [m \in Chain |-> Recent(Older(entries[m], Span), Span)]
  /\ passed' = [m \in Chain |-> Recent(Older(passed[m], Span), Span)]
  /\ UNCHANGED <<fixed, state, call, calm>>

Weather == calm' = ~calm /\ UNCHANGED <<fixed, breaker, call, limiter>>

Returns(c) == Succeeds(c) \/ Fails(c) \/ TimesOut(c) \/ Refused(c) \/ Unrecorded(c)
BreakerNext ==
  \/ \E c \in Callers :
       \/ Begin(c) \/ PauseEnds(c) \/ Pass(c) \/ Limited(c)
       \/ Enter(c) \/ TurnedAway(c) \/ Returns(c)
  \/ Tick \/ Weather

BreakerSpec == BreakerInit /\ [][BreakerNext]_breakerVars

\* Time passes, pauses end, calls keep coming and end, by a time-out if by
\* nothing else, and while the callee is well again and again, calls succeed.
FairBreakerSpec ==
  /\ BreakerSpec /\ WF_breakerVars(Tick)
  /\ \A c \in Callers :
       /\ WF_breakerVars(Begin(c)) /\ WF_breakerVars(PauseEnds(c))
       /\ WF_breakerVars(Pass(c) \/ Limited(c)) /\ WF_breakerVars(Enter(c) \/ TurnedAway(c))
       /\ WF_breakerVars(Returns(c)) /\ SF_breakerVars(calm /\ Succeeds(c))

-----------------------------------------------------------------------------
\* Every variable has its type: no more failures are kept than can count.
BreakerTypeOK ==
  /\ client \in {"tool", "model"} /\ shared \in BOOLEAN /\ calm \in BOOLEAN
  /\ state \in {"CLOSED", "OPEN", "HALF_OPEN"} /\ opened \in Ages(Cooldown)
  /\ failures \in Seq(Ages(Window)) /\ Len(failures) <= Threshold
  /\ call \in [Callers ->
       [kind : {"none", "tool", "run", "stream", "helper"},
        pc : {"idle", "asks", "pause", "admitted", "calling"},
        model : Chain, tries : 0 .. MaxRetries]]
  /\ \A m \in Chain : /\ entries[m] \in Seq(Ages(Span)) /\ Len(entries[m]) <= Limit
                      /\ passed[m] \in Seq(Ages(Span))

\* The limiter lets no more than its limit through to a model in any window
\* (limiter.py:1), in the process or in Redis, whatever degrades and retries.
LimitHolds == \A m \in Chain : Len(passed[m]) <= Limit

\* "OPEN (fail fast), cooldown, HALF_OPEN (trial)" (design, 9.3): as long as
\* calls come, a tool's breaker does not stay open for ever, even if late
\* failures of the calls that were under way when it opened restart the cooldown.
ToolOpenEnds == client = "tool" => []<>(state # "OPEN")

\* "HALF_OPEN (trial), success, CLOSED" (design, 9.3): once the callee is well
\* again, the breaker closes.
Closes == <>[]calm => []<>(state = "CLOSED")
ToolCloses == client = "tool" => Closes

\* The chain of models and the retries of a run (runtime.py:193) come to an
\* end, whatever the provider, the limiter and the breaker answer meanwhile.
CallEnds == \A c \in Callers : []<>CallAt(c, "idle")

\* Whoever keeps asking the limiter passes it at times (design, 8.3: limits
\* delay, they do not shut out).
AskerPasses == \A c \in Callers : []<>CallAt(c, "asks") => []<>CallAt(c, "admitted")
=============================================================================
