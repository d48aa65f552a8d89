--------------------------- MODULE RunSubmission ---------------------------
(***************************************************************************)
(* How a run comes to be: POST /agents/runs and /agents/runs/stream        *)
(* (app/agent/api/runs.py), before them the Idempotency-Key middleware     *)
(* (app/gateway/idempotency.py), after them the conversation kept in the   *)
(* session (app/agent/api/sessions.py).                                    *)
(*                                                                         *)
(* The requests are one request of a client and its retries, or requests   *)
(* of several clients without keys: they share the keys that the client    *)
(* chose to send.  Each await of the handlers is a step.  Module           *)
(* RunLifecycle has what the run does between its start and its end, and   *)
(* JobQueue how a job gets its worker; here a run lives or waits for an    *)
(* approval, and a job whose run cannot be created ends in the dead letter *)
(* queue after its attempts, which fail alike.                             *)
(***************************************************************************)
EXTENDS Naturals, FiniteSets

CONSTANTS
  Requests,   \* requests sent; a run is known by the request it is for
  Quota,      \* settings.tenant_max_concurrent_runs
  None

ASSUME SubmissionAssumption ==
  Quota \in Nat /\ None \notin Requests /\ IsFiniteSet(Requests)

VARIABLES
  keys,       \* what every request carries: "idem" (header), "client" (body)
  request,    \* request[r]: where its handler stands, its mode, its cut
  told,       \* told[r]: what its client was answered
  run,        \* run[r]: state of the row of the run
  job,        \* job[r]: state of its job
  cached,     \* the row of the Idempotency-Key: answer kept, and its age
  saved,      \* saved[r]: copies of the run's two messages in its session
  inTurn      \* no request counted the runs while another was to start one

vars == <<keys, request, told, run, job, cached, saved, inTurn>>

Modes == {"sync", "stream", "async"}
Request == [pc : {"new", "key", "count", "client", "session", "enqueue", "insert",
                  "begin", "drive", "save", "resave", "keep", "over"},
            mode : Modes]
\* "run" and "queued" name a run; an error says that none was made for it.
Answer == [kind : {"run", "queued"}, of : Requests]
          \union {[kind |-> "error", of |-> None]}
Error == [kind |-> "error", of |-> None]
ASSUME NoAnswerAssumption ==
  None \notin Answer \union [answer : Answer, old : BOOLEAN]

\* WAITING_APPROVAL counts for the quota as RUNNING does; CREATED and PAUSED
\* do not.  What a run was told of, it is told of for good once ended.
RunStates == {"none", "CREATED", "RUNNING", "WAITING_APPROVAL", "ENDED"}
\* Fault: a run that waits for an approval is not counted.
RunningCounts == {"RUNNING"}
Counted == {"RUNNING", "WAITING_APPROVAL"}
Active(states) == {r \in Requests : run[r] \in states}
Submitted == {r \in Requests : run[r] # "none"}

Init ==
  /\ keys \in SUBSET {"idem", "client"}
  /\ request = [r \in Requests |-> [pc |-> "new", mode |-> "sync"]]
  /\ told = [r \in Requests |-> None]
  /\ run = [r \in Requests |-> "none"]
  /\ job = [r \in Requests |-> "none"]
  /\ cached = None
  /\ saved = [r \in Requests |-> 0]
  /\ inTurn = TRUE

-----------------------------------------------------------------------------
At(r, pc) == request[r].pc = pc /\ UNCHANGED keys
Goes(r, pc) == request' = [request EXCEPT ![r].pc = pc]
Mode(r) == request[r].mode

Over == [pc |-> "over", mode |-> "sync"]
\* The client is answered; a response below 400 that is no stream is kept
\* under its key.
\* Fault: any answer is kept.
AnswersAnyKept(r, a) ==
  /\ told' = [told EXCEPT ![r] = a]
  /\ Goes(r, IF "idem" \in keys THEN "keep" ELSE "over")
Answers(r, a) ==
  /\ told' = [told EXCEPT ![r] = a]
  /\ request' = [request EXCEPT ![r] =
       IF "idem" \in keys /\ a # Error /\ Mode(r) # "stream"
       THEN [@ EXCEPT !.pc = "keep"] ELSE Over]
Says(r, a) == told' = [told EXCEPT ![r] = a] /\ request' = [request EXCEPT ![r] = Over]

Arrive(r, mode) ==
  /\ At(r, "new")
  /\ request' = [request EXCEPT ![r] =
       [pc |-> IF "idem" \in keys THEN "key" ELSE "count", mode |-> mode]]
  /\ UNCHANGED <<told, run, job, cached, saved, inTurn>>

\* _get_cached: an answer of less than a day is given again.
FindCached(r) ==
  /\ At(r, "key")
  /\ IF cached # None /\ ~cached.old THEN Says(r, cached.answer)
     ELSE Goes(r, "count") /\ UNCHANGED told
  /\ UNCHANGED <<run, job, cached, saved, inTurn>>

\* Some other run is admitted and does not count yet, on its way or queued.
Admitted(r) == \E p \in Requests \ {r} :
  \/ request[p].pc \in {"client", "session", "enqueue", "insert", "begin"}
  \/ job[p] \in {"queued", "insert", "begin"}
EnforceTenantQuota(r) ==
  /\ At(r, "count")
  /\ inTurn' = (inTurn /\ ~Admitted(r))
  /\ IF Cardinality(Active(Counted)) >= Quota THEN Answers(r, Error)
     ELSE Goes(r, IF "client" \in keys THEN "client" ELSE "session")
          /\ UNCHANGED told
  /\ UNCHANGED <<run, job, cached, saved>>

\* The run of this client_run_id: answered again when it has ended, refused
\* before.  A queued job has no row yet.
FindClientRun(r) ==
  /\ At(r, "client")
  /\ IF Submitted = {} THEN Goes(r, "session") /\ UNCHANGED told
     ELSE \E p \in Submitted :
       IF run[p] = "ENDED" THEN Answers(r, [kind |-> "run", of |-> p])
       ELSE Answers(r, Error)
  /\ UNCHANGED <<run, job, cached, saved, inTurn>>

\* The agent is resolved, its versions frozen and the session's row made.
EnsureSession(r) ==
  /\ At(r, "session")
  /\ Goes(r, IF Mode(r) = "async" THEN "enqueue" ELSE "insert")
  /\ UNCHANGED <<told, run, job, cached, saved, inTurn>>

Enqueue(r) ==
  /\ At(r, "enqueue")
  /\ job' = [job EXCEPT ![r] = "queued"]
  /\ Answers(r, [kind |-> "queued", of |-> r])
  /\ UNCHANGED <<run, cached, saved, inTurn>>

\* uq_run_client_id allows one run for each client_run_id.
\* Fault: the column is no key.
AnyInsertable(r) == TRUE
Insertable(r) == "client" \in keys => Submitted = {}

\* store.create_run of a request; without its row the handler fails, and a
\* stream tells its client so and looks for messages to keep.
CreateRun(r) ==
  /\ At(r, "insert")
  /\ IF Insertable(r)
     THEN run' = [run EXCEPT ![r] = "CREATED"] /\ Goes(r, "begin")
          /\ UNCHANGED told
     ELSE Answers(r, Error) /\ UNCHANGED run
  /\ UNCHANGED <<job, cached, saved, inTurn>>

BeginRun(r) ==
  /\ At(r, "begin")
  /\ run' = [run EXCEPT ![r] = "RUNNING"]
  /\ Goes(r, "drive")
  /\ UNCHANGED <<told, job, cached, saved, inTurn>>

\* The run ends, or its request does while it waits for an approval.
EndRun(r) ==
  /\ At(r, "drive")
  /\ \E s \in {"WAITING_APPROVAL", "ENDED"} : run' = [run EXCEPT ![r] = s]
  /\ Goes(r, "save")
  /\ UNCHANGED <<told, job, cached, saved, inTurn>>

\* The facts for the memory are extracted (_sediment_memory, which changes
\* nothing here), then persist_chat_messages, then the answer.
PersistMessages(r) ==
  /\ At(r, "save")
  /\ saved' = [saved EXCEPT ![r] = @ + 1]
  /\ Answers(r, [kind |-> "run", of |-> r])
  /\ UNCHANGED <<run, job, cached, inTurn>>

\* The client of a stream is gone: its task is cancelled at its await.  The
\* driver leaves the run CANCELLED; the messages are saved behind a shield,
\* also when the cancelled step was that save and has taken effect.
\* Fault: the cancelled task saves nothing.
CutAndForgotten(r) ==
  /\ Mode(r) = "stream" /\ request[r].pc \in {"insert", "begin", "drive", "save"}
  /\ run' = [run EXCEPT ![r] = IF @ = "RUNNING" THEN "ENDED" ELSE @]
  /\ Says(r, Error)
  /\ UNCHANGED <<keys, saved, job, cached, inTurn>>
CutStream(r) ==
  /\ Mode(r) = "stream" /\ request[r].pc \in {"insert", "begin", "drive", "save"}
  /\ run' = [run EXCEPT ![r] = IF @ = "RUNNING" THEN "ENDED" ELSE @]
  /\ \/ UNCHANGED saved
     \/ request[r].pc = "save" /\ saved' = [saved EXCEPT ![r] = 1]
  /\ Goes(r, "resave")
  /\ UNCHANGED <<keys, told, job, cached, inTurn>>

\* Without a row there is nothing to save.
SaveAfterCut(r) ==
  /\ At(r, "resave")
  /\ saved' = [saved EXCEPT ![r] = IF run[r] = "none" THEN @ ELSE @ + 1]
  /\ Says(r, Error)
  /\ UNCHANGED <<run, job, cached, inTurn>>

\* _store: the row is added, or found and written; then all rows of more
\* than a day are deleted, this one with them.
KeepAnswer(r) ==
  /\ At(r, "keep")
  /\ cached' = IF cached # None /\ cached.old THEN None
               ELSE [answer |-> told[r], old |-> FALSE]
  /\ request' = [request EXCEPT ![r] = Over]
  /\ UNCHANGED <<told, run, job, saved, inTurn>>

\* A day goes by.
CacheAges ==
  /\ cached # None /\ ~cached.old
  /\ cached' = [cached EXCEPT !.old = TRUE]
  /\ UNCHANGED <<keys, request, told, run, job, saved, inTurn>>

\* _agent_run_handler, in a worker.
Works(r, pc, next) ==
  /\ job[r] = pc /\ job' = [job EXCEPT ![r] = next]
  /\ UNCHANGED <<keys, request, told, cached, inTurn>>
JobCreatesRun(r) ==
  \/ /\ Works(r, "queued", "begin") /\ Insertable(r)
     /\ run' = [run EXCEPT ![r] = "CREATED"] /\ UNCHANGED saved
  \/ Works(r, "queued", "DEAD_LETTER") /\ ~Insertable(r) /\ UNCHANGED <<run, saved>>
JobBeginsRun(r) ==
  /\ Works(r, "begin", "drive")
  /\ run' = [run EXCEPT ![r] = "RUNNING"] /\ UNCHANGED saved
JobEndsRun(r) ==
  /\ Works(r, "drive", "save") /\ UNCHANGED saved
  /\ \E s \in {"WAITING_APPROVAL", "ENDED"} : run' = [run EXCEPT ![r] = s]
JobSavesMessages(r) ==
  /\ Works(r, "save", "COMPLETED")
  /\ saved' = [saved EXCEPT ![r] = @ + 1] /\ UNCHANGED run

\* The approval is decided and the run resumed to its end (resume_run): it
\* counts the whole time, and nobody asks the quota.
Resume(r) ==
  /\ run[r] = "WAITING_APPROVAL"
  /\ run' = [run EXCEPT ![r] = "ENDED"]
  /\ UNCHANGED <<keys, request, told, job, cached, saved, inTurn>>

-----------------------------------------------------------------------------
Handler(r) ==
  \/ FindCached(r) \/ EnforceTenantQuota(r) \/ FindClientRun(r)
  \/ EnsureSession(r) \/ Enqueue(r) \/ CreateRun(r) \/ BeginRun(r)
  \/ EndRun(r) \/ PersistMessages(r)
  \/ SaveAfterCut(r) \/ KeepAnswer(r)
Worker(r) == JobCreatesRun(r) \/ JobBeginsRun(r) \/ JobEndsRun(r) \/ JobSavesMessages(r)

Finished == \A r \in Requests :
  /\ request[r].pc = "over" /\ job[r] \in {"none", "COMPLETED", "DEAD_LETTER"}
  /\ run[r] # "WAITING_APPROVAL"
Next ==
  \/ \E r \in Requests :
       Handler(r) \/ CutStream(r) \/ Worker(r) \/ Resume(r)
       \/ \E m \in Modes : Arrive(r, m)
  \/ CacheAges
  \/ Finished /\ UNCHANGED vars

Spec == Init /\ [][Next]_vars

\* The event loop runs what is ready, and the pool of agent_run has workers;
\* a driven run ends within its budget.
Fairness == \A r \in Requests : WF_vars(Handler(r)) /\ WF_vars(Worker(r))
FairSpec == Spec /\ Fairness

-----------------------------------------------------------------------------
(* Properties *)

\* Every variable has its type, and an answer that is kept is no error: the
\* middleware keeps only responses below 400.
TypeOK ==
  /\ keys \subseteq {"idem", "client"}
  /\ request \in [Requests -> Request]
  /\ told \in [Requests -> Answer \union {None}]
  /\ run \in [Requests -> RunStates]
  /\ job \in [Requests -> {"none", "queued", "begin", "drive", "save",
                           "COMPLETED", "DEAD_LETTER"}]
  /\ cached \in [answer : Answer \ {Error}, old : BOOLEAN] \union {None}
  /\ saved \in [Requests -> 0 .. 2]
  /\ inTurn \in BOOLEAN

\* A client_run_id never makes two runs, and every retry that is answered
\* with a run, by its handler or from the kept answer, is answered with that
\* one (the comment on RunCreateRequest.client_run_id), whatever modes the
\* retries use and however they overlap.
RetriesAgree ==
  "client" \in keys =>
    /\ Cardinality(Submitted) <= 1
    /\ \A r, p \in Requests :
         (told[r] # None /\ told[r].kind = "run" /\ run[p] # "none") => told[r].of = p

\* The quota bounds the runs of a tenant (_enforce_tenant_quota) as long as
\* no request counts them while another, or a job, is on its way to start one.
QuotaHoldsInTurn == inTurn => Cardinality(Active({"RUNNING", "WAITING_APPROVAL"})) <= Quota

\* When the request and the job are over, whatever way they went, a run that
\* came to be has its messages in the session: streams cut anywhere, refused
\* retries and dead letters included.
MessagesKept ==
  \A r \in Requests :
    request[r].pc = "over" /\ job[r] \in {"none", "COMPLETED", "DEAD_LETTER"}
    => told[r] # None /\ (run[r] # "none" => saved[r] > 0)

\* Documents promise more, and the code does not keep it.
\* idempotency.py:5: of two writes of one key the answer kept first counts.
KeptAnswerStays ==
  [][cached # None /\ ~cached.old => cached' # None /\ cached'.answer = cached.answer]_vars
\* idempotency.py:1: requests with one Idempotency-Key are done once.
DoneOncePerKey == "idem" \in keys => Cardinality(Submitted) <= 1
\* runs.py:122: the runs of a tenant stay within the quota.
QuotaHolds == Cardinality(Active(Counted)) <= Quota
\* A retry is not refused for ever (runs.py:165: terminal runs are answered
\* again, others are in progress): a stream cut before its run has begun
\* leaves it CREATED.
RunsEnd == \A r \in Requests : run[r] # "none" ~> run[r] \in {"ENDED", "WAITING_APPROVAL"}
\* A run answered as QUEUED can be asked for in the end.
QueuedRunExists ==
  \A r \in Requests :
    (told[r] # None /\ told[r].kind = "queued" /\ told[r].of = r) ~> run[r] # "none"
\* The messages of a run are in its session once.
MessagesOnce == \A r \in Requests : saved[r] <= 1
=============================================================================
