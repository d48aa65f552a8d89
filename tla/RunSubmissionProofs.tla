------------------------ MODULE RunSubmissionProofs ------------------------
(***************************************************************************)
(* Proofs about RunSubmission, for any number of requests, any quota, and  *)
(* whichever keys the requests carry; and about the rate limiter and the   *)
(* breaker of CircuitBreaker, the other bounds on what is admitted.        *)
(***************************************************************************)
EXTENDS RunSubmission, CircuitBreaker, FiniteSetTheorems, SequenceTheorems, TLAPS

\* How far each request has come: until its row is made it has no run, until
\* its handler is done no job, and its messages are counted exactly.
Early == {"new", "key", "count", "client", "session", "enqueue", "insert"}
RequestPlace(r) ==
  /\ request[r].pc \in Early => run[r] = "none" /\ saved[r] = 0
  /\ request[r].pc = "begin" => run[r] = "CREATED" /\ saved[r] = 0
  /\ request[r].pc = "drive" => run[r] = "RUNNING" /\ saved[r] = 0
  /\ request[r].pc = "save" => run[r] # "none" /\ saved[r] = 0
  /\ request[r].pc = "resave" => saved[r] <= 1
  /\ request[r].pc \notin {"keep", "over"} => job[r] = "none"
  /\ request[r].pc \in {"keep", "over"} =>
       told[r] # None /\ (job[r] = "none" /\ run[r] # "none" => saved[r] > 0)
  /\ request[r].pc = "keep" => told[r] # Error
JobPlace(r) ==
  /\ job[r] \in {"queued", "DEAD_LETTER"} => run[r] = "none" /\ saved[r] = 0
  /\ job[r] = "begin" => run[r] = "CREATED" /\ saved[r] = 0
  /\ job[r] = "drive" => run[r] = "RUNNING" /\ saved[r] = 0
  /\ job[r] = "save" => run[r] # "none" /\ saved[r] = 0
  /\ job[r] = "COMPLETED" => saved[r] > 0
PlaceInv == TypeOK /\ \A r \in Requests : RequestPlace(r) /\ JobPlace(r)

\* An answer that names a run names one that was made, the kept one included,
\* and a client_run_id has one run.
Made(a) == a # None /\ a.kind = "run" => run[a.of] # "none"
AgreeInv ==
  /\ \A r \in Requests : Made(told[r])
  /\ cached # None => Made(cached.answer)
  /\ "client" \in keys => \A p, q \in Submitted : p = q

\* What the quota has let in, until it ends: on its way, queued, or counted.
Busy == {p \in Requests :
  \/ run[p] \in Counted
  \/ request[p].pc \in {"client", "session", "enqueue", "insert", "begin"}
  \/ job[p] \in {"queued", "begin"}}
BusyInv == inTurn => Cardinality(Busy) <= Quota

-----------------------------------------------------------------------------
\* Answers to a request that names a run or a queued job are answers.
LEMMA AnswerType ==
  /\ None \notin Answer /\ Error \in Answer
  /\ \A r \in Requests : [kind |-> "run", of |-> r] \in Answer /\ [kind |-> "run", of |-> r] # Error
  /\ \A r \in Requests : [kind |-> "queued", of |-> r] \in Answer /\ [kind |-> "queued", of |-> r] # Error
BY NoAnswerAssumption, SubmissionAssumption DEF Answer, Error

Pcs == Early \union {"begin", "drive", "save", "resave", "keep", "over"}

\* What the steps of the handler of r leave of the others.
OthersStand(r) == \A p \in Requests \ {r} :
  request'[p] = request[p] /\ told'[p] = told[p] /\ run'[p] = run[p]
    /\ job'[p] = job[p] /\ saved'[p] = saved[p]

LEMMA GoesEffect ==
  ASSUME TypeOK, NEW r \in Requests, NEW pc \in Pcs, Goes(r, pc)
  PROVE  /\ request' \in [Requests -> Request]
         /\ request'[r].pc = pc /\ request'[r].mode = request[r].mode
         /\ \A p \in Requests \ {r} : request'[p] = request[p]
BY DEF TypeOK, Goes, Request, Pcs, Early

LEMMA SaysEffect ==
  ASSUME TypeOK, NEW r \in Requests, NEW a \in Answer, Says(r, a)
  PROVE  /\ request' \in [Requests -> Request] /\ told' \in [Requests -> Answer \union {None}]
         /\ request'[r].pc = "over" /\ told'[r] = a /\ a # None
         /\ \A p \in Requests \ {r} : request'[p] = request[p] /\ told'[p] = told[p]
BY AnswerType DEF TypeOK, Says, Over, Request, Modes

LEMMA AnswersEffect ==
  ASSUME TypeOK, NEW r \in Requests, NEW a \in Answer, Answers(r, a)
  PROVE  /\ request' \in [Requests -> Request] /\ told' \in [Requests -> Answer \union {None}]
         /\ request'[r].pc \in {"keep", "over"} /\ told'[r] = a /\ a # None
         /\ request'[r].pc = "keep" => a # Error
         /\ \A p \in Requests \ {r} : request'[p] = request[p] /\ told'[p] = told[p]
<1>1. [request[r] EXCEPT !.pc = "keep"] \in Request /\ Over \in Request
  BY DEF TypeOK, Request, Over, Modes
<1>2. [request[r] EXCEPT !.pc = "keep"].pc = "keep" /\ Over.pc = "over"
  BY DEF TypeOK, Request, Over
<1>3. \/ request' = [request EXCEPT ![r] = [request[r] EXCEPT !.pc = "keep"]] /\ a # Error
      \/ request' = [request EXCEPT ![r] = Over]
  BY DEF Answers
<1>4. told' = [told EXCEPT ![r] = a]
  BY DEF Answers
<1> QED
  BY <1>1, <1>2, <1>3, <1>4, AnswerType DEF TypeOK

LEMMA OthersKeep ==
  ASSUME NEW r \in Requests, \A p \in Requests : RequestPlace(p) /\ JobPlace(p), OthersStand(r),
         RequestPlace(r)', JobPlace(r)'
  PROVE  \A p \in Requests : RequestPlace(p)' /\ JobPlace(p)'
BY DEF OthersStand, RequestPlace, JobPlace, Error

LEMMA InitPlace == Init => PlaceInv
<1> SUFFICES ASSUME Init PROVE PlaceInv
  OBVIOUS
<1>1. [pc |-> "new", mode |-> "sync"] \in Request
  BY DEF Request, Modes
<1>2. TypeOK
  BY <1>1 DEF Init, TypeOK, RunStates
<1>3. \A r \in Requests : RequestPlace(r) /\ JobPlace(r)
  BY DEF Init, RequestPlace, JobPlace
<1> QED
  BY <1>2, <1>3 DEF PlaceInv

\* Of a handler that stands at pc: what its step leaves of the types and the
\* places, when it goes to another position or answers.
LEMMA PlaceStep ==
  ASSUME PlaceInv, NEW r \in Requests, Handler(r) \/ CutStream(r) \/ \E m \in Modes : Arrive(r, m)
  PROVE  PlaceInv'
<1> USE DEF PlaceInv
<1>0. TypeOK /\ RequestPlace(r) /\ JobPlace(r)
  OBVIOUS
<1> SUFFICES TypeOK' /\ OthersStand(r) /\ RequestPlace(r)' /\ JobPlace(r)'
  BY OthersKeep
<1>1. ASSUME NEW m \in Modes, Arrive(r, m) PROVE TypeOK' /\ OthersStand(r) /\ RequestPlace(r)' /\ JobPlace(r)'
  <2> DEFINE new == [pc |-> IF "idem" \in keys THEN "key" ELSE "count", mode |-> m]
  <2>1. new \in Request /\ new.pc \in {"key", "count"}
    BY DEF Request
  <2>2. request' = [request EXCEPT ![r] = new] /\ request[r].pc = "new"
        /\ UNCHANGED <<keys, told, run, job, cached, saved, inTurn>>
    BY <1>1 DEF Arrive, At
  <2> HIDE DEF new
  <2>3. request'[r].pc \in {"key", "count"} /\ request' \in [Requests -> Request]
    BY <2>1, <2>2 DEF TypeOK
  <2>4. TypeOK' /\ OthersStand(r)
    BY <1>0, <2>2, <2>3 DEF TypeOK, OthersStand
  <2> QED
    BY <1>0, <2>2, <2>3, <2>4 DEF RequestPlace, JobPlace, Early
\* A handler that goes on in the same place of the row.
<1>2. ASSUME NEW pc \in Pcs, Goes(r, pc), UNCHANGED <<keys, told, run, job, cached, saved>>,
             inTurn' \in BOOLEAN, request[r].pc \in Early, pc \in Early
      PROVE  TypeOK' /\ OthersStand(r) /\ RequestPlace(r)' /\ JobPlace(r)'
  BY <1>0, <1>2, GoesEffect DEF TypeOK, OthersStand, RequestPlace, JobPlace, Early
\* A handler that answers without a run of its own.
<1>3. ASSUME NEW a \in Answer, Answers(r, a), UNCHANGED <<keys, run, job, cached, saved>>,
             inTurn' \in BOOLEAN, request[r].pc \in Early
      PROVE  TypeOK' /\ OthersStand(r) /\ RequestPlace(r)' /\ JobPlace(r)'
  BY <1>0, <1>3, AnswersEffect DEF TypeOK, OthersStand, RequestPlace, JobPlace, Early
<1>4. CASE FindCached(r)
  <2>1. CASE cached # None /\ ~cached.old
    <3>1. cached.answer \in Answer
      BY <2>1 DEF TypeOK
    <3>2. Says(r, cached.answer) /\ UNCHANGED <<keys, run, job, cached, saved, inTurn>>
          /\ request[r].pc = "key"
      BY <1>4, <2>1 DEF FindCached, At
    <3> QED
      BY <1>0, <3>1, <3>2, SaysEffect DEF TypeOK, OthersStand, RequestPlace, JobPlace, Early
  <2> QED
    BY <1>0, <1>2, <1>4, <2>1 DEF FindCached, At, Pcs, Early, TypeOK
<1>5. CASE EnforceTenantQuota(r)
  <2>1. inTurn' \in BOOLEAN
    BY <1>5 DEF EnforceTenantQuota, TypeOK
  <2> QED
    BY <1>2, <1>3, <1>5, <2>1, AnswerType DEF EnforceTenantQuota, At, Pcs, Early
<1>6. CASE FindClientRun(r)
  BY <1>0, <1>2, <1>3, <1>6, AnswerType DEF FindClientRun, At, Pcs, Early, TypeOK, Submitted
<1>7. CASE EnsureSession(r)
  BY <1>0, <1>2, <1>7 DEF EnsureSession, At, Pcs, Early, TypeOK
<1>8. CASE Enqueue(r)
  BY <1>0, <1>8, AnswerType, AnswersEffect
     DEF Enqueue, At, TypeOK, OthersStand, RequestPlace, JobPlace, Early
<1>9. CASE CreateRun(r)
  <2>1. CASE Insertable(r)
    BY <1>0, <1>9, <2>1, GoesEffect
       DEF CreateRun, At, Pcs, TypeOK, RunStates, OthersStand, RequestPlace, JobPlace, Early
  <2> QED
    BY <1>0, <1>3, <1>9, <2>1, AnswerType DEF CreateRun, At, Early, TypeOK
<1>10. CASE BeginRun(r)
  BY <1>0, <1>10, GoesEffect
     DEF BeginRun, At, Pcs, TypeOK, RunStates, OthersStand, RequestPlace, JobPlace, Early
<1>11. CASE EndRun(r)
  BY <1>0, <1>11, GoesEffect
     DEF EndRun, At, Pcs, TypeOK, RunStates, OthersStand, RequestPlace, JobPlace, Early
<1>12. CASE PersistMessages(r)
  BY <1>0, <1>12, AnswerType, AnswersEffect
     DEF PersistMessages, At, TypeOK, OthersStand, RequestPlace, JobPlace, Early
<1>13. CASE CutStream(r)
  <2>1. saved' = saved \/ (request[r].pc = "save" /\ saved' = [saved EXCEPT ![r] = 1])
    BY <1>13 DEF CutStream
  <2> QED
    BY <1>0, <1>13, <2>1, GoesEffect
       DEF CutStream, Pcs, TypeOK, RunStates, OthersStand, RequestPlace, JobPlace, Early
<1>14. CASE SaveAfterCut(r)
  BY <1>0, <1>14, AnswerType, SaysEffect
     DEF SaveAfterCut, At, TypeOK, OthersStand, RequestPlace, JobPlace, Early
<1>15. CASE KeepAnswer(r)
  <2>1. told[r] \in Answer \ {Error}
    BY <1>0, <1>15 DEF KeepAnswer, At, RequestPlace, TypeOK
  <2>2. cached' \in [answer : Answer \ {Error}, old : BOOLEAN] \union {None}
    BY <1>15, <2>1 DEF KeepAnswer
  <2>3. Over \in Request /\ Over.pc = "over"
    BY DEF Over, Request, Modes
  <2>4. request' = [request EXCEPT ![r] = Over] /\ request[r].pc = "keep"
        /\ UNCHANGED <<keys, told, run, job, saved, inTurn>>
    BY <1>15 DEF KeepAnswer, At
  <2>5. TypeOK' /\ OthersStand(r) /\ request'[r].pc = "over"
    BY <1>0, <2>2, <2>3, <2>4 DEF TypeOK, OthersStand
  <2> QED
    BY <1>0, <2>4, <2>5 DEF RequestPlace, JobPlace, Early
<1> QED
  BY <1>1, <1>4, <1>5, <1>6, <1>7, <1>8, <1>9, <1>10, <1>11, <1>12, <1>13, <1>14, <1>15 DEF Handler

LEMMA WorkerPlaceStep ==
  ASSUME PlaceInv, NEW r \in Requests, Worker(r) \/ Resume(r)
  PROVE  PlaceInv'
<1> USE DEF PlaceInv
<1>0. TypeOK /\ RequestPlace(r) /\ JobPlace(r)
  OBVIOUS
<1> SUFFICES TypeOK' /\ OthersStand(r) /\ RequestPlace(r)' /\ JobPlace(r)'
  BY OthersKeep
<1> USE DEF Works, TypeOK, OthersStand, RequestPlace, JobPlace, RunStates, Early, Error
<1>1. CASE JobCreatesRun(r)
  BY <1>0, <1>1 DEF JobCreatesRun
<1>2. CASE JobBeginsRun(r)
  BY <1>0, <1>2 DEF JobBeginsRun
<1>3. CASE JobEndsRun(r)
  BY <1>0, <1>3 DEF JobEndsRun
<1>4. CASE JobSavesMessages(r)
  BY <1>0, <1>4 DEF JobSavesMessages
<1>5. CASE Resume(r)
  BY <1>0, <1>5 DEF Resume
<1> QED
  BY <1>1, <1>2, <1>3, <1>4, <1>5 DEF Worker

LEMMA PlaceStays == PlaceInv /\ [Next]_vars => PlaceInv'
<1>1. ASSUME PlaceInv, CacheAges PROVE PlaceInv'
  <2>1. cached' \in [answer : Answer \ {Error}, old : BOOLEAN]
    BY <1>1 DEF CacheAges, PlaceInv, TypeOK
  <2> QED
    BY <1>1, <2>1 DEF CacheAges, PlaceInv, TypeOK, RequestPlace, JobPlace, Error
<1>2. ASSUME PlaceInv, UNCHANGED vars PROVE PlaceInv'
  BY <1>2 DEF vars, PlaceInv, TypeOK, RequestPlace, JobPlace, Error
<1> QED
  BY <1>1, <1>2, PlaceStep, WorkerPlaceStep DEF Next

\* Every variable has its type, and an answer that is kept is no error: the
\* middleware keeps only responses below 400.
THEOREM TypeCorrect == Spec => []TypeOK
<1>1. PlaceInv => TypeOK
  BY DEF PlaceInv
<1> QED
  BY <1>1, InitPlace, PlaceStays, PTL DEF Spec

\* When the request and the job are over, whatever way they went, a run that
\* came to be has its messages in the session (runs.py saves them after the run,
\* behind a shield when the stream is cut): streams cut anywhere, refused
\* retries and dead letters included.
THEOREM MessagesAlwaysKept == Spec => []MessagesKept
<1>1. PlaceInv => MessagesKept
  BY DEF PlaceInv, MessagesKept, RequestPlace, JobPlace
<1> QED
  BY <1>1, InitPlace, PlaceStays, PTL DEF Spec

-----------------------------------------------------------------------------
\* A run is never unmade: what an answer named before the step is there after it.
Stays(a) == a.kind = "run" => run'[a.of] # "none"
RunsStay == \A p \in Requests : run[p] # "none" => run'[p] # "none"

LEMMA AnswersStay ==
  ASSUME PlaceInv, AgreeInv, RunsStay
  PROVE  /\ \A p \in Requests : told[p] # None => Stays(told[p])
         /\ cached # None => Stays(cached.answer)
<1>1. \A a \in Answer : Made(a) => Stays(a)
  BY AnswerType DEF Made, Stays, RunsStay, Answer
<1>2. \A p \in Requests : told[p] \in Answer \union {None}
  BY DEF PlaceInv, TypeOK
<1>3. cached # None => cached.answer \in Answer
  BY DEF PlaceInv, TypeOK
<1> QED
  BY <1>1, <1>2, <1>3 DEF AgreeInv

\* What a step has to keep, then, is that new answers name runs that are there,
\* and that the second run of a client_run_id is not made.
LEMMA AgreeKeeps ==
  ASSUME AgreeInv, PlaceInv, RunsStay, UNCHANGED keys,
         \A p \in Requests : told'[p] = told[p] \/ Stays(told'[p]),
         cached' = cached \/ cached' = None \/ Stays(cached'.answer),
         "client" \in keys => Submitted' \subseteq Submitted \/ \A p, q \in Submitted' : p = q
  PROVE  AgreeInv'
<1>1. \A p \in Requests : told'[p] # None => Stays(told'[p])
  BY AnswersStay
<1>2. cached' # None => Stays(cached'.answer)
  BY AnswersStay
<1>3. "client" \in keys' => \A p, q \in Submitted' : p = q
  BY DEF AgreeInv
<1> QED
  BY <1>1, <1>2, <1>3 DEF AgreeInv, Made, Stays

LEMMA AgreeStep ==
  ASSUME PlaceInv, AgreeInv, NEW r \in Requests,
         Handler(r) \/ CutStream(r) \/ Worker(r) \/ Resume(r) \/ \E m \in Modes : Arrive(r, m)
  PROVE  AgreeInv'
<1>0. TypeOK /\ RequestPlace(r) /\ JobPlace(r)
  BY DEF PlaceInv
\* A step that makes no run and answers nothing new.
<1>1. ASSUME RunsStay, Submitted' \subseteq Submitted, UNCHANGED <<keys, told>>,
             cached' = cached \/ cached' = None \/ Stays(cached'.answer)
      PROVE  AgreeInv'
  BY <1>1, AgreeKeeps
\* A step that answers r and leaves the runs.
<1>2. ASSUME NEW a \in Answer, Answers(r, a) \/ Says(r, a), UNCHANGED <<keys, run, cached>>,
             Stays(a)
      PROVE  AgreeInv'
  <2>1. \A p \in Requests : told'[p] = told[p] \/ told'[p] = a
    BY <1>0, <1>2, AnswersEffect, SaysEffect
  <2>2. RunsStay /\ Submitted' \subseteq Submitted
    BY <1>2 DEF RunsStay, Submitted
  <2> QED
    BY <1>2, <2>1, <2>2, AgreeKeeps
<1>3. Stays(Error) /\ Stays([kind |-> "queued", of |-> r])
  BY DEF Stays, Error
\* The row of the run of r is made.
<1>4. ASSUME Insertable(r), run' = [run EXCEPT ![r] = "CREATED"], UNCHANGED <<keys, told, cached>>
      PROVE  AgreeInv'
  <2>1. RunsStay
    BY <1>0, <1>4 DEF RunsStay, TypeOK
  <2>2. "client" \in keys => \A p, q \in Submitted' : p = q
    BY <1>0, <1>4 DEF Insertable, Submitted, TypeOK
  <2> QED
    BY <1>4, <2>1, <2>2, AgreeKeeps
\* The row of a run that is there changes its state.
<1>5. ASSUME NEW s \in RunStates \ {"none"}, run[r] # "none", run' = [run EXCEPT ![r] = s]
      PROVE  RunsStay /\ Submitted' \subseteq Submitted
  BY <1>0, <1>5 DEF RunsStay, Submitted, TypeOK
<1>6. ASSUME UNCHANGED run PROVE RunsStay /\ Submitted' \subseteq Submitted
  BY <1>6 DEF RunsStay, Submitted
<1>7. CASE \E m \in Modes : Arrive(r, m)
  BY <1>1, <1>6, <1>7 DEF Arrive, At
<1>8. CASE FindCached(r)
  <2>1. CASE cached # None /\ ~cached.old
    <3>1. cached.answer \in Answer /\ Stays(cached.answer)
      BY <1>0, <1>6, <1>8, <2>1, AnswersStay DEF FindCached, TypeOK
    <3> QED
      BY <1>2, <1>8, <2>1, <3>1 DEF FindCached, At
  <2> QED
    BY <1>1, <1>6, <1>8, <2>1 DEF FindCached, At
<1>9. CASE EnforceTenantQuota(r)
  BY <1>1, <1>2, <1>3, <1>6, <1>9, AnswerType DEF EnforceTenantQuota, At
<1>10. CASE FindClientRun(r)
  <2>1. \A p \in Submitted : p \in Requests /\ (UNCHANGED run => Stays([kind |-> "run", of |-> p]))
    BY DEF Submitted, Stays
  <2> QED
    BY <1>1, <1>2, <1>3, <1>6, <1>10, <2>1, AnswerType DEF FindClientRun, At
<1>11. CASE EnsureSession(r)
  BY <1>1, <1>6, <1>11 DEF EnsureSession, At
<1>12. CASE Enqueue(r)
  BY <1>2, <1>3, <1>12, AnswerType DEF Enqueue, At
<1>13. CASE CreateRun(r)
  BY <1>2, <1>3, <1>4, <1>13, AnswerType DEF CreateRun, At
<1>14. CASE BeginRun(r)
  BY <1>0, <1>1, <1>5, <1>14 DEF BeginRun, At, RequestPlace, RunStates
<1>15. CASE EndRun(r)
  BY <1>0, <1>1, <1>5, <1>15 DEF EndRun, At, RequestPlace, RunStates
<1>16. CASE PersistMessages(r)
  <2>1. Stays([kind |-> "run", of |-> r])
    BY <1>0, <1>16 DEF PersistMessages, At, RequestPlace, Stays
  <2> QED
    BY <1>2, <1>16, <2>1, AnswerType DEF PersistMessages, At
<1>17. CASE CutStream(r)
  <2>1. RunsStay /\ Submitted' \subseteq Submitted
    BY <1>0, <1>17 DEF CutStream, RunsStay, Submitted, TypeOK
  <2> QED
    BY <1>1, <1>17, <2>1 DEF CutStream
<1>18. CASE SaveAfterCut(r)
  BY <1>2, <1>3, <1>18, AnswerType DEF SaveAfterCut, At
<1>19. CASE KeepAnswer(r)
  <2>1. cached' = None \/ cached'.answer = told[r]
    BY <1>19 DEF KeepAnswer
  <2>2. told[r] # None
    BY <1>0, <1>19 DEF KeepAnswer, At, RequestPlace
  <2>3. RunsStay /\ Submitted' \subseteq Submitted
    BY <1>6, <1>19 DEF KeepAnswer
  <2> QED
    BY <1>1, <1>19, <2>1, <2>2, <2>3, AnswersStay DEF KeepAnswer, At
<1>20. CASE Worker(r) \/ Resume(r)
  <2>1. CASE JobCreatesRun(r)
    BY <1>1, <1>4, <1>6, <2>1 DEF JobCreatesRun, Works
  <2>2. CASE JobBeginsRun(r)
    BY <1>0, <1>1, <1>5, <2>2 DEF JobBeginsRun, Works, JobPlace, RunStates
  <2>3. CASE JobEndsRun(r)
    BY <1>0, <1>1, <1>5, <2>3 DEF JobEndsRun, Works, JobPlace, RunStates
  <2>4. CASE JobSavesMessages(r)
    BY <1>1, <1>6, <2>4 DEF JobSavesMessages, Works
  <2>5. CASE Resume(r)
    BY <1>1, <1>5, <2>5 DEF Resume, RunStates
  <2> QED
    BY <1>20, <2>1, <2>2, <2>3, <2>4, <2>5 DEF Worker
<1> QED
  BY <1>7, <1>8, <1>9, <1>10, <1>11, <1>12, <1>13, <1>14, <1>15, <1>16, <1>17, <1>18, <1>19, <1>20
     DEF Handler

LEMMA AgreeStays == PlaceInv /\ AgreeInv /\ [Next]_vars => AgreeInv'
<1>1. ASSUME PlaceInv, AgreeInv, CacheAges PROVE AgreeInv'
  <2>1. RunsStay /\ Submitted' \subseteq Submitted
    BY <1>1 DEF CacheAges, RunsStay, Submitted
  <2>2. cached'.answer = cached.answer /\ cached # None
    BY <1>1 DEF CacheAges, PlaceInv, TypeOK
  <2>3. Stays(cached'.answer)
    BY <1>1, <2>1, <2>2, AnswersStay
  <2> QED
    BY <1>1, <2>1, <2>3, AgreeKeeps DEF CacheAges
<1>2. ASSUME PlaceInv, AgreeInv, UNCHANGED vars PROVE AgreeInv'
  BY <1>2 DEF vars, AgreeInv, Made, Submitted
<1> QED
  BY <1>1, <1>2, AgreeStep DEF Next

\* A client_run_id never makes two runs, and every retry that is answered with a
\* run is answered with that one (the comment on RunCreateRequest.client_run_id),
\* whatever modes the retries use and however they overlap.
THEOREM RetriesAlwaysAgree == Spec => []RetriesAgree
<1>1. Init => AgreeInv
  BY DEF Init, AgreeInv, Made, Submitted
<1>2. PlaceInv /\ AgreeInv => RetriesAgree
  <2> SUFFICES ASSUME PlaceInv, AgreeInv, "client" \in keys
               PROVE  /\ Cardinality(Submitted) <= 1
                      /\ \A r, p \in Requests :
                           told[r] # None /\ told[r].kind = "run" /\ run[p] # "none" => told[r].of = p
    BY DEF RetriesAgree
  <2>1. Submitted = {} \/ \E p \in Requests : Submitted = {p}
    BY DEF AgreeInv, Submitted
  <2>2. Cardinality(Submitted) <= 1
    BY <2>1, FS_EmptySet, FS_Singleton
  <2>3. ASSUME NEW r \in Requests, NEW p \in Requests,
               told[r] # None, told[r].kind = "run", run[p] # "none"
        PROVE  told[r].of = p
    <3>1. told[r].of \in Requests
      BY <2>3, AnswerType DEF PlaceInv, TypeOK, Answer, Error
    <3> QED
      BY <2>3, <3>1 DEF AgreeInv, Made, Submitted
  <2> QED
    BY <2>2, <2>3
<1> QED
  BY <1>1, <1>2, InitPlace, PlaceStays, AgreeStays, PTL DEF Spec

-----------------------------------------------------------------------------
\* Whatever the quota let in is a part of the requests, which are finite.
LEMMA Finite ==
  ASSUME NEW S, S \subseteq Requests
  PROVE  IsFiniteSet(S) /\ Cardinality(S) \in Nat
BY FS_Subset, FS_CardinalityType, SubmissionAssumption

\* Who leaves makes room.
LEMMA BusyShrinks ==
  ASSUME BusyInv, Busy' \subseteq Busy, inTurn' => inTurn
  PROVE  BusyInv'
<1>1. Busy \subseteq Requests /\ Busy' \subseteq Requests
  BY DEF Busy
<1>2. Cardinality(Busy') <= Cardinality(Busy)
  BY <1>1, Finite, FS_Subset
<1> QED
  BY <1>1, <1>2, Finite, SubmissionAssumption DEF BusyInv

\* In its turn a request counts everyone that the quota has let in before.
LEMMA EnforceBusy ==
  ASSUME PlaceInv, BusyInv, NEW r \in Requests, EnforceTenantQuota(r)
  PROVE  BusyInv'
<1>0. TypeOK /\ RequestPlace(r) /\ JobPlace(r)
  BY DEF PlaceInv
<1>1. request[r].pc = "count" /\ run[r] = "none" /\ job[r] = "none" /\ UNCHANGED <<run, job>>
  BY <1>0 DEF EnforceTenantQuota, At, RequestPlace, Early
<1>2. \A p \in Requests \ {r} : request'[p] = request[p]
  BY <1>0, AnswersEffect, GoesEffect, AnswerType DEF EnforceTenantQuota, Pcs, Early
<1>3. CASE Cardinality(Active(Counted)) >= Quota
  <2>1. request'[r].pc \in {"keep", "over"}
    BY <1>0, <1>3, AnswersEffect, AnswerType DEF EnforceTenantQuota
  <2>2. Busy' \subseteq Busy
    BY <1>1, <1>2, <2>1 DEF Busy, Counted
  <2> QED
    BY <2>2, BusyShrinks DEF EnforceTenantQuota
<1>4. CASE ~(Cardinality(Active(Counted)) >= Quota) /\ ~Admitted(r)
  <2>1. Busy' \subseteq Active(Counted) \union {r}
    BY <1>1, <1>2, <1>4 DEF Busy, Admitted, Active
  <2>2. Active(Counted) \subseteq Requests
    BY DEF Active
  <2>3. Cardinality(Active(Counted) \union {r}) <= Cardinality(Active(Counted)) + 1
        /\ IsFiniteSet(Active(Counted) \union {r})
    BY <2>2, Finite, FS_AddElement
  <2>4. Cardinality(Busy') <= Cardinality(Active(Counted) \union {r})
    BY <2>1, <2>3, FS_Subset
  <2>5. Busy' \subseteq Requests /\ Active(Counted) \union {r} \subseteq Requests
    BY <2>2 DEF Busy
  <2>6. /\ Cardinality(Busy') \in Nat /\ Cardinality(Active(Counted)) \in Nat
        /\ Cardinality(Active(Counted) \union {r}) \in Nat
    BY <2>2, <2>5, Finite
  <2> QED
    BY <1>4, <2>3, <2>4, <2>6, SubmissionAssumption DEF BusyInv
<1>5. CASE Admitted(r)
  BY <1>5 DEF EnforceTenantQuota, BusyInv
<1> QED
  BY <1>3, <1>4, <1>5

LEMMA BusyStep ==
  ASSUME PlaceInv, BusyInv, NEW r \in Requests,
         Handler(r) \/ CutStream(r) \/ Worker(r) \/ Resume(r) \/ \E m \in Modes : Arrive(r, m)
  PROVE  BusyInv'
<1>0. TypeOK /\ RequestPlace(r) /\ JobPlace(r)
  BY DEF PlaceInv
<1> SUFFICES ASSUME ~EnforceTenantQuota(r) PROVE Busy' \subseteq Busy /\ UNCHANGED inTurn
  BY EnforceBusy, BusyShrinks
\* Only r moves.
<1>1. ASSUME \A p \in Requests \ {r} : /\ request'[p].pc = request[p].pc
                                       /\ run'[p] = run[p] /\ job'[p] = job[p],
             r \in Busy' => r \in Busy
      PROVE  Busy' \subseteq Busy
  BY <1>1 DEF Busy
<1>2. CASE \E m \in Modes : Arrive(r, m)
  BY <1>0, <1>1, <1>2 DEF Arrive, At, Busy, TypeOK
<1>3. CASE FindCached(r)
  <2>1. CASE cached # None /\ ~cached.old
    <3>1. cached.answer \in Answer /\ Says(r, cached.answer) /\ UNCHANGED <<run, job, inTurn>>
      BY <1>0, <1>3, <2>1 DEF FindCached, TypeOK
    <3> QED
      BY <1>0, <1>1, <3>1, SaysEffect DEF Busy
  <2> QED
    BY <1>0, <1>1, <1>3, <2>1, GoesEffect DEF FindCached, At, Busy, Pcs, Early
<1>4. CASE FindClientRun(r)
  <2>1. UNCHANGED <<run, job, inTurn>> /\ request[r].pc = "client"
    BY <1>4 DEF FindClientRun, At
  <2>2. Goes(r, "session") \/ \E a \in Answer : Answers(r, a)
    BY <1>4, AnswerType DEF FindClientRun, Submitted
  <2>3. \A p \in Requests \ {r} : request'[p] = request[p]
    BY <1>0, <2>2, GoesEffect, AnswersEffect DEF Pcs, Early
  <2> QED
    BY <1>1, <2>1, <2>3 DEF Busy
<1>5. CASE EnsureSession(r)
  BY <1>0, <1>1, <1>5, GoesEffect DEF EnsureSession, At, Busy, Pcs, Early
<1>6. CASE Enqueue(r)
  BY <1>0, <1>1, <1>6, AnswerType, AnswersEffect DEF Enqueue, At, Busy, TypeOK
<1>7. CASE CreateRun(r)
  <2>1. request[r].pc = "insert" /\ UNCHANGED <<job, inTurn>>
        /\ \A p \in Requests \ {r} : run'[p] = run[p]
    BY <1>0, <1>7 DEF CreateRun, At, TypeOK
  <2>2. \A p \in Requests \ {r} : request'[p] = request[p]
    BY <1>0, <1>7, AnswerType, GoesEffect, AnswersEffect DEF CreateRun, Pcs
  <2> QED
    BY <1>1, <2>1, <2>2 DEF Busy
<1>8. CASE BeginRun(r)
  BY <1>0, <1>1, <1>8, GoesEffect DEF BeginRun, At, Busy, Pcs, TypeOK
<1>9. CASE EndRun(r)
  BY <1>0, <1>1, <1>9, GoesEffect DEF EndRun, At, Busy, Pcs, TypeOK, RequestPlace, Counted
<1>10. CASE PersistMessages(r)
  BY <1>0, <1>1, <1>10, AnswerType, AnswersEffect DEF PersistMessages, At, Busy
<1>11. CASE CutStream(r)
  BY <1>0, <1>1, <1>11, GoesEffect DEF CutStream, Busy, Pcs, TypeOK, Counted
<1>12. CASE SaveAfterCut(r)
  BY <1>0, <1>1, <1>12, AnswerType, SaysEffect DEF SaveAfterCut, At, Busy
<1>13. CASE KeepAnswer(r)
  BY <1>0, <1>1, <1>13 DEF KeepAnswer, At, Busy, Over, TypeOK
<1>14. CASE Worker(r) \/ Resume(r)
  <2> USE DEF Works, Busy, Counted, JobPlace, TypeOK
  <2>1. CASE JobCreatesRun(r)
    BY <1>0, <1>1, <2>1 DEF JobCreatesRun
  <2>2. CASE JobBeginsRun(r)
    BY <1>0, <1>1, <2>2 DEF JobBeginsRun
  <2>3. CASE JobEndsRun(r)
    BY <1>0, <1>1, <2>3 DEF JobEndsRun
  <2>4. CASE JobSavesMessages(r)
    BY <1>0, <1>1, <2>4 DEF JobSavesMessages
  <2>5. CASE Resume(r)
    BY <1>0, <1>1, <2>5 DEF Resume
  <2> QED
    BY <1>14, <2>1, <2>2, <2>3, <2>4, <2>5 DEF Worker
<1> QED
  BY <1>2, <1>3, <1>4, <1>5, <1>6, <1>7, <1>8, <1>9, <1>10, <1>11, <1>12, <1>13, <1>14 DEF Handler

LEMMA BusyStays == PlaceInv /\ BusyInv /\ [Next]_vars => BusyInv'
<1>1. ASSUME PlaceInv, BusyInv, CacheAges \/ UNCHANGED vars PROVE BusyInv'
  BY <1>1, BusyShrinks DEF CacheAges, vars, Busy
<1> QED
  BY <1>1, BusyStep DEF Next

\* The quota bounds the runs of a tenant (_enforce_tenant_quota) as long as no
\* request counts them while another, or a job, is on its way to start one.
THEOREM QuotaAlwaysHoldsInTurn == Spec => []QuotaHoldsInTurn
<1>1. Init => BusyInv
  <2> SUFFICES ASSUME Init PROVE Cardinality(Busy) <= Quota
    BY DEF BusyInv
  <2>1. Busy = {}
    BY DEF Init, Busy, Counted
  <2> QED
    BY <2>1, FS_EmptySet, SubmissionAssumption
<1>2. BusyInv => QuotaHoldsInTurn
  <2> SUFFICES ASSUME BusyInv, inTurn
               PROVE  Cardinality(Active({"RUNNING", "WAITING_APPROVAL"})) <= Quota
    BY DEF QuotaHoldsInTurn
  <2>1. Active({"RUNNING", "WAITING_APPROVAL"}) \subseteq Busy /\ Busy \subseteq Requests
    BY DEF Active, Busy, Counted
  <2>2. Cardinality(Active({"RUNNING", "WAITING_APPROVAL"})) <= Cardinality(Busy)
    BY <2>1, Finite, FS_Subset
  <2> QED
    BY <2>1, <2>2, Finite, SubmissionAssumption DEF BusyInv
<1> QED
  BY <1>1, <1>2, InitPlace, PlaceStays, BusyStays, PTL DEF Spec

-----------------------------------------------------------------------------
(* The rate limiter: CircuitBreaker, for any callers, limits and windows. *)

\* The ages of what a window holds: latest first.
Ordered(s) == \A i, j \in DOMAIN s : i <= j => s[i] <= s[j]
\* Whatever was let through was counted, and what is counted of it is as late.
Covered(p, s) ==
  /\ Len(p) <= Len(s)
  /\ \A i \in DOMAIN p : s[i] <= p[i]
Windowed(p, s) ==
  /\ p \in Seq(Nat) /\ s \in Seq(Nat)
  /\ Len(s) <= Limit /\ Ordered(s) /\ Covered(p, s)
CountInv ==
  /\ entries = [m \in Chain |-> entries[m]] /\ passed = [m \in Chain |-> passed[m]]
  /\ \A m \in Chain : Windowed(passed[m], entries[m])

LEMMA YoungestIs ==
  ASSUME NEW s \in Seq(Nat), NEW n \in Nat
  PROVE  /\ Youngest(s, n) \in Seq(Nat)
         /\ Len(Youngest(s, n)) = IF Len(s) > n THEN n ELSE Len(s)
         /\ \A i \in DOMAIN Youngest(s, n) : i \in DOMAIN s /\ Youngest(s, n)[i] = s[i]
<1> DEFINE k == IF Len(s) > n THEN n ELSE Len(s)
<1>1. Len(s) \in Nat /\ DOMAIN s = 1 .. Len(s) /\ \A i \in 1 .. Len(s) : s[i] \in Nat
  BY LenProperties
<1>2. k \in Nat /\ k <= Len(s)
  BY <1>1
<1>3. Youngest(s, n) = SubSeq(s, 1, k)
  BY DEF Youngest
<1> HIDE DEF k
<1>4. \A i \in 1 .. k : s[i] \in Nat
  BY <1>1, <1>2
<1>5. /\ SubSeq(s, 1, k) \in Seq(Nat) /\ Len(SubSeq(s, 1, k)) = k
      /\ \A i \in 1 .. k : SubSeq(s, 1, k)[i] = s[i]
  BY <1>2, <1>4, SubSeqProperties
<1>6. DOMAIN SubSeq(s, 1, k) = 1 .. k
  BY <1>5, LenProperties
<1> QED
  BY <1>1, <1>2, <1>3, <1>5, <1>6 DEF k

\* A new entry comes first, and the oldest may go.
LEMMA EnteredIs ==
  ASSUME NEW s \in Seq(Nat), NEW n \in Nat \ {0}
  PROVE  LET t == Youngest(<<0>> \o s, n) IN
         /\ t \in Seq(Nat)
         /\ Len(t) = IF Len(s) < n THEN Len(s) + 1 ELSE n
         /\ DOMAIN t = 1 .. Len(t)
         /\ \A i \in DOMAIN t : IF i = 1 THEN t[i] = 0 ELSE i - 1 \in DOMAIN s /\ t[i] = s[i - 1]
<1> DEFINE u == <<0>> \o s
           t == Youngest(u, n)
<1>1. Len(s) \in Nat /\ DOMAIN s = 1 .. Len(s)
  BY LenProperties
<1>2. <<0>> \in Seq(Nat) /\ Len(<<0>>) = 1 /\ <<0>>[1] = 0
  OBVIOUS
<1>3. /\ u \in Seq(Nat) /\ Len(u) = Len(s) + 1
      /\ \A i \in 1 .. Len(s) + 1 : u[i] = IF i <= 1 THEN <<0>>[i] ELSE s[i - 1]
  BY <1>2, ConcatProperties
<1>4. DOMAIN u = 1 .. Len(s) + 1
  BY <1>3, LenProperties
<1> HIDE DEF u
<1>5. /\ t \in Seq(Nat) /\ Len(t) = (IF Len(u) > n THEN n ELSE Len(u))
      /\ \A i \in DOMAIN t : i \in DOMAIN u /\ t[i] = u[i]
  BY <1>3, YoungestIs
<1>6. DOMAIN t = 1 .. Len(t)
  BY <1>5, LenProperties
<1> HIDE DEF t
<1>7. ASSUME NEW i \in DOMAIN t
      PROVE  IF i = 1 THEN t[i] = 0 ELSE i - 1 \in DOMAIN s /\ t[i] = s[i - 1]
  BY <1>1, <1>2, <1>3, <1>4, <1>5
<1>8. Len(t) = IF Len(s) < n THEN Len(s) + 1 ELSE n
  BY <1>1, <1>3, <1>5
<1> QED
  BY <1>5, <1>6, <1>7, <1>8 DEF t, u

LEMMA OlderIs ==
  ASSUME NEW s \in Seq(Nat), NEW limit \in Nat
  PROVE  /\ Older(s, limit) \in Seq(Nat) /\ DOMAIN Older(s, limit) = DOMAIN s
         /\ Len(Older(s, limit)) = Len(s)
         /\ \A i \in DOMAIN s : Older(s, limit)[i] = Grown(s[i], limit)
<1>1. Len(s) \in Nat /\ DOMAIN s = 1 .. Len(s) /\ \A i \in 1 .. Len(s) : s[i] \in Nat
  BY LenProperties
<1>2. \A i \in 1 .. Len(s) : Grown(s[i], limit) \in Nat
  BY <1>1 DEF Grown
<1>3. Older(s, limit) \in [1 .. Len(s) -> Nat]
  BY <1>1, <1>2 DEF Older
<1>4. Older(s, limit) \in Seq(Nat)
  BY <1>1, <1>3, SeqDef
<1>5. DOMAIN Older(s, limit) = 1 .. Len(s)
  BY <1>3
<1>6. DOMAIN Older(s, limit) = 1 .. Len(Older(s, limit)) /\ Len(Older(s, limit)) \in Nat
  BY <1>4, LenProperties
<1>7. Len(Older(s, limit)) = Len(s)
  BY <1>1, <1>5, <1>6
<1> QED
  BY <1>1, <1>4, <1>5, <1>7 DEF Older

\* The entries of a sequence of ages that are within the window, as many as it
\* has of them.
Young(s, window) == {n \in DOMAIN s : s[n] < window}
LEMMA RecentIs ==
  ASSUME NEW s \in Seq(Nat), NEW window \in Nat
  PROVE  /\ IsFiniteSet(Young(s, window)) /\ Cardinality(Young(s, window)) \in Nat
         /\ Cardinality(Young(s, window)) <= Len(s)
         /\ Recent(s, window) \in Seq(Nat)
         /\ Len(Recent(s, window)) = Cardinality(Young(s, window))
         /\ DOMAIN Recent(s, window) = 1 .. Cardinality(Young(s, window))
         /\ \A i \in DOMAIN Recent(s, window) : i \in DOMAIN s /\ Recent(s, window)[i] = s[i]
<1> DEFINE k == Cardinality(Young(s, window))
<1>1. Len(s) \in Nat /\ DOMAIN s = 1 .. Len(s) /\ \A i \in 1 .. Len(s) : s[i] \in Nat
  BY LenProperties
<1>2. IsFiniteSet(1 .. Len(s)) /\ Cardinality(1 .. Len(s)) = Len(s)
  BY <1>1, FS_Interval
<1>3. IsFiniteSet(Young(s, window)) /\ k <= Len(s)
  BY <1>1, <1>2, FS_Subset DEF Young
<1>4. k \in Nat
  BY <1>3, FS_CardinalityType
<1>5. Recent(s, window) = SubSeq(s, 1, k)
  BY DEF Recent, Young
<1> HIDE DEF k
<1>6. \A i \in 1 .. k : s[i] \in Nat
  BY <1>1, <1>3, <1>4
<1>7. /\ SubSeq(s, 1, k) \in Seq(Nat) /\ Len(SubSeq(s, 1, k)) = k
      /\ \A i \in 1 .. k : SubSeq(s, 1, k)[i] = s[i]
  BY <1>4, <1>6, SubSeqProperties
<1>8. DOMAIN SubSeq(s, 1, k) = 1 .. k
  BY <1>7, LenProperties
<1> QED
  BY <1>1, <1>3, <1>4, <1>5, <1>7, <1>8 DEF k

LEMMA PassCounts ==
  ASSUME NEW p, NEW s, Windowed(p, s), Limit \in Nat \ {0}, Len(s) < Limit
  PROVE  Windowed(Youngest(<<0>> \o p, Limit + 1), Youngest(<<0>> \o s, Limit))
<1> DEFINE q == Youngest(<<0>> \o p, Limit + 1)
           t == Youngest(<<0>> \o s, Limit)
<1>1. p \in Seq(Nat) /\ s \in Seq(Nat) /\ Len(p) <= Len(s) /\ Len(p) \in Nat /\ Len(s) \in Nat
      /\ DOMAIN p = 1 .. Len(p) /\ DOMAIN s = 1 .. Len(s)
  BY LenProperties DEF Windowed, Covered
<1>2. /\ q \in Seq(Nat) /\ Len(q) = Len(p) + 1 /\ DOMAIN q = 1 .. Len(p) + 1
      /\ \A i \in DOMAIN q : IF i = 1 THEN q[i] = 0 ELSE i - 1 \in DOMAIN p /\ q[i] = p[i - 1]
  <2>1. /\ q \in Seq(Nat) /\ Len(q) = IF Len(p) < Limit + 1 THEN Len(p) + 1 ELSE Limit + 1
        /\ DOMAIN q = 1 .. Len(q)
        /\ \A i \in DOMAIN q : IF i = 1 THEN q[i] = 0 ELSE i - 1 \in DOMAIN p /\ q[i] = p[i - 1]
    <3>1. Limit + 1 \in Nat \ {0}
      OBVIOUS
    <3> QED
      BY <1>1, <3>1, EnteredIs
  <2>2. Len(q) = Len(p) + 1
    BY <1>1, <2>1
  <2> QED
    BY <2>1, <2>2
<1>3. /\ t \in Seq(Nat) /\ Len(t) = Len(s) + 1 /\ DOMAIN t = 1 .. Len(s) + 1
      /\ \A i \in DOMAIN t : IF i = 1 THEN t[i] = 0 ELSE i - 1 \in DOMAIN s /\ t[i] = s[i - 1]
  BY <1>1, EnteredIs
<1> HIDE DEF q, t
<1>4. \A i \in DOMAIN s : s[i] \in Nat
  BY <1>1, ElementOfSeq
<1>5. Ordered(t)
  <2> SUFFICES ASSUME NEW i \in DOMAIN t, NEW j \in DOMAIN t, i <= j PROVE t[i] <= t[j]
    BY DEF Ordered
  <2>1. CASE i = 1
    BY <1>3, <1>4, <2>1
  <2>2. CASE i # 1
    <3>1. j # 1 /\ i - 1 \in DOMAIN s /\ j - 1 \in DOMAIN s /\ i - 1 <= j - 1
      BY <1>1, <1>3, <2>2
    <3> QED
      BY <1>3, <2>2, <3>1 DEF Windowed, Ordered
  <2> QED
    BY <2>1, <2>2
<1>6. Covered(q, t)
  <2> SUFFICES ASSUME NEW i \in DOMAIN q PROVE t[i] <= q[i]
    BY <1>1, <1>2, <1>3 DEF Covered
  <2>1. i \in DOMAIN t
    BY <1>1, <1>2, <1>3
  <2>2. CASE i = 1
    BY <1>2, <1>3, <2>1, <2>2
  <2>3. CASE i # 1
    BY <1>2, <1>3, <2>1, <2>3 DEF Windowed, Covered
  <2> QED
    BY <2>2, <2>3
<1> QED
  BY <1>1, <1>2, <1>3, <1>5, <1>6 DEF Windowed, q, t

LEMMA RefusalCounts ==
  ASSUME NEW p, NEW s, Windowed(p, s), Limit \in Nat \ {0}, ~(Len(s) < Limit)
  PROVE  Windowed(p, Youngest(<<0>> \o s, Limit))
<1> DEFINE t == Youngest(<<0>> \o s, Limit)
<1>1. /\ p \in Seq(Nat) /\ s \in Seq(Nat) /\ Len(p) <= Len(s) /\ Len(p) \in Nat /\ Len(s) = Limit
      /\ DOMAIN p = 1 .. Len(p) /\ DOMAIN s = 1 .. Limit
  BY LenProperties DEF Windowed, Covered
<1>2. /\ t \in Seq(Nat) /\ Len(t) = Limit /\ DOMAIN t = 1 .. Limit
      /\ \A i \in DOMAIN t : IF i = 1 THEN t[i] = 0 ELSE i - 1 \in DOMAIN s /\ t[i] = s[i - 1]
  <2>1. /\ t \in Seq(Nat) /\ Len(t) = IF Len(s) < Limit THEN Len(s) + 1 ELSE Limit
        /\ DOMAIN t = 1 .. Len(t)
        /\ \A i \in DOMAIN t : IF i = 1 THEN t[i] = 0 ELSE i - 1 \in DOMAIN s /\ t[i] = s[i - 1]
    BY <1>1, EnteredIs
  <2>2. Len(t) = Limit
    BY <2>1
  <2> QED
    BY <2>1, <2>2
<1> HIDE DEF t
<1>3. \A i \in DOMAIN s : s[i] \in Nat
  BY <1>1, ElementOfSeq
<1>4. \A i \in DOMAIN p : p[i] \in Nat
  BY <1>1, ElementOfSeq
<1>5. Ordered(t)
  <2> SUFFICES ASSUME NEW i \in DOMAIN t, NEW j \in DOMAIN t, i <= j PROVE t[i] <= t[j]
    BY DEF Ordered
  <2>1. CASE i = 1
    BY <1>2, <1>3, <2>1
  <2>2. CASE i # 1
    <3>1. j # 1 /\ i - 1 \in DOMAIN s /\ j - 1 \in DOMAIN s /\ i - 1 <= j - 1
      BY <1>1, <1>2, <2>2
    <3> QED
      BY <1>2, <2>2, <3>1 DEF Windowed, Ordered
  <2> QED
    BY <2>1, <2>2
<1>6. ASSUME NEW i \in DOMAIN p PROVE t[i] <= p[i]
  <2>1. i \in DOMAIN t /\ i \in DOMAIN s
    BY <1>1, <1>2
  <2>2. s[i] <= p[i]
    BY DEF Windowed, Covered
  <2>3. CASE i = 1
    BY <1>2, <1>4, <2>1, <2>3
  <2>4. CASE i # 1
    <3>1. i - 1 \in DOMAIN s /\ t[i] = s[i - 1] /\ i - 1 <= i
      BY <1>1, <1>2, <2>1, <2>4
    <3>2. s[i - 1] <= s[i]
      BY <2>1, <3>1 DEF Windowed, Ordered
    <3> QED
      BY <1>3, <1>4, <2>1, <2>2, <3>1, <3>2
  <2> QED
    BY <2>3, <2>4
<1> QED
  BY <1>1, <1>2, <1>5, <1>6 DEF Windowed, Covered, t

LEMMA GrownUp ==
  ASSUME NEW a \in Nat, NEW b \in Nat, a <= b, Span \in Nat
  PROVE  Grown(a, Span) <= Grown(b, Span)
BY DEF Grown

\* What has left the window is uncounted as it ages.
LEMMA AgeCounts ==
  ASSUME NEW p, NEW s, Windowed(p, s), Span \in Nat, Limit \in Nat \ {0}
  PROVE  Windowed(Recent(Older(p, Span), Span), Recent(Older(s, Span), Span))
<1> DEFINE q == Older(p, Span)
           t == Older(s, Span)
<1>1. p \in Seq(Nat) /\ s \in Seq(Nat) /\ Len(p) <= Len(s) /\ Len(p) \in Nat /\ Len(s) \in Nat
      /\ DOMAIN p = 1 .. Len(p) /\ DOMAIN s = 1 .. Len(s) /\ Len(s) <= Limit
  BY LenProperties DEF Windowed, Covered
<1>2. /\ q \in Seq(Nat) /\ DOMAIN q = DOMAIN p /\ t \in Seq(Nat) /\ DOMAIN t = DOMAIN s
      /\ \A i \in DOMAIN p : q[i] = Grown(p[i], Span)
      /\ \A i \in DOMAIN s : t[i] = Grown(s[i], Span)
      /\ Len(q) = Len(p) /\ Len(t) = Len(s)
  BY <1>1, OlderIs
<1> HIDE DEF q, t
<1>3. (\A i \in DOMAIN p : p[i] \in Nat) /\ (\A i \in DOMAIN s : s[i] \in Nat)
  BY <1>1, ElementOfSeq
<1>4. \A i \in DOMAIN p : i \in DOMAIN s /\ t[i] <= q[i]
  BY <1>1, <1>2, <1>3, GrownUp DEF Windowed, Covered
<1>5. \A i, j \in DOMAIN s : i <= j => t[i] <= t[j]
  BY <1>1, <1>2, <1>3, GrownUp DEF Windowed, Ordered
<1>6. (\A i \in DOMAIN p : q[i] \in Nat) /\ (\A i \in DOMAIN s : t[i] \in Nat)
  BY <1>2, ElementOfSeq
<1>7. Young(q, Span) \subseteq Young(t, Span)
  BY <1>2, <1>4, <1>6 DEF Young
<1>8. /\ Cardinality(Young(q, Span)) \in Nat /\ Cardinality(Young(t, Span)) \in Nat
      /\ Cardinality(Young(t, Span)) <= Len(s) /\ Cardinality(Young(q, Span)) <= Len(p)
      /\ IsFiniteSet(Young(t, Span))
      /\ Recent(q, Span) \in Seq(Nat) /\ Recent(t, Span) \in Seq(Nat)
      /\ Len(Recent(q, Span)) = Cardinality(Young(q, Span))
      /\ Len(Recent(t, Span)) = Cardinality(Young(t, Span))
      /\ DOMAIN Recent(q, Span) = 1 .. Cardinality(Young(q, Span))
      /\ DOMAIN Recent(t, Span) = 1 .. Cardinality(Young(t, Span))
      /\ \A i \in DOMAIN Recent(q, Span) : i \in DOMAIN q /\ Recent(q, Span)[i] = q[i]
      /\ \A i \in DOMAIN Recent(t, Span) : i \in DOMAIN t /\ Recent(t, Span)[i] = t[i]
  BY <1>2, RecentIs
<1>9. Cardinality(Young(q, Span)) <= Cardinality(Young(t, Span))
  BY <1>7, <1>8, FS_Subset
<1>10. DOMAIN Recent(q, Span) \subseteq DOMAIN Recent(t, Span)
  BY <1>8, <1>9
<1>11. Covered(Recent(q, Span), Recent(t, Span))
  BY <1>2, <1>4, <1>8, <1>9, <1>10 DEF Covered
<1>12. Ordered(Recent(t, Span))
  BY <1>2, <1>5, <1>8 DEF Ordered
<1>13. Len(Recent(t, Span)) <= Limit
  BY <1>1, <1>8
<1> QED
  BY <1>8, <1>11, <1>12, <1>13 DEF Windowed, q, t

LEMMA InitCounts == BreakerInit => CountInv
<1> SUFFICES ASSUME BreakerInit PROVE CountInv
  OBVIOUS
<1>1. <<>> \in Seq(Nat) /\ Len(<<>>) = 0 /\ Limit \in Nat \ {0}
  BY BreakerAssumption
<1>2. DOMAIN (<<>>) = {}
  BY <1>1, LenProperties
<1>3. Windowed(<<>>, <<>>)
  BY <1>1, <1>2 DEF Windowed, Ordered, Covered
<1> QED
  BY <1>3 DEF BreakerInit, CountInv

LEMMA CountStep == CountInv /\ [BreakerNext]_breakerVars => CountInv'
<1> SUFFICES ASSUME CountInv, [BreakerNext]_breakerVars PROVE CountInv'
  OBVIOUS
<1>0. Limit \in Nat \ {0} /\ Span \in Nat
  BY BreakerAssumption
<1>1. ASSUME UNCHANGED limiter PROVE CountInv'
  BY <1>1 DEF limiter, CountInv
<1>2. ASSUME NEW c \in Callers, Pass(c) PROVE CountInv'
  <2> DEFINE m == call[c].model
  <2>1. /\ Free(m) /\ entries' = [entries EXCEPT ![m] = Youngest(<<0>> \o @, Limit)]
        /\ passed' = [passed EXCEPT ![m] = Youngest(<<0>> \o @, Limit + 1)]
    BY <1>2 DEF Pass, Entered
  <2> HIDE DEF m
  <2>2. ASSUME NEW n \in Chain PROVE Windowed(passed'[n], entries'[n])
    <3>1. Windowed(passed[n], entries[n]) /\ n \in DOMAIN entries /\ n \in DOMAIN passed
      BY DEF CountInv
    <3>2. CASE n = m
      <4>1. /\ entries'[n] = Youngest(<<0>> \o entries[n], Limit)
            /\ passed'[n] = Youngest(<<0>> \o passed[n], Limit + 1)
        BY <2>1, <3>1, <3>2
      <4>2. Len(entries[n]) < Limit
        BY <2>1, <3>2 DEF Free
      <4> QED
        BY <1>0, <3>1, <4>1, <4>2, PassCounts
    <3>3. CASE n # m
      BY <2>1, <3>1, <3>3
    <3> QED
      BY <3>2, <3>3
  <2> QED
    BY <2>1, <2>2 DEF CountInv
<1>3. ASSUME NEW c \in Callers, Limited(c) PROVE CountInv'
  <2> DEFINE m == call[c].model
  <2>1. /\ ~Free(m) /\ passed' = passed
        /\ entries' = [entries EXCEPT ![m] = Youngest(<<0>> \o @, Limit)] \/ entries' = entries
    BY <1>3 DEF Limited, Entered
  <2> HIDE DEF m
  <2>2. ASSUME NEW n \in Chain, entries' # entries PROVE Windowed(passed'[n], entries'[n])
    <3>1. Windowed(passed[n], entries[n]) /\ n \in DOMAIN entries
      BY DEF CountInv
    <3>2. CASE n = m
      <4>1. entries'[n] = Youngest(<<0>> \o entries[n], Limit)
        BY <2>1, <2>2, <3>1, <3>2
      <4>2. ~(Len(entries[n]) < Limit)
        BY <2>1, <3>2 DEF Free
      <4> QED
        BY <1>0, <2>1, <3>1, <4>1, <4>2, RefusalCounts
    <3>3. CASE n # m
      BY <2>1, <3>1, <3>3
    <3> QED
      BY <3>2, <3>3
  <2> QED
    BY <2>1, <2>2 DEF CountInv
<1>4. CASE Tick
  <2>1. /\ entries' = [m \in Chain |-> Recent(Older(entries[m], Span), Span)]
        /\ passed' = [m \in Chain |-> Recent(Older(passed[m], Span), Span)]
    BY <1>4 DEF Tick
  <2> QED
    BY <1>0, <2>1, AgeCounts DEF CountInv
<1>5. ASSUME NEW c \in Callers,
             Begin(c) \/ PauseEnds(c) \/ Enter(c) \/ TurnedAway(c) \/ Returns(c)
      PROVE  UNCHANGED limiter
  BY <1>5 DEF Begin, PauseEnds, Enter, TurnedAway, Returns, Succeeds, Fails, TimesOut,
              Refused, Unrecorded, Within
<1>6. Weather \/ UNCHANGED breakerVars => UNCHANGED limiter
  BY DEF Weather, breakerVars, limiter
<1> QED
  BY <1>1, <1>2, <1>3, <1>4, <1>5, <1>6 DEF BreakerNext

\* The limiter lets no more than its limit through to a model in any window
\* (limiter.py:1), in the process or in Redis, whatever degrades and retries:
\* what is let through is counted as long as it is within the window.
THEOREM LimitAlwaysHolds == BreakerSpec => []LimitHolds
<1>1. CountInv => LimitHolds
  <2> SUFFICES ASSUME CountInv, NEW m \in Chain PROVE Len(passed[m]) <= Limit
    BY DEF LimitHolds
  <2>1. /\ passed[m] \in Seq(Nat) /\ entries[m] \in Seq(Nat)
        /\ Len(passed[m]) <= Len(entries[m]) /\ Len(entries[m]) <= Limit
    BY DEF CountInv, Windowed, Covered
  <2>2. Len(passed[m]) \in Nat /\ Len(entries[m]) \in Nat /\ Limit \in Nat
    BY <2>1, LenProperties, BreakerAssumption
  <2> QED
    BY <2>1, <2>2
<1>2. BreakerInit => CountInv
  BY InitCounts
<1>3. CountInv /\ [BreakerNext]_breakerVars => CountInv'
  BY CountStep
<1> QED
  BY <1>1, <1>2, <1>3, PTL DEF BreakerSpec

-----------------------------------------------------------------------------
(* The types of CircuitBreaker. *)

\* A sequence of ages, none older than the limit.
Aged(s, limit) == s \in Seq(Nat) /\ \A i \in DOMAIN s : s[i] <= limit

LEMMA AgedIs ==
  ASSUME NEW s, NEW limit \in Nat
  PROVE  Aged(s, limit) <=> s \in Seq(Ages(limit))
<1>1. ASSUME Aged(s, limit) PROVE s \in Seq(Ages(limit))
  <2>1. /\ Len(s) \in Nat /\ DOMAIN s = 1 .. Len(s) /\ s \in [1 .. Len(s) -> Nat]
    BY <1>1, LenProperties DEF Aged
  <2>2. s \in [1 .. Len(s) -> Ages(limit)]
    BY <1>1, <2>1 DEF Aged, Ages
  <2> QED
    BY <2>1, <2>2, SeqDef
<1>2. ASSUME s \in Seq(Ages(limit)) PROVE Aged(s, limit)
  <2>1. /\ Len(s) \in Nat /\ DOMAIN s = 1 .. Len(s) /\ s \in [1 .. Len(s) -> Ages(limit)]
    BY <1>2, LenProperties
  <2>2. s \in [1 .. Len(s) -> Nat] /\ \A i \in DOMAIN s : s[i] <= limit
    BY <2>1 DEF Ages
  <2>3. s \in Seq(Nat)
    BY <2>1, <2>2, SeqDef
  <2> QED
    BY <2>2, <2>3 DEF Aged
<1> QED
  BY <1>1, <1>2

LEMMA EnteredAged ==
  ASSUME NEW s, NEW limit \in Nat, Aged(s, limit), NEW n \in Nat \ {0}
  PROVE  /\ Aged(Youngest(<<0>> \o s, n), limit)
         /\ Len(Youngest(<<0>> \o s, n)) <= n
<1> DEFINE t == Youngest(<<0>> \o s, n)
<1>1. s \in Seq(Nat) /\ Len(s) \in Nat
  BY LenProperties DEF Aged
<1>2. /\ t \in Seq(Nat) /\ Len(t) = IF Len(s) < n THEN Len(s) + 1 ELSE n
      /\ \A i \in DOMAIN t : IF i = 1 THEN t[i] = 0 ELSE i - 1 \in DOMAIN s /\ t[i] = s[i - 1]
  BY <1>1, EnteredIs
<1> HIDE DEF t
<1>3. Len(t) <= n
  BY <1>1, <1>2
<1>4. ASSUME NEW i \in DOMAIN t PROVE t[i] <= limit
  <2>1. CASE i = 1
    BY <1>2, <2>1
  <2>2. CASE i # 1
    BY <1>2, <2>2 DEF Aged
  <2> QED
    BY <2>1, <2>2
<1> QED
  BY <1>2, <1>3, <1>4 DEF Aged, t

LEMMA RecentAged ==
  ASSUME NEW s, NEW limit \in Nat, Aged(s, limit), NEW window \in Nat
  PROVE  Aged(Recent(s, window), limit) /\ Len(Recent(s, window)) <= Len(s)
<1>1. s \in Seq(Nat) /\ \A i \in DOMAIN s : s[i] <= limit
  BY DEF Aged
<1>2. /\ Cardinality(Young(s, window)) <= Len(s)
      /\ Recent(s, window) \in Seq(Nat)
      /\ Len(Recent(s, window)) = Cardinality(Young(s, window))
      /\ \A i \in DOMAIN Recent(s, window) : i \in DOMAIN s /\ Recent(s, window)[i] = s[i]
  BY <1>1, RecentIs
<1> QED
  BY <1>1, <1>2 DEF Aged

LEMMA OlderAged ==
  ASSUME NEW s, NEW limit \in Nat, Aged(s, limit)
  PROVE  Aged(Older(s, limit), limit) /\ Len(Older(s, limit)) = Len(s)
<1>1. /\ Older(s, limit) \in Seq(Nat) /\ DOMAIN Older(s, limit) = DOMAIN s
      /\ Len(Older(s, limit)) = Len(s)
      /\ \A i \in DOMAIN s : Older(s, limit)[i] = Grown(s[i], limit)
  BY OlderIs DEF Aged
<1>2. \A i \in DOMAIN s : s[i] \in Nat /\ s[i] <= limit
  BY ElementOfSeq DEF Aged
<1>3. \A i \in DOMAIN s : Grown(s[i], limit) <= limit
  BY <1>2 DEF Grown
<1> QED
  BY <1>1, <1>3 DEF Aged

\* The types by part: whose breaker it is, the breaker, the calls, the windows.
BreakerInv ==
  /\ state \in {"CLOSED", "OPEN", "HALF_OPEN"} /\ opened \in Ages(Cooldown)
  /\ Aged(failures, Window) /\ Len(failures) <= Threshold
CallType ==
  [kind : {"none", "tool", "run", "stream", "helper"},
   pc : {"idle", "asks", "pause", "admitted", "calling"},
   model : Chain, tries : 0 .. MaxRetries]
CallInv == call \in [Callers -> CallType]
SpanInv == \A m \in Chain : Aged(entries[m], Span) /\ Aged(passed[m], Span)
BreakerTypeInv ==
  /\ client \in {"tool", "model"} /\ shared \in BOOLEAN /\ calm \in BOOLEAN
  /\ BreakerInv /\ CallInv /\ SpanInv /\ CountInv

LEMMA BreakerNats ==
  /\ Threshold \in Nat \ {0} /\ Window \in Nat \ {0} /\ Cooldown \in Nat \ {0}
  /\ Models \in Nat \ {0} /\ Limit \in Nat \ {0} /\ Span \in Nat \ {0} /\ MaxRetries \in Nat
BY BreakerAssumption

LEMMA EmptyAged ==
  ASSUME NEW limit \in Nat
  PROVE  Aged(<<>>, limit) /\ Len(<<>>) = 0
<1>1. <<>> \in Seq(Nat) /\ Len(<<>>) = 0
  OBVIOUS
<1>2. DOMAIN (<<>>) = {}
  BY <1>1, LenProperties
<1> QED
  BY <1>1, <1>2 DEF Aged

LEMMA InitBreakerTypes == BreakerInit => BreakerTypeInv
<1> SUFFICES ASSUME BreakerInit PROVE BreakerTypeInv
  OBVIOUS
<1> USE BreakerNats
<1>1. client \in {"tool", "model"} /\ shared \in BOOLEAN /\ calm \in BOOLEAN
  BY DEF BreakerInit
<1>2. BreakerInv
  BY EmptyAged DEF BreakerInit, BreakerInv, Ages
<1>3. CallInv
  BY DEF BreakerInit, CallInv, CallType, Idle, Chain
<1>4. SpanInv
  BY EmptyAged DEF BreakerInit, SpanInv
<1> QED
  BY <1>1, <1>2, <1>3, <1>4, InitCounts DEF BreakerTypeInv

\* A failure is put in front of those that still count, up to the threshold.
LEMMA FailureTypes == BreakerInv /\ RecordFailure => BreakerInv'
<1> SUFFICES ASSUME BreakerInv, RecordFailure PROVE BreakerInv'
  OBVIOUS
<1> USE BreakerNats
<1> DEFINE now == Youngest(<<0>> \o Recent(failures, Window), Threshold)
           late == <<0>>
<1>1. Aged(Recent(failures, Window), Window)
  BY RecentAged DEF BreakerInv
<1>2. Aged(now, Window) /\ Len(now) <= Threshold
  BY <1>1, EnteredAged
<1>3. Aged(late, Window) /\ Len(late) <= Threshold
  <2>1. <<0>> \in Seq(Nat) /\ Len(<<0>>) = 1 /\ \A i \in DOMAIN (<<0>>) : <<0>>[i] = 0
    OBVIOUS
  <2> QED
    BY <2>1 DEF Aged
<1>4. failures' = late \/ failures' = now
  BY DEF RecordFailure, Counts
<1>5. Open \/ UNCHANGED <<state, opened>>
  BY DEF RecordFailure, Counts
<1> HIDE DEF now, late
<1>6. Aged(failures', Window) /\ Len(failures') <= Threshold
  BY <1>2, <1>3, <1>4
<1> QED
  BY <1>5, <1>6 DEF Open, BreakerInv, Ages

LEMMA SuccessTypes == BreakerInv /\ RecordSuccess => BreakerInv'
BY BreakerNats, EmptyAged DEF BreakerInv, RecordSuccess

\* Whatever a call becomes has its type, and the other calls keep theirs.
LEMMA BecomesTypes ==
  ASSUME CallInv, NEW c \in Callers, NEW now \in CallType, Becomes(c, now)
  PROVE  CallInv'
BY DEF CallInv, Becomes

LEMMA CallTypes ==
  ASSUME CallInv, NEW c \in Callers
  PROVE  /\ Ends(c) => CallInv'
         /\ \A pc \in {"asks", "pause", "admitted", "calling"} : CallGoes(c, pc) => CallInv'
         /\ Retry(c) => CallInv'
         /\ Raises(c) => CallInv'
         /\ Degraded(c) /\ Degrade(c) => CallInv'
<1> USE BreakerNats
<1>1. call[c] \in CallType
  BY DEF CallInv
<1>2. Idle \in CallType
  BY DEF Idle, CallType, Chain
<1>3. ASSUME Ends(c) PROVE CallInv'
  BY <1>2, <1>3, BecomesTypes DEF Ends
<1>4. ASSUME NEW pc \in {"asks", "pause", "admitted", "calling"}, CallGoes(c, pc) PROVE CallInv'
  <2>1. [call[c] EXCEPT !.pc = pc] \in CallType
    BY <1>1 DEF CallType
  <2> QED
    BY <1>4, <2>1, BecomesTypes DEF CallGoes
<1>5. ASSUME Retry(c) PROVE CallInv'
  <2>1. CASE call[c].kind = "run" /\ call[c].tries < MaxRetries
    <3>1. call[c].tries + 1 \in 0 .. MaxRetries
      BY <1>1, <2>1 DEF CallType
    <3>2. [call[c] EXCEPT !.pc = "pause", !.tries = @ + 1] \in CallType
      BY <1>1, <3>1 DEF CallType
    <3>3. Becomes(c, [call[c] EXCEPT !.pc = "pause", !.tries = @ + 1])
      BY <1>5, <2>1 DEF Retry
    <3> QED
      BY <3>2, <3>3, BecomesTypes
  <2>2. CASE ~(call[c].kind = "run" /\ call[c].tries < MaxRetries)
    BY <1>3, <1>5, <2>2 DEF Retry
  <2> QED
    BY <2>1, <2>2
<1>6. ASSUME Degraded(c), Degrade(c) PROVE CallInv'
  <2>1. call[c].model + 1 \in Chain
    BY <1>1, <1>6 DEF CallType, Degraded, Chain
  <2>2. [call[c] EXCEPT !.pc = "asks", !.model = @ + 1] \in CallType
    BY <1>1, <2>1 DEF CallType
  <2> QED
    BY <1>6, <2>2, BecomesTypes DEF Degrade
<1>7. ASSUME Raises(c) PROVE CallInv'
  BY <1>3, <1>6, <1>7 DEF Raises
<1> QED
  BY <1>3, <1>4, <1>5, <1>6, <1>7

\* What the limiter counts and what it lets through are new entries.
LEMMA SpanEnters ==
  ASSUME BreakerTypeInv, NEW m
  PROVE  /\ entries' = entries /\ passed' = passed => SpanInv'
         /\ Entered(m) /\ passed' = passed => SpanInv'
         /\ /\ Entered(m)
            /\ passed' = [passed EXCEPT ![m] = Youngest(<<0>> \o @, Limit + 1)]
            => SpanInv'
<1> USE BreakerNats
<1>1. \A n \in Chain : /\ Aged(entries[n], Span) /\ Aged(passed[n], Span)
                       /\ n \in DOMAIN entries /\ n \in DOMAIN passed
  BY DEF BreakerTypeInv, SpanInv, CountInv
<1>2. \A n \in Chain : /\ Aged(Youngest(<<0>> \o entries[n], Limit), Span)
                       /\ Aged(Youngest(<<0>> \o passed[n], Limit + 1), Span)
  <2>1. Limit + 1 \in Nat \ {0}
    OBVIOUS
  <2> QED
    BY <1>1, <2>1, EnteredAged
<1>3. ASSUME Entered(m), NEW n \in Chain PROVE Aged(entries'[n], Span)
  BY <1>1, <1>2, <1>3 DEF Entered
<1>4. passed' = [passed EXCEPT ![m] = Youngest(<<0>> \o @, Limit + 1)]
        => \A n \in Chain : Aged(passed'[n], Span)
  BY <1>1, <1>2
<1> QED
  BY <1>1, <1>3, <1>4 DEF SpanInv

LEMMA BreakerTypeStep == BreakerTypeInv /\ [BreakerNext]_breakerVars => BreakerTypeInv'
<1> SUFFICES ASSUME BreakerTypeInv, [BreakerNext]_breakerVars PROVE BreakerTypeInv'
  OBVIOUS
<1> USE BreakerNats
<1>1. CountInv'
  BY CountStep DEF BreakerTypeInv
<1>2. BreakerInv /\ CallInv /\ SpanInv
  BY DEF BreakerTypeInv
<1>3. UNCHANGED breaker => BreakerInv'
  BY <1>2 DEF breaker, BreakerInv
<1>4. UNCHANGED limiter => SpanInv'
  BY <1>2 DEF limiter, SpanInv
<1>5. UNCHANGED call => CallInv'
  BY <1>2 DEF CallInv
<1>6. ASSUME UNCHANGED fixed, calm' \in BOOLEAN, BreakerInv', CallInv', SpanInv'
      PROVE  BreakerTypeInv'
  BY <1>1, <1>6 DEF BreakerTypeInv, fixed
<1>7. calm' = calm => calm' \in BOOLEAN
  BY DEF BreakerTypeInv
<1>8. ASSUME NEW c \in Callers, Begin(c) PROVE BreakerTypeInv'
  <2>1. Idle \in CallType /\ 1 \in Chain /\ Models \in Chain
    BY DEF Idle, CallType, Chain
  <2>2. [Idle EXCEPT !.kind = "tool", !.pc = "admitted"] \in CallType
    BY <2>1 DEF CallType
  <2>3. ASSUME NEW kind \in {"run", "stream", "helper"}
        PROVE  [Idle EXCEPT !.kind = kind, !.pc = "asks",
                            !.model = IF kind = "helper" THEN 1 ELSE Models] \in CallType
    <3>1. (IF kind = "helper" THEN 1 ELSE Models) \in Chain
      BY <2>1
    <3> QED
      BY <2>1, <3>1 DEF CallType
  <2>4. \E now \in CallType : Becomes(c, now)
    BY <1>8, <2>2, <2>3 DEF Begin
  <2>5. CallInv'
    BY <1>2, <2>4, BecomesTypes
  <2> QED
    BY <1>8, <1>3, <1>4, <1>6, <1>7, <2>5 DEF Begin
<1>9. ASSUME NEW c \in Callers, PauseEnds(c) PROVE BreakerTypeInv'
  <2>1. CallInv'
    BY <1>9, <1>2, CallTypes DEF PauseEnds
  <2> QED
    BY <1>9, <1>3, <1>4, <1>6, <1>7, <2>1 DEF PauseEnds
<1>10. ASSUME NEW c \in Callers, Pass(c) PROVE BreakerTypeInv'
  <2>1. CallInv'
    BY <1>10, <1>2, CallTypes DEF Pass
  <2>2. SpanInv'
    BY <1>10, SpanEnters DEF Pass
  <2> QED
    BY <1>10, <1>3, <1>6, <1>7, <2>1, <2>2 DEF Pass
<1>11. ASSUME NEW c \in Callers, Limited(c) PROVE BreakerTypeInv'
  <2>1. CallInv'
    BY <1>11, <1>2, CallTypes DEF Limited
  <2>2. SpanInv'
    BY <1>11, SpanEnters DEF Limited
  <2>3. BreakerInv'
    BY <1>11, <1>2, FailureTypes DEF Limited
  <2> QED
    BY <1>11, <1>6, <1>7, <2>1, <2>2, <2>3 DEF Limited
<1>12. ASSUME NEW c \in Callers, Enter(c) PROVE BreakerTypeInv'
  <2>1. CallInv'
    BY <1>12, <1>2, CallTypes DEF Enter
  <2>2. BreakerInv'
    BY <1>12, <1>2 DEF Enter, Allow, BreakerInv
  <2> QED
    BY <1>12, <1>4, <1>6, <1>7, <2>1, <2>2 DEF Enter, Within
<1>13. ASSUME NEW c \in Callers, TurnedAway(c) PROVE BreakerTypeInv'
  <2>1. CallInv'
    BY <1>13, <1>2, CallTypes DEF TurnedAway
  <2>2. BreakerInv'
    BY <1>13, <1>2, <1>3, FailureTypes DEF TurnedAway
  <2> QED
    BY <1>13, <1>4, <1>6, <1>7, <2>1, <2>2 DEF TurnedAway, Within
<1>14. ASSUME NEW c \in Callers, Returns(c) PROVE BreakerTypeInv'
  <2>1. Within
    BY <1>14 DEF Returns, Succeeds, Fails, TimesOut, Refused, Unrecorded
  <2>2. RecordSuccess \/ RecordFailure \/ UNCHANGED breaker
    BY <1>14 DEF Returns, Succeeds, Fails, TimesOut, Refused, Unrecorded
  <2>3. Ends(c) \/ Raises(c) \/ Retry(c) \/ (Degraded(c) /\ Degrade(c))
    BY <1>14 DEF Returns, Succeeds, Fails, TimesOut, Refused, Unrecorded
  <2>4. BreakerInv'
    BY <2>2, <1>2, <1>3, FailureTypes, SuccessTypes
  <2>5. CallInv'
    BY <2>3, <1>2, CallTypes
  <2> QED
    BY <2>1, <2>4, <2>5, <1>4, <1>6, <1>7 DEF Within
<1>15. CASE Tick
  <2>1. BreakerInv'
    <3>1. Aged(Older(failures, Window), Window) /\ Len(Older(failures, Window)) = Len(failures)
      BY <1>2, OlderAged DEF BreakerInv
    <3>2. Grown(opened, Cooldown) \in Ages(Cooldown)
      BY <1>2 DEF BreakerInv, Grown, Ages
    <3> QED
      BY <1>15, <1>2, <3>1, <3>2 DEF Tick, BreakerInv
  <2>2. SpanInv'
    <3>1. \A m \in Chain : Aged(Older(entries[m], Span), Span) /\ Aged(Older(passed[m], Span), Span)
      BY <1>2, OlderAged DEF SpanInv
    <3>2. \A m \in Chain : /\ Aged(Recent(Older(entries[m], Span), Span), Span)
                           /\ Aged(Recent(Older(passed[m], Span), Span), Span)
      BY <3>1, RecentAged
    <3> QED
      BY <1>15, <3>2 DEF Tick, SpanInv
  <2> QED
    BY <1>15, <1>5, <1>6, <1>7, <2>1, <2>2 DEF Tick
<1>16. CASE Weather
  BY <1>16, <1>3, <1>4, <1>5, <1>6 DEF Weather
<1>17. CASE UNCHANGED breakerVars
  BY <1>17, <1>3, <1>4, <1>5, <1>6, <1>7 DEF breakerVars
<1> QED
  BY <1>8, <1>9, <1>10, <1>11, <1>12, <1>13, <1>14, <1>15, <1>16, <1>17 DEF BreakerNext

\* No more failures are kept than the threshold counts, a call asks for a model
\* of the chain and is tried again at most MaxRetries times (circuit_breaker.py,
\* gateway.py, runtime.py), and every age is within what still matters.
THEOREM BreakerTypeCorrect == BreakerSpec => []BreakerTypeOK
<1>1. BreakerTypeInv => BreakerTypeOK
  <2> SUFFICES ASSUME BreakerTypeInv PROVE BreakerTypeOK
    OBVIOUS
  <2>1. failures \in Seq(Ages(Window)) /\ Len(failures) <= Threshold
    BY BreakerNats, AgedIs DEF BreakerTypeInv, BreakerInv
  <2>2. \A m \in Chain : /\ entries[m] \in Seq(Ages(Span)) /\ Len(entries[m]) <= Limit
                         /\ passed[m] \in Seq(Ages(Span))
    BY BreakerNats, AgedIs DEF BreakerTypeInv, SpanInv, CountInv, Windowed
  <2> QED
    BY <2>1, <2>2 DEF BreakerTypeInv, BreakerInv, CallInv, CallType, BreakerTypeOK
<1> QED
  BY <1>1, InitBreakerTypes, BreakerTypeStep, PTL DEF BreakerSpec
=============================================================================
