----------------------------- MODULE RunRecords -----------------------------
(***************************************************************************)
(* What runs leave behind, and its removal: steps, calls and trace         *)
(* payloads (app/agent/runtime/store.py, observability), the facts that    *)
(* are distilled into memories (app/memory), the bad cases and events of a *)
(* user's feedback (app/evaluation, app/events), the retention sweep and   *)
(* the purge of a tenant (app/data).                                       *)
(*                                                                         *)
(* One tenant; every run asks the same question, and so do the saved cases *)
(* that are seeded.  A driver is taken from RunLifecycle without its       *)
(* states; a transaction is one step, or two when it decides on what it    *)
(* has read.  The database holds the foreign key of the steps.             *)
(***************************************************************************)
EXTENDS Integers, Sequences, FiniteSets

CONSTANTS
  Runs,         \* each is begun at most once
  Requests,     \* each is made at most once
  Kinds,        \* of which kinds they are
  Facts,        \* that can be distilled or written
  Specs,        \* expectations of a saved case
  Window,       \* the newest memories that a recall looks at
  Absent        \* nothing: no row, or None in the code

AllKinds == {"feedback", "seed", "write", "forget", "sweep", "purge"}
RunRow == [state : {"running", "waiting", "ended"}, finished : {"never", "now", "old"}]
CaseRow == [dataset : Requests, run : Runs \union {Absent}, spec : Specs \union {Absent}]
ASSUME RecordsAssumption ==
  /\ Kinds \subseteq AllKinds /\ Window \in Nat
  /\ Absent \notin Runs \union Requests \union RunRow \union CaseRow
  /\ Runs \intersect Requests = {}

VARIABLES
  run,          \* run[x]: the row of the run, or Absent
  driver,       \* driver[x]: where its driver stands, and the fact it distilled
  steps,        \* runs with rows in agent_steps
  calls,        \* rows of llm_calls and tool_calls: the run, and whether the
                \* row has its tenant
  payload,      \* payload[x]: trace payloads, none, "now" or "old"
  memory,       \* rows of memories, in the order they were written
  dataset,      \* rows of evaluation_datasets, by the request that made them
  cases,        \* cases[q]: the row of evaluation_cases that request q added
  event,        \* event[x]: the event "feedback.bad:x", or Absent
  request,      \* where each request stands
  told,         \* feedback that was told it is recorded
  resumed,      \* runs that were resumed
  cleared,      \* a purge has committed: "never", "now", or "before" what was
                \* begun since
  past          \* what has met or happened: "adders", "doubt", "crowded",
                \* "purge"

rows == <<run, steps, calls, payload>>
wheel == <<memory, dataset, cases, event>>
recordsVars == <<rows, wheel, driver, request, told, resumed, cleared, past>>

Authors == Runs \union Requests
Nothing == [runs |-> {}, steps |-> {}, calls |-> {}, payload |-> {},
            dataset |-> {}, cases |-> {}, memory |-> {}]
Idle == [pc |-> "idle", kind |-> "none", run |-> Absent, what |-> Absent, of |-> Absent,
         taken |-> Nothing]
Ended == [Idle EXCEPT !.pc = "over"]
InFlight(q) == request[q].pc \notin {"idle", "over"}
Rests(x) == driver[x].pc \in {"new", "idle"}

RecordsInit ==
  /\ run = [x \in Runs |-> Absent]
  /\ driver = [x \in Runs |-> [pc |-> "new", fact |-> Absent]]
  /\ steps = {} /\ calls = {} /\ payload = [x \in Runs |-> "none"]
  /\ memory = <<>> /\ dataset = {}
  /\ cases = [q \in Requests |-> Absent] /\ event = [x \in Runs |-> Absent]
  /\ request = [q \in Requests |-> Idle] /\ told = {}
  /\ resumed = {} /\ cleared = "never" /\ past = {}

-----------------------------------------------------------------------------
(* Runs *)

Steers(x, pc) == driver' = [driver EXCEPT ![x] = [pc |-> pc, fact |-> Absent]]
NoRequest == UNCHANGED <<wheel, request, told>>
Drives == NoRequest /\ UNCHANGED <<resumed, cleared, past>>

Starts == cleared' = IF cleared = "now" THEN "before" ELSE cleared
Purging == \E q \in Requests : InFlight(q) /\ request[q].kind = "purge"

BeginRun(x) ==
  /\ driver[x].pc = "new"
  /\ run' = [run EXCEPT ![x] = [state |-> "running", finished |-> "never"]]
  /\ Steers(x, "call")
  /\ Starts /\ past' = past \union {p \in {"purge"} : Purging}
  /\ NoRequest /\ UNCHANGED <<steps, calls, payload, resumed>>

\* record_llm_call, insert_tool_call, and a sample of the payloads: rows are
\* written whether the run is there or not; that of the model's call then
\* names no tenant.
RecordCall(x) ==
  /\ driver[x].pc = "call"
  /\ \E names \in {{run[x] # Absent}, {run[x] # Absent, TRUE}} :
       calls' = calls \union [run : {x}, named : names]
  /\ payload' \in {payload, [payload EXCEPT ![x] = "now"]}
  /\ Steers(x, "step") /\ Drives /\ UNCHANGED <<run, steps>>
\* The foreign key refuses a step without its run, which ends the driver.
AddStep(x) ==
  /\ driver[x].pc = "step"
  /\ IF run[x] = Absent THEN steps' = steps /\ Steers(x, "finish")
     ELSE steps' = steps \union {x} /\ Steers(x, "call")
  /\ Drives /\ UNCHANGED <<run, calls, payload>>

\* finish_run stamps the end of a run that only waits, too.
Finish(x) ==
  /\ driver[x].pc \in {"call", "step", "finish"}
  /\ \E state \in {"ended", "waiting"} :
       run' = IF run[x] = Absent THEN run
              ELSE [run EXCEPT ![x] = [state |-> state, finished |-> "now"]]
  /\ Steers(x, IF x \in resumed THEN "idle" ELSE "distil")
  /\ Drives /\ UNCHANGED <<steps, calls, payload>>
\* Nothing clears the stamp.
Resume(x) ==
  /\ run[x] # Absent /\ Rests(x) /\ run[x].state = "waiting"
  /\ run' = [run EXCEPT ![x].state = "running"]
  /\ resumed' = resumed \union {x} /\ Steers(x, "call")
  /\ Starts /\ past' = past \union {p \in {"purge"} : Purging}
  /\ NoRequest /\ UNCHANGED <<steps, calls, payload>>
Crash(x) ==
  /\ ~Rests(x) /\ Steers(x, "idle") /\ Drives /\ UNCHANGED rows

\* The retention passes: longer than any request or driver takes.
Age ==
  /\ \A x \in Runs : Rests(x)
  /\ \A q \in Requests : ~InFlight(q)
  /\ run' = [x \in Runs |-> IF run[x] # Absent /\ run[x].finished = "now"
               THEN [run[x] EXCEPT !.finished = "old"] ELSE run[x]]
  /\ payload' = [x \in Runs |-> IF payload[x] = "now" THEN "old" ELSE payload[x]]
  /\ Drives /\ UNCHANGED <<driver, steps, calls>>

-----------------------------------------------------------------------------
(* Memories *)

Distils(x) == driver[x].pc \in {"distil", "recall", "remember"}
Live == SelectSeq(memory, LAMBDA m : ~m.deleted)
Recalled(of) == {Live[i].fact : i \in {j \in DOMAIN Live : /\ j + Window > Len(Live)
                                                          /\ Live[j].by \in of}}

\* sediment, after a run that was not queued nor resumed: the run is read and
\* a model asked for a fact, which may be none.
Distil(x) ==
  /\ driver[x].pc = "distil"
  /\ \/ Steers(x, "idle")
     \/ /\ run[x] # Absent
        /\ \E f \in Facts : driver' = [driver EXCEPT ![x] = [pc |-> "recall", fact |-> f]]
  /\ past' = past \union {p \in {"doubt"} : \E y \in Runs \ {x} : Distils(y)}
  /\ NoRequest /\ UNCHANGED <<rows, resumed, cleared>>
\* What is looked for may be there and the recall fail, which counts as
\* finding nothing.
Looks(x, of) ==
  /\ driver[x].pc = "recall"
  /\ LET found == driver[x].fact \in Recalled(of)
         next(pc) == driver' = [driver EXCEPT ![x].pc = pc] IN
     \/ found /\ Steers(x, "idle") /\ past' = past
     \/ ~found /\ next("remember") /\ past' = past
     \/ found /\ next("remember") /\ past' = past \union {"doubt"}
  /\ NoRequest /\ UNCHANGED <<rows, resumed, cleared>>
\* Fault: only what was distilled is recalled.
RecallDistilled(x) == Looks(x, Runs)
\* _content_exists.
Recall(x) == Looks(x, Authors)

Insert(by, f, met) ==
  /\ memory' = Append(memory, [by |-> by, fact |-> f, deleted |-> FALSE])
  /\ past' = met \union {p \in {"crowded"} : Len(Live) >= Window}
                 \union {p \in {"doubt"} : \E x \in Runs : driver[x].pc = "remember" /\ x # by}
\* The guard may refuse what the model says.
Remember(x) ==
  /\ driver[x].pc = "remember"
  /\ \/ Insert(x, driver[x].fact, past)
     \/ UNCHANGED <<memory, past>>
  /\ Steers(x, "idle")
  /\ UNCHANGED <<rows, dataset, cases, event, request, told, resumed, cleared>>

-----------------------------------------------------------------------------
(* Requests *)

At(q, pc) == request[q].pc = pc
Becomes(q, now) == request' = [request EXCEPT ![q] = now] /\ UNCHANGED told
Goes(q, pc) == Becomes(q, [request[q] EXCEPT !.pc = pc])
Ends(q) == Becomes(q, Ended)
Serves == UNCHANGED <<driver, resumed, cleared, past>>

Adders == {"feedback", "seed"}
Meets(q, kinds) == \E p \in Requests \ {q} : InFlight(p) /\ request[p].kind \in kinds
Met(q, kind) ==
  past \union {p \in {"adders"} : kind \in Adders /\ Meets(q, Adders)}
       \union {p \in {"purge"} : \/ Meets(q, {"purge"})
                                 \/ kind = "purge" /\ ( \/ Meets(q, AllKinds)
                                                        \/ \E x \in Runs : ~Rests(x) )}
Asks(q, kind) ==
  /\ At(q, "idle") /\ kind \in Kinds
  /\ Starts
  /\ UNCHANGED <<driver, resumed>>
\* A request, with its first transaction when that only reads.
Begins(q, kind, now) ==
  /\ Asks(q, kind) /\ past' = Met(q, kind)
  /\ Becomes(q, now) /\ UNCHANGED <<rows, wheel>>

-----------------------------------------------------------------------------
(* Feedback and saved cases *)

\* run_feedback, with the feedback "bad".
Feedback(q, x) ==
  Begins(q, "feedback",
    IF run[x] = Absent THEN Ended ELSE [Idle EXCEPT !.kind = "feedback", !.pc = "ensure", !.run = x])

\* _ensure_dataset; of two datasets the database gives either.
FindDataset(q) ==
  /\ At(q, "ensure")
  /\ \/ dataset = {} /\ Goes(q, "create")
     \/ \E d \in dataset : Becomes(q, [request[q] EXCEPT !.pc = "case", !.of = d])
  /\ Serves /\ UNCHANGED <<rows, wheel>>
\* Fault: the new dataset is made, and not returned.
CreateUnreturned(q) ==
  /\ At(q, "create") /\ dataset' = dataset \union {q}
  /\ Goes(q, "case") /\ Serves /\ UNCHANGED <<rows, memory, cases, event>>
CreateDataset(q) ==
  /\ At(q, "create") /\ dataset' = dataset \union {q}
  /\ Becomes(q, [request[q] EXCEPT !.pc = "case", !.of = q])
  /\ Serves /\ UNCHANGED <<rows, memory, cases, event>>
Adds(q, row) ==
  /\ At(q, "case")
  /\ cases' = [cases EXCEPT ![q] = row]
  /\ IF request[q].kind = "seed" THEN Ends(q) ELSE Goes(q, "lookup")
  /\ Serves /\ UNCHANGED <<rows, memory, dataset, event>>
\* Fault: the case is not committed.
AddUncommitted(q) == Adds(q, Absent)
AddCase(q) ==
  Adds(q, [dataset |-> request[q].of, run |-> request[q].run, spec |-> request[q].what])

Told(q) == request' = [request EXCEPT ![q] = Ended] /\ told' = told \union {q}
\* EventOutbox.publish: the key is looked up, and inserted later, when the
\* unique index may refuse it.
LookupEvent(q) ==
  /\ At(q, "lookup")
  /\ IF event[request[q].run] # Absent THEN Told(q) ELSE Goes(q, "publish")
  /\ Serves /\ UNCHANGED <<rows, wheel>>
Publish(q) ==
  /\ At(q, "publish")
  /\ LET x == request[q].run IN
     IF event[x] # Absent THEN Ends(q) /\ event' = event
     ELSE Told(q) /\ event' = [event EXCEPT ![x] = q]
  /\ Serves /\ UNCHANGED <<rows, memory, dataset, cases>>

\* seed_cases, of the endpoint and of a start, with one saved case.
Saved(spec) == [Idle EXCEPT !.kind = "seed", !.what = spec]
SavedCases == {c \in Requests : cases[c] # Absent}
Seeds(q, spec, known) ==
  \/ /\ dataset = {} \/ \E d \in dataset : \A c \in known : cases[c].dataset # d
     /\ Begins(q, "seed", [Saved(spec) EXCEPT !.pc = "ensure"])
  \/ \E c \in known :
       /\ cases[c].dataset \in dataset
       /\ \/ cases[c].spec = spec /\ Begins(q, "seed", Ended)
          \/ Begins(q, "seed", [Saved(spec) EXCEPT !.pc = "update", !.of = c])
\* Fault: a case with another expectation is another case.
SeedAnother(q, spec) == Seeds(q, spec, {c \in SavedCases : cases[c].spec = spec})
\* find_case looks into one of the datasets.  The expectation is compared under
\* other keys than it is stored with, so most cases differ from themselves.
Seed(q, spec) == Seeds(q, spec, SavedCases)
UpdateCase(q) ==
  /\ At(q, "update") /\ Ends(q)
  /\ LET c == request[q].of IN
     cases' = IF cases[c] = Absent THEN cases
              ELSE [cases EXCEPT ![c].spec = request[q].what]
  /\ Serves /\ UNCHANGED <<rows, memory, dataset, event>>

\* POST /memory, DELETE /memory/{id}: a transaction each.
Write(q, f) ==
  /\ Asks(q, "write") /\ Insert(q, f, Met(q, "write")) /\ Ends(q)
  /\ UNCHANGED <<rows, dataset, cases, event>>
Forget(q, w) ==
  /\ Asks(q, "forget") /\ past' = Met(q, "forget") /\ Ends(q)
  /\ memory' = [i \in DOMAIN memory |-> IF memory[i].by = w
                  THEN [memory[i] EXCEPT !.deleted = TRUE] ELSE memory[i]]
  /\ UNCHANGED <<rows, dataset, cases, event>>

-----------------------------------------------------------------------------
(* Removal *)

Present == {x \in Runs : run[x] # Absent}
CallsOf(ids) == {c \in calls : c.run \in ids}
Lists(q, kind, ids) ==
  Begins(q, kind, [Idle EXCEPT !.kind = kind, !.pc = "delete", !.taken.runs = ids])

\* retention_sweep: a list of runs, a statement for each table, the runs.
\* Fault: the end is not compared with the cutoff.
SweepFinished(q) == Lists(q, "sweep", {x \in Present : run[x].finished # "never"})
Sweep(q) == Lists(q, "sweep", {x \in Present : run[x].finished = "old"})
Takes(q, gone) ==
  /\ At(q, "delete") /\ request[q].kind = "sweep"
  /\ LET ids == request[q].taken.runs
         dated == {x \in Runs : payload[x] = "old"}
         traces == {x \in ids : payload[x] # "none"} IN
     Becomes(q, [request[q] EXCEPT !.pc = "commit",
       !.taken = [Nothing EXCEPT !.runs = ids, !.steps = steps \intersect ids,
                                 !.calls = gone, !.payload = dated \union traces]])
  /\ Serves /\ UNCHANGED <<rows, wheel>>
\* Fault: the calls are forgotten.
DeleteButCalls(q) == Takes(q, {})
DeleteOldRows(q) == Takes(q, CallsOf(request[q].taken.runs))

\* purge_tenant: the payloads and steps of the listed runs, then everything
\* that has the tenant, in the tables that are listed.
Purge(q) == Lists(q, "purge", Present)
DeleteTenantRows(q) ==
  /\ At(q, "delete") /\ request[q].kind = "purge"
  /\ LET ids == request[q].taken.runs IN
     Becomes(q, [request[q] EXCEPT !.pc = "commit", !.taken =
       [runs |-> Present, steps |-> steps \intersect ids,
        calls |-> {c \in calls : c.named},
        payload |-> {x \in ids : payload[x] # "none"}, dataset |-> dataset,
        cases |-> {c \in Requests : cases[c] # Absent},
        memory |-> {memory[i].by : i \in DOMAIN memory}]])
  /\ Serves /\ UNCHANGED <<rows, wheel>>

\* What is taken of the memories is the oldest of them.
Newer(gone) == SubSeq(memory, Cardinality({i \in DOMAIN memory : memory[i].by \in gone}) + 1, Len(memory))
\* A step that was added since refuses the removal of its run, and with it
\* all of it.
Commit(q) ==
  /\ At(q, "commit") /\ Ends(q)
  /\ LET t == request[q].taken IN
     IF (steps \intersect t.runs) \ t.steps # {}
     THEN UNCHANGED <<rows, memory, dataset, cases, cleared>>
     ELSE
       /\ run' = [x \in Runs |-> IF x \in t.runs THEN Absent ELSE run[x]]
       /\ steps' = steps \ t.steps /\ calls' = calls \ t.calls
       /\ payload' = [x \in Runs |-> IF x \in t.payload THEN "none" ELSE payload[x]]
       /\ dataset' = dataset \ t.dataset
       /\ cases' = [c \in Requests |-> IF c \in t.cases THEN Absent ELSE cases[c]]
       /\ memory' = Newer(t.memory)
       /\ cleared' = IF request[q].kind = "purge" THEN "now" ELSE cleared
  /\ UNCHANGED <<event, driver, resumed, past>>

\* A failure or a stop ends a request anywhere; what is not committed stays.
\* So ends the purge of a tenant that has roles, which refer to it.
Cut(q) == InFlight(q) /\ Ends(q) /\ Serves /\ UNCHANGED <<rows, wheel>>

-----------------------------------------------------------------------------
Drive(x) ==
  \/ BeginRun(x) \/ RecordCall(x) \/ AddStep(x) \/ Finish(x)
  \/ Resume(x) \/ Crash(x) \/ Distil(x) \/ Recall(x) \/ Remember(x)
AskRecords(q) ==
  \/ \E x \in Runs : Feedback(q, x)
  \/ \E spec \in Specs : Seed(q, spec)
  \/ \E f \in Facts : Write(q, f)
  \/ \E i \in DOMAIN memory : Forget(q, memory[i].by)
  \/ Sweep(q) \/ Purge(q)
Serve(q) ==
  \/ FindDataset(q) \/ CreateDataset(q) \/ AddCase(q) \/ LookupEvent(q) \/ Publish(q)
  \/ UpdateCase(q) \/ DeleteOldRows(q) \/ DeleteTenantRows(q) \/ Commit(q) \/ Cut(q)
RecordsNext ==
  \/ \E x \in Runs : Drive(x)
  \/ \E q \in Requests : AskRecords(q) \/ Serve(q)
  \/ Age

RecordsSpec == RecordsInit /\ [][RecordsNext]_recordsVars

-----------------------------------------------------------------------------
(* Properties *)

\* Every variable has its type: a case is in a dataset that some request made.
RecordsTypeOK ==
  /\ run \in [Runs -> RunRow \union {Absent}]
  /\ \A x \in Runs : driver[x].fact \in Facts \union {Absent}
  /\ steps \subseteq Runs /\ calls \subseteq [run : Runs, named : BOOLEAN]
  /\ payload \in [Runs -> {"none", "now", "old"}]
  /\ memory \in Seq([by : Authors, fact : Facts, deleted : BOOLEAN])
  /\ dataset \subseteq Requests
  /\ cases \in [Requests -> CaseRow \union {Absent}]
  /\ event \in [Runs -> Requests \union {Absent}]
  /\ resumed \subseteq Runs /\ told \subseteq Requests

\* The sweep removes runs that ended longer ago than the retention and that
\* nobody drives (test_data.py, test_retention_sweep_deletes_old_runs_only),
\* in whatever order its statements and the steps of drivers come; of a run
\* that waited and was resumed the stamp says nothing.
SweptIsOver ==
  [][(~\E q \in Requests : At(q, "commit") /\ request[q].kind = "purge") =>
       \A x \in Runs \ resumed : run[x] # Absent /\ run'[x] = Absent =>
         run[x].finished = "old" /\ Rests(x)]_recordsVars

\* A run that is removed leaves no step, call or payload (service.py:4, 96),
\* and a purge leaves no memory, case or dataset of its tenant (service.py:3),
\* unless the purge met something under way, or the run had been resumed.
RemovedLeavesNothing ==
  "purge" \notin past =>
    /\ \A x \in Runs \ resumed : run[x] = Absent /\ Rests(x) =>
         x \notin steps /\ CallsOf({x}) = {} /\ payload[x] = "none"
    /\ cleared = "now" => memory = <<>> /\ dataset = {} /\ \A c \in Requests : cases[c] = Absent

\* A user who is told that a bad feedback was recorded has an event of that
\* run in the outbox; and an event names a case that was stored, whichever
\* feedback was first, fails or is sent again, until a purge takes the cases.
FeedbackIsRecorded ==
  /\ \A q \in told : cases[q] # Absent => event[cases[q].run] # Absent
  /\ cleared = "never" =>
       /\ told \subseteq {c \in Requests : cases[c] # Absent}
       /\ \A x \in Runs : event[x] # Absent =>
            cases[event[x]] # Absent /\ cases[event[x]].run = x

\* Seeding is an upsert (evaluation/service.py:207): saved cases that change
\* and are seeded again, beside the cases of feedback, are one case, unless
\* two requests that add cases met, or a purge took the dataset of one.
SeedsConverge ==
  past \intersect {"adders", "purge"} = {} =>
    Cardinality({c \in Requests : cases[c] # Absent /\ cases[c].run = Absent}) <= 1

\* A fact that is in memory is not distilled into it again (memory/extract.py:5),
\* unless it is written at the same time, the recall fails or more memories
\* than it looks at are newer.
Twice == \E i, j \in DOMAIN memory :
  /\ i < j /\ memory[i].fact = memory[j].fact
  /\ memory[j].by \in Runs /\ ~memory[i].deleted
FactOnce == past \intersect {"doubt", "crowded"} = {} => ~Twice

\* Documents promise more.
\* test_data.py:56: only runs that ended are swept.
SweepsEndedOnly ==
  [][\A x \in Runs : run[x] # Absent /\ run'[x] = Absent /\ run[x].state # "ended" =>
       \E q \in Requests : At(q, "commit") /\ request[q].kind = "purge"]_recordsVars
\* service.py:3, 48: a purge removes all data of the tenant.
PurgedIsForgotten ==
  cleared = "now" /\ "purge" \notin past =>
    calls = {} /\ \A x \in Runs : event[x] = Absent /\ payload[x] = "none"
\* memory/extract.py:5: also of an old fact.
FactEverOnce == "doubt" \notin past => ~Twice
=============================================================================
