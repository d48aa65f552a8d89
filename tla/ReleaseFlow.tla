---------------------------- MODULE ReleaseFlow ----------------------------
(***************************************************************************)
(* The release flow of one agent (app/release/service.py): the numbering   *)
(* of its versions, the meta row of the flow, the release orders and the   *)
(* history filed under them.                                               *)
(*                                                                         *)
(* Every await of a session is a transaction of its own, and a request is  *)
(* the sequence of its transactions: requests interleave between them, and *)
(* a server that stops cuts one short.  What the versions serve, and the   *)
(* check for a terminated flow, is module Release; here only the status of *)
(* the newest version counts.  The rows of the five nodes keep what the    *)
(* front end saved and nothing reads them: they are not kept here.         *)
(***************************************************************************)
EXTENDS Naturals, Sequences, FiniteSetsExt

CONSTANTS
  Operators,    \* requests under way at once
  MaxVersion,   \* bound on the versions created, and
  MaxOrder      \* on the orders opened: a request beyond it can only be cut

ASSUME FlowAssumption == {MaxVersion, MaxOrder} \subseteq Nat

VARIABLES
  meta,       \* the _meta row: status, terminated, order_id (0: none)
  orders,     \* orders[n]: status of the release order with order_no n
  versions,   \* versions[n]: whose request created version n
  latest,     \* status of the newest version, "" without any
  request,    \* where each operator's request stands
  alone       \* no two requests have been under way at once so far

vars == <<meta, orders, versions, latest, request, alone>>

\* "going" stands for empty, draft, contract, regression, gray and release.
FlowStatus == {"", "going", "done", "disabled", "terminated"}
Meta == [status : FlowStatus, terminated : BOOLEAN, order : 0 .. MaxOrder]

\* then: what the request goes on to; ends: the status a closed order gets;
\* n: the number a transaction read, for a later one to use.
Request == [pc : {"idle", "ended", "reset", "close", "look", "insert", "point",
                  "number", "add", "record", "created", "ordered", "closed"},
            then : {"", "version", "order", "flow", "end"},
            ends : {"", "done", "terminated"}, n : 0 .. Max({MaxOrder, MaxVersion}) + 1]
Idle == [pc |-> "idle", then |-> "", ends |-> "", n |-> 0]

OpenOrders == {n \in DOMAIN orders : orders[n] = "open"}
Newest(S) == Max(S)

Init ==
  /\ meta = [status |-> "", terminated |-> FALSE, order |-> 0]
  /\ orders = <<>> /\ versions = <<>> /\ latest = ""
  /\ request = [o \in Operators |-> Idle]
  /\ alone = TRUE

-----------------------------------------------------------------------------
(* Steps of a request *)

\* A request arrives and stands at r.
Arrives(o, r) ==
  /\ request[o] = Idle
  /\ request' = [request EXCEPT ![o] = r]
  /\ alone' = (alone /\ \A p \in Operators \ {o} : request[p] = Idle)

At(o, pc) == request[o].pc = pc /\ UNCHANGED alone
Goes(o, pc) == request' = [request EXCEPT ![o].pc = pc]
Holds(o, pc, n) == request' = [request EXCEPT ![o].pc = pc, ![o].n = n]
Fails(o) == request' = [request EXCEPT ![o] = Idle]

CreateVersion(o) ==
  /\ Arrives(o, [Idle EXCEPT !.pc = "ended", !.then = "version"])
  /\ UNCHANGED <<meta, orders, versions, latest>>

\* Without a status of its own the flow is where its newest version is.
\* Fault: a terminated flow is known by its status alone.
EndedByStatus == meta.status \in {"done", "disabled"}
FlowEnded ==
  \/ meta.terminated
  \/ meta.status \in {"done", "disabled"}
  \/ meta.status = "" /\ latest \in {"ACTIVE", "DISABLED"}

LookEnded(o) ==
  /\ At(o, "ended")
  /\ Goes(o, IF FlowEnded THEN "reset" ELSE "look")
  /\ UNCHANGED <<meta, orders, versions, latest>>

CreateOrder(o) ==
  /\ Arrives(o, [Idle EXCEPT !.pc = "close", !.then = "order",
                             !.ends = "terminated"])
  /\ UNCHANGED <<meta, orders, versions, latest>>

StartFlow(o) ==
  /\ Arrives(o, [Idle EXCEPT !.pc = "reset", !.then = "flow"])
  /\ UNCHANGED <<meta, orders, versions, latest>>

TerminateFlow(o) ==
  /\ Arrives(o, [Idle EXCEPT !.pc = "close", !.then = "end",
                             !.ends = "terminated"])
  /\ meta' = [meta EXCEPT !.status = "terminated", !.terminated = TRUE]
  /\ UNCHANGED <<orders, versions, latest>>

\* Only "done" closes the order, and any status but "terminated" lets a
\* terminated flow go on.
SaveFlowStatus(o, s) ==
  /\ Arrives(o, IF s = "done" THEN [Idle EXCEPT !.pc = "close", !.then = "end",
                                                !.ends = "done"]
                ELSE Idle)
  /\ meta' = [meta EXCEPT !.status = s,
                          !.terminated = @ /\ s = "terminated"]
  /\ UNCHANGED <<orders, versions, latest>>

\* Fault: the meta row is written without its order_id.
ResetDropsOrder(o) ==
  /\ At(o, "reset")
  /\ meta' = [status |-> "going", terminated |-> FALSE]
  /\ IF request[o].then = "flow" THEN Fails(o) ELSE Goes(o, "look")
  /\ UNCHANGED <<orders, versions, latest>>
ResetFlow(o) ==
  /\ At(o, "reset")
  /\ meta' = [status |-> "going", terminated |-> FALSE, order |-> 0]
  /\ IF request[o].then = "flow" THEN Fails(o) ELSE Goes(o, "look")
  /\ UNCHANGED <<orders, versions, latest>>

\* The newest open order is closed; without one nothing is.
\* Fault: the order is looked up by its number alone, the oldest first.
CloseOldest(o) ==
  /\ At(o, "close")
  /\ orders' = IF orders = <<>> THEN orders
               ELSE [orders EXCEPT ![1] = request[o].ends]
  /\ Goes(o, IF request[o].then = "order" THEN "reset" ELSE "closed")
  /\ UNCHANGED <<meta, versions, latest>>
CloseOrder(o) ==
  /\ At(o, "close")
  /\ orders' = IF OpenOrders = {} THEN orders
               ELSE [orders EXCEPT ![Newest(OpenOrders)] = request[o].ends]
  /\ Goes(o, IF request[o].then = "order" THEN "reset" ELSE "closed")
  /\ UNCHANGED <<meta, versions, latest>>

\* Fault: the meta row is asked for the order and not the order table.
LookInMeta(o) ==
  /\ At(o, "look")
  /\ IF meta.order # 0 THEN Holds(o, "point", meta.order)
     ELSE Holds(o, "insert", Len(orders) + 1)
  /\ UNCHANGED <<meta, orders, versions, latest>>
LookForOrder(o) ==
  /\ At(o, "look")
  /\ IF OpenOrders # {} THEN Holds(o, "point", Newest(OpenOrders))
     ELSE Holds(o, "insert", Len(orders) + 1)
  /\ UNCHANGED <<meta, orders, versions, latest>>

\* uq_release_order_no refuses a number that is taken by now.
InsertOrder(o) ==
  /\ At(o, "insert") /\ request[o].n <= MaxOrder
  /\ IF request[o].n = Len(orders) + 1
     THEN orders' = Append(orders, "open") /\ Goes(o, "point")
     ELSE UNCHANGED orders /\ Fails(o)
  /\ UNCHANGED <<meta, versions, latest>>

PointAtOrder(o) ==
  /\ At(o, "point")
  /\ meta' = [meta EXCEPT !.order = request[o].n]
  /\ Goes(o, IF request[o].then = "version" THEN "number" ELSE "ordered")
  /\ UNCHANGED <<orders, versions, latest>>

ReadNumber(o) ==
  /\ At(o, "number")
  /\ Holds(o, "add", Len(versions) + 1)
  /\ UNCHANGED <<meta, orders, versions, latest>>

\* uq_agent_version refuses a number that is taken by now.
\* Fault: without the constraint.
NumberIsAnyones(n) == TRUE
NumberIsFree(n) == n = Len(versions) + 1
AddVersion(o) ==
  /\ At(o, "add") /\ request[o].n <= MaxVersion
  /\ IF NumberIsFree(request[o].n)
     THEN /\ versions' = [n \in 1 .. request[o].n |->
                            IF n = request[o].n THEN o ELSE versions[n]]
          /\ latest' = "DRAFT"
          /\ Goes(o, "created")
     ELSE UNCHANGED <<versions, latest>> /\ Fails(o)
  /\ UNCHANGED <<meta, orders>>

\* A record is filed under the order the meta row named a transaction ago.
\* The rows of the history are not kept: what matters is what each is filed
\* under, and that is known before it is.
AddHistory(o) ==
  /\ Arrives(o, [Idle EXCEPT !.pc = "record", !.n = meta.order])
  /\ UNCHANGED <<meta, orders, versions, latest>>
FileRecord(o) ==
  /\ At(o, "record")
  /\ Fails(o)
  /\ UNCHANGED <<meta, orders, versions, latest>>

Answer(o) ==
  /\ \E pc \in {"created", "ordered", "closed"} : At(o, pc)
  /\ Fails(o)
  /\ UNCHANGED <<meta, orders, versions, latest>>

\* The server stops, or the client hangs up, between two transactions.
Cut(o) ==
  /\ request[o] # Idle
  /\ Fails(o)
  /\ UNCHANGED <<meta, orders, versions, latest, alone>>

\* Publish, gray, rollback and halt: module Release.
NewestVersionMoves ==
  /\ versions # <<>>
  /\ latest' \in {"GRAY", "ACTIVE", "DISABLED"}
  /\ UNCHANGED <<meta, orders, versions, request, alone>>

Next ==
  \/ \E o \in Operators :
       \/ CreateVersion(o) \/ CreateOrder(o) \/ StartFlow(o)
       \/ TerminateFlow(o) \/ AddHistory(o)
       \/ \E s \in FlowStatus \ {""} : SaveFlowStatus(o, s)
       \/ LookEnded(o) \/ ResetFlow(o) \/ CloseOrder(o)
       \/ LookForOrder(o) \/ InsertOrder(o) \/ PointAtOrder(o)
       \/ ReadNumber(o) \/ AddVersion(o) \/ FileRecord(o)
       \/ Answer(o) \/ Cut(o)
  \/ NewestVersionMoves

Spec == Init /\ [][Next]_vars

-----------------------------------------------------------------------------
(* Properties *)

\* The rows and the requests keep their types.
TypeOK ==
  /\ meta \in Meta
  /\ orders \in Seq({"open", "done", "terminated"}) /\ Len(orders) <= MaxOrder
  /\ versions \in Seq(Operators) /\ Len(versions) <= MaxVersion
  /\ latest \in {"", "DRAFT", "GRAY", "ACTIVE", "DISABLED"}
  /\ request \in [Operators -> Request]
  /\ alone \in BOOLEAN

\* Whoever is told that version n was created finds its own prompt there:
\* create_version reads the highest number and inserts in a later statement,
\* so two requests can read one number.
NumberIsMine ==
  \A o \in Operators : request[o].pc = "created" => versions[request[o].n] = o

\* One request at a time leaves at most one release order open, wherever
\* create_version, create_order, terminate_flow and start_flow were cut.
OneOpenOrder == alone => Cardinality(OpenOrders) <= 1

\* A version or an order that was created, one request at a time, belongs to
\* a running flow whose meta row names the one open order, whatever request
\* was cut before: a flow left half ended is repaired by the next round.
CreatedInOpenOrder ==
  alone => \A o \in Operators : request[o].pc \in {"created", "ordered"} =>
             OpenOrders = {meta.order} /\ ~ meta.terminated

\* A flow that answered it is done, or terminated, has no open order left,
\* one request at a time.
EndedIsClosed ==
  alone => \A o \in Operators : request[o].pc = "closed" => OpenOrders = {}

\* add_flow_history's docstring (service.py:672): a record hangs under the
\* current release order.
RecordUnderOpenOrder ==
  \A o \in Operators : request[o].pc = "record" /\ OpenOrders # {} =>
    request[o].n \in OpenOrders
=============================================================================
