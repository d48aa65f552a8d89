------------------------- MODULE ReleaseFlowProofs -------------------------
(***************************************************************************)
(* Proofs about ReleaseFlow, for any number of operators and any bounds:   *)
(* what a request may rely on between its transactions.                    *)
(***************************************************************************)
EXTENDS ReleaseFlow, FiniteSetTheorems, SequenceTheorems, WellFoundedInduction, TLAPS

Pcs == {"idle", "ended", "reset", "close", "look", "insert", "point",
        "number", "add", "record", "created", "ordered", "closed"}
AnyRequest == [pc : Pcs, then : {"", "version", "order", "flow", "end"},
               ends : {"", "done", "terminated"}, n : Nat]

\* The types, without the bounds: TLC checks those.
Types ==
  /\ meta \in [status : FlowStatus, terminated : BOOLEAN, order : Nat]
  /\ orders \in Seq({"open", "done", "terminated"})
  /\ versions \in Seq(Operators)
  /\ request \in [Operators -> AnyRequest]
  /\ \A o \in Operators : request[o].pc = "close" => request[o].ends # ""
  /\ alone \in BOOLEAN

\* The number a request was given is taken, by its own prompt.
Mine ==
  \A o \in Operators : request[o].pc = "created" =>
    request[o].n \in DOMAIN versions /\ versions[request[o].n] = o

\* What a request alone has reached: past the order it looked up or opened,
\* that order is the open one, and the flow runs.
Pointed == {"number", "add", "created", "ordered"}
Reached(o) ==
  /\ request[o].pc \in {"look", "insert", "point"} \cup Pointed => ~meta.terminated
  /\ request[o].pc = "insert" => OpenOrders = {} /\ request[o].n = Len(orders) + 1
  /\ request[o].pc = "point" => OpenOrders = {request[o].n}
  /\ request[o].pc \in Pointed => OpenOrders = {meta.order}
  /\ request[o].pc = "closed" => OpenOrders = {}
OneRequest == \A o, p \in Operators : request[o] # Idle /\ request[p] # Idle => o = p
OneOpen == \A m, n \in OpenOrders : m = n
AloneInv == alone => OneRequest /\ OneOpen /\ \A o \in Operators : Reached(o)

Inv == Types /\ Mine /\ AloneInv

-----------------------------------------------------------------------------
LEMMA IdlePc == Idle.pc = "idle"
BY DEF Idle

\* Rows are numbered without gaps.
LEMMA Numbers ==
  ASSUME Types
  PROVE  /\ Len(orders) \in Nat /\ DOMAIN orders = 1 .. Len(orders)
         /\ Len(versions) \in Nat /\ DOMAIN versions = 1 .. Len(versions)
         /\ OpenOrders \subseteq 1 .. Len(orders)
<1>1. orders \in Seq({"open", "done", "terminated"}) /\ versions \in Seq(Operators)
  BY DEF Types
<1>2. /\ Len(orders) \in Nat /\ DOMAIN orders = 1 .. Len(orders)
      /\ Len(versions) \in Nat /\ DOMAIN versions = 1 .. Len(versions)
  BY <1>1, LenProperties
<1> QED
  BY <1>2 DEF OpenOrders

LEMMA InitInv == Init => Inv
<1> SUFFICES ASSUME Init PROVE Inv
  OBVIOUS
<1>1. \A o \in Operators : request[o] = Idle /\ request[o].pc = "idle"
  BY DEF Init, Idle
<1>2. Types
  <2>1. orders \in Seq({"open", "done", "terminated"}) /\ versions \in Seq(Operators)
    BY EmptySeq DEF Init
  <2>2. request \in [Operators -> AnyRequest]
    BY DEF Init, AnyRequest, Pcs, Idle
  <2> QED
    BY <1>1, <2>1, <2>2 DEF Init, Types, FlowStatus
<1>3. OpenOrders = {}
  <2>1. orders \in Seq({}) /\ Len(orders) = 0
    BY EmptySeq DEF Init
  <2>2. DOMAIN orders = {}
    BY <2>1, LenProperties
  <2> QED
    BY <2>2 DEF OpenOrders
<1>4. Mine
  BY <1>1 DEF Mine
<1>5. AloneInv
  BY <1>1, <1>3 DEF AloneInv, OneRequest, OneOpen, Reached, Pointed
<1> QED
  BY <1>2, <1>4, <1>5 DEF Inv

\* Of some open orders one is the newest, and of one it is that one.
LEMMA NewestType ==
  ASSUME Types, OpenOrders # {}
  PROVE  Newest(OpenOrders) \in OpenOrders
<1> DEFINE N == Len(orders)
           T == {N - n : n \in OpenOrders}
<1>1. N \in Nat /\ OpenOrders \subseteq 1 .. N
  BY Numbers
<1> HIDE DEF N
<1>2. T \subseteq Nat /\ T # {}
  <2>1. PICK n \in OpenOrders : TRUE
    OBVIOUS
  <2>2. N - n \in T
    BY <2>1
  <2>3. ASSUME NEW t \in T PROVE t \in Nat
    <3>1. PICK m \in OpenOrders : t = N - m
      BY <2>3
    <3>2. m \in Nat /\ m <= N
      BY <1>1
    <3> QED
      BY <1>1, <3>1, <3>2
  <2> QED
    BY <2>2, <2>3
<1>3. PICK t \in T : \A u \in T : <<u, t>> \notin OpToRel(<, Nat)
  BY <1>2, NatLessThanWellFounded, WFMin
<1>4. PICK m \in OpenOrders : t = N - m
  OBVIOUS
<1>5. ASSUME NEW n \in OpenOrders PROVE m >= n
  <2>1. N - n \in T /\ N - n \in Nat /\ t \in Nat
    BY <1>2
  <2>2. ~(N - n < t)
    BY <1>3, <2>1 DEF OpToRel
  <2> QED
    BY <1>1, <1>4, <2>2
<1> QED
  BY <1>5 DEF Newest, Max

\* What a request that arrives stands at.
Ready(r) ==
  /\ r \in AnyRequest /\ r.pc \in {"idle", "ended", "reset", "close", "record"}
  /\ r.pc = "close" => r.ends # ""

\* The arrival of a request that finds the others idle.
LEMMA ArrivalKeeps ==
  ASSUME Inv, NEW o \in Operators, NEW r, Ready(r), Arrives(o, r),
         UNCHANGED <<orders, versions>>,
         meta' \in [status : FlowStatus, terminated : BOOLEAN, order : Nat]
  PROVE  Inv'
<1> USE DEF Ready
<1>1. Types'
  BY DEF Inv, Types, Arrives
<1>2. Mine'
  BY DEF Inv, Types, Mine, Arrives
<1>3. ASSUME alone' PROVE OneRequest' /\ OneOpen' /\ \A p \in Operators : Reached(p)'
  <2>1. OneOpen /\ \A p \in Operators \ {o} : request'[p] = Idle
    BY <1>3 DEF Arrives, Inv, Types, AloneInv
  <2>2. OpenOrders' = OpenOrders
    BY DEF OpenOrders
  <2>3. request'[o].pc \in {"idle", "ended", "reset", "close", "record"}
    BY DEF Arrives, Inv, Types
  <2>4. \A p \in Operators : request'[p].pc \in {"idle", "ended", "reset", "close", "record"}
    BY <2>1, <2>3, IdlePc
  <2>5. \A p \in Operators : Reached(p)'
    BY <2>4 DEF Reached, Pointed
  <2> QED
    BY <2>1, <2>2, <2>5 DEF OneRequest, OneOpen
<1> QED
  BY <1>1, <1>2, <1>3 DEF Inv, AloneInv

\* A step of a request that is alone finds and leaves the others idle.
LEMMA StepKeeps ==
  ASSUME Inv, NEW o \in Operators, request[o] # Idle, Types', Mine', UNCHANGED alone,
         \A p \in Operators \ {o} : request'[p] = request[p],
         alone => OneOpen' /\ Reached(o)'
  PROVE  Inv'
<1>1. ASSUME alone PROVE OneRequest' /\ OneOpen' /\ \A p \in Operators : Reached(p)'
  <2>1. \A p \in Operators \ {o} : request'[p] = Idle
    BY <1>1 DEF Inv, AloneInv, OneRequest
  <2>2. OneOpen' /\ Reached(o)'
    BY <1>1
  <2>3. \A p \in Operators \ {o} : request'[p].pc = "idle"
    BY <2>1, IdlePc
  <2>4. \A p \in Operators \ {o} : Reached(p)'
    BY <2>3 DEF Reached, Pointed
  <2> QED
    BY <2>1, <2>2, <2>4 DEF OneRequest
<1> QED
  BY <1>1 DEF Inv, AloneInv

\* A step that leaves the rows alone and goes on, or is over.
LEMMA QuietKeeps ==
  ASSUME Inv, NEW o \in Operators, request[o] # Idle, UNCHANGED <<meta, orders, versions, alone>>,
         NEW r \in AnyRequest, request' = [request EXCEPT ![o] = r],
         r.pc \notin {"close", "created"},
         alone => (Reached(o) => Reached(o)')
  PROVE  Inv'
<1>1. Types'
  BY DEF Inv, Types
<1>2. Mine'
  BY DEF Inv, Types, Mine
<1>3. OpenOrders' = OpenOrders
  BY DEF OpenOrders
<1> QED
  BY <1>1, <1>2, <1>3, StepKeeps DEF Inv, Types, AloneInv, OneOpen

LEMMA ArriveKeeps ==
  ASSUME Inv, NEW o \in Operators,
         \/ CreateVersion(o) \/ CreateOrder(o) \/ StartFlow(o) \/ TerminateFlow(o)
         \/ AddHistory(o) \/ \E s \in FlowStatus \ {""} : SaveFlowStatus(o, s)
  PROVE  Inv'
<1>0. meta \in [status : FlowStatus, terminated : BOOLEAN, order : Nat]
  BY DEF Inv, Types
<1>1. /\ Ready(Idle)
      /\ Ready([Idle EXCEPT !.pc = "ended", !.then = "version"])
      /\ Ready([Idle EXCEPT !.pc = "close", !.then = "order", !.ends = "terminated"])
      /\ Ready([Idle EXCEPT !.pc = "reset", !.then = "flow"])
      /\ Ready([Idle EXCEPT !.pc = "close", !.then = "end", !.ends = "terminated"])
      /\ Ready([Idle EXCEPT !.pc = "close", !.then = "end", !.ends = "done"])
      /\ Ready([Idle EXCEPT !.pc = "record", !.n = meta.order])
  BY <1>0 DEF Ready, AnyRequest, Pcs, Idle
<1>2. CASE CreateVersion(o)
  BY <1>0, <1>1, <1>2, ArrivalKeeps DEF CreateVersion
<1>3. CASE CreateOrder(o)
  BY <1>0, <1>1, <1>3, ArrivalKeeps DEF CreateOrder
<1>4. CASE StartFlow(o)
  BY <1>0, <1>1, <1>4, ArrivalKeeps DEF StartFlow
<1>5. CASE AddHistory(o)
  BY <1>0, <1>1, <1>5, ArrivalKeeps DEF AddHistory
<1>6. CASE TerminateFlow(o)
  <2>1. meta' \in [status : FlowStatus, terminated : BOOLEAN, order : Nat]
    BY <1>0, <1>6 DEF TerminateFlow, FlowStatus
  <2> QED
    BY <1>1, <1>6, <2>1, ArrivalKeeps DEF TerminateFlow
<1>7. ASSUME NEW s \in FlowStatus, SaveFlowStatus(o, s) PROVE Inv'
  <2>1. meta' \in [status : FlowStatus, terminated : BOOLEAN, order : Nat]
    BY <1>0, <1>7 DEF SaveFlowStatus
  <2> QED
    BY <1>1, <1>7, <2>1, ArrivalKeeps DEF SaveFlowStatus
<1> QED
  BY <1>2, <1>3, <1>4, <1>5, <1>6, <1>7

\* What a step that goes on, with the number it has, does to its request.
LEMMA GoesOn ==
  ASSUME Inv, NEW o \in Operators, NEW pc \in Pcs, Goes(o, pc)
  PROVE  /\ request'[o] \in AnyRequest
         /\ request' = [request EXCEPT ![o] = request'[o]]
         /\ request'[o].pc = pc /\ request'[o].n = request[o].n
         /\ \A p \in Operators \ {o} : request'[p] = request[p]
BY DEF Inv, Types, AnyRequest, Goes

\* And of one that has read a number.
LEMMA HoldsOn ==
  ASSUME Inv, NEW o \in Operators, NEW pc \in Pcs, NEW n \in Nat, Holds(o, pc, n)
  PROVE  /\ request'[o] \in AnyRequest
         /\ request' = [request EXCEPT ![o] = request'[o]]
         /\ request'[o].pc = pc /\ request'[o].n = n
         /\ \A p \in Operators \ {o} : request'[p] = request[p]
BY DEF Inv, Types, AnyRequest, Holds

LEMMA LookKeeps ==
  ASSUME Inv, NEW o \in Operators, LookEnded(o) \/ LookForOrder(o) \/ ReadNumber(o)
  PROVE  Inv'
<1>0. request[o] # Idle /\ request[o].pc # "idle"
  BY IdlePc DEF LookEnded, LookForOrder, ReadNumber, At
<1>1. CASE LookEnded(o)
  <2>1. PICK pc \in {"reset", "look"} : Goes(o, pc) /\ (pc = "look" => ~meta.terminated)
    BY <1>1 DEF LookEnded, FlowEnded
  <2>2. pc \in Pcs
    BY DEF Pcs
  <2>3. Reached(o)'
    BY <1>1, <2>1, <2>2, GoesOn DEF Reached, Pointed, LookEnded
  <2> QED
    <3>1. UNCHANGED <<meta, orders, versions, alone>>
      BY <1>1 DEF LookEnded, At
    <3> QED
      BY <1>0, <2>1, <2>3, <3>1, <2>2, GoesOn, QuietKeeps
<1>2. CASE LookForOrder(o)
  <2>0. "point" \in Pcs /\ "insert" \in Pcs
    BY DEF Pcs
  <2>1. Len(orders) + 1 \in Nat
    BY Numbers DEF Inv
  <2>2. OpenOrders # {} => Newest(OpenOrders) \in OpenOrders /\ Newest(OpenOrders) \in Nat
    BY NewestType, Numbers DEF Inv
  <2>3. PICK pc \in {"point", "insert"}, n \in Nat :
          /\ Holds(o, pc, n)
          /\ pc = "point" => n \in OpenOrders
          /\ pc = "insert" => OpenOrders = {} /\ n = Len(orders) + 1
    BY <1>2, <2>1, <2>2 DEF LookForOrder
  <2>4. ASSUME alone, Reached(o) PROVE Reached(o)'
    <3>1. OneOpen /\ ~meta.terminated
      BY <1>2, <2>4 DEF Inv, AloneInv, LookForOrder, At, Reached
    <3>2. OpenOrders' = OpenOrders /\ UNCHANGED meta
      BY <1>2 DEF OpenOrders, LookForOrder
    <3>3. request'[o].pc = pc /\ request'[o].n = n
      BY <2>0, <2>3, HoldsOn
    <3> QED
      BY <1>2, <2>3, <3>1, <3>2, <3>3 DEF Reached, Pointed, OneOpen, LookForOrder
  <2> QED
    <3>1. UNCHANGED <<meta, orders, versions, alone>>
      BY <1>2 DEF LookForOrder, At
    <3> QED
      BY <1>0, <2>3, <2>4, <3>1, <2>0, HoldsOn, QuietKeeps
<1>3. CASE ReadNumber(o)
  <2>0. "add" \in Pcs
    BY DEF Pcs
  <2>1. Len(versions) + 1 \in Nat
    BY Numbers DEF Inv
  <2>2. Holds(o, "add", Len(versions) + 1)
    BY <1>3 DEF ReadNumber
  <2>3. ASSUME Reached(o) PROVE Reached(o)'
    <3>1. request'[o].pc = "add" /\ request[o].pc = "number" /\ UNCHANGED <<meta, orders>>
      BY <1>3, <2>0, <2>1, <2>2, HoldsOn DEF ReadNumber, At
    <3> QED
      BY <2>3, <3>1 DEF Reached, Pointed, OpenOrders
  <2> QED
    <3>1. UNCHANGED <<meta, orders, versions, alone>>
      BY <1>3 DEF ReadNumber, At
    <3> QED
      BY <1>0, <2>3, <3>1, <2>0, <2>1, <2>2, HoldsOn, QuietKeeps
<1> QED
  BY <1>1, <1>2, <1>3

\* A request that is over leaves the rows as they are.
LEMMA OverKeeps ==
  ASSUME Inv, NEW o \in Operators, FileRecord(o) \/ Answer(o) \/ Cut(o)
  PROVE  Inv'
<1>1. request[o] # Idle /\ Fails(o) /\ UNCHANGED <<meta, orders, versions, alone>>
  BY IdlePc DEF FileRecord, Answer, Cut, At
<1>2. Idle \in AnyRequest
  BY DEF AnyRequest, Pcs, Idle
<1>3. request' = [request EXCEPT ![o] = Idle] /\ request'[o].pc = "idle"
  BY <1>1, IdlePc DEF Fails, Inv, Types
<1>4. Reached(o)'
  BY <1>3 DEF Reached, Pointed
<1> QED
  BY <1>1, <1>2, <1>3, <1>4, IdlePc, QuietKeeps

LEMMA ResetKeeps == ASSUME Inv, NEW o \in Operators, ResetFlow(o) PROVE Inv'
<1>0. request[o] # Idle /\ UNCHANGED <<orders, versions, alone>>
  BY IdlePc DEF ResetFlow, At
<1>1. PICK r \in AnyRequest : r.pc \in {"idle", "look"} /\ request' = [request EXCEPT ![o] = r]
  <2>1. CASE request[o].then = "flow"
    <3>1. Idle \in AnyRequest
      BY DEF AnyRequest, Pcs, Idle
    <3> QED
      BY <2>1, <3>1, IdlePc DEF ResetFlow, Fails
  <2>2. CASE request[o].then # "flow"
    <3>1. "look" \in Pcs /\ Goes(o, "look")
      BY <2>2 DEF ResetFlow, Pcs
    <3>2. request' = [request EXCEPT ![o] = request'[o]] /\ request'[o] \in AnyRequest
      BY <3>1, GoesOn
    <3> QED
      BY <3>1, <3>2, GoesOn
  <2> QED
    BY <2>1, <2>2
<1>2. request'[o] = r /\ \A p \in Operators \ {o} : request'[p] = request[p]
  BY <1>1 DEF Inv, Types
<1>3. Types'
  BY <1>0, <1>1, <1>2 DEF Inv, Types, ResetFlow, FlowStatus
<1>4. Mine'
  BY <1>0, <1>1, <1>2 DEF Inv, Mine
<1>5. OpenOrders' = OpenOrders
  BY <1>0 DEF OpenOrders
<1>6. Reached(o)'
  BY <1>1, <1>2 DEF Reached, Pointed, ResetFlow
<1> QED
  BY <1>0, <1>2, <1>3, <1>4, <1>5, <1>6, StepKeeps DEF Inv, AloneInv, OneOpen

\* Of one open order, none is left when the newest is closed.
LEMMA CloseKeeps == ASSUME Inv, NEW o \in Operators, CloseOrder(o) PROVE Inv'
<1>0. /\ request[o] # Idle /\ UNCHANGED <<meta, versions, alone>>
      /\ request[o].ends \in {"done", "terminated"}
  BY IdlePc DEF CloseOrder, At, Inv, Types, AnyRequest
<1>1. PICK pc \in {"reset", "closed"} : Goes(o, pc)
  BY DEF CloseOrder
<1>2. /\ request'[o] \in AnyRequest /\ request'[o].pc = pc
      /\ \A p \in Operators \ {o} : request'[p] = request[p]
      /\ request' = [request EXCEPT ![o] = request'[o]]
  BY <1>1, GoesOn DEF Pcs
<1>3. /\ orders' \in Seq({"open", "done", "terminated"}) /\ Len(orders') = Len(orders)
      /\ OpenOrders' = OpenOrders \ {Newest(OpenOrders)}
  <2>1. CASE OpenOrders = {}
    BY <2>1 DEF CloseOrder, Inv, Types, OpenOrders
  <2>2. CASE OpenOrders # {}
    <3>1. Newest(OpenOrders) \in DOMAIN orders
      BY <2>2, NewestType, Numbers DEF Inv
    <3>2. orders' = [orders EXCEPT ![Newest(OpenOrders)] = request[o].ends]
      BY <2>2 DEF CloseOrder
    <3>3. orders' \in Seq({"open", "done", "terminated"}) /\ Len(orders') = Len(orders)
      <4> DEFINE S == {"open", "done", "terminated"}
      <4>1. orders \in Seq(S) /\ request[o].ends \in S /\ Newest(OpenOrders) \in 1 .. Len(orders)
        BY <1>0, <3>1, Numbers DEF Inv, Types
      <4> HIDE DEF S
      <4>2. orders' \in Seq(S) /\ Len(orders') = Len(orders)
        BY <3>2, <4>1, ExceptSeq
      <4> QED
        BY <4>2 DEF S
    <3>4. DOMAIN orders' = DOMAIN orders
      BY <3>2
    <3>5. \A n \in DOMAIN orders : orders'[n] =
            IF n = Newest(OpenOrders) THEN request[o].ends ELSE orders[n]
      BY <3>1, <3>2
    <3> HIDE DEF Newest
    <3>6. OpenOrders' = OpenOrders \ {Newest(OpenOrders)}
      BY <1>0, <3>4, <3>5 DEF OpenOrders
    <3> QED
      BY <3>3, <3>6
  <2> QED
    BY <2>1, <2>2
<1>4. Types'
  BY <1>0, <1>1, <1>2, <1>3 DEF Inv, Types
<1>5. Mine'
  BY <1>0, <1>1, <1>2 DEF Inv, Mine
<1>6. ASSUME alone PROVE OneOpen' /\ Reached(o)'
  <2>1. OpenOrders # {} => Newest(OpenOrders) \in OpenOrders
    BY NewestType DEF Inv
  <2>2. OpenOrders' = {}
    BY <1>3, <1>6, <2>1 DEF Inv, AloneInv, OneOpen
  <2> QED
    BY <1>1, <1>2, <2>2 DEF Reached, Pointed, OneOpen
<1> QED
  BY <1>0, <1>2, <1>4, <1>5, <1>6, StepKeeps

LEMMA InsertKeeps == ASSUME Inv, NEW o \in Operators, InsertOrder(o) PROVE Inv'
<1>0. request[o] # Idle /\ UNCHANGED <<meta, versions, alone>>
  BY IdlePc DEF InsertOrder, At
<1>1. CASE request[o].n = Len(orders) + 1
  <2>1. "point" \in Pcs /\ Goes(o, "point") /\ orders' = Append(orders, "open")
    BY <1>1 DEF InsertOrder, Pcs
  <2>2. /\ request'[o] \in AnyRequest /\ request'[o].pc = "point" /\ request'[o].n = request[o].n
        /\ request' = [request EXCEPT ![o] = request'[o]]
        /\ \A p \in Operators \ {o} : request'[p] = request[p]
    BY <2>1, GoesOn
  <2>3. /\ orders' \in Seq({"open", "done", "terminated"}) /\ Len(orders') = Len(orders) + 1
        /\ orders'[Len(orders) + 1] = "open"
        /\ \A n \in 1 .. Len(orders) : orders'[n] = orders[n]
    <3> DEFINE S == {"open", "done", "terminated"}
    <3>1. orders \in Seq(S) /\ "open" \in S
      BY DEF Inv, Types
    <3> HIDE DEF S
    <3>2. /\ orders' \in Seq(S) /\ Len(orders') = Len(orders) + 1
          /\ orders'[Len(orders) + 1] = "open"
          /\ \A n \in 1 .. Len(orders) : orders'[n] = orders[n]
      BY <2>1, <3>1, AppendProperties
    <3> QED
      BY <3>2 DEF S
  <2>4. Types'
    BY <1>0, <2>2, <2>3 DEF Inv, Types
  <2>5. Mine'
    BY <1>0, <2>2 DEF Inv, Mine
  <2>6. OpenOrders' = OpenOrders \cup {Len(orders) + 1}
    <3>1. DOMAIN orders = 1 .. Len(orders) /\ Len(orders) \in Nat
      BY Numbers DEF Inv
    <3>2. DOMAIN orders' = 1 .. Len(orders) + 1
      BY <2>3, LenProperties
    <3>3. DOMAIN orders' = DOMAIN orders \cup {Len(orders) + 1}
      BY <3>1, <3>2
    <3> QED
      BY <2>3, <3>1, <3>3 DEF OpenOrders
  <2>7. ASSUME alone PROVE OneOpen' /\ Reached(o)'
    <3>1. OpenOrders = {} /\ ~meta.terminated
      BY <2>7 DEF Inv, AloneInv, Reached, InsertOrder, At
    <3>2. OpenOrders' = {request'[o].n}
      BY <1>1, <2>2, <2>6, <3>1
    <3> QED
      BY <1>0, <2>2, <3>1, <3>2 DEF Reached, Pointed, OneOpen
  <2> QED
    BY <1>0, <2>2, <2>4, <2>5, <2>7, StepKeeps
<1>2. CASE request[o].n # Len(orders) + 1
  <2>1. Cut(o)
    BY <1>0, <1>2 DEF Cut, InsertOrder
  <2> QED
    BY <2>1, OverKeeps
<1> QED
  BY <1>1, <1>2

LEMMA PointKeeps == ASSUME Inv, NEW o \in Operators, PointAtOrder(o) PROVE Inv'
<1>0. request[o] # Idle /\ UNCHANGED <<orders, versions, alone>>
  BY IdlePc DEF PointAtOrder, At
<1>1. PICK pc \in {"number", "ordered"} : Goes(o, pc)
  BY DEF PointAtOrder
<1>2. /\ request'[o] \in AnyRequest /\ request'[o].pc = pc
      /\ \A p \in Operators \ {o} : request'[p] = request[p]
      /\ request' = [request EXCEPT ![o] = request'[o]]
  BY <1>1, GoesOn DEF Pcs
<1>3. meta' = [meta EXCEPT !.order = request[o].n] /\ request[o].n \in Nat
  BY DEF PointAtOrder, Inv, Types, AnyRequest
<1>4. meta'.order = request[o].n /\ meta'.terminated = meta.terminated
  BY <1>3 DEF Inv, Types
<1>5. Types'
  BY <1>0, <1>1, <1>2, <1>3 DEF Inv, Types
<1>6. Mine'
  BY <1>0, <1>1, <1>2 DEF Inv, Mine
<1>7. OpenOrders' = OpenOrders
  BY <1>0 DEF OpenOrders
<1>8. ASSUME alone PROVE OneOpen' /\ Reached(o)'
  <2>1. OneOpen /\ OpenOrders = {request[o].n} /\ ~meta.terminated
    BY <1>8 DEF Inv, AloneInv, Reached, PointAtOrder, At
  <2> QED
    BY <1>1, <1>2, <1>4, <1>7, <2>1 DEF Reached, Pointed, OneOpen
<1> QED
  BY <1>0, <1>2, <1>5, <1>6, <1>8, StepKeeps

LEMMA AddKeeps == ASSUME Inv, NEW o \in Operators, AddVersion(o) PROVE Inv'
<1>0. request[o] # Idle /\ UNCHANGED <<meta, orders, alone>>
  BY IdlePc DEF AddVersion, At
<1>1. CASE request[o].n = Len(versions) + 1
  <2> DEFINE N == Len(versions) + 1
  <2>1. /\ versions' = [n \in 1 .. N |-> IF n = N THEN o ELSE versions[n]]
        /\ "created" \in Pcs /\ Goes(o, "created")
    BY <1>1 DEF AddVersion, NumberIsFree, Pcs
  <2>2. /\ request'[o] \in AnyRequest /\ request'[o].pc = "created" /\ request'[o].n = N
        /\ request' = [request EXCEPT ![o] = request'[o]]
        /\ \A p \in Operators \ {o} : request'[p] = request[p]
    BY <1>1, <2>1, GoesOn
  <2>3. Len(versions) \in Nat /\ DOMAIN versions = 1 .. Len(versions)
    BY Numbers DEF Inv
  <2>4. versions' \in Seq(Operators)
    <3>1. \A n \in 1 .. Len(versions) : versions[n] \in Operators
      BY <2>3, ElementOfSeq DEF Inv, Types
    <3>2. \A n \in 1 .. N : versions'[n] \in Operators
      BY <2>1, <2>3, <3>1
    <3>3. N \in Nat /\ versions' \in [1 .. N -> Operators]
      BY <2>1, <2>3, <3>2
    <3> HIDE DEF N
    <3> QED
      BY <3>3, IsASeq
  <2>5. Types'
    BY <1>0, <2>2, <2>4 DEF Inv, Types
  <2>6. Mine'
    BY <2>1, <2>2, <2>3 DEF Inv, Mine
  <2>7. OpenOrders' = OpenOrders
    BY <1>0 DEF OpenOrders
  <2>8. ASSUME alone PROVE OneOpen' /\ Reached(o)'
    <3>1. OneOpen /\ OpenOrders = {meta.order} /\ ~meta.terminated
      BY <2>8 DEF Inv, AloneInv, Reached, Pointed, AddVersion, At
    <3> QED
      BY <1>0, <2>2, <2>7, <3>1 DEF Reached, Pointed, OneOpen
  <2> QED
    BY <1>0, <2>2, <2>5, <2>6, <2>8, StepKeeps
<1>2. CASE request[o].n # Len(versions) + 1
  <2>1. Cut(o)
    BY <1>0, <1>2 DEF Cut, AddVersion, NumberIsFree
  <2> QED
    BY <2>1, OverKeeps
<1> QED
  BY <1>1, <1>2

LEMMA NextKeeps == Inv /\ [Next]_vars => Inv'
<1> SUFFICES ASSUME Inv, [Next]_vars PROVE Inv'
  OBVIOUS
<1>1. CASE NewestVersionMoves \/ UNCHANGED vars
  <2>1. UNCHANGED <<meta, orders, versions, request, alone>>
    BY <1>1 DEF NewestVersionMoves, vars
  <2>2. OpenOrders' = OpenOrders
    BY <2>1 DEF OpenOrders
  <2> QED
    BY <2>1, <2>2 DEF Inv, Types, Mine, AloneInv, OneRequest, OneOpen, Reached
<1> QED
  BY <1>1, ArriveKeeps, LookKeeps, OverKeeps, ResetKeeps, CloseKeeps, InsertKeeps,
     PointKeeps, AddKeeps DEF Next

LEMMA Always == Spec => []Inv
BY InitInv, NextKeeps, PTL DEF Spec

-----------------------------------------------------------------------------
\* Whoever is told the number of its version finds its own prompt there,
\* however many create one at once and wherever one is cut.
THEOREM NumberAlwaysMine == Spec => []NumberIsMine
<1>1. Inv => NumberIsMine
  BY DEF Inv, Mine, NumberIsMine
<1> QED
  BY <1>1, Always, PTL

\* One request at a time leaves at most one release order open.
THEOREM OneOrderAlwaysOpen == Spec => []OneOpenOrder
<1>1. ASSUME Inv, alone PROVE Cardinality(OpenOrders) <= 1
  <2>1. OpenOrders = {} \/ \E n \in OpenOrders : OpenOrders = {n}
    BY <1>1 DEF Inv, AloneInv, OneOpen
  <2>2. Cardinality(OpenOrders) \in {0, 1}
    BY <2>1, FS_EmptySet, FS_Singleton
  <2> QED
    BY <2>2
<1>2. Inv => OneOpenOrder
  BY <1>1 DEF OneOpenOrder
<1> QED
  BY <1>2, Always, PTL

\* What one request at a time creates belongs to a running flow, under the one
\* open order, whatever request was cut before.
THEOREM AlwaysCreatedInOpenOrder == Spec => []CreatedInOpenOrder
<1>1. ASSUME Inv, alone, NEW o \in Operators, request[o].pc \in {"created", "ordered"}
      PROVE  OpenOrders = {meta.order} /\ ~meta.terminated
  BY <1>1 DEF Inv, AloneInv, Reached, Pointed
<1>2. Inv => CreatedInOpenOrder
  BY <1>1 DEF CreatedInOpenOrder
<1> QED
  BY <1>2, Always, PTL

\* A flow that answered it is done, or terminated, has no open order left,
\* one request at a time.
THEOREM EndedAlwaysClosed == Spec => []EndedIsClosed
<1>1. Inv => EndedIsClosed
  BY DEF Inv, AloneInv, Reached, EndedIsClosed
<1> QED
  BY <1>1, Always, PTL
=============================================================================
