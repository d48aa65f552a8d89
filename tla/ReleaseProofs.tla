--------------------------- MODULE ReleaseProofs ---------------------------
(***************************************************************************)
(* Proofs about Release, for any number of operators' requests, versions   *)
(* and pass rates.                                                         *)
(***************************************************************************)
EXTENDS Release, FiniteSetTheorems, SequenceTheorems, TLAPS

\* What the position of a request says: the version it is about exists, a due
\* gate is passed, and past the check for a terminated flow the flow has not
\* been terminated ever since it came.
Named == {"gate", "check", "publish", "publishing", "gray", "halt", "rolling"}
Gated == {"check", "publish", "publishing"}
Past == {"publish", "publishing", "gray", "halt", "fallback", "rollback", "rolling"}
InPlace(r, numbers, over) ==
  /\ r.pc \in Named => r.v \in numbers
  /\ r.pc \in Gated /\ r.due => r.passed
  /\ r.pc \in Past => ~ r.late
  /\ r.late => over
TypeInv == TypeOK /\ \A o \in Operators : InPlace(request[o], Versions, terminated)

\* A promise has an ACTIVE version.
ServiceInv == promised => In({"ACTIVE"}) # {}

-----------------------------------------------------------------------------
\* The rows are a function on the numbers of the versions.
LEMMA RowsType ==
  ASSUME TypeOK
  PROVE  /\ Len(version) \in Nat /\ Versions = 1 .. Len(version) /\ Versions \subseteq 1 .. MaxVersion
         /\ version \in [Versions -> Version]
<1>1. version \in Seq(Version) /\ Len(version) <= MaxVersion
  BY DEF TypeOK
<1>2. Len(version) \in Nat /\ version \in [1 .. Len(version) -> Version] /\ DOMAIN version = 1 .. Len(version)
  BY <1>1, LenProperties
<1> QED
  BY <1>1, <1>2, ReleaseAssumption DEF Versions

\* A step that rewrites rows keeps their number.
LEMMA RewriteType ==
  ASSUME TypeOK, version' \in [Versions -> Version]
  PROVE  /\ version' \in Seq(Version) /\ Len(version') <= MaxVersion
         /\ Versions' = Versions
<1>1. version' \in [1 .. Len(version) -> Version] /\ Len(version) \in Nat /\ Len(version) <= MaxVersion
  BY RowsType DEF TypeOK
<1>2. version' \in Seq(Version)
  BY <1>1, SeqDef
<1>3. DOMAIN version' = 1 .. Len(version') /\ Len(version') \in Nat
  BY <1>2, LenProperties
<1>4. DOMAIN version' = 1 .. Len(version)
  BY <1>1
<1>5. Len(version') = Len(version)
  BY <1>1, <1>3, <1>4
<1> QED
  BY <1>1, <1>2, <1>5, RowsType, <1>4 DEF Versions

\* Of some versions one is the newest, and it is one of them.
LEMMA NewestType ==
  ASSUME NEW N \in Nat, NEW S, S \subseteq 1 .. N, S # {}
  PROVE  Max(S) \in S
<1> DEFINE T == {N - n : n \in S}
<1>1. T \subseteq Nat /\ T # {}
  <2>1. \A n \in S : N - n \in Nat
    OBVIOUS
  <2> QED
    BY <2>1
<1>2. PICK t \in T : \A u \in T : <<u, t>> \notin OpToRel(<, Nat)
  BY <1>1, NatLessThanWellFounded, WFMin
<1>3. PICK m \in S : t = N - m
  OBVIOUS
<1>4. ASSUME NEW n \in S PROVE m >= n
  <2>1. N - n \in T /\ N - n \in Nat /\ t \in Nat
    BY <1>1
  <2>2. ~(N - n < t)
    BY <1>2, <2>1 DEF OpToRel
  <2>3. n \in Int /\ m \in Int
    OBVIOUS
  <2> QED
    BY <1>3, <2>2, <2>3
<1> QED
  BY <1>4 DEF Max

\* Of the versions with some status the newest has that status.
LEMMA NewestIn ==
  ASSUME TypeOK, NEW S, S \subseteq Versions, S # {}
  PROVE  Max(S) \in S /\ Max(S) \in 1 .. MaxVersion
BY RowsType, NewestType

LEMMA IdleType ==
  /\ Idle \in Request /\ Idle.pc = "idle"
  /\ \A numbers, over : InPlace(Idle, numbers, over)
BY ReleaseAssumption DEF Idle, Request, InPlace, Named, Gated, Past

\* What keeps the types when one request moves to r, or stays.
LEMMA MoveKeeps ==
  ASSUME TypeInv, NEW o \in Operators, NEW r \in Request, InPlace(r, Versions', terminated'),
         request' = [request EXCEPT ![o] = r],
         version' \in Seq(Version), Len(version') <= MaxVersion, Versions \subseteq Versions',
         hasCases' \in BOOLEAN, promised' \in BOOLEAN, terminated' = terminated
  PROVE  TypeInv'
<1>1. TypeOK'
  BY DEF TypeInv, TypeOK
<1>2. ASSUME NEW p \in Operators PROVE InPlace(request'[p], Versions', terminated')
  <2>1. CASE p = o
    BY <2>1 DEF TypeInv, TypeOK
  <2>2. CASE p # o
    <3>1. request'[p] = request[p] /\ InPlace(request[p], Versions, terminated)
      BY <2>2 DEF TypeInv, TypeOK
    <3> QED
      BY <3>1 DEF InPlace
  <2> QED
    BY <2>1, <2>2
<1> QED
  BY <1>1, <1>2 DEF TypeInv

\* The same where the rows and the rest stay.
LEMMA RequestMoves ==
  ASSUME TypeInv, NEW o \in Operators, NEW r \in Request, InPlace(r, Versions, terminated),
         request' = [request EXCEPT ![o] = r],
         UNCHANGED <<version, hasCases, terminated, promised>>
  PROVE  TypeInv'
<1>1. Versions' = Versions
  BY DEF Versions
<1> QED
  BY <1>1, MoveKeeps DEF TypeInv, TypeOK

\* A request arrives where Arrives puts it.
LEMMA ArrivalType ==
  ASSUME TypeInv, NEW o \in Operators, NEW pc \in {"gate", "check", "gray", "halt", "rollback"},
         NEW v \in 0 .. MaxVersion, NEW asked \in {"", "force", "default", "canary"},
         Arrives(o, pc, v, asked), pc # "rollback" => v \in Versions,
         pc \in {"gray", "halt", "rollback"} => ~ terminated,
         pc = "check" => ~ hasCases,
         UNCHANGED <<version, hasCases, terminated, promised>>
  PROVE  TypeInv'
<1> DEFINE due == hasCases /\ pc \in {"gate", "check"}
           r == [Idle EXCEPT !.pc = pc, !.v = v, !.asked = asked, !.due = due, !.late = terminated]
<1>1. request' = [request EXCEPT ![o] = r]
  BY DEF Arrives
<1>2. hasCases \in BOOLEAN /\ terminated \in BOOLEAN
  BY DEF TypeInv, TypeOK
<1>3. r \in Request /\ r.pc = pc /\ r.v = v /\ r.due = due /\ r.late = terminated
  <2>1. due \in BOOLEAN
    BY <1>2
  <2> HIDE DEF due
  <2> QED
    BY <1>2, <2>1, IdleType DEF Request
<1>4. InPlace(r, Versions, terminated)
  BY <1>2, <1>3 DEF InPlace, Named, Gated, Past
<1> HIDE DEF r
<1> QED
  BY <1>1, <1>3, <1>4, RequestMoves

\* A request of which only some fields move on.
LEMMA EndType ==
  ASSUME TypeInv, NEW o \in Operators, Ends(o), UNCHANGED <<version, hasCases, terminated, promised>>
  PROVE  TypeInv'
BY IdleType, RequestMoves DEF Ends

-----------------------------------------------------------------------------
\* What a step that sets one status, or makes a version the ACTIVE one, writes.
LEMMA SetStatusEffect ==
  ASSUME TypeOK, NEW v \in Versions, NEW s \in Status, SetStatus(v, s)
  PROVE  /\ version' \in [Versions -> Version]
         /\ \A u \in Versions : version'[u].status = IF u = v THEN s ELSE version[u].status
<1>1. version \in [Versions -> Version]
  BY RowsType
<1> QED
  BY <1>1 DEF SetStatus, Version

LEMMA MakeActiveEffect ==
  ASSUME TypeOK, NEW v \in Versions, NEW active \in BOOLEAN, NEW others, MakeActive(v, active, others)
  PROVE  /\ version' \in [Versions -> Version]
         /\ \A u \in Versions \ {v} :
              version'[u].status = IF u \in others THEN "DISABLED" ELSE version[u].status
         /\ version'[v].status = IF active THEN version[v].status ELSE "ACTIVE"
<1>1. version \in [Versions -> Version]
  BY RowsType
<1>2. \A u \in Versions : /\ version[u] \in Version
                         /\ \A s \in Status : /\ [version[u] EXCEPT !.status = s] \in Version
                                             /\ [version[u] EXCEPT !.status = s].status = s
  BY <1>1 DEF Version
<1>3. \A u \in Versions : version[u].status \in Status
  BY <1>1 DEF Version
<1> QED
  BY <1>2, <1>3 DEF MakeActive, Status

-----------------------------------------------------------------------------
\* A pass rate is a rank, the best one where there are no cases.
LEMMA RatesType == Rates \subseteq PassRates
<1>1. PICK best \in PassRates : \A rate \in PassRates : rate <= best
  BY ReleaseAssumption
<1>2. PassRates \subseteq Nat
  BY ReleaseAssumption
<1>3. \A rate \in PassRates : best >= rate
  BY <1>1, <1>2
<1>4. Max(PassRates) \in PassRates
  BY <1>3 DEF Max
<1> QED
  BY <1>4 DEF Rates

\* A record of a pass rate, or of the metrics, leaves every status.
LEMMA RecordEffect ==
  ASSUME TypeOK, NEW v \in Versions,
         (\E rate \in Rates : version' = [version EXCEPT ![v].rate = rate])
           \/ (\E b \in BOOLEAN : version' = [version EXCEPT ![v].sick = b])
  PROVE  /\ version' \in [Versions -> Version]
         /\ \A u \in Versions : version'[u].status = version[u].status
<1>1. version \in [Versions -> Version]
  BY RowsType
<1>2. CASE \E rate \in Rates : version' = [version EXCEPT ![v].rate = rate]
  BY <1>1, <1>2, RatesType DEF Version
<1>3. CASE \E b \in BOOLEAN : version' = [version EXCEPT ![v].sick = b]
  BY <1>1, <1>3 DEF Version
<1> QED
  BY <1>2, <1>3

\* The version that a request is about at these positions exists.
LEMMA NamedVersion ==
  ASSUME TypeInv, NEW o \in Operators, request[o].pc \in Named
  PROVE  request[o].v \in Versions
BY DEF TypeInv, InPlace

LEMMA InitType == Init => TypeInv
<1> SUFFICES ASSUME Init PROVE TypeInv
  OBVIOUS
<1>1. version \in Seq(Version) /\ Len(version) <= MaxVersion
  <2>1. <<>> \in Seq(Version) /\ Len(<<>>) = 0
    BY EmptySeq
  <2> QED
    BY <2>1, ReleaseAssumption DEF Init
<1>2. request \in [Operators -> Request]
  BY IdleType DEF Init
<1>3. TypeOK
  BY <1>1, <1>2 DEF Init, TypeOK
<1>4. \A o \in Operators : InPlace(request[o], Versions, terminated)
  BY IdleType DEF Init
<1> QED
  BY <1>3, <1>4 DEF TypeInv

\* Steps that are no request's own.
LEMMA WorldType ==
  ASSUME TypeInv,
         \/ CreateVersion \/ Terminate \/ AddCase \/ UNCHANGED vars
         \/ \E v \in Versions : ServeGray(v) \/ \E rate \in Rates : Evaluate(v, rate)
  PROVE  TypeInv'
<1>1. CASE CreateVersion
  <2>1. Draft \in Version
    BY DEF Draft, Version, Status
  <2>2. version \in Seq(Version) /\ Len(version) \in Nat /\ Versions = 1 .. Len(version)
    BY RowsType DEF TypeInv, TypeOK
  <2>3. version' \in Seq(Version) /\ Len(version') = Len(version) + 1
    BY <1>1, <2>1, <2>2 DEF CreateVersion
  <2>4. Versions' = 1 .. Len(version')
    BY <2>3, LenProperties DEF Versions
  <2>5. Versions \subseteq Versions'
    BY <2>2, <2>3, <2>4
  <2>6. \A o \in Operators : request'[o] = [request[o] EXCEPT !.late = FALSE] /\ request[o] \in Request
    BY <1>1 DEF CreateVersion, TypeInv, TypeOK
  <2>7. \A r \in Request : /\ [r EXCEPT !.late = FALSE] \in Request
                           /\ \A over : InPlace(r, Versions, over)
                                => InPlace([r EXCEPT !.late = FALSE], Versions', FALSE)
    BY <2>5 DEF Request, InPlace
  <2>8. request' \in [Operators -> Request] /\ terminated' = FALSE
    BY <1>1, <2>6, <2>7 DEF CreateVersion
  <2>9. \A o \in Operators : InPlace(request'[o], Versions', terminated')
    BY <2>6, <2>7, <2>8 DEF TypeInv
  <2>10. Len(version') <= MaxVersion
    BY <1>1, <2>2, <2>3, ReleaseAssumption DEF CreateVersion
  <2> QED
    BY <1>1, <2>3, <2>8, <2>9, <2>10 DEF CreateVersion, TypeInv, TypeOK
<1>2. CASE Terminate
  BY <1>2 DEF Terminate, TypeInv, TypeOK, InPlace, Versions
<1>3. CASE AddCase \/ UNCHANGED vars
  BY <1>3 DEF AddCase, vars, TypeInv, TypeOK, InPlace, Versions
<1>4. ASSUME NEW v \in Versions, ServeGray(v) \/ \E rate \in Rates : Evaluate(v, rate)
      PROVE  TypeInv'
  <2>1. version' \in [Versions -> Version]
    BY <1>4, RecordEffect DEF ServeGray, Evaluate, TypeInv
  <2>2. version' \in Seq(Version) /\ Len(version') <= MaxVersion /\ Versions' = Versions
    BY <2>1, RewriteType DEF TypeInv
  <2> QED
    BY <1>4, <2>2 DEF ServeGray, Evaluate, TypeInv, TypeOK
<1> QED
  BY <1>1, <1>2, <1>3, <1>4

\* A request that commits and is over.
LEMMA CommitType ==
  ASSUME TypeInv, NEW o \in Operators, Ends(o), version' \in [Versions -> Version],
         promised' \in BOOLEAN, UNCHANGED <<hasCases, terminated>>
  PROVE  TypeInv'
BY RewriteType, IdleType, MoveKeeps DEF Ends, TypeInv, TypeOK

LEMMA ArriveType ==
  ASSUME TypeInv, NEW o \in Operators,
         \/ \E v \in Versions :
              \/ \E e, f \in BOOLEAN : PublishRequest(o, v, e, f)
              \/ GrayRequest(o, v) \/ HaltRequest(o, v) \/ Canary(o, v)
         \/ \E v \in Versions \cup {0} : RollbackRequest(o, v)
  PROVE  TypeInv'
<1>1. Versions \subseteq 0 .. MaxVersion /\ 0 \in 0 .. MaxVersion
  BY RowsType, ReleaseAssumption DEF TypeInv
<1>2. ASSUME NEW v \in Versions, NEW e \in BOOLEAN, NEW f \in BOOLEAN, PublishRequest(o, v, e, f)
      PROVE  TypeInv'
  <2>1. CASE GateIsDue(e, f)
    BY <1>1, <1>2, <2>1, ArrivalType DEF PublishRequest
  <2>2. CASE ~ GateIsDue(e, f)
    BY <1>1, <1>2, <2>2, ArrivalType DEF PublishRequest, GateIsDue
  <2> QED
    BY <2>1, <2>2
<1>3. ASSUME NEW v \in Versions, GrayRequest(o, v) \/ HaltRequest(o, v) \/ Canary(o, v)
      PROVE  TypeInv'
  BY <1>1, <1>3, ArrivalType DEF GrayRequest, HaltRequest, Canary, Admitted
<1>4. ASSUME NEW v \in Versions \cup {0}, RollbackRequest(o, v)
      PROVE  TypeInv'
  BY <1>1, <1>4, ArrivalType DEF RollbackRequest, Admitted
<1> QED
  BY <1>2, <1>3, <1>4

LEMMA RequestType ==
  ASSUME TypeInv, NEW o \in Operators,
         \/ RunGate(o) \/ CheckContract(o) \/ PublishRead(o) \/ PublishCommit(o)
         \/ GrayCommit(o) \/ HaltCommit(o) \/ Fallback(o)
         \/ RollbackRead(o) \/ RollbackCommit(o) \/ Cut(o)
  PROVE  TypeInv'
<1>0. /\ request[o] \in Request /\ InPlace(request[o], Versions, terminated)
      /\ TypeOK /\ promised \in BOOLEAN /\ hasCases \in BOOLEAN /\ terminated \in BOOLEAN
  BY DEF TypeInv, TypeOK
<1>1. CASE RunGate(o)
  <2>1. request[o].v \in Versions
    BY <1>1, NamedVersion DEF RunGate, At, Named
  <2>2. version' \in [Versions -> Version]
    BY <1>0, <1>1, <2>1, RecordEffect DEF RunGate
  <2>3. version' \in Seq(Version) /\ Len(version') <= MaxVersion /\ Versions' = Versions
    BY <1>0, <2>2, RewriteType
  <2>4. CASE Ends(o)
    BY <1>0, <1>1, <2>2, <2>4, CommitType DEF RunGate
  <2>5. CASE request' = [request EXCEPT ![o].pc = "check", ![o].passed = TRUE]
    <3> DEFINE r == [request[o] EXCEPT !.pc = "check", !.passed = TRUE]
    <3>1. r \in Request /\ InPlace(r, Versions, terminated)
      BY <1>0, <1>1 DEF Request, InPlace, RunGate, At, Named, Gated, Past
    <3>2. request' = [request EXCEPT ![o] = r]
      BY <2>5
    <3> HIDE DEF r
    <3> QED
      BY <1>0, <1>1, <2>3, <3>1, <3>2, MoveKeeps DEF RunGate
  <2> QED
    BY <1>1, <2>4, <2>5 DEF RunGate
<1>2. CASE CheckContract(o)
  <2>1. CASE Ends(o)
    BY <1>2, <2>1, EndType DEF CheckContract
  <2>2. CASE ~ terminated /\ request' = [request EXCEPT ![o].pc = "publish", ![o].asked = ""]
    <3> DEFINE r == [request[o] EXCEPT !.pc = "publish", !.asked = ""]
    <3>1. r \in Request /\ InPlace(r, Versions, terminated)
      BY <1>0, <1>2, <2>2 DEF Request, InPlace, CheckContract, At, Named, Gated, Past
    <3>2. request' = [request EXCEPT ![o] = r]
      BY <2>2
    <3> HIDE DEF r
    <3> QED
      BY <1>2, <3>1, <3>2, RequestMoves DEF CheckContract
  <2> QED
    BY <1>2, <2>1, <2>2 DEF CheckContract
<1>3. CASE PublishRead(o)
  <2> DEFINE others == In({"ACTIVE"}) \ {request[o].v}
             active == request[o].v \in In({"ACTIVE"})
             r == [request[o] EXCEPT !.pc = "publishing", !.others = others, !.active = active]
  <2>1. others \in SUBSET (1 .. MaxVersion) /\ active \in BOOLEAN
    BY <1>0, RowsType DEF In
  <2>2. request' = [request EXCEPT ![o] = r]
    BY <1>3 DEF PublishRead
  <2> HIDE DEF others, active
  <2>3. r \in Request /\ InPlace(r, Versions, terminated)
    BY <1>0, <1>3, <2>1 DEF Request, InPlace, PublishRead, At, Named, Gated, Past
  <2> HIDE DEF r
  <2> QED
    BY <1>3, <2>2, <2>3, RequestMoves DEF PublishRead
<1>4. CASE PublishCommit(o) \/ RollbackCommit(o)
  <2>1. request[o].v \in Versions /\ request[o].active \in BOOLEAN
    BY <1>0, <1>4, NamedVersion DEF PublishCommit, RollbackCommit, At, Named, Request
  <2>2. version' \in [Versions -> Version]
    BY <1>0, <1>4, <2>1, MakeActiveEffect DEF PublishCommit, RollbackCommit
  <2> QED
    BY <1>4, <2>2, CommitType DEF PublishCommit, RollbackCommit, Promises
<1>5. CASE GrayCommit(o)
  <2>1. request[o].v \in Versions /\ "GRAY" \in Status
    BY <1>5, NamedVersion DEF GrayCommit, At, Named, Status
  <2>2. version' \in [Versions -> Version]
    BY <1>0, <1>5, <2>1, SetStatusEffect DEF GrayCommit
  <2> QED
    BY <1>0, <1>5, <2>2, CommitType DEF GrayCommit
<1>6. CASE HaltCommit(o)
  <2>1. request[o].v \in Versions /\ "DISABLED" \in Status
    BY <1>6, NamedVersion DEF HaltCommit, At, Named, Status
  <2>2. version' \in [Versions -> Version]
    BY <1>0, <1>6, <2>1, SetStatusEffect DEF HaltCommit
  <2>3. version' \in Seq(Version) /\ Len(version') <= MaxVersion /\ Versions' = Versions
    BY <1>0, <2>2, RewriteType
  <2>4. CASE Ends(o)
    BY <1>0, <1>6, <2>2, <2>4, CommitType DEF HaltCommit
  <2>5. CASE Goes(o, "fallback")
    <3> DEFINE r == [request[o] EXCEPT !.pc = "fallback"]
    <3>1. r \in Request /\ InPlace(r, Versions, terminated)
      BY <1>0, <1>6 DEF Request, InPlace, HaltCommit, At, Named, Gated, Past
    <3>2. request' = [request EXCEPT ![o] = r]
      BY <2>5 DEF Goes
    <3> HIDE DEF r
    <3> QED
      BY <1>0, <1>6, <2>3, <3>1, <3>2, MoveKeeps DEF HaltCommit
  <2> QED
    BY <1>6, <2>4, <2>5 DEF HaltCommit
<1>7. CASE Fallback(o)
  <2> DEFINE below == {u \in In({"ACTIVE"}) : u < request[o].v}
  <2>1. CASE below = {} \/ terminated
    BY <1>7, <2>1, EndType DEF Fallback, Ends
  <2>2. CASE ~(below = {} \/ terminated)
    <3>1. below \subseteq Versions /\ below # {}
      BY <2>2 DEF In
    <3> HIDE DEF below
    <3>2. Max(below) \in 0 .. MaxVersion
      BY <1>0, <3>1, NewestIn
    <3> DEFINE r == [request[o] EXCEPT !.pc = "rollback", !.v = Max(below), !.asked = ""]
    <3>3. r \in Request /\ InPlace(r, Versions, terminated)
      BY <1>0, <1>7, <3>2 DEF Request, InPlace, Fallback, At, Named, Gated, Past
    <3>4. request' = [request EXCEPT ![o] = r]
      BY <1>7, <2>2 DEF Fallback, below
    <3> HIDE DEF r
    <3> QED
      BY <1>7, <3>3, <3>4, RequestMoves DEF Fallback
  <2> QED
    BY <2>1, <2>2
<1>8. CASE RollbackRead(o)
  <2> DEFINE target == IF request[o].v = 0 THEN DefaultTarget ELSE request[o].v
             active == target \in In({"ACTIVE"})
             others == IF Serving = {} THEN {} ELSE {Max(Serving)}
  <2>1. CASE target \notin Versions
    BY <1>8, <2>1, EndType DEF RollbackRead, Ends
  <2>2. CASE target \in Versions
    <3>1. Serving # {} => Max(Serving) \in 1 .. MaxVersion
      BY <1>0, NewestIn DEF Serving, In
    <3>2. others \in SUBSET (1 .. MaxVersion) /\ active \in BOOLEAN /\ target \in 0 .. MaxVersion
      BY <1>0, <2>2, <3>1, RowsType
    <3> DEFINE r == [request[o] EXCEPT !.pc = "rolling", !.v = target, !.active = active,
                                       !.others = others]
    <3>3. request' = [request EXCEPT ![o] = r]
      BY <1>8, <2>2 DEF RollbackRead
    <3> HIDE DEF target, active, others
    <3>4. r \in Request /\ InPlace(r, Versions, terminated)
      BY <1>0, <1>8, <2>2, <3>2 DEF Request, InPlace, RollbackRead, At, Named, Gated, Past
    <3> HIDE DEF r
    <3> QED
      BY <1>8, <3>3, <3>4, RequestMoves DEF RollbackRead
  <2> QED
    BY <2>1, <2>2
<1>9. CASE Cut(o)
  BY <1>9, EndType DEF Cut
<1> QED
  BY <1>1, <1>2, <1>3, <1>4, <1>5, <1>6, <1>7, <1>8, <1>9

LEMMA TypeStep == TypeInv /\ [Next]_vars => TypeInv'
BY WorldType, ArriveType, RequestType DEF Next

\* The rows and the requests keep their types.
THEOREM TypeCorrect == Spec => []TypeOK
<1>1. TypeInv => TypeOK
  BY DEF TypeInv
<1> QED
  BY <1>1, InitType, TypeStep, PTL DEF Spec

\* Forced or not, a version is published only after it passed the regression
\* that the tenant's cases made due (api.py:97): whoever finds cases is sent to
\* the gate, and only the gate lets it on.
THEOREM GateAlwaysPassed == Spec => []PublishPassedGate
<1>1. TypeInv => PublishPassedGate
  BY DEF TypeInv, InPlace, PublishPassedGate, Gated
<1> QED
  BY <1>1, InitType, TypeStep, PTL DEF Spec

-----------------------------------------------------------------------------
\* Which steps change a status: only these commits.
Commits(o) == PublishCommit(o) \/ RollbackCommit(o) \/ GrayCommit(o) \/ HaltCommit(o)
Changes == \E v \in Versions : version'[v].status # version[v].status

LEMMA OnlyCommitsChange ==
  ASSUME TypeInv, [Next]_vars, ~ \E o \in Operators : Commits(o)
  PROVE  /\ ~ Changes /\ Versions \subseteq Versions'
         /\ promised' = promised
<1>1. TypeOK /\ version \in [Versions -> Version]
  BY RowsType DEF TypeInv
<1>2. CASE CreateVersion
  <2>1. version \in Seq(Version) /\ Draft \in Version /\ Len(version) \in Nat /\ Versions = 1 .. Len(version)
    BY <1>1, RowsType DEF TypeOK, Draft, Version, Status
  <2>2. version' \in Seq(Version) /\ Len(version') = Len(version) + 1
        /\ \A v \in 1 .. Len(version) : version'[v] = version[v]
    BY <1>2, <2>1 DEF CreateVersion
  <2>3. Versions' = 1 .. Len(version')
    BY <2>2, LenProperties DEF Versions
  <2> QED
    BY <1>2, <2>1, <2>2, <2>3 DEF CreateVersion, Changes
<1>3. ASSUME NEW v \in Versions, ServeGray(v) \/ \E rate \in Rates : Evaluate(v, rate)
      PROVE  /\ ~ Changes /\ Versions \subseteq Versions' /\ promised' = promised
  <2>1. version' \in [Versions -> Version] /\ \A u \in Versions : version'[u].status = version[u].status
    BY <1>1, <1>3, RecordEffect DEF ServeGray, Evaluate
  <2> QED
    BY <1>1, <1>3, <2>1, RewriteType DEF ServeGray, Evaluate, Changes
<1>4. ASSUME NEW o \in Operators, RunGate(o)
      PROVE  /\ ~ Changes /\ Versions \subseteq Versions' /\ promised' = promised
  <2>1. request[o].v \in Versions
    BY <1>4, NamedVersion DEF RunGate, At, Named
  <2>2. version' \in [Versions -> Version] /\ \A u \in Versions : version'[u].status = version[u].status
    BY <1>1, <1>4, <2>1, RecordEffect DEF RunGate
  <2> QED
    BY <1>1, <1>4, <2>2, RewriteType DEF RunGate, Changes
<1>5. UNCHANGED <<version, promised>> =>
        /\ ~ Changes /\ Versions \subseteq Versions' /\ promised' = promised
  BY DEF Changes, Versions
<1>6. Terminate \/ AddCase \/ UNCHANGED vars => UNCHANGED <<version, promised>>
  BY DEF Terminate, AddCase, vars
<1>7. ASSUME NEW o \in Operators,
             \/ \E v \in Versions :
                  \/ \E e, f \in BOOLEAN : PublishRequest(o, v, e, f)
                  \/ GrayRequest(o, v) \/ HaltRequest(o, v) \/ Canary(o, v)
             \/ \E v \in Versions \cup {0} : RollbackRequest(o, v)
             \/ CheckContract(o) \/ PublishRead(o) \/ Fallback(o) \/ RollbackRead(o) \/ Cut(o)
      PROVE  UNCHANGED <<version, promised>>
  BY <1>7 DEF PublishRequest, GrayRequest, HaltRequest, Canary, RollbackRequest, CheckContract,
     PublishRead, Fallback, RollbackRead, Cut
<1> QED
  BY <1>2, <1>3, <1>4, <1>5, <1>6, <1>7 DEF Next, Commits

\* What a commit leaves ACTIVE, where it leaves the promise standing.
LEMMA CommitServes ==
  ASSUME TypeInv, ServiceInv, NEW o \in Operators, Commits(o)
  PROVE  ServiceInv'
<1>1. TypeOK /\ request[o] \in Request
  BY DEF TypeInv, TypeOK
<1> DEFINE v == request[o].v
<1>2. v \in Versions
  BY NamedVersion DEF Commits, PublishCommit, RollbackCommit, GrayCommit, HaltCommit, At, Named
<1> HIDE DEF v
<1>3. CASE PublishCommit(o) \/ RollbackCommit(o)
  <2>1. version' \in [Versions -> Version]
    BY <1>1, <1>2, <1>3, MakeActiveEffect DEF PublishCommit, RollbackCommit, Request, v
  <2>2. Versions' = Versions
    BY <1>1, <2>1, RewriteType
  <2>3. promised' => v \in In({"ACTIVE"})'
    BY <1>2, <1>3, <2>2 DEF PublishCommit, RollbackCommit, Promises, In, v
  <2> QED
    BY <2>3 DEF ServiceInv
<1>4. ASSUME NEW s \in Status, SetStatus(v, s), promised' = (promised /\ v \notin In({"ACTIVE"}))
      PROVE  ServiceInv'
  <2>1. /\ version' \in [Versions -> Version]
        /\ \A u \in Versions : version'[u].status = IF u = v THEN s ELSE version[u].status
    BY <1>1, <1>2, <1>4, SetStatusEffect
  <2>2. Versions' = Versions
    BY <1>1, <2>1, RewriteType
  <2>3. v \notin In({"ACTIVE"}) => In({"ACTIVE"}) \subseteq In({"ACTIVE"})'
    BY <2>1, <2>2 DEF In
  <2> QED
    BY <1>4, <2>3 DEF ServiceInv
<1> QED
  BY <1>3, <1>4 DEF Commits, GrayCommit, HaltCommit, Status, v

LEMMA ServiceStep == TypeInv /\ ServiceInv /\ [Next]_vars => ServiceInv'
<1> SUFFICES ASSUME TypeInv, ServiceInv, [Next]_vars, ~ \E o \in Operators : Commits(o)
             PROVE  ServiceInv'
  BY CommitServes
<1>1. In({"ACTIVE"}) \subseteq In({"ACTIVE"})'
  BY OnlyCommitsChange DEF In, Changes
<1> QED
  BY <1>1, OnlyCommitsChange DEF ServiceInv

\* Once a version was published, or rolled back to, every new run resolves to a
\* version: only a halt or a gray of the version that serves takes it away, and
\* no publish, no rollback (service.py) and no canary of a GRAY version does,
\* however requests meet and wherever they are cut; except one whose version
\* was ACTIVE when it looked and is not when it commits.
THEOREM ServiceAlwaysKept == Spec => []ServiceKept
<1>1. Init => ServiceInv
  BY DEF Init, ServiceInv
<1>2. TypeInv /\ ServiceInv => ServiceKept
  <2> SUFFICES ASSUME TypeInv, In({"ACTIVE"}) # {}, NEW inShare \in BOOLEAN
               PROVE  Resolved(inShare) # 0
    BY DEF ServiceInv, ServiceKept
  <2> DEFINE here == IF inShare /\ In({"GRAY"}) # {} THEN In({"GRAY"}) ELSE In({"ACTIVE"})
  <2>1. here # {} /\ here \subseteq Versions
    BY DEF In
  <2>2. Max(here) \in 1 .. MaxVersion
    BY <2>1, NewestIn DEF TypeInv
  <2>3. Resolved(inShare) = Max(here)
    BY <2>1 DEF Resolved
  <2> HIDE DEF here
  <2> QED
    BY <2>2, <2>3
<1> QED
  BY <1>1, <1>2, InitType, TypeStep, ServiceStep, PTL DEF Spec

\* The statuses of a terminated flow's versions are changed by no request that
\* came after its end: each kind is turned away on its way, the canary's own
\* halt and rollback included.
THEOREM EndedAlwaysFrozen == Spec => EndedFlowIsFrozen
<1> DEFINE Frozen == \A v \in Versions : version'[v].status # version[v].status =>
                       \E o \in Operators : request[o] # Idle /\ ~ request[o].late
<1>1. TypeInv /\ [Next]_vars => [Frozen]_vars
  <2> SUFFICES ASSUME TypeInv, [Next]_vars, NEW v \in Versions,
                      version'[v].status # version[v].status
               PROVE  \E o \in Operators : request[o] # Idle /\ ~ request[o].late
    OBVIOUS
  <2>1. PICK o \in Operators : Commits(o)
    BY OnlyCommitsChange DEF Changes
  <2>2. request[o].pc \in {"publishing", "rolling", "gray", "halt"}
    BY <2>1 DEF Commits, PublishCommit, RollbackCommit, GrayCommit, HaltCommit, At
  <2> QED
    BY <2>2, IdleType DEF TypeInv, InPlace, Past
<1> QED
  BY <1>1, InitType, TypeStep, PTL DEF Spec, EndedFlowIsFrozen
=============================================================================
