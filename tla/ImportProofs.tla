---------------------------- MODULE ImportProofs ----------------------------
(***************************************************************************)
(* Proofs about Import, for any requests, names, parts and facts.  Each    *)
(* request carries what it has read from one transaction to the next; the  *)
(* invariant says what that is still worth while others take their steps.  *)
(***************************************************************************)
EXTENDS Import, FiniteSetTheorems, TLAPS

AnyRequest ==
  [pc : Pcs, kind : AllKinds \union {"none"}, found : BOOLEAN, parts : SUBSET Indices,
   s : Names \union {None}, o : Names \union {None}, rows : SUBSET Ids, objects : SUBSET Ids,
   seen : SUBSET (Requests \union Names)]

\* The steps of a completion, and those of the graph.
Uploading == {"check", "read", "clean", "parse", "discard", "ingest", "extract"}
Linking == {"find", "sources", "source", "subject", "object", "old", "add",
            "facts", "repoint", "aliases", "alias"}

\* What a request holds is of its type; names it is past have a row, and rows
\* it has read stay rows.
Local(r) ==
  /\ request[r] \in AnyRequest
  /\ request[r].pc \in Uploading => request[r].kind = "complete"
  /\ request[r].pc \in Linking => request[r].s \in Names /\ request[r].o \in Names
  /\ request[r].pc \in {"object", "old", "add"} => request[r].s \in entity
  /\ request[r].pc \in {"old", "add"} => request[r].o \in entity
  /\ request[r].pc = "source" => request[r].seen \subseteq Requests
  /\ request[r].pc = "alias" => request[r].seen \subseteq Names
  /\ request[r].rows \subseteq Rows
RequestInv ==
  /\ request = [r \in Requests |-> request[r]]
  /\ \A r \in Requests : Local(r)
  /\ parts \subseteq Indices

GraphInv ==
  /\ facts \in [Ids -> Fact \union {None}] /\ entity \subseteq Names
  /\ alias \in [Names -> SUBSET Names]
  /\ FactIsReachable

\* Of one completion at a time: the parts it has found are there, and it has
\* read them all.
Completing(r) == InFlight(r) /\ request[r].kind = "complete"
WholeInv ==
  "completes" \notin past =>
    /\ \A r, q \in Requests : Completing(r) /\ Completing(q) => r = q
    /\ \A r \in Requests :
         /\ request[r].pc = "read" => Full \subseteq parts
         /\ request[r].pc \in {"clean", "parse", "ingest"} => Full \subseteq request[r].parts
    /\ DocumentIsWhole

Inv == RequestInv /\ GraphInv /\ WholeInv

-----------------------------------------------------------------------------
LEMMA IdleIs ==
  /\ Idle \in AnyRequest /\ Over \in AnyRequest
  /\ Idle.pc = "idle" /\ Over.pc = "over" /\ Idle.rows = {} /\ Over.rows = {}
BY DEF Idle, Over, AnyRequest, Pcs, AllKinds, Ids

LEMMA InitInv == Init => Inv
<1> SUFFICES ASSUME Init PROVE Inv
  OBVIOUS
<1>1. \A r \in Requests : request[r] = Idle /\ document[r] = None
  BY DEF Init
<1>2. RequestInv
  <2>1. \A r \in Requests : Local(r)
    BY <1>1, IdleIs DEF Local, Uploading, Linking
  <2> QED
    BY <2>1 DEF Init, RequestInv
<1>3. Rows = {}
  BY DEF Init, Rows
<1>4. GraphInv
  BY <1>3 DEF Init, GraphInv, FactIsReachable
<1>5. WholeInv
  BY <1>1, IdleIs DEF WholeInv, Completing, InFlight, DocumentIsWhole
<1> QED
  BY <1>2, <1>4, <1>5 DEF Inv

\* A step of one request keeps what the others hold, if names and rows stay.
LEMMA StepKeeps ==
  ASSUME Inv, NEW r \in Requests, NEW now, request' = [request EXCEPT ![r] = now], Local(r)',
         Rows \subseteq Rows', entity \subseteq entity', parts' \subseteq Indices,
         GraphInv', WholeInv'
  PROVE  Inv'
<1>1. /\ request' = [q \in Requests |-> request'[q]]
      /\ \A q \in Requests \ {r} : request'[q] = request[q]
  BY DEF Inv, RequestInv
<1>2. \A q \in Requests \ {r} : Local(q)'
  BY <1>1 DEF Inv, RequestInv, Local
<1> QED
  BY <1>1, <1>2 DEF Inv, RequestInv

\* A step outside the graph keeps the graph.
LEMMA QuietGraph ==
  ASSUME Inv, UNCHANGED graph
  PROVE  GraphInv' /\ Rows' = Rows /\ UNCHANGED entity
BY DEF Inv, graph, GraphInv, FactIsReachable, Rows

\* A step outside the upload, of a request that keeps its kind or is over.
LEMMA QuietUpload ==
  ASSUME Inv, NEW r \in Requests, NEW now, request' = [request EXCEPT ![r] = now],
         UNCHANGED <<upload, past>>,
         now.pc \notin {"read", "clean", "parse", "ingest"},
         now.pc \in {"idle", "over"} \/ (InFlight(r) /\ now.kind = request[r].kind)
  PROVE  WholeInv' /\ parts' \subseteq Indices
<1>1. /\ request'[r] = now
      /\ \A q \in Requests \ {r} : request'[q] = request[q]
  BY DEF Inv, RequestInv
<1>2. \A q \in Requests : Completing(q)' => Completing(q)
  BY <1>1 DEF Completing, InFlight
<1> QED
  BY <1>1, <1>2 DEF Inv, RequestInv, WholeInv, upload, DocumentIsWhole

\* What Goes and Answers do to a request.
LEMMA GoesOn ==
  ASSUME Inv, NEW r \in Requests, NEW pc \in Pcs, Goes(r, pc)
  PROVE  /\ request' = [request EXCEPT ![r] = request'[r]] /\ request'[r] \in AnyRequest
         /\ request'[r].pc = pc /\ request'[r].kind = request[r].kind
         /\ request'[r].parts = request[r].parts /\ request'[r].s = request[r].s
         /\ request'[r].o = request[r].o /\ request'[r].rows = request[r].rows
         /\ request'[r].seen = request[r].seen
         /\ UNCHANGED past
BY DEF Goes, Becomes, Inv, RequestInv, Local, AnyRequest

LEMMA NowIs ==
  ASSUME Inv, NEW r \in Requests, NEW now, request' = [request EXCEPT ![r] = now]
  PROVE  /\ request'[r] = now
         /\ \A q \in Requests \ {r} : request'[q] = request[q]
BY DEF Inv, RequestInv

\* Whatever ends a request without a change of the rows.
LEMMA AnswerKeeps ==
  ASSUME Inv, NEW r \in Requests, NEW what, Answers(r, what), UNCHANGED <<upload, graph>>
  PROVE  Inv'
<1>1. request' = [request EXCEPT ![r] = Over] /\ UNCHANGED past
  BY DEF Answers
<1>2. Local(r)'
  BY <1>1, IdleIs, NowIs DEF Local, Uploading, Linking
<1> QED
  BY <1>1, <1>2, IdleIs, QuietGraph, QuietUpload, StepKeeps

-----------------------------------------------------------------------------
\* The arrival of a request.
LEMMA BeginKeeps ==
  ASSUME Inv, NEW r \in Requests, NEW kind \in AllKinds, NEW now, Begins(r, kind, now),
         now \in AnyRequest, now.rows = {},
         now.pc \in {"store", "check", "subject", "find", "facts"},
         now.pc = "check" => kind = "complete",
         now.pc \in {"subject", "find", "facts"} => now.s \in Names /\ now.o \in Names
  PROVE  Inv'
<1> DEFINE then == [now EXCEPT !.kind = kind]
<1>1. /\ request' = [request EXCEPT ![r] = then] /\ UNCHANGED <<upload, graph>>
      /\ past \subseteq past' /\ At(r, "idle")
      /\ kind = "complete" /\ Meets(r, {"complete"}) => "completes" \in past'
  BY DEF Begins
<1>2. /\ then \in AnyRequest /\ then.kind = kind /\ then.pc = now.pc /\ then.s = now.s
      /\ then.o = now.o /\ then.rows = {}
  BY DEF AnyRequest
<1> HIDE DEF then
<1>3. Local(r)'
  BY <1>1, <1>2, NowIs DEF Local, Uploading, Linking
<1>4. WholeInv'
  <2> SUFFICES ASSUME "completes" \notin past'
               PROVE  /\ \A p, q \in Requests : Completing(p)' /\ Completing(q)' => p = q
                      /\ \A p \in Requests :
                           /\ request'[p].pc = "read" => Full \subseteq parts'
                           /\ request'[p].pc \in {"clean", "parse", "ingest"}
                                => Full \subseteq request'[p].parts
                      /\ DocumentIsWhole'
    BY DEF WholeInv
  <2>1. /\ request'[r] = then /\ \A q \in Requests \ {r} : request'[q] = request[q]
        /\ UNCHANGED <<parts, document>> /\ "completes" \notin past
    BY <1>1, NowIs DEF upload
  <2>2. ASSUME kind = "complete", NEW q \in Requests \ {r} PROVE ~Completing(q)
    BY <1>1, <2>2 DEF Meets, Completing
  <2>3. \A p, q \in Requests : Completing(p)' /\ Completing(q)' => p = q
    BY <1>2, <2>1, <2>2 DEF Completing, InFlight, Inv, WholeInv
  <2> QED
    BY <1>2, <2>1, <2>3 DEF Inv, WholeInv, DocumentIsWhole
<1>5. parts' \subseteq Indices
  BY <1>1 DEF upload, Inv, RequestInv
<1> QED
  BY <1>1, <1>3, <1>4, <1>5, QuietGraph, StepKeeps

LEMMA AskKeeps == ASSUME Inv, NEW r \in Requests, Ask(r) PROVE Inv'
<1>0. parts \subseteq Indices
  BY DEF Inv, RequestInv
<1>1. ASSUME NEW i \in Indices, SendPart(r, i) PROVE Inv'
  <2> DEFINE known == i \in parts
             now == [Idle EXCEPT !.pc = "store", !.parts = {i}, !.found = known]
  <2>0. known \in BOOLEAN
    OBVIOUS
  <2>2. Begins(r, "send", now) /\ "send" \in AllKinds
    BY <1>1 DEF SendPart, AllKinds
  <2> HIDE DEF known
  <2>1. now \in AnyRequest /\ now.rows = {} /\ now.pc = "store"
    BY <2>0 DEF AnyRequest, Idle, Pcs, AllKinds, Ids
  <2> HIDE DEF now
  <2> QED
    BY <2>1, <2>2, BeginKeeps
<1>2. CASE Complete(r)
  <2> DEFINE now == [Idle EXCEPT !.pc = "check"]
  <2>1. now \in AnyRequest /\ now.rows = {} /\ now.pc = "check"
    BY DEF AnyRequest, Idle, Pcs, AllKinds, Ids
  <2>2. Begins(r, "complete", now) /\ "complete" \in AllKinds
    BY <1>2 DEF Complete, AllKinds
  <2> HIDE DEF now
  <2> QED
    BY <2>1, <2>2, BeginKeeps
<1>3. ASSUME NEW s \in Names, NEW o \in Names, NEW pc \in {"subject", "find", "facts"},
             NEW kind \in AllKinds,
             Begins(r, kind, [Idle EXCEPT !.pc = pc, !.s = s, !.o = o])
      PROVE  Inv'
  <2> DEFINE now == [Idle EXCEPT !.pc = pc, !.s = s, !.o = o]
  <2>1. now \in AnyRequest /\ now.rows = {} /\ now.pc = pc /\ now.s = s /\ now.o = o
    BY DEF AnyRequest, Idle, Pcs, AllKinds, Ids
  <2>2. Begins(r, kind, now)
    BY <1>3
  <2> HIDE DEF now
  <2> QED
    BY <2>1, <2>2, BeginKeeps
<1> QED
  BY <1>1, <1>2, <1>3 DEF Ask, AddByHand, Extract, Merge, AllKinds

-----------------------------------------------------------------------------
(* The upload *)

\* Its steps: what changes is the request and, of the rows, only the upload.
LEMMA UploadKeeps ==
  ASSUME Inv, NEW r \in Requests, NEW now \in AnyRequest,
         request' = [request EXCEPT ![r] = now],
         UNCHANGED graph, parts' \subseteq Indices, WholeInv',
         now.pc \in Uploading => now.kind = "complete",
         now.pc \in Linking => now.pc = "subject" /\ now.s \in Names /\ now.o \in Names,
         now.rows \subseteq Rows
  PROVE  Inv'
<1>1. Rows' = Rows
  BY QuietGraph
<1>2. Local(r)'
  BY <1>1, NowIs DEF Local, Linking
<1> QED
  BY <1>1, <1>2, QuietGraph, StepKeeps

\* While two completions may meet nothing is claimed; a completion alone goes
\* from one step to the next.
LEMMA WholeKeeps ==
  ASSUME Inv, NEW r \in Requests, NEW now \in AnyRequest,
         request' = [request EXCEPT ![r] = now], UNCHANGED past,
         InFlight(r), now.pc # "over" => now.kind = request[r].kind,
         "completes" \notin past =>
           /\ \A q \in Requests \ {r} : request[q].pc = "read" => Full \subseteq parts'
           /\ now.pc = "read" => Full \subseteq parts'
           /\ now.pc \in {"clean", "parse", "ingest"} => Full \subseteq now.parts
           /\ \A q \in Requests :
                document'[q] # None => document'[q] = document[q] \/ Full \subseteq document'[q]
  PROVE  WholeInv'
<1> SUFFICES ASSUME "completes" \notin past'
             PROVE  /\ \A p, q \in Requests : Completing(p)' /\ Completing(q)' => p = q
                    /\ \A p \in Requests :
                         /\ request'[p].pc = "read" => Full \subseteq parts'
                         /\ request'[p].pc \in {"clean", "parse", "ingest"}
                              => Full \subseteq request'[p].parts
                    /\ DocumentIsWhole'
  BY DEF WholeInv
<1>1. request'[r] = now /\ \A q \in Requests \ {r} : request'[q] = request[q]
  BY NowIs
<1>2. \A q \in Requests : Completing(q)' => Completing(q)
  BY <1>1 DEF Completing, InFlight
<1>3. DocumentIsWhole'
  BY DEF Inv, WholeInv, DocumentIsWhole
<1> QED
  BY <1>1, <1>2, <1>3 DEF Inv, WholeInv

\* Alone, a completion finds no other that has still to read.
LEMMA NobodyReads ==
  ASSUME Inv, NEW r \in Requests, Completing(r), "completes" \notin past
  PROVE  \A q \in Requests \ {r} : request[q].pc # "read"
BY DEF Inv, RequestInv, Local, WholeInv, Completing, InFlight, Uploading

LEMMA SendKeeps == ASSUME Inv, NEW r \in Requests, StorePart(r) PROVE Inv'
<1>1. /\ request' = [request EXCEPT ![r] = Over] /\ UNCHANGED past
      /\ parts \subseteq parts' /\ parts' \subseteq Indices
      /\ UNCHANGED <<document, graph>> /\ InFlight(r)
  BY DEF StorePart, Answers, Inv, RequestInv, Local, AnyRequest, At, InFlight
<1>2. WholeInv'
  BY <1>1, IdleIs, WholeKeeps DEF Inv, WholeInv
<1> QED
  BY <1>1, <1>2, IdleIs, UploadKeeps DEF Uploading, Linking

LEMMA CompleteKeeps ==
  ASSUME Inv, NEW r \in Requests,
         CheckParts(r) \/ ReadParts(r) \/ CleanUp(r) \/ Parse(r) \/ Discard(r) \/ IngestFile(r)
  PROVE  Inv'
<1>0. /\ Local(r) /\ Completing(r) /\ parts \subseteq Indices
      /\ request[r].kind = "complete" /\ request[r] \in AnyRequest
  BY DEF Inv, RequestInv, Local, Completing, InFlight, At, Uploading,
         CheckParts, ReadParts, CleanUp, Parse, Discard, IngestFile
<1>1. CASE CheckParts(r)
  <2>1. CASE parts = Full
    <3>1. Goes(r, "read") /\ "read" \in Pcs /\ UNCHANGED <<upload, graph>>
      BY <1>1, <2>1 DEF CheckParts, Pcs
    <3>2. PICK now \in AnyRequest : /\ request' = [request EXCEPT ![r] = now] /\ now.pc = "read"
                                    /\ now.kind = "complete" /\ now.rows = request[r].rows
                                    /\ UNCHANGED past
      BY <1>0, <3>1, GoesOn
    <3>3. WholeInv'
      BY <1>0, <2>1, <3>1, <3>2, WholeKeeps DEF upload, Completing
    <3> QED
      BY <1>0, <3>1, <3>2, <3>3, UploadKeeps DEF Uploading, Linking, Local, upload
  <2>2. CASE parts # Full
    BY <1>1, <2>2, AnswerKeeps DEF CheckParts
  <2> QED
    BY <2>1, <2>2
<1>2. CASE ReadParts(r)
  <2> DEFINE now == [request[r] EXCEPT !.pc = "clean", !.parts = parts]
  <2>1. now \in AnyRequest /\ now.pc = "clean" /\ now.kind = "complete"
        /\ now.rows = request[r].rows /\ now.parts = parts
    BY <1>0 DEF AnyRequest, Pcs
  <2>2. request' = [request EXCEPT ![r] = now] /\ UNCHANGED <<past, upload, graph>>
        /\ request[r].pc = "read"
    BY <1>2 DEF ReadParts, Becomes, At
  <2> HIDE DEF now
  <2>3. WholeInv'
    BY <1>0, <2>1, <2>2, WholeKeeps DEF upload, Completing, Inv, WholeInv
  <2> QED
    BY <1>0, <2>1, <2>2, <2>3, UploadKeeps DEF Uploading, Linking, Local, upload
<1>3. CASE CleanUp(r)
  <2>1. /\ Goes(r, "parse") /\ "parse" \in Pcs /\ parts' = {} /\ UNCHANGED <<document, graph>>
        /\ request[r].pc = "clean"
    BY <1>3 DEF CleanUp, Cleaned, Pcs, At
  <2>2. PICK now \in AnyRequest : /\ request' = [request EXCEPT ![r] = now] /\ now.pc = "parse"
                                  /\ now.kind = "complete" /\ now.rows = request[r].rows
                                  /\ now.parts = request[r].parts /\ UNCHANGED past
    BY <1>0, <2>1, GoesOn
  <2>3. WholeInv'
    BY <1>0, <2>1, <2>2, NobodyReads, WholeKeeps DEF Completing, Inv, WholeInv
  <2> QED
    BY <1>0, <2>1, <2>2, <2>3, UploadKeeps DEF Uploading, Linking, Local
<1>4. CASE Parse(r)
  <2>1. PICK pc \in {"ingest", "discard"} :
          Goes(r, pc) /\ pc \in Pcs /\ UNCHANGED <<upload, graph>> /\ request[r].pc = "parse"
    BY <1>4 DEF Parse, Pcs, At
  <2>2. PICK now \in AnyRequest : /\ request' = [request EXCEPT ![r] = now] /\ now.pc = pc
                                  /\ now.kind = "complete" /\ now.rows = request[r].rows
                                  /\ now.parts = request[r].parts /\ UNCHANGED past
    BY <1>0, <2>1, GoesOn
  <2>3. WholeInv'
    BY <1>0, <2>1, <2>2, WholeKeeps DEF upload, Completing, Inv, WholeInv
  <2> QED
    BY <1>0, <2>1, <2>2, <2>3, UploadKeeps DEF Uploading, Linking, Local, upload
<1>5. CASE Discard(r)
  <2>1. /\ request' = [request EXCEPT ![r] = Over] /\ UNCHANGED <<past, document, graph>>
        /\ parts' = {}
    BY <1>5 DEF Discard, Cleaned, Answers
  <2>2. WholeInv'
    BY <1>0, <2>1, IdleIs, NobodyReads, WholeKeeps DEF Completing
  <2> QED
    BY <2>1, <2>2, IdleIs, UploadKeeps DEF Uploading, Linking
<1>6. CASE IngestFile(r)
  <2> DEFINE now == [request[r] EXCEPT !.pc = "extract", !.parts = {}]
  <2>1. now \in AnyRequest /\ now.pc = "extract" /\ now.kind = "complete"
        /\ now.rows = request[r].rows
    BY <1>0 DEF AnyRequest, Pcs
  <2>2. request' = [request EXCEPT ![r] = now] /\ UNCHANGED <<past, session, parts, graph>>
        /\ request[r].pc = "ingest" /\ document' = [document EXCEPT ![r] = request[r].parts]
    BY <1>6 DEF IngestFile, Becomes, At
  <2> HIDE DEF now
  <2>3. \A q \in Requests : document'[q] \in {document[q], request[r].parts}
    BY <2>2
  <2>4. WholeInv'
    BY <1>0, <2>1, <2>2, <2>3, WholeKeeps DEF Completing, Inv, WholeInv
  <2> QED
    BY <1>0, <2>1, <2>2, <2>4, UploadKeeps DEF Uploading, Linking, Local
<1> QED
  BY <1>1, <1>2, <1>3, <1>4, <1>5, <1>6

\* What a completion draws from the text, and its end, are like the steps of
\* the graph.
LEMMA ExtractKeeps ==
  ASSUME Inv, NEW r \in Requests, ExtractToGraph(r) \/ FinishComplete(r) \/ Cut(r)
  PROVE  Inv'
<1>0. Local(r) /\ request[r] \in AnyRequest /\ parts \subseteq Indices
  BY DEF Inv, RequestInv, Local
<1>1. CASE FinishComplete(r) \/ (Cut(r) /\ Answers(r, "error"))
  BY <1>1, AnswerKeeps DEF FinishComplete, Cut
<1>2. CASE /\ \/ ExtractToGraph(r) /\ Goes(r, "finish")
              \/ Cut(r) /\ Becomes(r, [Idle EXCEPT !.pc = "finish", !.kind = "complete"])
  <2>1. InFlight(r) /\ request[r].kind = "complete" /\ UNCHANGED <<upload, graph>>
    <3>1. CASE ExtractToGraph(r)
      BY <1>0, <3>1 DEF ExtractToGraph, Local, Uploading, InFlight, At
    <3>2. CASE Cut(r) /\ Becomes(r, [Idle EXCEPT !.pc = "finish", !.kind = "complete"])
      <4> DEFINE now == [Idle EXCEPT !.pc = "finish", !.kind = "complete"]
      <4>1. now.pc = "finish" /\ now # Over
        BY IdleIs DEF Idle
      <4>2. ASSUME Answers(r, "error") PROVE FALSE
        <5>1. request' = [request EXCEPT ![r] = now] /\ request' = [request EXCEPT ![r] = Over]
          BY <3>2, <4>2 DEF Answers, Becomes
        <5> HIDE DEF now
        <5>2. request'[r] = now
          BY <5>1, NowIs
        <5>3. request'[r] = Over
          BY <5>1, NowIs
        <5> QED
          BY <4>1, <5>2, <5>3
      <4> QED
        BY <3>2, <4>2 DEF Cut
    <3> QED
      BY <1>2, <3>1, <3>2
  <2>2. [Idle EXCEPT !.pc = "finish", !.kind = "complete"] \in AnyRequest
    BY DEF AnyRequest, Idle, Pcs, AllKinds, Ids
  <2>3. PICK now \in AnyRequest : /\ request' = [request EXCEPT ![r] = now] /\ now.pc = "finish"
                                  /\ now.kind = "complete" /\ now.rows \subseteq Rows
                                  /\ UNCHANGED past
    <3>1. CASE Goes(r, "finish")
      BY <1>0, <2>1, <3>1, GoesOn DEF Pcs, Local
    <3>2. CASE Becomes(r, [Idle EXCEPT !.pc = "finish", !.kind = "complete"])
      <4> DEFINE now == [Idle EXCEPT !.pc = "finish", !.kind = "complete"]
      <4>1. now.pc = "finish" /\ now.kind = "complete" /\ now.rows = {}
        BY DEF Idle
      <4>2. request' = [request EXCEPT ![r] = now] /\ UNCHANGED past
        BY <3>2 DEF Becomes
      <4> HIDE DEF now
      <4>3. now \in AnyRequest
        BY <2>2 DEF now
      <4> QED
        BY <4>1, <4>2, <4>3
    <3> QED
      BY <1>2, <3>1, <3>2
  <2>4. WholeInv'
    BY <2>1, <2>3, QuietUpload
  <2> QED
    BY <1>0, <2>1, <2>3, <2>4, UploadKeeps DEF Uploading, Linking, upload
<1>3. ASSUME ExtractToGraph(r), NEW s \in Names, NEW o \in Names,
             Becomes(r, [request[r] EXCEPT !.pc = "subject", !.s = s, !.o = o])
      PROVE  Inv'
  <2> DEFINE now == [request[r] EXCEPT !.pc = "subject", !.s = s, !.o = o]
  <2>1. now \in AnyRequest /\ now.pc = "subject" /\ now.kind = request[r].kind
        /\ now.rows = request[r].rows /\ now.s = s /\ now.o = o
    BY <1>0 DEF AnyRequest, Pcs
  <2>2. request' = [request EXCEPT ![r] = now] /\ UNCHANGED <<past, upload, graph>> /\ InFlight(r)
    BY <1>3 DEF Becomes, ExtractToGraph, InFlight, At
  <2> HIDE DEF now
  <2>3. WholeInv'
    BY <2>1, <2>2, QuietUpload
  <2> QED
    BY <1>0, <2>1, <2>2, <2>3, UploadKeeps DEF Uploading, Linking, upload, Local
<1> QED
  BY <1>1, <1>2, <1>3 DEF ExtractToGraph, Cut

-----------------------------------------------------------------------------
(* The graph *)

\* Its steps: what changes is the request and, of the rows, only the graph.
LEMMA GraphKeeps ==
  ASSUME Inv, NEW r \in Requests, NEW now \in AnyRequest,
         request' = [request EXCEPT ![r] = now], UNCHANGED <<upload, past>>,
         now.pc = "over" \/ (InFlight(r) /\ now.kind = request[r].kind),
         now.pc \in {"over", "finish"} \cup Linking,
         now.pc \in Linking => now.s \in Names /\ now.o \in Names,
         now.pc \in {"object", "old", "add"} => now.s \in entity',
         now.pc \in {"old", "add"} => now.o \in entity',
         now.pc = "source" => now.seen \subseteq Requests,
         now.pc = "alias" => now.seen \subseteq Names,
         now.rows \subseteq Rows',
         Rows \subseteq Rows', entity \subseteq entity', GraphInv'
  PROVE  Inv'
<1>1. Local(r)'
  BY NowIs DEF Local, Uploading, Linking
<1>2. now.pc \notin {"read", "clean", "parse", "ingest"}
  BY DEF Linking
<1> QED
  BY <1>1, <1>2, QuietUpload, StepKeeps

\* What the rows of a fact hold.
LEMMA FactOf ==
  ASSUME Inv, NEW f \in Rows
  PROVE  f \in Ids /\ facts[f] \in Fact
BY DEF Inv, GraphInv, Rows

LEMMA FindKeeps ==
  ASSUME Inv, NEW r \in Requests,
         FindActiveFact(r) \/ ReadSources(r) \/ ReadOldFact(r) \/ ReadFacts(r) \/ ReadAliases(r)
  PROVE  Inv'
<1>0. /\ Local(r) /\ request[r] \in AnyRequest /\ InFlight(r) /\ request[r].pc \in Linking
      /\ UNCHANGED <<upload, graph>>
  BY DEF Inv, RequestInv, Local, InFlight, At, Linking,
         FindActiveFact, ReadSources, ReadOldFact, ReadFacts, ReadAliases
<1>1. Rows' = Rows /\ GraphInv' /\ UNCHANGED entity
  BY <1>0, QuietGraph
<1>2. ASSUME NEW now \in AnyRequest, request' = [request EXCEPT ![r] = now], UNCHANGED past,
             now.pc \in {"sources", "source", "subject", "add", "repoint", "aliases", "alias"},
             now.pc = "add" => request[r].pc = "old",
             now.pc = "source" => now.seen \subseteq Requests,
             now.pc = "alias" => now.seen \subseteq Names,
             now.kind = request[r].kind, now.s = request[r].s, now.o = request[r].o,
             now.rows \subseteq Rows
      PROVE  Inv'
  BY <1>0, <1>1, <1>2, GraphKeeps DEF Local, Linking
<1>3. CASE FindActiveFact(r)
  <2>1. CASE Goes(r, "subject")
    <3>1. "subject" \in Pcs
      BY DEF Pcs
    <3> QED
      BY <1>0, <1>2, <2>1, <3>1, GoesOn DEF Local
  <2>2. ASSUME NEW f \in Rows, Becomes(r, [request[r] EXCEPT !.pc = "sources", !.rows = {f}])
        PROVE  Inv'
    <3> DEFINE now == [request[r] EXCEPT !.pc = "sources", !.rows = {f}]
    <3>1. now \in AnyRequest /\ now.pc = "sources" /\ now.kind = request[r].kind
          /\ now.s = request[r].s /\ now.o = request[r].o /\ now.rows = {f}
      BY <1>0 DEF AnyRequest, Pcs, Rows
    <3>2. request' = [request EXCEPT ![r] = now] /\ UNCHANGED past
      BY <2>2 DEF Becomes
    <3> HIDE DEF now
    <3> QED
      BY <1>2, <3>1, <3>2
  <2> QED
    BY <1>3, <2>1, <2>2 DEF FindActiveFact, Active, Of
<1>4. CASE ReadSources(r)
  <2> DEFINE docs == UNION {facts[f].docs : f \in request[r].rows}
             now == [request[r] EXCEPT !.pc = "source", !.seen = docs]
  <2>0. docs \subseteq Requests
    BY <1>0, FactOf DEF Local, Fact
  <2>1. request' = [request EXCEPT ![r] = now] /\ UNCHANGED past
    BY <1>4 DEF ReadSources, Becomes
  <2> HIDE DEF docs
  <2>2. now \in AnyRequest /\ now.pc = "source" /\ now.kind = request[r].kind
        /\ now.s = request[r].s /\ now.o = request[r].o /\ now.rows = request[r].rows
        /\ now.seen = docs
    BY <1>0, <2>0 DEF AnyRequest, Pcs
  <2> HIDE DEF now
  <2> QED
    BY <1>0, <1>2, <2>0, <2>1, <2>2 DEF Local
<1>5. ASSUME ReadOldFact(r), NEW old \in SUBSET Rows,
             Becomes(r, [request[r] EXCEPT !.pc = "add", !.rows = old])
      PROVE  Inv'
  <2> DEFINE now == [request[r] EXCEPT !.pc = "add", !.rows = old]
  <2>1. now \in AnyRequest /\ now.pc = "add" /\ now.kind = request[r].kind
        /\ now.s = request[r].s /\ now.o = request[r].o /\ now.rows = old
    BY <1>0 DEF AnyRequest, Pcs, Rows
  <2>2. request' = [request EXCEPT ![r] = now] /\ UNCHANGED past /\ request[r].pc = "old"
    BY <1>5 DEF Becomes, ReadOldFact, At
  <2> HIDE DEF now
  <2> QED
    BY <1>2, <2>1, <2>2
<1>6. CASE ReadFacts(r)
  <2> DEFINE of == Of(request[r].s)
             by == {f \in Rows : facts[f].o = request[r].s}
             now == [request[r] EXCEPT !.pc = "repoint", !.rows = of, !.objects = by]
  <2>0. of \subseteq Rows /\ by \subseteq Rows /\ Rows \subseteq Ids
    BY DEF Of, Rows
  <2>1. request' = [request EXCEPT ![r] = now] /\ UNCHANGED past
    BY <1>6 DEF ReadFacts, Becomes
  <2> HIDE DEF of, by
  <2>2. now \in AnyRequest /\ now.pc = "repoint" /\ now.kind = request[r].kind
        /\ now.s = request[r].s /\ now.o = request[r].o /\ now.rows = of
    BY <1>0, <2>0 DEF AnyRequest, Pcs
  <2> HIDE DEF now
  <2> QED
    BY <1>2, <2>0, <2>1, <2>2
<1>7. CASE ReadAliases(r)
  <2> DEFINE names == alias[request[r].o]
             now == [request[r] EXCEPT !.pc = "alias", !.seen = names]
  <2>0. names \subseteq Names
    BY <1>0 DEF Local, Inv, GraphInv
  <2>1. request' = [request EXCEPT ![r] = now] /\ UNCHANGED past
    BY <1>7 DEF ReadAliases, Becomes
  <2> HIDE DEF names
  <2>2. now \in AnyRequest /\ now.pc = "alias" /\ now.kind = request[r].kind
        /\ now.s = request[r].s /\ now.o = request[r].o /\ now.rows = request[r].rows
        /\ now.seen = names
    BY <1>0, <2>0 DEF AnyRequest, Pcs
  <2> HIDE DEF now
  <2> QED
    BY <1>0, <1>2, <2>0, <2>1, <2>2 DEF Local
<1>8. ASSUME ReadOldFact(r) PROVE Inv'
  <2>1. PICK old \in SUBSET Rows : Becomes(r, [request[r] EXCEPT !.pc = "add", !.rows = old])
    BY <1>8 DEF ReadOldFact, Active, Of
  <2> QED
    BY <1>5, <1>8, <2>1
<1> QED
  BY <1>3, <1>4, <1>6, <1>7, <1>8

\* A name that gets a row.
LEMMA UpsertKeeps ==
  ASSUME Inv, NEW r \in Requests, UpsertSubject(r) \/ UpsertObject(r)
  PROVE  Inv'
<1>0. /\ Local(r) /\ request[r] \in AnyRequest /\ InFlight(r)
      /\ request[r].pc \in Linking /\ UNCHANGED <<upload, alias, facts, adrift>>
      /\ request[r].s \in Names /\ request[r].o \in Names
  BY DEF Inv, RequestInv, Local, InFlight, At, Linking, UpsertSubject, UpsertObject
<1>1. PICK pc \in Pcs : /\ Goes(r, pc)
                        /\ \/ pc = "object" /\ UpsertSubject(r)
                           \/ pc = "old" /\ UpsertObject(r)
  BY DEF UpsertSubject, UpsertObject, Pcs
<1>2. /\ entity \subseteq entity' /\ entity' \subseteq Names
      /\ request[r].s \in entity' /\ (pc = "old" => request[r].o \in entity')
  <2>1. CASE UpsertSubject(r) /\ pc = "object"
    BY <1>0, <2>1 DEF UpsertSubject, Inv, GraphInv
  <2>2. CASE UpsertObject(r) /\ pc = "old"
    BY <1>0, <2>2 DEF UpsertObject, Inv, GraphInv, Local, At
  <2> QED
    BY <1>1, <2>1, <2>2
<1>3. Rows' = Rows
  BY <1>0 DEF Rows
<1>4. GraphInv'
  BY <1>0, <1>2, <1>3 DEF Inv, GraphInv, FactIsReachable
<1> QED
  BY <1>0, <1>1, <1>2, <1>3, <1>4, GoesOn, GraphKeeps DEF Linking, Local

\* The facts a step leaves are facts whose names have a row, or are adrift.
LEMMA FactsKeep ==
  ASSUME Inv, entity' \subseteq Names, alias' \in [Names -> SUBSET Names],
         entity \cup adrift \subseteq entity' \cup adrift',
         facts' = [f \in Ids |-> facts'[f]],
         \A f \in Ids : \/ facts'[f] = facts[f]
                        \/ /\ facts'[f] \in Fact
                           /\ facts'[f].s \in entity' \cup adrift'
                           /\ facts'[f].o \in entity' \cup adrift'
  PROVE  GraphInv' /\ Rows \subseteq Rows'
<1>1. Rows \subseteq Rows'
  BY NoneAssumption DEF Rows
<1>2. facts' \in [Ids -> Fact \union {None}]
  BY DEF Inv, GraphInv
<1>3. FactIsReachable'
  BY DEF Inv, GraphInv, FactIsReachable, Rows
<1> QED
  BY <1>1, <1>2, <1>3 DEF GraphInv

LEMMA FactReach == ASSUME Inv, NEW f \in Rows
                   PROVE  facts[f].s \in entity \cup adrift /\ facts[f].o \in entity \cup adrift
BY DEF Inv, GraphInv, FactIsReachable

LEMMA SourceKeeps == ASSUME Inv, NEW r \in Requests, AddSource(r) PROVE Inv'
<1>0. /\ Local(r) /\ InFlight(r) /\ request[r].pc = "source" /\ request[r].rows \subseteq Rows
      /\ request' = [request EXCEPT ![r] = Over]
      /\ UNCHANGED <<upload, entity, alias, adrift, past>>
  BY DEF Inv, RequestInv, Local, InFlight, At, AddSource, Answers
<1> DEFINE docs == request[r].seen \union {r}
<1>1. docs \subseteq Requests
  BY <1>0 DEF Local
<1>2. facts' = [f \in Ids |-> IF f \in request[r].rows
                  THEN [facts[f] EXCEPT !.docs = docs] ELSE facts[f]]
  BY DEF AddSource
<1> HIDE DEF docs
<1>3. ASSUME NEW f \in Rows
      PROVE  /\ [facts[f] EXCEPT !.docs = docs] \in Fact
             /\ [facts[f] EXCEPT !.docs = docs].s = facts[f].s
             /\ [facts[f] EXCEPT !.docs = docs].o = facts[f].o
  BY <1>1, <1>3, FactOf DEF Fact
<1>4. \A f \in Ids : \/ facts'[f] = facts[f]
                     \/ /\ facts'[f] \in Fact
                        /\ facts'[f].s \in entity' \cup adrift'
                        /\ facts'[f].o \in entity' \cup adrift'
  BY <1>0, <1>2, <1>3, FactReach
<1>5. GraphInv' /\ Rows \subseteq Rows'
  BY <1>0, <1>2, <1>4, FactsKeep DEF Inv, GraphInv
<1> QED
  BY <1>0, <1>5, IdleIs, GraphKeeps DEF Linking

LEMMA AddKeeps == ASSUME Inv, NEW r \in Requests, AddFact(r) PROVE Inv'
<1>0. /\ Local(r) /\ InFlight(r) /\ request[r].pc = "add"
      /\ request[r].s \in entity /\ request[r].o \in entity
      /\ UNCHANGED <<upload, entity, alias, adrift>>
  BY DEF Inv, RequestInv, Local, InFlight, At, AddFact
<1>1. PICK g \in Ids \ Rows : facts' = [Superseded(request[r].rows) EXCEPT ![g] = NewFact(r)]
  BY DEF AddFact
<1>2. \A f \in Ids : facts'[f] = IF f = g THEN NewFact(r)
                                 ELSE IF f \in request[r].rows
                                      THEN [facts[f] EXCEPT !.active = FALSE] ELSE facts[f]
  BY <1>1 DEF Superseded
<1>3. NewFact(r) \in Fact /\ NewFact(r).s = request[r].s /\ NewFact(r).o = request[r].o
  BY <1>0 DEF NewFact, Fact, Inv, GraphInv
<1>4. ASSUME NEW f \in Rows
      PROVE  /\ [facts[f] EXCEPT !.active = FALSE] \in Fact
             /\ [facts[f] EXCEPT !.active = FALSE].s = facts[f].s
             /\ [facts[f] EXCEPT !.active = FALSE].o = facts[f].o
  BY <1>4, FactOf DEF Fact
<1>5. \A f \in Ids : \/ facts'[f] = facts[f]
                     \/ /\ facts'[f] \in Fact
                        /\ facts'[f].s \in entity' \cup adrift'
                        /\ facts'[f].o \in entity' \cup adrift'
  BY <1>0, <1>2, <1>3, <1>4, FactReach DEF Local
<1>6. facts' = [f \in Ids |-> facts'[f]]
  BY <1>1 DEF Superseded
<1>7. GraphInv' /\ Rows \subseteq Rows'
  BY <1>0, <1>5, <1>6, FactsKeep DEF Inv, GraphInv
<1>8. PICK now \in AnyRequest : /\ request' = [request EXCEPT ![r] = now] /\ UNCHANGED past
                                /\ now.rows = {}
                                /\ now.pc = "over" \/ (now.pc = "finish" /\ now.kind = request[r].kind)
  <2>1. CASE request[r].kind = "complete"
    <3> DEFINE now == [Idle EXCEPT !.pc = "finish", !.kind = "complete"]
    <3>1. now \in AnyRequest /\ now.pc = "finish" /\ now.kind = "complete" /\ now.rows = {}
      BY DEF AnyRequest, Idle, Pcs, AllKinds, Ids
    <3>2. request' = [request EXCEPT ![r] = now] /\ UNCHANGED past
      BY <2>1 DEF AddFact, Added, Becomes
    <3> HIDE DEF now
    <3> QED
      BY <2>1, <3>1, <3>2
  <2>2. CASE request[r].kind # "complete"
    BY <2>2, IdleIs DEF AddFact, Added, Answers
  <2> QED
    BY <2>1, <2>2
<1>9. now.pc \in {"over", "finish"} /\ now.pc \notin Linking
  BY <1>8 DEF Linking
<1> QED
  BY <1>0, <1>7, <1>8, <1>9, GraphKeeps

LEMMA RepointKeeps == ASSUME Inv, NEW r \in Requests, Repoint(r) PROVE Inv'
<1> DEFINE to == request[r].o
           now == [request[r] EXCEPT !.pc = "aliases", !.rows = {}, !.objects = {}]
<1>0. /\ Local(r) /\ InFlight(r) /\ to \in Names /\ request[r].s \in Names
      /\ request[r] \in AnyRequest
      /\ request' = [request EXCEPT ![r] = now] /\ adrift' = adrift \union {to}
      /\ UNCHANGED <<upload, entity, alias, past>>
  BY DEF Inv, RequestInv, Local, InFlight, At, Repoint, Becomes, Linking
<1>1. /\ now \in AnyRequest /\ now.pc = "aliases" /\ now.kind = request[r].kind
      /\ now.s = request[r].s /\ now.o = to /\ now.rows = {}
  BY <1>0 DEF AnyRequest, Pcs
<1>2. facts' = [f \in Ids |-> IF facts[f] = None THEN None ELSE
        [facts[f] EXCEPT !.s = IF f \in request[r].rows THEN to ELSE @,
                         !.o = IF f \in request[r].objects THEN to ELSE @]]
  BY DEF Repoint
<1> HIDE DEF to, now
<1>3. ASSUME NEW f \in Rows
      PROVE  /\ facts'[f] \in Fact
             /\ facts'[f].s \in {facts[f].s, to} /\ facts'[f].o \in {facts[f].o, to}
  <2>1. facts[f] \in Fact /\ f \in Ids /\ facts[f] # None
    BY <1>3, FactOf DEF Rows
  <2>2. facts'[f] = [facts[f] EXCEPT !.s = IF f \in request[r].rows THEN to ELSE @,
                                     !.o = IF f \in request[r].objects THEN to ELSE @]
    BY <1>2, <2>1
  <2> QED
    BY <1>0, <2>1, <2>2 DEF Fact
<1>4. \A f \in Ids : \/ facts'[f] = facts[f]
                     \/ /\ facts'[f] \in Fact
                        /\ facts'[f].s \in entity' \cup adrift'
                        /\ facts'[f].o \in entity' \cup adrift'
  <2> SUFFICES ASSUME NEW f \in Ids
               PROVE  \/ facts'[f] = facts[f]
                      \/ /\ facts'[f] \in Fact
                         /\ facts'[f].s \in entity' \cup adrift'
                         /\ facts'[f].o \in entity' \cup adrift'
    OBVIOUS
  <2>1. CASE facts[f] = None
    BY <1>2, <2>1
  <2>2. CASE f \in Rows
    <3>1. facts[f].s \in entity \cup adrift /\ facts[f].o \in entity \cup adrift
      BY <2>2, FactReach
    <3> QED
      BY <1>0, <1>3, <2>2, <3>1
  <2> QED
    BY <2>1, <2>2 DEF Rows
<1>5. GraphInv' /\ Rows \subseteq Rows'
  BY <1>0, <1>2, <1>4, FactsKeep DEF Inv, GraphInv
<1> QED
  BY <1>0, <1>1, <1>5, GraphKeeps DEF Linking

LEMMA AliasKeeps == ASSUME Inv, NEW r \in Requests, WriteAliases(r) PROVE Inv'
<1> DEFINE to == request[r].o
<1>0. /\ InFlight(r) /\ to \in Names /\ request[r].s \in Names
      /\ request' = [request EXCEPT ![r] = Over]
      /\ adrift' = adrift \ {to} /\ entity' = entity \union {to}
      /\ UNCHANGED <<upload, facts, past>>
  BY DEF Inv, RequestInv, Local, InFlight, At, WriteAliases, Answers, Linking
<1>1. alias' \in [Names -> SUBSET Names]
  <2>1. request[r].seen \union {request[r].s} \subseteq Names
    BY <1>0 DEF WriteAliases, At, Inv, RequestInv, Local
  <2> HIDE DEF to
  <2>2. alias' = [alias EXCEPT ![to] = request[r].seen \union {request[r].s}]
    BY DEF WriteAliases, to
  <2> QED
    BY <2>1, <2>2 DEF Inv, GraphInv
<1>2. facts' = [f \in Ids |-> facts'[f]]
  BY <1>0 DEF Inv, GraphInv
<1> HIDE DEF to
<1>3. GraphInv' /\ Rows \subseteq Rows'
  BY <1>0, <1>1, <1>2, FactsKeep DEF Inv, GraphInv
<1> QED
  BY <1>0, <1>3, IdleIs, GraphKeeps DEF Linking

LEMMA NextKeeps == Inv /\ [Next]_vars => Inv'
<1> SUFFICES ASSUME Inv, [Next]_vars PROVE Inv'
  OBVIOUS
<1>1. CASE UNCHANGED vars
  <2>1. UNCHANGED <<graph, request, upload, past>>
    BY <1>1 DEF vars
  <2>2. GraphInv' /\ Rows' = Rows /\ UNCHANGED entity
    BY <2>1, QuietGraph
  <2> QED
    BY <2>1, <2>2 DEF Inv, RequestInv, Local, WholeInv, Completing, InFlight,
                      DocumentIsWhole, upload
<1>2. ASSUME NEW r \in Requests, Step(r) PROVE Inv'
  BY <1>2, SendKeeps, CompleteKeeps, ExtractKeeps, FindKeeps, UpsertKeeps, SourceKeeps,
     AddKeeps, RepointKeeps, AliasKeeps DEF Step
<1> QED
  BY <1>1, <1>2, AskKeeps, ExtractKeeps DEF Next

LEMMA Always == Spec => []Inv
BY InitInv, NextKeeps, PTL DEF Spec

-----------------------------------------------------------------------------
\* A document lacks nothing of its file, whatever parts are sent, sent again
\* or late, as long as no two completions of the upload meet.
THEOREM DocumentAlwaysWhole == Spec => []DocumentIsWhole
<1>1. Inv => DocumentIsWhole
  BY DEF Inv, WholeInv, DocumentIsWhole
<1> QED
  BY <1>1, Always, PTL

\* A query that names the subject or the object of a fact finds it, but for
\* the names of merges that have not ended, or ended between two transactions.
THEOREM FactAlwaysReachable == Spec => []FactIsReachable
<1>1. Inv => FactIsReachable
  BY DEF Inv, GraphInv
<1> QED
  BY <1>1, Always, PTL

-----------------------------------------------------------------------------
(* The newest fact *)

\* What a request is at says of which kind it is.
Adding == {"find", "sources", "source", "subject", "object", "old", "add"}
Merging == {"facts", "repoint", "aliases", "alias"}
KindInv ==
  \A r \in Requests :
    /\ request[r].pc \in Adding => request[r].kind \in Adds
    /\ request[r].pc \in Merging => request[r].kind = "merge"

\* What has not met is not in flight together.
Extends(r) == InFlight(r) /\ request[r].kind \in Adds
Merges(r) == InFlight(r) /\ request[r].kind = "merge"
ApartInv ==
  /\ "merge" \notin past => \A r, q \in Requests : ~(Extends(r) /\ Merges(q))
  /\ "facts" \notin past => \A r, q \in Requests : Extends(r) /\ Extends(q) => r = q
  /\ "merged" \notin past => \A r \in Requests : ~Merges(r)

\* Two facts that no merge under way will part.
Together(f, g) ==
  /\ facts[f].s = facts[g].s
  /\ \A r \in Requests : At(r, "repoint") => (f \in request[r].rows <=> g \in request[r].rows)
\* Each fact stays with an active one.  What an addition has read is of its
\* subject; when nothing has met, it is all that is active there.
ActiveInv ==
  "merge" \notin past =>
    /\ \A f \in Rows : \E g \in Rows : facts[g].active /\ Together(f, g)
    /\ \A r \in Requests : At(r, "add") => \A f \in request[r].rows : facts[f].s = request[r].s
OneInv ==
  past \intersect {"facts", "merge", "merged"} = {} =>
    /\ \A f, g \in Rows : facts[f].active /\ facts[g].active /\ facts[f].s = facts[g].s => f = g
    /\ \A r \in Requests : At(r, "add") => Active(request[r].s) = request[r].rows

NewestInv == KindInv /\ ApartInv /\ ActiveInv /\ OneInv

\* A step of a request in flight leaves it over, or in flight and of its kind.
\* It comes to "add" by reading the old fact, and to "repoint" by reading the
\* facts of its name.
Shape(r, now) ==
  /\ request' = [request EXCEPT ![r] = now] /\ UNCHANGED past /\ InFlight(r)
  /\ now.pc = "over" \/ (now.pc # "idle" /\ now.kind = request[r].kind)
  /\ now.pc \in Adding => now.kind \in Adds
  /\ now.pc \in Merging => now.kind = "merge"
  /\ now.pc = "add" => ReadOldFact(r)
  /\ now.pc = "repoint" => ReadFacts(r)

LEMMA GoesShape ==
  ASSUME Inv, KindInv, NEW r \in Requests, NEW pc \in Pcs, Goes(r, pc), InFlight(r),
         pc \notin {"idle", "over", "add", "repoint"},
         pc \in Adding => request[r].kind \in Adds,
         pc \in Merging => request[r].kind = "merge"
  PROVE  \E now : Shape(r, now)
BY GoesOn DEF Shape

LEMMA BecomesShape ==
  ASSUME Inv, KindInv, NEW r \in Requests, NEW now, Becomes(r, now), InFlight(r),
         now.pc \notin {"idle", "over", "add", "repoint"}, now.kind = request[r].kind,
         now.pc \in Adding => request[r].kind \in Adds,
         now.pc \in Merging => request[r].kind = "merge"
  PROVE  \E then : Shape(r, then)
BY DEF Shape, Becomes

LEMMA AnswersShape ==
  ASSUME Inv, NEW r \in Requests, NEW what, Answers(r, what), InFlight(r)
  PROVE  \E now : Shape(r, now)
<1>1. Shape(r, Over)
  BY IdleIs DEF Shape, Answers, Adding, Merging
<1> QED
  BY <1>1

\* The steps of the upload.
LEMMA UploadShape ==
  ASSUME Inv, KindInv, NEW r \in Requests,
         \/ StorePart(r) \/ CheckParts(r) \/ ReadParts(r) \/ CleanUp(r) \/ Parse(r) \/ Discard(r)
         \/ IngestFile(r) \/ ExtractToGraph(r) \/ FinishComplete(r)
  PROVE  (\E now : Shape(r, now)) /\ UNCHANGED facts
<1>0. request[r] \in AnyRequest /\ Local(r)
  BY DEF Inv, RequestInv, Local
<1>1. UNCHANGED facts
  BY DEF StorePart, CheckParts, ReadParts, CleanUp, Parse, Discard, IngestFile, ExtractToGraph,
    FinishComplete, Cleaned, graph
<1>2. InFlight(r)
  BY DEF StorePart, CheckParts, ReadParts, CleanUp, Parse, Discard, IngestFile, ExtractToGraph,
    FinishComplete, InFlight, At
<1> USE <1>0, <1>1, <1>2
<1>3. CASE StorePart(r) \/ Discard(r) \/ FinishComplete(r)
  BY <1>3, AnswersShape DEF StorePart, Discard, FinishComplete
<1>4. CASE CheckParts(r)
  BY <1>4, AnswersShape, GoesShape DEF CheckParts, Pcs, Adding, Merging
<1>5. CASE CleanUp(r)
  BY <1>5, GoesShape DEF CleanUp, Pcs, Adding, Merging
<1>6. CASE Parse(r)
  BY <1>6, GoesShape DEF Parse, Pcs, Adding, Merging
<1>7. CASE ReadParts(r)
  <2> DEFINE now == [request[r] EXCEPT !.pc = "clean", !.parts = parts]
  <2>1. Becomes(r, now)
    BY <1>7 DEF ReadParts
  <2>2. now.pc = "clean" /\ now.kind = request[r].kind
    BY DEF AnyRequest
  <2> QED
    BY <2>1, <2>2, BecomesShape DEF Adding, Merging
<1>8. CASE IngestFile(r)
  <2> DEFINE now == [request[r] EXCEPT !.pc = "extract", !.parts = {}]
  <2>1. Becomes(r, now)
    BY <1>8 DEF IngestFile
  <2>2. now.pc = "extract" /\ now.kind = request[r].kind
    BY DEF AnyRequest
  <2> QED
    BY <2>1, <2>2, BecomesShape DEF Adding, Merging
<1>9. CASE ExtractToGraph(r)
  <2>0. request[r].kind = "complete" /\ "complete" \in Adds
    BY <1>9 DEF ExtractToGraph, At, Local, Uploading, Adds
  <2>1. CASE Goes(r, "finish")
    BY <2>1, GoesShape DEF Pcs, Adding, Merging
  <2>2. ASSUME NEW s, NEW o, Becomes(r, [request[r] EXCEPT !.pc = "subject", !.s = s, !.o = o])
        PROVE  \E now : Shape(r, now)
    <3> DEFINE now == [request[r] EXCEPT !.pc = "subject", !.s = s, !.o = o]
    <3>1. now.pc = "subject" /\ now.kind = request[r].kind
      BY DEF AnyRequest
    <3> QED
      BY <2>0, <2>2, <3>1, BecomesShape DEF Merging
  <2> QED
    BY <1>9, <2>1, <2>2 DEF ExtractToGraph
<1> QED
  BY <1>3, <1>4, <1>5, <1>6, <1>7, <1>8, <1>9

\* The steps of the graph.
LEMMA GraphShape ==
  ASSUME Inv, KindInv, NEW r \in Requests,
         \/ FindActiveFact(r) \/ ReadSources(r) \/ AddSource(r)
         \/ UpsertSubject(r) \/ UpsertObject(r) \/ ReadOldFact(r) \/ AddFact(r)
         \/ ReadFacts(r) \/ Repoint(r) \/ ReadAliases(r) \/ WriteAliases(r)
  PROVE  \E now : Shape(r, now)
<1>0. request[r] \in AnyRequest
  BY DEF Inv, RequestInv, Local
<1>1. request[r].pc \in Adding => request[r].kind \in Adds
  BY DEF KindInv
<1>2. request[r].pc \in Merging => request[r].kind = "merge"
  BY DEF KindInv
<1>3. InFlight(r)
  BY DEF FindActiveFact, ReadSources, AddSource, UpsertSubject, UpsertObject, ReadOldFact, AddFact,
    ReadFacts, Repoint, ReadAliases, WriteAliases, InFlight, At
<1> USE <1>0, <1>1, <1>2, <1>3
<1>4. CASE AddSource(r) \/ WriteAliases(r)
  BY <1>4, AnswersShape DEF AddSource, WriteAliases
<1>5. CASE UpsertSubject(r) \/ UpsertObject(r)
  BY <1>5, GoesShape DEF UpsertSubject, UpsertObject, At, Pcs, Adding, Merging
<1>6. CASE FindActiveFact(r)
  <2>1. request[r].pc = "find"
    BY <1>6 DEF FindActiveFact, At
  <2>2. CASE Goes(r, "subject")
    BY <2>1, <2>2, GoesShape DEF Pcs, Adding, Merging
  <2>3. ASSUME NEW f, Becomes(r, [request[r] EXCEPT !.pc = "sources", !.rows = {f}])
        PROVE  \E now : Shape(r, now)
    <3> DEFINE now == [request[r] EXCEPT !.pc = "sources", !.rows = {f}]
    <3>1. now.pc = "sources" /\ now.kind = request[r].kind
      BY DEF AnyRequest
    <3> QED
      BY <2>1, <2>3, <3>1, BecomesShape DEF Adding, Merging
  <2> QED
    BY <1>6, <2>2, <2>3 DEF FindActiveFact
<1>7. CASE ReadSources(r)
  <2> DEFINE docs == UNION {facts[f].docs : f \in request[r].rows}
             now == [request[r] EXCEPT !.pc = "source", !.seen = docs]
  <2>1. Becomes(r, now) /\ request[r].pc = "sources"
    BY <1>7 DEF ReadSources, At
  <2> HIDE DEF docs
  <2>2. now.pc = "source" /\ now.kind = request[r].kind
    BY DEF AnyRequest
  <2> QED
    BY <2>1, <2>2, BecomesShape DEF Adding, Merging
<1>8. CASE ReadOldFact(r)
  <2>1. PICK old : Becomes(r, [request[r] EXCEPT !.pc = "add", !.rows = old])
    BY <1>8 DEF ReadOldFact
  <2> DEFINE now == [request[r] EXCEPT !.pc = "add", !.rows = old]
  <2>2. now.pc = "add" /\ now.kind = request[r].kind
    BY DEF AnyRequest
  <2>3. request[r].kind \in Adds
    BY <1>8 DEF ReadOldFact, At, Adding
  <2> QED
    BY <1>8, <2>1, <2>2, <2>3 DEF Shape, Becomes, Merging
<1>9. CASE AddFact(r)
  <2>1. CASE request[r].kind = "complete"
    <3> DEFINE now == [Idle EXCEPT !.pc = "finish", !.kind = "complete"]
    <3>1. Becomes(r, now) /\ now.pc = "finish" /\ now.kind = "complete"
      BY <1>9, <2>1 DEF AddFact, Added, Idle
    <3> QED
      BY <2>1, <3>1, BecomesShape DEF Adding, Merging
  <2>2. CASE request[r].kind # "complete"
    BY <1>9, <2>2, AnswersShape DEF AddFact, Added
  <2> QED
    BY <2>1, <2>2
<1>10. CASE ReadFacts(r)
  <2> DEFINE of == Of(request[r].s)
             by == {f \in Rows : facts[f].o = request[r].s}
             now == [request[r] EXCEPT !.pc = "repoint", !.rows = of, !.objects = by]
  <2>1. Becomes(r, now) /\ request[r].pc = "facts"
    BY <1>10 DEF ReadFacts, At
  <2> HIDE DEF of, by
  <2>2. now.pc = "repoint" /\ now.kind = request[r].kind
    BY DEF AnyRequest
  <2> QED
    BY <1>10, <2>1, <2>2 DEF Shape, Becomes, Adding, Merging
<1>11. CASE Repoint(r)
  <2> DEFINE now == [request[r] EXCEPT !.pc = "aliases", !.rows = {}, !.objects = {}]
  <2>1. Becomes(r, now) /\ request[r].pc = "repoint"
    BY <1>11 DEF Repoint, At
  <2>2. now.pc = "aliases" /\ now.kind = request[r].kind
    BY DEF AnyRequest
  <2> QED
    BY <2>1, <2>2, BecomesShape DEF Adding, Merging
<1>12. CASE ReadAliases(r)
  <2> DEFINE names == alias[request[r].o]
             now == [request[r] EXCEPT !.pc = "alias", !.seen = names]
  <2>1. Becomes(r, now) /\ request[r].pc = "aliases"
    BY <1>12 DEF ReadAliases, At
  <2> HIDE DEF names
  <2>2. now.pc = "alias" /\ now.kind = request[r].kind
    BY DEF AnyRequest
  <2> QED
    BY <2>1, <2>2, BecomesShape DEF Adding, Merging
<1> QED
  BY <1>4, <1>5, <1>6, <1>7, <1>8, <1>9, <1>10, <1>11, <1>12

LEMMA CutShape ==
  ASSUME Inv, KindInv, NEW r \in Requests, Cut(r)
  PROVE  (\E now : Shape(r, now)) /\ UNCHANGED facts
<1>1. InFlight(r) /\ UNCHANGED facts
  BY DEF Cut, graph
<1>2. CASE Answers(r, "error")
  BY <1>1, <1>2, AnswersShape
<1>3. CASE request[r].kind = "complete" /\ Becomes(r, [Idle EXCEPT !.pc = "finish", !.kind = "complete"])
  <2> DEFINE now == [Idle EXCEPT !.pc = "finish", !.kind = "complete"]
  <2>1. now.pc = "finish" /\ now.kind = "complete"
    BY DEF Idle
  <2> QED
    BY <1>1, <1>3, <2>1, BecomesShape DEF Adding, Merging
<1> QED
  BY <1>1, <1>2, <1>3 DEF Cut

\* The arrival of a request notes what it meets.
LEMMA AskShape ==
  ASSUME Inv, NEW r \in Requests, Ask(r)
  PROVE  \E kind \in AllKinds : \E now :
           /\ request' = [request EXCEPT ![r] = now] /\ now.kind = kind
           /\ ~InFlight(r) /\ UNCHANGED facts /\ past \subseteq past'
           /\ now.pc \in Adding => kind \in Adds
           /\ now.pc \in Merging => kind = "merge"
           /\ now.pc \notin {"add", "repoint"}
           /\ kind \in Adds /\ Meets(r, Adds) => "facts" \in past'
           /\ kind \in Adds /\ Meets(r, {"merge"}) => "merge" \in past'
           /\ kind = "merge" /\ Meets(r, Adds) => "merge" \in past'
           /\ kind = "merge" => "merged" \in past'
<1>1. ASSUME NEW kind \in AllKinds, NEW now, Begins(r, kind, now), DOMAIN now = DOMAIN Idle,
             now.pc \in {"store", "check", "subject", "find", "facts"},
             now.pc \in {"subject", "find"} => kind \in Adds, now.pc = "facts" => kind = "merge"
      PROVE  \E k \in AllKinds : \E new :
           /\ request' = [request EXCEPT ![r] = new] /\ new.kind = k
           /\ ~InFlight(r) /\ UNCHANGED facts /\ past \subseteq past'
           /\ new.pc \in Adding => k \in Adds
           /\ new.pc \in Merging => k = "merge"
           /\ new.pc \notin {"add", "repoint"}
           /\ k \in Adds /\ Meets(r, Adds) => "facts" \in past'
           /\ k \in Adds /\ Meets(r, {"merge"}) => "merge" \in past'
           /\ k = "merge" /\ Meets(r, Adds) => "merge" \in past'
           /\ k = "merge" => "merged" \in past'
  <2> DEFINE new == [now EXCEPT !.kind = kind]
  <2>1. new.kind = kind /\ new.pc = now.pc
    BY <1>1 DEF Idle
  <2>2. request' = [request EXCEPT ![r] = new] /\ UNCHANGED facts /\ ~InFlight(r)
    BY <1>1 DEF Begins, graph, InFlight, At
  <2>3. /\ past \subseteq past'
        /\ kind \in Adds /\ Meets(r, Adds) => "facts" \in past'
        /\ kind \in Adds /\ Meets(r, {"merge"}) => "merge" \in past'
        /\ kind = "merge" /\ Meets(r, Adds) => "merge" \in past'
        /\ kind = "merge" => "merged" \in past'
    BY <1>1 DEF Begins
  <2> HIDE DEF new
  <2> QED
    BY <1>1, <2>1, <2>2, <2>3 DEF Adding, Merging
<1>2. ASSUME NEW i \in Indices, SendPart(r, i)
      PROVE  \E kind \in AllKinds : \E now : /\ Begins(r, kind, now) /\ DOMAIN now = DOMAIN Idle
                                         /\ now.pc = "store"
  <2> DEFINE known == i \in parts
             now == [Idle EXCEPT !.pc = "store", !.parts = {i}, !.found = known]
  <2>1. Begins(r, "send", now)
    BY <1>2 DEF SendPart
  <2> HIDE DEF known
  <2>2. DOMAIN now = DOMAIN Idle /\ now.pc = "store"
    BY DEF Idle
  <2> QED
    BY <2>1, <2>2 DEF AllKinds
<1>3. CASE Complete(r)
  <2> DEFINE now == [Idle EXCEPT !.pc = "check"]
  <2>1. Begins(r, "complete", now) /\ DOMAIN now = DOMAIN Idle /\ now.pc = "check"
    BY <1>3 DEF Complete, Idle
  <2> HIDE DEF now
  <2> QED
    BY <1>1, <2>1 DEF AllKinds
<1>4. ASSUME NEW s, NEW o, AddByHand(r, s, o) \/ Extract(r, s, o)
      PROVE  \E kind \in Adds : \E now : /\ Begins(r, kind, now) /\ DOMAIN now = DOMAIN Idle
                                     /\ now.pc \in {"subject", "find"}
  <2>1. "fact" \in AllKinds /\ "extract" \in AllKinds /\ "fact" \in Adds /\ "extract" \in Adds
    BY DEF AllKinds, Adds
  <2>2. CASE AddByHand(r, s, o)
    <3>1. \E now : Begins(r, "fact", now) /\ DOMAIN now = DOMAIN Idle /\ now.pc = "subject"
      <4> DEFINE now == [Idle EXCEPT !.pc = "subject", !.s = s, !.o = o]
      <4>1. Begins(r, "fact", now) /\ DOMAIN now = DOMAIN Idle /\ now.pc = "subject"
        BY <2>2 DEF AddByHand, Idle
      <4> QED
        BY <4>1
    <3> QED
      BY <2>1, <3>1
  <2>3. CASE Extract(r, s, o)
    <3>1. \E now : Begins(r, "extract", now) /\ DOMAIN now = DOMAIN Idle /\ now.pc = "find"
      <4> DEFINE now == [Idle EXCEPT !.pc = "find", !.s = s, !.o = o]
      <4>1. Begins(r, "extract", now) /\ DOMAIN now = DOMAIN Idle /\ now.pc = "find"
        BY <2>3 DEF Extract, Idle
      <4> QED
        BY <4>1
    <3> QED
      BY <2>1, <3>1
  <2> QED
    BY <1>4, <2>2, <2>3
<1>5. ASSUME NEW s, NEW o, Merge(r, s, o)
      PROVE  \E now : Begins(r, "merge", now) /\ DOMAIN now = DOMAIN Idle /\ now.pc = "facts"
  <2> DEFINE now == [Idle EXCEPT !.pc = "facts", !.s = s, !.o = o]
  <2>1. Begins(r, "merge", now) /\ DOMAIN now = DOMAIN Idle /\ now.pc = "facts"
    BY <1>5 DEF Merge, Idle
  <2> QED
    BY <2>1
<1>6. Adds \subseteq AllKinds /\ "merge" \in AllKinds
  BY DEF Adds, AllKinds
<1>7. CASE \E i \in Indices : SendPart(r, i)
  BY <1>1, <1>2, <1>7
<1>8. CASE \E s, o \in Names : AddByHand(r, s, o) \/ Extract(r, s, o)
  BY <1>1, <1>4, <1>6, <1>8
<1>9. CASE \E s, o \in Names : Merge(r, s, o)
  BY <1>1, <1>5, <1>6, <1>9
<1> QED
  BY <1>3, <1>7, <1>8, <1>9 DEF Ask

LEMMA ShapeApart ==
  ASSUME Inv, KindInv, ApartInv, NEW r \in Requests, NEW now, Shape(r, now)
  PROVE  KindInv' /\ ApartInv'
<1>1. /\ request'[r] = now /\ UNCHANGED past
      /\ \A q \in Requests \ {r} : request'[q] = request[q]
  BY NowIs DEF Shape
<1>2. KindInv'
  BY <1>1 DEF KindInv, Shape
<1>3. \A q \in Requests : (Extends(q)' => Extends(q)) /\ (Merges(q)' => Merges(q))
  BY <1>1 DEF Extends, Merges, InFlight, Shape
<1> QED
  BY <1>1, <1>2, <1>3 DEF ApartInv

LEMMA AskApart ==
  ASSUME Inv, KindInv, ApartInv, NEW r \in Requests, Ask(r)
  PROVE  KindInv' /\ ApartInv'
<1>1. PICK kind, now :
           /\ kind \in AllKinds
           /\ request' = [request EXCEPT ![r] = now] /\ now.kind = kind
           /\ past \subseteq past'
           /\ now.pc \in Adding => kind \in Adds
           /\ now.pc \in Merging => kind = "merge"
           /\ kind \in Adds /\ Meets(r, Adds) => "facts" \in past'
           /\ kind \in Adds /\ Meets(r, {"merge"}) => "merge" \in past'
           /\ kind = "merge" /\ Meets(r, Adds) => "merge" \in past'
           /\ kind = "merge" => "merged" \in past'
  BY AskShape
<1>2. request'[r] = now /\ \A q \in Requests \ {r} : request'[q] = request[q]
  BY <1>1, NowIs
<1>3. KindInv'
  BY <1>1, <1>2 DEF KindInv
<1>4. \A q \in Requests \ {r} : Extends(q)' = Extends(q) /\ Merges(q)' = Merges(q)
  BY <1>2 DEF Extends, Merges, InFlight
<1>5. (Extends(r)' => kind \in Adds) /\ (Merges(r)' => kind = "merge")
  BY <1>1, <1>2 DEF Extends, Merges
<1>6. /\ \A q \in Requests \ {r} : Extends(q) => Meets(r, Adds)
      /\ \A q \in Requests \ {r} : Merges(q) => Meets(r, {"merge"})
  BY DEF Extends, Merges, Meets
<1>7. "merge" \notin Adds
  BY DEF Adds
<1> HIDE DEF Extends, Merges
<1>8. ASSUME "merge" \notin past', NEW p \in Requests, NEW q \in Requests, Extends(p)', Merges(q)'
      PROVE  FALSE
  <2>1. CASE p = r /\ q = r
    BY <1>5, <1>7, <1>8, <2>1
  <2>2. CASE p = r /\ q # r
    BY <1>1, <1>4, <1>5, <1>6, <1>8, <2>2
  <2>3. CASE p # r /\ q = r
    BY <1>1, <1>4, <1>5, <1>6, <1>8, <2>3
  <2>4. CASE p # r /\ q # r
    BY <1>1, <1>4, <1>8, <2>4 DEF ApartInv
  <2> QED
    BY <2>1, <2>2, <2>3, <2>4
<1>9. ASSUME "facts" \notin past', NEW p \in Requests, NEW q \in Requests, Extends(p)', Extends(q)'
      PROVE  p = q
  <2>1. CASE p # r /\ q # r
    BY <1>1, <1>4, <1>9, <2>1 DEF ApartInv
  <2>2. CASE p = r /\ q # r
    BY <1>1, <1>4, <1>5, <1>6, <1>9, <2>2
  <2>3. CASE p # r /\ q = r
    BY <1>1, <1>4, <1>5, <1>6, <1>9, <2>3
  <2> QED
    BY <2>1, <2>2, <2>3
<1>10. ASSUME "merged" \notin past', NEW p \in Requests, Merges(p)' PROVE FALSE
  BY <1>1, <1>4, <1>5, <1>10 DEF ApartInv
<1>11. ApartInv'
  BY <1>8, <1>9, <1>10 DEF ApartInv
<1> QED
  BY <1>3, <1>11

\* A step that leaves the subjects and the activity of the facts, of a request
\* that has read all the facts of a name, or the active one of its subject.
LEMMA QuietNewest ==
  ASSUME Inv, ActiveInv, OneInv, NEW r \in Requests, NEW now,
         request' = [request EXCEPT ![r] = now], past \subseteq past', Rows' = Rows,
         \A f \in Rows : facts'[f].s = facts[f].s /\ facts'[f].active = facts[f].active,
         now.pc = "repoint" => \E s : now.rows = Of(s),
         now.pc = "add" => \/ Active(now.s) = {} /\ now.rows = {}
                           \/ \E f \in Active(now.s) : now.rows = {f}
  PROVE  ActiveInv' /\ OneInv'
<1>1. request'[r] = now /\ \A q \in Requests \ {r} : request'[q] = request[q]
  BY NowIs
<1>2. ASSUME NEW s PROVE Active(s)' = Active(s)
  BY DEF Active, Of
<1>3. ASSUME NEW f \in Rows, NEW g \in Rows, Together(f, g)
      PROVE  Together(f, g)'
  <2>1. facts'[f].s = facts'[g].s
    BY <1>3 DEF Together
  <2>2. ASSUME NEW q \in Requests, At(q, "repoint")'
        PROVE  f \in request'[q].rows <=> g \in request'[q].rows
    <3>1. CASE q # r
      BY <1>1, <1>3, <2>2, <3>1 DEF Together, At
    <3>2. CASE q = r
      <4>1. PICK s : now.rows = Of(s)
        BY <1>1, <2>2, <3>2 DEF At
      <4> QED
        BY <1>1, <1>3, <3>2, <4>1 DEF Together, Of
    <3> QED
      BY <3>1, <3>2
  <2> QED
    BY <2>1, <2>2 DEF Together
<1>4. ASSUME "merge" \notin past', NEW f \in Rows
      PROVE  \E g \in Rows : facts'[g].active /\ Together(f, g)'
  <2>1. PICK g \in Rows : facts[g].active /\ Together(f, g)
    BY <1>4 DEF ActiveInv
  <2> QED
    BY <1>3, <2>1
<1>5. ASSUME "merge" \notin past', NEW q \in Requests, At(q, "add")', NEW f \in request'[q].rows
      PROVE  facts'[f].s = request'[q].s
  <2>1. CASE q = r
    <3>1. f \in Active(now.s)
      BY <1>1, <1>5, <2>1 DEF At
    <3> QED
      BY <1>1, <2>1, <3>1 DEF Active, Of
  <2>2. CASE q # r
    <3>1. f \in request[q].rows /\ At(q, "add") /\ request'[q].s = request[q].s
      BY <1>1, <1>5, <2>2 DEF At
    <3>2. f \in Rows
      BY <3>1 DEF Inv, RequestInv, Local
    <3> QED
      BY <1>5, <3>1, <3>2 DEF ActiveInv
  <2> QED
    BY <2>1, <2>2
<1>6. ActiveInv'
  BY <1>4, <1>5 DEF ActiveInv
<1>7. OneInv'
  <2> SUFFICES ASSUME past' \intersect {"facts", "merge", "merged"} = {}
               PROVE  /\ \A f, g \in Rows : facts'[f].active /\ facts'[g].active
                            /\ facts'[f].s = facts'[g].s => f = g
                      /\ \A q \in Requests : At(q, "add")' =>
                           Active(request[q].s)' = request'[q].rows
    BY DEF OneInv
  <2>1. /\ \A f, g \in Rows : facts[f].active /\ facts[g].active /\ facts[f].s = facts[g].s => f = g
        /\ \A q \in Requests : At(q, "add") => Active(request[q].s) = request[q].rows
    BY DEF OneInv
  <2>2. ASSUME NEW s, NEW f \in Active(s) PROVE Active(s) = {f}
    BY <2>1, <2>2 DEF Active, Of
  <2>3. ASSUME NEW q \in Requests, At(q, "add")' PROVE Active(request[q].s)' = request'[q].rows
    <3>1. CASE q = r
      <4>1. PICK s : s = now.s
        OBVIOUS
      <4>2. Active(request[q].s)' = Active(s)'
        BY <1>1, <3>1, <4>1 DEF Active, Of
      <4>3. Active(s) = now.rows
        BY <1>1, <2>2, <2>3, <3>1, <4>1 DEF At
      <4> QED
        BY <1>1, <1>2, <3>1, <4>2, <4>3
    <3>2. CASE q # r
      <4>1. PICK s : s = request[q].s
        OBVIOUS
      <4>2. Active(s)' = Active(s) /\ request'[q] = request[q]
        BY <1>1, <1>2, <3>2
      <4>3. Active(s) = request[q].rows
        BY <2>1, <2>3, <3>2, <4>1, <4>2 DEF At
      <4>4. Active(request[q].s)' = Active(s)'
        BY <4>1, <4>2 DEF Active, Of
      <4> QED
        BY <4>2, <4>3, <4>4
    <3> QED
      BY <3>1, <3>2
  <2> QED
    BY <2>1, <2>3
<1> QED
  BY <1>6, <1>7

\* The reads that come before "add" and "repoint".
LEMMA ReadOld ==
  ASSUME Inv, NEW r \in Requests, NEW now, request' = [request EXCEPT ![r] = now], ReadOldFact(r)
  PROVE  /\ \/ Active(now.s) = {} /\ now.rows = {}
            \/ \E f \in Active(now.s) : now.rows = {f}
         /\ now.pc = "add"
<1>0. request[r] \in AnyRequest
  BY DEF Inv, RequestInv, Local
<1>1. PICK old : /\ Becomes(r, [request[r] EXCEPT !.pc = "add", !.rows = old])
                 /\ old \in {{f} : f \in Active(request[r].s)}
                             \union {x \in {{}} : Active(request[r].s) = {}}
  BY DEF ReadOldFact
<1>2. now = [request[r] EXCEPT !.pc = "add", !.rows = old]
  <2>1. request'[r] = now
    BY NowIs
  <2>2. request' = [request EXCEPT ![r] = [request[r] EXCEPT !.pc = "add", !.rows = old]]
    BY <1>1 DEF Becomes
  <2>3. DOMAIN request = Requests
    BY DEF Inv, RequestInv
  <2> QED
    BY <2>1, <2>2, <2>3
<1>3. now.pc = "add" /\ now.s = request[r].s /\ now.rows = old
  BY <1>0, <1>2 DEF AnyRequest
<1> QED
  BY <1>1, <1>3

LEMMA ReadAll ==
  ASSUME Inv, NEW r \in Requests, NEW now, request' = [request EXCEPT ![r] = now], ReadFacts(r)
  PROVE  now.rows = Of(request[r].s) /\ now.pc = "repoint"
<1>0. request[r] \in AnyRequest
  BY DEF Inv, RequestInv, Local
<1> DEFINE of == Of(request[r].s)
           by == {f \in Rows : facts[f].o = request[r].s}
<1>1. Becomes(r, [request[r] EXCEPT !.pc = "repoint", !.rows = of, !.objects = by])
  BY DEF ReadFacts
<1> HIDE DEF of, by
<1>2. now = [request[r] EXCEPT !.pc = "repoint", !.rows = of, !.objects = by]
  <2>1. request'[r] = now
    BY NowIs
  <2>2. request' = [request EXCEPT ![r] = [request[r] EXCEPT !.pc = "repoint", !.rows = of, !.objects = by]]
    BY <1>1 DEF Becomes
  <2>3. DOMAIN request = Requests
    BY DEF Inv, RequestInv
  <2> QED
    BY <2>1, <2>2, <2>3
<1> QED
  BY <1>0, <1>2 DEF AnyRequest, of

\* A step that leaves the subjects and the activity of the facts.
LEMMA QuietShape ==
  ASSUME Inv, NewestInv, NEW r \in Requests, NEW now, Shape(r, now), Rows' = Rows,
         \A f \in Rows : facts'[f].s = facts[f].s /\ facts'[f].active = facts[f].active
  PROVE  NewestInv'
<1>1. request' = [request EXCEPT ![r] = now] /\ past' = past
  BY DEF Shape
<1>2. now.pc = "repoint" => \E s : now.rows = Of(s)
  BY <1>1, ReadAll DEF Shape
<1>3. now.pc = "add" => \/ Active(now.s) = {} /\ now.rows = {}
                        \/ \E f \in Active(now.s) : now.rows = {f}
  BY <1>1, ReadOld DEF Shape
<1>4. ActiveInv' /\ OneInv'
  BY <1>1, <1>2, <1>3, QuietNewest DEF NewestInv
<1> QED
  BY <1>4, ShapeApart DEF NewestInv

LEMMA SourceNewest ==
  ASSUME Inv, NewestInv, NEW r \in Requests, AddSource(r)
  PROVE  NewestInv'
<1>1. PICK now : Shape(r, now)
  BY GraphShape DEF NewestInv
<1> DEFINE docs == request[r].seen \union {r}
<1>2. facts' = [f \in Ids |-> IF f \in request[r].rows
                  THEN [facts[f] EXCEPT !.docs = docs] ELSE facts[f]]
  BY DEF AddSource
<1> HIDE DEF docs
<1>3. ASSUME NEW f \in Rows
      PROVE  /\ facts'[f].s = facts[f].s /\ facts'[f].active = facts[f].active
             /\ f \in Ids /\ facts'[f] \in {facts[f], [facts[f] EXCEPT !.docs = docs]}
  BY <1>2, <1>3, FactOf DEF Fact
<1>4. Rows' = Rows
  <2>1. Rows \subseteq Rows'
    <3>1. request[r].rows \subseteq Rows /\ docs \subseteq Requests
      BY DEF Inv, RequestInv, Local, AddSource, At, docs
    <3>2. ASSUME NEW f \in Rows PROVE [facts[f] EXCEPT !.docs = docs] \in Fact
      BY <3>1, <3>2, FactOf DEF Fact
    <3>3. ASSUME NEW f \in Rows PROVE facts'[f] # None
      BY <1>3, <3>2, <3>3, FactOf, NoneAssumption
    <3> QED
      BY <3>3 DEF Rows
  <2>2. Rows' \subseteq Rows
    <3>1. request[r].rows \subseteq Rows
      BY DEF Inv, RequestInv, Local
    <3> QED
      BY <1>2, <3>1 DEF Rows
  <2> QED
    BY <2>1, <2>2
<1> QED
  BY <1>1, <1>3, <1>4, QuietShape

\* An addition: what it supersedes is of its subject, which gets a new fact.
LEMMA AddNewest ==
  ASSUME Inv, NewestInv, NEW r \in Requests, AddFact(r)
  PROVE  NewestInv'
<1>0. /\ request[r].pc = "add" /\ request[r].rows \subseteq Rows /\ Extends(r)
  BY DEF AddFact, At, Inv, RequestInv, Local, NewestInv, KindInv, Adding, Extends, InFlight
<1>1. PICK now : Shape(r, now) /\ now.pc # "add"
  <2>1. PICK now : Shape(r, now)
    BY GraphShape DEF NewestInv
  <2>2. ~ReadOldFact(r)
    BY <1>0 DEF ReadOldFact, At
  <2> QED
    BY <2>1, <2>2 DEF Shape
<1>2. PICK new \in Ids \ Rows : facts' = [Superseded(request[r].rows) EXCEPT ![new] = NewFact(r)]
  BY DEF AddFact
<1>3. facts'[new].s = request[r].s /\ facts'[new].active /\ facts'[new] # None
  <2>1. NewFact(r) \in Fact /\ NewFact(r).s = request[r].s /\ NewFact(r).active = TRUE
    BY <1>0 DEF NewFact, Fact, Inv, RequestInv, Local, Linking
  <2>2. facts'[new] = NewFact(r)
    BY <1>2 DEF Superseded
  <2> QED
    BY <2>1, <2>2, NoneAssumption
<1>4. ASSUME NEW f \in Rows
      PROVE  /\ facts'[f].s = facts[f].s /\ facts'[f] # None
             /\ f \in request[r].rows => facts'[f].active = FALSE
             /\ f \notin request[r].rows => facts'[f] = facts[f]
  <2>1. facts'[f] = IF f \in request[r].rows THEN [facts[f] EXCEPT !.active = FALSE] ELSE facts[f]
    BY <1>2, <1>4 DEF Superseded, Rows
  <2>2. facts[f] \in Fact
    BY <1>4, FactOf
  <2>3. [facts[f] EXCEPT !.active = FALSE] \in Fact
    BY <2>2 DEF Fact
  <2> QED
    BY <2>1, <2>2, <2>3, NoneAssumption DEF Fact
<1>5. Rows' = Rows \union {new}
  <2>1. \A f \in Ids \ Rows : f # new => facts'[f] = None
    BY <1>0, <1>2 DEF Superseded, Rows
  <2>2. DOMAIN facts' = Ids
    BY <1>2 DEF Superseded
  <2> QED
    BY <1>3, <1>4, <2>1 DEF Rows
<1>6. /\ request'[r] = now /\ past' = past
      /\ \A q \in Requests \ {r} : request'[q] = request[q]
  BY <1>1, NowIs DEF Shape
<1>7. KindInv' /\ ApartInv'
  BY <1>1, ShapeApart DEF NewestInv
<1>8. ActiveInv'
  <2> SUFFICES ASSUME "merge" \notin past
               PROVE  /\ \A f \in Rows' : \E g \in Rows' : facts'[g].active /\ Together(f, g)'
                      /\ \A q \in Requests : At(q, "add")' =>
                           \A f \in request'[q].rows : facts'[f].s = request'[q].s
    BY <1>6 DEF ActiveInv
  <2>1. ASSUME NEW q \in Requests PROVE ~At(q, "repoint") /\ ~At(q, "repoint")'
    <3>1. ~Merges(q)
      BY <1>0 DEF NewestInv, ApartInv
    <3>2. ~At(q, "repoint")
      BY <3>1 DEF Merges, InFlight, At, NewestInv, KindInv, Merging
    <3>3. request'[q].pc # "repoint"
      <4>1. ~ReadFacts(r)
        BY <1>0 DEF ReadFacts, At
      <4> QED
        BY <1>1, <1>6, <3>2, <4>1 DEF Shape, At
    <3> QED
      BY <3>2, <3>3 DEF At
  <2>2. ASSUME NEW f \in Rows' PROVE \E g \in Rows' : facts'[g].active /\ Together(f, g)'
    <3>1. CASE facts'[f].s = request[r].s
      BY <1>3, <1>5, <2>1, <3>1 DEF Together
    <3>2. CASE facts'[f].s # request[r].s
      <4>1. f \in Rows /\ facts[f].s # request[r].s
        BY <1>3, <1>4, <1>5, <2>2, <3>2
      <4>2. PICK g \in Rows : facts[g].active /\ facts[f].s = facts[g].s
        BY <4>1 DEF NewestInv, ActiveInv, Together
      <4>3. g \notin request[r].rows
        BY <1>0, <4>1, <4>2 DEF NewestInv, ActiveInv, At
      <4>4. facts'[g].active /\ facts'[f].s = facts'[g].s
        BY <1>4, <4>1, <4>2, <4>3
      <4> QED
        BY <1>5, <2>1, <4>4 DEF Together
    <3> QED
      BY <3>1, <3>2
  <2>3. ASSUME NEW q \in Requests, At(q, "add")', NEW f \in request'[q].rows
        PROVE  facts'[f].s = request'[q].s
    <3>1. q # r /\ request'[q] = request[q]
      BY <1>1, <1>6, <2>3 DEF At
    <3>2. f \in Rows /\ facts[f].s = request[q].s
      BY <2>3, <3>1 DEF NewestInv, ActiveInv, At, Inv, RequestInv, Local
    <3> QED
      BY <1>4, <3>1, <3>2
  <2> QED
    BY <2>2, <2>3
<1>9. OneInv'
  <2> SUFFICES ASSUME past \intersect {"facts", "merge", "merged"} = {}
               PROVE  /\ \A f, g \in Rows' : facts'[f].active /\ facts'[g].active
                            /\ facts'[f].s = facts'[g].s => f = g
                      /\ \A q \in Requests : ~At(q, "add")'
    BY <1>6 DEF OneInv
  <2>1. /\ \A f, g \in Rows : facts[f].active /\ facts[g].active /\ facts[f].s = facts[g].s => f = g
        /\ Active(request[r].s) = request[r].rows
    BY <1>0 DEF NewestInv, OneInv, At
  <2>2. ASSUME NEW f \in Rows', facts'[f].active, facts'[f].s = request[r].s PROVE f = new
    BY <1>4, <1>5, <2>1, <2>2 DEF Active, Of
  <2>3. ASSUME NEW f \in Rows', facts'[f].active, facts'[f].s # request[r].s
        PROVE  f \in Rows /\ facts[f].active /\ facts[f].s = facts'[f].s
    BY <1>3, <1>4, <1>5, <2>3
  <2>4. ASSUME NEW q \in Requests, At(q, "add")' PROVE FALSE
    <3>1. q # r /\ At(q, "add")
      BY <1>1, <1>6, <2>4 DEF At
    <3>2. Extends(q)
      BY <3>1 DEF At, NewestInv, KindInv, Adding, Extends, InFlight
    <3> QED
      BY <1>0, <3>1, <3>2 DEF NewestInv, ApartInv
  <2> QED
    BY <2>1, <2>2, <2>3, <2>4
<1> QED
  BY <1>7, <1>8, <1>9 DEF NewestInv

\* A merge takes facts that stay together from one subject to another.
LEMMA RepointNewest ==
  ASSUME Inv, NewestInv, NEW r \in Requests, Repoint(r)
  PROVE  NewestInv'
<1>0. request[r].pc = "repoint" /\ Merges(r) /\ request[r] \in AnyRequest /\ Local(r)
  BY DEF Repoint, At, Inv, RequestInv, Local, NewestInv, KindInv, Merging, Merges, InFlight
<1> DEFINE to == request[r].o
           now == [request[r] EXCEPT !.pc = "aliases", !.rows = {}, !.objects = {}]
<1>1. request' = [request EXCEPT ![r] = now] /\ past' = past /\ now.pc = "aliases"
  BY <1>0 DEF Repoint, Becomes, AnyRequest
<1>2. facts' = [f \in Ids |-> IF facts[f] = None THEN None ELSE
        [facts[f] EXCEPT !.s = IF f \in request[r].rows THEN to ELSE @,
                         !.o = IF f \in request[r].objects THEN to ELSE @]]
  BY DEF Repoint
<1>3. to \in Names
  BY <1>0 DEF Local, Linking
<1> HIDE DEF to, now
<1>4. ASSUME NEW f \in Rows
      PROVE  /\ facts'[f].s = IF f \in request[r].rows THEN to ELSE facts[f].s
             /\ facts'[f].active = facts[f].active /\ facts'[f] # None
  <2>1. facts[f] \in Fact /\ f \in Ids /\ facts[f] # None
    BY <1>4, FactOf DEF Rows
  <2>2. facts'[f] = [facts[f] EXCEPT !.s = IF f \in request[r].rows THEN to ELSE @,
                                     !.o = IF f \in request[r].objects THEN to ELSE @]
    BY <1>2, <2>1
  <2>3. facts'[f] \in Fact
    BY <1>3, <2>1, <2>2 DEF Fact
  <2> QED
    BY <2>1, <2>2, <2>3, NoneAssumption DEF Fact
<1>5. Rows' = Rows
  BY <1>2, <1>4 DEF Rows
<1>6. request'[r] = now /\ \A q \in Requests \ {r} : request'[q] = request[q]
  BY <1>1, NowIs
<1>7. KindInv' /\ ApartInv'
  <2>1. \E then : Shape(r, then)
    BY GraphShape DEF NewestInv
  <2> QED
    BY <2>1, ShapeApart DEF NewestInv
<1>8. ASSUME NEW f \in Rows, NEW g \in Rows, Together(f, g) PROVE Together(f, g)'
  <2>1. facts'[f].s = facts'[g].s
    BY <1>0, <1>4, <1>8 DEF Together, At
  <2>2. ASSUME NEW q \in Requests, At(q, "repoint")'
        PROVE  q # r /\ request'[q] = request[q] /\ At(q, "repoint")
    BY <1>1, <1>6, <2>2 DEF At
  <2> QED
    BY <1>8, <2>1, <2>2 DEF Together
<1>9. ActiveInv'
  <2> SUFFICES ASSUME "merge" \notin past
               PROVE  /\ \A f \in Rows : \E g \in Rows : facts'[g].active /\ Together(f, g)'
                      /\ \A q \in Requests : ~At(q, "add")'
    BY <1>1, <1>5 DEF ActiveInv
  <2>1. ASSUME NEW q \in Requests, At(q, "add")' PROVE FALSE
    <3>1. request[q].pc = "add"
      BY <1>1, <1>6, <2>1 DEF At
    <3>2. Extends(q)
      BY <3>1 DEF NewestInv, KindInv, Adding, Extends, InFlight
    <3> QED
      BY <1>0, <3>2 DEF NewestInv, ApartInv
  <2>2. ASSUME NEW f \in Rows PROVE \E g \in Rows : facts'[g].active /\ Together(f, g)'
    <3>1. PICK g \in Rows : facts[g].active /\ Together(f, g)
      BY <2>2 DEF NewestInv, ActiveInv
    <3> QED
      BY <1>4, <1>8, <3>1
  <2> QED
    BY <2>1, <2>2
<1>10. OneInv'
  BY <1>0, <1>1 DEF OneInv, NewestInv, ApartInv
<1> QED
  BY <1>7, <1>9, <1>10 DEF NewestInv

LEMMA NewestKeeps == Inv /\ NewestInv /\ [Next]_vars => NewestInv'
<1> SUFFICES ASSUME Inv, NewestInv, [Next]_vars PROVE NewestInv'
  OBVIOUS
<1>1. CASE UNCHANGED vars
  BY <1>1 DEF vars, graph, NewestInv, KindInv, ApartInv, ActiveInv, OneInv, Extends, Merges,
    InFlight, Together, At, Active, Of, Rows
<1>2. ASSUME NEW r \in Requests, NEW now, Shape(r, now), UNCHANGED facts PROVE NewestInv'
  BY <1>2, QuietShape DEF Rows
<1>3. ASSUME NEW r \in Requests, Step(r) PROVE NewestInv'
  <2>1. CASE AddSource(r) \/ AddFact(r) \/ Repoint(r)
    BY <2>1, SourceNewest, AddNewest, RepointNewest
  <2>2. CASE \/ FindActiveFact(r) \/ ReadSources(r) \/ UpsertSubject(r) \/ UpsertObject(r)
             \/ ReadOldFact(r) \/ ReadFacts(r) \/ ReadAliases(r) \/ WriteAliases(r)
    <3>1. UNCHANGED facts
      BY <2>2 DEF FindActiveFact, ReadSources, UpsertSubject, UpsertObject, ReadOldFact, ReadFacts,
        ReadAliases, WriteAliases, graph
    <3> QED
      BY <1>2, <2>2, <3>1, GraphShape DEF NewestInv
  <2>3. CASE \/ StorePart(r) \/ CheckParts(r) \/ ReadParts(r) \/ CleanUp(r) \/ Parse(r)
             \/ Discard(r) \/ IngestFile(r) \/ ExtractToGraph(r) \/ FinishComplete(r)
    BY <1>2, <2>3, UploadShape DEF NewestInv
  <2> QED
    BY <1>3, <2>1, <2>2, <2>3 DEF Step
<1>4. ASSUME NEW r \in Requests, Ask(r) PROVE NewestInv'
  <2>1. PICK now : /\ request' = [request EXCEPT ![r] = now] /\ UNCHANGED facts
                   /\ past \subseteq past' /\ now.pc \notin {"add", "repoint"}
    BY <1>4, AskShape
  <2>2. ActiveInv' /\ OneInv'
    BY <2>1, QuietNewest DEF NewestInv, Rows
  <2> QED
    BY <1>4, <2>2, AskApart DEF NewestInv
<1>5. ASSUME NEW r \in Requests, Cut(r) PROVE NewestInv'
  BY <1>2, <1>5, CutShape DEF NewestInv
<1> QED
  BY <1>1, <1>3, <1>4, <1>5 DEF Next

LEMMA InitNewest == Init => NewestInv
<1> SUFFICES ASSUME Init PROVE NewestInv
  OBVIOUS
<1>1. \A r \in Requests : request[r].pc = "idle"
  BY IdleIs DEF Init
<1>2. Rows = {}
  BY DEF Init, Rows
<1> QED
  BY <1>1, <1>2 DEF NewestInv, KindInv, ApartInv, ActiveInv, OneInv, Adding, Merging, Extends,
    Merges, InFlight, At

\* A subject that has facts has an active one, whatever facts meet, whatever is
\* merged beside them or cut short, unless a merge meets a fact that is being
\* added; and just one, where facts were added one at a time and none merged.
THEOREM NewestAlwaysActive == Spec => []NewestFactIsActive
<1>1. Inv /\ NewestInv => NewestFactIsActive
  <2> SUFFICES ASSUME NewestInv, NEW n \in Names, Of(n) # {}
               PROVE  /\ "merge" \notin past => Active(n) # {}
                      /\ past \intersect {"facts", "merge", "merged"} = {} =>
                           Cardinality(Active(n)) = 1
    BY DEF NewestFactIsActive
  <2>1. "merge" \notin past => \E g \in Rows : g \in Active(n)
    BY DEF NewestInv, ActiveInv, Together, Active, Of
  <2>2. ASSUME past \intersect {"facts", "merge", "merged"} = {}
        PROVE  Cardinality(Active(n)) = 1
    <3>1. PICK g : g \in Active(n)
      BY <2>1, <2>2
    <3>2. Active(n) = {g}
      BY <2>2, <3>1 DEF NewestInv, OneInv, Active, Of
    <3> QED
      BY <3>2, FS_Singleton
  <2> QED
    BY <2>1, <2>2
<1>2. Spec => []NewestInv
  BY Always, InitNewest, NewestKeeps, PTL DEF Spec
<1> QED
  BY <1>1, <1>2, Always, PTL
=============================================================================
