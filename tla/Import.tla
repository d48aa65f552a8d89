------------------------------- MODULE Import -------------------------------
(***************************************************************************)
(* A file that is uploaded in parts and completed into a document          *)
(* (app/knowledge/upload.py, api.py), and the knowledge graph that its     *)
(* facts are drawn into (app/graph), where facts are also added by hand,   *)
(* extracted from a text, and entities merged.                             *)
(*                                                                         *)
(* A transaction that decides on what it has read is two steps, its read   *)
(* and its commit; so requests interleave as those of the server do.  Of   *)
(* two rows of one entity each is as good as the other.  All facts have    *)
(* the one predicate; a file is the set of its parts.                      *)
(***************************************************************************)
EXTENDS Integers, FiniteSets

CONSTANTS
  Requests,     \* each is made at most once
  Kinds,        \* of which kinds they are
  Total,        \* parts of the file (total_chunks)
  Indices,      \* indices that clients send
  Names,        \* of entities
  MaxFacts,     \* bound on the rows of facts
  None

AllKinds == {"send", "complete", "fact", "extract", "merge"}
Full == 0 .. Total - 1
ASSUME ImportAssumption ==
  /\ Total \in Nat /\ MaxFacts \in Nat
  /\ Indices \subseteq Nat
  /\ Kinds \subseteq AllKinds

VARIABLES
  session,      \* the row of the upload is there
  parts,        \* indices of its parts (uq_upload_part: one row each)
  document,     \* document[r]: the parts that completion r made one of, or None
  entity,       \* names that have a row, and
  alias,        \* alias[n]: the other names in it
  facts,        \* rows of knowledge_facts
  request,      \* where each request stands
  answer,       \* what it was told
  adrift,       \* names that facts were pointed to, before their row is written
  past          \* what has met: "completes", "facts", a "merge" and a fact;
                \* "merged": there was a merge

upload == <<session, parts, document>>
graph == <<entity, alias, facts, adrift>>
vars == <<upload, graph, request, answer, past>>

Ids == 1 .. MaxFacts
Fact == [s : Names, o : Names, active : BOOLEAN, docs : SUBSET Requests]
ASSUME NoneAssumption == None \notin Names \union Fact
Rows == {f \in Ids : facts[f] # None}
Of(n) == {f \in Rows : facts[f].s = n}
Active(n) == {f \in Of(n) : facts[f].active}

Pcs == {"idle", "over", "store", "check", "read", "clean", "parse", "discard",
        "ingest", "extract", "finish", "find", "sources", "source", "subject",
        "object", "old", "add", "facts", "repoint", "aliases", "alias"}
Idle == [pc |-> "idle", kind |-> "none", found |-> FALSE, parts |-> {},
         s |-> None, o |-> None, rows |-> {}, objects |-> {}, seen |-> {}]
Over == [Idle EXCEPT !.pc = "over"]
InFlight(r) == request[r].pc \notin {"idle", "over"}
Meets(r, kinds) == \E q \in Requests \ {r} : InFlight(q) /\ request[q].kind \in kinds

Init ==
  /\ session = TRUE /\ parts \in SUBSET (Indices \intersect Full)
  /\ document = [r \in Requests |-> None]
  /\ entity = {} /\ alias = [n \in Names |-> {}]
  /\ facts = [f \in Ids |-> None]
  /\ request = [r \in Requests |-> Idle]
  /\ answer = [r \in Requests |-> "none"]
  /\ adrift = {} /\ past = {}

-----------------------------------------------------------------------------
At(r, pc) == request[r].pc = pc
Becomes(r, now) == request' = [request EXCEPT ![r] = now] /\ UNCHANGED <<answer, past>>
Goes(r, pc) == Becomes(r, [request[r] EXCEPT !.pc = pc])
Answers(r, what) ==
  /\ request' = [request EXCEPT ![r] = Over]
  /\ answer' = [answer EXCEPT ![r] = what]
  /\ UNCHANGED past

Adds == {"fact", "extract", "complete"}
Begins(r, kind, now) ==
  /\ At(r, "idle") /\ kind \in Kinds
  /\ request' = [request EXCEPT ![r] = [now EXCEPT !.kind = kind]]
  /\ past' = past
       \union {x \in {"completes"} : kind = "complete" /\ Meets(r, {"complete"})}
       \union {x \in {"facts"} : kind \in Adds /\ Meets(r, Adds)}
       \union {x \in {"merge"} : \/ kind \in Adds /\ Meets(r, {"merge"})
                                 \/ kind = "merge" /\ Meets(r, Adds)}
       \union {x \in {"merged"} : kind = "merge"}
  /\ UNCHANGED <<upload, graph, answer>>

-----------------------------------------------------------------------------
(* The upload *)

\* save_chunk: the session, then the part of this index, are looked for.
SendPart(r, i) ==
  /\ session
  /\ Begins(r, "send", [Idle EXCEPT !.pc = "store", !.parts = {i}, !.found = i \in parts])

\* A part that was found is overwritten, or its row is gone by now; one that
\* was not is inserted, or the unique key refuses it.
StorePart(r) ==
  /\ At(r, "store")
  /\ parts' = IF request[r].found THEN parts ELSE parts \union request[r].parts
  /\ Answers(r, IF request[r].found = (request[r].parts \subseteq parts) THEN "ok" ELSE "error")
  /\ UNCHANGED <<session, document, graph>>

\* upload_complete, assemble: the session, the indices, the parts and the
\* clean-up are transactions of their own.
Complete(r) ==
  /\ session
  /\ Begins(r, "complete", [Idle EXCEPT !.pc = "check"])

\* Fault: it is enough that the last part is there.
CheckLast(r) ==
  /\ At(r, "check")
  /\ IF \E i \in parts : i + 1 = Total THEN Goes(r, "read") ELSE Answers(r, "error")
  /\ UNCHANGED <<upload, graph>>
CheckParts(r) ==
  /\ At(r, "check")
  /\ IF parts = Full THEN Goes(r, "read") ELSE Answers(r, "error")
  /\ UNCHANGED <<upload, graph>>

ReadParts(r) ==
  /\ At(r, "read")
  /\ Becomes(r, [request[r] EXCEPT !.pc = "clean", !.parts = parts])
  /\ UNCHANGED <<upload, graph>>

Cleaned == session' = FALSE /\ parts' = {} /\ UNCHANGED <<document, graph>>
CleanUp(r) == At(r, "clean") /\ Cleaned /\ Goes(r, "parse")

\* The file may be one that nothing can read, or without a text: an empty
\* one is.  What is left of the upload is then cleaned up again.
Parse(r) ==
  /\ At(r, "parse")
  /\ \/ request[r].parts # {} /\ Goes(r, "ingest")
     \/ Goes(r, "discard")
  /\ UNCHANGED <<upload, graph>>
Discard(r) == At(r, "discard") /\ Cleaned /\ Answers(r, "error")

\* ingest_markdown, which KnowledgeBase has in its steps.
IngestFile(r) ==
  /\ At(r, "ingest")
  /\ document' = [document EXCEPT ![r] = request[r].parts]
  /\ Becomes(r, [request[r] EXCEPT !.pc = "extract", !.parts = {}])
  /\ UNCHANGED <<session, parts, graph>>

\* _extract_to_graph: a fact of the text, or none.
ExtractToGraph(r) ==
  /\ At(r, "extract")
  /\ \/ Goes(r, "finish")
     \/ \E s, o \in Names :
          Becomes(r, [request[r] EXCEPT !.pc = "subject", !.s = s, !.o = o])
  /\ UNCHANGED <<upload, graph>>

\* The last clean-up is called without its tenant and raises TypeError.
FinishComplete(r) ==
  /\ At(r, "finish") /\ Answers(r, "error") /\ UNCHANGED <<upload, graph>>

-----------------------------------------------------------------------------
(* The graph *)

AddByHand(r, s, o) == Begins(r, "fact", [Idle EXCEPT !.pc = "subject", !.s = s, !.o = o])
\* POST /graph/extract, of a text with one fact.
Extract(r, s, o) == Begins(r, "extract", [Idle EXCEPT !.pc = "find", !.s = s, !.o = o])

\* add_facts_merged: a fact that is there gets one source more.
FindActiveFact(r) ==
  /\ At(r, "find")
  /\ LET of == Active(request[r].s) IN
     \/ \E f \in of : IF facts[f].o = request[r].o
          THEN Becomes(r, [request[r] EXCEPT !.pc = "sources", !.rows = {f}])
          ELSE Goes(r, "subject")
     \/ of = {} /\ Goes(r, "subject")
  /\ UNCHANGED <<upload, graph>>
ReadSources(r) ==
  /\ At(r, "sources")
  /\ Becomes(r, [request[r] EXCEPT !.pc = "source",
                   !.seen = UNION {facts[f].docs : f \in request[r].rows}])
  /\ UNCHANGED <<upload, graph>>
AddSource(r) ==
  /\ At(r, "source")
  /\ facts' = [f \in Ids |-> IF f \in request[r].rows
       THEN [facts[f] EXCEPT !.docs = request[r].seen \union {r}] ELSE facts[f]]
  /\ Answers(r, "ok")
  /\ UNCHANGED <<upload, entity, alias, adrift>>

\* GraphService.add_fact: both names get their row first.
\* Fault: only the subject does.
UpsertSubjectOnly(r) ==
  /\ At(r, "subject")
  /\ entity' = entity \union {request[r].s}
  /\ Goes(r, "old") /\ UNCHANGED <<upload, alias, facts, adrift>>
UpsertSubject(r) ==
  /\ At(r, "subject")
  /\ entity' = entity \union {request[r].s}
  /\ Goes(r, "object") /\ UNCHANGED <<upload, alias, facts, adrift>>
UpsertObject(r) ==
  /\ At(r, "object")
  /\ entity' = entity \union {request[r].o}
  /\ Goes(r, "old") /\ UNCHANGED <<upload, alias, facts, adrift>>

\* GraphStore.add_fact: one active fact of the subject, if there is one, is
\* superseded by the commit that inserts the new one.
ReadOldFact(r) ==
  /\ At(r, "old")
  /\ LET of == Active(request[r].s) IN
     \E old \in {{f} : f \in of} \union {x \in {{}} : of = {}} :
       Becomes(r, [request[r] EXCEPT !.pc = "add", !.rows = old])
  /\ UNCHANGED <<upload, graph>>

Superseded(rows) == [f \in Ids |-> IF f \in rows
  THEN [facts[f] EXCEPT !.active = FALSE] ELSE facts[f]]
NewFact(r) == [s |-> request[r].s, o |-> request[r].o, active |-> TRUE,
               docs |-> IF request[r].kind = "fact" THEN {} ELSE {r}]
Added(r) ==
  IF request[r].kind = "complete"
  THEN Becomes(r, [Idle EXCEPT !.pc = "finish", !.kind = "complete"])
  ELSE Answers(r, "ok")
\* Fault: the old fact goes in a transaction before.
AddFactAfter(r) ==
  /\ At(r, "add")
  /\ \/ /\ \E f \in request[r].rows : facts[f].active
        /\ facts' = Superseded(request[r].rows)
        /\ UNCHANGED <<request, answer, past>>
     \/ /\ \A f \in request[r].rows : ~facts[f].active
        /\ \E f \in Ids \ Rows : (\A g \in Ids \ Rows : f <= g)
             /\ facts' = [facts EXCEPT ![f] = NewFact(r)]
        /\ Added(r)
  /\ UNCHANGED <<upload, entity, alias, adrift>>
AddFact(r) ==
  /\ At(r, "add")
  /\ \E f \in Ids \ Rows : (\A g \in Ids \ Rows : f <= g)
       /\ facts' = [Superseded(request[r].rows) EXCEPT ![f] = NewFact(r)]
  /\ Added(r)
  /\ UNCHANGED <<upload, entity, alias, adrift>>

\* merge_entity: every fact of the one name is given to the other, whose row
\* is then told the alias; the row of the first stays.
Merge(r, from, to) == Begins(r, "merge", [Idle EXCEPT !.pc = "facts", !.s = from, !.o = to])
ReadFacts(r) ==
  /\ At(r, "facts")
  /\ Becomes(r, [request[r] EXCEPT !.pc = "repoint", !.rows = Of(request[r].s),
                   !.objects = {f \in Rows : facts[f].o = request[r].s}])
  /\ UNCHANGED <<upload, graph>>
\* Fault: the object keeps its name, and so the request its rows.
RepointSubjects(r) ==
  /\ At(r, "repoint")
  /\ facts' = [f \in Ids |-> IF f \in request[r].rows
                 THEN [facts[f] EXCEPT !.s = request[r].o] ELSE facts[f]]
  /\ adrift' = adrift \union {request[r].o}
  /\ Becomes(r, [request[r] EXCEPT !.pc = "aliases", !.rows = {}])
  /\ UNCHANGED <<upload, entity, alias>>
Repoint(r) ==
  /\ At(r, "repoint")
  /\ LET to == request[r].o IN
     /\ facts' = [f \in Ids |-> IF facts[f] = None THEN None ELSE
          [facts[f] EXCEPT !.s = IF f \in request[r].rows THEN to ELSE @,
                           !.o = IF f \in request[r].objects THEN to ELSE @]]
     /\ adrift' = adrift \union {to}
  /\ Becomes(r, [request[r] EXCEPT !.pc = "aliases", !.rows = {}, !.objects = {}])
  /\ UNCHANGED <<upload, entity, alias>>
ReadAliases(r) ==
  /\ At(r, "aliases")
  /\ Becomes(r, [request[r] EXCEPT !.pc = "alias", !.seen = alias[request[r].o]])
  /\ UNCHANGED <<upload, graph>>
WriteAliases(r) ==
  /\ At(r, "alias")
  /\ LET to == request[r].o IN
     /\ alias' = [alias EXCEPT ![to] = request[r].seen \union {request[r].s}]
     /\ entity' = entity \union {to}
     /\ adrift' = adrift \ {to}
  /\ Answers(r, "ok") /\ UNCHANGED <<upload, facts>>

-----------------------------------------------------------------------------
\* An error of the database or of a service, or a stop, ends a request
\* anywhere; one in the facts of a completion only leaves them out.
Cut(r) ==
  /\ InFlight(r) /\ UNCHANGED <<upload, graph>>
  /\ \/ Answers(r, "error")
     \/ request[r].kind = "complete" /\ request[r].pc \in {"subject", "object", "old", "add"}
        /\ Becomes(r, [Idle EXCEPT !.pc = "finish", !.kind = "complete"])

Step(r) ==
  \/ StorePart(r) \/ CheckParts(r) \/ ReadParts(r) \/ CleanUp(r) \/ Parse(r) \/ Discard(r)
  \/ IngestFile(r) \/ ExtractToGraph(r) \/ FinishComplete(r)
  \/ FindActiveFact(r) \/ ReadSources(r) \/ AddSource(r)
  \/ UpsertSubject(r) \/ UpsertObject(r) \/ ReadOldFact(r) \/ AddFact(r)
  \/ ReadFacts(r) \/ Repoint(r) \/ ReadAliases(r) \/ WriteAliases(r)
Ask(r) ==
  \/ \E i \in Indices : SendPart(r, i)
  \/ Complete(r)
  \/ \E s, o \in Names : AddByHand(r, s, o) \/ Extract(r, s, o) \/ Merge(r, s, o)
AtRest == \A r \in Requests : ~InFlight(r)
Next ==
  \/ \E r \in Requests : Ask(r) \/ Step(r) \/ Cut(r)
  \/ AtRest /\ UNCHANGED vars

Spec == Init /\ [][Next]_vars

-----------------------------------------------------------------------------
(* Properties *)

\* Every variable has its type; rows are where they were inserted, and what
\* a request has read of them is there.
TypeOK ==
  /\ session \in BOOLEAN /\ parts \subseteq Indices
  /\ document \in [Requests -> (SUBSET Indices) \union {None}]
  /\ entity \subseteq Names /\ adrift \subseteq Names
  /\ alias \in [Names -> SUBSET Names]
  /\ facts \in [Ids -> Fact \union {None}]
  /\ \A r \in Requests :
       /\ request[r].pc \in Pcs /\ request[r].kind \in Kinds \union {"none"}
       /\ request[r].parts \subseteq Indices
       /\ request[r].rows \union request[r].objects \subseteq Rows
       /\ request[r].objects # {} => request[r].pc = "repoint"
  /\ answer \in [Requests -> {"none", "ok", "error"}]
  /\ past \subseteq {"completes", "facts", "merge", "merged"}

\* A document lacks nothing of the file (upload.py, assemble: the bytes in
\* full), whatever parts are sent, sent again or late, as long as no two
\* completions of the upload meet.  A part past the end that comes between
\* the check and the read does get into it: AlwaysWhole.
DocumentIsWhole ==
  "completes" \notin past =>
    \A r \in Requests : document[r] # None => Full \subseteq document[r]

\* A query that names the subject or the object of a fact finds it
\* (GraphService.retrieve looks for names that have a row): rows come before
\* facts, and only a merge that ended between its transactions, or has not
\* ended, lacks one.
FactIsReachable ==
  \A f \in Rows : {facts[f].s, facts[f].o} \subseteq entity \union adrift

\* A newer fact supersedes the older (store.py, add_fact): facts added one at
\* a time leave one active fact of a subject, and whatever facts meet,
\* whatever is merged beside them, or cut short, a subject that has facts
\* has an active one, unless a merge meets one that is being added.
NewestFactIsActive ==
  \A n \in Names : Of(n) # {} =>
    /\ "merge" \notin past => Active(n) # {}
    /\ past \intersect {"facts", "merge", "merged"} = {} => Cardinality(Active(n)) = 1

\* Documents promise more.
\* upload.py:6: the bytes in full, also for two completions and a part sent
\* twice.
AlwaysWhole == \A r \in Requests : document[r] \in {None, Full}
\* api.py:314: a completion that has stored its document says so.
StoredIsAnswered ==
  \A r \in Requests : At(r, "over") /\ document[r] # None => answer[r] = "ok"
\* store.py:65: an older fact of the subject is superseded, when two are
\* added at once too.
OneActiveFact == "merged" \notin past => \A n \in Names : Cardinality(Active(n)) <= 1
=============================================================================
