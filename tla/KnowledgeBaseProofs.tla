------------------------ MODULE KnowledgeBaseProofs ------------------------
(***************************************************************************)
(* Proofs about what is kept of knowledge: KnowledgeBase, for any number   *)
(* of instances, searches and writers, any placement, either cache and any *)
(* bounds; and, in the second half, RunRecords, for any runs, requests,    *)
(* facts and expectations.  The two specifications share nothing.          *)
(***************************************************************************)
EXTENDS KnowledgeBase, RunRecords, FiniteSetTheorems, SequenceTheorems, TLAPS

\* What the positions say: a search that waits has a task to wait for, one
\* that asks Redis and a load under way have a scope, only Redis is asked in
\* an await, and a writer short of its chunks has some to add.
Adding == {"delete", "look", "upsert", "add"}
InPlace ==
  /\ \A s \in Searchers :
       /\ search[s].pc = "wait" => search[s].on \in Searchers
       /\ search[s].pc = "get" => search[s].scope \in Scopes /\ backend = "redis"
       /\ Running(s) => load[s].scope \in Scopes
  /\ \A w \in Writers : writer[w].pc \in Adding => writer[w].size \in 1 .. 2
TypeInv == TypeOK /\ InPlace

\* The second chunk is never there without the first of the same ingest.
SecondHasFirst == chunks[2] # 0 => chunks[1] = chunks[2]

\* In the process the instance's entry in _inflight is the task of whoever
\* created it, from its creation until that search wakes.
Owns(s) == Running(s) \/ (search[s].pc = "wait" /\ search[s].on = s)
FlightInv == backend = "process" => \A s \in Searchers : Owns(s) => inflight[Home[s]] = s

\* Until a writer has touched the table, what is cached and what is being
\* loaded is what the table holds, or excused.
Quiet == \A w \in Writers : writer[w].pc \in {"idle", "delete"}
CurrentInv ==
  Quiet =>
    /\ \A p \in Places : cache[p] # None /\ ~cache[p].excused =>
         cache[p].of = Found(cache[p].scope)
    /\ \A s \in Searchers : load[s].pc \in {"vector", "store"} /\ ~load[s].excused =>
         load[s].of = Found(load[s].scope)

-----------------------------------------------------------------------------
\* What the table holds in a scope is a set of chunks.
LEMMA FoundType == \A scope : Found(scope) \in SUBSET Chunk
BY DEF Found

\* Every search keeps its entry in a place that this backend uses.
LEMMA PlaceType ==
  ASSUME TypeOK, NEW s \in Searchers
  PROVE  /\ Home[s] \in Instances /\ Place(Home[s]) \in Places
         /\ (Place(Home[s]) = "redis") = (backend = "redis")
BY KnowledgeAssumption DEF Place, Places, TypeOK

\* An excused entry is an entry.
LEMMA ExcuseType ==
  ASSUME NEW e \in Entry \union {None}
  PROVE  /\ Excuse(e) \in Entry \union {None}
         /\ Excuse(e) # None => e # None
         /\ Excuse(e) # None => e \in Entry /\ Excuse(e) = [e EXCEPT !.excused = TRUE]
BY DEF Excuse, Entry

\* Marking the loads under way leaves all else of them.
LEMMA LateType ==
  ASSUME load \in [Searchers -> Load], NEW is, load' = LateLoads(is)
  PROVE  /\ load' \in [Searchers -> Load]
         /\ \A s \in Searchers :
              /\ load'[s].pc = load[s].pc /\ load'[s].scope = load[s].scope
              /\ load'[s].of = load[s].of
<1> SUFFICES ASSUME NEW s \in Searchers
             PROVE  /\ load'[s] \in Load
                    /\ load'[s].pc = load[s].pc /\ load'[s].scope = load[s].scope
                    /\ load'[s].of = load[s].of
  BY DEF LateLoads
<1>1. load[s] \in Load /\ (load'[s] = load[s] \/ load'[s] = [load[s] EXCEPT !.excused = TRUE])
  BY DEF LateLoads
<1> QED
  BY <1>1 DEF Load

LEMMA BoundType == MaxChange \in Nat /\ TTL \in Nat
BY KnowledgeAssumption

\* Who stands nowhere has its type.
LEMMA RestType == NoWriter \in Writer /\ NoSearch \in Search /\ NoLoad \in Load
BY BoundType DEF Writer, NoWriter, Search, NoSearch, Load, NoLoad

\* The types apart: of the writers, and of the cache and the searches.
WriterTypes ==
  /\ writer \in [Writers -> Writer]
  /\ \A w \in Writers : writer[w].pc \in Adding => writer[w].size \in 1 .. 2
CacheTypes ==
  /\ cache \in [Places -> Entry \union {None}]
  /\ \A p \in Places : cache[p] # None => (p = "redis") = (backend = "redis")
  /\ keys \subseteq Instances
  /\ inflight \in [Instances -> Searchers \union {None}]
  /\ search \in [Searchers -> Search]
  /\ load \in [Searchers -> Load]
  /\ \A s \in Searchers :
       /\ search[s].pc = "wait" => search[s].on \in Searchers
       /\ search[s].pc = "get" => search[s].scope \in Scopes /\ backend = "redis"
       /\ Running(s) => load[s].scope \in Scopes
TableTypes ==
  /\ backend \in {"process", "redis"}
  /\ base \in BOOLEAN /\ document \in BOOLEAN
  /\ chunks \in [Seqs -> 0 .. MaxChange]
  /\ changes \in 0 .. MaxChange
LEMMA TypeParts == TypeInv <=> TableTypes /\ WriterTypes /\ CacheTypes
BY DEF TypeInv, TypeOK, InPlace, TableTypes, WriterTypes, CacheTypes

LEMMA InitType == Init => TypeInv
<1> SUFFICES ASSUME Init PROVE TypeInv
  OBVIOUS
<1>1. TableTypes
  <2>1. 0 \in 0 .. MaxChange
    BY BoundType
  <2> QED
    BY <2>1 DEF Init, TableTypes
<1>2. WriterTypes
  BY RestType DEF Init, WriterTypes, NoWriter, Adding
<1>3. CacheTypes
  BY RestType DEF Init, CacheTypes, NoSearch, NoLoad, Running
<1> QED
  BY <1>1, <1>2, <1>3, TypeParts

\* A writer that stops holds nothing, and one that moves on keeps what it has.
LEMMA StopType ==
  ASSUME WriterTypes, NEW w \in Writers, writer' = [writer EXCEPT ![w] = NoWriter]
  PROVE  WriterTypes'
BY RestType DEF WriterTypes, NoWriter, Adding

LEMMA MoveType ==
  ASSUME WriterTypes, NEW w \in Writers, NEW pc, writer' = [writer EXCEPT ![w].pc = pc],
         pc \in {"look", "clear"}, pc = "clear" \/ writer[w].pc \in Adding
  PROVE  WriterTypes'
BY DEF WriterTypes, Writer, Adding

\* A change that no clear will follow keeps the types of the cache.
LEMMA NotClearedType ==
  ASSUME CacheTypes, NotCleared, backend' = backend
  PROVE  CacheTypes'
<1> USE DEF CacheTypes, NotCleared
<1>1. \A p \in Places : cache'[p] \in Entry \union {None} /\ (cache'[p] # None => cache[p] # None)
  BY ExcuseType
<1>2. cache' \in [Places -> Entry \union {None}]
  BY <1>1
<1>3. load' \in [Searchers -> Load]
      /\ \A s \in Searchers : load'[s].pc = load[s].pc /\ load'[s].scope = load[s].scope
  BY LateType
<1> QED
  BY <1>1, <1>2, <1>3 DEF Running

LEMMA CacheLeftType == CacheTypes /\ CacheIsLeft /\ backend' = backend => CacheTypes'
BY DEF CacheTypes, CacheIsLeft, Running

LEMMA WriterTypeStep ==
  ASSUME TypeInv, NEW w \in Writers,
         WriterStep(w) \/ DeleteDocument(w) \/ DeleteBase(w) \/ CutWriter(w)
           \/ \E n \in 1 .. 2 : Ingest(w, n)
  PROVE  TypeInv'
<1>0. TableTypes /\ WriterTypes /\ CacheTypes
  BY TypeParts
<1> USE KnowledgeAssumption
<1> SUFFICES TableTypes' /\ WriterTypes' /\ CacheTypes'
  BY TypeParts DEF TypeInv, TypeOK, InPlace, TableTypes, WriterTypes, CacheTypes
<1>1. CASE \E n \in 1 .. 2 : Ingest(w, n)
  <2> PICK n \in 1 .. 2 : Ingest(w, n)
    BY <1>1
  <2>1. changes + 1 \in 0 .. MaxChange
    BY <1>0 DEF Ingest, TableTypes
  <2>2. DEFINE new == [NoWriter EXCEPT !.pc = "delete", !.ingest = changes + 1, !.size = n]
  <2>3. new \in Writer /\ new.size \in 1 .. 2
    <3>1. \A r \in Writer, k \in 0 .. MaxChange, m \in 0 .. 2 :
            [r EXCEPT !.pc = "delete", !.ingest = k, !.size = m] \in Writer
      BY DEF Writer
    <3>2. n \in 0 .. 2 /\ new.size = n
      BY DEF NoWriter
    <3> QED
      BY <2>1, <3>1, <3>2, RestType
  <2>4. writer' = [writer EXCEPT ![w] = new]
    BY DEF Ingest
  <2> HIDE DEF new
  <2>5. WriterTypes'
    BY <1>0, <2>3, <2>4 DEF WriterTypes
  <2> QED
    BY <1>0, <2>1, <2>5, CacheLeftType DEF Ingest, TableTypes, data
<1>2. CASE DeleteChunks(w)
  <2>1. WriterTypes'
    BY <1>0, <1>2, MoveType DEF DeleteChunks, WriterAt, WriterGoes, Adding
  <2> QED
    BY <1>0, <1>2, <2>1, CacheLeftType DEF DeleteChunks, WriterAt, TableTypes
<1>3. CASE LookForDocument(w)
  <2>1. writer[w] \in Writer /\ writer[w].size \in 1 .. 2 /\ document \in BOOLEAN
    BY <1>0, <1>3 DEF WriterTypes, TableTypes, LookForDocument, WriterAt, Adding
  <2>2. DEFINE new == [writer[w] EXCEPT !.pc = "upsert", !.found = document]
  <2>3. new \in Writer /\ new.size \in 1 .. 2
    BY <2>1 DEF Writer
  <2>4. writer' = [writer EXCEPT ![w] = new]
    BY <1>3 DEF LookForDocument
  <2> HIDE DEF new
  <2>5. WriterTypes'
    BY <1>0, <2>3, <2>4 DEF WriterTypes
  <2> QED
    BY <1>0, <1>3, <2>5, CacheLeftType DEF LookForDocument, WriterAt, TableTypes, data
<1>4. ASSUME WriterFails(w), backend' = backend, changes' = changes
      PROVE  TableTypes' /\ WriterTypes' /\ CacheTypes'
  BY <1>0, <1>4, StopType, NotClearedType DEF WriterFails, TableTypes, data
<1>5. CASE UpsertDocument(w)
  <2>1. CASE writer[w].found = document
    <3>1. writer[w] \in Writer /\ writer[w].size \in 1 .. 2
      BY <1>0, <1>5 DEF WriterTypes, UpsertDocument, WriterAt, Adding
    <3>2. DEFINE new == [writer[w] EXCEPT !.pc = "add", !.found = FALSE]
    <3>3. new \in Writer /\ new.size \in 1 .. 2
      BY <3>1 DEF Writer
    <3>4. writer' = [writer EXCEPT ![w] = new]
      BY <1>5, <2>1 DEF UpsertDocument
    <3> HIDE DEF new
    <3>5. WriterTypes'
      BY <1>0, <3>3, <3>4 DEF WriterTypes
    <3> QED
      BY <1>0, <1>5, <2>1, <3>5, CacheLeftType DEF UpsertDocument, WriterAt, TableTypes
  <2> QED
    BY <1>4, <1>5, <2>1 DEF UpsertDocument, WriterAt
<1>6. CASE AddChunks(w)
  <2>1. CASE \A q \in 1 .. writer[w].size : chunks[q] = 0
    <3>1. writer[w].ingest \in 0 .. MaxChange
      BY <1>0 DEF WriterTypes, Writer
    <3>2. DEFINE new == [NoWriter EXCEPT !.pc = "clear"]
    <3>3. new \in Writer /\ new.pc \notin Adding
      BY RestType DEF Writer, NoWriter, Adding
    <3>4. writer' = [writer EXCEPT ![w] = new]
      BY <1>6, <2>1 DEF AddChunks
    <3> HIDE DEF new
    <3>5. WriterTypes'
      BY <1>0, <3>3, <3>4 DEF WriterTypes
    <3> QED
      BY <1>0, <1>6, <2>1, <3>1, <3>5, CacheLeftType DEF AddChunks, WriterAt, TableTypes
  <2> QED
    BY <1>4, <1>6, <2>1 DEF AddChunks, WriterAt
<1>7. CASE ClearCache(w)
  <2>1. /\ cache' = [p \in Places |-> IF p \in Cleared(Home[w]) THEN None ELSE Excuse(cache[p])]
        /\ keys' = keys \ {Home[w]} /\ load' = LateLoads(Instances)
        /\ writer' = [writer EXCEPT ![w] = NoWriter]
        /\ UNCHANGED <<data, inflight, search, backend, changes>>
    BY <1>7 DEF ClearCache, WriterAt
  <2>2. \A p \in Places : cache'[p] \in Entry \union {None} /\ (cache'[p] # None => cache[p] # None)
    BY <1>0, <2>1, ExcuseType DEF CacheTypes
  <2>3. cache' \in [Places -> Entry \union {None}]
    BY <2>1, <2>2
  <2>4. load' \in [Searchers -> Load]
        /\ \A s \in Searchers : load'[s].pc = load[s].pc /\ load'[s].scope = load[s].scope
    BY <1>0, <2>1, LateType DEF CacheTypes
  <2>5. CacheTypes'
    BY <1>0, <2>1, <2>2, <2>3, <2>4 DEF CacheTypes, Running
  <2> QED
    BY <1>0, <2>1, <2>5, StopType DEF TableTypes, data
<1>8. CASE DeleteDocument(w)
  <2>1. changes + 1 \in 0 .. MaxChange /\ 0 \in 0 .. MaxChange
    BY <1>0, <1>8, BoundType DEF DeleteDocument, TableTypes
  <2>2. WriterTypes'
    BY <1>0, <1>8, MoveType DEF DeleteDocument, WriterGoes
  <2> QED
    BY <1>0, <1>8, <2>1, <2>2, CacheLeftType DEF DeleteDocument, TableTypes
<1>9. CASE DeleteBase(w)
  <2>1. changes + 1 \in 0 .. MaxChange /\ 0 \in 0 .. MaxChange
    BY <1>0, <1>9, BoundType DEF DeleteBase, TableTypes
  <2>2. TableTypes'
    BY <1>0, <1>9, <2>1 DEF DeleteBase, TableTypes
  <2>3. WriterTypes'
    BY <1>0, <1>9 DEF DeleteBase, WriterTypes
  <2> QED
    BY <1>0, <1>9, <2>2, <2>3, NotClearedType DEF DeleteBase
<1>10. CASE CutWriter(w)
  BY <1>4, <1>10 DEF CutWriter
<1> QED
  BY <1>1, <1>2, <1>3, <1>5, <1>6, <1>7, <1>8, <1>9, <1>10 DEF WriterStep

LEMMA SearchTypeStep ==
  ASSUME TypeInv, NEW s \in Searchers,
         Got(s) \/ LoadStep(s) \/ CancelSearch(s) \/ Wake(s) \/ \E c \in Scopes : Ask(s, c)
  PROVE  TypeInv'
<1> USE KnowledgeAssumption DEF TypeInv
<1>h. Home[s] \in Instances
  BY PlaceType
<1>1. ASSUME NEW c \in Scopes, CreateTask(s, c), TableIsLeft, UNCHANGED <<cache, keys>>
      PROVE  TypeInv'
  BY <1>h, <1>1 DEF CreateTask, TableIsLeft, TypeOK, InPlace, data, Load, NoLoad, Search, Running
<1>2. ASSUME NEW c \in Scopes, Ask(s, c)
      PROVE  TypeInv'
  <2>1. CASE inflight[Home[s]] # None
    BY <1>h, <1>2, <2>1 DEF Ask, Shares, TableIsLeft, TypeOK, InPlace, data, Search, Running
  <2>2. CASE inflight[Home[s]] = None /\ backend = "redis"
    <3>1. DEFINE new == [NoSearch EXCEPT !.pc = "get", !.scope = c]
    <3>2. new \in Search /\ new.pc = "get" /\ new.scope = c
      BY RestType DEF Search, NoSearch
    <3>3. search' = [search EXCEPT ![s] = new]
      BY <1>2, <2>2 DEF Ask
    <3> HIDE DEF new
    <3> QED
      BY <1>2, <2>2, <3>2, <3>3 DEF Ask, TableIsLeft, TypeOK, InPlace, data, Running
  <2>3. CASE inflight[Home[s]] = None /\ backend # "redis" /\ Servable(cache[Home[s]])
    BY <1>2, <2>3 DEF Ask, TableIsLeft, TypeOK, InPlace, data, Running
  <2>4. CASE inflight[Home[s]] = None /\ backend # "redis" /\ ~Servable(cache[Home[s]])
    BY <1>1, <1>2, <2>4 DEF Ask
  <2> QED
    BY <2>1, <2>2, <2>3, <2>4
<1>3. CASE Got(s)
  <2>1. CASE Servable(cache[Place(Home[s])])
    BY <1>3, <2>1, RestType DEF Got, TableIsLeft, TypeOK, InPlace, data, NoSearch, Running
  <2> QED
    BY <1>1, <1>3, <2>1 DEF Got, InPlace
<1>4. CASE ReadChunks(s)
  <2> DEFINE found == Found(load[s].scope)
             new == [load[s] EXCEPT !.of = found, !.pc = IF found = {} THEN "store" ELSE "vector"]
  <2>1. new \in Load /\ new.scope = load[s].scope
    <3>1. load[s] \in Load /\ found \in SUBSET Chunk
      BY FoundType DEF TypeOK
    <3> HIDE DEF found
    <3> QED
      BY <3>1 DEF Load
  <2>2. load' = [load EXCEPT ![s] = new]
    BY <1>4 DEF ReadChunks
  <2>3. Running(s)
    BY <1>4 DEF ReadChunks, LoadAt, Running
  <2> HIDE DEF new, found
  <2> QED
    <3>1. load' \in [Searchers -> Load]
      BY <2>1, <2>2 DEF TypeOK
    <3>2. \A r \in Searchers : Running(r)' => load'[r].scope \in Scopes
      BY <2>1, <2>2, <2>3 DEF TypeOK, InPlace, Running
    <3> QED
      BY <1>4, <3>1, <3>2 DEF ReadChunks, LoadAt, TableIsLeft, TypeOK, InPlace, data
<1>5. CASE VectorSearch(s)
  <2>1. Fused(Found(load[s].scope), load[s].of) \in SUBSET Chunk
    BY FoundType DEF Fused, TypeOK, Load
  <2> QED
    BY <1>5, <2>1 DEF VectorSearch, LoadAt, TableIsLeft, TypeOK, InPlace, data, Load, Running
<1>6. CASE StoreEntry(s)
  <2>1. [of |-> load[s].of, scope |-> load[s].scope, age |-> 0, excused |-> load[s].excused] \in Entry
    BY <1>6 DEF StoreEntry, LoadAt, InPlace, Running, TypeOK, Load, Entry
  <2>2. load' \in [Searchers -> Load] /\ load'[s].pc = "done"
    BY <1>6 DEF StoreEntry, Over, NoLoad, Load, TypeOK
  <2> QED
    BY <1>6, <2>1, <2>2, PlaceType
       DEF StoreEntry, LoadAt, TableIsLeft, TypeOK, InPlace, data, Running
<1>7. CASE CancelSearch(s)
  <2>1. \A r \in Searchers : Over(r, "failed") \in Load /\ Over(r, "failed").pc = "failed"
    BY DEF Over, NoLoad, Load, TypeOK
  <2> QED
    BY <1>7, <2>1 DEF CancelSearch, TableIsLeft, TypeOK, InPlace, data, Search, NoSearch, Running
<1>8. CASE Wake(s)
  <2>1. load' \in [Searchers -> Load] /\ \A r \in Searchers : Running(r)' => load'[r] = load[r]
    BY <1>8 DEF Wake, Running, NoLoad, Load, TypeOK
  <2> QED
    BY <1>8, <1>h, <2>1 DEF Wake, TableIsLeft, TypeOK, InPlace, data, Search, NoSearch, Running
<1> QED
  BY <1>2, <1>3, <1>4, <1>5, <1>6, <1>7, <1>8 DEF LoadStep

LEMMA TypeStep == TypeInv /\ [Next]_vars => TypeInv'
<1> SUFFICES ASSUME TypeInv, [Next]_vars PROVE TypeInv'
  OBVIOUS
<1>1. CASE UNCHANGED vars
  BY <1>1 DEF vars, data, TypeInv, TypeOK, InPlace, Running
<1>2. CASE Tick
  <2>1. \A p \in Places : /\ cache'[p] \in Entry \union {None}
                          /\ cache'[p] # None => cache[p] # None
    BY <1>2, KnowledgeAssumption DEF Tick, TypeInv, TypeOK, Entry
  <2>2. cache' \in [Places -> Entry \union {None}]
    BY <1>2, <2>1 DEF Tick
  <2> QED
    BY <1>2, <2>1, <2>2 DEF Tick, TableIsLeft, TypeInv, TypeOK, InPlace, data, Running
<1> QED
  BY <1>1, <1>2, WriterTypeStep, SearchTypeStep DEF Next

\* Every variable has its type: a writer that gave up holds no ingest, and
\* only the backend that is in use has entries.
THEOREM TypeCorrect == Spec => []TypeOK
<1>1. TypeInv => TypeOK
  BY DEF TypeInv
<1> QED
  BY <1>1, InitType, TypeStep, PTL DEF Spec

-----------------------------------------------------------------------------
\* Only a writer's steps change the table.
LEMMA SecondHasFirstStep == TypeInv /\ SecondHasFirst /\ [Next]_vars => SecondHasFirst'
<1> SUFFICES ASSUME TypeInv, SecondHasFirst, [Next]_vars PROVE SecondHasFirst'
  OBVIOUS
<1> USE DEF SecondHasFirst, Seqs
<1>1. ASSUME NEW w \in Writers, AddChunks(w) PROVE SecondHasFirst'
  <2>1. writer[w].size \in 1 .. 2
    BY <1>1 DEF AddChunks, WriterAt, TypeInv, InPlace, Adding
  <2>2. CASE \A q \in 1 .. writer[w].size : chunks[q] = 0
    BY <1>1, <2>1, <2>2 DEF AddChunks
  <2> QED
    BY <1>1, <2>2 DEF AddChunks, WriterFails, data
<1>2. ASSUME NEW w \in Writers, DeleteChunks(w) \/ DeleteDocument(w) \/ DeleteBase(w)
      PROVE  SecondHasFirst'
  BY <1>2 DEF DeleteChunks, DeleteDocument, DeleteBase
<1>3. ASSUME UNCHANGED chunks PROVE SecondHasFirst'
  BY <1>3
<1>4. ASSUME NEW w \in Writers,
             LookForDocument(w) \/ UpsertDocument(w) \/ ClearCache(w) \/ CutWriter(w)
               \/ \E n \in 1 .. 2 : Ingest(w, n)
      PROVE  UNCHANGED chunks
  BY <1>4 DEF LookForDocument, UpsertDocument, ClearCache, CutWriter, Ingest, WriterFails, data
<1>5. ASSUME NEW s \in Searchers,
             Got(s) \/ LoadStep(s) \/ CancelSearch(s) \/ Wake(s) \/ \E c \in Scopes : Ask(s, c)
      PROVE  UNCHANGED chunks
  BY <1>5 DEF Got, LoadStep, ReadChunks, VectorSearch, StoreEntry, LoadAt, CancelSearch, Wake,
     Ask, TableIsLeft, data
<1>6. Tick \/ UNCHANGED vars => UNCHANGED chunks
  BY DEF Tick, TableIsLeft, vars, data
<1> QED
  BY <1>1, <1>2, <1>3, <1>4, <1>5, <1>6 DEF Next, WriterStep

\* The chunks of the document are never mixed of two ingests, however the
\* ingests and deletions interleave or are cut short: store.py inserts the
\* chunks of an ingest as a whole, after a deletion of its own, and the key of
\* a chunk is made of its seq.
THEOREM ChunksAlwaysOfOneSource == Spec => []OneSource
<1>1. Init => SecondHasFirst
  BY DEF Init, SecondHasFirst, Seqs
<1>2. SecondHasFirst => OneSource
  BY DEF SecondHasFirst, OneSource, Seqs
<1> QED
  BY <1>1, <1>2, InitType, TypeStep, SecondHasFirstStep, PTL DEF Spec

-----------------------------------------------------------------------------
\* A search that creates a task in the process found nobody's in _inflight.
LEMMA CreateFlight ==
  ASSUME TypeInv, FlightInv, NEW s \in Searchers, NEW scope, CreateTask(s, scope),
         UNCHANGED backend, backend = "process" => inflight[Home[s]] = None
  PROVE  FlightInv'
<1> SUFFICES ASSUME backend = "process", NEW r \in Searchers, Owns(r)'
             PROVE  inflight'[Home[r]] = r
  BY DEF FlightInv
<1>1. inflight' = [inflight EXCEPT ![Home[s]] = s] /\ Home[s] \in Instances /\ Home[r] \in Instances
  BY PlaceType DEF CreateTask, TypeInv
<1>2. CASE r = s
  BY <1>1, <1>2 DEF TypeInv, TypeOK
<1>3. CASE r # s
  <2>1. Owns(r)
    BY <1>3 DEF CreateTask, Owns, Running, TypeInv, TypeOK
  <2>2. inflight[Home[r]] = r /\ r # None
    BY <2>1, KnowledgeAssumption DEF FlightInv
  <2> QED
    BY <1>1, <2>2 DEF TypeInv, TypeOK
<1> QED
  BY <1>2, <1>3

\* Where nobody comes to own a task and no entry of _inflight goes, all is well.
LEMMA KeepFlight ==
  ASSUME FlightInv, UNCHANGED <<backend, inflight>>, \A r \in Searchers : Owns(r)' => Owns(r)
  PROVE  FlightInv'
BY DEF FlightInv

LEMMA FlightStep == TypeInv /\ FlightInv /\ [Next]_vars => FlightInv'
<1> SUFFICES ASSUME TypeInv, FlightInv, [Next]_vars PROVE FlightInv'
  OBVIOUS
<1>1. ASSUME NEW w \in Writers,
             WriterStep(w) \/ DeleteDocument(w) \/ DeleteBase(w) \/ CutWriter(w)
               \/ \E n \in 1 .. 2 : Ingest(w, n)
      PROVE  FlightInv'
  <2>1. UNCHANGED <<backend, inflight, search>> /\ (load' = load \/ load' = LateLoads(Instances))
    BY <1>1 DEF WriterStep, DeleteChunks, LookForDocument, UpsertDocument, AddChunks, ClearCache,
       DeleteDocument, DeleteBase, CutWriter, Ingest, WriterFails, NotCleared, CacheIsLeft, WriterAt
  <2>2. \A r \in Searchers : load'[r].pc = load[r].pc
    BY <2>1, LateType DEF TypeInv, TypeOK
  <2> QED
    BY <2>1, <2>2, KeepFlight DEF Owns, Running
<1>2. ASSUME NEW s \in Searchers, NEW c \in Scopes, Ask(s, c) PROVE FlightInv'
  <2>1. CASE inflight[Home[s]] # None
    <3>1. ASSUME NEW r \in Searchers, Owns(r)', backend = "process" PROVE inflight[Home[r]] = r
      <4>1. Owns(r) \/ (r = s /\ inflight[Home[s]] = s)
        BY <1>2, <2>1, <3>1 DEF Ask, Shares, Owns, Running, TypeInv, TypeOK
      <4> QED
        BY <3>1, <4>1 DEF FlightInv
    <3> QED
      BY <1>2, <2>1, <3>1 DEF FlightInv, Ask, TableIsLeft
  <2>2. CASE inflight[Home[s]] = None /\ backend = "redis"
    BY <1>2, <2>2 DEF FlightInv, Ask, TableIsLeft
  <2>3. CASE inflight[Home[s]] = None /\ backend # "redis" /\ Servable(cache[Home[s]])
    BY <1>2, <2>3, KeepFlight DEF Ask, TableIsLeft, Owns, Running
  <2>4. CASE inflight[Home[s]] = None /\ backend # "redis" /\ ~Servable(cache[Home[s]])
    BY <1>2, <2>4, CreateFlight DEF Ask, TableIsLeft
  <2> QED
    BY <2>1, <2>2, <2>3, <2>4
<1>3. ASSUME NEW s \in Searchers, Got(s) PROVE FlightInv'
  BY <1>3 DEF Got, TableIsLeft, FlightInv, TypeInv, InPlace
<1>4. ASSUME NEW s \in Searchers, LoadStep(s) PROVE FlightInv'
  <2>1. UNCHANGED <<backend, inflight, search>> /\ \A r \in Searchers : Running(r)' => Running(r)
    BY <1>4 DEF LoadStep, ReadChunks, VectorSearch, StoreEntry, LoadAt, TableIsLeft, Over, NoLoad,
       Running, TypeInv, TypeOK, Load
  <2> QED
    BY <2>1, KeepFlight DEF Owns
<1>5. ASSUME NEW s \in Searchers, CancelSearch(s) PROVE FlightInv'
  <2>1. UNCHANGED <<backend, inflight>> /\ \A r \in Searchers : Owns(r)' => Owns(r)
    BY <1>5 DEF CancelSearch, TableIsLeft, Over, NoLoad, NoSearch, Owns, Running, TypeInv, TypeOK, Load
  <2> QED
    BY <2>1, KeepFlight
<1>6. ASSUME NEW s \in Searchers, Wake(s) PROVE FlightInv'
  <2>1. UNCHANGED backend /\ \A r \in Searchers : Owns(r)' => Owns(r) /\ ~(r = s /\ search[s].on = s)
    BY <1>6 DEF Wake, TableIsLeft, NoLoad, NoSearch, Owns, Running, TypeInv, TypeOK, InPlace
  <2>2. CASE search[s].on # s
    BY <1>6, <2>1, <2>2, KeepFlight DEF Wake
  <2>3. CASE search[s].on = s
    <3>1. Owns(s) /\ inflight' = [inflight EXCEPT ![Home[s]] = None]
      BY <1>6, <2>3 DEF Wake, Owns
    <3>2. ASSUME NEW r \in Searchers, Owns(r)', backend = "process" PROVE inflight'[Home[r]] = r
      <4>1. inflight[Home[r]] = r /\ inflight[Home[s]] = s /\ r # s
        BY <2>1, <2>3, <3>1, <3>2 DEF FlightInv
      <4> QED
        BY <3>1, <4>1, PlaceType DEF TypeInv, TypeOK
    <3> QED
      BY <2>1, <3>2 DEF FlightInv
  <2> QED
    BY <2>2, <2>3
<1>7. Tick \/ UNCHANGED vars => FlightInv'
  BY KeepFlight DEF Tick, TableIsLeft, vars, data, Owns, Running
<1> QED
  BY <1>1, <1>2, <1>3, <1>4, <1>5, <1>6, <1>7 DEF Next

\* In the process, concurrent misses of a key are one load (class docstring of
\* RetrievalCache): an entry of _inflight goes only when its creator wakes, and
\* nobody creates a task beside it, failed, cancelled and late loads included.
THEOREM AlwaysSingleFlight == Spec => []SingleFlight
<1>1. Init => FlightInv
  BY DEF Init, FlightInv, Owns, Running, NoLoad, NoSearch
<1>2. FlightInv => SingleFlight
  BY DEF FlightInv, SingleFlight, Owns
<1> QED
  BY <1>1, <1>2, InitType, TypeStep, FlightStep, PTL DEF Spec

-----------------------------------------------------------------------------
\* What CurrentInv says of an entry and of a load.
EntryCurrent(p) ==
  cache[p] # None /\ ~cache[p].excused => cache[p].of = Found(cache[p].scope)
LoadCurrent(s) ==
  load[s].pc \in {"vector", "store"} /\ ~load[s].excused => load[s].of = Found(load[s].scope)
LEMMA CurrentParts ==
  CurrentInv <=> (Quiet => (\A p \in Places : EntryCurrent(p)) /\ (\A s \in Searchers : LoadCurrent(s)))
BY DEF CurrentInv, EntryCurrent, LoadCurrent

\* What a search finds depends on the chunks alone.
LEMMA FoundStays == UNCHANGED chunks => \A scope : Found(scope)' = Found(scope)
BY DEF Found

\* Who ends a change excuses all that is old, in whatever state it left the table.
LEMMA ExcusedCurrent ==
  ASSUME TypeInv, load' = LateLoads(Instances),
         \A p \in Places : cache'[p] = None \/ cache'[p] = Excuse(cache[p])
  PROVE  CurrentInv'
<1>1. \A p \in Places : cache'[p] # None => cache'[p].excused
  BY ExcuseType DEF TypeInv, TypeOK, Entry
<1>2. ASSUME NEW s \in Searchers, load'[s].pc \in {"vector", "store"} PROVE load'[s].excused
  <2>1. load'[s].pc = load[s].pc
    BY LateType DEF TypeInv, TypeOK
  <2>2. load'[s] = [load[s] EXCEPT !.excused = TRUE]
    BY <1>2, <2>1, PlaceType DEF LateLoads, Running, TypeInv
  <2> QED
    BY <2>2 DEF TypeInv, TypeOK, Load
<1> QED
  BY <1>1, <1>2 DEF CurrentInv

LEMMA FailCurrent == TypeInv /\ NotCleared => CurrentInv'
BY ExcusedCurrent DEF NotCleared

LEMMA WriterCurrentStep ==
  ASSUME TypeInv, CurrentInv, NEW w \in Writers,
         WriterStep(w) \/ DeleteDocument(w) \/ DeleteBase(w) \/ CutWriter(w)
           \/ \E n \in 1 .. 2 : Ingest(w, n)
  PROVE  CurrentInv'
<1>1. CASE \E n \in 1 .. 2 : Ingest(w, n)
  <2>1. Quiet' => Quiet
    BY <1>1 DEF Ingest, NoWriter, Quiet, TypeInv, TypeOK
  <2>2. UNCHANGED <<chunks, cache, load>>
    BY <1>1 DEF Ingest, CacheIsLeft, data
  <2> QED
    BY <2>1, <2>2, FoundStays DEF CurrentInv
\* Until it has cleared the cache, the writer is not quiet.
<1>2. CASE writer'[w].pc \in {"look", "upsert", "add", "clear"}
  BY <1>2 DEF CurrentInv, Quiet
<1>3. CASE DeleteChunks(w)
  BY <1>2, <1>3 DEF DeleteChunks, WriterAt, WriterGoes, TypeInv, TypeOK, Writer
<1>4. CASE LookForDocument(w)
  BY <1>2, <1>4 DEF LookForDocument, WriterAt, TypeInv, TypeOK, Writer
<1>5. CASE UpsertDocument(w)
  <2>1. CASE writer[w].found = document
    BY <1>2, <1>5, <2>1 DEF UpsertDocument, WriterAt, TypeInv, TypeOK, Writer
  <2> QED
    BY <1>5, <2>1, FailCurrent DEF UpsertDocument, WriterFails
<1>6. CASE AddChunks(w)
  <2>1. CASE \A q \in 1 .. writer[w].size : chunks[q] = 0
    BY <1>2, <1>6, <2>1 DEF AddChunks, NoWriter, TypeInv, TypeOK
  <2> QED
    BY <1>6, <2>1, FailCurrent DEF AddChunks, WriterFails
<1>7. CASE ClearCache(w)
  <2>1. \A p \in Places : cache'[p] = None \/ cache'[p] = Excuse(cache[p])
    BY <1>7 DEF ClearCache
  <2> QED
    BY <1>7, <2>1, ExcusedCurrent DEF ClearCache
<1>8. CASE DeleteDocument(w)
  BY <1>2, <1>8 DEF DeleteDocument, WriterGoes, TypeInv, TypeOK, Writer
<1>9. CASE DeleteBase(w) \/ CutWriter(w)
  BY <1>9, FailCurrent DEF DeleteBase, CutWriter, WriterFails
<1> QED
  BY <1>1, <1>3, <1>4, <1>5, <1>6, <1>7, <1>8, <1>9 DEF WriterStep

\* Where only one load moves on, it has to be current where it arrives.
LEMMA LoadMoves ==
  ASSUME TypeInv, CurrentInv, TableIsLeft, NEW s \in Searchers, UNCHANGED cache,
         \A r \in Searchers \ {s} : load'[r] = load[r] \/ load'[r].pc \in {"read", "none", "failed"},
         Quiet => LoadCurrent(s)'
  PROVE  CurrentInv'
<1> SUFFICES ASSUME Quiet'
             PROVE  (\A p \in Places : EntryCurrent(p)') /\ (\A r \in Searchers : LoadCurrent(r)')
  BY DEF CurrentInv, EntryCurrent, LoadCurrent
<1>1. Quiet /\ UNCHANGED <<chunks, cache>>
  BY DEF Quiet, TableIsLeft, data
<1>2. \A scope : Found(scope)' = Found(scope)
  BY <1>1, FoundStays
<1>3. ASSUME NEW r \in Searchers, r # s PROVE LoadCurrent(r)'
  BY <1>1, <1>2, <1>3, CurrentParts DEF LoadCurrent
<1> QED
  BY <1>1, <1>2, <1>3, CurrentParts DEF EntryCurrent

LEMMA SearchCurrentStep ==
  ASSUME TypeInv, CurrentInv, NEW s \in Searchers,
         Got(s) \/ LoadStep(s) \/ CancelSearch(s) \/ Wake(s) \/ \E c \in Scopes : Ask(s, c)
  PROVE  CurrentInv'
<1>1. ASSUME UNCHANGED load, UNCHANGED cache, TableIsLeft PROVE CurrentInv'
  BY <1>1, FoundStays DEF CurrentInv, Quiet, TableIsLeft, data
<1>2. ASSUME NEW c, CreateTask(s, c), UNCHANGED cache, TableIsLeft PROVE CurrentInv'
  <2>1. load'[s].pc = "read" /\ \A r \in Searchers \ {s} : load'[r] = load[r]
    BY <1>2 DEF CreateTask, NoLoad, TypeInv, TypeOK
  <2> QED
    BY <1>2, <2>1, LoadMoves DEF LoadCurrent
<1>3. CASE Got(s) \/ \E c \in Scopes : Ask(s, c)
  BY <1>1, <1>2, <1>3 DEF Got, Ask
<1>4. CASE ReadChunks(s)
  <2>1. /\ load'[s].of = Found(load[s].scope) /\ load'[s].scope = load[s].scope
        /\ \A r \in Searchers \ {s} : load'[r] = load[r]
    BY <1>4 DEF ReadChunks, TypeInv, TypeOK, Load
  <2>2. LoadCurrent(s)'
    BY <1>4, <2>1, FoundStays DEF LoadCurrent, ReadChunks, LoadAt, TableIsLeft, data
  <2> QED
    BY <1>4, <2>1, <2>2, LoadMoves DEF ReadChunks, LoadAt
<1>5. CASE VectorSearch(s)
  <2>1. /\ load'[s].of = Fused(Found(load[s].scope), load[s].of)
        /\ load'[s].scope = load[s].scope /\ load'[s].excused = load[s].excused
        /\ \A r \in Searchers \ {s} : load'[r] = load[r]
    BY <1>5 DEF VectorSearch, TypeInv, TypeOK, Load
  <2>2. ASSUME Quiet, ~load[s].excused PROVE load'[s].of = Found(load[s].scope)
    <3>1. load[s].of = Found(load[s].scope)
      BY <1>5, <2>2 DEF CurrentInv, VectorSearch, LoadAt
    <3> QED
      BY <2>1, <3>1 DEF Fused
  <2>3. Quiet => LoadCurrent(s)'
    BY <1>5, <2>1, <2>2, FoundStays DEF LoadCurrent, VectorSearch, LoadAt, TableIsLeft, data
  <2> QED
    BY <1>5, <2>1, <2>3, LoadMoves DEF VectorSearch, LoadAt
<1>6. CASE StoreEntry(s)
  <2> DEFINE new == [of |-> load[s].of, scope |-> load[s].scope, age |-> 0,
                     excused |-> load[s].excused]
  <2>1. cache' = [cache EXCEPT ![Place(Home[s])] = new] /\ TableIsLeft
    BY <1>6 DEF StoreEntry, LoadAt
  <2>2. load'[s].pc = "done" /\ \A r \in Searchers \ {s} : load'[r] = load[r]
    BY <1>6 DEF StoreEntry, Over, NoLoad, TypeInv, TypeOK
  <2>3. Quiet /\ ~new.excused => new.of = Found(new.scope)
    BY <1>6 DEF StoreEntry, LoadAt, CurrentInv
  <2>4. \A scope : Found(scope)' = Found(scope)
    BY <2>1, FoundStays DEF TableIsLeft, data
  <2> HIDE DEF new
  <2>5. ASSUME Quiet', NEW p \in Places PROVE EntryCurrent(p)'
    <3>1. cache'[p] = cache[p] \/ cache'[p] = new
      BY <2>1, PlaceType DEF TypeInv, TypeOK
    <3>2. Quiet
      BY <2>1, <2>5 DEF Quiet, TableIsLeft
    <3> QED
      BY <2>3, <2>4, <3>1, <3>2, CurrentParts DEF EntryCurrent
  <2>6. ASSUME Quiet', NEW r \in Searchers PROVE LoadCurrent(r)'
    <3>1. Quiet
      BY <2>1, <2>6 DEF Quiet, TableIsLeft
    <3> QED
      BY <2>2, <2>4, <3>1, CurrentParts DEF LoadCurrent
  <2> QED
    BY <2>5, <2>6 DEF CurrentInv, EntryCurrent, LoadCurrent
<1>7. CASE CancelSearch(s)
  <2>1. CASE UNCHANGED load
    BY <1>1, <1>7, <2>1 DEF CancelSearch
  <2>2. CASE load' = [load EXCEPT ![search[s].on] = Over(search[s].on, "failed")]
             /\ search[s].pc = "wait"
    <3>1. \A r \in Searchers : load'[r] = load[r] \/ load'[r].pc = "failed"
      BY <2>2 DEF Over, NoLoad, TypeInv, TypeOK
    <3> QED
      BY <1>7, <3>1, LoadMoves, CurrentParts, FoundStays DEF CancelSearch, LoadCurrent, TableIsLeft, data
  <2> QED
    BY <1>7, <2>1, <2>2 DEF CancelSearch
<1>8. CASE Wake(s)
  <2>1. \A r \in Searchers : load'[r] = load[r] \/ load'[r].pc = "none"
    BY <1>8 DEF Wake, NoLoad, TypeInv, TypeOK
  <2> QED
    BY <1>8, <2>1, LoadMoves, CurrentParts, FoundStays DEF Wake, LoadCurrent, TableIsLeft, data
<1> QED
  BY <1>3, <1>4, <1>5, <1>6, <1>7, <1>8 DEF LoadStep

LEMMA CurrentStep == TypeInv /\ CurrentInv /\ [Next]_vars => CurrentInv'
<1> SUFFICES ASSUME TypeInv, CurrentInv, [Next]_vars PROVE CurrentInv'
  OBVIOUS
<1>1. CASE Tick
  <2>1. ASSUME NEW p \in Places, cache'[p] # None
        PROVE  cache[p] # None /\ cache'[p].of = cache[p].of /\ cache'[p].scope = cache[p].scope
               /\ cache'[p].excused = cache[p].excused
    BY <1>1, <2>1 DEF Tick, TypeInv, TypeOK, Entry
  <2>2. UNCHANGED <<chunks, load, writer>>
    BY <1>1 DEF Tick, TableIsLeft, data
  <2> QED
    BY <2>1, <2>2, FoundStays DEF CurrentInv, Quiet
<1>2. CASE UNCHANGED vars
  BY <1>2, FoundStays DEF CurrentInv, Quiet, vars, data
<1> QED
  BY <1>1, <1>2, WriterCurrentStep, SearchCurrentStep DEF Next

\* Once no writer is under way, a cached answer is what the table holds, unless
\* the change came without a clear, its clear did not reach the entry, or the
\* answer was being loaded meanwhile: cache.py leaves no other way to go stale.
THEOREM AlwaysCurrentUnlessExcused == Spec => []CurrentUnlessExcused
<1>1. Init => CurrentInv
  BY DEF Init, CurrentInv, NoLoad
<1>2. CurrentInv => CurrentUnlessExcused
  BY DEF CurrentInv, CurrentUnlessExcused, Quiet, NoWriter
<1> QED
  BY <1>1, <1>2, InitType, TypeStep, CurrentStep, PTL DEF Spec

-----------------------------------------------------------------------------
(* What runs leave behind *)

\* Where a driver and a request stand: a request that adds has come from a
\* feedback on a run or from a saved case, and one that removes from a sweep,
\* which takes nothing but what belongs to runs, or from a purge.
DriverPcs == {"new", "call", "step", "finish", "distil", "recall", "remember", "idle"}
RequestPcs == {"idle", "over", "ensure", "create", "case", "lookup", "publish", "update",
               "delete", "commit"}
MemoryRow == [by : Authors, fact : Facts, deleted : BOOLEAN]
Call == [run : Runs, named : BOOLEAN]
Taken == [runs : SUBSET Runs, steps : SUBSET Runs, calls : SUBSET Call, payload : SUBSET Runs,
          dataset : SUBSET Requests, cases : SUBSET Requests, memory : SUBSET Authors]
AnyRequest == [pc : RequestPcs, kind : AllKinds \union {"none"}, run : Runs \union {Absent},
               what : Specs \union {Absent}, of : Requests \union {Absent}, taken : Taken]
Storing == {"ensure", "create", "case"}
Telling == {"lookup", "publish"}
Removing == {"delete", "commit"}
StandsRight(r) ==
  /\ r.pc \in Storing => r.kind \in Adders
  /\ r.pc \in Telling => r.kind = "feedback"
  /\ r.pc = "update" => r.kind = "seed"
  /\ r.pc \in Removing => r.kind \in {"sweep", "purge"}
  /\ r.pc \in {"idle", "over"} => r.kind = "none"
  /\ r.kind = "feedback" => r.run \in Runs
  /\ r.kind = "seed" => r.run = Absent
  /\ r.pc \in {"case", "update"} => r.of \in Requests
  /\ r.kind = "sweep" =>
       r.taken.memory = {} /\ r.taken.dataset = {} /\ r.taken.cases = {}
DriversRight ==
  /\ driver \in [Runs -> [pc : DriverPcs, fact : Facts \union {Absent}]]
  /\ \A x \in Runs : driver[x].pc \in {"recall", "remember"} => driver[x].fact \in Facts
RequestsRight ==
  /\ request \in [Requests -> AnyRequest]
  /\ \A q \in Requests : StandsRight(request[q])
RecordsInv ==
  /\ RecordsTypeOK /\ DriversRight /\ RequestsRight
  /\ cleared \in {"never", "now", "before"}

-----------------------------------------------------------------------------
LEMMA NothingType == Nothing \in Taken
BY DEF Nothing, Taken

LEMMA EndedType ==
  /\ Idle \in AnyRequest /\ StandsRight(Idle) /\ Ended \in AnyRequest /\ StandsRight(Ended)
  /\ Idle.pc = "idle" /\ Ended.pc = "over" /\ Idle.kind = "none" /\ Ended.kind = "none"
  /\ Ended.taken = Nothing
BY NothingType DEF Idle, Ended, AnyRequest, StandsRight, RequestPcs, Storing, Telling, Removing

\* One request moves, the others stand.
LEMMA BecomesRight ==
  ASSUME RequestsRight, NEW q \in Requests, NEW now \in AnyRequest, StandsRight(now),
         request' = [request EXCEPT ![q] = now]
  PROVE  /\ RequestsRight'
         /\ request'[q] = now /\ \A p \in Requests \ {q} : request'[p] = request[p]
BY DEF RequestsRight

LEMMA SteersRight ==
  ASSUME DriversRight, NEW x \in Runs, NEW pc \in DriverPcs \ {"recall", "remember"}, Steers(x, pc)
  PROVE  /\ DriversRight'
         /\ driver'[x].pc = pc /\ \A y \in Runs \ {x} : driver'[y] = driver[y]
BY DEF DriversRight, Steers

\* The tables keep their types: those of the runs, and the others.
RowTypes ==
  /\ run \in [Runs -> RunRow \union {Absent}]
  /\ steps \subseteq Runs /\ calls \subseteq Call
  /\ payload \in [Runs -> {"none", "now", "old"}]
WheelTypes ==
  /\ memory \in Seq(MemoryRow)
  /\ dataset \subseteq Requests
  /\ cases \in [Requests -> CaseRow \union {Absent}]
  /\ event \in [Runs -> Requests \union {Absent}]
RestTypes ==
  /\ resumed \subseteq Runs /\ told \subseteq Requests
  /\ cleared \in {"never", "now", "before"}
LEMMA RecordParts ==
  /\ RecordsInv <=> RowTypes /\ WheelTypes /\ RestTypes /\ DriversRight /\ RequestsRight
  /\ RecordsInv' <=> RowTypes' /\ WheelTypes' /\ RestTypes' /\ DriversRight' /\ RequestsRight'
BY DEF RecordsInv, RecordsTypeOK, RowTypes, WheelTypes, RestTypes, DriversRight, MemoryRow, Call

LEMMA RowsStand == RowTypes /\ UNCHANGED rows => RowTypes'
BY DEF RowTypes, rows
LEMMA WheelStands == WheelTypes /\ UNCHANGED wheel => WheelTypes'
BY DEF WheelTypes, wheel
LEMMA DriversStand == DriversRight /\ UNCHANGED driver => DriversRight'
BY DEF DriversRight
LEMMA RequestsStand == RequestsRight /\ UNCHANGED request => RequestsRight'
BY DEF RequestsRight

LEMMA InsertType ==
  ASSUME WheelTypes, NEW by \in Authors, NEW f \in Facts, NEW met, Insert(by, f, met)
  PROVE  memory' \in Seq(MemoryRow)
<1>1. [by |-> by, fact |-> f, deleted |-> FALSE] \in MemoryRow
  BY DEF MemoryRow
<1> QED
  BY <1>1, AppendProperties DEF WheelTypes, Insert

LEMMA RecordsInitType == RecordsInit => RecordsInv
<1> SUFFICES ASSUME RecordsInit PROVE RecordsInv
  OBVIOUS
<1>1. RowTypes
  BY DEF RecordsInit, RowTypes
<1>2. WheelTypes
  BY EmptySeq DEF RecordsInit, WheelTypes
<1>3. RestTypes /\ DriversRight
  BY DEF RecordsInit, RestTypes, DriversRight, DriverPcs
<1>4. RequestsRight
  BY EndedType DEF RecordsInit, RequestsRight
<1> QED
  BY <1>1, <1>2, <1>3, <1>4, RecordParts

LEMMA DriveType ==
  ASSUME RecordsInv, NEW x \in Runs, Drive(x)
  PROVE  RecordsInv'
<1>0. RowTypes /\ WheelTypes /\ RestTypes /\ DriversRight /\ RequestsRight
  BY RecordParts
<1>1. RequestsRight' /\ UNCHANGED request
  BY <1>0, RequestsStand DEF Drive, BeginRun, RecordCall, AddStep, Finish, Resume, Crash, Distil,
    Recall, Looks, Remember, Drives, NoRequest
<1>2. RestTypes'
  BY <1>0 DEF RestTypes, Drive, BeginRun, RecordCall, AddStep, Finish, Resume, Crash, Distil,
    Recall, Looks, Remember, Drives, NoRequest, Starts
<1>3. WheelTypes'
  <2>1. CASE Remember(x)
    <3>1. CASE Insert(x, driver[x].fact, past)
      <4>1. driver[x].fact \in Facts /\ x \in Authors
        BY <1>0, <2>1 DEF Remember, DriversRight, Authors
      <4> QED
        BY <1>0, <2>1, <3>1, <4>1, InsertType DEF WheelTypes, Remember
    <3>2. CASE UNCHANGED memory
      BY <1>0, <2>1, <3>2 DEF WheelTypes, Remember
    <3> QED
      BY <2>1, <3>1, <3>2 DEF Remember
  <2>2. CASE UNCHANGED wheel
    BY <1>0, <2>2, WheelStands
  <2> QED
    BY <2>1, <2>2 DEF Drive, BeginRun, RecordCall, AddStep, Finish, Resume, Crash, Distil,
      Recall, Looks, Drives, NoRequest
<1>4. RowTypes'
  <2>1. CASE BeginRun(x)
    BY <1>0, <2>1 DEF BeginRun, RowTypes, RunRow
  <2>2. CASE RecordCall(x)
    <3>1. calls' \subseteq Call
      BY <1>0, <2>2 DEF RecordCall, RowTypes, Call
    <3> QED
      BY <1>0, <2>2, <3>1 DEF RecordCall, RowTypes
  <2>3. CASE AddStep(x)
    BY <1>0, <2>3 DEF AddStep, RowTypes
  <2>4. CASE Finish(x)
    BY <1>0, <2>4 DEF Finish, RowTypes, RunRow
  <2>5. CASE Resume(x)
    <3>1. run[x] \in RunRow
      BY <1>0, <2>5 DEF Resume, RowTypes
    <3>2. [run[x] EXCEPT !.state = "running"] \in RunRow
      BY <3>1 DEF RunRow
    <3> QED
      BY <1>0, <2>5, <3>2 DEF Resume, RowTypes
  <2>6. CASE UNCHANGED rows
    BY <1>0, <2>6, RowsStand
  <2> QED
    BY <2>1, <2>2, <2>3, <2>4, <2>5, <2>6 DEF Drive, Crash, Distil, Recall, Looks, Remember
<1>5. DriversRight'
  <2>1. CASE Distil(x)
    <3>1. CASE Steers(x, "idle")
      BY <1>0, <3>1, SteersRight DEF DriverPcs
    <3>2. ASSUME NEW f \in Facts, driver' = [driver EXCEPT ![x] = [pc |-> "recall", fact |-> f]]
          PROVE  DriversRight'
      BY <1>0, <3>2 DEF DriversRight, DriverPcs
    <3> QED
      BY <2>1, <3>1, <3>2 DEF Distil
  <2>2. CASE Recall(x)
    <3>1. CASE Steers(x, "idle")
      BY <1>0, <3>1, SteersRight DEF DriverPcs
    <3>2. CASE driver' = [driver EXCEPT ![x].pc = "remember"]
      BY <1>0, <2>2, <3>2 DEF DriversRight, DriverPcs, Recall, Looks
    <3> QED
      BY <2>2, <3>1, <3>2 DEF Recall, Looks
  <2>3. ASSUME NEW pc \in {"call", "step", "finish", "distil", "idle"}, Steers(x, pc)
        PROVE  DriversRight'
    BY <1>0, <2>3, SteersRight DEF DriverPcs
  <2> QED
    BY <2>1, <2>2, <2>3 DEF Drive, BeginRun, RecordCall, AddStep, Finish, Resume, Crash, Remember
<1> QED
  BY <1>1, <1>2, <1>3, <1>4, <1>5, RecordParts

\* A request that begins.
LEMMA BeginsType ==
  ASSUME RecordsInv, NEW q \in Requests, NEW kind, NEW now \in AnyRequest, StandsRight(now),
         Begins(q, kind, now)
  PROVE  RecordsInv'
<1>1. RowTypes' /\ WheelTypes' /\ DriversRight'
  BY RecordParts, RowsStand, WheelStands, DriversStand DEF Begins, Asks
<1>2. RequestsRight' /\ RestTypes'
  BY RecordParts, BecomesRight DEF Begins, Asks, Becomes, Starts, RestTypes
<1> QED
  BY <1>1, <1>2, RecordParts

\* What the requests of each kind begin with.
LEMMA BeginningsType ==
  /\ \A x \in Runs : [Idle EXCEPT !.kind = "feedback", !.pc = "ensure", !.run = x] \in AnyRequest
       /\ StandsRight([Idle EXCEPT !.kind = "feedback", !.pc = "ensure", !.run = x])
  /\ \A spec \in Specs : [Saved(spec) EXCEPT !.pc = "ensure"] \in AnyRequest
       /\ StandsRight([Saved(spec) EXCEPT !.pc = "ensure"])
  /\ \A spec \in Specs, c \in Requests : [Saved(spec) EXCEPT !.pc = "update", !.of = c] \in AnyRequest
       /\ StandsRight([Saved(spec) EXCEPT !.pc = "update", !.of = c])
  /\ \A kind \in {"sweep", "purge"}, ids \in SUBSET Runs :
       /\ [Idle EXCEPT !.kind = kind, !.pc = "delete", !.taken.runs = ids] \in AnyRequest
       /\ StandsRight([Idle EXCEPT !.kind = kind, !.pc = "delete", !.taken.runs = ids])
<1> USE DEF Idle, Saved, AnyRequest, StandsRight, RequestPcs, AllKinds, Adders, Storing, Telling, Removing
<1>1. ASSUME NEW x \in Runs
      PROVE  LET now == [Idle EXCEPT !.kind = "feedback", !.pc = "ensure", !.run = x] IN
             now \in AnyRequest /\ StandsRight(now)
  BY NothingType
<1>2. ASSUME NEW spec \in Specs
      PROVE  LET now == [Saved(spec) EXCEPT !.pc = "ensure"] IN
             now \in AnyRequest /\ StandsRight(now)
  BY NothingType
<1>3. ASSUME NEW spec \in Specs, NEW c \in Requests
      PROVE  LET now == [Saved(spec) EXCEPT !.pc = "update", !.of = c] IN
             now \in AnyRequest /\ StandsRight(now)
  BY NothingType
<1>4. ASSUME NEW kind \in {"sweep", "purge"}, NEW ids \in SUBSET Runs
      PROVE  LET now == [Idle EXCEPT !.kind = kind, !.pc = "delete", !.taken.runs = ids] IN
             now \in AnyRequest /\ StandsRight(now)
  <2>1. [Nothing EXCEPT !.runs = ids] \in Taken
    BY DEF Nothing, Taken
  <2>2. LET taken == [Nothing EXCEPT !.runs = ids] IN
        taken.memory = {} /\ taken.dataset = {} /\ taken.cases = {}
    BY DEF Nothing
  <2> QED
    BY <2>1, <2>2
<1> QED
  BY <1>1, <1>2, <1>3, <1>4

LEMMA AskType ==
  ASSUME RecordsInv, NEW q \in Requests, AskRecords(q)
  PROVE  RecordsInv'
<1>1. ASSUME NEW x \in Runs, Feedback(q, x) PROVE RecordsInv'
  BY <1>1, BeginsType, BeginningsType, EndedType DEF Feedback
<1>2. ASSUME NEW spec \in Specs, Seed(q, spec) PROVE RecordsInv'
  BY <1>2, BeginsType, BeginningsType, EndedType DEF Seed, Seeds, SavedCases
<1>3. CASE Sweep(q) \/ Purge(q)
  BY <1>3, BeginsType, BeginningsType DEF Sweep, Purge, Lists, Present
<1>4. ASSUME RestTypes' /\ RequestsRight' /\ UNCHANGED <<rows, driver, dataset, cases, event>>,
             memory' \in Seq(MemoryRow)
      PROVE  RecordsInv'
  <2>1. RowTypes' /\ DriversRight'
    BY <1>4, RecordParts, RowsStand, DriversStand
  <2>2. WheelTypes'
    BY <1>4, RecordParts DEF WheelTypes
  <2> QED
    BY <1>4, <2>1, <2>2, RecordParts
<1>5. ASSUME NEW kind, Asks(q, kind), Ends(q) PROVE RestTypes' /\ RequestsRight'
  BY <1>5, RecordParts, BecomesRight, EndedType DEF Asks, Ends, Becomes, Starts, RestTypes
<1>6. ASSUME NEW f \in Facts, Write(q, f) PROVE RecordsInv'
  <2>1. memory' \in Seq(MemoryRow)
    BY <1>6, RecordParts, InsertType DEF Write, Authors
  <2> QED
    BY <1>4, <1>5, <1>6, <2>1 DEF Write, Asks
<1>7. ASSUME NEW w, Forget(q, w) PROVE RecordsInv'
  <2>1. Len(memory) \in Nat /\ DOMAIN memory = 1 .. Len(memory)
        /\ \A i \in 1 .. Len(memory) : memory[i] \in MemoryRow
    BY RecordParts, LenProperties DEF WheelTypes
  <2>2. \A i \in 1 .. Len(memory) : [memory[i] EXCEPT !.deleted = TRUE] \in MemoryRow
    BY <2>1 DEF MemoryRow
  <2>3. memory' \in [1 .. Len(memory) -> MemoryRow]
    BY <1>7, <2>1, <2>2 DEF Forget
  <2>4. memory' \in Seq(MemoryRow)
    BY <2>1, <2>3, SeqDef
  <2> QED
    BY <1>4, <1>5, <1>7, <2>4 DEF Forget, Asks
<1> QED
  BY <1>1, <1>2, <1>3, <1>6, <1>7 DEF AskRecords

\* A request that goes on writes at most one of the tables, and moves.
LEMMA ServeMoves ==
  ASSUME RecordsInv, NEW q \in Requests, NEW now \in AnyRequest, StandsRight(now),
         request' = [request EXCEPT ![q] = now], UNCHANGED driver,
         RowTypes', WheelTypes', told' \subseteq Requests, UNCHANGED resumed,
         cleared' \in {"never", "now", "before"}
  PROVE  RecordsInv'
<1>1. DriversRight' /\ RequestsRight'
  BY RecordParts, BecomesRight, DriversStand
<1> QED
  BY <1>1, RecordParts DEF RestTypes

\* What a purge leaves of the memories are some of them.
LEMMA NewerType ==
  ASSUME WheelTypes, NEW gone
  PROVE  /\ Newer(gone) \in Seq(MemoryRow)
         /\ (\A i \in DOMAIN memory : memory[i].by \in gone) => Newer(gone) = <<>>
<1> DEFINE S == {i \in DOMAIN memory : memory[i].by \in gone}
<1>1. Len(memory) \in Nat /\ DOMAIN memory = 1 .. Len(memory)
      /\ \A i \in 1 .. Len(memory) : memory[i] \in MemoryRow
  BY LenProperties DEF WheelTypes
<1>2. IsFiniteSet(1 .. Len(memory)) /\ Cardinality(1 .. Len(memory)) = Len(memory)
  BY <1>1, FS_Interval
<1>3. S \subseteq 1 .. Len(memory)
  BY <1>1
<1>4. Cardinality(S) \in Nat
  BY <1>2, <1>3, FS_Subset, FS_CardinalityType
<1>5. Newer(gone) = SubSeq(memory, Cardinality(S) + 1, Len(memory))
  BY DEF Newer
<1> HIDE DEF S
<1>6. Newer(gone) \in Seq(MemoryRow)
  BY <1>1, <1>4, <1>5, SubSeqProperties
<1>7. ASSUME \A i \in DOMAIN memory : memory[i].by \in gone PROVE Newer(gone) = <<>>
  <2>1. S = 1 .. Len(memory)
    BY <1>1, <1>7 DEF S
  <2> QED
    BY <1>1, <1>2, <1>5, <2>1, SubSeqEmpty
<1> QED
  BY <1>6, <1>7

\* Where a request may go.
LEMMA GoesRight ==
  ASSUME RecordsInv, NEW q \in Requests
  PROVE  /\ request[q] \in AnyRequest
         /\ request[q].pc = "ensure" =>
              LET now == [request[q] EXCEPT !.pc = "create"] IN now \in AnyRequest /\ StandsRight(now)
         /\ request[q].pc \in {"ensure", "create"} => \A d \in Requests :
              LET now == [request[q] EXCEPT !.pc = "case", !.of = d] IN now \in AnyRequest /\ StandsRight(now)
         /\ request[q].pc = "case" /\ request[q].kind # "seed" =>
              LET now == [request[q] EXCEPT !.pc = "lookup"] IN now \in AnyRequest /\ StandsRight(now)
         /\ request[q].pc = "lookup" =>
              LET now == [request[q] EXCEPT !.pc = "publish"] IN now \in AnyRequest /\ StandsRight(now)
         /\ request[q].pc = "delete" => \A t \in Taken :
              (request[q].kind = "sweep" => t.memory = {} /\ t.dataset = {} /\ t.cases = {}) =>
              LET now == [request[q] EXCEPT !.pc = "commit", !.taken = t] IN now \in AnyRequest /\ StandsRight(now)
<1>1. request[q] \in AnyRequest /\ StandsRight(request[q])
  BY RecordParts DEF RequestsRight
<1> HIDE DEF RecordsInv
<1> QED
  BY <1>1 DEF AnyRequest, StandsRight, RequestPcs, Storing, Telling, Removing, Adders

LEMMA ServeType ==
  ASSUME RecordsInv, NEW q \in Requests, Serve(q)
  PROVE  RecordsInv'
<1>0. RowTypes /\ WheelTypes /\ RestTypes /\ request[q] \in AnyRequest /\ StandsRight(request[q])
  BY RecordParts DEF RequestsRight
<1>1. CASE FindDataset(q)
  <2>1. RowTypes' /\ WheelTypes' /\ UNCHANGED <<driver, resumed, told, cleared>>
    BY <1>0, <1>1, RowsStand, WheelStands DEF FindDataset, Serves, Goes, Becomes
  <2>2. dataset \subseteq Requests
    BY <1>0 DEF WheelTypes
  <2> QED
    BY <1>0, <1>1, <2>1, <2>2, GoesRight, ServeMoves DEF FindDataset, At, Goes, Becomes, RestTypes
<1>2. CASE CreateDataset(q)
  <2>1. RowTypes' /\ WheelTypes' /\ UNCHANGED <<driver, resumed, told, cleared>>
    BY <1>0, <1>2, RowsStand DEF CreateDataset, Serves, Becomes, WheelTypes
  <2> QED
    BY <1>0, <1>2, <2>1, GoesRight, ServeMoves DEF CreateDataset, At, Becomes, RestTypes
<1>3. CASE AddCase(q)
  <2>1. [dataset |-> request[q].of, run |-> request[q].run, spec |-> request[q].what] \in CaseRow
    BY <1>0, <1>3 DEF AddCase, Adds, At, CaseRow, AnyRequest, StandsRight
  <2>2. RowTypes' /\ WheelTypes' /\ UNCHANGED <<driver, resumed, told, cleared>>
    BY <1>0, <1>3, <2>1, RowsStand DEF AddCase, Adds, Serves, Goes, Ends, Becomes, WheelTypes
  <2> QED
    BY <1>0, <1>3, <2>2, GoesRight, EndedType, ServeMoves
      DEF AddCase, Adds, At, Goes, Ends, Becomes, RestTypes
<1>4. CASE LookupEvent(q)
  <2>1. RowTypes' /\ WheelTypes' /\ UNCHANGED <<driver, resumed, cleared>> /\ told' \subseteq Requests
    BY <1>0, <1>4, RowsStand, WheelStands DEF LookupEvent, Serves, Goes, Becomes, Told, RestTypes
  <2> QED
    BY <1>0, <1>4, <2>1, GoesRight, EndedType, ServeMoves
      DEF LookupEvent, At, Goes, Becomes, Told, RestTypes
<1>5. CASE Publish(q)
  <2>1. RowTypes' /\ WheelTypes' /\ UNCHANGED <<driver, resumed, cleared>> /\ told' \subseteq Requests
    BY <1>0, <1>5, RowsStand DEF Publish, Serves, Ends, Becomes, Told, RestTypes, WheelTypes
  <2> QED
    BY <1>0, <1>5, <2>1, EndedType, ServeMoves DEF Publish, Ends, Becomes, Told, RestTypes
<1>6. CASE UpdateCase(q)
  <2>1. ASSUME NEW c \in Requests, cases[c] # Absent PROVE [cases[c] EXCEPT !.spec = request[q].what] \in CaseRow
    BY <1>0, <2>1 DEF CaseRow, AnyRequest, WheelTypes
  <2>2. RowTypes' /\ WheelTypes' /\ UNCHANGED <<driver, resumed, told, cleared>>
    <3>1. cases' \in [Requests -> CaseRow \union {Absent}]
      BY <1>0, <1>6, <2>1 DEF UpdateCase, At, StandsRight, WheelTypes
    <3> QED
      BY <1>0, <1>6, <3>1, RowsStand DEF UpdateCase, Serves, Ends, Becomes, WheelTypes
  <2> QED
    BY <1>0, <1>6, <2>2, EndedType, ServeMoves DEF UpdateCase, Ends, Becomes, RestTypes
<1>7. CASE DeleteOldRows(q)
  <2> DEFINE ids == request[q].taken.runs
             t == [Nothing EXCEPT !.runs = ids, !.steps = steps \intersect ids, !.calls = CallsOf(ids),
                     !.payload = {x \in Runs : payload[x] = "old"} \union {x \in ids : payload[x] # "none"}]
  <2>1. t \in Taken /\ t.memory = {} /\ t.dataset = {} /\ t.cases = {}
    BY <1>0 DEF Nothing, Taken, AnyRequest, RowTypes, CallsOf
  <2>2. request' = [request EXCEPT ![q] = [request[q] EXCEPT !.pc = "commit", !.taken = t]]
        /\ request[q].pc = "delete"
    BY <1>7 DEF DeleteOldRows, Takes, Becomes, At
  <2>3. RowTypes' /\ WheelTypes' /\ UNCHANGED <<driver, resumed, told, cleared>>
    BY <1>0, <1>7, RowsStand, WheelStands DEF DeleteOldRows, Takes, Serves, Becomes
  <2> HIDE DEF t
  <2> QED
    BY <1>0, <2>1, <2>2, <2>3, GoesRight, ServeMoves DEF RestTypes
<1>8. CASE DeleteTenantRows(q)
  <2> DEFINE ids == request[q].taken.runs
             t == [runs |-> Present, steps |-> steps \intersect ids,
                   calls |-> {c \in calls : c.named},
                   payload |-> {x \in ids : payload[x] # "none"}, dataset |-> dataset,
                   cases |-> {c \in Requests : cases[c] # Absent},
                   memory |-> {memory[i].by : i \in DOMAIN memory}]
  <2>1. DOMAIN memory = 1 .. Len(memory) /\ \A i \in 1 .. Len(memory) : memory[i] \in MemoryRow
    BY <1>0, LenProperties DEF WheelTypes
  <2>2. t \in Taken
    BY <1>0, <2>1 DEF Taken, AnyRequest, RowTypes, WheelTypes, Present, MemoryRow
  <2>3. request' = [request EXCEPT ![q] = [request[q] EXCEPT !.pc = "commit", !.taken = t]]
        /\ request[q].pc = "delete" /\ request[q].kind = "purge"
    BY <1>8 DEF DeleteTenantRows, Becomes, At
  <2>4. RowTypes' /\ WheelTypes' /\ UNCHANGED <<driver, resumed, told, cleared>>
    BY <1>0, <1>8, RowsStand, WheelStands DEF DeleteTenantRows, Serves, Becomes
  <2> HIDE DEF t
  <2> QED
    BY <1>0, <2>2, <2>3, <2>4, GoesRight, ServeMoves DEF RestTypes
<1>9. CASE Commit(q)
  <2>1. RowTypes' /\ WheelTypes'
    <3>1. CASE UNCHANGED <<rows, memory, dataset, cases, cleared>>
      BY <1>0, <1>9, <3>1, RowsStand DEF Commit, WheelTypes
    <3>2. CASE ~UNCHANGED <<rows, memory, dataset, cases, cleared>>
      <4>1. RowTypes'
        BY <1>0, <1>9, <3>2 DEF Commit, RowTypes
      <4>2. memory' \in Seq(MemoryRow)
        BY <1>0, <1>9, <3>2, NewerType DEF Commit
      <4>3. WheelTypes'
        BY <1>0, <1>9, <3>2, <4>2 DEF Commit, WheelTypes
      <4> QED
        BY <4>1, <4>3
    <3> QED
      BY <3>1, <3>2
  <2>2. UNCHANGED <<driver, resumed, told>> /\ cleared' \in {"never", "now", "before"}
    BY <1>0, <1>9 DEF Commit, Ends, Becomes, RestTypes
  <2> QED
    BY <1>0, <1>9, <2>1, <2>2, EndedType, ServeMoves DEF Commit, Ends, Becomes, RestTypes
<1>10. CASE Cut(q)
  <2>1. RowTypes' /\ WheelTypes' /\ UNCHANGED <<driver, resumed, told, cleared>>
    BY <1>0, <1>10, RowsStand, WheelStands DEF Cut, Serves, Ends, Becomes
  <2> QED
    BY <1>0, <1>10, <2>1, EndedType, ServeMoves DEF Cut, Ends, Becomes, RestTypes
<1> QED
  BY <1>1, <1>2, <1>3, <1>4, <1>5, <1>6, <1>7, <1>8, <1>9, <1>10 DEF Serve

LEMMA AgeType ==
  ASSUME RecordsInv, Age
  PROVE  RecordsInv'
<1>1. RowTypes'
  BY RecordParts DEF Age, RowTypes, RunRow
<1>2. WheelTypes' /\ RestTypes' /\ DriversRight' /\ RequestsRight'
  BY RecordParts, WheelStands, DriversStand, RequestsStand DEF Age, Drives, NoRequest, RestTypes
<1> QED
  BY <1>1, <1>2, RecordParts

LEMMA RecordsTypeStep == RecordsInv /\ [RecordsNext]_recordsVars => RecordsInv'
<1> SUFFICES ASSUME RecordsInv, [RecordsNext]_recordsVars PROVE RecordsInv'
  OBVIOUS
<1>1. CASE UNCHANGED recordsVars
  BY <1>1, RecordParts, RowsStand, WheelStands, DriversStand, RequestsStand DEF recordsVars, RestTypes
<1> QED
  BY <1>1, DriveType, AskType, ServeType, AgeType DEF RecordsNext

\* Every variable has its type: a case is in a dataset that some request made.
THEOREM RecordsTypeCorrect == RecordsSpec => []RecordsTypeOK
<1>1. RecordsInv => RecordsTypeOK
  BY DEF RecordsInv
<1> QED
  BY <1>1, RecordsInitType, RecordsTypeStep, PTL DEF RecordsSpec

-----------------------------------------------------------------------------
(* What the steps of a driver and of a request leave alone *)

\* A driver writes its own run's rows only; at rest it does nothing but begin
\* or resume, and no step makes an end look older.
LEMMA DriveEffect ==
  ASSUME RecordsInv, NEW x \in Runs, Drive(x)
  PROVE  /\ UNCHANGED <<dataset, cases, event, request, told>> /\ past \subseteq past'
         /\ \A y \in Runs \ {x} :
              /\ driver'[y] = driver[y] /\ run'[y] = run[y] /\ payload'[y] = payload[y]
              /\ (y \in steps' <=> y \in steps) /\ (y \in resumed' <=> y \in resumed)
              /\ CallsOf({y})' = CallsOf({y})
         /\ x \in resumed => x \in resumed'
         /\ driver'[x].pc # "new"
         /\ run[x] # Absent => run'[x] # Absent
         /\ run'[x] # Absent => run[x] # Absent \/ BeginRun(x)
         /\ run'[x] # Absent /\ run'[x].finished = "old" => run[x] # Absent /\ run[x].finished = "old"
         /\ \/ BeginRun(x) /\ driver[x].pc = "new"
            \/ Resume(x) /\ x \in resumed'
            \/ ~Rests(x) /\ UNCHANGED <<resumed, cleared>>
<1>0. RowTypes /\ DriversRight /\ x \in DOMAIN driver /\ x \in DOMAIN run /\ x \in DOMAIN payload
  BY RecordParts DEF RowTypes, DriversRight
<1>a. Absent \notin RunRow
  BY RecordsAssumption
<1>1. UNCHANGED <<dataset, cases, event, request, told>> /\ past \subseteq past'
  BY DEF Drive, BeginRun, RecordCall, AddStep, Finish, Resume, Crash, Distil,
    Recall, Looks, Remember, Insert, Drives, NoRequest, wheel
<1>2. driver'[x].pc # "new" /\ \A y \in Runs \ {x} : driver'[y] = driver[y]
  <2>1. ASSUME NEW pc \in {"call", "step", "finish", "distil", "idle"}, Steers(x, pc)
        PROVE  driver'[x].pc # "new" /\ \A y \in Runs \ {x} : driver'[y] = driver[y]
    BY <1>0, <2>1, SteersRight DEF DriverPcs
  <2>2. CASE Distil(x)
    <3>1. CASE Steers(x, "idle")
      BY <2>1, <3>1
    <3>2. CASE ~Steers(x, "idle")
      BY <1>0, <2>2, <3>2 DEF Distil, DriversRight
    <3> QED
      BY <3>1, <3>2
  <2>3. CASE Recall(x)
    <3>1. CASE Steers(x, "idle")
      BY <2>1, <3>1
    <3>2. CASE driver' = [driver EXCEPT ![x].pc = "remember"]
      BY <1>0, <3>2 DEF DriversRight
    <3> QED
      BY <2>3, <3>1, <3>2 DEF Recall, Looks
  <2>5. CASE BeginRun(x) \/ RecordCall(x) \/ AddStep(x) \/ Resume(x)
    BY <2>1, <2>5 DEF BeginRun, RecordCall, AddStep, Resume
  <2>6. CASE Finish(x) \/ Crash(x) \/ Remember(x)
    BY <2>1, <2>6 DEF Finish, Crash, Remember
  <2> QED
    BY <2>2, <2>3, <2>5, <2>6 DEF Drive
<1>4. CASE BeginRun(x)
  BY <1>0, <1>a, <1>1, <1>2, <1>4 DEF BeginRun, CallsOf, RunRow, RowTypes
<1>5. CASE RecordCall(x)
  <2>1. PICK names : calls' = calls \union [run : {x}, named : names]
    BY <1>5 DEF RecordCall
  <2>2. \A y \in Runs \ {x} : CallsOf({y})' = CallsOf({y})
    BY <2>1 DEF CallsOf
  <2>3. UNCHANGED <<run, steps, resumed, cleared>> /\ ~Rests(x)
    BY <1>5 DEF RecordCall, Drives, Rests
  <2>4. payload' = payload \/ payload' = [payload EXCEPT ![x] = "now"]
    BY <1>5 DEF RecordCall
  <2>5. \A y \in Runs \ {x} : payload'[y] = payload[y]
    BY <1>0, <2>4 DEF RowTypes
  <2>6. \A y : (y \in steps' <=> y \in steps) /\ (y \in resumed' <=> y \in resumed)
    BY <2>3
  <2> QED
    BY <1>1, <1>2, <2>2, <2>3, <2>5, <2>6
<1>6. CASE AddStep(x)
  BY <1>0, <1>1, <1>2, <1>6 DEF AddStep, Drives, Rests, CallsOf
<1>7. CASE Finish(x)
  BY <1>0, <1>a, <1>1, <1>2, <1>7 DEF Finish, Drives, Rests, CallsOf, RunRow, RowTypes
<1>8. CASE Resume(x)
  <2>1. run[x] \in RunRow /\ run'[x] = [run[x] EXCEPT !.state = "running"]
    BY <1>0, <1>8 DEF Resume, RowTypes
  <2>2. run'[x] \in RunRow /\ run'[x].finished = run[x].finished
    BY <2>1 DEF RunRow
  <2> QED
    BY <1>0, <1>a, <1>1, <1>2, <1>8, <2>2 DEF Resume, CallsOf
<1>9. CASE Crash(x) \/ Distil(x) \/ Recall(x) \/ Remember(x)
  <2>1. UNCHANGED <<rows, resumed, cleared>> /\ ~Rests(x)
    BY <1>9 DEF Crash, Distil, Recall, Looks, Remember, Drives, Rests
  <2> QED
    BY <1>1, <1>2, <2>1 DEF rows, CallsOf
<1> QED
  BY <1>4, <1>5, <1>6, <1>7, <1>8, <1>9 DEF Drive

\* A request that comes leaves the rows of runs and the drivers, and is of one
\* of these kinds; a sweep has listed what is old.
Sweeps(r) == r.kind = "sweep"
LEMMA AskEffect ==
  ASSUME RecordsInv, NEW q \in Requests, AskRecords(q)
  PROVE  /\ UNCHANGED <<rows, driver, resumed, told, dataset, cases, event>>
         /\ ~InFlight(q) /\ \A p \in Requests \ {q} : request'[p] = request[p]
         /\ Sweeps(request'[q]) => request'[q].pc = "delete" /\
              request'[q].taken.runs = {x \in Present : run[x].finished = "old"}
         /\ request'[q].kind = "purge" =>
              request'[q].pc = "delete" /\ request'[q].taken.runs = Present
         /\ cleared' = IF cleared = "now" THEN "before" ELSE cleared
         /\ \E kind \in AllKinds : past \subseteq past' /\ Met(q, kind) \subseteq past'
              /\ request'[q].kind \in {kind, "none"}
<1>0. q \in DOMAIN request
  BY RecordParts DEF RequestsRight
<1>1. \A kind : past \subseteq Met(q, kind)
  BY DEF Met
<1>2. ASSUME NEW kind \in AllKinds, NEW now, Begins(q, kind, now)
      PROVE  /\ UNCHANGED <<rows, driver, resumed, told, dataset, cases, event>>
             /\ ~InFlight(q) /\ \A p \in Requests \ {q} : request'[p] = request[p]
             /\ cleared' = IF cleared = "now" THEN "before" ELSE cleared
             /\ past \subseteq past' /\ Met(q, kind) \subseteq past' /\ request'[q] = now
  BY <1>0, <1>1, <1>2 DEF Begins, Asks, Becomes, At, InFlight, Starts, wheel
<1>3. ASSUME NEW x \in Runs, Feedback(q, x)
      PROVE  \E now : Begins(q, "feedback", now) /\ now.kind \in {"feedback", "none"}
  <2> DEFINE now == IF run[x] = Absent THEN Ended
                    ELSE [Idle EXCEPT !.kind = "feedback", !.pc = "ensure", !.run = x]
  <2>1. now.kind \in {"feedback", "none"}
    BY EndedType DEF Idle
  <2> QED
    BY <1>3, <2>1 DEF Feedback
<1>4. ASSUME NEW spec \in Specs, Seed(q, spec)
      PROVE  \E now : Begins(q, "seed", now) /\ now.kind \in {"seed", "none"}
  <2>1. /\ [Saved(spec) EXCEPT !.pc = "ensure"].kind = "seed"
        /\ \A c : [Saved(spec) EXCEPT !.pc = "update", !.of = c].kind = "seed"
    BY DEF Saved, Idle
  <2> QED
    BY <1>4, <2>1, EndedType DEF Seed, Seeds
<1>5. ASSUME NEW kind \in {"sweep", "purge"}, NEW ids, Lists(q, kind, ids)
      PROVE  \E now : Begins(q, kind, now) /\ now.kind = kind /\ now.pc = "delete" /\ now.taken.runs = ids
  <2> DEFINE now == [Idle EXCEPT !.kind = kind, !.pc = "delete", !.taken.runs = ids]
  <2>1. now.kind = kind /\ now.pc = "delete" /\ now.taken.runs = ids
    BY DEF Idle, Nothing
  <2> QED
    BY <1>5, <2>1 DEF Lists
<1>6. ASSUME NEW f \in Facts, Write(q, f)
      PROVE  /\ UNCHANGED <<rows, driver, resumed, told, dataset, cases, event>>
             /\ ~InFlight(q) /\ \A p \in Requests \ {q} : request'[p] = request[p]
             /\ cleared' = IF cleared = "now" THEN "before" ELSE cleared
             /\ past \subseteq past' /\ Met(q, "write") \subseteq past' /\ request'[q] = Ended
  BY <1>0, <1>1, <1>6 DEF Write, Insert, Asks, Ends, Becomes, At, InFlight, Starts
<1>7. ASSUME NEW w, Forget(q, w)
      PROVE  /\ UNCHANGED <<rows, driver, resumed, told, dataset, cases, event>>
             /\ ~InFlight(q) /\ \A p \in Requests \ {q} : request'[p] = request[p]
             /\ cleared' = IF cleared = "now" THEN "before" ELSE cleared
             /\ past \subseteq past' /\ Met(q, "forget") \subseteq past' /\ request'[q] = Ended
  BY <1>0, <1>1, <1>7 DEF Forget, Asks, Ends, Becomes, At, InFlight, Starts
<1>8. CASE Sweep(q)
  BY <1>2, <1>5, <1>8 DEF Sweep, Sweeps, AllKinds
<1>9. CASE Purge(q)
  BY <1>2, <1>5, <1>9 DEF Purge, Sweeps, AllKinds
<1> QED
  BY <1>2, <1>3, <1>4, <1>6, <1>7, <1>8, <1>9, EndedType DEF AskRecords, Sweeps, AllKinds

\* A request that goes on ends, or stays of its kind and about its run.
LEMMA ServeEffect ==
  ASSUME RecordsInv, NEW q \in Requests, Serve(q)
  PROVE  /\ UNCHANGED <<driver, resumed, past>> /\ InFlight(q)
         /\ \A p \in Requests \ {q} : request'[p] = request[p]
         /\ \/ request'[q] = Ended
            \/ /\ request'[q].kind = request[q].kind /\ request'[q].run = request[q].run
               /\ InFlight(q)' /\ (Sweeps(request[q]) => request'[q].taken.runs = request[q].taken.runs)
         /\ ~Commit(q) => UNCHANGED <<rows, memory, cleared>>
         /\ \A x \in Runs : run'[x] # run[x] =>
              Commit(q) /\ x \in request[q].taken.runs /\ run'[x] = Absent
<1>0. q \in DOMAIN request /\ request[q] \in AnyRequest /\ StandsRight(request[q])
  BY RecordParts DEF RequestsRight
<1>1. InFlight(q)
  BY DEF Serve, FindDataset, CreateDataset, AddCase, Adds, LookupEvent, Publish, UpdateCase,
    DeleteOldRows, Takes, DeleteTenantRows, Commit, Cut, At, InFlight
<1>2. UNCHANGED <<driver, resumed, past>>
  BY DEF Serve, FindDataset, CreateDataset, AddCase, Adds, LookupEvent, Publish, UpdateCase,
    DeleteOldRows, Takes, DeleteTenantRows, Commit, Cut, Serves
<1>3. ASSUME ~Commit(q) PROVE UNCHANGED <<rows, memory, cleared>>
  BY <1>3 DEF Serve, FindDataset, CreateDataset, AddCase, Adds, LookupEvent, Publish, UpdateCase,
    DeleteOldRows, Takes, DeleteTenantRows, Cut, Serves, wheel
<1>4. \A p \in Requests \ {q} : request'[p] = request[p]
  <2>1. ASSUME NEW now, request' = [request EXCEPT ![q] = now]
        PROVE  \A p \in Requests \ {q} : request'[p] = request[p]
    BY <1>0, <2>1
  <2>2. CASE FindDataset(q) \/ CreateDataset(q) \/ AddCase(q) \/ LookupEvent(q) \/ Publish(q)
    BY <2>1, <2>2 DEF FindDataset, CreateDataset, AddCase, Adds, LookupEvent, Publish, Becomes, Goes, Ends, Told
  <2>3. CASE UpdateCase(q) \/ DeleteOldRows(q) \/ DeleteTenantRows(q) \/ Commit(q) \/ Cut(q)
    BY <2>1, <2>3 DEF UpdateCase, DeleteOldRows, Takes, DeleteTenantRows, Commit, Cut, Becomes, Ends
  <2> QED
    BY <2>2, <2>3 DEF Serve
<1>5. \/ request'[q] = Ended
      \/ /\ request'[q].kind = request[q].kind /\ request'[q].run = request[q].run
         /\ InFlight(q)' /\ (Sweeps(request[q]) => request'[q].taken.runs = request[q].taken.runs)
  <2>1. CASE FindDataset(q)
    BY <1>0, <2>1 DEF FindDataset, Becomes, Goes, InFlight, AnyRequest
  <2>2. CASE CreateDataset(q)
    BY <1>0, <2>2 DEF CreateDataset, Becomes, InFlight, AnyRequest
  <2>3. CASE AddCase(q)
    BY <1>0, <2>3 DEF AddCase, Adds, Becomes, Goes, Ends, InFlight, AnyRequest
  <2>4. CASE LookupEvent(q)
    BY <1>0, <2>4 DEF LookupEvent, Told, Becomes, Goes, InFlight, AnyRequest
  <2>5. CASE Publish(q) \/ UpdateCase(q) \/ Commit(q) \/ Cut(q)
    BY <1>0, <2>5 DEF Publish, UpdateCase, Commit, Cut, Ends, Told, Becomes
  <2>6. CASE DeleteOldRows(q)
    <3> DEFINE t == [Nothing EXCEPT !.runs = request[q].taken.runs,
                       !.steps = steps \intersect request[q].taken.runs,
                       !.calls = CallsOf(request[q].taken.runs),
                       !.payload = {x \in Runs : payload[x] = "old"}
                                   \union {x \in request[q].taken.runs : payload[x] # "none"}]
    <3>1. t.runs = request[q].taken.runs
      BY DEF Nothing
    <3>2. request' = [request EXCEPT ![q] = [request[q] EXCEPT !.pc = "commit", !.taken = t]]
      BY <2>6 DEF DeleteOldRows, Takes, Becomes
    <3> HIDE DEF t
    <3> QED
      BY <1>0, <3>1, <3>2 DEF InFlight, AnyRequest
  <2>7. CASE DeleteTenantRows(q)
    BY <1>0, <2>7 DEF DeleteTenantRows, Becomes, InFlight, AnyRequest, Sweeps
  <2> QED
    BY <2>1, <2>2, <2>3, <2>4, <2>5, <2>6, <2>7 DEF Serve
<1>6. ASSUME NEW x \in Runs, run'[x] # run[x]
      PROVE  Commit(q) /\ x \in request[q].taken.runs /\ run'[x] = Absent
  <2>1. Commit(q)
    BY <1>3, <1>6 DEF rows
  <2> QED
    BY <1>6, <2>1 DEF Commit, rows
<1> QED
  BY <1>1, <1>2, <1>3, <1>4, <1>5, <1>6

-----------------------------------------------------------------------------
(* The sweep *)

\* Of a run that was never resumed the stamp is right: there is a row once it
\* has begun, and what ended long ago rests.  A sweep has listed such runs.
StampOf(x) ==
  /\ driver[x].pc = "new" => run[x] = Absent
  /\ run[x] # Absent /\ run[x].finished = "old" => driver[x].pc = "idle"
  /\ \A q \in Requests : Sweeps(request[q]) /\ x \in request[q].taken.runs =>
       driver[x].pc = "idle" /\ (run[x] = Absent \/ run[x].finished = "old")
StampInv == \A x \in Runs \ resumed : StampOf(x)

\* No kind stays with a request that is over.
LEMMA KindOf ==
  ASSUME RecordsInv, NEW q \in Requests
  PROVE  /\ ~InFlight(q) => request[q].kind = "none"
         /\ Sweeps(request[q]) => InFlight(q)
         /\ ~Sweeps(Ended) /\ Ended.kind # "purge" /\ Ended.pc = "over"
BY RecordParts, EndedType DEF RequestsRight, StandsRight, InFlight, Sweeps

LEMMA StampStep == RecordsInv /\ StampInv /\ [RecordsNext]_recordsVars => StampInv'
<1> SUFFICES ASSUME RecordsInv, StampInv, [RecordsNext]_recordsVars,
                    NEW y \in Runs, y \notin resumed'
             PROVE  StampOf(y)'
  BY DEF StampInv
<1>1. ASSUME NEW x \in Runs, Drive(x) PROVE StampOf(y)'
  <2>1. request' = request
    BY <1>1, DriveEffect
  <2>2. CASE y # x
    BY <1>1, <2>1, <2>2, DriveEffect DEF StampInv, StampOf
  <2>3. CASE y = x
    <3>1. StampOf(x) /\ ~Resume(x) /\ (run[x] # Absent \/ BeginRun(x) \/ run'[x] = Absent)
      BY <1>1, <2>3, DriveEffect DEF StampInv, Resume
    <3>2. driver[x].pc # "idle"
      BY <1>1, <2>3, DriveEffect DEF Rests
    <3>3. driver'[x].pc # "new"
      BY <1>1, DriveEffect
    <3>4. ~(run'[x] # Absent /\ run'[x].finished = "old")
      BY <1>1, <3>1, <3>2, DriveEffect DEF StampOf
    <3> QED
      BY <2>1, <2>3, <3>1, <3>2, <3>3, <3>4 DEF StampOf
  <2> QED
    BY <2>2, <2>3
<1>2. ASSUME NEW q \in Requests, AskRecords(q) PROVE StampOf(y)'
  <2>1. UNCHANGED <<run, driver, resumed>> /\ \A p \in Requests \ {q} : request'[p] = request[p]
    BY <1>2, AskEffect DEF rows
  <2>2. ASSUME Sweeps(request'[q]), y \in request'[q].taken.runs
        PROVE  run[y] # Absent /\ run[y].finished = "old"
    BY <1>2, <2>2, AskEffect DEF Present
  <2> QED
    BY <2>1, <2>2 DEF StampInv, StampOf
<1>3. ASSUME NEW q \in Requests, Serve(q) PROVE StampOf(y)'
  <2>1. UNCHANGED <<driver, resumed>> /\ \A p \in Requests \ {q} : request'[p] = request[p]
    BY <1>3, ServeEffect
  <2>2. run'[y] = run[y] \/ run'[y] = Absent
    BY <1>3, ServeEffect
  <2>3. Sweeps(request'[q]) => Sweeps(request[q]) /\ request'[q].taken.runs = request[q].taken.runs
    BY <1>3, ServeEffect, KindOf DEF Sweeps
  <2> QED
    BY <2>1, <2>2, <2>3 DEF StampInv, StampOf
<1>4. CASE Age
  <2>1. UNCHANGED <<driver, resumed, request>> /\ Rests(y) /\ \A q \in Requests : ~InFlight(q)
    BY <1>4 DEF Age, Drives, NoRequest
  <2>2. run'[y] = Absent <=> run[y] = Absent
    BY <1>4, RecordParts, RecordsAssumption DEF Age, RowTypes, RunRow
  <2>3. \A q \in Requests : ~Sweeps(request[q])
    BY <2>1, KindOf
  <2> QED
    BY <2>1, <2>2, <2>3 DEF StampInv, StampOf, Rests
<1>5. CASE UNCHANGED recordsVars
  BY <1>5 DEF recordsVars, rows, StampInv, StampOf
<1> QED
  BY <1>1, <1>2, <1>3, <1>4, <1>5 DEF RecordsNext

LEMMA StampInit == RecordsInit => StampInv
BY EndedType DEF RecordsInit, StampInv, StampOf, Sweeps

\* The sweep removes runs that ended longer ago than the retention and that
\* nobody drives (test_data.py, test_retention_sweep_deletes_old_runs_only),
\* in whatever order its statements and the steps of drivers come.
THEOREM SweptAlwaysOver == RecordsSpec => SweptIsOver
<1>1. ASSUME RecordsInv, StampInv, [RecordsNext]_recordsVars,
             ~\E q \in Requests : At(q, "commit") /\ request[q].kind = "purge",
             NEW x \in Runs \ resumed, run[x] # Absent, run'[x] = Absent
      PROVE  run[x].finished = "old" /\ Rests(x)
  <2>1. ASSUME NEW y \in Runs, Drive(y) PROVE FALSE
    BY <1>1, <2>1, DriveEffect
  <2>2. ASSUME NEW q \in Requests, AskRecords(q) PROVE FALSE
    BY <1>1, <2>2, AskEffect DEF rows
  <2>3. ASSUME NEW q \in Requests, Serve(q) PROVE run[x].finished = "old" /\ Rests(x)
    <3>1. Commit(q) /\ x \in request[q].taken.runs
      BY <1>1, <2>3, ServeEffect
    <3>2. Sweeps(request[q])
      BY <1>1, <3>1, RecordParts DEF Commit, At, RequestsRight, StandsRight, Removing, Sweeps
    <3> QED
      BY <1>1, <3>1, <3>2 DEF StampInv, StampOf, Rests
  <2>4. ~Age
    BY <1>1, RecordParts, RecordsAssumption DEF Age, RowTypes, RunRow
  <2>5. ~UNCHANGED recordsVars
    BY <1>1 DEF recordsVars, rows
  <2> QED
    BY <1>1, <2>1, <2>2, <2>3, <2>4, <2>5 DEF RecordsNext
<1>2. RecordsInv /\ StampInv /\ [RecordsNext]_recordsVars =>
        [(~\E q \in Requests : At(q, "commit") /\ request[q].kind = "purge") =>
           \A x \in Runs \ resumed : run[x] # Absent /\ run'[x] = Absent =>
             run[x].finished = "old" /\ Rests(x)]_recordsVars
  BY <1>1
<1> QED
  BY <1>2, RecordsInitType, RecordsTypeStep, StampInit, StampStep, PTL DEF RecordsSpec, SweptIsOver

-----------------------------------------------------------------------------
(* What is removed leaves nothing *)

\* While no purge has met anything: a run that was never resumed and has no row
\* rests and has no traces, those it has name their tenant, and a sweep that
\* is about to commit has taken all that the run it takes has.
NoTraces(x) == x \notin steps /\ CallsOf({x}) = {} /\ payload[x] = "none"
TracesOf(x) ==
  /\ run[x] = Absent => Rests(x) /\ NoTraces(x)
  /\ \A c \in CallsOf({x}) : c.named
  /\ \A q \in Requests :
       Sweeps(request[q]) /\ request[q].pc = "commit" /\ x \in request[q].taken.runs =>
         /\ x \in steps => x \in request[q].taken.steps
         /\ CallsOf({x}) \subseteq request[q].taken.calls
         /\ payload[x] # "none" => x \in request[q].taken.payload
\* A purge is alone, and takes all there is.
Alone(q) ==
  /\ \A p \in Requests \ {q} : ~InFlight(p)
  /\ \A x \in Runs : Rests(x)
TakesAll(t) ==
  /\ steps \intersect Present \subseteq t.steps
  /\ \A c \in calls : c.named => c \in t.calls
  /\ \A x \in Present : payload[x] # "none" => x \in t.payload
  /\ dataset \subseteq t.dataset /\ SavedCases \subseteq t.cases
  /\ \A i \in DOMAIN memory : memory[i].by \in t.memory
PurgeOf(q) ==
  request[q].kind = "purge" =>
    /\ Alone(q) /\ request[q].taken.runs = Present
    /\ request[q].pc = "commit" => TakesAll(request[q].taken)
\* What a purge has cleared stays so until something begins.
Emptied ==
  /\ memory = <<>> /\ dataset = {} /\ SavedCases = {}
  /\ \A p \in Requests : ~InFlight(p)
  /\ \A x \in Runs : Rests(x)
ClearInv ==
  "purge" \notin past =>
    /\ \A x \in Runs \ resumed : TracesOf(x)
    /\ \A q \in Requests : PurgeOf(q)
    /\ cleared = "now" => Emptied

\* A driver that moves has met no purge, and there was none since which nothing
\* began.
LEMMA DriveUnmet ==
  ASSUME RecordsInv, ClearInv, NEW x \in Runs, Drive(x), "purge" \notin past'
  PROVE  /\ "purge" \notin past /\ cleared' # "now"
         /\ \A q \in Requests : request[q].kind # "purge"
<1>1. "purge" \notin past
  BY DriveEffect
<1>2. CASE BeginRun(x) \/ Resume(x)
  <2>1. ~Purging /\ cleared' # "now"
    BY <1>2 DEF BeginRun, Resume, Starts
  <2> QED
    BY <1>1, <2>1, KindOf DEF Purging
<1>3. CASE ~Rests(x)
  <2>1. cleared' = cleared \/ BeginRun(x) \/ Resume(x)
    BY DriveEffect
  <2> QED
    BY <1>1, <1>2, <1>3, <2>1 DEF ClearInv, PurgeOf, Alone, Emptied
<1> QED
  BY <1>2, <1>3, DriveEffect

LEMMA DriveNames ==
  ASSUME RecordsInv, NEW x \in Runs, Drive(x), run[x] # Absent \/ BeginRun(x)
  PROVE  \A c \in CallsOf({x})' : c \in CallsOf({x}) \/ c.named
<1>1. CASE RecordCall(x)
  <2>1. PICK names \in {{run[x] # Absent}, {run[x] # Absent, TRUE}} :
          calls' = calls \union [run : {x}, named : names]
    BY <1>1 DEF RecordCall
  <2>2. run[x] # Absent
    BY <1>1 DEF RecordCall, BeginRun
  <2>3. (run[x] # Absent) = TRUE
    BY <2>2
  <2>4. names = {TRUE}
    BY <2>1, <2>3
  <2> QED
    BY <2>1, <2>4 DEF CallsOf
<1>2. CASE UNCHANGED calls
  BY <1>2 DEF CallsOf
<1> QED
  BY <1>1, <1>2 DEF Drive, BeginRun, AddStep, Finish, Resume, Crash, Distil, Recall, Looks,
    Remember, rows

LEMMA ClearDrive ==
  ASSUME RecordsInv, StampInv, ClearInv, NEW x \in Runs, Drive(x)
  PROVE  ClearInv'
<1> SUFFICES ASSUME "purge" \notin past' PROVE ClearInv'
  BY DEF ClearInv
<1>1. "purge" \notin past /\ cleared' # "now" /\ \A q \in Requests : request[q].kind # "purge"
  BY DriveUnmet
<1>2. request' = request
  BY DriveEffect
<1>3. ASSUME NEW y \in Runs, y \notin resumed', y # x PROVE TracesOf(y)'
  <2>1. TracesOf(y)
    BY <1>1, <1>3, DriveEffect DEF ClearInv
  <2> QED
    BY <1>2, <1>3, <2>1, DriveEffect DEF TracesOf, NoTraces, Rests
<1>4. ASSUME x \notin resumed' PROVE TracesOf(x)'
  <2>1. TracesOf(x) /\ StampOf(x) /\ ~Resume(x)
    BY <1>1, <1>4, DriveEffect DEF ClearInv, StampInv, Resume
  <2>2. run[x] # Absent \/ BeginRun(x)
    BY <2>1, DriveEffect DEF TracesOf
  <2>3. run'[x] # Absent
    BY <2>2, DriveEffect, RecordParts, RecordsAssumption DEF BeginRun, RowTypes, RunRow
  <2>4. \A c \in CallsOf({x})' : c.named
    BY <2>1, <2>2, DriveNames DEF TracesOf
  <2>5. driver[x].pc # "idle"
    BY <2>1, DriveEffect DEF Rests
  <2> QED
    BY <1>2, <2>1, <2>3, <2>4, <2>5 DEF TracesOf, StampOf
<1> QED
  BY <1>1, <1>2, <1>3, <1>4 DEF ClearInv, PurgeOf

\* A request that comes meets no purge; a purge that comes is alone.
LEMMA ClearAsk ==
  ASSUME RecordsInv, ClearInv, NEW q \in Requests, AskRecords(q)
  PROVE  ClearInv'
<1> SUFFICES ASSUME "purge" \notin past' PROVE ClearInv'
  BY DEF ClearInv
<1>1. PICK kind \in AllKinds : past \subseteq past' /\ Met(q, kind) \subseteq past'
                               /\ request'[q].kind \in {kind, "none"}
  BY AskEffect
<1>2. /\ UNCHANGED <<rows, driver, resumed, dataset, cases>> /\ cleared' # "now"
      /\ \A p \in Requests \ {q} : request'[p] = request[p]
  BY AskEffect
<1>3. ~Meets(q, {"purge"})
      /\ (kind = "purge" => ~Meets(q, AllKinds) /\ \A x \in Runs : Rests(x))
  BY <1>1 DEF Met
<1>4. \A p \in Requests \ {q} : request[p].kind # "purge"
  BY <1>3, KindOf DEF Meets
<1>5. "purge" \notin past
  BY <1>1
<1>6. ASSUME NEW x \in Runs, x \notin resumed' PROVE TracesOf(x)'
  <2>1. TracesOf(x)
    BY <1>2, <1>5, <1>6 DEF ClearInv
  <2>2. Sweeps(request'[q]) => request'[q].pc # "commit"
    BY AskEffect
  <2> QED
    BY <1>2, <2>1, <2>2 DEF TracesOf, NoTraces, CallsOf, Rests, rows
<1>7. ASSUME request'[q].kind = "purge" PROVE PurgeOf(q)'
  <2>1. kind = "purge" /\ request'[q].pc = "delete" /\ request'[q].taken.runs = Present
    <3>1. request'[q].pc = "delete" /\ request'[q].taken.runs = Present
      BY <1>7, AskEffect
    <3>2. kind = "purge"
      BY <1>1, <1>7
    <3> QED
      BY <3>1, <3>2
  <2>2. \A p \in Requests \ {q} : ~InFlight(p)
    BY <1>3, <2>1, RecordParts DEF Meets, RequestsRight, AnyRequest, StandsRight, InFlight,
      Storing, Telling, Removing, Adders, RequestPcs, AllKinds
  <2>3. Alone(q)'
    BY <1>2, <1>3, <2>1, <2>2 DEF Alone, InFlight, Rests
  <2>4. Present' = Present
    BY <1>2 DEF Present, rows
  <2> QED
    BY <2>1, <2>3, <2>4 DEF PurgeOf
<1> QED
  BY <1>2, <1>4, <1>6, <1>7 DEF ClearInv, PurgeOf

\* While a purge is in flight nobody else is: so it is the one that goes on.
LEMMA ServeUnmet ==
  ASSUME RecordsInv, ClearInv, NEW q \in Requests, Serve(q), "purge" \notin past
  PROVE  /\ cleared # "now"
         /\ \A p \in Requests \ {q} : request[p].kind # "purge" /\ request'[p].kind # "purge"
         /\ request'[q].kind = "purge" => request[q].kind = "purge"
BY ServeEffect, KindOf DEF ClearInv, PurgeOf, Alone, Emptied

LEMMA PurgeRemoves ==
  ASSUME RecordsInv, NEW q \in Requests, request[q].kind = "purge"
  PROVE  request[q].pc \in Removing
BY RecordParts DEF RequestsRight, AnyRequest, StandsRight, RequestPcs, Storing, Telling, Removing, Adders

\* A statement of a removal has taken what there is.
LEMMA ClearTake ==
  ASSUME RecordsInv, ClearInv, NEW q \in Requests, Serve(q), ~Commit(q)
  PROVE  ClearInv'
<1> SUFFICES ASSUME "purge" \notin past' PROVE ClearInv'
  BY DEF ClearInv
<1>1. "purge" \notin past /\ UNCHANGED <<rows, memory, cleared, driver, resumed>> /\ cleared # "now"
  BY ServeEffect, ServeUnmet
<1>0. request[q] \in AnyRequest /\ q \in DOMAIN request /\ RowTypes /\ WheelTypes
  BY RecordParts DEF RequestsRight
<1>2. \A p \in Requests \ {q} : request'[p] = request[p] /\ request'[p].kind # "purge"
  BY <1>1, ServeEffect, ServeUnmet
<1>3. ASSUME NEW x \in Runs, x \notin resumed', Sweeps(request'[q]), request'[q].pc = "commit",
             x \in request'[q].taken.runs
      PROVE  /\ x \in steps => x \in request'[q].taken.steps
             /\ CallsOf({x}) \subseteq request'[q].taken.calls
             /\ payload[x] # "none" => x \in request'[q].taken.payload
  <2>1. Sweeps(request[q]) /\ request[q].pc \in {"delete", "commit"}
    BY <1>3, ServeEffect, KindOf, RecordParts DEF Sweeps, RequestsRight, AnyRequest, StandsRight, RequestPcs,
      Storing, Telling, Removing, Adders, InFlight
  <2>2. DeleteOldRows(q)
    <3>1. ~Cut(q)
      BY <1>0, <1>3, KindOf DEF Cut, Ends, Becomes
    <3> QED
      BY <2>1, <3>1 DEF Serve, FindDataset, CreateDataset, AddCase, Adds, LookupEvent, Publish,
        UpdateCase, DeleteTenantRows, At, Sweeps
  <2> DEFINE ids == request[q].taken.runs
             t == [Nothing EXCEPT !.runs = ids, !.steps = steps \intersect ids, !.calls = CallsOf(ids),
                     !.payload = {y \in Runs : payload[y] = "old"} \union {y \in ids : payload[y] # "none"}]
  <2>3. /\ t.runs = ids /\ t.steps = steps \intersect ids /\ t.calls = CallsOf(ids)
        /\ t.payload = {y \in Runs : payload[y] = "old"} \union {y \in ids : payload[y] # "none"}
    BY DEF Nothing
  <2>4. request'[q] = [request[q] EXCEPT !.pc = "commit", !.taken = t]
    BY <1>0, <2>2 DEF DeleteOldRows, Takes, Becomes
  <2> HIDE DEF t
  <2>5. request'[q].taken = t
    BY <1>0, <2>4 DEF AnyRequest
  <2>6. x \in ids
    BY <1>3, <2>3, <2>5
  <2> QED
    BY <2>3, <2>5, <2>6 DEF CallsOf
<1>4. ASSUME NEW x \in Runs, x \notin resumed' PROVE TracesOf(x)'
  <2>1. TracesOf(x)
    BY <1>1, <1>4 DEF ClearInv
  <2> QED
    BY <1>1, <1>2, <1>3, <1>4, <2>1 DEF TracesOf, NoTraces, CallsOf, Rests, rows
<1>5. ASSUME request'[q].kind = "purge" PROVE PurgeOf(q)'
  <2>1. request[q].kind = "purge" /\ PurgeOf(q) /\ request[q].pc \in Removing
    BY <1>1, <1>5, ServeUnmet, PurgeRemoves DEF ClearInv
  <2>2. DeleteTenantRows(q)
    <3>1. ~Cut(q)
      BY <1>0, <1>5, KindOf DEF Cut, Ends, Becomes
    <3> QED
      BY <2>1, <3>1 DEF Serve, FindDataset, CreateDataset, AddCase, Adds, LookupEvent, Publish,
        UpdateCase, DeleteOldRows, Takes, At, Removing
  <2>3. request[q].taken.runs = Present /\ Alone(q)
    BY <2>1 DEF PurgeOf
  <2> DEFINE t == [runs |-> Present, steps |-> steps \intersect Present,
                   calls |-> {c \in calls : c.named},
                   payload |-> {x \in Present : payload[x] # "none"}, dataset |-> dataset,
                   cases |-> {c \in Requests : cases[c] # Absent},
                   memory |-> {memory[i].by : i \in DOMAIN memory}]
  <2>4. request' = [request EXCEPT ![q] = [request[q] EXCEPT !.pc = "commit", !.taken = t]]
    BY <2>2, <2>3 DEF DeleteTenantRows, Becomes
  <2>5. UNCHANGED <<rows, wheel>>
    BY <2>2 DEF DeleteTenantRows
  <2>6. TakesAll(t)
    BY DEF TakesAll, SavedCases
  <2>7. TakesAll(t)'
    BY <2>5, <2>6 DEF TakesAll, SavedCases, Present, rows, wheel
  <2>8. t' = t /\ t.runs = Present
    BY <2>5 DEF Present, rows, wheel
  <2>9. Alone(q)' /\ Present' = Present
    BY <1>1, <1>2, <2>3 DEF Alone, InFlight, Rests, Present, rows
  <2> HIDE DEF t
  <2>10. request'[q].taken = t
    BY <1>0, <2>4 DEF AnyRequest
  <2> QED
    BY <2>7, <2>8, <2>9, <2>10 DEF PurgeOf
<1> QED
  BY <1>1, <1>2, <1>4, <1>5 DEF ClearInv, PurgeOf

\* What a removal that commits leaves in the tables.
LEMMA CommitEffect ==
  ASSUME RecordsInv, NEW q \in Requests, Commit(q)
  PROVE  LET t == request[q].taken IN
         /\ t \in Taken /\ request'[q] = Ended /\ UNCHANGED <<event, driver, resumed, past, told>>
         /\ \/ UNCHANGED <<rows, memory, dataset, cases, cleared>>
            \/ /\ \A x \in Runs : run'[x] = IF x \in t.runs THEN Absent ELSE run[x]
               /\ \A x \in Runs : payload'[x] = IF x \in t.payload THEN "none" ELSE payload[x]
               /\ steps' = steps \ t.steps /\ calls' = calls \ t.calls
               /\ dataset' = dataset \ t.dataset
               /\ \A c \in Requests : cases'[c] = IF c \in t.cases THEN Absent ELSE cases[c]
               /\ memory' = Newer(t.memory)
               /\ cleared' = IF request[q].kind = "purge" THEN "now" ELSE cleared
<1>1. q \in DOMAIN request /\ request[q] \in AnyRequest
  BY RecordParts DEF RequestsRight
<1> QED
  BY <1>1 DEF Commit, Ends, Becomes, AnyRequest

LEMMA ClearCommit ==
  ASSUME RecordsInv, StampInv, ClearInv, NEW q \in Requests, Serve(q), Commit(q)
  PROVE  ClearInv'
<1> SUFFICES ASSUME "purge" \notin past' PROVE ClearInv'
  BY DEF ClearInv
<1> DEFINE t == request[q].taken
<1>0. t \in Taken /\ request'[q] = Ended /\ UNCHANGED <<driver, resumed, past>>
  BY CommitEffect
<1>1. "purge" \notin past /\ cleared # "now"
  BY <1>0, ServeUnmet
<1>2. /\ \A p \in Requests \ {q} : request'[p] = request[p]
      /\ \A p \in Requests : request'[p].kind # "purge"
  BY <1>0, <1>1, ServeEffect, ServeUnmet, KindOf
<1>3. ASSUME NEW p \in Requests, Sweeps(request'[p])
      PROVE  p # q /\ request'[p] = request[p]
  BY <1>0, <1>2, <1>3, KindOf
<1>4. CASE UNCHANGED <<rows, memory, dataset, cases, cleared>>
  <2>1. ASSUME NEW x \in Runs, x \notin resumed' PROVE TracesOf(x)'
    <3>1. TracesOf(x)
      BY <1>0, <1>1, <2>1 DEF ClearInv
    <3> QED
      BY <1>0, <1>3, <1>4, <3>1 DEF TracesOf, NoTraces, CallsOf, Rests, rows
  <2> QED
    BY <1>1, <1>2, <1>4, <2>1 DEF ClearInv, PurgeOf
<1>5. ASSUME /\ \A x \in Runs : run'[x] = IF x \in t.runs THEN Absent ELSE run[x]
             /\ \A x \in Runs : payload'[x] = IF x \in t.payload THEN "none" ELSE payload[x]
             /\ steps' = steps \ t.steps /\ calls' = calls \ t.calls
             /\ dataset' = dataset \ t.dataset
             /\ \A c \in Requests : cases'[c] = IF c \in t.cases THEN Absent ELSE cases[c]
             /\ memory' = Newer(t.memory)
             /\ cleared' = IF request[q].kind = "purge" THEN "now" ELSE cleared
      PROVE  ClearInv'
  <2>0. request[q].pc = "commit" /\ (Sweeps(request[q]) \/ request[q].kind = "purge")
    BY RecordParts DEF Commit, At, Sweeps, RequestsRight, StandsRight, Removing
  <2>1. ASSUME NEW x \in Runs \ resumed
        PROVE  /\ CallsOf({x})' = CallsOf({x}) \ t.calls
               /\ TracesOf(x) /\ StampOf(x)
    BY <1>1, <1>5, <2>1 DEF CallsOf, ClearInv, StampInv
  \* What is removed now rests, and its traces were taken.
  <2>2. ASSUME NEW x \in Runs \ resumed, run[x] # Absent, x \in t.runs
        PROVE  Rests(x) /\ NoTraces(x)'
    <3>1. CASE Sweeps(request[q])
      <4>1. Rests(x)
        BY <2>1, <2>2, <3>1 DEF StampOf, Rests
      <4>2. /\ x \in steps => x \in t.steps
            /\ CallsOf({x}) \subseteq t.calls
            /\ payload[x] # "none" => x \in t.payload
        BY <2>0, <2>1, <2>2, <3>1 DEF TracesOf
      <4> QED
        BY <1>5, <2>1, <4>1, <4>2 DEF NoTraces
    <3>2. CASE request[q].kind = "purge"
      <4>1. Alone(q) /\ TakesAll(t)
        BY <1>1, <2>0, <3>2 DEF ClearInv, PurgeOf
      <4>2. \A c \in CallsOf({x}) : c \in t.calls
        BY <2>1, <4>1 DEF TracesOf, TakesAll, CallsOf
      <4>3. /\ x \in steps => x \in t.steps
            /\ payload[x] # "none" => x \in t.payload
        BY <2>2, <4>1 DEF TakesAll, Present
      <4> QED
        BY <1>5, <2>1, <4>1, <4>2, <4>3 DEF NoTraces, Alone
    <3> QED
      BY <2>0, <3>1, <3>2
  <2>3. ASSUME NEW x \in Runs, x \notin resumed' PROVE TracesOf(x)'
    <3>1. x \in Runs \ resumed /\ TracesOf(x) /\ CallsOf({x})' = CallsOf({x}) \ t.calls
      BY <1>0, <2>1, <2>3
    <3>2. NoTraces(x) => NoTraces(x)'
      BY <1>5, <3>1 DEF NoTraces
    <3>3. (Rests(x) => Rests(x)') /\ (run'[x] = Absent => run[x] = Absent \/ x \in t.runs)
      BY <1>0, <1>5 DEF Rests
    <3>4. run'[x] = Absent => Rests(x)' /\ NoTraces(x)'
      BY <2>2, <3>1, <3>2, <3>3 DEF TracesOf
    <3>5. ASSUME NEW p \in Requests, Sweeps(request'[p]), request'[p].pc = "commit",
                 x \in request'[p].taken.runs
          PROVE  /\ x \in steps' => x \in request'[p].taken.steps
                 /\ CallsOf({x})' \subseteq request'[p].taken.calls
                 /\ payload'[x] # "none" => x \in request'[p].taken.payload
      BY <1>3, <1>5, <3>1, <3>5 DEF TracesOf
    <3> QED
      BY <3>1, <3>4, <3>5 DEF TracesOf
  <2>4. ASSUME cleared' = "now" PROVE Emptied'
    <3>1. request[q].kind = "purge"
      BY <1>1, <1>5, <2>4
    <3>2. Alone(q) /\ TakesAll(t)
      BY <1>1, <2>0, <3>1 DEF ClearInv, PurgeOf
    <3>3. memory' = <<>>
      BY <1>5, <3>2, NewerType, RecordParts DEF TakesAll
    <3>4. dataset' = {} /\ SavedCases' = {}
      BY <1>5, <3>2 DEF TakesAll, SavedCases
    <3>5. (\A p \in Requests : ~InFlight(p)') /\ \A x \in Runs : Rests(x)'
      BY <1>0, <1>2, <3>2, KindOf DEF Alone, InFlight, Rests
    <3> QED
      BY <3>3, <3>4, <3>5 DEF Emptied
  <2> QED
    BY <1>2, <2>3, <2>4 DEF ClearInv, PurgeOf
<1> QED
  BY <1>4, <1>5, CommitEffect

LEMMA ClearAge ==
  ASSUME RecordsInv, ClearInv, Age
  PROVE  ClearInv'
<1>1. /\ UNCHANGED <<driver, steps, calls, request, resumed, cleared, past, wheel>>
      /\ \A q \in Requests : ~InFlight(q)
  BY DEF Age, Drives, NoRequest
<1>2. \A x \in Runs : (run'[x] = Absent <=> run[x] = Absent) /\ (payload'[x] = "none" <=> payload[x] = "none")
  BY RecordParts, RecordsAssumption DEF Age, RowTypes, RunRow
<1>3. \A q \in Requests : request[q].kind = "none"
  BY <1>1, KindOf
<1> QED
  BY <1>1, <1>2, <1>3 DEF ClearInv, TracesOf, NoTraces, CallsOf, PurgeOf, Emptied, Rests, Sweeps,
    SavedCases, InFlight, wheel

LEMMA ClearStep == RecordsInv /\ StampInv /\ ClearInv /\ [RecordsNext]_recordsVars => ClearInv'
<1> SUFFICES ASSUME RecordsInv, StampInv, ClearInv, [RecordsNext]_recordsVars PROVE ClearInv'
  OBVIOUS
<1>1. CASE UNCHANGED recordsVars
  <2>1. \A x \in Runs : TracesOf(x)' <=> TracesOf(x)
    BY <1>1 DEF recordsVars, rows, TracesOf, NoTraces, CallsOf, Rests
  <2>2. \A q \in Requests : PurgeOf(q)' <=> PurgeOf(q)
    BY <1>1 DEF recordsVars, rows, wheel, PurgeOf, Alone, TakesAll, Present, SavedCases, InFlight, Rests
  <2>3. Emptied' <=> Emptied
    BY <1>1 DEF recordsVars, wheel, Emptied, SavedCases, InFlight, Rests
  <2> QED
    BY <1>1, <2>1, <2>2, <2>3 DEF recordsVars, ClearInv
<1> QED
  BY <1>1, ClearDrive, ClearAsk, ClearTake, ClearCommit, ClearAge DEF RecordsNext

LEMMA ClearInit == RecordsInit => ClearInv
BY EndedType DEF RecordsInit, ClearInv, TracesOf, NoTraces, CallsOf, Rests, PurgeOf, Sweeps

\* A run that is removed leaves no step, call or payload (service.py:4, 96),
\* and a purge leaves no memory, case or dataset of its tenant (service.py:3),
\* unless the purge met something under way, or the run had been resumed.
THEOREM RemovedAlwaysLeavesNothing == RecordsSpec => []RemovedLeavesNothing
<1>1. ClearInv => RemovedLeavesNothing
  BY DEF ClearInv, RemovedLeavesNothing, TracesOf, NoTraces, Emptied, SavedCases
<1> QED
  BY <1>1, RecordsInitType, RecordsTypeStep, StampInit, StampStep, ClearInit, ClearStep, PTL
    DEF RecordsSpec

-----------------------------------------------------------------------------
(* Feedback and saved cases *)

\* A request comes once, and a saved case that is to be stored is in no
\* dataset, or in another than was found.
Unsaved == dataset = {} \/ \E d \in dataset : \A c \in SavedCases : cases[c].dataset # d
LEMMA AskBegins ==
  ASSUME RecordsInv, NEW q \in Requests, AskRecords(q)
  PROVE  /\ request[q].pc = "idle" /\ request'[q].pc \in {"over", "ensure", "update", "delete"}
         /\ request'[q].pc = "ensure" /\ request'[q].kind = "seed" => Unsaved
<1>0. q \in DOMAIN request
  BY RecordParts DEF RequestsRight
<1>1. ASSUME NEW kind, NEW now, Begins(q, kind, now)
      PROVE  request[q].pc = "idle" /\ request'[q] = now
  BY <1>0, <1>1 DEF Begins, Asks, Becomes, At
<1>2. ASSUME NEW x \in Runs, Feedback(q, x)
      PROVE  \E now : Begins(q, "feedback", now) /\ now.pc \in {"over", "ensure"} /\ now.kind # "seed"
  <2> DEFINE now == IF run[x] = Absent THEN Ended
                    ELSE [Idle EXCEPT !.kind = "feedback", !.pc = "ensure", !.run = x]
  <2>1. now.pc \in {"over", "ensure"} /\ now.kind # "seed"
    BY EndedType DEF Idle
  <2> QED
    BY <1>2, <2>1 DEF Feedback
<1>3. ASSUME NEW spec \in Specs, Seed(q, spec)
      PROVE  \E now : Begins(q, "seed", now) /\ (\/ now.pc \in {"over", "update"}
                                                 \/ now.pc = "ensure" /\ Unsaved)
  <2>1. /\ [Saved(spec) EXCEPT !.pc = "ensure"].pc = "ensure"
        /\ \A c : [Saved(spec) EXCEPT !.pc = "update", !.of = c].pc = "update"
    BY DEF Saved, Idle
  <2> QED
    BY <1>3, <2>1, EndedType DEF Seed, Seeds, Unsaved
<1>4. ASSUME NEW kind, NEW ids, Lists(q, kind, ids)
      PROVE  \E now : Begins(q, kind, now) /\ now.pc = "delete"
  <2>1. [Idle EXCEPT !.kind = kind, !.pc = "delete", !.taken.runs = ids].pc = "delete"
    BY DEF Idle
  <2> QED
    BY <1>4, <2>1 DEF Lists
<1>5. ASSUME NEW kind, Asks(q, kind), Ends(q)
      PROVE  request[q].pc = "idle" /\ request'[q].pc = "over"
  BY <1>0, <1>5, EndedType DEF Asks, At, Ends, Becomes
<1> QED
  BY <1>1, <1>2, <1>3, <1>4, <1>5 DEF AskRecords, Sweep, Purge, Write, Forget

\* Who is about to tell, or has told, has a case of the run, and so has the
\* event, as long as nothing was purged; both are over with their request.
CaseOf(q, x) ==
  /\ cases[q] # Absent => cases[q].run = x
  /\ cleared = "never" => cases[q] # Absent
TellsOf(q) == request[q].pc \in Telling => CaseOf(q, request[q].run)
ToldOf(q) ==
  q \in told =>
    /\ request[q].pc = "over"
    /\ cases[q] # Absent => cases[q].run \in Runs /\ event[cases[q].run] # Absent
    /\ cleared = "never" => cases[q] # Absent
EventOf(x) == event[x] # Absent => request[event[x]].pc = "over" /\ CaseOf(event[x], x)
FeedInv ==
  /\ \A q \in Requests : TellsOf(q) /\ ToldOf(q)
  /\ \A x \in Runs : EventOf(x)

\* Without a new case, event or answer it is enough that who tells has told of
\* the same run before.
LEMMA FeedKept ==
  ASSUME RecordsInv, FeedInv, UNCHANGED <<event, told>>, cleared' = "never" => cleared = "never",
         \A c \in Requests :
           /\ cases'[c] # Absent => cases[c] # Absent /\ cases'[c].run = cases[c].run
           /\ cleared' = "never" /\ cases[c] # Absent => cases'[c] # Absent,
         \A q \in Requests :
           /\ request[q].pc = "over" => request'[q].pc = "over"
           /\ request'[q].pc \in Telling => request[q].pc \in Telling /\ request'[q].run = request[q].run
  PROVE  FeedInv'
<1>1. \A x \in Runs : event[x] # Absent => event[x] \in Requests
  BY RecordParts DEF WheelTypes
<1> QED
  BY <1>1 DEF FeedInv, TellsOf, ToldOf, EventOf, CaseOf

LEMMA FeedDrive ==
  ASSUME RecordsInv, FeedInv, NEW x \in Runs, Drive(x)
  PROVE  FeedInv'
<1>1. UNCHANGED <<cases, event, request, told>>
  BY DriveEffect
<1>2. cleared' = "never" => cleared = "never"
  BY DriveEffect DEF BeginRun, Resume, Starts
<1> QED
  BY <1>1, <1>2, FeedKept

LEMMA FeedAsk ==
  ASSUME RecordsInv, FeedInv, NEW q \in Requests, AskRecords(q)
  PROVE  FeedInv'
<1>1. /\ UNCHANGED <<cases, event, told>> /\ \A p \in Requests \ {q} : request'[p] = request[p]
      /\ cleared' = "never" => cleared = "never"
  BY AskEffect
<1>2. request[q].pc = "idle" /\ request'[q].pc \notin Telling
  BY AskBegins DEF Telling
<1> QED
  BY <1>1, <1>2, FeedKept

LEMMA FeedServe ==
  ASSUME RecordsInv, FeedInv, NEW q \in Requests, Serve(q)
  PROVE  FeedInv'
<1>0. /\ q \in DOMAIN request /\ request[q] \in AnyRequest /\ StandsRight(request[q])
      /\ WheelTypes /\ q \in DOMAIN cases /\ Absent \notin CaseRow
  BY RecordParts, RecordsAssumption DEF RequestsRight, WheelTypes
<1>1. InFlight(q) /\ \A p \in Requests \ {q} : request'[p] = request[p]
  BY ServeEffect
<1>2. q \notin told /\ \A x \in Runs : event[x] # q
  <2>1. Absent # q
    BY RecordsAssumption
  <2> QED
    BY <1>1, <2>1 DEF FeedInv, ToldOf, EventOf, InFlight
<1>3. ASSUME NEW now, request' = [request EXCEPT ![q] = now],
             now.pc \in Telling => request[q].pc \in Telling /\ now.run = request[q].run,
             UNCHANGED <<event, told>>, cleared' = "never" => cleared = "never",
             \A c \in Requests :
               /\ cases'[c] # Absent => cases[c] # Absent /\ cases'[c].run = cases[c].run
               /\ cleared' = "never" /\ cases[c] # Absent => cases'[c] # Absent
      PROVE  FeedInv'
  BY <1>0, <1>1, <1>3, FeedKept DEF InFlight
<1>4. CASE FindDataset(q) \/ CreateDataset(q)
  <2>1. \E now : request' = [request EXCEPT ![q] = now] /\ now.pc \notin Telling
    <3>1. \A d : [request[q] EXCEPT !.pc = "case", !.of = d].pc \notin Telling
      BY <1>0 DEF AnyRequest, Telling
    <3>2. [request[q] EXCEPT !.pc = "create"].pc \notin Telling
      BY <1>0 DEF AnyRequest, Telling
    <3> QED
      BY <1>4, <3>1, <3>2 DEF FindDataset, CreateDataset, Goes, Becomes
  <2>2. UNCHANGED <<cases, event, told, cleared>>
    BY <1>4 DEF FindDataset, CreateDataset, Goes, Becomes, Serves, wheel
  <2> QED
    BY <1>3, <2>1, <2>2
<1>5. CASE AddCase(q)
  <2> DEFINE row == [dataset |-> request[q].of, run |-> request[q].run, spec |-> request[q].what]
  <2>1. row \in CaseRow /\ row # Absent /\ row.run = request[q].run
    BY <1>0, <1>5 DEF AddCase, Adds, At, CaseRow, AnyRequest, StandsRight
  <2>2. /\ cases'[q] = row /\ \A c \in Requests \ {q} : cases'[c] = cases[c]
        /\ UNCHANGED <<event, told, cleared>>
    BY <1>0, <1>5 DEF AddCase, Adds, Goes, Ends, Becomes, Serves
  <2>3. request'[q].pc \in Telling => request'[q].run = request[q].run
    BY ServeEffect, EndedType DEF Telling
  <2> HIDE DEF row
  <2>4. \A p \in Requests : TellsOf(p)'
    BY <1>1, <2>1, <2>2, <2>3 DEF FeedInv, TellsOf, CaseOf
  <2>5. \A p \in Requests : ToldOf(p)'
    BY <1>1, <1>2, <2>2 DEF FeedInv, ToldOf
  <2>6. \A x \in Runs : EventOf(x)'
    <3>1. \A x \in Runs : event[x] # Absent => event[x] \in Requests \ {q}
      BY <1>0, <1>2 DEF WheelTypes
    <3> QED
      BY <1>1, <2>2, <3>1 DEF FeedInv, EventOf, CaseOf
  <2> QED
    BY <2>4, <2>5, <2>6 DEF FeedInv
<1>6. ASSUME NEW x \in Runs, x = request[q].run, event'[x] # Absent, event'[x] \in {event[x], q},
             request[q].pc \in Telling,
             \A y \in Runs \ {x} : event'[y] = event[y],
             UNCHANGED <<cases, cleared>>, told' = told \union {q}, request'[q].pc = "over"
      PROVE  FeedInv'
  <2>1. CaseOf(q, x)
    BY <1>6 DEF FeedInv, TellsOf
  <2>2. \A y \in Runs : event[y] # Absent => event[y] \in Requests \ {q} /\ event'[y] \in {event[y], q}
    BY <1>0, <1>2, <1>6 DEF WheelTypes
  <2>3. \A p \in Requests : TellsOf(p)'
    BY <1>1, <1>6 DEF FeedInv, TellsOf, CaseOf, Telling
  <2>4. \A y \in Runs : event[y] # Absent => event'[y] # Absent
    BY <1>6
  <2>6. \A p \in Requests : ToldOf(p)'
    BY <1>1, <1>6, <2>1, <2>4 DEF FeedInv, ToldOf, CaseOf
  <2>7. ASSUME NEW y \in Runs PROVE EventOf(y)'
    BY <1>1, <1>6, <2>1, <2>2 DEF FeedInv, EventOf, CaseOf
  <2> QED
    BY <2>3, <2>6, <2>7 DEF FeedInv
<1>7. ASSUME request[q].pc \in Telling PROVE request[q].run \in Runs
  BY <1>0, <1>7 DEF StandsRight
<1>8. CASE LookupEvent(q)
  <2>1. CASE event[request[q].run] # Absent
    BY <1>0, <1>6, <1>7, <1>8, <2>1, EndedType DEF LookupEvent, At, Told, Serves, Telling, wheel
  <2>2. CASE event[request[q].run] = Absent
    <3> DEFINE now == [request[q] EXCEPT !.pc = "publish"]
    <3>1. request' = [request EXCEPT ![q] = now] /\ UNCHANGED <<cases, event, told, cleared>>
      BY <1>8, <2>2 DEF LookupEvent, Goes, Becomes, Serves, wheel
    <3>2. request[q].pc \in Telling /\ now.run = request[q].run
      BY <1>0, <1>8 DEF LookupEvent, At, Telling, AnyRequest
    <3> QED
      BY <1>3, <3>1, <3>2
  <2> QED
    BY <2>1, <2>2
<1>9. CASE Publish(q)
  <2> DEFINE x == request[q].run
  <2>0. x \in Runs /\ request[q].pc \in Telling
    BY <1>7, <1>9 DEF Publish, At, Telling
  <2>1. CASE event[x] # Absent
    BY <1>3, <1>9, <2>1, EndedType DEF Publish, Ends, Becomes, Serves, Telling
  <2>2. CASE event[x] = Absent
    <3>1. /\ event' = [event EXCEPT ![x] = q] /\ UNCHANGED <<cases, cleared>>
          /\ told' = told \union {q} /\ request' = [request EXCEPT ![q] = Ended]
      BY <1>9, <2>2 DEF Publish, Told, Serves
    <3>2. event'[x] = q /\ \A y \in Runs \ {x} : event'[y] = event[y]
      BY <1>0, <2>0, <3>1 DEF WheelTypes
    <3>3. q # Absent /\ request'[q].pc = "over"
      BY <1>0, <3>1, EndedType, RecordsAssumption
    <3> QED
      BY <1>6, <2>0, <3>1, <3>2, <3>3
  <2> QED
    BY <2>1, <2>2
<1>10. CASE UpdateCase(q)
  <2>1. ASSUME NEW c \in Requests
        PROVE  /\ cases'[c] # Absent => cases[c] # Absent /\ cases'[c].run = cases[c].run
               /\ cases[c] # Absent => cases'[c] # Absent
    <3>1. ASSUME cases[c] # Absent
          PROVE  LET row == [cases[c] EXCEPT !.spec = request[q].what] IN
                 row # Absent /\ row.run = cases[c].run
      <4>1. cases[c] \in CaseRow
        BY <1>0, <3>1 DEF WheelTypes
      <4>2. [cases[c] EXCEPT !.spec = request[q].what] \in CaseRow
        BY <1>0, <4>1 DEF CaseRow, AnyRequest
      <4> QED
        BY <1>0, <4>1, <4>2 DEF CaseRow
    <3>2. request[q].of \in Requests
      BY <1>0, <1>10 DEF UpdateCase, At, StandsRight
    <3> QED
      BY <1>0, <1>10, <3>1, <3>2 DEF UpdateCase, WheelTypes
  <2> QED
    BY <1>3, <1>10, <2>1, EndedType DEF UpdateCase, Ends, Becomes, Serves, Telling
<1>11. CASE DeleteOldRows(q) \/ DeleteTenantRows(q)
  <2>1. \E now : request' = [request EXCEPT ![q] = now] /\ now.pc \notin Telling
    <3>1. \A t : [request[q] EXCEPT !.pc = "commit", !.taken = t].pc = "commit"
      BY <1>0 DEF AnyRequest
    <3> QED
      BY <1>11, <3>1 DEF DeleteOldRows, Takes, DeleteTenantRows, Becomes, Telling
  <2>2. UNCHANGED <<cases, event, told, cleared>>
    BY <1>11 DEF DeleteOldRows, Takes, DeleteTenantRows, Becomes, Serves, wheel
  <2> QED
    BY <1>3, <2>1, <2>2
<1>12. CASE Commit(q)
  <2>1. request' = [request EXCEPT ![q] = Ended] /\ UNCHANGED <<event, told>>
    BY <1>12 DEF Commit, Ends, Becomes
  <2>2. Sweeps(request[q]) \/ request[q].kind = "purge"
    BY <1>0, <1>12 DEF Commit, At, Sweeps, StandsRight, Removing
  <2>3. Sweeps(request[q]) => request[q].taken.cases = {}
    BY <1>0 DEF Sweeps, StandsRight
  <2>4. /\ cleared' = "never" => cleared = "never"
        /\ \A c \in Requests :
             /\ cases'[c] # Absent => cases'[c] = cases[c]
             /\ cleared' = "never" => cases'[c] = cases[c]
    BY <1>12, <2>2, <2>3, CommitEffect
  <2> QED
    BY <1>3, <2>1, <2>4, EndedType DEF Telling
<1>13. CASE Cut(q)
  BY <1>3, <1>13, EndedType DEF Cut, Ends, Becomes, Serves, Telling, wheel
<1> QED
  BY <1>4, <1>5, <1>8, <1>9, <1>10, <1>11, <1>12, <1>13 DEF Serve

LEMMA FeedStep == RecordsInv /\ FeedInv /\ [RecordsNext]_recordsVars => FeedInv'
<1> SUFFICES ASSUME RecordsInv, FeedInv, [RecordsNext]_recordsVars PROVE FeedInv'
  OBVIOUS
<1>1. CASE Age \/ UNCHANGED recordsVars
  <2>1. UNCHANGED <<cases, event, told, cleared, request>>
    BY <1>1 DEF Age, Drives, NoRequest, recordsVars, wheel
  <2> QED
    BY <2>1, FeedKept
<1> QED
  BY <1>1, FeedDrive, FeedAsk, FeedServe DEF RecordsNext

LEMMA FeedInit == RecordsInit => FeedInv
BY EndedType DEF RecordsInit, FeedInv, TellsOf, ToldOf, EventOf, Telling

\* A user who is told that a bad feedback was recorded has an event of that
\* run in the outbox; and an event names a case that was stored, whichever
\* feedback was first, fails or is sent again, until a purge takes the cases.
THEOREM FeedbackAlwaysRecorded == RecordsSpec => []FeedbackIsRecorded
<1>1. RecordsInv /\ FeedInv => FeedbackIsRecorded
  <2> SUFFICES ASSUME RecordsInv, FeedInv PROVE FeedbackIsRecorded
    OBVIOUS
  <2>1. told \subseteq Requests
    BY RecordParts DEF RestTypes
  <2> QED
    BY <2>1 DEF FeedInv, ToldOf, EventOf, CaseOf, FeedbackIsRecorded
<1> QED
  BY <1>1, RecordsInitType, RecordsTypeStep, FeedInit, FeedStep, PTL DEF RecordsSpec

\* One request adds at a time, and so there is one dataset that holds the cases:
\* a seed that is to store its case has found none.
AddsNow(q) == InFlight(q) /\ request[q].kind \in Adders
SeedOf(q) ==
  /\ request[q].kind = "seed" /\ request[q].pc \in Storing => SavedCases = {}
  /\ request[q].pc = "create" => dataset = {}
  /\ request[q].pc = "case" => request[q].of \in dataset
Seeded == {c \in SavedCases : cases[c].run = Absent}
OneAdds ==
  /\ \A p, q \in Requests : AddsNow(p) /\ AddsNow(q) => p = q
  /\ \A d, e \in dataset : d = e
  /\ \A c \in SavedCases : cases[c].dataset \in dataset
  /\ \A q \in Requests : SeedOf(q)
  /\ \A c, d \in Seeded : c = d
SeedInv == past \intersect {"adders", "purge"} = {} => OneAdds

LEMMA AddersOnly ==
  ASSUME RecordsInv, NEW q \in Requests
  PROVE  request[q].pc \in Storing => AddsNow(q)
BY RecordParts DEF RequestsRight, StandsRight, AddsNow, InFlight, Storing

\* As long as the tables of the cases stand, it is enough that nobody joins.
LEMMA SeedKept ==
  ASSUME RecordsInv, SeedInv, past \subseteq past', UNCHANGED <<dataset, cases>>,
         \A q \in Requests : request'[q].pc \in Storing \/ AddsNow(q)' =>
           /\ AddsNow(q) /\ request'[q].kind = request[q].kind
           /\ request'[q].pc = "create" => dataset = {}
           /\ request'[q].pc = "case" => request'[q].of \in dataset
           /\ request'[q].pc \in Storing => request[q].pc \in Storing
  PROVE  SeedInv'
<1> SUFFICES ASSUME past' \intersect {"adders", "purge"} = {} PROVE SeedInv'
  BY DEF SeedInv, OneAdds
<1>1. past \intersect {"adders", "purge"} = {} /\ UNCHANGED <<SavedCases, Seeded>>
  BY DEF SavedCases, Seeded
<1>2. \A q \in Requests : SeedOf(q)'
  BY <1>1 DEF SeedInv, OneAdds, SeedOf, Storing
<1>3. \A p, q \in Requests : AddsNow(p)' /\ AddsNow(q)' => p = q
  BY <1>1 DEF SeedInv, OneAdds
<1> QED
  BY <1>1, <1>2, <1>3 DEF SeedInv, OneAdds

LEMMA SeedAsk ==
  ASSUME RecordsInv, SeedInv, NEW q \in Requests, AskRecords(q)
  PROVE  SeedInv'
<1> SUFFICES ASSUME past' \intersect {"adders", "purge"} = {} PROVE SeedInv'
  BY DEF SeedInv, OneAdds
<1>1. PICK kind \in AllKinds : past \subseteq past' /\ Met(q, kind) \subseteq past'
                               /\ request'[q].kind \in {kind, "none"}
  BY AskEffect
<1>2. UNCHANGED <<dataset, cases>> /\ \A p \in Requests \ {q} : request'[p] = request[p]
  BY AskEffect
<1>3. kind \in Adders => \A p \in Requests \ {q} : ~AddsNow(p)
  BY <1>1 DEF Met, Meets, AddsNow
<1>4. \A p, r \in Requests : AddsNow(p)' /\ AddsNow(r)' => p = r
  <2>1. past \intersect {"adders", "purge"} = {}
    BY <1>1
  <2>2. \A p \in Requests \ {q} : AddsNow(p)' <=> AddsNow(p)
    BY <1>2 DEF AddsNow, InFlight
  <2>3. AddsNow(q)' => kind \in Adders
    BY <1>1 DEF AddsNow, Adders
  <2> QED
    BY <1>3, <2>1, <2>2, <2>3 DEF SeedInv, OneAdds
<1>5. OneAdds /\ UNCHANGED <<SavedCases, Seeded>>
  BY <1>1, <1>2 DEF SeedInv, OneAdds, SavedCases, Seeded
<1>6. SeedOf(q)'
  <2>1. request'[q].pc \notin {"create", "case"} /\ (request'[q].pc \in Storing => request'[q].pc = "ensure")
    BY AskBegins DEF Storing
  <2>2. Unsaved => SavedCases = {}
    BY <1>5 DEF Unsaved, OneAdds
  <2> QED
    BY <1>5, <2>1, <2>2, AskBegins DEF SeedOf
<1> QED
  BY <1>2, <1>4, <1>5, <1>6 DEF SeedInv, OneAdds, SeedOf

LEMMA SeedServe ==
  ASSUME RecordsInv, ClearInv, SeedInv, NEW q \in Requests, Serve(q)
  PROVE  SeedInv'
<1> SUFFICES ASSUME past' \intersect {"adders", "purge"} = {} PROVE SeedInv'
  BY DEF SeedInv, OneAdds
<1>0. /\ q \in DOMAIN request /\ request[q] \in AnyRequest /\ StandsRight(request[q])
      /\ WheelTypes /\ q \in DOMAIN cases /\ Absent \notin CaseRow /\ Absent \notin Runs
  BY RecordParts, RecordsAssumption DEF RequestsRight, WheelTypes
<1>1. /\ past' = past /\ InFlight(q) /\ \A p \in Requests \ {q} : request'[p] = request[p]
      /\ AddsNow(q)' => AddsNow(q) /\ request'[q].kind = request[q].kind
  BY ServeEffect, KindOf DEF AddsNow, InFlight
<1>2. past \intersect {"adders", "purge"} = {} /\ OneAdds
  BY <1>1 DEF SeedInv, OneAdds
<1>3. /\ \A p \in Requests \ {q} : AddsNow(p)' <=> AddsNow(p)
      /\ \A p, r \in Requests : AddsNow(p)' /\ AddsNow(r)' => p = r
  BY <1>1, <1>2 DEF AddsNow, InFlight, OneAdds
\* Where the tables stand.
<1>4. ASSUME UNCHANGED <<dataset, cases>>,
             request'[q].pc \in Storing =>
               /\ request[q].pc \in Storing
               /\ request'[q].pc = "create" => dataset = {}
               /\ request'[q].pc = "case" => request'[q].of \in dataset
      PROVE  SeedInv'
  <2>1. ASSUME NEW p \in Requests, request'[p].pc \in Storing \/ AddsNow(p)'
        PROVE  /\ AddsNow(p) /\ request'[p].kind = request[p].kind
               /\ request'[p].pc = "create" => dataset = {}
               /\ request'[p].pc = "case" => request'[p].of \in dataset
               /\ request'[p].pc \in Storing => request[p].pc \in Storing
    <3>1. CASE p = q
      BY <1>1, <1>4, <2>1, <3>1, AddersOnly, ServeEffect, EndedType DEF Storing
    <3>2. CASE p # q
      <4>1. request'[p] = request[p] /\ SeedOf(p)
        BY <1>1, <1>2, <3>2 DEF OneAdds
      <4> QED
        BY <1>3, <2>1, <3>2, <4>1, AddersOnly DEF SeedOf
    <3> QED
      BY <3>1, <3>2
  <2> QED
    BY <1>1, <1>4, <2>1, SeedKept
\* The request that adds is the only one.
<1>5. ASSUME AddsNow(q) PROVE \A p \in Requests \ {q} : request'[p].pc \notin Storing
  BY <1>1, <1>2, <1>5, AddersOnly DEF OneAdds
<1>6. CASE FindDataset(q)
  <2>1. CASE dataset = {} /\ Goes(q, "create")
    <3>1. request'[q].pc = "create" /\ request[q].pc \in Storing /\ UNCHANGED <<dataset, cases>>
      BY <1>0, <1>6, <2>1 DEF FindDataset, At, Goes, Becomes, AnyRequest, Storing, wheel
    <3> QED
      BY <1>4, <2>1, <3>1
  <2>2. ASSUME NEW d \in dataset, Becomes(q, [request[q] EXCEPT !.pc = "case", !.of = d])
        PROVE  SeedInv'
    <3>1. request'[q].pc = "case" /\ request'[q].of = d /\ request[q].pc \in Storing
          /\ UNCHANGED <<dataset, cases>>
      BY <1>0, <1>6, <2>2 DEF FindDataset, At, Becomes, AnyRequest, Storing, wheel
    <3> QED
      BY <1>4, <3>1
  <2> QED
    BY <1>6, <2>1, <2>2 DEF FindDataset
<1>7. CASE CreateDataset(q)
  <2>1. dataset = {} /\ AddsNow(q)
    BY <1>2, <1>7, AddersOnly DEF CreateDataset, At, SeedOf, Storing, OneAdds
  <2>2. dataset' = {q} /\ cases' = cases /\ SavedCases = {}
    BY <1>2, <1>7, <2>1 DEF CreateDataset, OneAdds
  <2>3. SavedCases' = {} /\ Seeded' = {}
    BY <2>2 DEF SavedCases, Seeded
  <2>4. request'[q].pc = "case" /\ request'[q].of = q
    BY <1>0, <1>7 DEF CreateDataset, Becomes, AnyRequest
  <2>5. \A p \in Requests : SeedOf(p)'
    BY <1>5, <2>1, <2>2, <2>3, <2>4 DEF SeedOf, Storing
  <2> QED
    BY <1>3, <2>2, <2>3, <2>5 DEF SeedInv, OneAdds
<1>8. CASE AddCase(q)
  <2> DEFINE row == [dataset |-> request[q].of, run |-> request[q].run, spec |-> request[q].what]
  <2>1. AddsNow(q) /\ request[q].of \in dataset /\ request[q].pc = "case"
    BY <1>2, <1>8, AddersOnly DEF AddCase, Adds, At, SeedOf, Storing, OneAdds
  <2>2. row \in CaseRow /\ row.dataset = request[q].of /\ row.run = request[q].run
    BY <1>0, <2>1 DEF CaseRow, AnyRequest, StandsRight
  <2>3. /\ cases'[q] = row /\ \A c \in Requests \ {q} : cases'[c] = cases[c]
        /\ UNCHANGED dataset
    BY <1>0, <1>8 DEF AddCase, Adds
  <2>4. request'[q].pc \notin Storing
    BY <1>0, <1>8, EndedType DEF AddCase, Adds, Goes, Ends, Becomes, AnyRequest, Storing
  <2> HIDE DEF row
  <2>5. SavedCases' = SavedCases \union {q}
    BY <1>0, <2>2, <2>3 DEF SavedCases
  <2>6. \A c \in SavedCases' : cases'[c].dataset \in dataset'
    BY <1>2, <2>1, <2>2, <2>3, <2>5 DEF SavedCases, OneAdds
  <2>7. \A p \in Requests : SeedOf(p)'
    BY <1>5, <2>1, <2>4 DEF SeedOf, Storing
  <2>8. \A c, d \in Seeded' : c = d
    <3>1. CASE request[q].kind = "seed"
      <4>1. SavedCases = {}
        BY <1>2, <2>1, <3>1 DEF SeedOf, Storing, OneAdds
      <4> QED
        BY <2>5, <4>1 DEF Seeded
    <3>2. CASE request[q].kind = "feedback"
      <4>1. request[q].run # Absent
        BY <1>0, <3>2 DEF StandsRight
      <4>2. Seeded' \subseteq Seeded
        BY <2>2, <2>3, <2>5, <4>1 DEF Seeded, SavedCases
      <4> QED
        BY <1>2, <4>2 DEF OneAdds
    <3> QED
      BY <2>1, <3>1, <3>2 DEF AddsNow, Adders
  <2> QED
    BY <1>2, <1>3, <2>3, <2>6, <2>7, <2>8 DEF SeedInv, OneAdds
<1>9. ASSUME request'[q].pc \notin Storing, UNCHANGED dataset,
             \A c \in Requests :
               /\ cases'[c] # Absent <=> cases[c] # Absent
               /\ cases[c] # Absent => cases'[c].run = cases[c].run /\ cases'[c].dataset = cases[c].dataset
      PROVE  SeedInv'
  <2>1. SavedCases' = SavedCases /\ Seeded' = Seeded
    BY <1>9 DEF SavedCases, Seeded
  <2>2. \A c \in SavedCases' : cases'[c].dataset \in dataset'
    BY <1>2, <1>9, <2>1 DEF SavedCases, OneAdds
  <2>3. \A p \in Requests : SeedOf(p)'
    BY <1>1, <1>2, <1>9, <2>1 DEF SeedOf, Storing, OneAdds
  <2> QED
    BY <1>2, <1>3, <1>9, <2>1, <2>2, <2>3 DEF SeedInv, OneAdds
<1>10. CASE LookupEvent(q) \/ Publish(q) \/ DeleteOldRows(q) \/ DeleteTenantRows(q) \/ Cut(q)
  <2>1. UNCHANGED <<dataset, cases>>
    BY <1>10 DEF LookupEvent, Publish, DeleteOldRows, Takes, DeleteTenantRows, Cut, wheel
  <2>2. request'[q].pc \in {"over", "publish", "commit"}
    <3>1. \A t : [request[q] EXCEPT !.pc = "commit", !.taken = t].pc = "commit"
      BY <1>0 DEF AnyRequest
    <3>2. [request[q] EXCEPT !.pc = "publish"].pc = "publish"
      BY <1>0 DEF AnyRequest
    <3>3. CASE DeleteOldRows(q) \/ DeleteTenantRows(q)
      BY <1>0, <3>1, <3>3 DEF DeleteOldRows, Takes, DeleteTenantRows, Becomes
    <3>4. CASE LookupEvent(q)
      BY <1>0, <3>2, <3>4, EndedType DEF LookupEvent, Told, Goes, Becomes
    <3>5. CASE Publish(q) \/ Cut(q)
      BY <1>0, <3>5, EndedType DEF Publish, Cut, Told, Ends, Becomes
    <3> QED
      BY <1>10, <3>3, <3>4, <3>5
  <2> QED
    BY <1>4, <2>1, <2>2 DEF Storing
<1>11. CASE UpdateCase(q)
  <2>1. request[q].of \in Requests /\ request'[q].pc \notin Storing /\ UNCHANGED dataset
    BY <1>0, <1>11, EndedType DEF UpdateCase, At, StandsRight, Ends, Becomes, Storing
  <2>2. ASSUME NEW c \in Requests, cases[c] # Absent
        PROVE  LET row == [cases[c] EXCEPT !.spec = request[q].what] IN
               row # Absent /\ row.run = cases[c].run /\ row.dataset = cases[c].dataset
    <3>1. cases[c] \in CaseRow
      BY <1>0, <2>2 DEF WheelTypes
    <3>2. [cases[c] EXCEPT !.spec = request[q].what] \in CaseRow
      BY <1>0, <3>1 DEF CaseRow, AnyRequest
    <3> QED
      BY <1>0, <3>1, <3>2 DEF CaseRow
  <2>3. ASSUME NEW c \in Requests
        PROVE  /\ cases'[c] # Absent <=> cases[c] # Absent
               /\ cases[c] # Absent => cases'[c].run = cases[c].run /\ cases'[c].dataset = cases[c].dataset
    BY <1>0, <1>11, <2>1, <2>2 DEF UpdateCase, WheelTypes
  <2> QED
    BY <1>9, <2>1, <2>3
<1>12. CASE Commit(q)
  <2> DEFINE t == request[q].taken
  <2>1. request'[q].pc \notin Storing
    BY <1>12, CommitEffect, EndedType DEF Storing
  <2>2. request[q].pc = "commit" /\ (Sweeps(request[q]) \/ request[q].kind = "purge")
    BY <1>0, <1>12 DEF Commit, At, Sweeps, StandsRight, Removing
  <2>3. CASE UNCHANGED <<dataset, cases>>
    BY <1>4, <2>1, <2>3
  <2>4. ASSUME dataset' = dataset \ t.dataset,
               \A c \in Requests : cases'[c] = IF c \in t.cases THEN Absent ELSE cases[c]
        PROVE  SeedInv'
    <3>1. CASE Sweeps(request[q])
      BY <1>0, <1>9, <2>1, <2>4, <3>1 DEF StandsRight, Sweeps
    <3>2. CASE request[q].kind = "purge"
      <4>1. Alone(q) /\ TakesAll(t)
        BY <1>2, <2>2, <3>2 DEF ClearInv, PurgeOf
      <4>2. dataset' = {} /\ SavedCases' = {}
        BY <2>4, <4>1 DEF TakesAll, SavedCases
      <4>3. \A p \in Requests \ {q} : request'[p].pc \notin Storing
        BY <1>1, <4>1 DEF Alone, InFlight, Storing
      <4>4. Seeded' = {} /\ \A p \in Requests : SeedOf(p)'
        BY <2>1, <4>2, <4>3 DEF Seeded, SeedOf, Storing
      <4> QED
        BY <1>3, <4>2, <4>4 DEF SeedInv, OneAdds
    <3> QED
      BY <2>2, <3>1, <3>2
  <2> QED
    BY <1>12, <2>3, <2>4, CommitEffect
<1> QED
  BY <1>6, <1>7, <1>8, <1>10, <1>11, <1>12 DEF Serve

LEMMA SeedStep == RecordsInv /\ ClearInv /\ SeedInv /\ [RecordsNext]_recordsVars => SeedInv'
<1> SUFFICES ASSUME RecordsInv, ClearInv, SeedInv, [RecordsNext]_recordsVars PROVE SeedInv'
  OBVIOUS
<1>1. ASSUME past \subseteq past', UNCHANGED <<dataset, cases, request>> PROVE SeedInv'
  <2>1. ASSUME past' \intersect {"adders", "purge"} = {} PROVE OneAdds'
    <3>1. past \intersect {"adders", "purge"} = {} /\ UNCHANGED <<SavedCases, Seeded>>
      BY <1>1, <2>1 DEF SavedCases, Seeded
    <3>2. \A q \in Requests : (SeedOf(q)' <=> SeedOf(q)) /\ (AddsNow(q)' <=> AddsNow(q))
      BY <1>1, <3>1 DEF SeedOf, AddsNow, InFlight
    <3> QED
      BY <1>1, <3>1, <3>2 DEF SeedInv, OneAdds
  <2> QED
    BY <2>1 DEF SeedInv, OneAdds
<1>2. ASSUME NEW x \in Runs, Drive(x) PROVE SeedInv'
  BY <1>1, <1>2, DriveEffect
<1>3. CASE Age \/ UNCHANGED recordsVars
  BY <1>1, <1>3 DEF Age, Drives, NoRequest, recordsVars, wheel
<1> QED
  BY <1>2, <1>3, SeedAsk, SeedServe DEF RecordsNext

LEMMA SeedInit == RecordsInit => SeedInv
BY EndedType DEF RecordsInit, SeedInv, SeedOf, SavedCases, Seeded, AddsNow, InFlight, Storing, OneAdds

\* Seeding is an upsert (evaluation/service.py:207): saved cases that change
\* and are seeded again, beside the cases of feedback, are one case, unless
\* two requests that add cases met, or a purge took the dataset of one.
THEOREM SeedsAlwaysConverge == RecordsSpec => []SeedsConverge
<1>1. SeedInv => SeedsConverge
  <2> SUFFICES ASSUME SeedInv, past \intersect {"adders", "purge"} = {}
               PROVE  Cardinality({c \in Requests : cases[c] # Absent /\ cases[c].run = Absent}) <= 1
    BY DEF SeedsConverge
  <2>1. {c \in Requests : cases[c] # Absent /\ cases[c].run = Absent} = Seeded
    BY DEF Seeded, SavedCases
  <2>2. CASE Seeded = {}
    BY <2>1, <2>2, FS_EmptySet
  <2>3. ASSUME NEW c \in Seeded PROVE Cardinality(Seeded) = 1
    <3>1. Seeded = {c}
      BY <2>3 DEF SeedInv, OneAdds
    <3> QED
      BY <3>1, FS_Singleton
  <2> QED
    BY <2>1, <2>2, <2>3
<1> QED
  BY <1>1, RecordsInitType, RecordsTypeStep, StampInit, StampStep, ClearInit, ClearStep,
    SeedInit, SeedStep, PTL DEF RecordsSpec
=============================================================================
