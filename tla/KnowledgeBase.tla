--------------------------- MODULE KnowledgeBase ---------------------------
(***************************************************************************)
(* One document of the knowledge base and the cached answer to one query   *)
(* (app/knowledge/retrieval.py, store.py, cache.py, api.py): what ingest,  *)
(* the deletions and a search do when they interleave, on several          *)
(* instances, with the cache in the process or in Redis.                   *)
(*                                                                         *)
(* Every transaction is a step, and so is a call of Redis together with    *)
(* what its caller does next without awaiting.  A chunk is the ingest it   *)
(* came from; ranking keeps what a search has read, since a search returns *)
(* more hits than the document has chunks here.  No request warms the      *)
(* cache (warm has no caller), and its eviction only drops what is too old *)
(* to be served.                                                           *)
(***************************************************************************)
EXTENDS Naturals, FiniteSets

CONSTANTS
  Instances,    \* processes that share the database
  Searchers,    \* requests and tool calls that search, and
  Writers,      \* requests that ingest or delete,
  Home,         \* each on the instance Home[x]
  MaxChange,    \* bound on the ingests and deletions begun
  TTL,          \* age at which an entry is served no more
  Scopes,       \* what a search is limited to: the document's base, another
  None          \* no entry, no task

ASSUME KnowledgeAssumption ==
  /\ {MaxChange, TTL} \subseteq Nat
  /\ Scopes \subseteq {"base", "other"}
  /\ Home \in [Searchers \union Writers -> Instances]
  /\ "redis" \notin Instances /\ None \notin Searchers

VARIABLES
  backend,    \* where the cache is: settings.redis_url
  base,       \* the row of the document's knowledge base is there
  document,   \* the row of the document is there (it is READY from birth)
  chunks,     \* chunks[q]: the ingest whose chunk has seq q, 0: no such row
  changes,    \* ingests and deletions begun
  writer,     \* where each writer stands
  cache,      \* the entry in each place that holds one
  keys,       \* the instances that remember the key (self._keys, Redis only)
  inflight,   \* inflight[i]: the load that instance i shares
  search,     \* where each search stands
  load        \* load[s]: the task that search s created

data == <<base, document, chunks>>
vars == <<backend, data, changes, writer, cache, keys, inflight, search, load>>

Seqs == {1, 2}
Chunk == Seqs \X (1 .. MaxChange)

Places == Instances \union {"redis"}
\* Fault: every process keeps its entries to itself.
PlaceAtHome(i) == i
Place(i) == IF backend = "redis" THEN "redis" ELSE i

\* excused (kept for the properties): a clear that should have removed the
\* entry, or have come after it, did not.
Entry == [of : SUBSET Chunk, scope : Scopes, age : 0 .. TTL, excused : BOOLEAN]
Load == [pc : {"none", "read", "vector", "store", "done", "failed"},
         scope : Scopes \union {"base"}, of : SUBSET Chunk, excused : BOOLEAN]
NoLoad == [pc |-> "none", scope |-> "base", of |-> {}, excused |-> FALSE]
Search == [pc : {"idle", "get", "wait"}, scope : Scopes \union {"base"},
           on : Searchers \union {None}]
NoSearch == [pc |-> "idle", scope |-> "base", on |-> None]
Writer == [pc : {"idle", "delete", "look", "upsert", "add", "clear"},
           ingest : 0 .. MaxChange, size : 0 .. 2, found : BOOLEAN]
NoWriter == [pc |-> "idle", ingest |-> 0, size |-> 0, found |-> FALSE]

Running(s) == load[s].pc \in {"read", "vector", "store"}
\* What a search of the scope finds in the table.
Found(scope) ==
  IF scope = "other" THEN {} ELSE {c \in Chunk : chunks[c[1]] = c[2]}

Init ==
  /\ backend \in {"process", "redis"}
  /\ base = TRUE /\ document = FALSE
  /\ chunks = [q \in Seqs |-> 0]
  /\ changes = 0
  /\ writer = [w \in Writers |-> NoWriter]
  /\ cache = [p \in Places |-> None]
  /\ keys = {}
  /\ inflight = [i \in Instances |-> None]
  /\ search = [s \in Searchers |-> NoSearch]
  /\ load = [s \in Searchers |-> NoLoad]

-----------------------------------------------------------------------------
(* Writers *)

Excuse(e) == IF e = None THEN None ELSE [e EXCEPT !.excused = TRUE]
\* Every load under way, of which nothing tells the result is old.
LateLoads(is) == [s \in Searchers |->
  IF Running(s) /\ Home[s] \in is THEN [load[s] EXCEPT !.excused = TRUE]
  ELSE load[s]]

\* No clear will come for this change.
NotCleared ==
  /\ cache' = [p \in Places |-> Excuse(cache[p])]
  /\ load' = LateLoads(Instances)
  /\ UNCHANGED <<keys, inflight, search>>

CacheIsLeft == UNCHANGED <<cache, keys, inflight, search, load>>
WriterAt(w, pc) == writer[w].pc = pc /\ UNCHANGED <<backend, changes>>
WriterGoes(w, pc) == writer' = [writer EXCEPT ![w].pc = pc]

\* The text is cleaned, cut and embedded before anything is written.
Ingest(w, size) ==
  /\ writer[w] = NoWriter /\ changes < MaxChange
  /\ changes' = changes + 1
  /\ writer' = [writer EXCEPT ![w] = [NoWriter EXCEPT
       !.pc = "delete", !.ingest = changes + 1, !.size = size]]
  /\ CacheIsLeft /\ UNCHANGED <<backend, data>>

DeleteChunks(w) ==
  /\ WriterAt(w, "delete")
  /\ chunks' = [q \in Seqs |-> 0]
  /\ WriterGoes(w, "look")
  /\ CacheIsLeft /\ UNCHANGED <<base, document>>

LookForDocument(w) ==
  /\ WriterAt(w, "look")
  /\ writer' = [writer EXCEPT ![w].pc = "upsert", ![w].found = document]
  /\ CacheIsLeft /\ UNCHANGED data

\* The request ends with an error and clears nothing.
WriterFails(w) ==
  /\ writer' = [writer EXCEPT ![w] = NoWriter]
  /\ NotCleared /\ UNCHANGED data

\* The primary key refuses a second row, and the update of a row that is
\* gone matches none.
UpsertDocument(w) ==
  /\ WriterAt(w, "upsert")
  /\ IF writer[w].found = document
     THEN /\ document' = TRUE
          /\ writer' = [writer EXCEPT ![w].pc = "add", ![w].found = FALSE]
          /\ CacheIsLeft /\ UNCHANGED <<base, chunks>>
     ELSE WriterFails(w)

\* chunk_id_for and uq_chunk_seq allow one chunk for each seq.
\* Fault: chunks with ids of their own.
AddAnyChunks(w) ==
  /\ WriterAt(w, "add")
  /\ chunks' = [q \in Seqs |-> IF q <= writer[w].size /\ chunks[q] = 0
                               THEN writer[w].ingest ELSE chunks[q]]
  /\ WriterGoes(w, "clear") /\ CacheIsLeft /\ UNCHANGED <<base, document>>
AddChunks(w) ==
  /\ WriterAt(w, "add")
  /\ IF \A q \in 1 .. writer[w].size : chunks[q] = 0
     THEN /\ chunks' = [q \in Seqs |-> IF q <= writer[w].size
                                       THEN writer[w].ingest ELSE chunks[q]]
          /\ writer' = [writer EXCEPT ![w] = [NoWriter EXCEPT !.pc = "clear"]]
          /\ CacheIsLeft /\ UNCHANGED <<base, document>>
     ELSE WriterFails(w)

\* In the process the whole store is dropped; in Redis the keys that this
\* process has written.
Cleared(i) ==
  IF backend = "process" THEN {i}
  ELSE IF i \in keys THEN {"redis"} ELSE {}
\* Every place the change was to reach is excused when this clear leaves it.
ClearCache(w) ==
  /\ WriterAt(w, "clear")
  /\ cache' = [p \in Places |->
                 IF p \in Cleared(Home[w]) THEN None ELSE Excuse(cache[p])]
  /\ keys' = keys \ {Home[w]}
  /\ load' = LateLoads(Instances)
  /\ writer' = [writer EXCEPT ![w] = NoWriter]
  /\ UNCHANGED <<data, inflight, search>>

\* Fault: the deletion leaves the cache alone.
DeleteUncleared(w) ==
  /\ writer[w] = NoWriter /\ changes < MaxChange
  /\ changes' = changes + 1
  /\ document
  /\ document' = FALSE
  /\ chunks' = [q \in Seqs |-> 0]
  /\ CacheIsLeft /\ UNCHANGED <<backend, base, writer>>
DeleteDocument(w) ==
  /\ writer[w] = NoWriter /\ changes < MaxChange
  /\ changes' = changes + 1
  /\ document
  /\ document' = FALSE
  /\ chunks' = [q \in Seqs |-> 0]
  /\ WriterGoes(w, "clear")
  /\ CacheIsLeft /\ UNCHANGED <<backend, base>>

\* The base goes with its documents, and the cache is not told.
DeleteBase(w) ==
  /\ writer[w] = NoWriter /\ changes < MaxChange
  /\ changes' = changes + 1
  /\ base
  /\ base' = FALSE /\ document' = FALSE
  /\ chunks' = [q \in Seqs |-> 0]
  /\ NotCleared /\ UNCHANGED <<backend, writer>>

\* A disconnect, an error of the database or a stop ends a writer anywhere.
CutWriter(w) ==
  /\ writer[w] # NoWriter
  /\ WriterFails(w) /\ UNCHANGED <<backend, changes>>

-----------------------------------------------------------------------------
(* Searches *)

TableIsLeft == UNCHANGED <<backend, data, changes, writer>>
\* Fault: an entry is served whatever its age.
ServableOnceStored(e) == e # None
Servable(e) == e # None /\ e.age < TTL

\* A task is forgotten when nobody awaits it: then its name is free again.
Awaited(s) == Running(s) \/ \E r \in Searchers : search[r].on = s

CreateTask(s, scope) ==
  /\ load' = [load EXCEPT ![s] = [NoLoad EXCEPT !.pc = "read", !.scope = scope]]
  /\ inflight' = [inflight EXCEPT ![Home[s]] = s]
  /\ search' = [search EXCEPT ![s] = [pc |-> "wait", scope |-> scope, on |-> s]]

Shares(s, scope) ==
  search' = [search EXCEPT ![s] =
    [pc |-> "wait", scope |-> scope, on |-> inflight[Home[s]]]]

\* get_or_load: the load under way, then the cache (a hit ends the search at
\* once), then a load of its own; Redis is asked in an await between the two.
\* Fault: the process, too, asks in an await.
AskAlwaysAwaits(s, scope) ==
  /\ search[s] = NoSearch /\ ~Awaited(s)
  /\ IF inflight[Home[s]] # None
     THEN Shares(s, scope)
     ELSE search' = [search EXCEPT ![s] = [NoSearch EXCEPT
                       !.pc = "get", !.scope = scope]]
  /\ TableIsLeft /\ UNCHANGED <<cache, keys, load, inflight>>
Ask(s, scope) ==
  /\ search[s] = NoSearch /\ ~Awaited(s)
  /\ TableIsLeft /\ UNCHANGED <<cache, keys>>
  /\ IF inflight[Home[s]] # None
     THEN Shares(s, scope) /\ UNCHANGED <<load, inflight>>
     ELSE IF backend = "redis"
     THEN /\ search' = [search EXCEPT ![s] = [NoSearch EXCEPT
                          !.pc = "get", !.scope = scope]]
          /\ UNCHANGED <<load, inflight>>
     ELSE IF Servable(cache[Home[s]])
     THEN UNCHANGED <<search, load, inflight>>
     ELSE CreateTask(s, scope)

\* The answer of Redis arrives: a hit ends the search.
Got(s) ==
  /\ search[s].pc = "get" /\ ~Awaited(s)
  /\ IF Servable(cache[Place(Home[s])])
     THEN search' = [search EXCEPT ![s] = NoSearch] /\ UNCHANGED <<load, inflight>>
     ELSE CreateTask(s, search[s].scope)
  /\ TableIsLeft /\ UNCHANGED <<cache, keys>>

LoadAt(s, pc) ==
  /\ load[s].pc = pc /\ TableIsLeft /\ UNCHANGED <<inflight, search>>

\* Without a chunk in scope the result is empty and nothing is embedded.
ReadChunks(s) ==
  /\ LoadAt(s, "read")
  /\ LET found == Found(load[s].scope) IN
     load' = [load EXCEPT ![s].of = found,
                          ![s].pc = IF found = {} THEN "store" ELSE "vector"]
  /\ UNCHANGED <<cache, keys>>

\* The vector search reads the table again; a chunk that both lists have is
\* taken from this one (rrf_fuse).
Fused(vector, first) ==
  vector \union {c \in first : \A v \in vector : v[1] # c[1]}
VectorSearch(s) ==
  /\ LoadAt(s, "vector")
  /\ load' = [load EXCEPT ![s].of = Fused(Found(load[s].scope), @),
                          ![s].pc = "store"]
  /\ UNCHANGED <<cache, keys>>

Over(s, pc) == [NoLoad EXCEPT !.pc = pc, !.scope = load[s].scope]
StoreEntry(s) ==
  /\ LoadAt(s, "store")
  /\ cache' = [cache EXCEPT ![Place(Home[s])] =
       [of |-> load[s].of, scope |-> load[s].scope, age |-> 0,
        excused |-> load[s].excused]]
  /\ keys' = IF backend = "redis" THEN keys \union {Home[s]} ELSE keys
  /\ load' = [load EXCEPT ![s] = Over(s, "done")]

\* A search is cancelled (disconnect, timeout of the tool): the task it
\* awaits is cancelled with it, whoever created it.  The database or the
\* embedding service may fail a load just so.
CancelSearch(s) ==
  /\ search[s] # NoSearch
  /\ IF search[s].pc = "wait" /\ Running(search[s].on)
     THEN load' = [load EXCEPT ![search[s].on] = Over(search[s].on, "failed")]
          /\ UNCHANGED search
     ELSE search[s].pc = "get" /\ search' = [search EXCEPT ![s] = NoSearch]
          /\ UNCHANGED load
  /\ TableIsLeft /\ UNCHANGED <<cache, keys, inflight>>

\* A search wakes with the result, or the error, of the task; who created it
\* takes the instance's entry out of _inflight, whoever's it is by now.
Wake(s) ==
  /\ search[s].pc = "wait" /\ load[search[s].on].pc \in {"done", "failed"}
  /\ search' = [search EXCEPT ![s] = NoSearch]
  /\ inflight' = IF search[s].on = s THEN [inflight EXCEPT ![Home[s]] = None]
                 ELSE inflight
  /\ load' = IF \A r \in Searchers \ {s} : search[r].on # search[s].on
             THEN [load EXCEPT ![search[s].on] = NoLoad] ELSE load
  /\ TableIsLeft /\ UNCHANGED <<cache, keys>>

Tick ==
  /\ \E p \in Places : cache[p] # None /\ cache[p].age < TTL
  /\ cache' = [p \in Places |-> IF cache[p] = None \/ cache[p].age = TTL
                                THEN cache[p] ELSE [cache[p] EXCEPT !.age = @ + 1]]
  /\ TableIsLeft /\ UNCHANGED <<keys, inflight, search, load>>

-----------------------------------------------------------------------------
WriterStep(w) == DeleteChunks(w) \/ LookForDocument(w) \/ UpsertDocument(w)
                 \/ AddChunks(w) \/ ClearCache(w)
LoadStep(s) == ReadChunks(s) \/ VectorSearch(s) \/ StoreEntry(s)

Next ==
  \/ \E w \in Writers :
       WriterStep(w) \/ DeleteDocument(w) \/ DeleteBase(w) \/ CutWriter(w)
       \/ \E n \in 1 .. 2 : Ingest(w, n)
  \/ \E s \in Searchers :
       Got(s) \/ LoadStep(s) \/ CancelSearch(s) \/ Wake(s)
       \/ \E c \in Scopes : Ask(s, c)
  \/ Tick

Spec == Init /\ [][Next]_vars

\* The event loop runs every task that is ready, and time passes.
Fairness ==
  /\ \A w \in Writers : WF_vars(WriterStep(w))
  /\ \A s \in Searchers : WF_vars(LoadStep(s)) /\ WF_vars(Wake(s))
  /\ WF_vars(Tick)
FairSpec == Spec /\ Fairness

-----------------------------------------------------------------------------
(* Properties *)

\* Every variable has its type: a writer that gave up holds no ingest, and
\* only the current backend has entries.
TypeOK ==
  /\ backend \in {"process", "redis"}
  /\ base \in BOOLEAN /\ document \in BOOLEAN
  /\ chunks \in [Seqs -> 0 .. MaxChange]
  /\ changes \in 0 .. MaxChange
  /\ writer \in [Writers -> Writer]
  /\ cache \in [Places -> Entry \union {None}]
  /\ \A p \in Places : cache[p] # None => (p = "redis") = (backend = "redis")
  /\ keys \subseteq Instances
  /\ inflight \in [Instances -> Searchers \union {None}]
  /\ search \in [Searchers -> Search]
  /\ load \in [Searchers -> Load]

\* The chunks of the document are never mixed of two ingests, however the
\* ingests and deletions interleave or are cut short: the seq of a chunk
\* makes its id, and the second insert fails as a whole.
OneSource ==
  \A p, q \in Seqs : chunks[p] # 0 /\ chunks[q] # 0 => chunks[p] = chunks[q]

\* In the process, concurrent misses of a key are one load (class docstring
\* of RetrievalCache), through failed, cancelled and late loads.
SingleFlight ==
  backend = "process" =>
    \A s, t \in Searchers :
      s # t /\ Running(s) /\ Running(t) => Home[s] # Home[t]

\* Once no writer is under way, a cached answer is what the table holds,
\* unless the change came without a clear (a writer cut short, the deletion
\* of a base), its clear did not reach the entry (another process's store or
\* key), or the answer was being loaded when the cache was cleared.
CurrentUnlessExcused ==
  (\A w \in Writers : writer[w] = NoWriter) =>
    \A p \in Places : cache[p] # None /\ ~cache[p].excused =>
      cache[p].of = Found(cache[p].scope)

\* Whatever became stale, and however, is served only for a time: when the
\* changes end, the entries served are at last those of the table.
EventuallyFresh ==
  <>[](\A p \in Places : Servable(cache[p]) =>
         cache[p].of = Found(cache[p].scope))

\* Documents promise (cache.py, clear): after a change of the knowledge base
\* the new content is not hidden by old results.  On one instance, with no
\* writer cut: a load under way stores the old result after the clear.
NewIsSeen ==
  (\A w \in Writers : writer[w] = NoWriter) =>
    \A p \in Places : cache[p] # None => cache[p].of = Found(cache[p].scope)

\* A search limited to a base gets what was searched in that base
\* (retrieval.py, RetrievalRequest.kb_id): the key of the cache leaves out
\* kb_id, kb_filter and the numbers of hits.
SearchedInItsBase ==
  \A s \in Searchers :
    search[s].pc = "wait" => load[search[s].on].scope = search[s].scope

\* The class docstring of RedisRetrievalCache: single flight in a process.
SingleFlightRedis ==
  \A s, t \in Searchers :
    s # t /\ Running(s) /\ Running(t) => Home[s] # Home[t]

\* A document is in a base that exists (delete_base takes its documents).
DocumentHasBase == document => base
=============================================================================
