------------------------------- MODULE Serving -------------------------------
(***************************************************************************)
(* Answering a question from a collection while it is rebuilt under it:    *)
(* chat.answer and graphrag.answer in one API process, over the builds of  *)
(* CollectionBuilds, with the process's graph cache                        *)
(* (workloads/graphrag/service.py), the response cache in Redis            *)
(* (scaling/cache.py) and the taxonomies onboarding publishes.             *)
(*                                                                         *)
(* A request reads the live version and that version's rows in two         *)
(* statements (READ COMMITTED: each sees what is committed when it runs).  *)
(* One request at a time is followed, about one question, collection and   *)
(* domain; top-k is taken to cover the collection.  What other requests do *)
(* to the caches is in the caches' states: Init leaves them empty and      *)
(* earlier requests fill them.                                             *)
(***************************************************************************)
EXTENDS CollectionBuilds

CONSTANT MaxTaxonomy   \* bound: taxonomies published for the domain

ASSUME ServingAssumption == MaxTaxonomy \in Nat

VARIABLES taxonomy,    \* the published onboarding session, 0 when none
          known,       \* the taxonomy at this process's last invalidate
          graph,       \* _cache, for the one (tenant, collection)
          response,    \* Redis: one entry, under its key
          query        \* the request

servingVars == <<vars, taxonomy, known, graph, response, query>>

\* Between the two statements of a read.
Reading == {"loading", "retrieving"}

Query == [phase : Reading \cup {"idle", "uncached", "building", "loaded", "asking", "answered"},
          version : 0..MaxVersion,
          due : SUBSET Texts,          \* history: what the second statement should find
          docs : SUBSET Texts,         \* the rows of load_documents, or of chat.retrieve
          sources : SUBSET Texts,      \* what goes into the prompt
          taxonomy : 0..MaxTaxonomy,   \* the artifacts a graph is being built with
          late : BOOLEAN,              \* history: they were no longer the published ones
          content : SUBSET Texts]      \* the sources the answer was made from

Graph == [stored : {TRUE}, docs : SUBSET Texts, taxonomy : 0..MaxTaxonomy, late : BOOLEAN]
Response == [stored : {TRUE}, key : SUBSET Texts, content : SUBSET Texts]

NoQuery == [phase |-> "idle", version |-> 0, due |-> {}, docs |-> {}, sources |-> {},
            taxonomy |-> 0, late |-> FALSE, content |-> {}]

Nothing == [stored |-> FALSE]

(* The caches hold entries or nothing, the request what its phase has read. *)
ServingTypeOK ==
    /\ taxonomy \in 0..MaxTaxonomy /\ known \in 0..MaxTaxonomy
    /\ graph \in Graph \cup {Nothing}
    /\ response \in Response \cup {Nothing}
    /\ query \in Query

ServingInit ==
    /\ Init
    /\ taxonomy = 0 /\ known = 0
    /\ graph = Nothing
    /\ response = Nothing
    /\ query = NoQuery

-----------------------------------------------------------------------------
(* The corpus moves on under the request.                                  *)
Superseded == {v \in Versions : build[v] = "superseded"}

\* What a reader of v can still expect: nothing once its build is replaced a second
\* time or by an older one, or when a rebuild fails its version; else all but the
\* chunks of purged documents.
StillDue ==
    LET v == query.version IN
    IF \/ Live' # Live /\ (v \notin Live \/ \E l \in Live' : l < v)
       \/ \E j \in Jobs : job[j].version = v /\ Fail(j)
    THEN {}
    ELSE {t \in query.due : chunk[v][t] \notin Purged'}

Corpus ==
    /\ Next
    /\ query' = IF query.phase \in Reading THEN [query EXCEPT !.due = StillDue] ELSE query
    /\ UNCHANGED <<taxonomy, known, graph, response>>

-----------------------------------------------------------------------------
(* Publishing a taxonomy.                                                  *)
\* store.publish, by whichever process.
Publish ==
    /\ taxonomy < MaxTaxonomy
    /\ taxonomy' = taxonomy + 1
    /\ UNCHANGED <<vars, known, graph, response, query>>

GraphKept == graph

\* graphrag.invalidate drops the tenant's graphs; a build under way goes on.
GraphInvalidated == Nothing

\* The publish route goes on to invalidate, unless it dies or runs in another process.
PublishInvalidates ==
    /\ known # taxonomy
    /\ graph' = GraphInvalidated
    /\ known' = taxonomy
    /\ query' = [query EXCEPT !.late = query.phase = "building" /\ query.taxonomy < taxonomy]
    /\ UNCHANGED <<vars, taxonomy, response>>

-----------------------------------------------------------------------------
(* The request.                                                            *)
TheLive == IF Live = {} THEN 0 ELSE Max(Live)
RowsOf(v) == IF v = 0 THEN {} ELSE Held(v)

Step(request) ==
    /\ query' = request
    /\ UNCHANGED <<vars, taxonomy, known>>

\* live_version_or_none, the first statement of load_documents (graph mode) and
\* of chat.retrieve (dense mode).  An older build that was promoted over a newer one
\* is due to nobody: reap keeps the newer as the predecessor of the next.
Ask(reading) ==
    /\ query.phase = "idle"
    /\ Step([query EXCEPT !.phase = reading, !.version = TheLive,
                           !.due = IF \E v \in Superseded : v > TheLive THEN {}
                                   ELSE RowsOf(TheLive)])
    /\ UNCHANGED <<graph, response>>

\* Nothing is found: the gap is recorded and the question refused.
Refuse == Step(NoQuery)

\* build_graph: the rows, then the cache under the lock.  A cached graph is taken
\* for the fingerprint of its documents alone.
LoadDocuments ==
    LET rows == RowsOf(query.version)
        cached == graph.stored /\ graph.docs = rows IN
    /\ query.phase = "loading"
    /\ IF rows = {} THEN Refuse
       ELSE Step([query EXCEPT !.phase = IF cached THEN "loaded" ELSE "uncached",
                               !.version = 0, !.due = {}, !.docs = rows])
    /\ UNCHANGED <<graph, response>>

\* published_artifacts and materialize; when they raise, or there are none, the
\* graph is built without.
Artifacts == {0, taxonomy}

ReadArtifacts ==
    /\ query.phase = "uncached"
    /\ \E t \in Artifacts :
         Step([query EXCEPT !.phase = "building", !.taxonomy = t, !.late = (t # taxonomy)])
    /\ UNCHANGED <<graph, response>>

\* build_from_documents, and the store under the lock.
StoreGraph ==
    /\ query.phase = "building"
    /\ graph' = [stored |-> TRUE, docs |-> query.docs, taxonomy |-> query.taxonomy,
                 late |-> query.late]
    /\ Step([query EXCEPT !.phase = "loaded", !.late = FALSE, !.taxonomy = 0])
    /\ UNCHANGED response

\* contribute drops what is not among the loaded documents.
Fused(hits) == hits \cap query.docs

\* What retrieve and retrieve_sparse may return: each reads the live version
\* again, whichever that is by then.
SignalHits == UNION {Held(v) : v \in Versions}

\* _hybrid_retrieve: the dense and the lexical signal, and the graph, which adds
\* documents it was built from.
HybridRetrieve ==
    /\ query.phase = "loaded"
    /\ \E hits \in SUBSET (query.docs \cup SignalHits) :
         IF Fused(hits) = {} THEN Refuse
         ELSE Step([query EXCEPT !.phase = "asking", !.sources = Fused(hits)])
    /\ UNCHANGED <<graph, response>>

\* The second statement of chat.retrieve; all its rows go into the prompt.
Retrieve ==
    LET rows == RowsOf(query.version) IN
    /\ query.phase = "retrieving"
    /\ IF rows = {} THEN Refuse
       ELSE Step([query EXCEPT !.phase = "asking", !.version = 0, !.due = {},
                               !.docs = rows, !.sources = rows])
    /\ UNCHANGED <<graph, response>>

KeyOfTheQuestion(sources) == {}

\* llm._cache_key: the whole request, the retrieved text in its messages
\* included.
CacheKey(sources) == sources

Hit(sources) == response.stored /\ response.key = CacheKey(sources)

\* llm.chat through the cache; a failing read or an expired entry is a miss.
AnswerFromCache ==
    /\ query.phase = "asking"
    /\ Hit(query.sources)
    /\ Step([query EXCEPT !.phase = "answered", !.sources = {}, !.content = response.content])
    /\ UNCHANGED <<graph, response>>

\* A put may be lost, and the turns of a conversation (cacheable = FALSE) have none.
AfterPut(sources, content) ==
    {response, [stored |-> TRUE, key |-> CacheKey(sources), content |-> content]}

\* The model answers from the sources it is given.
AnswerFromModel ==
    /\ query.phase = "asking"
    /\ response' \in AfterPut(query.sources, query.sources)
    /\ Step([query EXCEPT !.phase = "answered", !.sources = {}, !.content = query.sources])
    /\ UNCHANGED graph

\* The answer is returned, or an error (a provider's, an expired session's) ends
\* the request.
Returns ==
    /\ query.phase # "idle"
    /\ Step(NoQuery)
    /\ UNCHANGED <<graph, response>>

ServingNext ==
    \/ Corpus
    \/ Publish \/ PublishInvalidates
    \/ \E reading \in Reading : Ask(reading)
    \/ LoadDocuments \/ ReadArtifacts \/ StoreGraph \/ HybridRetrieve
    \/ Retrieve \/ AnswerFromCache \/ AnswerFromModel \/ Returns

ServingSpec == ServingInit /\ [][ServingNext]_servingVars

-----------------------------------------------------------------------------
(* A request that has read which build is live still finds all of it when it
   reads the rows, although a rebuild is promoted and reaped in between: the
   reaper "keeps the live build and its immediate predecessor" (reap), whatever
   else other rebuilds write, reap or promote.  Without that the question would
   be refused, and recorded as a gap of the corpus.  Purged documents apart, and
   rebuilds promoted out of order or failing after their promotion (StillDue). *)
ReadersKeepTheirBuild ==
    query.phase \in Reading => query.due \subseteq RowsOf(query.version)

(* An answer is made of one build's documents, those the request loaded first,
   whichever builds its later retrievals saw and whichever answer the response
   cache held from an earlier build: contribute drops the former, and the key
   "includes all of it" (_hybrid_retrieve, chat.answer). *)
AnswersAreOfOneBuild == query.phase = "answered" => query.content \subseteq query.docs

(* After a publish through this process no query gets a graph of an older
   taxonomy: the cached graph is dropped, and what is built later is built from
   the published artifacts (publish in routes/onboarding.py, build_graph).  A
   build that had read its artifacts before the invalidation, or failed to read
   them, is the exception. *)
GraphFollowsPublish == graph.stored => graph.late \/ graph.taxonomy >= known
=============================================================================
