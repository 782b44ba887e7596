----------------------------- MODULE RetrievalUse -----------------------------
(***************************************************************************)
(* What a retrieval leaves behind: the cached answer, the hits of its      *)
(* chunks, the usage events, the gaps, the log, and the rebuild of the     *)
(* rollup that runs next to it.                                            *)
(*                                                                         *)
(* An ask is one call of a caller: the search tool of an agent, the        *)
(* agentic retrieval, the retrieval test, the quick question and answer    *)
(* (and the golden questions, which ask the same way).  It runs one        *)
(* retrieval, or one per sub-query at the same time.  What the index       *)
(* finds, and who may see it, is the matter of ChunkRetrieval.             *)
(***************************************************************************)
EXTENDS Integers, FiniteSets

CONSTANTS
  RuChunks,
  RuTagged,     \* chunks with the tag that a query may be routed to
  RuWeak,       \* chunks whose dense score is below any threshold asked for
  RuAsks,       \* asks, each made once
  RuKinds       \* the callers that an ask may come from

ASSUME UseAssumption == /\ RuTagged \subseteq RuChunks /\ RuWeak \subseteq RuChunks /\ IsFiniteSet(RuAsks)
                        /\ RuKinds \in [RuAsks -> SUBSET {"use", "test", "qa"}]

VARIABLES
  ruLive,      \* rows of chunks
  ruIndex,     \* chunks Milvus finds
  ruHits,      \* chunks.hit_count
  ruEvents,    \* hit events of a chunk; they go with its row
  ruGaps,      \* retrieval_no_result_events
  ruRecent,    \* chunks with an event in the window of the rebuild
  ruRebuild,   \* the aggregate the rebuild holds: counts of chunks, -1 for the others
  ruCache,     \* what is stored: the key, and the answer
  ruUnit,      \* retrievals
  ruAsk,
  ruRaced,     \* history: chunks hit while a rebuild held their counts
  ruUsed,      \* history: real searches that ended with the chunk
  ruEmpty      \* history: real searches that ended with nothing

useRows == <<ruLive, ruIndex, ruHits, ruEvents, ruGaps, ruRecent>>
useVars == <<useRows, ruRebuild, ruCache, ruUnit, ruAsk, ruRaced, ruUsed, ruEmpty>>

Searches == RuAsks \X {1, 2}
\* The parts of a cache key that differ between the asks.  The others are the bases, top_k
\* and the folders; tag filter, threshold, weights, the history a query is rewritten with
\* and the test flag are no part of it.
CacheKeys == [query : 0..2, embedding : {"kb", "other"}, reranked : BOOLEAN]
KeyWithoutModel(k) == [k EXCEPT !.embedding = "kb"]   \* mutant: the embedding is left out
CacheKey(k) == k
Missing == [made |-> {}, found |-> {}]
NoUnit  == [pc |-> "off", key |-> [query |-> 0, embedding |-> "kb", reranked |-> FALSE],
            answer |-> Missing]
NoAsk   == [pc |-> "idle", kind |-> "use"]
AnswersMade == [made : {{}} \cup {{k} : k \in CacheKeys}, found : SUBSET RuChunks]
NoCounts == [c \in RuChunks |-> -1]
MaxUses == 2 * Cardinality(RuAsks)

RetrievalUseTypeOK ==
  /\ ruLive \subseteq RuChunks /\ ruIndex \subseteq RuChunks /\ ruRecent \subseteq ruLive
  /\ ruHits \in [RuChunks -> 0..MaxUses] /\ ruEvents \in [RuChunks -> 0..MaxUses]
  /\ ruGaps \in 0..MaxUses
  /\ ruRebuild \in [RuChunks -> -1..MaxUses]
  /\ \A e, f \in ruCache : /\ e.at \in CacheKeys /\ e.answer \in AnswersMade
                           /\ e.at = f.at => e = f
  /\ ruUnit \in [Searches -> [pc : {"off", "look", "count", "log", "done", "failed"},
                           key : CacheKeys, answer : AnswersMade]]
  /\ ruAsk \in [RuAsks -> [pc : {"idle", "open", "stream", "done", "failed"},
                           kind : {"use", "test", "qa"}]]
  /\ ruRaced \subseteq RuChunks /\ ruUsed \in [RuChunks -> 0..MaxUses] /\ ruEmpty \in 0..MaxUses

UseInit ==
  /\ ruLive = RuChunks /\ ruIndex = RuChunks /\ ruRecent = {}
  /\ ruHits = [c \in RuChunks |-> 0] /\ ruEvents = [c \in RuChunks |-> 0]
  /\ ruGaps = 0 /\ ruRebuild = NoCounts
  /\ ruCache = {}
  /\ ruUnit = [u \in Searches |-> NoUnit] /\ ruAsk = [a \in RuAsks |-> NoAsk]
  /\ ruRaced = {} /\ ruUsed = [c \in RuChunks |-> 0] /\ ruEmpty = 0

\* Retrievals of tests, of quick questions and of golden questions.
IsTest(u) == ruAsk[u[1]].kind \in {"test", "qa"}
UnitAt(u, pc) == ruUnit[u].pc = pc
SetUnit(u, pc) == ruUnit' = [ruUnit EXCEPT ![u].pc = pc]
Bump(S, f) == [c \in RuChunks |-> f[c] + (IF c \in S THEN 1 ELSE 0)]
History == <<ruRaced, ruUsed, ruEmpty>>

-----------------------------------------------------------------------------
(***************************************************************************)
(* The callers.                                                            *)
(***************************************************************************)

\* Embedding: the one of the request, else of the base; rerank: the flag of the request,
\* else whether the base names a reranker.
EmbeddingOf(override)     == IF override THEN "other" ELSE "kb"
RerankOn(flag, ofTheBase) == IF flag = "unset" THEN ofTheBase ELSE flag = "on"

Open(a, kind, units) ==
  /\ ruAsk[a].pc = "idle" /\ kind \in RuKinds[a]
  /\ ruAsk' = [ruAsk EXCEPT ![a] = [NoAsk EXCEPT !.pc = "open", !.kind = kind]]
  /\ ruUnit' = [u \in Searches |-> IF u[1] # a \/ u[2] \notin DOMAIN units THEN ruUnit[u]
                                ELSE [units[u[2]] EXCEPT !.pc = "look"]]
  /\ UNCHANGED <<useRows, ruRebuild, ruCache, History>>

OneUnit(query, reranked) ==
  [NoUnit EXCEPT !.key = [query |-> query, embedding |-> "kb", reranked |-> reranked]]

\* knowledge_search of an agent, and the retrieval of a workflow node.
AskTool(a) == Open(a, "use", <<OneUnit(0, FALSE)>>)

\* retrieve_agentic; a plan that fails, or that has no two sub-queries, asks once.  Its
\* caller is the chat of an agent with knowledge bases, which breaks before it gets here:
\* it imports KnowledgeBaseService, and app.knowledge.service has only KBService.
\* (Sub-queries share no key with another ask: whether they are reranked is left open.)
AskAgentic(a, parts, reranked) ==
  IF parts THEN ~reranked /\ Open(a, "use", <<OneUnit(1, FALSE), OneUnit(2, FALSE)>>)
           ELSE Open(a, "use", <<OneUnit(0, reranked)>>)

\* retrieval_test: everything may be overridden.
AskTest(a, override, flag) ==
  Open(a, "test", <<[OneUnit(0, RerankOn(flag, TRUE)) EXCEPT !.key.embedding = EmbeddingOf(override)]>>)

\* quick_qa retrieves before the stream is opened, and only when there is a model to answer.
AskQa(a) == Open(a, "qa", <<OneUnit(0, FALSE)>>)

-----------------------------------------------------------------------------
(***************************************************************************)
(* RetrievalService.retrieve.                                              *)
(***************************************************************************)

\* An answer of the cache ends the retrieval: no hits, no events, no log.  A cache that
\* fails is one without an answer, and the search goes on.
LookUp(u) ==
  /\ UnitAt(u, "look")
  /\ \E e \in ruCache :
       /\ e.at = CacheKey(ruUnit[u].key)
       /\ ruUnit' = [ruUnit EXCEPT ![u].pc = "done", ![u].answer = e.answer]
  /\ UNCHANGED <<useRows, ruRebuild, ruCache, ruAsk, History>>

\* route_query_to_tags: of what the model replies, the tags that the dictionary has; none
\* when routing is off, the model fails, or the reply is no list.
RoutedTags(on, reply) == IF on THEN reply \cap {"known"} ELSE {}

\* What is left of the hits: tags are the filter of a test, or what the query is routed to;
\* the reranker, which may fail, changes the order only; a threshold, of a test, cuts what
\* is weak.
Shaped(tagged, cut) == {c \in ruIndex : (tagged => c \in RuTagged) /\ (cut => c \notin RuWeak)}
Thresholds(u) == IF IsTest(u) THEN BOOLEAN ELSE {FALSE}

SearchIndex(u) ==
  /\ UnitAt(u, "look")
  /\ \E on \in BOOLEAN, reply \in SUBSET {"known", "made up"}, cut \in Thresholds(u) :
       LET found == Shaped(RoutedTags(on, reply) # {}, cut) IN
       /\ ruUnit' = [ruUnit EXCEPT ![u].pc = IF IsTest(u) THEN "log" ELSE "count",
                                   ![u].answer = [made |-> {ruUnit[u].key}, found |-> found]]
       /\ ruUsed' = IF IsTest(u) THEN ruUsed ELSE Bump(found, ruUsed)
       /\ ruEmpty' = IF IsTest(u) \/ found # {} THEN ruEmpty ELSE ruEmpty + 1
  /\ UNCHANGED <<useRows, ruRebuild, ruCache, ruAsk, ruRaced>>

\* The embedding of the query, or Milvus, fails.
FailSearch(u) ==
  /\ UnitAt(u, "look") /\ SetUnit(u, "failed")
  /\ UNCHANGED <<useRows, ruRebuild, ruCache, ruAsk, History>>

\* One transaction raises the counts and inserts the events; an event of a row that is
\* gone makes it fail, and nothing of it stays.
RecordHits(u) ==
  /\ UnitAt(u, "count") /\ ruUnit[u].answer.found # {} /\ ruUnit[u].answer.found \subseteq ruLive
  /\ SetUnit(u, "log")
  /\ LET found == ruUnit[u].answer.found IN
       /\ ruHits' = Bump(found, ruHits) /\ ruEvents' = Bump(found, ruEvents)
       /\ ruRecent' = ruRecent \cup found
       /\ ruRaced' = ruRaced \cup {c \in found : ruRebuild[c] >= 0}
  /\ UNCHANGED <<ruLive, ruIndex, ruGaps, ruRebuild, ruCache, ruAsk, ruUsed, ruEmpty>>

RecordGap(u) ==
  /\ UnitAt(u, "count") /\ ruUnit[u].answer.found = {} /\ SetUnit(u, "log")
  /\ ruGaps' = ruGaps + 1
  /\ UNCHANGED <<ruLive, ruIndex, ruHits, ruEvents, ruRecent, ruRebuild, ruCache, ruAsk, History>>

LoseCount(u) ==
  /\ UnitAt(u, "count") /\ SetUnit(u, "log")
  /\ UNCHANGED <<useRows, ruRebuild, ruCache, ruAsk, History>>

\* The log, which keeps what the answer was, and the answer into the cache, if it can be.
Finish(u) ==
  /\ UnitAt(u, "log") /\ SetUnit(u, "done")
  /\ LET at == CacheKey(ruUnit[u].key) IN
       \/ ruCache' = {e \in ruCache : e.at # at} \cup {[at |-> at, answer |-> ruUnit[u].answer]}
       \/ UNCHANGED ruCache
  /\ UNCHANGED <<ruLive, ruIndex, ruHits, ruEvents, ruGaps, ruRecent, ruRebuild, ruAsk, History>>

-----------------------------------------------------------------------------
(***************************************************************************)
(* What the caller gets.                                                   *)
(***************************************************************************)

SearchesOf(a) == {u \in Searches : u[1] = a /\ ruUnit[u].pc # "off"}

\* gather waits for all sub-queries, and raises the first failure while the others go on.
Deliver(a) ==
  /\ ruAsk[a].pc = "open" /\ \A u \in SearchesOf(a) : UnitAt(u, "done")
  /\ ruAsk' = [ruAsk EXCEPT ![a].pc = IF ruAsk[a].kind = "qa" THEN "stream" ELSE "done",
                            ![a].kind = "use"]
  /\ ruUnit' = [u \in Searches |-> IF u \in SearchesOf(a) THEN NoUnit ELSE ruUnit[u]]
  /\ UNCHANGED <<useRows, ruRebuild, ruCache, History>>

FailAsk(a) ==
  /\ ruAsk[a].pc = "open" /\ \E u \in SearchesOf(a) : UnitAt(u, "failed")
  /\ ruAsk' = [ruAsk EXCEPT ![a].pc = "failed"]
  /\ UNCHANGED <<useRows, ruRebuild, ruCache, ruUnit, History>>

\* The stream of the quick answer always ends: a failure is a part of its text.
StreamAnswer(a) ==
  /\ ruAsk[a].pc = "stream" /\ ruAsk' = [ruAsk EXCEPT ![a].pc = "done"]
  /\ UNCHANGED <<useRows, ruRebuild, ruCache, ruUnit, History>>

-----------------------------------------------------------------------------
(***************************************************************************)
(* Around them.                                                            *)
(***************************************************************************)

\* The row and its events go together; Milvus may keep its vector.
LoseChunk(c, purged) ==
  /\ c \in ruLive /\ ruLive' = ruLive \ {c}
  /\ ruIndex' = IF purged THEN ruIndex \ {c} ELSE ruIndex
  /\ ruHits' = [ruHits EXCEPT ![c] = 0] /\ ruEvents' = [ruEvents EXCEPT ![c] = 0]
  /\ ruRecent' = ruRecent \ {c} /\ ruRaced' = ruRaced \ {c}
  /\ UNCHANGED <<ruGaps, ruRebuild, ruCache, ruUnit, ruAsk, ruUsed, ruEmpty>>

\* chunk_score_rebuild reads all events of the chunks with a recent one ...
WindowCounts(c) == IF c \in ruRecent THEN 1 ELSE -1   \* mutant: the events of the window only
EventCounts(c)  == IF c \in ruRecent THEN ruEvents[c] ELSE -1
ReadEvents ==
  /\ ruRebuild = NoCounts /\ ruRecent # {}
  /\ ruRebuild' = [c \in RuChunks |-> EventCounts(c)]
  /\ UNCHANGED <<useRows, ruCache, ruUnit, ruAsk, History>>

\* ... and writes the counts it has read, of the chunks it has seen visible.
WriteCounts ==
  /\ ruRebuild # NoCounts /\ ruRebuild' = NoCounts
  /\ \E seen \in SUBSET {c \in RuChunks : ruRebuild[c] >= 0} :
       /\ ruHits' = [c \in RuChunks |-> IF c \in seen \cap ruLive THEN ruRebuild[c] ELSE ruHits[c]]
       /\ ruRaced' = {c \in ruRaced : ~(c \in seen /\ ruRebuild[c] = ruEvents[c])}
  /\ UNCHANGED <<ruLive, ruIndex, ruEvents, ruGaps, ruRecent, ruCache, ruUnit, ruAsk,
                 ruUsed, ruEmpty>>

PassWindow ==
  /\ ruRecent # {} /\ ruRecent' = {}
  /\ UNCHANGED <<ruLive, ruIndex, ruHits, ruEvents, ruGaps, ruRebuild, ruCache, ruUnit,
                 ruAsk, History>>

DropAnswers ==
  /\ ruCache # {} /\ ruCache' = {}
  /\ UNCHANGED <<useRows, ruRebuild, ruUnit, ruAsk, History>>

UseNext ==
  \/ \E a \in RuAsks :
       \/ AskTool(a) \/ AskQa(a) \/ Deliver(a) \/ FailAsk(a) \/ StreamAnswer(a)
       \/ \E b, d \in BOOLEAN : AskAgentic(a, b, d)
       \/ \E b \in BOOLEAN, f \in {"unset", "on", "off"} : AskTest(a, b, f)
  \/ \E u \in Searches : \/ LookUp(u) \/ SearchIndex(u) \/ FailSearch(u) \/ RecordHits(u)
                      \/ RecordGap(u) \/ LoseCount(u) \/ Finish(u)
  \/ \E c \in RuChunks, b \in BOOLEAN : LoseChunk(c, b)
  \/ ReadEvents \/ WriteCounts \/ PassWindow \/ DropAnswers
UseSpec == UseInit /\ [][UseNext]_useVars

-----------------------------------------------------------------------------
\* hit_count never runs ahead of the events, and is behind them only for a chunk that was
\* hit while a rebuild held its counts, until the next rebuild of that chunk.
RollupFollowsEvents ==
  \A c \in RuChunks : ruHits[c] <= ruEvents[c] /\ (c \notin ruRaced => ruHits[c] = ruEvents[c])

\* A test leaves no trace in what real use is judged by, and no search counts twice.
OnlyRealUseCounts ==
  ruGaps <= ruEmpty /\ \A c \in RuChunks : ruEvents[c] <= ruUsed[c]

\* An answer, fresh or of the cache, was made for the query, with the embedding model and
\* with the reranker it was asked for.
AnswersOfTheirKey ==
  \A u \in Searches : UnitAt(u, "done") => ruUnit[u].answer.made = {ruUnit[u].key}

\* The counts agree with the record of real use and answers are what was asked for, while
\* asks, tests, deletions and rebuilds overlap.
RetrievalUseSound == RollupFollowsEvents /\ OnlyRealUseCounts /\ AnswersOfTheirKey
=============================================================================
