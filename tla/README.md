# Ops-Knowledge: TLA+ specifications and proofs

Ops-Knowledge is a knowledge-base and agent platform: a FastAPI application, Celery
workers with a beat scheduler, Postgres, Redis (broker, locks, publish/subscribe),
Milvus (vectors), MinIO (files) and a code runner, with a React client. This directory
holds TLA+ models of the parts whose correctness depends on the order of steps of several
actors, the TLC configurations that check them, and TLAPS proofs of their main
invariants. Paths below are relative to `src/`; line numbers are those of the modelled
commit. `PROJECT.json` lists, for every definition that models code, the lines it stands for.

## 1. Inventory

| Component | State | Operations | Interacts with | What is hard |
|---|---|---|---|---|
| Ingestion (`app/knowledge/document_router.py`, `ingestion/tasks.py`) | `documents`, `chunks`, counters of `knowledge_bases`, Redis key `doc_processing:<id>` | upload, reprocess, delete requests; task `process_document` | broker, MinIO, Milvus, embedding | a run commits three transactions and writes Milvus between them; retries, redelivery, an expiring lock; requests that dispatch before they commit |
| Embedding (`embedding/tasks.py`) | `chunks.vector_id`, Milvus collections | `embed_unit_chunks`, `vector_backlog_compensation`, `reindex_kb` | ingestion, entries, RAPTOR | rows read before, vectors written after; partial batches |
| Repair (`system/tasks.py`, `system/celery_failures.py`, `main.py`) | `task_failures`, `documents.status`, `chunks.vector_id` | `consistency_scan`, replay of failures, start-up recovery | everything above | repairs race with what they repair |
| Workflow executions (`app/workflow/`) | `workflow_executions`, `node_executions`, LangGraph checkpoints, `_live_tasks` per process | run, webhook, resume, cancel, purge | Redis channel, LangGraph, event bus | row locks of a transaction as long as the run, two requests for one execution, a checkpoint written over another connection |
| Workflow events (`workflow/events.py`, `ws_router.py`) | a queue per subscriber, a history, a registry of live buses | publish, subscribe, stream, close | drivers, WebSocket | bounded queue, dropped sentinel, registry entry popped late |
| Workflow engine (`workflow/dsl.py`, `langgraph/`, `nodes/`) | the outputs and branches of a pass | check the DSL, compile, run supersteps | executions, LangGraph | joins of unequal branches, failures, waits |
| Workflow versions and triggers | drafts, `workflow_versions`, templates, webhooks | publish, revert, roll back, run, accept a webhook or a governance event | executions | two routes that loaded the same row |
| Review (`knowledge/review/`) | `documents.review_status`, `chunks.review_excluded` | submit, approve, reject, revert, request again | ingestion, retrieval | a derived flag on many rows that follows a status on one |
| Life cycle (`knowledge/lifecycle/`) | `documents.is_stale`, `is_archived`, `updated_at` | daily sweep | ingestion, retrieval | the sweep moves the clock it reads |
| Entries (`knowledge/sources/`, `entry_router.py`) | `entries`, their chunk, their vector | create, import, update, archive, delete | embedding, tagging | commit first, purge Milvus afterwards |
| Chunk editing (`chunk_service.py`, `chunk_router.py`) | `chunks.content`, `vector_id` | edit, split, merge, delete | embedding | an edit during an embedding |
| Chunking, enrichment | none; inserts rows | split, enrich | ingestion | text lost or moved at a boundary |
| RAPTOR (`chunking/raptor_task.py`) | rows of higher levels | cluster, summarise, embed | embedding | dispatched by every embedding, also while the document changes |
| Retrieval (`retrieval/`) | cached answers, hits, usage events, gaps, a rollup | search, fuse, rerank, plan, count | Milvus, Postgres, Redis | filters by state other parts change; a cache key; a rebuild beside live counts |
| Knowledge-base life (`service.py`, `cascade_tasks.py`) | `knowledge_bases`, collections | create, soft delete, cascade delete | consistency scan, `reindex_kb` | collections created, renamed and swept under names nobody locks |
| Tagging | `tags`, `chunk_tags`, canonical cache | extract, confirm, reject, merge | entries, ingestion | re-extraction against decisions |
| Coverage scans | pairs, topics, pairs across bases | three daily scans | Milvus, chunks | chunks go between reading and writing; overlapping scans |
| Evaluation | `message_evaluations`, golden runs | judge a message, run a dataset | chat, models | two evaluations of one message |
| Base health | scores, alerts | count, score, publish | chunks, units, triggers | counts of different moments; a failing statement |
| Folders, exports, units | rows | CRUD, read-only export | - | nothing in order |
| Milvus client, vector governance | collections | upsert, delete, orphan scan | embedding, repair | a scan that lists one store before the other |
| Agents, tools | agents, versions | CRUD, tool calls | models, retrieval, MCP | external |
| Orchestrator | rules, cache, audit | evaluate, dispatch, rebalance | agents | cache against rule changes |
| Chat (`app/chat/`) | conversations, messages, feedback | open a turn, stream, store, vote | agents, models, workflow events | a turn can end at every await |
| MCP servers (`app/mcp/`) | the registry, health, discovered tools | edit, test, discover, sweep, call | agents, notifications | a sweep that holds what it read for minutes |
| Model providers (`app/model/`) | providers, registry, cached vectors, cost rows | administer, resolve, call | chat, retrieval, agents | removed while calls are under way |
| Integration event bus | handlers | publish | workflow triggers, knowledge | no state between events |
| Runtime configuration | one row, a cache per process | read, update, invalidate | everything | a read that overlaps an update |
| Accounts (`app/system/`, `app/auth/`) | users, roles | initialise, register, update, delete | settings | the first initialisation, the last administrator |
| Departments (`app/department/`) | the tree, members, shares | create, move, delete, share | every access check | a move may make the tree a cycle |
| Tokens, notifications, cost reports | rows | CRUD | - | single statements |
| Platform, code runner, client, migrations | - | wiring | - | out of scope |

What makes the parts modelled here correct:

* **Ingestion, embedding, repair**: at most one run per document; a completed document has
  exactly the rows of its latest run; counters follow the tables; a document leaves
  `processing`; the rows of a completed document become searchable; nothing waits in
  `pending` unnoticed; Milvus ends with the latest rows only.
* **Workflow executions**: one driver at a time runs the graph of an execution; node rows are
  those of the pass whose output the row shows; the row never claims what the checkpoint has
  not reached; drivers and cancel requests end; a cancel reaches the run; only what waits is
  resumed; only what has ended is purged.
* **Review, life cycle, entries, tags**: what nobody approved is not retrieved; a document is
  archived only after its owner was warned; an entry is found by its current text and, in the
  end, always found; the dictionary rules the tags.
* **Chunks, collections, retrieval**: a marked row is found by its text; what went out of
  retrieval stays out; sweeps never take a collection or a vector in use; ranking follows both
  routes; counts agree with real use; an answer belongs to its cache key.
* **Derived data**: the rows of a message are one evaluation's; pairs and topics are of stored
  chunks; scores are percentages; chunking loses no text; the summary levels are a forest.
* **Chat, events, orchestrator, models, MCP**: what a client was shown is what is stored; state
  changes reach every subscriber once and in order; a route can be read from the record; an
  answer is of the model asked for; a notification is sent once per failure of a server.
* **Settings, accounts, departments**: a setting is never older than its TTL; one
  administrator is left; access follows the tree.

## 2. Plan

Every module of this list exists. A later module of a group uses nothing of an earlier one
unless it says so; a group is composed by its MC module.

1. `DocumentContent`, the abstract promise, and `DocumentPipeline`, which implements it
   (`MCDocumentPipeline`).
2. `WorkflowExecution` (`MCWorkflowExecution`).
3. The components of a knowledge base (`MCKnowledge`): `DocumentReview`, `DocumentLifecycle`,
   `EntryIndex`, `Tagging`, `CollectionLife`, `ChunkRetrieval`, `RetrievalRanking`,
   `RetrievalUse`, `Evaluation`, `CoverageScans`, `BaseHealth`, `Chunking`, `SummaryTree`.
4. The components around the knowledge bases (`MCPlatform`): `Chat`, `RuntimeConfig`,
   `Accounts`, `Departments`, `WorkflowEvents`, `Orchestrator`, `ModelRouting`,
   `WorkflowGraph`, `WorkflowVersions`, `McpServers`.
5. Proof modules: `DocumentPipelineProofs` and `WorkflowExecutionProofs` for the first two
   groups; `KnowledgeBaseProofs` (entries, review, tags, life cycle, collections, coverage scans,
   summary levels) and `RetrievalProofs` (chunks, ranking, use, evaluation, health) for the third;
   `AdministrationProofs` (configuration, models, accounts, departments, MCP servers),
   `ConversationProofs` (chat, votes, orchestrator) and `PublishedWorkflowProofs` (versions,
   graphs, events) for the fourth, and `PlatformProofs` for their composition.

Worth doing next, in this order: the limit of 200 rows of the backlog sweep; the crash of a
process between the creation and the end of an execution together with the registry of live
buses (an execution left pending, `workflow/router.py:191`, and a bus popped under a resumed
run, `router.py:225`, are described by `WorkflowExecution` and `WorkflowEvents`, but no
property states them); a theorem for `ChunkingSound`, which needs the folds of `Chunking` to be
stated as `RetrievalRanking` states its sorts: by what their result is, not by how it is computed
(section 8).

## 3. DocumentPipeline and DocumentContent

### State

| Variable | Code |
|---|---|
| `status` | `documents.status`; `none` before the upload commits, `deleted` after the row is gone |
| `rows`, `serial` | chunk rows; the rows one run inserts in one transaction are one batch `<<document, number>>` |
| `embedded` | rows with a `vector_id` |
| `vectors` | batches in the Milvus collection |
| `files` | objects in MinIO |
| `chunkCount`, `docCount` | the counters of `knowledge_bases`, in batches and documents |
| `processQ`, `embedQ` | messages on the two Celery queues, per document |
| `failures` | unresolved rows of `task_failures` |
| `locked` | Redis keys `doc_processing:<id>` |
| `run`, `emb`, `req` | what each document worker, embedding worker and HTTP request does: a step, its document and what it has read |
| `lost` | what the running consistency scan read from MinIO |

### Steps

A request is one Postgres transaction that `get_db` commits after the handler has returned, so
`UploadBegin` (file, message) and `UploadCommit` (row) are separate steps: a worker may take
the message in between. A delete has five steps; its row locks are the set `Deleting`, for
which the DELETE and UPDATE statements of others wait. A failed purge or commit rolls Postgres back and nothing
else (`DeletePurge`, `DeleteRollback`).

`process_document` is cut at its commits and at its calls to other stores: `StartRun`
(or `SkipRun`), `MarkProcessing`, `CountOldChunks`, `DeleteOldChunks`, `PurgeOldVectors`,
`ParseDocument`, `SaveChunks`, `DispatchEmbedding`, `ReleaseLock`, with `RecordFailure` for the
exception handler and `AbortRun` for exceptions outside of it. `embed_unit_chunks` is
`StartEmbed`, `UpsertVectors`, `RecordVectorIds`. `consistency_scan` has the probe of MinIO as
a step of its own (`ProbeFiles`), because what it reads is written at the end.

Faults, each counted by `faults`: broker, Milvus, MinIO or commit failing; a worker dying
(`acks_late` and `reject_on_worker_lost` put the message back). With `LockReliable = FALSE`
also Redis failing during `_acquire_lock`, which then answers True (`StartUnlocked`), and a run
outliving the TTL of its key (`OverrunTTL`: the soft time limit equals the TTL, and two
handlers swallow its exception).

### Abstraction

Text, chunk contents, embeddings and progress values are left out. Batches of one run are not
split except where a failing upsert leaves some of them. Several files of one upload request
are several requests. `ExpireLock` is possible only when no run is live, unless `OverrunTTL`
took place. The one-hour and five-minute ages of the sweeps are nondeterminism: a sweep takes
any subset of what qualifies.

### DocumentContent

What a reader of one document can rely on: content is withdrawn only while the document is
processed or removed and published by the step that completes it. `ImplementsContent` maps
`content` to the batches of the document. The abstract module has one hole that the code
forces: a document removed while a run is about to publish keeps stranded rows.

## 4. WorkflowExecution

| Variable | Code |
|---|---|
| `status`, `finished`, `output`, `nodes` | committed columns of `workflow_executions` and the passes whose `node_executions` rows exist |
| `thread` | the LangGraph checkpoint of the execution's thread: none, stopped at an interrupt, at the end, or written over by a restart |
| `holder` | who holds the lock of the row: a driver (uncommitted `status = running`) or a cancel request (uncommitted `status = cancelled`) |
| `drv` | each driver: its step, execution, process, what started it, number of its pass, whether `task.cancel()` was called on it, the result it will commit |
| `can` | each cancel request: its step, execution, process; `hit` remembers the driver that was in its graph when the request came, for the property only |
| `msgs` | cancel messages on their way to each process |

`run_workflow` and `trigger_webhook` commit the row and create a driver
(`CreateExecution`); `resume_execution` checks the status and creates one
(`ResumeExecution`). A driver loads the row (`LoadExecution`), flushes `status = running`,
which takes the row lock (`MarkRunning`), runs the graph (`RunGraph`) and writes status,
output, `finished_at` and node rows in the commit that ends its transaction (`CommitRun`). As
`running` is never committed, the committed `status` of the model has no such value; a
cancel request of a running execution sees `pending` or `waiting`. A failed or cancelled driver rolls back
(`AbortDriver`). `cancel_execution` calls `task.cancel()` on the task of its own process, then
updates the row if it is pending, which waits for its lock, then publishes, then commits. Only drivers
of `run_workflow` are registered in `_live_tasks` (`LiveTasks`): webhook runs and
resumes are out of reach of every cancel. A crash of a process ends its coroutines
(`CrashProcess`); nothing at start-up looks for their executions, so one may stay pending for
good, and the model says so.

A resume without a value (`ResumeRequest.value` defaults to null) passes the initial state
instead of a `Command` to LangGraph (`execution_service.py:224-235`), which starts the graph
anew on the same thread: the kind `restart`, after which the model makes no claim about the
checkpoint (`restarted`).

Abstraction: the nodes inside a graph and the checkpoints between them; one thread per
execution (chat runs share a thread per conversation); the notifications of
`publish_event`. `PurgeExecution` has no age: every row with `finished_at` may have
become old. The statement is modelled as written; the task names the driver psycopg2, which
the requirements do not list (`core/runtime_config.py:52`), so it takes effect where that
driver is installed.

## 5. The components of a knowledge base

`MCKnowledge` extends the modules of this section. They share no variable; the variable
`part` names the component a behaviour is of, the others rest in an initial state. One run
can so check independent components, and each keeps a specification of its own for the
proofs and for a run of its own. Stores that two modules mention (a chunk row in
`ChunkRetrieval` and in `SummaryTree`, for instance) are not composed: each module takes what the
other does to the row as an action of its own.

| Module | State | Actions and code |
|---|---|---|
| `DocumentReview` | review status, reviewer and the flag of the rows; what each call has read | `OpenDecision`, `OpenRevert`, `OpenRun` read; `CommitApprove`, `CommitReject`, `CommitRevert`, `CommitRun` write in one transaction at the end. SQLAlchemy writes a column only if its value differs from what was read (`Written`), so an overlapping call may write the flags without the status |
| `DocumentLifecycle` | a clock in days, `updated_at`, `stale_since`, archived units, the plan of the running sweep | the sweep reads, plans and commits once; edits, archiving and restoring fall in between; every UPDATE moves `updated_at`, the sweep's own included |
| `EntryIndex` | text, status, rows, marks and vectors of an entry, requests, embedding tasks | `CommitEdit`/`CommitDelete`, `PurgeVectors`, `DispatchEmbed`: three steps in two stores; `TakeEntry`, `UpsertEntry`, `MarkEntry`; failures; backlog sweep and scan |
| `Tagging` | the dictionary, its cached map, waiting backfills, the tags of an entry, of its rows and of a running extraction | every write deletes the cached map before it commits (`OpenWrite`, `CommitWrite`); readers fill it in between; rename and merge send a backfill; extraction reads the rejected tags early and writes late |
| `CollectionLife` | the status of a base, rows, marks, the collections `kb_<id>` and `kb_<id>_new`, and what embedding, reindex, scan, cleaning and cascade have read | one action per call to Milvus or commit of these tasks; none excludes another |
| `ChunkRetrieval` | texts, marks and visibility of chunks, the text Milvus has, one cached answer, retrievals | edits and deletions, `EmbedTake`/`EmbedUpsert`/`EmbedMark`, `Search`, `FilterInvisible`, `StoreAnswer` |
| `RetrievalRanking` | an input and its result | fusion, merge of bases, their weights, deduplication, diversity, plan of sub-queries, rewrite, recommended weights as functions; a step takes one input. A result is a sequence of distinct chunks beside their scores; a sort is the sequence (`Listed`) along a strict order, ties broken by the place before |
| `RetrievalUse` | cache with its key, hits, events, gaps, rollup, asks of four callers | `AskTool`, `AskAgentic`, `AskTest`, `AskQa` open retrievals; hits, gaps and events follow; `ReadEvents`/`WriteCounts` rebuild the rollup beside them |
| `Evaluation` | messages, evaluations under way, their rows, golden runs | read, ask the judges, delete and insert; the five judges are functions of what their model may answer |
| `CoverageScans` | chunks, pairs, topics, pairs across bases, scans under way | each of the three scans reads, deletes the older rows and inserts; scans are numbered, a row carries the number of its scan, and scans overlap |
| `BaseHealth` | hits and quality of chunks, units, computations under way, scores, alerts | one step per statement, any of which may fail and leaves the transaction broken |
| `Chunking` | a text of at most four tokens or three blocks and its chunks, calls of the enrichment | every strategy and preset, the insert order, the bounded parallel calls |
| `SummaryTree` | rows by level, vectors, messages, builds | a build reads, clusters (a labelling of its nodes), summarises, embeds and inserts level by level while the document is edited, processed again or deleted |

Abstractions. Texts, vectors and judgements are numbers or choices; similarity, clustering
(any labelling of the nodes) and what a model answers are nondeterminism;
scores are integers in per cent, reciprocal ranks are multiplied by a common scale. In
`CollectionLife` a row comes and goes in one step, as how rows and vectors of one document
interleave is the matter of `DocumentPipeline`. Heading detection and delimiters of the
chunking strategies are given with the input.

What the models record beside the state, for the properties only, is marked "history" in
the modules. It names the overlaps that the code does not handle and for which a property makes
no claim: a document whose decisions overlapped (`rvOverlap`) or that was processed again
(`rvRerun`), an entry with an upsert or second request across an edit (`enUnclean`), a chunk
edited while an embedding held its text (`crRaced`), a cache filled while a write was not
committed (`tgRaced`), a base whose reindex gave up without a
collection, met a second one, or lost its collection to a scan (`coTorn`), a chunk hit during a
rebuild (`ruRaced`).

Observations met while modelling, stated by no property:

* `chat/pipeline.py:216` and `agent/router.py:75` import `KnowledgeBaseService`, a name
  that `app.knowledge.service` does not define. A chat of an agent with knowledge bases
  fails before it retrieves, and `retrieve_agentic` is not reached from it;
  `RetrievalUse` models it all the same.
* `workflow_to_knowledge.retrieve` requires the older field `embedding_provider_id` and compares
  its threshold with the fused score.
* The rebuild of the rollup cancels positive votes first, where its comment speaks of halves; an
  answer of the cache leaves no hit or event.
* The key of a cached answer omits the tag filter, the threshold, the weights, the history of
  the rewrite and the test flag; `AnswersOfTheirKey` claims only what the key holds.
* Every embedding of a document, of an edit and of the sweep too, asks for another RAPTOR build;
  older summaries are never removed; `_embed_summary_chunks` marks rows even if nothing
  was stored; chunks of the Markdown strategy have levels 1 to 3 and are not taken as seeds.
* Text before the first of two or more QA questions is dropped, and so is a heading longer than
  the chunk size without a body; `TextKept` says so.
* Split and merge of chunks read `Chunk.document_id`, a column that no longer exists.

## 6. The components around the knowledge bases

`MCPlatform` is built like `MCKnowledge`; the variable is `section`.

| Module | State | Actions and code |
|---|---|---|
| `Chat` | a conversation, its turns of three pipelines, stored answers, votes and their events | load, store the question, stream, store the answer, with refusals, failures, readers that leave at any await; `SetFeedback` and the rebuild of the votes |
| `RuntimeConfig` | a clock, the numbered contents of the row, a cache, a read and a subscriber per process, updates | `ReadForUpdate`, `FlushUpdate` (own cache, message), `CommitUpdate`; a read fetches the row in one step and stores it in a later one |
| `Accounts` | roles, initialisations, deletions | count, then write: the count of users of two initialisations, the count of administrators of two deletions |
| `Departments` | the tree, members, shares, a deletion that has seen no child | the routes; `Access` is the walk that the code does, with its set of visited departments |
| `WorkflowEvents` | buses with their histories, queues of subscribers, the table of live buses and its timers | publish, put a critical event to one queue after the other, subscribe with replay, close, pop |
| `Orchestrator` | rules, versions, edits under way, the cached list, one route | load, flush (which evicts the cache), commit; select, store and try rules with their fallbacks, rebalance |
| `ModelRouting` | providers, registry, the binding of an agent, cached vectors, calls, cost rows | administration during calls; a cost row is part of its caller's transaction |
| `WorkflowGraph` | a graph, the tasks and writes of a superstep, outputs, branches | `ReturnNode`, `ApplyStep`, `PauseStep`, `ResumePass`: the DSL checks, the compiler's edges and what each type of node may return |
| `WorkflowVersions` | workflows, versions, routes under way, executions, templates, webhooks | load, then write at the commit the columns that differ; run, webhook and governance alert pin a version |
| `McpServers` | registry rows, checks of administrators, the sweep, a call | read the row, talk to the server with retries, write what differs |

Observations: `WorkflowAdapter` of the orchestrator calls `run_stream`, which `ExecutionService`
does not have, so every handler fails and its fallback is taken (the model does that);
the record of an MCP call is flushed in a session nobody commits (`mcp/audit.py`), so no call is ever
audited; `update_department` accepts a descendant as parent, and `AccessFollowsTree` holds
in the cycle because the walk keeps the departments it has visited; a demotion or
deactivation by an update does not count the administrators that are left (`acExposed`).

## 7. Runs

Runs of the pipeline and of executions use model values. `pipeline_safety` and `pipeline_documents` use
symmetry of workers and of requests, `workflow_resume` of drivers and of processes: no definition
tells these apart, and none of the three checks liveness. Every run says `CHECK_DEADLOCK FALSE`, because
a system without work, or with its bounded work done, stops.

| Run | Bounds | Result |
|---|---|---|
| `pipeline_safety` | 1 document, 2 workers, 1 embedding worker, 2 requests, 4 operations, 2 faults | 2.4 million states; `TypeOK`, `OneRunPerDocument`, `CompletedHasLatestRows` hold |
| `pipeline_documents` | 2 documents, 2 workers, 1 embedding worker, 2 requests, 3 operations, 1 fault | 2.5 million states; `CountersTrackTables` and `ImplementsContent` hold |
| `pipeline_liveness` | 1 document, 2 workers, 1 request, unreliable lock, 3 operations, 1 fault | 0.2 million states; `ProcessingSettles`, `CompletedBecomesSearchable` hold |
| `pipeline_pending` | 1 document, no fault | `PendingIsTracked` is violated |
| `pipeline_index` | 1 document, no fault | `IndexServesLatestRows` is violated |
| `workflow_execution` | 1 execution, 2 processes, 2 drivers, 1 cancel request, 4 requests, 2 faults | 0.2 million states; four invariants and `RequestsEnd` (`DriversEnd` and `CancelsAnswered`) hold |
| `workflow_cancel` | the same, 3 requests, no fault | `CancelReachesRun` is violated |
| `workflow_resume` | no cancel request, no fault | `ResumesOnlyWaiting` is violated |
| `workflow_purge` | 3 requests, no fault | `PurgesOnlyTerminal` is violated |
| `knowledge` | the parts of the next table | 0.5 million states; 12 invariants, `ArchivedAfterWarning`, `CleanupSpares`, `EntriesIndexed`, `RowsSearchable` hold |
| `lifecycle_archive` | 1 document, 1 entry, 7 days, 1 edit | `ClearedByEngagement` is violated |
| `platform` | the sections of the table after it | 0.6 million states; 12 invariants hold |

| Part of `knowledge` | Bounds (states) | Property: what it says |
|---|---|---|
| review | 1 document, 3 users, 2 calls at a time, 5 calls (15,000) | `UnapprovedHidden`: rows nobody approved are hidden. `FlagsFollowStatus`: the flags are those of the decision that stands |
| lifecycle | 1 document, 1 entry, 5 days, 1 edit (8,000) | `ArchivedAfterWarning`: archived only more than the idle days after a warning |
| entries | 1 entry, 2 requests at a time, 3 requests, 1 worker, 3 texts, 2 faults (29,000) | `VectorsFollowText`: rows and, once requests have ended, vectors are of the current text. `EntriesIndexed`: in the end every row is embedded |
| tagging | 3 names, 2 dictionary rows, 3 operations (46,000) | `DictionaryRules`: the cached map and the settled tags are the dictionary's |
| collection | 2 chunks, 1 reindex with 1 retry, 1 fault (104,000) | `CleanupSpares`: scan and cleaning take nothing in use. `RowsSearchable`: in the end every row has a vector |
| chunks | 1 chunk, 2 texts, 2 retrievals, 1 embedding, 4 operations (27,000) | `ChunksSound`: a marked row is found by its text; what has gone out of retrieval stays out |
| ranking | 3 chunks in 2 bases, 3 weightings, 3 health scores, `top_k` 1 to 3 (21,500) | `RetrievalSound`: no chunk is ranked behind one that beats it; a fused answer has no redundant pair, and what it leaves out it represents |
| use | 1 chunk, 2 asks, one real or a quick question, one test (74,000) | `RetrievalUseSound`: counts agree with real use, answers are of their key |
| evaluation | 1 message, 2 metrics, 2 evaluations, 1 golden run of 2 questions, 3 operations (17,000) | `EvaluationsSound`: the rows of a message are one evaluation's, a golden run counts what it ran |
| coverage, health | 4 chunks in 2 bases, 2 scans, 3 operations; 3 chunks, 1 unit, 1 computation, 2 operations, 1 fault (42,000; 9,000) | `ScansSound`: pairs are of stored chunks, the topics of a base are of one scan. `BaseHealthSound`: scores are percentages, every base is reported once |
| chunking | texts of 4 tokens or 3 blocks, sizes 1 to 3, overlap 0 or 1 (12,000) | `ChunkingSound`: no text is lost, order is kept, parents come first, calls are bounded |
| raptor | 6 chunks, 2 builds, 2 levels, 1 operation (98,700) | `HierarchySound`: summaries are a forest, upper levels come and go whole |

| Section of `platform` | Bounds | Property: what it says |
|---|---|---|
| chat | 2 turns, 2 voters, 2 votes | `TurnsSound`: what was shown is what is stored, the counter counts messages. `VotesNet`: counted votes are those that stand |
| settings | 2 processes, 1 update, TTL 1, time 2 | `ServedWithinTTL`: no setting is served that was replaced a TTL ago |
| accounts | 3 users, 2 initialisations, 2 deletions, 3 operations | `AdminKept`: one initialisation, one administrator left |
| departments | 3 departments, 1 member, 3 operations | `AccessFollowsTree`: access is that of the departments below, in a cycle too |
| events | 2 subscribers, queue of 3, 2 runs, 2 outputs | `CriticalOnce`: every event at most once and in order, no state change kept back but from a full queue |
| orchestrator | 2 rules, 2 edits at a time, 2 operations | `RouteIsRecorded`: every rule a route went by is in the versions |
| models | 2 providers, 2 models, 1 entry, 2 calls, 2 operations | `AnswersOfTheirModel`: an answer is of the model asked for, a cost row of a provider that exists |
| graphs | eight graphs (a join, branches, classes, a cycle, a handle with two edges, blocks, governance nodes, an unknown type) | `PassSound`: a pass runs the graph as drawn and ends |
| versions | 2 workflows, 2 routes, 1 execution, 2 kept versions, 4 operations | `VersionsSound`: published versions are recorded, no caller runs a draft |
| servers | 1 server, 1 check, 2 attempts, 4 operations | `McpSound`: told once per failure, the health is the last result, tools are discovered and allowed |

`PlatformTypesOK` and `TypesOK` are the type invariants of the component a behaviour is of; that of
`WorkflowExecution` is proved (`ExecutionTypeCorrect`), and no run repeats it.

**Why the bounds are enough.** Pipeline: four operations allow upload, reprocess and two of {reprocess,
delete, replay, recovery} to overlap; two faults allow a failure during the recovery from
another one; two workers and two requests are what a race needs. Documents interact only through
the counters and through sweeps, so two documents are enough for what relates documents.
Executions share nothing at all: one execution, two drivers (the second resume) and two
processes (a run and a cancel elsewhere) show every interaction; four requests allow run,
resume, resume again and cancel.

The parts of a knowledge base relate one unit to the actors on it: one unit, two actors that
overlap and an operation or fault for each of them and for the sweep that repairs. Two chunks are
needed where a task lists rows before it acts (collection), three or four where chunks are
compared (ranking, coverage). In RAPTOR the code's thresholds (a level of four
nodes, k as the root of n/2) are scaled so that six chunks give two levels: `StLevelMin`,
`StSingle`, `StDensity` are 3; and `StNarrow` takes of choices that differ by a renaming one only:
clusters are intervals of a level from the largest to the smallest, one chunk is edited, and only the
first build may fail or lose a cluster. The theorem is about either value of `StNarrow`.
In the ranking `RkScale` is a common multiple of what the code divides by, so that reciprocal ranks
are integers, and the rates in `RkRates` stand at the thresholds of the recommendation; three
chunks in two bases are the least at which a chunk may be redundant with one that is itself left out.
`RetrievalUse` is checked with one chunk, two asks and sub-queries that are not reranked,
the least at which a hit, a test, a deletion and a rebuild overlap. The queue of an event
subscriber holds three events instead of the code's number: it fills within one run.

**Fairness.** Workers, requests, drivers and cancel requests that can take their next step take
it (weak fairness): they are threads and coroutines that only wait for row locks and for
calls with time limits. Taking a message has strong fairness in the pipeline, since a broker serves a
queue in order and another worker may take a different message first. Keys expire, and the beat
sweeps run (weak fairness): a document stuck, or rows without a vector id, stay so until
the sweep. No fairness is assumed of users, faults, the replay of failures and start-up.
`EntryFairness` and `CollectionFairness` say the same of entries (requests, embedding steps, backlog
sweep, scan) and of the collection (embedding, reindex tasks, the scan's check of vectors); the dropping
half of the scan, cleaning and cascade may never run. Faults are bounded in the runs, as
everywhere liveness is claimed: a service that always fails repairs nothing.
For `workflow_cancel` a graph may take as long as it likes (no fairness of `RunGraph`) while
everything else is fair and messages arrive: the property asks what a cancel achieves for a
run that does not end by itself.

### Disagreements between the code and what it says

* `pipeline_pending`: `safe_delay` (`app/core/tasks.py:11-13`) declares documents that stay
  pending a thing of the past; the message of an upload can be consumed before the row is
  committed, and then nobody knows of the document.
* `pipeline_index`: the purge of old vectors counts on upserts keyed by the chunk id
  (`ingestion/tasks.py:248-251`), but each run draws fresh ids; a concurrent embed task
  leaves vectors of deleted rows.
* `workflow_cancel`: the cancel fan-out (`workflow/cancel_bus.py:3-6`) is sent after an UPDATE
  that waits for the row lock of the very run it should stop.
* `workflow_resume`: "Precondition: execution.status == waiting" is checked without a lock
  twice and the second of two resumes passes both checks.
* `workflow_purge`: "Only purge terminal rows" deletes by `finished_at`, which a waiting
  execution has too.
* `lifecycle_archive`: the mark of a stale document is cleared because its "owner
  re-engaged" (`lifecycle/tasks.py:12`), but marking is itself an update of the row, so the next sweep takes the
  document for a fresh one.

## 8. Proofs

A theorem holds for runs of any length, for every bound, and for any number of documents, workers,
requests, executions, processes, drivers, entries, chunks, users, tags, models, calls, servers,
workflows and clients. What is counted or put in order has to be finite: the accounts, the chunks
that are ranked, the turns of a conversation, the departments, the tag names, the rules of the orchestrator, the asks of
`RetrievalUse`, the messages of `Evaluation`, the chunks of `CoverageScans` and `BaseHealth`, the units of
`BaseHealth` and the nodes of a graph. Nothing else is assumed but the named assumptions of the
modules: bounds are natural numbers, "no such thing" values differ from real ones, drivers are
not cancel requests, some sets are not empty, a graph has a list of edges between its nodes, the mark of a
governance node is true or false, bases and chunks that are ordered are numbers, and the scale of
ranking scores is divided by what the code divides by. `LockReliable = TRUE` is a hypothesis of the theorems that name it.

An invariant is seldom inductive as a run states it. Each theorem below has an inductive
invariant of its own, the conjunction of the checked property with what the steps need; TLC checked it on
the instances of section 7 before it was proved.

`DocumentPipelineProofs`:

* `TypeCorrect`: the types, strengthened by: an actor that is not idle has a document.
* `MutualExclusion` (`LockReliable`): `LockInv`, a worker holds the key of its document: a start
  needs the key absent, expiry needs no live run, and the key a worker deletes at its end is
  then its own.
* `CompletedContent` (`LockReliable`): what a run in the middle has done. `RunInv` (from the purge
  on the document has no rows; its status is processing, error or deleted while it runs),
  `LatestOnly` (no row is of an earlier batch), `RequestInv` (an upload is invisible and unique, a
  delete removes rows of its document only) and `LockInv`, as a second run could insert rows in
  between. Their conjunction `IInv` is inductive.
* `CountersFollow` (`LockReliable`): `CounterInv`. A run subtracts what it counted before it deletes, a
  delete removes rows and subtracts nothing: chunk_count covers the documents that have rows or
  whose run will still subtract (`Owners`, `Clearing`), and counts them while nothing was deleted.
* `PipelineImplementsContent`: under `IInv` every step of the pipeline is a step of
  `DocumentContent` or leaves it alone, one case per action. `ContentIsLatest` is what
  `DocumentContent` promises by itself, and `ReadersSeeLatest` draws from the two that the pipeline keeps
  the promise.

`WorkflowExecutionProofs`:

* `ExecutionTypeCorrect`: the types, strengthened by: an actor that is not idle has an execution.
* `GraphMutualExclusion`: `HolderInv`, a driver in its graph or at its commit holds the lock
  of its row; a lock has one holder.
* `NodeRowsFollowOutput`: `FirstPassInv`, the driver of a first pass is the only driver of
  its execution and finds no node rows, because an execution cannot be waiting before the
  first pass has committed; a resume deletes what it finds.
* `RowFollowsCheckpoint`: `CheckpointInv`, what a driver is about to commit has reached the
  checkpoint, and checkpoints never go back except by a restart.

`KnowledgeBaseProofs`:

* `EntriesFollowText`: `EntryInv`. `CleanSound` says what keeps an entry out of `enUnclean`:
  one request at a time, no embedding across its edit, and the purge between the commit and
  the new rows' embedding.
* `ReviewHidesUnapproved`, `ReviewFlagsFollow`: `ReviewInv`. `LoneCallCurrent` (the only call on a
  document has seen it as it is) makes SQLAlchemy's comparison harmless; `FlagsOfDecision` is
  then kept by each commit. That unapproved rows stay hidden needs none of it: `ShownByApproval`
  is inductive with the types, whatever overlaps.
* `DictionaryRulesTags`: `TagInv`. A write that is open repairs what its change would break
  (`WriteRepairs`), the backfills that wait lead every tag from a replaced name to a row that
  stands when they are applied in their order (`BackfillsLead`), and the rows carry what the entry
  carries, or their refresh is queued (`RowsCarry`).
* `ArchivingIsWarned`: `LifecycleInv`. `WarnedFirst`: a document the running sweep plans to archive was
  warned before the day the plan was made, and a warning is never dated later than that.
* `CleanupIsSafe`: `CollectionInv`. Ids are given once (`IdsGiven`), so a row that comes after the
  cleaning has listed the vectors is not among them (`CleanKnows`); the scan knows of a collection that a
  base which is still active has it (`ScanKnows`).
* `ScansStaySound`: `CoverageInv`. A scan that is to insert topics saw, when it deleted, all the topics
  its base has or none of them, as another scan inserts its own at once or fails on the unique
  number (`ScansFit`, `TopicsStored`); topics that were seen are not those a running scan will insert, since each
  carries its number. Topics numbered along a sequence that falls in size are in order
  (`NewTopicsOrdered`); pairs name stored chunks since a removal takes the pairs with it (`PairsAreSound`).
* `HierarchyHolds`: `TreeIInv`. The rows are chunks and forests that builds have inserted whole
  (`RowsGood`); a build under way has made a forest and has nodes left to cluster, all of the level it made
  last (`BuildGood`). A cluster that is summarised has two nodes at least, so its summaries are at most half
  the nodes they replace (`TwiceAsManyKids`), and what a build has made and has still to cluster is never
  more than the chunks it read: that bounds the number of summaries, and of levels. Children are in the
  document as long as no reprocess or deletion overlapped the build, which signs its rows.

`RetrievalProofs`:

* `RetrievalHolds`: one lemma per decision, as a step takes an input and keeps it with the result. A sort
  along a strict order of finitely many chunks exists and lists each once (`ListOf`), and a cut of it keeps
  whatever comes before something it keeps (`CutList`). For one base: a chunk that beats another has at
  least its reciprocal rank on each route and its tag boost, and comes before it in the rows where scores are equal
  (`RrfFacts`, `BeatsIsAhead`). For several: who is kept by the deduplication is determined from the front
  (`FirstOnesExist`), so a chunk that was left out has one that was kept before it and scores no less
  (`DedupedList`); the greedy choices of the diversity exist, are distinct, and begin with the best, since
  nothing is similar to an empty answer (`PicksExist`, `DiverseList`).
* `GoneForGood`, `ChunksAlwaysSound`: `GoneInv` says that what has gone is not retrievable, that
  no answer holds it, and that a search that still found it will have it filtered, since its chunk is
  invisible; `MarkedInv`, for the marks, that an embedding which nothing raced with
  holds the current text of what it took. `ChunkTypeCorrect` adds to the types that an edit is opened
  below the bound of texts.
* `UseLeavesItsTrace`: `UseInv`. What a rebuild has read is at most the events there are, and behind
  them only for chunks that were hit since (`RebuildFollows`); the events of a chunk and the
  retrievals that may still count it are no more than its uses (`CountsCovered`), and these no more
  than the retrievals that searched (`UsesCovered`); a cached answer carries the key it is filed
  under (`AnswersCarryKeys`).
* `VerdictsStayWhole`: `EvaluationInv`. The rows of a message are none or one call's verdict, each metric
  once (`RowsAreVerdicts`), and so is what a call saw when it deleted; a call that is to show them finds
  some while the message is there (`CallsFit`), and a golden run in progress has counted the questions it
  read (`RunsFit`). Every metric then has as many rows of a base as there are messages judged on it
  (`SamplesAgree`); a total of numbers lies between as many times its bounds (`TotalWithin`), so each
  judge gives a percentage and a mean lies within its scores (`MeanBetweenScores`).
* `HealthStaysSound`: `HealthInv`. A computation has reported a base, counts it, or has it still to do, never
  two of these, and these are all it was asked for as long as no statement failed (`ReadFits`). The counts
  of different moments disagree, more hits than chunks included, and still every score is a percentage
  (`ScoresArePercent`, from `QuotientWithin` and `TotalWithin`), as is what the use of a chunk makes of its
  score, for any counts (`DynamicIsPercent`, `CompositeIsPercent`).

`AdministrationProofs`:

* `SettingsServedWithinTTL`: `ConfigInv`. A cache and a read are dated to a time before the row was
  read, and a content that was replaced was replaced later than that (`ReadSince`), so a fresh
  cache cannot hold what was replaced a TTL ago.
* `AnswersStayWithTheirModel`: `RoutingInv`. A cached vector is of the model it is cached
  under (`CacheOfModel`); a cost row is of a call that was counted or is done, and its provider
  cannot be deleted (`CostOfCall`, `CostHasProvider`).
* `AdministratorRemains`: `AccountInv`. A deletion that has counted the administrators
  deletes somebody other than who asked for it, and that one stays an administrator unless another
  deletion overlapped or an update demoted one (`AdminsProtected`); the fixed id of the settings row
  lets one initialisation commit (`OneInitialisation`).
* `AccessOfTheTree`: the walk `Descend` is a function of a number of generations. `DescendGrows` shows that
  each generation either adds a department or ends the walk, so that with finitely many departments
  it ends with a set closed under children, and `DescendIsBelow` that this is `Below`, whether
  or not the parents form a cycle.
* `RegistryIsSound`: `McpInv`. `WellIsTold`: the last that was told of a server whose row, or whose row as the sweep
  read it, is well was that it is well; `AloneIsFresh`: a check that was alone has read the health the
  row has; `ResultsFound`: the tools a check is about to write were discovered.

`ConversationProofs`:

* `TurnsAreStored`: `ChatInv`, per turn how far its pipeline is, what is stored and what was shown.
* `RebuildCountsVotes`: `VotesInv`, as long as nothing was mixed: a message has one request at a
  time that has seen its vote, and its events, reversals included, net to that vote. The sums over all
  turns then balance (`SumsBalance`).
* `RoutesAreRecorded`: `OrchInv`. An edit writes the next version of what it loaded or a priority alone
  (`EditsLoaded`), and one edit at a time has written a rule (`FlushesExclusive`), so a rule's settings are
  recorded with its version (`VersionsRecorded`); the lists in the cache and in the route hold recorded
  settings (`ListsRecorded`), and `RouteHandsOn` follows the fallbacks.

`PublishedWorkflowProofs`:

* `PublishedGraphsRun`: `VersionInv`. Versions are numbered without a gap, each with one row, and the
  newest `WvKeep` of them are kept (`VersionsNumbered`); what is published is the graph of the newest
  (`CutIsNewest`); a route that is open has seen this version or an older one and writes its graph or the
  next version (`RoutesSound`); a run is pinned to a version there was (`RunsSound`) and drafts stay with
  debug runs (`DraftsStayIn`). That pruning keeps the row of the current version needs `FewOverlap`, see below.
* `PassesRunTheGraph`: `PassInv`. The nodes that have run have been led to from the trigger by a path
  as long as the superstep (`PathsGrow`); as the graph is acyclic a path meets no node twice
  (`PathsAreSimple`), so it is no longer than there are nodes (`PathsAreShort`), and the pass ends.
  `SelectedFollow`: a branch that was taken leads to a task.
* `EventsOnceInOrder`: `EventInv`. A history is ordered and bounded (`HistoryOrdered`); what a subscriber got
  and has queued is in order, none of it beyond the last event of its bus, and a subscriber that is not
  late has every critical event, or all but the one that is being put (`SubscribersSound`).

`PlatformProofs`:

* `PlatformTypeCorrect`: a behaviour of the composition is one of each component (`EachComponent`), as they
  share no variable; so every theorem about a component holds of the composition, the types among them.
  The types of settings, models and passes are lemmas of their own (`ConfigTypes`, `ModelTypes`,
  `GraphTypes`): notifications of a node, for instance, are no more than the supersteps, because a node
  that pauses writes none (`NotesInSteps`).

**What the proofs changed in the models.** Attempts that failed pointed at states TLC had not reached on its
small instances, and the models were corrected to what the code does:

* `Tagging`: the history of merged rows forgot that a rename, too, brings a row's name back.
* `WorkflowVersions`: the id of a deleted workflow was given again, and version rows of the
  first one would have been those of the second; ids are UUIDs, so a deleted workflow is `GoneFlow`
  for good. And more than `WvKeep` (50) publishes committed while one is open let its late commit
  prune the row of the current version; the bound `FewOverlap` now names that limit.
* `WorkflowGraph`: a graph with a type of node that is not registered ran; `build_node_adapter`
  refuses it (`Compiles`, and the graph `Unknown` of the run). The node `builtin.echo` was missing.
* `CoverageScans`: a row was told apart by its worker, not by its scan, so the row of a second scan of
  that worker could be taken for one that another scan had seen; rows have ids, and scans are numbered now.
  Clusters of one size had a single order; `Numbered` now takes any.
* `SummaryTree`: ids of summaries were computed numbers, and those of two levels could be the same;
  an id now says its build, level and cluster.
* `RetrievalRanking`: results were fused that no caller would fuse, cut to another number than was
  fetched and then weighted; only the answer to a plan may be cut to fewer or more, and it has neither weights nor
  redundant pairs. Sorts and greedy choices that were computed by folds are now said to be what their result is.
* `RuntimeConfig`: a cached content was bounded by the number of updates there can be; it is
  now bounded by those there have been.
* `Departments`, `Tagging`: the values for no parent and for no tag have to differ from departments and
  names, which the assumptions now say.

**Recursion.** A fact about what a recursive function computes cannot be had from the library's
induction theorems here. Where a theorem needs one (`AccessOfTheTree`, `RebuildCountsVotes`,
`RouteHandsOn`, `SearchesCounted`, `TotalWithin`, `PicksExist`) it is proved by a least counterexample: the set of numbers at which the
fact fails has a least element (`LeastExists`, from `WFMin` and `NatLessThanWellFounded`), and the
recursive equation at that number contradicts it.

**Model-checked only**: all liveness (`ProcessingSettles`, `CompletedBecomesSearchable`, `RequestsEnd`,
`EntriesIndexed`, `RowsSearchable`: the prover handles neither fairness nor ENABLED); `ChunkingSound`, which is
about what recursive functions and folds make of a text (the induction over data that the prover
cannot do); `TypesOK` as a whole, since `MCKnowledge` contains
`Chunking` (the whole type invariant is proved for tagging, life cycle, collection, tree, chunk editing and use of retrieval;
of review, entries, coverage, evaluation and health the types that their invariants rest on are proved); and the violated properties. With an unreliable
lock mutual exclusion is false; what is checked then is that documents settle.

## 9. Not modelled

`PROJECT.json` gives a reason per component. In short:

* Folders, exports, units, the source registry, notifications, tokens, API keys, cost reports,
  quotas and listings: single statements and reads, which no order of steps can make wrong.
* LangGraph itself, the clients of model providers, tools, the code runner, matchers and judges:
  external; what they answer is a choice of the models.
* Prompts, citations, token budgets, k-means and scores of similarity: data that no property tells
  apart.
* The integration event bus keeps no state between events; the client and the migrations are
  out of scope.
* The limit of 200 rows of the backlog sweep: which rows a statement without an order
  returns is for Postgres to say.
* Splitting and merging chunks cannot run (see section 5).

## 10. Running

    tlc -workers 2 -config pipeline_safety.cfg MCDocumentPipeline.tla
    tlc -workers 2 -config workflow_execution.cfg MCWorkflowExecution.tla
    tlc -workers 2 -config knowledge.cfg MCKnowledge.tla
    tlc -workers 2 -config platform.cfg MCPlatform.tla
    tlc -workers 2 -config lifecycle_archive.cfg DocumentLifecycle.tla
    tlapm DocumentPipelineProofs.tla

`tlapm` takes each of the proof modules of section 2.
