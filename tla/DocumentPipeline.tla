--------------------------- MODULE DocumentPipeline ---------------------------
(***************************************************************************)
(* The path of a file document through a knowledge base: the HTTP requests *)
(* that upload, reprocess and delete it, the Celery task process_document  *)
(* that turns it into chunk rows, the task embed_unit_chunks that puts the *)
(* rows' vectors into Milvus, and the two beat tasks and the startup hook  *)
(* that repair what the others left behind.                                *)
(*                                                                         *)
(* Three stores are written in separate steps and never in one             *)
(* transaction: Postgres (status, rows, embedded, the two counters of the  *)
(* knowledge base), Milvus (vectors) and MinIO (files).  A request runs in *)
(* one Postgres transaction that get_db commits after the handler returns. *)
(*                                                                         *)
(* The chunk rows one processing run inserts are one batch <<d, n>>: the   *)
(* code inserts and deletes them together.  The chunk counters therefore   *)
(* count batches.                                                          *)
(***************************************************************************)
EXTENDS Integers, FiniteSets

CONSTANTS
  Docs,          \* file documents of one knowledge base
  NoDoc,         \* stands for "no document"
  Workers,       \* worker processes of the Celery queue "document"
  Embedders,     \* worker processes of the Celery queue "embedding"
  Requests,      \* HTTP requests the API serves concurrently
  LockReliable,  \* TRUE: Redis answers and every run ends within the lock's TTL
  MaxRequests,   \* bound: user and operator operations
  MaxFaults      \* bound: failures of the environment

ASSUME PipelineAssumption ==
  /\ NoDoc \notin Docs
  /\ LockReliable \in BOOLEAN
  /\ MaxRequests \in Nat
  /\ MaxFaults \in Nat

VARIABLES
  status,      \* documents.status; "none": not visible yet, "deleted": no row
  serial,      \* number of the last batch inserted for a document
  rows,        \* chunk rows of Postgres, by batch
  embedded,    \* rows whose vector_id is set
  vectors,     \* batches present in the Milvus collection
  files,       \* documents whose file is in MinIO
  chunkCount,  \* knowledge_bases.chunk_count
  docCount,    \* knowledge_bases.document_count
  processQ,    \* process_document messages waiting, per document
  embedQ,      \* embed_unit_chunks messages waiting, per document
  failures,    \* unresolved task_failures rows: <<task, document>>
  locked,      \* documents whose Redis key doc_processing:<id> exists
  run,         \* what each document worker does
  emb,         \* what each embedding worker does
  req,         \* what each HTTP request does
  lost,        \* documents whose file the running consistency scan did not find
  requests,    \* operations so far
  faults       \* failures so far

database   == <<status, serial, rows, embedded, chunkCount, docCount>>
queues     == <<processQ, embedQ, failures>>
actors     == <<run, emb, req, lost>>
budget     == <<requests, faults>>
vars == <<database, vectors, files, queues, locked, actors, budget>>

Batch   == Docs \X Nat
Present == {"pending", "processing", "completed", "error"}
Status  == Present \cup {"none", "deleted"}

RunSteps == {"idle", "mark", "count", "clear", "purge", "parse", "save",
             "dispatch", "fail", "release", "retry"}
IdleRun == [pc |-> "idle", doc |-> NoDoc, old |-> 0]
IdleEmb == [pc |-> "idle", doc |-> NoDoc, snap |-> {}]
IdleReq == [pc |-> "idle", doc |-> NoDoc, del |-> {}]

\* A row of the documents table that other transactions can see.
Visible(d) == status[d] \in Present

\* The rows (or vectors) of S that belong to document d.
BatchesOf(S, d) == {b \in S : b[1] = d}

\* Rows a request has deleted in a transaction it has not committed yet.
Deleting == UNION {req[r].del : r \in Requests}

Active(w) == run[w].pc # "idle"
Running(d) == \E w \in Workers : Active(w) /\ run[w].doc = d

NoFault == UNCHANGED faults
Fault == faults < MaxFaults /\ faults' = faults + 1
Operation == requests < MaxRequests /\ requests' = requests + 1

GoTo(w, pc) == run' = [run EXCEPT ![w].pc = pc]

\* safe_delay(process_document, d): it never raises; with the broker down the
\* message becomes a task_failures row, committed at once by its own session.
SafeDelayProcess(d) ==
  \/ /\ processQ' = [processQ EXCEPT ![d] = @ + 1]
     /\ NoFault
     /\ UNCHANGED failures
  \/ /\ Fault
     /\ failures' = failures \cup {<<"process", d>>}
     /\ UNCHANGED processQ

TypeOK ==
  /\ status \in [Docs -> Status]
  /\ serial \in [Docs -> Nat]
  /\ rows \subseteq Batch /\ IsFiniteSet(rows)
  /\ embedded \subseteq rows
  /\ vectors \subseteq Batch
  /\ files \subseteq Docs
  /\ chunkCount \in Int /\ docCount \in Int
  /\ processQ \in [Docs -> Nat] /\ embedQ \in [Docs -> Nat]
  /\ failures \subseteq {"process", "embed"} \X Docs
  /\ locked \subseteq Docs
  /\ run \in [Workers -> [pc : RunSteps, doc : Docs \cup {NoDoc}, old : Nat]]
  /\ emb \in [Embedders -> [pc : {"idle", "upsert", "record"},
                            doc : Docs \cup {NoDoc}, snap : SUBSET Batch]]
  /\ req \in [Requests -> [pc : {"idle", "uploading", "rows", "purge", "unlink", "commit"},
                           doc : Docs \cup {NoDoc}, del : SUBSET Batch]]
  /\ lost \subseteq Docs
  /\ requests \in 0..MaxRequests /\ faults \in 0..MaxFaults

Init ==
  /\ status = [d \in Docs |-> "none"] /\ serial = [d \in Docs |-> 0]
  /\ rows = {} /\ embedded = {} /\ vectors = {} /\ files = {}
  /\ chunkCount = 0 /\ docCount = 0
  /\ processQ = [d \in Docs |-> 0] /\ embedQ = [d \in Docs |-> 0]
  /\ failures = {} /\ locked = {}
  /\ run = [w \in Workers |-> IdleRun]
  /\ emb = [e \in Embedders |-> IdleEmb]
  /\ req = [r \in Requests |-> IdleReq] /\ lost = {}
  /\ requests = 0 /\ faults = 0

-----------------------------------------------------------------------------
(***************************************************************************)
(* HTTP requests.                                                          *)
(***************************************************************************)

\* upload_document: store the file, insert the row (uncommitted), dispatch the
\* task.  The message is on the broker before the row is visible to a worker.
UploadBegin(r, d) ==
  /\ Operation
  /\ req[r].pc = "idle"
  /\ status[d] = "none"
  /\ \A q \in Requests : req[q].doc # d
  /\ files' = files \cup {d}
  /\ SafeDelayProcess(d)
  /\ req' = [req EXCEPT ![r] = [pc |-> "uploading", doc |-> d, del |-> {}]]
  /\ UNCHANGED <<database, vectors, embedQ, locked, run, emb, lost>>

UploadCommit(r) ==
  /\ req[r].pc = "uploading"
  /\ status' = [status EXCEPT ![req[r].doc] = "pending"]
  /\ docCount' = docCount + 1
  /\ req' = [req EXCEPT ![r] = IdleReq]
  /\ UNCHANGED <<serial, rows, embedded, chunkCount, vectors, files, queues,
                 locked, run, emb, lost, budget>>

\* The commit of get_db fails: the row never existed; the file and the message stay.
UploadRollback(r) ==
  /\ Fault
  /\ req[r].pc = "uploading"
  /\ status' = [status EXCEPT ![req[r].doc] = "deleted"]
  /\ req' = [req EXCEPT ![r] = IdleReq]
  /\ UNCHANGED <<serial, rows, embedded, chunkCount, docCount, vectors, files,
                 queues, locked, run, emb, lost, requests>>

Reprocess(d) ==
  /\ Operation
  /\ Visible(d)
  /\ SafeDelayProcess(d)
  /\ UNCHANGED <<database, vectors, files, embedQ, locked, actors>>

DeleteBegin(r, d) ==
  /\ Operation
  /\ req[r].pc = "idle"
  /\ Visible(d)
  /\ req' = [req EXCEPT ![r] = [pc |-> "rows", doc |-> d, del |-> {}]]
  /\ UNCHANGED <<database, vectors, files, queues, locked, run, emb, lost, faults>>

\* The DELETE on chunks waits for the row locks of another open transaction.
DeleteRows(r) ==
  LET mine == BatchesOf(rows, req[r].doc)
  IN  /\ req[r].pc = "rows"
      /\ mine \cap Deleting = {}
      /\ req' = [req EXCEPT ![r] = [pc |-> "purge", doc |-> req[r].doc, del |-> mine]]
      /\ UNCHANGED <<database, vectors, files, queues, locked, run, emb, lost, budget>>

\* Milvus takes effect at once; when it stays down the handler answers 503 and
\* get_db rolls the transaction back.
DeletePurge(r) ==
  /\ req[r].pc = "purge"
  /\ \/ /\ vectors' = vectors \ BatchesOf(vectors, req[r].doc)
        /\ req' = [req EXCEPT ![r].pc = "unlink"]
        /\ NoFault
     \/ /\ Fault
        /\ req' = [req EXCEPT ![r] = IdleReq]
        /\ UNCHANGED vectors
  /\ UNCHANGED <<database, files, queues, locked, run, emb, lost, requests>>

\* Removing the file is best effort: a failure leaves the object behind.
DeleteUnlink(r) ==
  /\ req[r].pc = "unlink"
  /\ \/ files' = files \ {req[r].doc} /\ NoFault
     \/ Fault /\ UNCHANGED files
  /\ req' = [req EXCEPT ![r].pc = "commit"]
  /\ UNCHANGED <<database, vectors, queues, locked, run, emb, lost, requests>>

\* DELETE of the document row, document_count - 1, and the commit of get_db.
DeleteCommit(r) ==
  /\ req[r].pc = "commit"
  /\ status' = [status EXCEPT ![req[r].doc] = "deleted"]
  /\ rows' = rows \ req[r].del
  /\ embedded' = embedded \ req[r].del
  /\ docCount' = docCount - 1
  /\ req' = [req EXCEPT ![r] = IdleReq]
  /\ UNCHANGED <<serial, chunkCount, vectors, files, queues, locked, run, emb, lost,
                 budget>>

\* A batch delete whose purge of another document fails, or a failing commit:
\* Postgres forgets the request, Milvus and MinIO do not.
DeleteRollback(r) ==
  /\ Fault
  /\ req[r].pc \in {"unlink", "commit"}
  /\ req' = [req EXCEPT ![r] = IdleReq]
  /\ UNCHANGED <<database, vectors, files, queues, locked, run, emb, lost, requests>>

\* An administrator replays a failed task from task_failures.
RetryFailure(f) ==
  /\ Operation
  /\ f \in failures
  /\ failures' = failures \ {f}
  /\ IF f[1] = "process"
     THEN processQ' = [processQ EXCEPT ![f[2]] = @ + 1] /\ UNCHANGED embedQ
     ELSE embedQ' = [embedQ EXCEPT ![f[2]] = @ + 1] /\ UNCHANGED processQ
  /\ UNCHANGED <<database, vectors, files, locked, actors, faults>>

-----------------------------------------------------------------------------
(***************************************************************************)
(* The task process_document.  Each action ends at a commit, or at a call  *)
(* to another store, of the Python function.                               *)
(***************************************************************************)

StartRun(w, d) ==
  /\ run[w].pc = "idle"
  /\ processQ[d] > 0
  /\ d \notin locked
  /\ locked' = locked \cup {d}
  /\ processQ' = [processQ EXCEPT ![d] = @ - 1]
  /\ run' = [run EXCEPT ![w] = [pc |-> "mark", doc |-> d, old |-> 0]]
  /\ UNCHANGED <<database, vectors, files, embedQ, failures, emb, req, lost, budget>>

\* Redis does not answer: _acquire_lock returns True all the same.
StartUnlocked(w, d) ==
  /\ ~LockReliable
  /\ Fault
  /\ run[w].pc = "idle"
  /\ processQ[d] > 0
  /\ processQ' = [processQ EXCEPT ![d] = @ - 1]
  /\ run' = [run EXCEPT ![w] = [pc |-> "mark", doc |-> d, old |-> 0]]
  /\ UNCHANGED <<database, vectors, files, embedQ, failures, locked, emb, req, lost,
                 requests>>

\* Mutant: the skipped task runs through the finally block as well.
SkipRunReleasing(w, d) ==
  /\ run[w].pc = "idle"
  /\ processQ[d] > 0
  /\ d \in locked
  /\ locked' = locked \ {d}
  /\ processQ' = [processQ EXCEPT ![d] = @ - 1]
  /\ UNCHANGED <<database, vectors, files, embedQ, failures, actors, budget>>

\* The key exists: the message is acknowledged and forgotten.
SkipRun(w, d) ==
  /\ run[w].pc = "idle"
  /\ processQ[d] > 0
  /\ d \in locked
  /\ processQ' = [processQ EXCEPT ![d] = @ - 1]
  /\ UNCHANGED <<database, vectors, files, embedQ, failures, locked, actors, budget>>

\* Mutant: a completed document keeps its status while it is reprocessed.
MarkIncomplete(w) ==
  LET d == run[w].doc
  IN  /\ run[w].pc = "mark"
      /\ \/ /\ Visible(d) /\ GoTo(w, "count")
            /\ status' = [status EXCEPT ![d] = IF @ = "completed" THEN @ ELSE "processing"]
         \/ ~Visible(d) /\ UNCHANGED status /\ GoTo(w, "release")
      /\ UNCHANGED <<serial, rows, embedded, chunkCount, docCount, vectors, files,
                     queues, locked, emb, req, lost, budget>>

\* A document the session cannot see ends the task ("Document not found").
MarkProcessing(w) ==
  LET d == run[w].doc
  IN  /\ run[w].pc = "mark"
      /\ \/ Visible(d) /\ status' = [status EXCEPT ![d] = "processing"] /\ GoTo(w, "count")
         \/ ~Visible(d) /\ UNCHANGED status /\ GoTo(w, "release")
      /\ UNCHANGED <<serial, rows, embedded, chunkCount, docCount, vectors, files,
                     queues, locked, emb, req, lost, budget>>

\* Mutant: only rows that were embedded count as the result of an earlier run.
CountEmbeddedChunks(w) ==
  LET old == BatchesOf(embedded, run[w].doc)
  IN  /\ run[w].pc = "count"
      /\ run' = [run EXCEPT ![w] = [pc  |-> IF old = {} THEN "parse" ELSE "clear",
                                    doc |-> run[w].doc,
                                    old |-> Cardinality(old)]]
      /\ UNCHANGED <<database, vectors, files, queues, locked, emb, req, lost, budget>>

CountOldChunks(w) ==
  LET old == BatchesOf(rows, run[w].doc)
  IN  /\ run[w].pc = "count"
      /\ run' = [run EXCEPT ![w] = [pc  |-> IF old = {} THEN "parse" ELSE "clear",
                                    doc |-> run[w].doc,
                                    old |-> Cardinality(old)]]
      /\ UNCHANGED <<database, vectors, files, queues, locked, emb, req, lost, budget>>

\* Mutant: the rows are deleted and the counter is left alone.
DeleteOldChunksUncounted(w) ==
  LET old == BatchesOf(rows, run[w].doc)
  IN  /\ run[w].pc = "clear"
      /\ old \cap Deleting = {}
      /\ rows' = rows \ old
      /\ embedded' = embedded \ old
      /\ GoTo(w, "purge")
      /\ UNCHANGED <<status, serial, docCount, chunkCount, vectors, files, queues,
                     locked, emb, req, lost, budget>>

\* Delete the previous rows and subtract the number counted before; the DELETE
\* waits for the row locks of a request that is deleting the document.
DeleteOldChunks(w) ==
  LET old == BatchesOf(rows, run[w].doc)
  IN  /\ run[w].pc = "clear"
      /\ old \cap Deleting = {}
      /\ rows' = rows \ old
      /\ embedded' = embedded \ old
      /\ chunkCount' = chunkCount - run[w].old
      /\ GoTo(w, "purge")
      /\ UNCHANGED <<status, serial, docCount, vectors, files, queues, locked, emb,
                     req, lost, budget>>

\* Best effort: a Milvus failure is logged and the run goes on.
PurgeOldVectors(w) ==
  /\ run[w].pc = "purge"
  /\ \/ vectors' = vectors \ BatchesOf(vectors, run[w].doc) /\ NoFault
     \/ Fault /\ UNCHANGED vectors
  /\ GoTo(w, "parse")
  /\ UNCHANGED <<database, files, queues, locked, emb, req, lost, requests>>

\* Download, parse, split and enrich.  The session re-reads the document here:
\* a row deleted meanwhile raises, as does a missing file.
ParseDocument(w) ==
  LET d == run[w].doc
  IN  /\ run[w].pc = "parse"
      /\ \/ /\ Visible(d) /\ d \in files
            /\ GoTo(w, "save") /\ NoFault /\ UNCHANGED status
         \/ /\ Visible(d) /\ d \in files  \* fewer than 10 characters
            /\ status' = [status EXCEPT ![d] = "error"]
            /\ GoTo(w, "release") /\ NoFault
         \/ /\ Visible(d) /\ d \in files => Fault
            /\ ~(Visible(d) /\ d \in files) => NoFault
            /\ GoTo(w, "fail") /\ UNCHANGED status
      /\ UNCHANGED <<serial, rows, embedded, chunkCount, docCount, vectors, files,
                     queues, locked, emb, req, lost, requests>>

\* Insert the new rows and complete the document in one transaction.  The
\* UPDATE of a document deleted meanwhile matches no row; the INSERT succeeds,
\* chunks.unit_id being no foreign key.
SaveChunks(w) ==
  LET d == run[w].doc
  IN  /\ run[w].pc = "save"
      /\ serial' = [serial EXCEPT ![d] = @ + 1]
      /\ rows' = rows \cup {<<d, serial[d] + 1>>}
      /\ chunkCount' = chunkCount + 1
      /\ status' = [status EXCEPT ![d] = IF Visible(d) THEN "completed" ELSE @]
      /\ GoTo(w, "dispatch")
      /\ UNCHANGED <<embedded, docCount, vectors, files, queues, locked, emb, req,
                     lost, budget>>

\* embed_unit_chunks.delay, not safe_delay: a broker failure raises.
DispatchEmbedding(w) ==
  /\ run[w].pc = "dispatch"
  /\ \/ /\ embedQ' = [embedQ EXCEPT ![run[w].doc] = @ + 1]
        /\ GoTo(w, "release") /\ NoFault
     \/ /\ Fault
        /\ GoTo(w, "fail") /\ UNCHANGED embedQ
  /\ UNCHANGED <<database, vectors, files, processQ, failures, locked, emb, req, lost,
                 requests>>

\* The exception handler: status error, then a retry unless the error is
\* permanent or the retries are used up (which leaves a task_failures row).
RecordFailure(w) ==
  LET d == run[w].doc
  IN  /\ run[w].pc = "fail"
      /\ status' = [status EXCEPT ![d] = IF Visible(d) THEN "error" ELSE @]
      /\ \/ GoTo(w, "retry") /\ UNCHANGED failures
         \/ GoTo(w, "release") /\ UNCHANGED failures
         \/ GoTo(w, "release") /\ failures' = failures \cup {<<"process", d>>}
      /\ UNCHANGED <<serial, rows, embedded, chunkCount, docCount, vectors, files,
                     processQ, embedQ, locked, emb, req, lost, budget>>

\* An exception before the inner try: the status stays, nothing is retried.
AbortRun(w) ==
  /\ Fault
  /\ run[w].pc \in {"mark", "count", "clear"}
  /\ failures' = failures \cup {<<"process", run[w].doc>>}
  /\ GoTo(w, "release")
  /\ UNCHANGED <<database, vectors, files, processQ, embedQ, locked, emb, req, lost,
                 requests>>

\* The finally block deletes the key, whoever set it.  A retry message has a
\* countdown of 60 s: it becomes deliverable after this step.
ReleaseLock(w) ==
  /\ run[w].pc \in {"release", "retry"}
  /\ locked' = locked \ {run[w].doc}
  /\ processQ' = IF run[w].pc = "retry"
                 THEN [processQ EXCEPT ![run[w].doc] = @ + 1] ELSE processQ
  /\ run' = [run EXCEPT ![w] = IdleRun]
  /\ UNCHANGED <<database, vectors, files, embedQ, failures, emb, req, lost, budget>>

\* The worker process dies: acks_late and reject_on_worker_lost put the message
\* back, and nobody deletes the key.
CrashRun(w) ==
  /\ Fault
  /\ Active(w)
  /\ processQ' = [processQ EXCEPT ![run[w].doc] = @ + (IF run[w].pc = "retry" THEN 2 ELSE 1)]
  /\ run' = [run EXCEPT ![w] = IdleRun]
  /\ UNCHANGED <<database, vectors, files, embedQ, failures, locked, emb, req, lost,
                 requests>>

\* The key's TTL of 1800 s ends; a live run ends before it (soft_time_limit).
ExpireLock(d) ==
  /\ d \in locked
  /\ ~Running(d)
  /\ locked' = locked \ {d}
  /\ UNCHANGED <<database, vectors, files, queues, actors, budget>>

\* The time limit strikes: the exception fails the run, or the handlers around
\* the chunk enrichment and the Milvus purge swallow it and the run goes on.
OverrunTTL(w) ==
  /\ ~LockReliable
  /\ Fault
  /\ run[w].pc \in {"purge", "parse", "save"}
  /\ locked' = locked \ {run[w].doc}
  /\ \/ GoTo(w, "fail")
     \/ run[w].pc \in {"purge", "parse"} /\ UNCHANGED run
  /\ UNCHANGED <<database, vectors, files, queues, emb, req, lost, requests>>

-----------------------------------------------------------------------------
(***************************************************************************)
(* The task embed_unit_chunks: read the rows without vector_id, upsert     *)
(* their vectors into Milvus, then record the vector ids in Postgres.      *)
(***************************************************************************)

StartEmbed(e, d) ==
  LET todo == BatchesOf(rows \ embedded, d)
  IN  /\ emb[e].pc = "idle"
      /\ embedQ[d] > 0
      /\ embedQ' = [embedQ EXCEPT ![d] = @ - 1]
      /\ \/ /\ Visible(d) /\ todo # {}
            /\ emb' = [emb EXCEPT ![e] = [pc |-> "upsert", doc |-> d, snap |-> todo]]
         \/ ~(Visible(d) /\ todo # {}) /\ UNCHANGED emb
      /\ UNCHANGED <<database, vectors, files, processQ, failures, locked, run, req,
                     lost, budget>>

\* A failing batch leaves the vectors of the batches before it; the task is
\* retried, or its retries are used up.
UpsertVectors(e) ==
  /\ emb[e].pc = "upsert"
  /\ \/ /\ vectors' = vectors \cup emb[e].snap
        /\ emb' = [emb EXCEPT ![e].pc = "record"]
        /\ NoFault
        /\ UNCHANGED <<embedQ, failures>>
     \/ /\ Fault
        /\ vectors' \in {vectors, vectors \cup emb[e].snap}
        /\ emb' = [emb EXCEPT ![e] = IdleEmb]
        /\ \/ /\ embedQ' = [embedQ EXCEPT ![emb[e].doc] = @ + 1]
              /\ UNCHANGED failures
           \/ /\ failures' = failures \cup {<<"embed", emb[e].doc>>}
              /\ UNCHANGED embedQ
  /\ UNCHANGED <<database, files, processQ, locked, run, req, lost, requests>>

\* Mutant: the vector ids are written for rows that are gone, too.
RecordEveryVectorId(e) ==
  /\ emb[e].pc = "record"
  /\ emb[e].snap \cap Deleting = {}
  /\ embedded' = embedded \cup emb[e].snap
  /\ emb' = [emb EXCEPT ![e] = IdleEmb]
  /\ UNCHANGED <<status, serial, rows, chunkCount, docCount, vectors, files, queues,
                 locked, run, req, lost, budget>>

\* UPDATE chunks SET vector_id WHERE id: a row deleted meanwhile matches nothing,
\* and the vector written for it stays in Milvus.
RecordVectorIds(e) ==
  /\ emb[e].pc = "record"
  /\ emb[e].snap \cap Deleting = {}
  /\ embedded' = embedded \cup (emb[e].snap \cap rows)
  /\ emb' = [emb EXCEPT ![e] = IdleEmb]
  /\ UNCHANGED <<status, serial, rows, chunkCount, docCount, vectors, files, queues,
                 locked, run, req, lost, budget>>

CrashEmbed(e) ==
  /\ Fault
  /\ emb[e].pc # "idle"
  /\ embedQ' = [embedQ EXCEPT ![emb[e].doc] = @ + 1]
  /\ emb' = [emb EXCEPT ![e] = IdleEmb]
  /\ UNCHANGED <<database, vectors, files, processQ, failures, locked, run, req, lost,
                 requests>>

-----------------------------------------------------------------------------
(***************************************************************************)
(* The beat tasks and the startup hook.                                    *)
(***************************************************************************)

\* Documents with rows that have no vector id, and nothing queued for them.  (A
\* second message for the same document changes nothing: the first one embeds
\* every such row.)
Backlog == {d \in Docs : BatchesOf(rows \ embedded, d) # {} /\ embedQ[d] = 0}

\* vector_backlog_compensation, every 5 minutes, for the documents S whose rows
\* are older than 5 minutes.
BacklogCompensation(S) ==
  /\ S # {} /\ S \subseteq Backlog
  /\ \/ /\ embedQ' = [d \in Docs |-> IF d \in S THEN embedQ[d] + 1 ELSE embedQ[d]]
        /\ NoFault
        /\ UNCHANGED failures
     \/ /\ Fault
        /\ failures' = failures \cup ({"embed"} \X S)
        /\ UNCHANGED embedQ
  /\ UNCHANGED <<database, vectors, files, processQ, locked, actors, requests>>

\* Mutant: the scan spares documents whose lock key is gone.
StuckAndLocked == {d \in Docs : status[d] = "processing" /\ d \in locked /\ ~Running(d)}

\* Processing for longer than any live run may take.
Stuck == {d \in Docs : status[d] = "processing" /\ (LockReliable => ~Running(d))}

\* consistency_scan, every 30 minutes, asks MinIO for the file of every completed
\* document.  Every error counts as a missing file, that of a MinIO that is down too.
ProbeFiles ==
  LET completed == {d \in Docs : status[d] = "completed"}
  IN  /\ lost = {}
      /\ \/ lost' = completed \ files /\ NoFault
         \/ lost' = completed /\ Fault
      /\ lost' # {}
      /\ UNCHANGED <<database, vectors, files, queues, locked, run, emb, req, requests>>

\* Mutant: the scan does not compare the vector ids with Milvus.
ScanWithoutVectors(S) ==
  /\ S \subseteq Stuck
  /\ S # {} \/ lost # {}
  /\ status' = [d \in Docs |-> IF d \in S \/ (d \in lost /\ Visible(d)) THEN "error"
                                                                   ELSE status[d]]
  /\ lost' = {}
  /\ UNCHANGED <<serial, rows, embedded, chunkCount, docCount, vectors, files, queues,
                 locked, run, emb, req, budget>>

\* The rest of the scan: fail the documents S stuck for 60 minutes, clear the vector
\* ids Milvus does not know, fail the documents without a file, whatever their status
\* has become since the probe.
ConsistencyScan(S) ==
  /\ S \subseteq Stuck
  /\ S # {} \/ lost # {} \/ ~(embedded \subseteq vectors)
  /\ status' = [d \in Docs |-> IF d \in S \/ (d \in lost /\ Visible(d)) THEN "error"
                                                                   ELSE status[d]]
  /\ lost' = {}
  /\ \/ embedded' = embedded \cap vectors /\ NoFault
     \/ Fault /\ UNCHANGED embedded  \* Milvus down: the vector check is skipped
  /\ UNCHANGED <<serial, rows, chunkCount, docCount, vectors, files, queues, locked,
                 run, emb, req, requests>>

\* _recover_stuck_tasks when the API starts: dispatch every processing document
\* created more than 30 minutes ago.
RecoverStuckTasks(S) ==
  /\ Operation
  /\ S # {} /\ S \subseteq {d \in Docs : status[d] = "processing"}
  /\ processQ' = [d \in Docs |-> IF d \in S THEN processQ[d] + 1 ELSE processQ[d]]
  /\ UNCHANGED <<database, vectors, files, embedQ, failures, locked, actors, faults>>

-----------------------------------------------------------------------------

RunStep(w) ==
  \/ MarkProcessing(w) \/ CountOldChunks(w) \/ DeleteOldChunks(w) \/ PurgeOldVectors(w)
  \/ ParseDocument(w) \/ SaveChunks(w) \/ DispatchEmbedding(w) \/ RecordFailure(w)
  \/ ReleaseLock(w)

EmbedStep(e) == UpsertVectors(e) \/ RecordVectorIds(e)

RequestStep(r) ==
  UploadCommit(r) \/ DeleteRows(r) \/ DeletePurge(r) \/ DeleteUnlink(r) \/ DeleteCommit(r)

Next ==
  \/ \E r \in Requests : \/ \E d \in Docs : UploadBegin(r, d) \/ DeleteBegin(r, d)
                         \/ RequestStep(r) \/ UploadRollback(r) \/ DeleteRollback(r)
  \/ \E d \in Docs : Reprocess(d) \/ ExpireLock(d)
  \/ \E f \in failures : RetryFailure(f)
  \/ \E w \in Workers : \/ \E d \in Docs : \/ StartRun(w, d) \/ StartUnlocked(w, d)
                                           \/ SkipRun(w, d)
                        \/ RunStep(w) \/ AbortRun(w) \/ CrashRun(w) \/ OverrunTTL(w)
  \/ \E e \in Embedders : \/ \E d \in Docs : StartEmbed(e, d)
                          \/ EmbedStep(e) \/ CrashEmbed(e)
  \/ ProbeFiles
  \/ \E S \in SUBSET Docs : \/ BacklogCompensation(S) \/ ConsistencyScan(S)
                            \/ RecoverStuckTasks(S)

\* Workers and handlers that run go on (a fault may end them), the broker serves
\* a queue in order, so a waiting message is taken, keys expire, beat keeps time
\* and a row or a document that stays unrepaired grows old enough for its sweep.
Fairness ==
  /\ \A w \in Workers : WF_vars(RunStep(w))
  /\ \A e \in Embedders : WF_vars(EmbedStep(e))
  /\ \A r \in Requests : WF_vars(RequestStep(r))
  /\ \A d \in Docs : /\ SF_vars(\E w \in Workers : StartRun(w, d))
                     /\ SF_vars(\E e \in Embedders : StartEmbed(e, d))
                     /\ WF_vars(ExpireLock(d))
  /\ WF_vars(BacklogCompensation(Backlog))
  /\ WF_vars(ConsistencyScan(Stuck))

Spec == Init /\ [][Next]_vars
FairSpec == Spec /\ Fairness

-----------------------------------------------------------------------------
(***************************************************************************)
(* Properties.                                                             *)
(***************************************************************************)

\* "One task per document" (_acquire_lock): two document workers never process
\* the same document, through crashes, redeliveries, retries and expiring keys.
OneRunPerDocument ==
  \A w, v \in Workers : Active(w) /\ Active(v) /\ run[w].doc = run[v].doc => w = v

\* A completed document has exactly the rows of its latest run: no row of an
\* earlier run survives a reprocess, none is missing, whatever failed between
\* the commits of the runs before it.
CompletedHasLatestRows ==
  \A d \in Docs : status[d] = "completed" => BatchesOf(rows, d) = {<<d, serial[d]>>}

\* knowledge_bases.chunk_count is updated by increments only.  It never falls
\* below the rows there are, and equals them until a document is deleted (the
\* delete handlers do not subtract the rows they remove); document_count never
\* exceeds the documents there are.
CountersTrackTables ==
  /\ chunkCount >= Cardinality(rows)
  /\ (\A d \in Docs : status[d] # "deleted") => chunkCount = Cardinality(rows)
  /\ docCount <= Cardinality({d \in Docs : Visible(d)})

\* No document stays in processing: a run ends it, or the scan fails it.
ProcessingSettles ==
  \A d \in Docs : status[d] = "processing" ~> status[d] # "processing"

\* The rows of a document that stays completed reach Milvus and carry their
\* vector ids, through failing and crashing embed tasks and through deletes
\* that purged Milvus and were rolled back.
CompletedBecomesSearchable ==
  \A d \in Docs :
    status[d] = "completed" ~>
      \/ status[d] # "completed"
      \/ BatchesOf(rows, d) \subseteq embedded \cap vectors

\* What the pipeline promises of each document (module DocumentContent): content
\* is withdrawn only while the document is processed or removed, and published
\* together with the status completed.
ContentOf(d) == {b[2] : b \in BatchesOf(rows, d)}
Content == INSTANCE DocumentContent  \* status and serial stand for themselves
             WITH content <- [d \in Docs |-> ContentOf(d)]
ImplementsContent == Content!Spec

\* The promise of safe_delay: a document waiting in pending has a message on the
\* broker, a run, or a task_failures row an administrator can replay.
PendingIsTracked ==
  \A d \in Docs :
    status[d] = "pending" => \/ processQ[d] > 0
                             \/ Running(d)
                             \/ <<"process", d>> \in failures

\* The promise of the reprocess cleanup: once the rows of a completed document
\* are embedded and no task touches it, Milvus holds the latest set only.
IndexServesLatestRows ==
  \A d \in Docs :
    /\ status[d] = "completed"
    /\ BatchesOf(rows, d) \subseteq embedded
    /\ ~Running(d) /\ processQ[d] = 0 /\ embedQ[d] = 0
    /\ \A e \in Embedders : emb[e].doc # d
    => BatchesOf(vectors, d) \subseteq rows

=============================================================================
