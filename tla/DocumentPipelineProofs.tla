------------------------ MODULE DocumentPipelineProofs ------------------------
(***************************************************************************)
(* Theorems about DocumentPipeline for every set of documents, workers and *)
(* requests and every bound.                                               *)
(***************************************************************************)
EXTENDS DocumentPipeline, FiniteSetTheorems, TLAPS

-----------------------------------------------------------------------------
(***************************************************************************)
(* Type correctness.                                                       *)
(***************************************************************************)

\* An actor that is not idle works on a document.
ActorsHaveDocs ==
  /\ \A w \in Workers : run[w].pc # "idle" => run[w].doc \in Docs
  /\ \A e \in Embedders : emb[e].pc # "idle" => emb[e].doc \in Docs
  /\ \A r \in Requests : req[r].pc # "idle" => req[r].doc \in Docs

TypeInv == TypeOK /\ ActorsHaveDocs

\* Initially every variable has its type.
LEMMA TypeInit == Init => TypeInv
  BY PipelineAssumption, FS_EmptySet
  DEF Init, TypeInv, ActorsHaveDocs, TypeOK, Status, Present, Batch, RunSteps, IdleRun,
      IdleEmb, IdleReq

\* Every step keeps every variable in its type.
LEMMA TypeStep ==
  ASSUME TypeInv, [Next]_vars
  PROVE  TypeInv'
<1> USE PipelineAssumption DEF TypeInv, ActorsHaveDocs, TypeOK, Status, Present, Batch,
        RunSteps, IdleRun, IdleEmb, IdleReq
<1> USE DEF database, queues, actors, budget
<1>1. ASSUME NEW r \in Requests, NEW d \in Docs, UploadBegin(r, d)
      PROVE TypeInv'
  <2>1. req' \in [Requests -> [pc : {"idle", "uploading", "rows", "purge", "unlink", "commit"},
                                  doc : Docs \cup {NoDoc}, del : SUBSET Batch]]
    BY <1>1 DEF UploadBegin
  <2>2. processQ' \in [Docs -> Nat] /\ failures' \subseteq {"process", "embed"} \X Docs
    BY <1>1 DEF UploadBegin, SafeDelayProcess
  <2>3. requests' \in 0..MaxRequests /\ faults' \in 0..MaxFaults
    BY <1>1 DEF UploadBegin, SafeDelayProcess, NoFault, Fault, Operation
  <2>4. ActorsHaveDocs'
    BY <1>1 DEF UploadBegin
  <2> QED
    BY <1>1, <2>1, <2>2, <2>3, <2>4 DEF UploadBegin
<1>2. ASSUME NEW r \in Requests, UploadCommit(r)
      PROVE TypeInv'
  BY <1>2 DEF UploadCommit
<1>3. ASSUME NEW r \in Requests, UploadRollback(r)
      PROVE TypeInv'
  BY <1>3 DEF UploadRollback, Fault
<1>4. ASSUME NEW d \in Docs, Reprocess(d)
      PROVE TypeInv'
  BY <1>4 DEF Reprocess, SafeDelayProcess, NoFault, Fault, Operation
<1>5. ASSUME NEW r \in Requests, NEW d \in Docs, DeleteBegin(r, d)
      PROVE TypeInv'
  BY <1>5 DEF DeleteBegin, Operation
<1>6. ASSUME NEW r \in Requests, DeleteRows(r)
      PROVE TypeInv'
  <2>1. req' \in [Requests -> [pc : {"idle", "uploading", "rows", "purge", "unlink", "commit"},
                                  doc : Docs \cup {NoDoc}, del : SUBSET Batch]]
    <3> DEFINE mine == BatchesOf(rows, req[r].doc)
    <3>1. mine \in SUBSET Batch
      BY DEF BatchesOf
    <3>2. req' = [req EXCEPT ![r] = [pc |-> "purge", doc |-> req[r].doc, del |-> mine]]
      BY <1>6 DEF DeleteRows
    <3> HIDE DEF mine
    <3> QED
      BY <3>1, <3>2
  <2>2. ActorsHaveDocs'
    BY <1>6 DEF DeleteRows
  <2> QED
    BY <1>6, <2>1, <2>2 DEF DeleteRows, BatchesOf
<1>7. ASSUME NEW r \in Requests, DeletePurge(r)
      PROVE TypeInv'
  <2>1. req' \in [Requests -> [pc : {"idle", "uploading", "rows", "purge", "unlink", "commit"},
                                  doc : Docs \cup {NoDoc}, del : SUBSET Batch]]
    <3>1. CASE req' = [req EXCEPT ![r].pc = "unlink"]
      BY <3>1
    <3>2. CASE req' = [req EXCEPT ![r] = IdleReq]
      BY <3>2
    <3> QED
      BY <1>7, <3>1, <3>2 DEF DeletePurge
  <2>2. vectors' \subseteq Batch
    BY <1>7 DEF DeletePurge, BatchesOf
  <2>3. ActorsHaveDocs'
    <3>1. \A q \in Requests : req'[q].pc # "idle" => /\ req[q].pc # "idle"
                                                     /\ req'[q].doc = req[q].doc
      <4>1. CASE req' = [req EXCEPT ![r].pc = "unlink"]
        BY <4>1, <1>7 DEF DeletePurge
      <4>2. CASE req' = [req EXCEPT ![r] = IdleReq]
        BY <4>2
      <4> QED
        BY <1>7, <4>1, <4>2 DEF DeletePurge
    <3> QED
      BY <1>7, <3>1 DEF DeletePurge
  <2> QED
    BY <1>7, <2>1, <2>2, <2>3 DEF DeletePurge, NoFault, Fault
<1>8. ASSUME NEW r \in Requests, DeleteUnlink(r)
      PROVE TypeInv'
  <2>1. req' \in [Requests -> [pc : {"idle", "uploading", "rows", "purge", "unlink", "commit"},
                                  doc : Docs \cup {NoDoc}, del : SUBSET Batch]]
    BY <1>8 DEF DeleteUnlink
  <2>2. files' \subseteq Docs
    BY <1>8 DEF DeleteUnlink
  <2>3. ActorsHaveDocs'
    BY <1>8 DEF DeleteUnlink
  <2>4. faults' \in 0..MaxFaults
    BY <1>8 DEF DeleteUnlink, NoFault, Fault
  <2> QED
    BY <1>8, <2>1, <2>2, <2>3, <2>4 DEF DeleteUnlink
<1>9. ASSUME NEW r \in Requests, DeleteCommit(r)
      PROVE TypeInv'
  <2>1. rows' \subseteq Batch /\ IsFiniteSet(rows') /\ embedded' \subseteq rows'
    BY <1>9, FS_Difference DEF DeleteCommit
  <2>2. req' \in [Requests -> [pc : {"idle", "uploading", "rows", "purge", "unlink", "commit"},
                                  doc : Docs \cup {NoDoc}, del : SUBSET Batch]]
    BY <1>9 DEF DeleteCommit
  <2>3. status' \in [Docs -> Status] /\ docCount' \in Int
    BY <1>9 DEF DeleteCommit
  <2>4. ActorsHaveDocs'
    BY <1>9 DEF DeleteCommit
  <2> QED
    BY <1>9, <2>1, <2>2, <2>3, <2>4 DEF DeleteCommit
<1>10. ASSUME NEW r \in Requests, DeleteRollback(r)
      PROVE TypeInv'
  BY <1>10 DEF DeleteRollback, Fault
<1>11. ASSUME NEW f \in failures, RetryFailure(f)
      PROVE TypeInv'
  BY <1>11 DEF RetryFailure, Operation
<1>12. ASSUME NEW w \in Workers, NEW d \in Docs, StartRun(w, d)
      PROVE TypeInv'
  BY <1>12 DEF StartRun
<1>13. ASSUME NEW w \in Workers, NEW d \in Docs, StartUnlocked(w, d)
      PROVE TypeInv'
  BY <1>13 DEF StartUnlocked, Fault
<1>14. ASSUME NEW w \in Workers, NEW d \in Docs, SkipRun(w, d)
      PROVE TypeInv'
  BY <1>14 DEF SkipRun
<1>15. ASSUME NEW w \in Workers, MarkProcessing(w)
      PROVE TypeInv'
  <2>1. run' \in [Workers -> [pc : RunSteps, doc : Docs \cup {NoDoc}, old : Nat]]
    <3>1. PICK pc \in RunSteps : run' = [run EXCEPT ![w].pc = pc]
      BY <1>15 DEF MarkProcessing, GoTo
    <3> QED
      BY <3>1
  <2>2. status' \in [Docs -> Status]
    BY <1>15 DEF MarkProcessing
  <2>3. ActorsHaveDocs'
    BY <1>15 DEF MarkProcessing, GoTo
  <2> QED
    BY <1>15, <2>1, <2>2, <2>3 DEF MarkProcessing, GoTo
<1>16. ASSUME NEW w \in Workers, CountOldChunks(w)
      PROVE TypeInv'
  <2>1. Cardinality(BatchesOf(rows, run[w].doc)) \in Nat
    BY <1>16, FS_Subset, FS_CardinalityType DEF BatchesOf
  <2>2. run' \in [Workers -> [pc : RunSteps, doc : Docs \cup {NoDoc}, old : Nat]]
    <3> DEFINE n == Cardinality(BatchesOf(rows, run[w].doc))
    <3>1. PICK pc \in RunSteps :
            run' = [run EXCEPT ![w] = [pc |-> pc, doc |-> run[w].doc, old |-> n]]
      BY <1>16 DEF CountOldChunks
    <3>2. n \in Nat
      BY <2>1
    <3> HIDE DEF n
    <3> QED
      BY <3>1, <3>2
  <2>3. ActorsHaveDocs'
    BY <1>16 DEF CountOldChunks
  <2> QED
    BY <1>16, <2>1, <2>2, <2>3 DEF CountOldChunks, BatchesOf
<1>17. ASSUME NEW w \in Workers, DeleteOldChunks(w)
      PROVE TypeInv'
  <2>1. rows' \subseteq Batch /\ IsFiniteSet(rows') /\ embedded' \subseteq rows'
    BY <1>17, FS_Difference DEF DeleteOldChunks
  <2>2. run' \in [Workers -> [pc : RunSteps, doc : Docs \cup {NoDoc}, old : Nat]]
    BY <1>17 DEF DeleteOldChunks, GoTo
  <2>3. chunkCount' \in Int
    BY <1>17 DEF DeleteOldChunks
  <2>4. ActorsHaveDocs'
    BY <1>17 DEF DeleteOldChunks, GoTo
  <2> QED
    BY <1>17, <2>1, <2>2, <2>3, <2>4 DEF DeleteOldChunks, GoTo, BatchesOf
<1>18. ASSUME NEW w \in Workers, PurgeOldVectors(w)
      PROVE TypeInv'
  BY <1>18 DEF PurgeOldVectors, GoTo, NoFault, Fault
<1>19. ASSUME NEW w \in Workers, ParseDocument(w)
      PROVE TypeInv'
  <2>1. run' \in [Workers -> [pc : RunSteps, doc : Docs \cup {NoDoc}, old : Nat]]
    <3>1. PICK pc \in RunSteps : run' = [run EXCEPT ![w].pc = pc]
      BY <1>19 DEF ParseDocument, GoTo
    <3> QED
      BY <3>1
  <2>2. status' \in [Docs -> Status]
    BY <1>19 DEF ParseDocument
  <2>3. ActorsHaveDocs'
    BY <1>19 DEF ParseDocument, GoTo
  <2> QED
    BY <1>19, <2>1, <2>2, <2>3 DEF ParseDocument, GoTo, NoFault, Fault
<1>20. ASSUME NEW w \in Workers, SaveChunks(w)
      PROVE TypeInv'
  <2>1. rows' \subseteq Batch /\ IsFiniteSet(rows') /\ embedded' \subseteq rows'
    <3>1. <<run[w].doc, serial[run[w].doc] + 1>> \in Batch
      BY <1>20 DEF SaveChunks
    <3> QED
      BY <3>1, <1>20, FS_AddElement DEF SaveChunks
  <2>2. run' \in [Workers -> [pc : RunSteps, doc : Docs \cup {NoDoc}, old : Nat]]
    BY <1>20 DEF SaveChunks, GoTo
  <2>3. status' \in [Docs -> Status] /\ serial' \in [Docs -> Nat]
    BY <1>20 DEF SaveChunks
  <2>4. ActorsHaveDocs'
    BY <1>20 DEF SaveChunks, GoTo
  <2> QED
    BY <1>20, <2>1, <2>2, <2>3, <2>4 DEF SaveChunks, GoTo
<1>21. ASSUME NEW w \in Workers, DispatchEmbedding(w)
      PROVE TypeInv'
  <2>1. run' \in [Workers -> [pc : RunSteps, doc : Docs \cup {NoDoc}, old : Nat]]
    <3>1. PICK pc \in RunSteps : run' = [run EXCEPT ![w].pc = pc]
      BY <1>21 DEF DispatchEmbedding, GoTo
    <3> QED
      BY <3>1
  <2>2. ActorsHaveDocs'
    BY <1>21 DEF DispatchEmbedding, GoTo
  <2>3. embedQ' \in [Docs -> Nat]
    BY <1>21 DEF DispatchEmbedding
  <2> QED
    BY <1>21, <2>1, <2>2, <2>3 DEF DispatchEmbedding, NoFault, Fault
<1>22. ASSUME NEW w \in Workers, RecordFailure(w)
      PROVE TypeInv'
  <2>1. run' \in [Workers -> [pc : RunSteps, doc : Docs \cup {NoDoc}, old : Nat]]
    <3>1. PICK pc \in RunSteps : run' = [run EXCEPT ![w].pc = pc]
      BY <1>22 DEF RecordFailure, GoTo
    <3> QED
      BY <3>1
  <2>2. status' \in [Docs -> Status]
    BY <1>22 DEF RecordFailure
  <2>3. ActorsHaveDocs'
    BY <1>22 DEF RecordFailure, GoTo
  <2> QED
    BY <1>22, <2>1, <2>2, <2>3 DEF RecordFailure, GoTo
<1>23. ASSUME NEW w \in Workers, AbortRun(w)
      PROVE TypeInv'
  BY <1>23 DEF AbortRun, GoTo, Fault
<1>24. ASSUME NEW w \in Workers, ReleaseLock(w)
      PROVE TypeInv'
  BY <1>24 DEF ReleaseLock
<1>25. ASSUME NEW w \in Workers, CrashRun(w)
      PROVE TypeInv'
  BY <1>25 DEF CrashRun, Active, Fault
<1>26. ASSUME NEW d \in Docs, ExpireLock(d)
      PROVE TypeInv'
  BY <1>26 DEF ExpireLock
<1>27. ASSUME NEW w \in Workers, OverrunTTL(w)
      PROVE TypeInv'
  <2>1. run' \in [Workers -> [pc : RunSteps, doc : Docs \cup {NoDoc}, old : Nat]]
    BY <1>27 DEF OverrunTTL, GoTo
  <2>2. ActorsHaveDocs'
    BY <1>27 DEF OverrunTTL, GoTo
  <2> QED
    BY <1>27, <2>1, <2>2 DEF OverrunTTL, GoTo, Fault
<1>28. ASSUME NEW e \in Embedders, NEW d \in Docs, StartEmbed(e, d)
      PROVE TypeInv'
  <2>1. emb' \in [Embedders -> [pc : {"idle", "upsert", "record"},
                                   doc : Docs \cup {NoDoc}, snap : SUBSET Batch]]
    BY <1>28 DEF StartEmbed, BatchesOf
  <2>2. ActorsHaveDocs'
    BY <1>28 DEF StartEmbed, BatchesOf
  <2> QED
    BY <1>28, <2>1, <2>2 DEF StartEmbed, BatchesOf
<1>29. ASSUME NEW e \in Embedders, UpsertVectors(e)
      PROVE TypeInv'
  <2>1. emb' \in [Embedders -> [pc : {"idle", "upsert", "record"},
                                   doc : Docs \cup {NoDoc}, snap : SUBSET Batch]]
    <3>1. CASE emb' = [emb EXCEPT ![e].pc = "record"]
      <4>1. emb[e] \in [pc : {"idle", "upsert", "record"}, doc : Docs \cup {NoDoc},
                        snap : SUBSET Batch]
        OBVIOUS
      <4>2. [emb[e] EXCEPT !.pc = "record"]
              \in [pc : {"idle", "upsert", "record"}, doc : Docs \cup {NoDoc},
                   snap : SUBSET Batch]
        BY <4>1
      <4> QED
        BY <3>1, <4>2
    <3>2. CASE emb' = [emb EXCEPT ![e] = IdleEmb]
      BY <3>2
    <3> QED
      BY <1>29, <3>1, <3>2 DEF UpsertVectors
  <2>2. vectors' \subseteq Batch
    BY <1>29 DEF UpsertVectors
  <2>3. embedQ' \in [Docs -> Nat] /\ failures' \subseteq {"process", "embed"} \X Docs
    BY <1>29 DEF UpsertVectors
  <2>4. ActorsHaveDocs'
    BY <1>29 DEF UpsertVectors
  <2> QED
    BY <1>29, <2>1, <2>2, <2>3, <2>4 DEF UpsertVectors, NoFault, Fault
<1>30. ASSUME NEW e \in Embedders, RecordVectorIds(e)
      PROVE TypeInv'
  BY <1>30 DEF RecordVectorIds
<1>31. ASSUME NEW e \in Embedders, CrashEmbed(e)
      PROVE TypeInv'
  BY <1>31 DEF CrashEmbed, Fault
<1>32. ASSUME NEW S \in SUBSET Docs, BacklogCompensation(S)
      PROVE TypeInv'
  BY <1>32 DEF BacklogCompensation, NoFault, Fault
<1>33. ASSUME NEW S \in SUBSET Docs, ConsistencyScan(S)
      PROVE TypeInv'
  BY <1>33 DEF ConsistencyScan, NoFault, Fault
<1>34. ASSUME NEW S \in SUBSET Docs, RecoverStuckTasks(S)
      PROVE TypeInv'
  BY <1>34 DEF RecoverStuckTasks, Operation
<1>35. CASE UNCHANGED vars
  BY <1>35 DEF vars
<1>36. CASE ProbeFiles
  BY <1>36 DEF ProbeFiles, NoFault, Fault
<1> QED
  BY <1>1, <1>2, <1>3, <1>4, <1>5, <1>6, <1>7, <1>8, <1>9, <1>10, <1>11, <1>12,
     <1>13, <1>14, <1>15, <1>16, <1>17, <1>18, <1>19, <1>20, <1>21, <1>22, <1>23,
     <1>24, <1>25, <1>26, <1>27, <1>28, <1>29, <1>30, <1>31, <1>32, <1>33, <1>34,
     <1>35, <1>36
  DEF Next, RunStep, EmbedStep, RequestStep

\* The type invariant, for the reliable and for the unreliable lock: no sequence of
\* handlers, tasks and failures writes a value a column or a queue cannot hold, and
\* only rows of Postgres carry a vector id.
THEOREM TypeCorrect == Spec => []TypeOK
<1>1. TypeInv /\ [Next]_vars => TypeInv'
  BY TypeStep
<1> QED
  BY TypeInit, <1>1, PTL DEF Spec, TypeInv

-----------------------------------------------------------------------------
(***************************************************************************)
(* The invariants of the pipeline while the lock can be relied on.         *)
(***************************************************************************)

\* A worker holds the key of the document it processes, and no two workers
\* process the same document.
LockInv ==
  /\ \A w \in Workers : Active(w) => run[w].doc \in locked
  /\ OneRunPerDocument

\* A document being uploaded is invisible and belongs to one request; a document
\* being deleted has been visible, and only its own rows are deleted.
RequestInv ==
  /\ \A r \in Requests : req[r].pc = "uploading" => status[req[r].doc] = "none"
  /\ \A r \in Requests : req[r].pc \notin {"idle", "uploading"}
                           => status[req[r].doc] # "none"
  /\ \A q, r \in Requests : /\ req[q].pc = "uploading"
                            /\ req[r].pc = "uploading"
                            /\ req[q].doc = req[r].doc
                            => q = r
  /\ \A r \in Requests : \A b \in req[r].del : b[1] = req[r].doc

\* While a run works on a document nothing but its removal or a scan takes the
\* document out of processing; from the purge on the document has no rows.
RunInv ==
  \A w \in Workers :
    /\ run[w].pc \in {"count", "clear", "purge", "parse", "save"}
         => status[run[w].doc] \in {"processing", "error", "deleted"}
    /\ run[w].pc \in {"purge", "parse", "save"} => BatchesOf(rows, run[w].doc) = {}

\* No document has a row of an earlier run beside its latest batch.
LatestOnly == \A b \in rows : b[2] = serial[b[1]]

IInv == TypeInv /\ LockInv /\ RequestInv /\ RunInv /\ LatestOnly
          /\ CompletedHasLatestRows

-----------------------------------------------------------------------------
(***************************************************************************)
(* The lock.  With a reliable lock a key outlives the run that set it, and *)
(* only that run deletes it.                                               *)
(***************************************************************************)

\* No step of any actor breaks mutual exclusion.
LEMMA LockStep ==
  ASSUME LockReliable, TypeInv, LockInv, [Next]_vars
  PROVE  LockInv'
<1> USE DEF TypeInv, TypeOK, ActorsHaveDocs, LockInv, OneRunPerDocument, Active, RunSteps
<1> USE DEF database, queues, actors, budget
<1>1. ASSUME NEW d \in Docs, ExpireLock(d)
      PROVE  LockInv'
  BY <1>1 DEF ExpireLock, Running
<1>2. ASSUME NEW w \in Workers, NEW d \in Docs, StartRun(w, d)
      PROVE  LockInv'
  BY <1>2 DEF StartRun
<1>3. ASSUME NEW w \in Workers, NEW d \in Docs, StartUnlocked(w, d)
      PROVE  LockInv'
  BY <1>3 DEF StartUnlocked
<1>4. ASSUME NEW w \in Workers, NEW d \in Docs, SkipRun(w, d)
      PROVE  LockInv'
  BY <1>4 DEF SkipRun
<1>5. ASSUME NEW w \in Workers, MarkProcessing(w)
      PROVE  LockInv'
  BY <1>5 DEF MarkProcessing, GoTo
<1>6. ASSUME NEW w \in Workers, CountOldChunks(w)
      PROVE  LockInv'
  BY <1>6 DEF CountOldChunks
<1>7. ASSUME NEW w \in Workers, DeleteOldChunks(w)
      PROVE  LockInv'
  BY <1>7 DEF DeleteOldChunks, GoTo
<1>8. ASSUME NEW w \in Workers, PurgeOldVectors(w)
      PROVE  LockInv'
  BY <1>8 DEF PurgeOldVectors, GoTo
<1>9. ASSUME NEW w \in Workers, ParseDocument(w)
      PROVE  LockInv'
  <2>1. PICK pc \in RunSteps \ {"idle"} : run' = [run EXCEPT ![w].pc = pc]
    BY <1>9 DEF ParseDocument, GoTo
  <2>2. UNCHANGED locked /\ run[w].pc # "idle"
    BY <1>9 DEF ParseDocument
  <2> QED
    BY <2>1, <2>2
<1>10. ASSUME NEW w \in Workers, SaveChunks(w)
      PROVE  LockInv'
  BY <1>10 DEF SaveChunks, GoTo
<1>11. ASSUME NEW w \in Workers, DispatchEmbedding(w)
      PROVE  LockInv'
  <2>1. PICK pc \in RunSteps \ {"idle"} : run' = [run EXCEPT ![w].pc = pc]
    BY <1>11 DEF DispatchEmbedding, GoTo
  <2>2. UNCHANGED locked /\ run[w].pc # "idle"
    BY <1>11 DEF DispatchEmbedding
  <2> QED
    BY <2>1, <2>2
<1>12. ASSUME NEW w \in Workers, RecordFailure(w)
      PROVE  LockInv'
  BY <1>12 DEF RecordFailure, GoTo
<1>13. ASSUME NEW w \in Workers, ReleaseLock(w)
      PROVE  LockInv'
  BY <1>13 DEF ReleaseLock, IdleRun
<1>14. ASSUME NEW w \in Workers, AbortRun(w)
      PROVE  LockInv'
  BY <1>14 DEF AbortRun, GoTo
<1>15. ASSUME NEW w \in Workers, CrashRun(w)
      PROVE  LockInv'
  BY <1>15 DEF CrashRun, IdleRun
<1>16. ASSUME NEW w \in Workers, OverrunTTL(w)
      PROVE  LockInv'
  BY <1>16 DEF OverrunTTL, GoTo
<1>17. ASSUME NEW r \in Requests, NEW d \in Docs,
             UploadBegin(r, d) \/ DeleteBegin(r, d)
      PROVE  LockInv'
  BY <1>17 DEF UploadBegin, DeleteBegin
<1>18. ASSUME NEW r \in Requests,
             UploadCommit(r) \/ UploadRollback(r) \/ DeleteRows(r) \/ DeletePurge(r)
             \/ DeleteUnlink(r) \/ DeleteCommit(r) \/ DeleteRollback(r)
      PROVE  LockInv'
  BY <1>18 DEF UploadCommit, UploadRollback, DeleteRows, DeletePurge, DeleteUnlink,
           DeleteCommit, DeleteRollback
<1>19. ASSUME NEW d \in Docs,
             Reprocess(d)
      PROVE  LockInv'
  BY <1>19 DEF Reprocess
<1>20. ASSUME NEW f \in failures,
             RetryFailure(f)
      PROVE  LockInv'
  BY <1>20 DEF RetryFailure
<1>21. ASSUME NEW e \in Embedders, NEW d \in Docs,
             StartEmbed(e, d)
      PROVE  LockInv'
  BY <1>21 DEF StartEmbed
<1>22. ASSUME NEW e \in Embedders,
             UpsertVectors(e) \/ RecordVectorIds(e) \/ CrashEmbed(e)
      PROVE  LockInv'
  BY <1>22 DEF UpsertVectors, RecordVectorIds, CrashEmbed
<1>23. ASSUME NEW S \in SUBSET Docs,
             BacklogCompensation(S) \/ ConsistencyScan(S) \/ RecoverStuckTasks(S)
      PROVE  LockInv'
  BY <1>23 DEF BacklogCompensation, ConsistencyScan, RecoverStuckTasks
<1>24. CASE UNCHANGED vars
  BY <1>24 DEF vars, database, queues, actors, budget
<1>25. CASE ProbeFiles
  BY <1>25 DEF ProbeFiles
<1> QED
  BY <1>1, <1>2, <1>3, <1>4, <1>5, <1>6, <1>7, <1>8, <1>9, <1>10, <1>11, <1>12, <1>13,
       <1>14, <1>15, <1>16, <1>17, <1>18, <1>19, <1>20, <1>21, <1>22, <1>23, <1>24, <1>25
  DEF Next, RunStep, EmbedStep, RequestStep

\* Requests keep to themselves: uploads of one document are never concurrent,
\* and a delete removes rows of its own document only.
LEMMA RequestsStep ==
  ASSUME TypeInv, RequestInv, [Next]_vars
  PROVE  RequestInv'
<1> USE DEF TypeInv, TypeOK, ActorsHaveDocs, RequestInv, Visible, Present, IdleReq
<1> USE DEF database, queues, actors, budget
<1>1. ASSUME NEW r \in Requests, NEW d \in Docs, UploadBegin(r, d)
      PROVE  RequestInv'
  BY <1>1 DEF UploadBegin
<1>2. ASSUME NEW r \in Requests, UploadCommit(r)
      PROVE  RequestInv'
  BY <1>2 DEF UploadCommit
<1>3. ASSUME NEW r \in Requests, UploadRollback(r)
      PROVE  RequestInv'
  BY <1>3 DEF UploadRollback
<1>4. ASSUME NEW r \in Requests, NEW d \in Docs, DeleteBegin(r, d)
      PROVE  RequestInv'
  BY <1>4 DEF DeleteBegin
<1>5. ASSUME NEW r \in Requests, DeleteRows(r)
      PROVE  RequestInv'
  BY <1>5 DEF DeleteRows, BatchesOf
<1>6. ASSUME NEW r \in Requests, DeletePurge(r)
      PROVE  RequestInv'
  <2>1. PICK pc \in {"idle", "unlink"} :
          req' = IF pc = "idle" THEN [req EXCEPT ![r] = IdleReq]
                                ELSE [req EXCEPT ![r].pc = pc]
    BY <1>6 DEF DeletePurge
  <2>2. UNCHANGED status /\ req[r].pc = "purge"
    BY <1>6 DEF DeletePurge
  <2> QED
    BY <2>1, <2>2
<1>7. ASSUME NEW r \in Requests, DeleteUnlink(r)
      PROVE  RequestInv'
  BY <1>7 DEF DeleteUnlink
<1>8. ASSUME NEW r \in Requests, DeleteCommit(r)
      PROVE  RequestInv'
  BY <1>8 DEF DeleteCommit
<1>9. ASSUME NEW r \in Requests, DeleteRollback(r)
      PROVE  RequestInv'
  BY <1>9 DEF DeleteRollback
<1>10. ASSUME NEW w \in Workers, MarkProcessing(w)
      PROVE  RequestInv'
  BY <1>10 DEF MarkProcessing
<1>11. ASSUME NEW w \in Workers, ParseDocument(w)
      PROVE  RequestInv'
  BY <1>11 DEF ParseDocument
<1>12. ASSUME NEW w \in Workers, SaveChunks(w)
      PROVE  RequestInv'
  BY <1>12 DEF SaveChunks
<1>13. ASSUME NEW w \in Workers, RecordFailure(w)
      PROVE  RequestInv'
  BY <1>13 DEF RecordFailure
<1>14. ASSUME NEW S \in SUBSET Docs, ConsistencyScan(S)
      PROVE  RequestInv'
  BY <1>14 DEF ConsistencyScan, Stuck, Visible, Present
<1>15. ASSUME NEW d \in Docs,
             Reprocess(d) \/ ExpireLock(d)
      PROVE  RequestInv'
  BY <1>15 DEF Reprocess, ExpireLock
<1>16. ASSUME NEW f \in failures,
             RetryFailure(f)
      PROVE  RequestInv'
  BY <1>16 DEF RetryFailure
<1>17. ASSUME NEW w \in Workers, NEW d \in Docs,
             StartRun(w, d) \/ StartUnlocked(w, d) \/ SkipRun(w, d)
      PROVE  RequestInv'
  BY <1>17 DEF StartRun, StartUnlocked, SkipRun
<1>18. ASSUME NEW w \in Workers,
             CountOldChunks(w) \/ DeleteOldChunks(w) \/ PurgeOldVectors(w)
             \/ DispatchEmbedding(w) \/ ReleaseLock(w) \/ AbortRun(w) \/ CrashRun(w)
             \/ OverrunTTL(w)
      PROVE  RequestInv'
  BY <1>18 DEF CountOldChunks, DeleteOldChunks, PurgeOldVectors, DispatchEmbedding,
           ReleaseLock, AbortRun, CrashRun, OverrunTTL
<1>19. ASSUME NEW e \in Embedders, NEW d \in Docs,
             StartEmbed(e, d)
      PROVE  RequestInv'
  BY <1>19 DEF StartEmbed
<1>20. ASSUME NEW e \in Embedders,
             UpsertVectors(e) \/ RecordVectorIds(e) \/ CrashEmbed(e)
      PROVE  RequestInv'
  BY <1>20 DEF UpsertVectors, RecordVectorIds, CrashEmbed
<1>21. ASSUME NEW S \in SUBSET Docs,
             BacklogCompensation(S) \/ RecoverStuckTasks(S)
      PROVE  RequestInv'
  BY <1>21 DEF BacklogCompensation, RecoverStuckTasks
<1>22. CASE UNCHANGED vars
  BY <1>22 DEF vars, database, queues, actors, budget
<1>23. CASE ProbeFiles
  BY <1>23 DEF ProbeFiles
<1> QED
  BY <1>1, <1>2, <1>3, <1>4, <1>5, <1>6, <1>7, <1>8, <1>9, <1>10, <1>11, <1>12, <1>13,
       <1>14, <1>15, <1>16, <1>17, <1>18, <1>19, <1>20, <1>21, <1>22, <1>23
  DEF Next, RunStep, EmbedStep, RequestStep

-----------------------------------------------------------------------------
(***************************************************************************)
(* The content of a document.                                              *)
(***************************************************************************)

\* Between the steps of a run nobody but a delete touches its document.
LEMMA RunsStep ==
  ASSUME LockReliable, TypeInv, LockInv, RequestInv, RunInv, [Next]_vars
  PROVE  RunInv'
<1> USE DEF TypeInv, TypeOK, ActorsHaveDocs, LockInv, OneRunPerDocument, Active,
        RequestInv, RunInv, RunSteps, BatchesOf
<1> USE DEF database, queues, actors, budget
<1>1. ASSUME NEW r \in Requests, UploadCommit(r)
      PROVE  RunInv'
  BY <1>1 DEF UploadCommit
<1>2. ASSUME NEW r \in Requests, UploadRollback(r)
      PROVE  RunInv'
  BY <1>2 DEF UploadRollback
<1>3. ASSUME NEW r \in Requests, DeleteCommit(r)
      PROVE  RunInv'
  BY <1>3 DEF DeleteCommit
<1>4. ASSUME NEW w \in Workers, NEW d \in Docs, StartRun(w, d)
      PROVE  RunInv'
  BY <1>4 DEF StartRun
<1>5. ASSUME NEW w \in Workers, NEW d \in Docs, StartUnlocked(w, d)
      PROVE  RunInv'
  BY <1>5 DEF StartUnlocked
<1>6. ASSUME NEW w \in Workers, NEW d \in Docs, SkipRun(w, d)
      PROVE  RunInv'
  BY <1>6 DEF SkipRun
<1>7. ASSUME NEW w \in Workers, MarkProcessing(w)
      PROVE  RunInv'
  BY <1>7 DEF MarkProcessing, GoTo, Visible, Present
<1>8. ASSUME NEW w \in Workers, CountOldChunks(w)
      PROVE  RunInv'
  BY <1>8 DEF CountOldChunks, GoTo, Visible, Present
<1>9. ASSUME NEW w \in Workers, DeleteOldChunks(w)
      PROVE  RunInv'
  BY <1>9 DEF DeleteOldChunks, GoTo, Visible, Present
<1>10. ASSUME NEW w \in Workers, PurgeOldVectors(w)
      PROVE  RunInv'
  BY <1>10 DEF PurgeOldVectors, GoTo, Visible, Present
<1>11. ASSUME NEW w \in Workers, ParseDocument(w)
      PROVE  RunInv'
  BY <1>11 DEF ParseDocument, GoTo, Visible, Present
<1>12. ASSUME NEW w \in Workers, SaveChunks(w)
      PROVE  RunInv'
  BY <1>12 DEF SaveChunks, GoTo, Visible, Present
<1>13. ASSUME NEW w \in Workers, DispatchEmbedding(w)
      PROVE  RunInv'
  BY <1>13 DEF DispatchEmbedding, GoTo, Visible, Present
<1>14. ASSUME NEW w \in Workers, RecordFailure(w)
      PROVE  RunInv'
  BY <1>14 DEF RecordFailure, GoTo, Visible, Present
<1>15. ASSUME NEW w \in Workers, ReleaseLock(w)
      PROVE  RunInv'
  BY <1>15 DEF ReleaseLock, IdleRun
<1>16. ASSUME NEW w \in Workers, AbortRun(w)
      PROVE  RunInv'
  BY <1>16 DEF AbortRun, GoTo, Visible, Present
<1>17. ASSUME NEW w \in Workers, CrashRun(w)
      PROVE  RunInv'
  BY <1>17 DEF CrashRun, IdleRun
<1>18. ASSUME NEW w \in Workers, OverrunTTL(w)
      PROVE  RunInv'
  BY <1>18 DEF OverrunTTL, GoTo, Visible, Present
<1>19. ASSUME NEW S \in SUBSET Docs, ConsistencyScan(S)
      PROVE  RunInv'
  BY <1>19 DEF ConsistencyScan, Stuck, Running, Visible, Present
<1>20. ASSUME NEW r \in Requests, NEW d \in Docs,
             UploadBegin(r, d) \/ DeleteBegin(r, d)
      PROVE  RunInv'
  BY <1>20 DEF UploadBegin, DeleteBegin
<1>21. ASSUME NEW r \in Requests,
             DeleteRows(r) \/ DeletePurge(r) \/ DeleteUnlink(r) \/ DeleteRollback(r)
      PROVE  RunInv'
  BY <1>21 DEF DeleteRows, DeletePurge, DeleteUnlink, DeleteRollback
<1>22. ASSUME NEW d \in Docs,
             Reprocess(d) \/ ExpireLock(d)
      PROVE  RunInv'
  BY <1>22 DEF Reprocess, ExpireLock
<1>23. ASSUME NEW f \in failures,
             RetryFailure(f)
      PROVE  RunInv'
  BY <1>23 DEF RetryFailure
<1>24. ASSUME NEW e \in Embedders, NEW d \in Docs,
             StartEmbed(e, d)
      PROVE  RunInv'
  BY <1>24 DEF StartEmbed
<1>25. ASSUME NEW e \in Embedders,
             UpsertVectors(e) \/ RecordVectorIds(e) \/ CrashEmbed(e)
      PROVE  RunInv'
  BY <1>25 DEF UpsertVectors, RecordVectorIds, CrashEmbed
<1>26. ASSUME NEW S \in SUBSET Docs,
             BacklogCompensation(S) \/ RecoverStuckTasks(S)
      PROVE  RunInv'
  BY <1>26 DEF BacklogCompensation, RecoverStuckTasks
<1>27. CASE UNCHANGED vars
  BY <1>27 DEF vars, database, queues, actors, budget
<1>28. CASE ProbeFiles
  BY <1>28 DEF ProbeFiles
<1> QED
  BY <1>1, <1>2, <1>3, <1>4, <1>5, <1>6, <1>7, <1>8, <1>9, <1>10, <1>11, <1>12, <1>13,
       <1>14, <1>15, <1>16, <1>17, <1>18, <1>19, <1>20, <1>21, <1>22, <1>23, <1>24,
       <1>25, <1>26, <1>27, <1>28
  DEF Next, RunStep, EmbedStep, RequestStep

\* The rows of a document are replaced, never added to.
LEMMA ContentStep ==
  ASSUME TypeInv, RequestInv, RunInv, LatestOnly, CompletedHasLatestRows, [Next]_vars
  PROVE  LatestOnly' /\ CompletedHasLatestRows'
<1> USE DEF TypeInv, TypeOK, ActorsHaveDocs, RequestInv, RunInv, LatestOnly,
        CompletedHasLatestRows, BatchesOf, Batch
<1> USE DEF database, queues, actors, budget
<1>1. ASSUME NEW r \in Requests, UploadCommit(r)
      PROVE  LatestOnly' /\ CompletedHasLatestRows'
  BY <1>1 DEF UploadCommit
<1>2. ASSUME NEW r \in Requests, UploadRollback(r)
      PROVE  LatestOnly' /\ CompletedHasLatestRows'
  BY <1>2 DEF UploadRollback
<1>3. ASSUME NEW r \in Requests, DeleteCommit(r)
      PROVE  LatestOnly' /\ CompletedHasLatestRows'
  BY <1>3 DEF DeleteCommit
<1>4. ASSUME NEW w \in Workers, MarkProcessing(w)
      PROVE  LatestOnly' /\ CompletedHasLatestRows'
  BY <1>4 DEF MarkProcessing, GoTo, Visible, Present
<1>5. ASSUME NEW w \in Workers, DeleteOldChunks(w)
      PROVE  LatestOnly' /\ CompletedHasLatestRows'
  BY <1>5 DEF DeleteOldChunks, GoTo, Visible, Present
<1>6. ASSUME NEW w \in Workers, ParseDocument(w)
      PROVE  LatestOnly' /\ CompletedHasLatestRows'
  BY <1>6 DEF ParseDocument, GoTo, Visible, Present
<1>7. ASSUME NEW w \in Workers, SaveChunks(w)
      PROVE  LatestOnly' /\ CompletedHasLatestRows'
  BY <1>7 DEF SaveChunks, GoTo, Visible, Present
<1>8. ASSUME NEW w \in Workers, RecordFailure(w)
      PROVE  LatestOnly' /\ CompletedHasLatestRows'
  BY <1>8 DEF RecordFailure, GoTo, Visible, Present
<1>9. ASSUME NEW S \in SUBSET Docs, ConsistencyScan(S)
      PROVE  LatestOnly' /\ CompletedHasLatestRows'
  BY <1>9 DEF ConsistencyScan, Stuck, Visible, Present
<1>10. ASSUME NEW r \in Requests, NEW d \in Docs,
             UploadBegin(r, d) \/ DeleteBegin(r, d)
      PROVE  LatestOnly' /\ CompletedHasLatestRows'
  BY <1>10 DEF UploadBegin, DeleteBegin
<1>11. ASSUME NEW r \in Requests,
             DeleteRows(r) \/ DeletePurge(r) \/ DeleteUnlink(r) \/ DeleteRollback(r)
      PROVE  LatestOnly' /\ CompletedHasLatestRows'
  BY <1>11 DEF DeleteRows, DeletePurge, DeleteUnlink, DeleteRollback
<1>12. ASSUME NEW d \in Docs,
             Reprocess(d) \/ ExpireLock(d)
      PROVE  LatestOnly' /\ CompletedHasLatestRows'
  BY <1>12 DEF Reprocess, ExpireLock
<1>13. ASSUME NEW f \in failures,
             RetryFailure(f)
      PROVE  LatestOnly' /\ CompletedHasLatestRows'
  BY <1>13 DEF RetryFailure
<1>14. ASSUME NEW w \in Workers, NEW d \in Docs,
             StartRun(w, d) \/ StartUnlocked(w, d) \/ SkipRun(w, d)
      PROVE  LatestOnly' /\ CompletedHasLatestRows'
  BY <1>14 DEF StartRun, StartUnlocked, SkipRun
<1>15. ASSUME NEW w \in Workers,
             CountOldChunks(w) \/ PurgeOldVectors(w) \/ DispatchEmbedding(w)
             \/ ReleaseLock(w) \/ AbortRun(w) \/ CrashRun(w) \/ OverrunTTL(w)
      PROVE  LatestOnly' /\ CompletedHasLatestRows'
  BY <1>15 DEF CountOldChunks, PurgeOldVectors, DispatchEmbedding, ReleaseLock, AbortRun,
           CrashRun, OverrunTTL
<1>16. ASSUME NEW e \in Embedders, NEW d \in Docs,
             StartEmbed(e, d)
      PROVE  LatestOnly' /\ CompletedHasLatestRows'
  BY <1>16 DEF StartEmbed
<1>17. ASSUME NEW e \in Embedders,
             UpsertVectors(e) \/ RecordVectorIds(e) \/ CrashEmbed(e)
      PROVE  LatestOnly' /\ CompletedHasLatestRows'
  BY <1>17 DEF UpsertVectors, RecordVectorIds, CrashEmbed
<1>18. ASSUME NEW S \in SUBSET Docs,
             BacklogCompensation(S) \/ RecoverStuckTasks(S)
      PROVE  LatestOnly' /\ CompletedHasLatestRows'
  BY <1>18 DEF BacklogCompensation, RecoverStuckTasks
<1>19. CASE UNCHANGED vars
  BY <1>19 DEF vars, database, queues, actors, budget
<1>20. CASE ProbeFiles
  BY <1>20 DEF ProbeFiles
<1> QED
  BY <1>1, <1>2, <1>3, <1>4, <1>5, <1>6, <1>7, <1>8, <1>9, <1>10, <1>11, <1>12, <1>13,
       <1>14, <1>15, <1>16, <1>17, <1>18, <1>19, <1>20
  DEF Next, RunStep, EmbedStep, RequestStep

-----------------------------------------------------------------------------
(***************************************************************************)
(* The theorems about a reliable lock.                                     *)
(***************************************************************************)

\* The conjuncts of IInv together are an inductive invariant.
LEMMA PipelineInvariant ==
  ASSUME LockReliable
  PROVE  Spec => []IInv
<1>1. Init => IInv
  <2> SUFFICES ASSUME Init PROVE IInv
    OBVIOUS
  <2>1. LockInv /\ RequestInv /\ RunInv
    BY DEF Init, LockInv, OneRunPerDocument, Active, RequestInv, RunInv, IdleRun, IdleReq
  <2>2. LatestOnly /\ CompletedHasLatestRows
    BY DEF Init, LatestOnly, CompletedHasLatestRows
  <2> QED
    BY <2>1, <2>2, TypeInit DEF IInv
<1>2. IInv /\ [Next]_vars => IInv'
  BY TypeStep, LockStep, RequestsStep, RunsStep, ContentStep DEF IInv
<1> QED
  BY <1>1, <1>2, PTL DEF Spec

\* _acquire_lock and _release_lock give mutual exclusion per document, for any
\* number of workers and any sequence of crashes, retries and redeliveries, when
\* Redis answers and runs end within the TTL of their key.
THEOREM MutualExclusion ==
  ASSUME LockReliable
  PROVE  Spec => []OneRunPerDocument
  BY PipelineInvariant, PTL DEF IInv, LockInv

\* A completed document has the rows of its latest run and no others, although
\* process_document deletes, inserts and completes in separate transactions that
\* deletes, sweeps and failures may fall between.
THEOREM CompletedContent ==
  ASSUME LockReliable
  PROVE  Spec => []CompletedHasLatestRows
  BY PipelineInvariant, PTL DEF IInv

\* Every step of the pipeline is a step of DocumentContent or leaves it alone.
LEMMA ContentRefinementStep ==
  ASSUME LockReliable, IInv, [Next]_vars
  PROVE  [Content!Next]_(Content!vars)
<1> USE DEF IInv, TypeInv, TypeOK, ActorsHaveDocs, Status, Present
<1> USE DEF database, queues, actors, budget
<1>0. UNCHANGED rows => UNCHANGED [x \in Docs |-> ContentOf(x)]
  BY DEF ContentOf, BatchesOf
<1>1. ASSUME NEW r \in Requests, UploadCommit(r) \/ UploadRollback(r)
      PROVE  Content!Next
  <2>1. req[r].doc \in Docs /\ Content!Create(req[r].doc)
    BY <1>0, <1>1 DEF UploadCommit, UploadRollback, RequestInv, Content!Create
  <2> QED
    BY <2>1 DEF Content!Next
<1>2. ASSUME NEW r \in Requests, DeleteCommit(r)
      PROVE  Content!Next
  <2> DEFINE d == req[r].doc
  <2>1. d \in Docs /\ status[d] # "none"
    BY <1>2 DEF DeleteCommit, RequestInv
  <2>2. UNCHANGED serial /\ status' = [status EXCEPT ![d] = "deleted"]
    BY <1>2 DEF DeleteCommit
  <2>3. \A x \in Docs \ {d} : BatchesOf(rows', x) = BatchesOf(rows, x)
    BY <1>2 DEF DeleteCommit, RequestInv, BatchesOf
  <2>4. BatchesOf(rows', d) \in {{}, BatchesOf(rows, d)}
    <3>1. \A a, b \in BatchesOf(rows, d) : a = b
      BY DEF LatestOnly, BatchesOf, Batch
    <3>2. BatchesOf(rows', d) \subseteq BatchesOf(rows, d)
      BY <1>2 DEF DeleteCommit, BatchesOf
    <3> QED
      BY <3>1, <3>2
  <2>5. \A x \in Docs \ {d} : ContentOf(x)' = ContentOf(x)
    BY <2>3 DEF ContentOf
  <2>6. \A x \in {d} : ContentOf(x)' \in {{}, ContentOf(x)}
    BY <2>4 DEF ContentOf
  <2> HIDE DEF d
  <2>7. Content!Remove(d)
    <3>1. CASE \A x \in {d} : ContentOf(x)' = ContentOf(x)
      BY <2>1, <2>2, <2>5, <3>1 DEF Content!Remove
    <3>2. CASE \A x \in {d} : ContentOf(x)' = {}
      BY <2>1, <2>2, <2>5, <3>2 DEF Content!Remove
    <3> QED
      BY <2>6, <3>1, <3>2
  <2> QED
    BY <2>1, <2>7 DEF Content!Next
<1>3. ASSUME NEW w \in Workers, MarkProcessing(w)
      PROVE  Content!Next \/ UNCHANGED <<status, serial, rows>>
  <2>1. CASE Visible(run[w].doc)
    <3>1. run[w].doc \in Docs /\ Content!Claim(run[w].doc)
      BY <1>0, <1>3, <2>1 DEF MarkProcessing, Visible, Content!Claim, Content!Present
    <3> QED
      BY <3>1 DEF Content!Next
  <2> QED
    BY <1>3, <2>1 DEF MarkProcessing
<1>4. ASSUME NEW w \in Workers, DeleteOldChunks(w)
      PROVE  Content!Next
  <2> DEFINE d == run[w].doc
  <2>1. d \in Docs /\ status[d] \in {"processing", "error", "deleted"}
    BY <1>4 DEF DeleteOldChunks, RunInv
  <2>2. UNCHANGED <<status, serial>>
    BY <1>4 DEF DeleteOldChunks
  <2>3. \A x \in Docs : BatchesOf(rows', x) = IF x = d THEN {} ELSE BatchesOf(rows, x)
    BY <1>4 DEF DeleteOldChunks, BatchesOf
  <2>4. \A x \in Docs : ContentOf(x)' = IF x = d THEN {} ELSE ContentOf(x)
    BY <2>3 DEF ContentOf
  <2> HIDE DEF d
  <2>5. Content!Withdraw(d)
    BY <2>1, <2>2, <2>4 DEF Content!Withdraw
  <2> QED
    BY <2>1, <2>5 DEF Content!Next
<1>5. ASSUME NEW w \in Workers, SaveChunks(w)
      PROVE  Content!Next
  <2> DEFINE d == run[w].doc
  <2>1. BatchesOf(rows, d) = {} /\ d \in Docs /\ status[d] \in {"processing", "error", "deleted"}
    BY <1>5 DEF SaveChunks, RunInv
  <2>2. \A x \in Docs : BatchesOf(rows', x) = IF x = d THEN {<<d, serial[d] + 1>>}
                                              ELSE BatchesOf(rows, x)
    BY <1>5, <2>1 DEF SaveChunks, BatchesOf
  <2>3. /\ serial' = [serial EXCEPT ![d] = @ + 1]
        /\ status' = [status EXCEPT ![d] = IF @ = "deleted" THEN @ ELSE "completed"]
    BY <1>5, <2>1 DEF SaveChunks, Visible
  <2>4. \A x \in Docs : ContentOf(x)' = IF x = d THEN {serial[d] + 1} ELSE ContentOf(x)
    <3>1. \A x \in {d} : ContentOf(x)' = {b[2] : b \in {<<d, serial[d] + 1>>}}
      BY <2>1, <2>2 DEF ContentOf
    <3>2. {b[2] : b \in {<<d, serial[d] + 1>>}} = {serial[d] + 1}
      OBVIOUS
    <3>3. \A x \in Docs \ {d} : ContentOf(x)' = ContentOf(x)
      BY <2>2 DEF ContentOf
    <3> QED
      BY <3>1, <3>2, <3>3
  <2>5. ContentOf(d) = {}
    BY <2>1 DEF ContentOf
  <2> HIDE DEF d
  <2>6. Content!Publish(d)
    BY <2>1, <2>3, <2>4, <2>5 DEF Content!Publish
  <2> QED
    BY <2>1, <2>6 DEF Content!Next
<1>6. ASSUME NEW w \in Workers, ParseDocument(w) \/ RecordFailure(w)
      PROVE  Content!Next \/ UNCHANGED <<status, serial, rows>>
  <2>1. CASE status' = [status EXCEPT ![run[w].doc] = "error"] /\ Visible(run[w].doc)
    <3>1. {run[w].doc} \in SUBSET Docs
      BY <1>6 DEF ParseDocument, RecordFailure
    <3>2. Content!Fail({run[w].doc})
      <4>1. UNCHANGED <<serial, rows>>
        BY <1>6 DEF ParseDocument, RecordFailure
      <4> QED
        BY <1>0, <2>1, <3>1, <4>1 DEF Visible, Content!Fail, Content!Present
    <3> QED
      BY <3>1, <3>2 DEF Content!Next
  <2>2. CASE UNCHANGED status
    BY <1>6, <2>2 DEF ParseDocument, RecordFailure
  <2> QED
    BY <1>6, <2>1, <2>2 DEF ParseDocument, RecordFailure
<1>7. ASSUME NEW S \in SUBSET Docs, ConsistencyScan(S)
      PROVE  Content!Next
  <2> DEFINE F == S \cup {d \in lost : Visible(d)}
  <2>1. F \in SUBSET Docs
    OBVIOUS
  <2>2. Content!Fail(F)
    BY <1>0, <1>7 DEF ConsistencyScan, Stuck, Visible, Content!Fail, Content!Present
  <2> QED
    BY <2>1, <2>2 DEF Content!Next
<1>8. ASSUME NEW r \in Requests, NEW d \in Docs,
             UploadBegin(r, d) \/ DeleteBegin(r, d)
      PROVE  UNCHANGED <<status, serial, rows>>
  BY <1>8 DEF UploadBegin, DeleteBegin
<1>9. ASSUME NEW r \in Requests,
             DeleteRows(r) \/ DeletePurge(r) \/ DeleteUnlink(r) \/ DeleteRollback(r)
      PROVE  UNCHANGED <<status, serial, rows>>
  BY <1>9 DEF DeleteRows, DeletePurge, DeleteUnlink, DeleteRollback
<1>10. ASSUME NEW d \in Docs,
             Reprocess(d) \/ ExpireLock(d)
      PROVE  UNCHANGED <<status, serial, rows>>
  BY <1>10 DEF Reprocess, ExpireLock
<1>11. ASSUME NEW f \in failures,
             RetryFailure(f)
      PROVE  UNCHANGED <<status, serial, rows>>
  BY <1>11 DEF RetryFailure
<1>12. ASSUME NEW w \in Workers, NEW d \in Docs,
             StartRun(w, d) \/ StartUnlocked(w, d) \/ SkipRun(w, d)
      PROVE  UNCHANGED <<status, serial, rows>>
  BY <1>12 DEF StartRun, StartUnlocked, SkipRun
<1>13. ASSUME NEW w \in Workers,
             CountOldChunks(w) \/ PurgeOldVectors(w) \/ DispatchEmbedding(w)
             \/ ReleaseLock(w) \/ AbortRun(w) \/ CrashRun(w) \/ OverrunTTL(w)
      PROVE  UNCHANGED <<status, serial, rows>>
  BY <1>13 DEF CountOldChunks, PurgeOldVectors, DispatchEmbedding, ReleaseLock, AbortRun,
           CrashRun, OverrunTTL
<1>14. ASSUME NEW e \in Embedders, NEW d \in Docs,
             StartEmbed(e, d)
      PROVE  UNCHANGED <<status, serial, rows>>
  BY <1>14 DEF StartEmbed
<1>15. ASSUME NEW e \in Embedders,
             UpsertVectors(e) \/ RecordVectorIds(e) \/ CrashEmbed(e)
      PROVE  UNCHANGED <<status, serial, rows>>
  BY <1>15 DEF UpsertVectors, RecordVectorIds, CrashEmbed
<1>16. ASSUME NEW S \in SUBSET Docs,
             BacklogCompensation(S) \/ RecoverStuckTasks(S)
      PROVE  UNCHANGED <<status, serial, rows>>
  BY <1>16 DEF BacklogCompensation, RecoverStuckTasks
<1>17. ProbeFiles => UNCHANGED <<status, serial, rows>>
  BY DEF ProbeFiles
<1>18. UNCHANGED vars => UNCHANGED <<status, serial, rows>>
  BY DEF vars, database, queues, actors, budget
<1>19. UNCHANGED <<status, serial, rows>> => UNCHANGED Content!vars
  BY <1>0 DEF Content!vars
<1>20. Next => Content!Next \/ UNCHANGED <<status, serial, rows>>
  BY <1>1, <1>2, <1>3, <1>4, <1>5, <1>6, <1>7, <1>8, <1>9, <1>10, <1>11, <1>12, <1>13,
     <1>14, <1>15, <1>16, <1>17
  DEF Next, RunStep, EmbedStep, RequestStep
<1> QED
  BY <1>18, <1>19, <1>20

\* The pipeline implements DocumentContent: content is withdrawn only from a document
\* in processing or removed, and published by the step that completes the document.
THEOREM PipelineImplementsContent ==
  ASSUME LockReliable
  PROVE  Spec => ImplementsContent
<1>1. Init => Content!Init
  BY DEF Init, Content!Init, ContentOf, BatchesOf
<1>2. IInv /\ [Next]_vars => [Content!Next]_(Content!vars)
  BY ContentRefinementStep
<1> QED
  BY <1>1, <1>2, PipelineInvariant, PTL DEF Spec, ImplementsContent, Content!Spec

\* The contract of DocumentContent keeps its promise: a reader never sees a batch
\* older than the latest, and sees the latest one of a completed document.
THEOREM ContentIsLatest == Content!Spec => [](Content!TypeOK /\ Content!LatestContent)
<1> DEFINE content == [d \in Docs |-> ContentOf(d)]
           Inv == Content!TypeOK /\ Content!LatestContent
<1> USE DEF Content!TypeOK, Content!LatestContent, Content!Present
<1>1. Content!Init => Inv
  BY DEF Content!Init
<1>2. Inv /\ [Content!Next]_(Content!vars) => Inv'
  <2> SUFFICES ASSUME Inv, [Content!Next]_(Content!vars) PROVE Inv'
    OBVIOUS
  <2>1. ASSUME NEW d \in Docs, Content!Create(d) PROVE Inv'
    BY <2>1 DEF Content!Create
  <2>2. ASSUME NEW d \in Docs, Content!Claim(d) PROVE Inv'
    BY <2>2 DEF Content!Claim
  <2>3. ASSUME NEW d \in Docs, Content!Withdraw(d) PROVE Inv'
    BY <2>3 DEF Content!Withdraw
  <2>4. ASSUME NEW d \in Docs, Content!Publish(d) PROVE Inv'
    <3>1. /\ serial[d] + 1 \in Nat /\ serial' = [serial EXCEPT ![d] = serial[d] + 1]
          /\ status' = [status EXCEPT ![d] = IF status[d] = "deleted" THEN status[d] ELSE "completed"]
      BY <2>4 DEF Content!Publish
    <3>2. [e \in Docs |-> ContentOf(e)]' = [e \in Docs |-> IF e = d THEN {serial[d] + 1} ELSE ContentOf(e)]
      BY <2>4 DEF Content!Publish
    <3>3. \A e \in Docs : ContentOf(e)' = IF e = d THEN {serial[d] + 1} ELSE ContentOf(e)
      BY <3>2
    <3>4. Content!TypeOK'
      BY <3>1, <3>3
    <3> QED
      BY <3>1, <3>3, <3>4
  <2>5. ASSUME NEW d \in Docs, Content!Remove(d) PROVE Inv'
    BY <2>5 DEF Content!Remove
  <2>6. ASSUME NEW S \in SUBSET Docs, Content!Fail(S) PROVE Inv'
    BY <2>6 DEF Content!Fail
  <2>7. CASE UNCHANGED Content!vars
    BY <2>7 DEF Content!vars
  <2> QED
    BY <2>1, <2>2, <2>3, <2>4, <2>5, <2>6, <2>7 DEF Content!Next
<1> QED
  BY <1>1, <1>2, PTL DEF Content!Spec

\* So for the pipeline itself: while the lock can be relied on, what a reader sees of a
\* document is its latest batch, and a completed document has it.
THEOREM ReadersSeeLatest ==
  ASSUME LockReliable
  PROVE  Spec => []Content!LatestContent
  BY PipelineImplementsContent, ContentIsLatest, PTL DEF ImplementsContent

-----------------------------------------------------------------------------
(***************************************************************************)
(* The counters.  A run subtracts what it counted before it deletes; a     *)
(* delete request removes rows and subtracts nothing.                      *)
(***************************************************************************)

\* Documents with rows, documents whose rows a run has counted and will subtract, and the
\* documents there are.
Owners      == {b[1] : b \in rows}
Clearing    == {d \in Docs : \E w \in Workers : run[w].pc = "clear" /\ run[w].doc = d}
VisibleDocs == {d \in Docs : Visible(d)}
NoneDeleted == \A d \in Docs : status[d] # "deleted"

\* What is in the counter of chunks covers the rows and what will be subtracted.
CounterInv ==
  /\ IsFiniteSet(Owners \cup Clearing) /\ Cardinality(Owners \cup Clearing) <= chunkCount
  /\ NoneDeleted => Clearing \subseteq Owners /\ chunkCount = Cardinality(Owners)
  /\ \A w \in Workers : run[w].pc = "clear" => run[w].old = 1
  /\ IsFiniteSet(VisibleDocs) /\ docCount <= Cardinality(VisibleDocs)

\* A document has one batch of rows at most.
LEMMA OneBatchEach ==
  ASSUME TypeInv, LatestOnly
  PROVE  /\ \A d \in Docs : BatchesOf(rows, d) \subseteq {<<d, serial[d]>>}
         /\ \A d \in Owners : d \in Docs /\ <<d, serial[d]>> \in rows
         /\ \A d \in Docs : d \in Owners <=> BatchesOf(rows, d) # {}
         /\ \A d \in Docs : d \in Owners => Cardinality(BatchesOf(rows, d)) = 1
<1>1. \A b \in rows : b = <<b[1], serial[b[1]]>> /\ b[1] \in Docs
  BY DEF TypeInv, TypeOK, Batch, LatestOnly
<1>2. \A d \in Docs : BatchesOf(rows, d) \subseteq {<<d, serial[d]>>}
  BY <1>1 DEF BatchesOf
<1>3. \A d \in Owners : d \in Docs /\ <<d, serial[d]>> \in rows
  BY <1>1 DEF Owners
<1>4. \A d \in Docs : d \in Owners <=> BatchesOf(rows, d) # {}
  BY DEF Owners, BatchesOf
<1>5. ASSUME NEW d \in Docs, d \in Owners PROVE Cardinality(BatchesOf(rows, d)) = 1
  <2>1. BatchesOf(rows, d) = {<<d, serial[d]>>}
    BY <1>2, <1>4, <1>5
  <2> QED
    BY <2>1, FS_Singleton
<1> QED
  BY <1>2, <1>3, <1>4, <1>5

\* There are as many rows as documents with rows.
LEMMA RowsCounted ==
  ASSUME TypeInv, LatestOnly, IsFiniteSet(Owners)
  PROVE  Cardinality(rows) = Cardinality(Owners) /\ Cardinality(rows) \in Nat
<1> DEFINE f == [b \in rows |-> b[1]]
           g == [d \in Owners |-> <<d, serial[d]>>]
<1>1. \A b \in rows : b = <<b[1], serial[b[1]]>>
  BY DEF TypeInv, TypeOK, Batch, LatestOnly
<1>2. f \in Injection(rows, Owners)
  <2>1. f \in [rows -> Owners]
    BY DEF Owners
  <2>2. \A a, b \in rows : f[a] = f[b] => a = b
    BY <1>1
  <2> QED
    BY <2>1, <2>2 DEF Injection, IsInjective
<1>3. g \in Injection(Owners, rows)
  <2>1. g \in [Owners -> rows]
    BY OneBatchEach
  <2>2. \A a, b \in Owners : g[a] = g[b] => a = b
    OBVIOUS
  <2> QED
    BY <2>1, <2>2 DEF Injection, IsInjective
<1> HIDE DEF f, g
<1>4. IsFiniteSet(rows)
  BY DEF TypeInv, TypeOK
<1>5. Cardinality(rows) <= Cardinality(Owners) /\ Cardinality(Owners) <= Cardinality(rows)
  BY <1>2, <1>3, <1>4, FS_Injection
<1>6. Cardinality(rows) \in Nat /\ Cardinality(Owners) \in Nat
  BY <1>4, FS_CardinalityType
<1> QED
  BY <1>5, <1>6

\* The invariant gives what the run checks.
LEMMA CountersConclude ==
  ASSUME TypeInv, LatestOnly, CounterInv
  PROVE  CountersTrackTables
<1>1. Owners \in SUBSET (Owners \cup Clearing)
  OBVIOUS
<1>2. IsFiniteSet(Owners) /\ Cardinality(Owners) <= Cardinality(Owners \cup Clearing)
      /\ Cardinality(Owners \cup Clearing) \in Nat
  BY <1>1, FS_Subset, FS_CardinalityType DEF CounterInv
<1>3. Cardinality(rows) = Cardinality(Owners) /\ Cardinality(rows) \in Nat
  BY <1>2, RowsCounted
<1>4. chunkCount \in Int
  BY DEF TypeInv, TypeOK
<1> QED
  BY <1>2, <1>3, <1>4 DEF CounterInv, CountersTrackTables, NoneDeleted, VisibleDocs

\* Steps that neither insert nor delete rows, nor change which documents there are.
LEMMA CountersKept ==
  ASSUME TypeInv, CounterInv, UNCHANGED <<rows, chunkCount, docCount>>,
         \A d \in Docs : /\ status'[d] \in Present <=> Visible(d)
                         /\ status[d] = "deleted" => status'[d] = "deleted",
         \A w \in Workers : run'[w].pc = "clear" =>
           run'[w].old = 1 /\ (run'[w] = run[w] \/ run'[w].doc \in Owners)
  PROVE  CounterInv'
<1>1. Owners' = Owners
  BY DEF Owners
<1>2. Clearing' \subseteq Owners \cup Clearing
  BY DEF Clearing
<1>3. Owners' \cup Clearing' \in SUBSET (Owners \cup Clearing)
  BY <1>1, <1>2
<1>4. IsFiniteSet(Owners' \cup Clearing') /\ Cardinality(Owners' \cup Clearing') \in Nat
      /\ Cardinality(Owners \cup Clearing) \in Nat
      /\ Cardinality(Owners' \cup Clearing') <= Cardinality(Owners \cup Clearing)
  BY <1>3, FS_Subset, FS_CardinalityType DEF CounterInv
<1>5. chunkCount \in Int /\ Cardinality(Owners \cup Clearing) <= chunkCount
  BY DEF TypeInv, TypeOK, CounterInv
<1>6. NoneDeleted' => NoneDeleted
  BY DEF NoneDeleted
<1>7. NoneDeleted' => Clearing' \subseteq Owners' /\ chunkCount' = Cardinality(Owners')
  BY <1>1, <1>2, <1>6 DEF CounterInv
<1>8. VisibleDocs' = VisibleDocs
  BY DEF VisibleDocs, Visible
<1>9. IsFiniteSet(VisibleDocs') /\ docCount' <= Cardinality(VisibleDocs')
  BY <1>8 DEF CounterInv
<1>10. (IsFiniteSet(Owners \cup Clearing) /\ Cardinality(Owners \cup Clearing) <= chunkCount)'
  BY <1>4, <1>5
<1>11. \A w \in Workers : run'[w].pc = "clear" => run'[w].old = 1
  OBVIOUS
<1> QED
  BY <1>7, <1>9, <1>10, <1>11 DEF CounterInv

\* A document appears.
LEMMA UploadCounts ==
  ASSUME TypeInv, RequestInv, CounterInv, NEW r \in Requests, UploadCommit(r)
  PROVE  CounterInv'
<1> DEFINE d == req[r].doc
<1>1. /\ req[r].pc = "uploading" /\ status' = [status EXCEPT ![d] = "pending"] /\ docCount' = docCount + 1
      /\ UNCHANGED <<serial, rows, chunkCount, run>>
  BY DEF UploadCommit
<1>2. d \in Docs /\ status[d] = "none"
  BY <1>1 DEF TypeInv, ActorsHaveDocs, RequestInv
<1>3. VisibleDocs' = VisibleDocs \cup {d} /\ d \notin VisibleDocs
  BY <1>1, <1>2 DEF VisibleDocs, Visible, Present, TypeInv, TypeOK
<1>4. Owners' = Owners /\ Clearing' = Clearing
  BY <1>1 DEF Owners, Clearing
<1>5. NoneDeleted' => NoneDeleted
  BY <1>1, <1>2 DEF NoneDeleted, TypeInv, TypeOK
<1> HIDE DEF d
<1>6. docCount \in Int /\ Cardinality(VisibleDocs) \in Nat
  BY FS_CardinalityType DEF TypeInv, TypeOK, CounterInv
<1>7. IsFiniteSet(VisibleDocs') /\ Cardinality(VisibleDocs') = Cardinality(VisibleDocs) + 1
  BY <1>3, FS_AddElement DEF CounterInv
<1>8. docCount' <= Cardinality(VisibleDocs')
  BY <1>1, <1>6, <1>7 DEF CounterInv
<1> QED
  BY <1>1, <1>4, <1>5, <1>7, <1>8 DEF CounterInv

\* A document goes with its rows: the counter of chunks does not follow.
LEMMA DeleteCounts ==
  ASSUME TypeInv, RequestInv, CounterInv, NEW r \in Requests, DeleteCommit(r)
  PROVE  CounterInv'
<1> DEFINE d == req[r].doc
<1>1. /\ req[r].pc = "commit" /\ status' = [status EXCEPT ![d] = "deleted"] /\ docCount' = docCount - 1
      /\ rows' = rows \ req[r].del
      /\ UNCHANGED <<serial, chunkCount, run>>
  BY DEF DeleteCommit
<1>2. d \in Docs
  BY <1>1 DEF TypeInv, ActorsHaveDocs
<1>3. VisibleDocs' = VisibleDocs \ {d}
  BY <1>1, <1>2 DEF VisibleDocs, Visible, Present, TypeInv, TypeOK
<1>4. ~NoneDeleted'
  BY <1>1, <1>2 DEF NoneDeleted, TypeInv, TypeOK
<1>5. Owners' \subseteq Owners /\ Clearing' = Clearing
  BY <1>1 DEF Owners, Clearing
<1> HIDE DEF d
<1>6. Owners' \cup Clearing' \in SUBSET (Owners \cup Clearing)
  BY <1>5
<1>7. IsFiniteSet(Owners' \cup Clearing') /\ Cardinality(Owners' \cup Clearing') \in Nat
      /\ Cardinality(Owners \cup Clearing) \in Nat
      /\ Cardinality(Owners' \cup Clearing') <= Cardinality(Owners \cup Clearing)
  BY <1>6, FS_Subset, FS_CardinalityType DEF CounterInv
<1>8. chunkCount \in Int /\ docCount \in Int /\ Cardinality(VisibleDocs) \in Nat
  BY FS_CardinalityType DEF TypeInv, TypeOK, CounterInv
<1>9. (IsFiniteSet(Owners \cup Clearing) /\ Cardinality(Owners \cup Clearing) <= chunkCount)'
  BY <1>1, <1>7, <1>8 DEF CounterInv
<1>10. IsFiniteSet(VisibleDocs') /\ Cardinality(VisibleDocs') >= Cardinality(VisibleDocs) - 1
  BY <1>3, <1>8, FS_RemoveElement DEF CounterInv
<1>11. Cardinality(VisibleDocs') \in Nat
  BY <1>10, FS_CardinalityType
<1>12. docCount' <= Cardinality(VisibleDocs')
  BY <1>1, <1>8, <1>10, <1>11 DEF CounterInv
<1> QED
  BY <1>1, <1>4, <1>9, <1>10, <1>12 DEF CounterInv

\* A run deletes the rows it has counted, or what is left of them.
LEMMA ClearCounts ==
  ASSUME TypeInv, LockInv, LatestOnly, CounterInv, NEW w \in Workers, DeleteOldChunks(w)
  PROVE  CounterInv'
<1> DEFINE d == run[w].doc
           mine == BatchesOf(rows, d)
<1>1. /\ run[w].pc = "clear" /\ rows' = rows \ mine /\ chunkCount' = chunkCount - run[w].old
      /\ run' = [run EXCEPT ![w].pc = "purge"] /\ UNCHANGED <<status, docCount>>
  BY DEF DeleteOldChunks, GoTo
<1>2. d \in Docs /\ run[w].old = 1 /\ d \in Clearing
  BY <1>1 DEF TypeInv, ActorsHaveDocs, CounterInv, Clearing
<1>3. Owners' = Owners \ {d}
  BY <1>1 DEF Owners, BatchesOf
<1>4. Clearing' = Clearing \ {d}
  <2>1. \A v \in Workers : v # w => run'[v] = run[v] /\ (run[v].pc = "clear" => run[v].doc # d)
    BY <1>1 DEF TypeInv, TypeOK, LockInv, OneRunPerDocument, Active
  <2>2. run'[w].pc = "purge"
    BY <1>1 DEF TypeInv, TypeOK
  <2> QED
    BY <1>1, <2>1, <2>2 DEF Clearing
<1> HIDE DEF mine, d
<1>5. Owners' \cup Clearing' = (Owners \cup Clearing) \ {d} /\ d \in Owners \cup Clearing
  BY <1>2, <1>3, <1>4
<1>6. /\ IsFiniteSet(Owners' \cup Clearing')
      /\ Cardinality(Owners' \cup Clearing') = Cardinality(Owners \cup Clearing) - 1
      /\ Cardinality(Owners \cup Clearing) \in Nat
  <2>1. IsFiniteSet(Owners \cup Clearing)
    BY DEF CounterInv
  <2>2. Cardinality(Owners \cup Clearing) \in Nat
    BY <2>1, FS_CardinalityType
  <2> QED
    BY <1>5, <2>1, <2>2, FS_RemoveElement
<1>7. chunkCount \in Int /\ Cardinality(Owners \cup Clearing) <= chunkCount /\ chunkCount' = chunkCount - 1
  BY <1>1, <1>2 DEF TypeInv, TypeOK, CounterInv
<1>8. (IsFiniteSet(Owners \cup Clearing) /\ Cardinality(Owners \cup Clearing) <= chunkCount)'
  BY <1>6, <1>7
<1>9. ASSUME NoneDeleted' PROVE Clearing' \subseteq Owners' /\ chunkCount' = Cardinality(Owners')
  <2>1. NoneDeleted
    BY <1>1, <1>9 DEF NoneDeleted
  <2>2. Clearing \subseteq Owners /\ chunkCount = Cardinality(Owners) /\ d \in Owners
    BY <1>2, <2>1 DEF CounterInv
  <2>3. Owners \in SUBSET (Owners \cup Clearing)
    OBVIOUS
  <2>4. IsFiniteSet(Owners)
    BY <2>3, FS_Subset DEF CounterInv
  <2>5. Cardinality(Owners') = Cardinality(Owners) - 1
    BY <1>3, <2>2, <2>4, FS_RemoveElement
  <2> QED
    BY <1>3, <1>4, <1>7, <2>2, <2>5
<1>10. \A v \in Workers : run'[v].pc = "clear" => run'[v].old = 1
  BY <1>1 DEF TypeInv, TypeOK, CounterInv
<1>11. VisibleDocs' = VisibleDocs
  BY <1>1 DEF VisibleDocs, Visible
<1> QED
  BY <1>1, <1>8, <1>9, <1>10, <1>11 DEF CounterInv

\* A run inserts a batch for a document that has none.
LEMMA SaveCounts ==
  ASSUME TypeInv, LockInv, RunInv, LatestOnly, CounterInv, NEW w \in Workers, SaveChunks(w)
  PROVE  CounterInv'
<1> DEFINE d == run[w].doc
<1>1. /\ run[w].pc = "save" /\ rows' = rows \cup {<<d, serial[d] + 1>>} /\ chunkCount' = chunkCount + 1
      /\ status' = [status EXCEPT ![d] = IF Visible(d) THEN "completed" ELSE status[d]]
      /\ run' = [run EXCEPT ![w].pc = "dispatch"] /\ UNCHANGED docCount
  BY DEF SaveChunks, GoTo, TypeInv, TypeOK, ActorsHaveDocs
<1>2. d \in Docs /\ BatchesOf(rows, d) = {}
  BY <1>1 DEF TypeInv, ActorsHaveDocs, RunInv
<1>3. d \notin Owners
  BY <1>2, OneBatchEach
<1>4. Owners' = Owners \cup {d}
  <2> DEFINE batch == <<d, serial[d] + 1>>
  <2>1. batch[1] = d /\ rows' = rows \cup {batch}
    BY <1>1
  <2> HIDE DEF batch
  <2>2. \A x \in Owners' : x \in Owners \/ x = d
    BY <2>1 DEF Owners
  <2>3. d \in Owners' /\ \A x \in Owners : x \in Owners'
    BY <2>1 DEF Owners
  <2> QED
    BY <2>2, <2>3
<1>5. Clearing' = Clearing /\ d \notin Clearing
  <2>1. \A v \in Workers : v # w => run'[v] = run[v] /\ (run[v].pc = "clear" => run[v].doc # d)
    BY <1>1 DEF TypeInv, TypeOK, LockInv, OneRunPerDocument, Active
  <2>2. run'[w].pc = "dispatch" /\ run[w].pc = "save"
    BY <1>1 DEF TypeInv, TypeOK
  <2> QED
    BY <2>1, <2>2 DEF Clearing
<1>6. \A c \in Docs : /\ status'[c] \in Present <=> Visible(c)
                      /\ status[c] = "deleted" => status'[c] = "deleted"
  BY <1>1, <1>2 DEF TypeInv, TypeOK, Visible, Present
<1> HIDE DEF d
<1>7. Owners' \cup Clearing' = (Owners \cup Clearing) \cup {d} /\ d \notin Owners \cup Clearing
  BY <1>3, <1>4, <1>5
<1>8. /\ IsFiniteSet(Owners' \cup Clearing')
      /\ Cardinality(Owners' \cup Clearing') = Cardinality(Owners \cup Clearing) + 1
      /\ Cardinality(Owners \cup Clearing) \in Nat
  BY <1>7, FS_AddElement, FS_CardinalityType DEF CounterInv
<1>9. chunkCount \in Int /\ Cardinality(Owners \cup Clearing) <= chunkCount /\ chunkCount' = chunkCount + 1
  BY <1>1 DEF TypeInv, TypeOK, CounterInv
<1>10. (IsFiniteSet(Owners \cup Clearing) /\ Cardinality(Owners \cup Clearing) <= chunkCount)'
  BY <1>8, <1>9
<1>11. ASSUME NoneDeleted' PROVE Clearing' \subseteq Owners' /\ chunkCount' = Cardinality(Owners')
  <2>1. NoneDeleted
    BY <1>6, <1>11 DEF NoneDeleted
  <2>2. Clearing \subseteq Owners /\ chunkCount = Cardinality(Owners)
    BY <2>1 DEF CounterInv
  <2>3. Owners \in SUBSET (Owners \cup Clearing)
    OBVIOUS
  <2>4. IsFiniteSet(Owners)
    BY <2>3, FS_Subset DEF CounterInv
  <2>5. Cardinality(Owners') = Cardinality(Owners) + 1
    BY <1>3, <1>4, <2>4, FS_AddElement
  <2> QED
    BY <1>4, <1>5, <1>9, <2>2, <2>5
<1>12. \A v \in Workers : run'[v].pc = "clear" => run'[v].old = 1
  BY <1>1 DEF TypeInv, TypeOK, CounterInv
<1>13. VisibleDocs' = VisibleDocs
  BY <1>6 DEF VisibleDocs, Visible
<1> QED
  BY <1>1, <1>10, <1>11, <1>12, <1>13 DEF CounterInv

\* No step of any actor takes the counters below the tables.
LEMMA CountersStep ==
  ASSUME TypeInv, LockInv, RequestInv, RunInv, LatestOnly, CounterInv, [Next]_vars
  PROVE  CounterInv'
<1> USE DEF database, queues, actors, budget
<1>1. ASSUME UNCHANGED <<rows, chunkCount, docCount, status, run>> PROVE CounterInv'
  BY <1>1, CountersKept DEF Visible, CounterInv
<1>2. ASSUME UNCHANGED <<rows, chunkCount, docCount>>,
             \A d \in Docs : /\ status'[d] \in Present <=> Visible(d)
                             /\ status[d] = "deleted" => status'[d] = "deleted",
             \A v \in Workers : run'[v].pc = "clear" => run'[v] = run[v]
      PROVE  CounterInv'
  BY <1>2, CountersKept DEF CounterInv
<1>3. ASSUME NEW w \in Workers, NEW pc, pc # "clear", run' = [run EXCEPT ![w].pc = pc]
      PROVE  \A v \in Workers : run'[v].pc = "clear" => run'[v] = run[v]
  BY <1>3 DEF TypeInv, TypeOK
<1>4. ASSUME NEW w \in Workers, NEW row, row.pc # "clear", run' = [run EXCEPT ![w] = row]
      PROVE  \A v \in Workers : run'[v].pc = "clear" => run'[v] = run[v]
  BY <1>4 DEF TypeInv, TypeOK
<1>5. ASSUME NEW r \in Requests, NEW d \in Docs, UploadBegin(r, d) \/ DeleteBegin(r, d)
      PROVE  CounterInv'
  BY <1>1, <1>5 DEF UploadBegin, DeleteBegin
<1>6. ASSUME NEW r \in Requests, DeleteRows(r) \/ DeletePurge(r) \/ DeleteUnlink(r) \/ DeleteRollback(r)
      PROVE  CounterInv'
  BY <1>1, <1>6 DEF DeleteRows, DeletePurge, DeleteUnlink, DeleteRollback
<1>7. ASSUME NEW r \in Requests, UploadCommit(r) \/ DeleteCommit(r) PROVE CounterInv'
  BY <1>7, UploadCounts, DeleteCounts
<1>8. ASSUME NEW r \in Requests, UploadRollback(r) PROVE CounterInv'
  <2>1. /\ req[r].pc = "uploading" /\ status' = [status EXCEPT ![req[r].doc] = "deleted"]
        /\ UNCHANGED <<rows, chunkCount, docCount, run>>
    BY <1>8 DEF UploadRollback
  <2>2. status[req[r].doc] = "none" /\ req[r].doc \in Docs
    BY <2>1 DEF RequestInv, TypeInv, ActorsHaveDocs
  <2>3. \A d \in Docs : /\ status'[d] \in Present <=> Visible(d)
                        /\ status[d] = "deleted" => status'[d] = "deleted"
    BY <2>1, <2>2 DEF TypeInv, TypeOK, Visible, Present
  <2> QED
    BY <1>2, <2>1, <2>3
<1>9. ASSUME NEW d \in Docs, Reprocess(d) \/ ExpireLock(d) PROVE CounterInv'
  BY <1>1, <1>9 DEF Reprocess, ExpireLock
<1>10. ASSUME NEW f \in failures, RetryFailure(f) PROVE CounterInv'
  BY <1>1, <1>10 DEF RetryFailure
<1>11. ASSUME NEW w \in Workers, NEW d \in Docs, SkipRun(w, d) PROVE CounterInv'
  BY <1>1, <1>11 DEF SkipRun
<1>12. ASSUME NEW w \in Workers, NEW d \in Docs, StartRun(w, d) \/ StartUnlocked(w, d) PROVE CounterInv'
  <2>1. run' = [run EXCEPT ![w] = [pc |-> "mark", doc |-> d, old |-> 0]]
        /\ UNCHANGED <<rows, chunkCount, docCount, status>>
    BY <1>12 DEF StartRun, StartUnlocked
  <2> QED
    BY <1>2, <1>4, <2>1 DEF Visible
<1>13. ASSUME NEW w \in Workers, MarkProcessing(w) \/ ParseDocument(w) \/ RecordFailure(w) PROVE CounterInv'
  <2>1. UNCHANGED <<rows, chunkCount, docCount>>
        /\ \E pc \in {"count", "release", "save", "fail", "retry"} : run' = [run EXCEPT ![w].pc = pc]
    BY <1>13 DEF MarkProcessing, ParseDocument, RecordFailure, GoTo
  <2>2. \A d \in Docs : /\ status'[d] \in Present <=> Visible(d)
                        /\ status[d] = "deleted" => status'[d] = "deleted"
    BY <1>13 DEF MarkProcessing, ParseDocument, RecordFailure, TypeInv, TypeOK, Visible, Present
  <2> QED
    BY <1>2, <1>3, <2>1, <2>2
<1>14. ASSUME NEW w \in Workers, CountOldChunks(w) PROVE CounterInv'
  <2> DEFINE d == run[w].doc
             old == BatchesOf(rows, d)
             row == [pc |-> IF old = {} THEN "parse" ELSE "clear", doc |-> d, old |-> Cardinality(old)]
  <2>1. /\ run[w].pc = "count" /\ run' = [run EXCEPT ![w] = row]
        /\ UNCHANGED <<rows, chunkCount, docCount, status>>
    BY <1>14 DEF CountOldChunks
  <2>2. d \in Docs
    BY <2>1 DEF TypeInv, ActorsHaveDocs
  <2>3. old # {} => d \in Owners /\ Cardinality(old) = 1
    BY <2>2, OneBatchEach
  <2>4. row.pc = "clear" => row.doc \in Owners /\ row.old = 1
    BY <2>3
  <2> HIDE DEF row, old, d
  <2>5. \A v \in Workers : run'[v] = IF v = w THEN row ELSE run[v]
    BY <2>1 DEF TypeInv, TypeOK
  <2>6. \A v \in Workers : run'[v].pc = "clear" =>
          run'[v].old = 1 /\ (run'[v] = run[v] \/ run'[v].doc \in Owners)
    BY <2>4, <2>5 DEF CounterInv
  <2> QED
    BY <2>1, <2>6, CountersKept DEF Visible
<1>15. ASSUME NEW w \in Workers, DeleteOldChunks(w) \/ SaveChunks(w) PROVE CounterInv'
  BY <1>15, ClearCounts, SaveCounts
<1>16. ASSUME NEW w \in Workers,
              PurgeOldVectors(w) \/ DispatchEmbedding(w) \/ AbortRun(w) \/ OverrunTTL(w)
       PROVE  CounterInv'
  <2>1. UNCHANGED <<rows, chunkCount, docCount, status>>
    BY <1>16 DEF PurgeOldVectors, DispatchEmbedding, AbortRun, OverrunTTL
  <2>2. UNCHANGED run \/ \E pc \in {"parse", "release", "fail"} : run' = [run EXCEPT ![w].pc = pc]
    BY <1>16 DEF PurgeOldVectors, DispatchEmbedding, AbortRun, OverrunTTL, GoTo
  <2> QED
    BY <1>1, <1>2, <1>3, <2>1, <2>2 DEF Visible
<1>17. ASSUME NEW w \in Workers, ReleaseLock(w) \/ CrashRun(w) PROVE CounterInv'
  <2>1. run' = [run EXCEPT ![w] = IdleRun] /\ UNCHANGED <<rows, chunkCount, docCount, status>>
    BY <1>17 DEF ReleaseLock, CrashRun
  <2>2. IdleRun.pc # "clear"
    BY DEF IdleRun
  <2> QED
    BY <1>2, <1>4, <2>1, <2>2 DEF Visible
<1>18. ASSUME NEW e \in Embedders, NEW d \in Docs, StartEmbed(e, d) PROVE CounterInv'
  BY <1>1, <1>18 DEF StartEmbed
<1>19. ASSUME NEW e \in Embedders, UpsertVectors(e) \/ RecordVectorIds(e) \/ CrashEmbed(e) PROVE CounterInv'
  BY <1>1, <1>19 DEF UpsertVectors, RecordVectorIds, CrashEmbed
<1>20. ASSUME NEW S \in SUBSET Docs, BacklogCompensation(S) \/ RecoverStuckTasks(S) PROVE CounterInv'
  BY <1>1, <1>20 DEF BacklogCompensation, RecoverStuckTasks
<1>21. ASSUME NEW S \in SUBSET Docs, ConsistencyScan(S) PROVE CounterInv'
  <2>1. UNCHANGED <<rows, chunkCount, docCount, run>>
    BY <1>21 DEF ConsistencyScan
  <2>2. \A d \in Docs : /\ status'[d] \in Present <=> Visible(d)
                        /\ status[d] = "deleted" => status'[d] = "deleted"
    BY <1>21 DEF ConsistencyScan, Stuck, TypeInv, TypeOK, Visible, Present
  <2> QED
    BY <1>2, <2>1, <2>2
<1>22. CASE ProbeFiles
  BY <1>1, <1>22 DEF ProbeFiles
<1>23. CASE UNCHANGED vars
  BY <1>1, <1>23 DEF vars
<1> QED
  BY <1>5, <1>6, <1>7, <1>8, <1>9, <1>10, <1>11, <1>12, <1>13, <1>14, <1>15, <1>16, <1>17, <1>18, <1>19,
     <1>20, <1>21, <1>22, <1>23
  DEF Next, RunStep, EmbedStep, RequestStep

\* chunk_count covers the rows and equals them until a document is deleted, and document_count
\* never exceeds the documents: for any number of documents, workers and requests whose runs,
\* deletes, crashes and retries interleave, while the lock can be relied on.
THEOREM CountersFollow ==
  ASSUME LockReliable
  PROVE  Spec => []CountersTrackTables
<1>1. Init => CounterInv
  <2> SUFFICES ASSUME Init PROVE CounterInv
    OBVIOUS
  <2>1. Owners = {} /\ Clearing = {} /\ VisibleDocs = {}
    BY DEF Init, Owners, Clearing, VisibleDocs, Visible, Present, IdleRun
  <2>2. \A w \in Workers : run[w].pc # "clear"
    BY DEF Init, IdleRun
  <2> QED
    BY <2>1, <2>2, FS_EmptySet DEF Init, CounterInv
<1>2. IInv /\ CounterInv /\ [Next]_vars => CounterInv'
  BY CountersStep DEF IInv
<1>3. IInv /\ CounterInv => CountersTrackTables
  BY CountersConclude DEF IInv
<1> QED
  BY <1>1, <1>2, <1>3, PipelineInvariant, PTL DEF Spec
=============================================================================
