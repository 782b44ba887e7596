--------------------------- MODULE CollectionLife ---------------------------
(***************************************************************************)
(* The Milvus collection of one knowledge base: its embedding tasks, a     *)
(* reindex that builds a second collection and swaps it in, the cleaning   *)
(* of orphan vectors, the consistency scan, and the deletion of the base.  *)
(*                                                                         *)
(* None of these tasks excludes another.  A collection is <<>> when it     *)
(* does not exist and <<S>> when it holds the vectors of the chunks S.     *)
(* How a chunk's row and vector are written and purged together is the     *)
(* matter of DocumentContent and EntryIndex; here a row comes and goes in  *)
(* one step and leaves its vector behind.                                  *)
(***************************************************************************)
EXTENDS Integers, FiniteSets

CONSTANTS
  CoChunks,       \* chunk ids 1..n, in the order of their rows; each is used by one row
  CoReindexers,   \* reindex_kb tasks that may run at a time
  CoRetries,      \* max_retries of reindex_kb
  CoMaxReindexes, \* bound: requests for a reindex
  CoMaxFaults     \* bound: failures of a task, deaths of a worker

ASSUME CollectionAssumption ==
  CoChunks \subseteq Nat /\ IsFiniteSet(CoChunks) /\ CoRetries \in Nat /\ CoMaxReindexes \in Nat /\ CoMaxFaults \in Nat

VARIABLES
  coBase,      \* knowledge_bases.status; "none" before and "gone" after the row
  coRows,      \* chunks
  coMarked,    \* chunks whose vector_id is set
  coSpent,     \* chunk ids that have been used
  coMain,      \* the collection kb_<id>
  coNew,       \* the collection kb_<id>_new
  coEmb,       \* an embed_unit_chunks task
  coReindex,   \* reindex_kb tasks, with their failed attempts
  coScan,      \* consistency_scan: what it has listed
  coClean,     \* clean_orphan_vectors: what it has listed
  coCascade,   \* cascade_delete_kb: "idle" or "dropped"
  coTorn,      \* history: a reindex gave up with no collection left, or met a second
               \* reindex, or a scan dropped its collection
  coReindexes, coFaults

coTables == <<coBase, coRows, coMarked, coSpent>>
coStores == <<coMain, coNew>>
coTasks  == <<coEmb, coReindex, coScan, coClean, coCascade>>
coBounds == <<coReindexes, coFaults>>
collectionVars == <<coTables, coStores, coTasks, coTorn, coBounds>>

Gone       == <<>>
Exists(c)  == c # Gone
Held(c)    == IF Exists(c) THEN c[1] ELSE {}
Collections == {Gone} \cup {<<S>> : S \in SUBSET CoChunks}
NoBatch    == [pc |-> "idle", batch |-> {}]
NoReindex  == [pc |-> "idle", batch |-> {}, tries |-> 0]
NoScan     == [pc |-> "idle", main |-> FALSE, new |-> FALSE, active |-> FALSE]

CollectionTypeOK ==
  /\ coBase \in {"none", "active", "deleting", "gone"}
  /\ coMarked \subseteq coRows /\ coRows \subseteq coSpent /\ coSpent \subseteq CoChunks
  /\ coMain \in Collections /\ coNew \in Collections
  /\ coEmb \in [pc : {"idle", "create", "upsert", "mark"}, batch : SUBSET CoChunks]
  /\ coReindex \in [CoReindexers -> [pc : {"idle", "sent", "create", "upsert", "drop", "rename", "mark"},
                                     batch : SUBSET CoChunks, tries : 0..CoRetries]]
  /\ coScan \in [pc : {"idle", "listed", "read"}, main : BOOLEAN, new : BOOLEAN, active : BOOLEAN]
  /\ coClean \in [pc : {"idle", "listed", "read"}, batch : SUBSET CoChunks]
  /\ coCascade \in {"idle", "dropped"} /\ coTorn \in BOOLEAN
  /\ coReindexes \in 0..CoMaxReindexes /\ coFaults \in 0..CoMaxFaults

CollectionInit ==
  /\ coBase = "none" /\ coRows = {} /\ coMarked = {} /\ coSpent = {}
  /\ coMain = Gone /\ coNew = Gone
  /\ coEmb = NoBatch /\ coReindex = [x \in CoReindexers |-> NoReindex]
  /\ coScan = NoScan /\ coClean = NoBatch /\ coCascade = "idle"
  /\ coTorn = FALSE /\ coReindexes = 0 /\ coFaults = 0

\* Bounds: a scan, a cleaning and a fault keep apart.
NoSweep == coScan.pc = "idle" /\ coClean.pc = "idle"
CollectionFault == NoSweep /\ coFaults < CoMaxFaults /\ coFaults' = coFaults + 1
Quiet == NoSweep /\ coFaults = 0

-----------------------------------------------------------------------------
(***************************************************************************)
(* The base and its rows.                                                  *)
(***************************************************************************)

CreateBase ==
  /\ coBase = "none" /\ coBase' = "active"
  /\ UNCHANGED <<coRows, coMarked, coSpent, coStores, coTasks, coTorn, coBounds>>

AddRow(c) ==
  /\ coBase = "active" /\ c = Cardinality(coSpent) + 1
  /\ coRows' = coRows \cup {c} /\ coSpent' = coSpent \cup {c}
  /\ UNCHANGED <<coBase, coMarked, coStores, coTasks, coTorn, coBounds>>

\* A chunk, an entry or a document is deleted; its vector is left behind.
RemoveRow(c) ==
  /\ c \in coRows /\ coBase = "active"
  /\ coRows' = coRows \ {c} /\ coMarked' = coMarked \ {c}
  /\ UNCHANGED <<coBase, coSpent, coStores, coTasks, coTorn, coBounds>>

\* delete_kb: mark_kb_deleting, once.  Bound: it comes when no fault has been and no
\* reindex is under way.
DeleteBase ==
  /\ coBase = "active" /\ coBase' = "deleting"
  /\ coFaults = 0 /\ \A x \in CoReindexers : coReindex[x].pc = "idle"
  /\ UNCHANGED <<coRows, coMarked, coSpent, coStores, coTasks, coTorn, coBounds>>

\* cascade_delete_kb, sent by the request and again by the scan after an hour.
CascadeDrop ==
  /\ coBase = "deleting" /\ coCascade = "idle"
  /\ coMain' = Gone /\ coCascade' = "dropped"
  /\ UNCHANGED <<coTables, coNew, coEmb, coReindex, coScan, coClean, coTorn, coBounds>>

CascadeDelete ==
  /\ coCascade = "dropped" /\ coCascade' = "idle"
  /\ coBase' = "gone" /\ coRows' = {} /\ coMarked' = {}
  /\ UNCHANGED <<coSpent, coStores, coEmb, coReindex, coScan, coClean, coTorn, coBounds>>

\* MinIO or Postgres fails; the collection is gone and the task comes again.
CascadeFail ==
  /\ CollectionFault
  /\ coCascade = "dropped" /\ coCascade' = "idle"
  /\ UNCHANGED <<coTables, coStores, coEmb, coReindex, coScan, coClean, coTorn, coReindexes>>

-----------------------------------------------------------------------------
(***************************************************************************)
(* embed_unit_chunks.  It looks for the row of the base, whose status it   *)
(* does not read.                                                          *)
(***************************************************************************)

EmbTakeFirst ==   \* mutant: a base that has something embedded is passed over
  /\ coEmb.pc = "idle" /\ coBase \in {"active", "deleting"} /\ coRows # {} /\ coMarked = {}
  /\ coEmb' = [pc |-> "create", batch |-> coRows \ coMarked]
  /\ UNCHANGED <<coTables, coStores, coReindex, coScan, coClean, coCascade, coTorn, coBounds>>
EmbTake ==
  /\ coEmb.pc = "idle" /\ coBase \in {"active", "deleting"} /\ coRows \ coMarked # {}
  /\ coEmb' = [pc |-> "create", batch |-> coRows \ coMarked]
  /\ UNCHANGED <<coTables, coStores, coReindex, coScan, coClean, coCascade, coTorn, coBounds>>

Ensured(c) == IF Exists(c) THEN c ELSE <<{}>>

EmbCreate ==
  /\ coEmb.pc = "create" /\ coEmb' = [coEmb EXCEPT !.pc = "upsert"]
  /\ coMain' = Ensured(coMain)
  /\ UNCHANGED <<coTables, coNew, coReindex, coScan, coClean, coCascade, coTorn, coBounds>>

\* An upsert into a collection that has been dropped raises.
EmbUpsert ==
  /\ coEmb.pc = "upsert"
  /\ IF Exists(coMain)
       THEN /\ coMain' = <<Held(coMain) \cup coEmb.batch>>
            /\ coEmb' = [coEmb EXCEPT !.pc = "mark"]
       ELSE coEmb' = NoBatch /\ UNCHANGED coMain
  /\ UNCHANGED <<coTables, coNew, coReindex, coScan, coClean, coCascade, coTorn, coBounds>>

EmbMarkAll ==   \* mutant: the ids are written for chunks that are gone
  /\ coEmb.pc = "mark" /\ coEmb' = NoBatch
  /\ coMarked' = coMarked \cup coEmb.batch
  /\ UNCHANGED <<coBase, coRows, coSpent, coStores, coReindex, coScan, coClean, coCascade, coTorn, coBounds>>
EmbMark ==
  /\ coEmb.pc = "mark" /\ coEmb' = NoBatch
  /\ coMarked' = coMarked \cup (coEmb.batch \cap coRows)
  /\ UNCHANGED <<coBase, coRows, coSpent, coStores, coReindex, coScan, coClean, coCascade, coTorn, coBounds>>

-----------------------------------------------------------------------------
(***************************************************************************)
(* reindex_kb.                                                             *)
(***************************************************************************)

ReindexOver(x) == \E y \in CoReindexers \ {x} : coReindex[y].pc \notin {"idle", "sent"}
ReindexTo(x, pc) == coReindex' = [coReindex EXCEPT ![x].pc = pc]

\* The except branch: the new collection is removed, and the task retried or given up.
ReindexFails(x) ==
  LET last == coReindex[x].tries = CoRetries IN
  /\ coReindex' = [coReindex EXCEPT ![x] =
                     IF last THEN NoReindex
                     ELSE [NoReindex EXCEPT !.pc = "sent", !.tries = coReindex[x].tries + 1]]
  /\ coNew' = Gone
  /\ coTorn' = (coTorn \/ (last /\ ~Exists(coMain)))
ReindexRest == UNCHANGED <<coEmb, coScan, coClean, coCascade>>

RequestReindex(x) ==
  /\ coReindexes < CoMaxReindexes /\ coReindexes' = coReindexes + 1
  /\ coBase = "active" /\ coReindex[x].pc = "idle" /\ ReindexTo(x, "sent")
  /\ ReindexRest /\ UNCHANGED <<coTables, coStores, coTorn, coFaults>>

\* Every row is read, marked or not.
ReindexTake(x) ==
  /\ coReindex[x].pc = "sent"
  /\ IF coBase \in {"active", "deleting"} /\ coRows # {}
       THEN coReindex' = [coReindex EXCEPT ![x].pc = "create", ![x].batch = coRows]
       ELSE coReindex' = [coReindex EXCEPT ![x] = NoReindex]
  /\ coTorn' = (coTorn \/ ReindexOver(x))
  /\ ReindexRest /\ UNCHANGED <<coTables, coStores, coBounds>>

\* A collection that an earlier task left behind is used again, with what it holds.
ReindexCreate(x) ==
  /\ coReindex[x].pc = "create" /\ ReindexTo(x, "upsert")
  /\ coNew' = Ensured(coNew)
  /\ ReindexRest /\ UNCHANGED <<coTables, coMain, coTorn, coBounds>>

ReindexUpsert(x) ==
  /\ coReindex[x].pc = "upsert"
  /\ IF Exists(coNew)
       THEN coNew' = <<Held(coNew) \cup coReindex[x].batch>> /\ ReindexTo(x, "drop") /\ UNCHANGED coTorn
       ELSE ReindexFails(x)
  /\ ReindexRest /\ UNCHANGED <<coTables, coMain, coBounds>>

ReindexDrop(x) ==
  /\ coReindex[x].pc = "drop" /\ ReindexTo(x, "rename")
  /\ coMain' = Gone
  /\ ReindexRest /\ UNCHANGED <<coTables, coNew, coTorn, coBounds>>

\* The rename fails when an embedding task has made the collection again.
ReindexRename(x) ==
  /\ coReindex[x].pc = "rename"
  /\ IF Exists(coNew) /\ ~Exists(coMain)
       THEN coMain' = coNew /\ coNew' = Gone /\ ReindexTo(x, "mark") /\ UNCHANGED coTorn
       ELSE ReindexFails(x) /\ UNCHANGED coMain
  /\ ReindexRest /\ UNCHANGED <<coTables, coBounds>>

ReindexMark(x) ==
  /\ coReindex[x].pc = "mark"
  /\ coReindex' = [coReindex EXCEPT ![x] = NoReindex]
  /\ coMarked' = coMarked \cup (coReindex[x].batch \cap coRows)
  /\ ReindexRest /\ UNCHANGED <<coBase, coRows, coSpent, coStores, coTorn, coBounds>>

\* The model or Milvus fails.
ReindexFail(x) ==
  /\ CollectionFault
  /\ coReindex[x].pc \in {"create", "upsert", "drop", "rename"}
  /\ ReindexFails(x)
  /\ ReindexRest /\ UNCHANGED <<coTables, coMain, coReindexes>>

\* The worker is lost; the message is delivered again.
ReindexDie(x) ==
  /\ CollectionFault
  /\ coReindex[x].pc \notin {"idle", "sent"}
  /\ coReindex' = [coReindex EXCEPT ![x].pc = "sent", ![x].batch = {}]
  /\ ReindexRest /\ UNCHANGED <<coTables, coStores, coTorn, coReindexes>>

-----------------------------------------------------------------------------
(***************************************************************************)
(* consistency_scan: first the collections are listed, then the bases are  *)
(* read; every listed kb_ collection that is not of an active base goes,   *)
(* the collection of a reindex too.                                        *)
(***************************************************************************)

ScanList ==
  /\ Quiet
  /\ coScan' = [NoScan EXCEPT !.pc = "listed", !.main = Exists(coMain), !.new = Exists(coNew)]
  /\ UNCHANGED <<coTables, coStores, coEmb, coReindex, coClean, coCascade, coTorn, coBounds>>

ScanReadMarked ==   \* mutant: a base with nothing embedded is taken for gone
  /\ coScan.pc = "listed"
  /\ coScan' = [coScan EXCEPT !.pc = "read", !.active = (coMarked # {})]
  /\ UNCHANGED <<coTables, coStores, coEmb, coReindex, coClean, coCascade, coTorn, coBounds>>
ScanRead ==
  /\ coScan.pc = "listed"
  /\ coScan' = [coScan EXCEPT !.pc = "read", !.active = (coBase = "active")]
  /\ UNCHANGED <<coTables, coStores, coEmb, coReindex, coClean, coCascade, coTorn, coBounds>>

Sweeps(main) == coScan.main /\ ~main
ScanDrop ==
  /\ coScan.pc = "read" /\ coScan' = NoScan
  /\ coMain' = IF Sweeps(coScan.active) THEN Gone ELSE coMain
  /\ coNew' = IF coScan.new THEN Gone ELSE coNew
  /\ coTorn' = (coTorn \/ (coScan.new /\ \E x \in CoReindexers : coReindex[x].pc \notin {"idle", "sent"}))
  /\ UNCHANGED <<coTables, coEmb, coReindex, coClean, coCascade, coBounds>>

\* The listing, or a drop, raises: the scan goes on.
ScanSkip ==
  /\ coScan.pc # "idle" /\ coScan' = NoScan
  /\ UNCHANGED <<coTables, coStores, coEmb, coReindex, coClean, coCascade, coTorn, coBounds>>

\* Marks without a vector are taken back, if there is a collection to ask.
CheckVectors ==
  /\ Exists(coMain) /\ coMarked \ Held(coMain) # {}
  /\ coMarked' = coMarked \cap Held(coMain)
  /\ UNCHANGED <<coBase, coRows, coSpent, coStores, coTasks, coTorn, coBounds>>

-----------------------------------------------------------------------------
(***************************************************************************)
(* clean_orphan_vectors: the ids in Milvus, then the ids in Postgres.      *)
(***************************************************************************)

CleanFromRows ==   \* mutant: the rows are read first, and vectors come in between
  /\ Quiet /\ Exists(coMain)
  /\ coClean' = [pc |-> "listed", batch |-> CoChunks \ coRows]
  /\ UNCHANGED <<coTables, coStores, coEmb, coReindex, coScan, coCascade, coTorn, coBounds>>
CleanList ==
  /\ Quiet /\ Exists(coMain)
  /\ coClean' = [pc |-> "listed", batch |-> Held(coMain)]
  /\ UNCHANGED <<coTables, coStores, coEmb, coReindex, coScan, coCascade, coTorn, coBounds>>

Orphans == coClean.batch \ coRows

CleanRead ==
  /\ coClean.pc = "listed" /\ coClean' = [pc |-> "read", batch |-> Orphans]
  /\ UNCHANGED <<coTables, coStores, coEmb, coReindex, coScan, coCascade, coTorn, coBounds>>

CleanDelete ==
  /\ coClean.pc = "read" /\ coClean' = NoBatch
  /\ coMain' = IF Exists(coMain) THEN <<Held(coMain) \ coClean.batch>> ELSE coMain
  /\ UNCHANGED <<coTables, coNew, coEmb, coReindex, coScan, coCascade, coTorn, coBounds>>

-----------------------------------------------------------------------------
Reindexing(x) == \/ ReindexTake(x) \/ ReindexCreate(x) \/ ReindexUpsert(x) \/ ReindexDrop(x)
                 \/ ReindexRename(x) \/ ReindexMark(x)
Embedding == EmbTake \/ EmbCreate \/ EmbUpsert \/ EmbMark

CollectionNext ==
  \/ CreateBase \/ DeleteBase \/ CascadeDrop \/ CascadeDelete \/ CascadeFail
  \/ \E c \in CoChunks : AddRow(c) \/ RemoveRow(c)
  \/ Embedding
  \/ \E x \in CoReindexers : \/ RequestReindex(x) \/ Reindexing(x) \/ ReindexDie(x)
                             \/ ReindexFail(x)
  \/ ScanList \/ ScanRead \/ ScanDrop \/ ScanSkip \/ CheckVectors
  \/ CleanList \/ CleanRead \/ CleanDelete

\* Tasks that have begun or wait in a queue are run; the backlog sweep, which sends
\* what is not embedded, and the scan come round.
CollectionFairness ==
  /\ WF_collectionVars(Embedding) /\ WF_collectionVars(CheckVectors)
  /\ \A x \in CoReindexers : WF_collectionVars(Reindexing(x))
CollectionSpec == CollectionInit /\ [][CollectionNext]_collectionVars

-----------------------------------------------------------------------------
\* The consistency scan never drops the collection of a base that is in use, however
\* the base is created and its first rows embedded while the scan runs.
ScanSparesActive ==
  [][coScan.pc = "read" /\ coScan'.pc = "idle" /\ coBase = "active" /\ Exists(coMain) => Exists(coMain')]_collectionVars

\* Cleaning never deletes the vector of a row, whatever is inserted, embedded, deleted
\* or reindexed between its two listings and its deletion.
CleanSparesRows ==
  [][coClean.pc = "read" /\ coClean'.pc = "idle" =>
       Held(coMain) \cap coRows \subseteq Held(coMain')]_collectionVars

\* Neither the scan nor the cleaning takes what is in use.
CleanupSpares == ScanSparesActive /\ CleanSparesRows

\* However rows come and go during a reindex, and whatever fails in it, in the end the
\* collection has a vector for every row: those embedded into the old collection are
\* unmarked by the scan and embedded again.
RowsSearchable ==
  <>[](coBase = "active" /\ ~coTorn => coRows = coMarked /\ coRows \subseteq Held(coMain))
=============================================================================
