----------------------------- MODULE SummaryTree -----------------------------
(***************************************************************************)
(* RAPTOR: after a document is embedded a task clusters its chunks, has each *)
(* cluster summarised and the summaries clustered in turn, and adds them as *)
(* rows of higher levels, while the document is edited, processed again or  *)
(* deleted.  How rows and vectors of one embedding interleave is the        *)
(* subject of DocumentPipeline: here an embedding is one step.              *)
(***************************************************************************)
EXTENDS Integers, FiniteSetsExt, Functions

CONSTANTS
  StChunks,       \* how many chunks of level 0 a document gives
  StBuilds,       \* runs of build_raptor_for_document: 1, 2, ...
  StMinSeeds,     \* chunks a build asks for: 4 in the code
  StMinCluster,   \* min_cluster_size: 2
  StLevelMin,     \* nodes a level asks for: min_cluster_size * 2, 4
  StSingle, StDensity,  \* _pick_k: below 4 nodes one cluster; of n nodes sqrt(n * density / 2), density 1
  StMaxLevels,    \* raptor_max_levels
  StMaxOps,       \* bound: edits, reprocesses, deletions
  StNarrow        \* bound: TRUE takes only the choices that Editable, FromLargest and Fails name

ASSUME TreeAssumption ==
  /\ StChunks \in Nat \ {0} /\ StBuilds \subseteq Nat \ {0} /\ IsFiniteSet(StBuilds)
  /\ StMinCluster \in Nat \ {0, 1} /\ StMaxLevels \in Nat \ {0} /\ StMaxOps \in Nat /\ StNarrow \in BOOLEAN

VARIABLES
  stDoc,          \* the document: live or gone
  stGen,          \* how often it was processed
  stRun,          \* the reprocess under way: idle, purge, insert
  stRows,         \* its rows in chunks: [id, level, build, kids, marked]
  stIndex,        \* ids of vectors in Milvus
  stQueue,        \* messages to build
  stBuild,
  stCut,          \* history: chunks that were deleted one by one
  stOps

treeVars == <<stDoc, stGen, stRun, stRows, stIndex, stQueue, stBuild, stCut, stOps>>

\* A node: of a processing or of a build, its level in the build, its place in the level.
LeafId(gen, i) == <<gen, 0, i>>
SummaryId(b, level, i) == <<b, level, i>>
Leaves(gen) == {[id |-> LeafId(gen, i), level |-> 0, build |-> 0, kids |-> {}, marked |-> FALSE] : i \in 1..StChunks}
          \cup {[id |-> LeafId(gen, 0), level |-> 1, build |-> 0, kids |-> {}, marked |-> FALSE]}  \* under a heading
RestBuild == [pc |-> "idle", nodes |-> {}, level |-> 1, out |-> {}, alone |-> TRUE]

TreeInit ==
  /\ stDoc = "live" /\ stGen = 1 /\ stRun = "idle" /\ stRows = Leaves(1) /\ stIndex = {}
  /\ stQueue = 0 /\ stBuild = [b \in StBuilds |-> RestBuild] /\ stCut = {} /\ stOps = 0

SpendEdit == stOps < StMaxOps /\ stOps' = stOps + 1
Ids(R) == {r.id : r \in R}

\* embed_unit_chunks, dispatched or found by the sweep: rows without a vector get one, and a
\* build is asked for, each time.
EmbedUnit ==
  /\ stDoc = "live" /\ \E r \in stRows : ~r.marked
  /\ stIndex' = stIndex \cup Ids({r \in stRows : ~r.marked})
  /\ stRows' = {[r EXCEPT !.marked = TRUE] : r \in stRows}
  /\ stQueue' = Min({stQueue + 1, Cardinality({b \in StBuilds : stBuild[b].pc = "idle"})})   \* bound: builds
  /\ UNCHANGED <<stDoc, stGen, stRun, stBuild, stOps, stCut>>

\* Editing and deleting one chunk.  bound: of the leaves the first, which of them does not matter
Editable == {r \in stRows : StNarrow => r.id = LeafId(stGen, 1) \/ r.build # 0}
EditChunk ==          \* the old vector stays until the row is embedded again
  /\ SpendEdit /\ \E r \in Editable : r.marked /\ stRows' = (stRows \ {r}) \cup {[r EXCEPT !.marked = FALSE]}
  /\ UNCHANGED <<stDoc, stGen, stRun, stIndex, stQueue, stBuild, stCut>>
DropChunk ==
  /\ SpendEdit /\ \E r \in Editable :
       /\ stRows' = stRows \ {r} /\ stCut' = stCut \cup {r.id}
       /\ \/ r.marked /\ stIndex' = stIndex \ {r.id}
          \/ UNCHANGED stIndex       \* nothing to remove, or Milvus fails
  /\ UNCHANGED <<stDoc, stGen, stRun, stQueue, stBuild>>

(***************************************************************************)
(* Processing again and deleting take all rows of the document, whatever    *)
(* their level; the vectors go in a step of their own.                      *)
(***************************************************************************)
Disturbed == [b \in StBuilds |-> [stBuild[b] EXCEPT !.alone = FALSE]]
StartReprocess ==
  /\ SpendEdit /\ stDoc = "live" /\ stRun = "idle"
  /\ stRun' = "purge" /\ stRows' = {} /\ stBuild' = Disturbed
  /\ UNCHANGED <<stDoc, stGen, stIndex, stQueue, stCut>>
PurgeUnit ==
  /\ stRun = "purge" /\ stRun' = "insert" /\ stIndex' = {}
  /\ UNCHANGED <<stDoc, stGen, stRows, stQueue, stBuild, stOps, stCut>>
InsertRows ==
  /\ stRun = "insert" /\ stRun' = "idle"
  /\ \/ stGen' = stGen + 1 /\ stRows' = stRows \cup Leaves(stGen + 1)
     \/ stDoc = "gone" /\ UNCHANGED <<stGen, stRows>>     \* unless deleted after the run read it
  /\ UNCHANGED <<stDoc, stIndex, stQueue, stBuild, stOps, stCut>>
DeleteUnit ==
  /\ SpendEdit /\ stDoc = "live"
  /\ stDoc' = "gone" /\ stRows' = {} /\ stIndex' = {} /\ stBuild' = Disturbed
  /\ UNCHANGED <<stGen, stRun, stQueue, stCut>>

(***************************************************************************)
(* A build.                                                                 *)
(***************************************************************************)
BuildGoes(b, x) == stBuild' = [stBuild EXCEPT ![b] = x]
BuildEnds(b) == BuildGoes(b, [RestBuild EXCEPT !.pc = "ended"])
SeedRowsAny == {r \in stRows : r.marked}          \* mutant: summaries are clustered again
SeedRows == {r \in stRows : r.marked /\ r.level = 0}
ReadLeaves(b) ==
  /\ stBuild[b].pc = "idle" /\ stQueue > 0 /\ stQueue' = stQueue - 1
  /\ \A c \in StBuilds : c < b => stBuild[c].pc # "idle"
  /\ IF stDoc = "gone" \/ Cardinality(SeedRows) < StMinSeeds THEN BuildEnds(b)
     ELSE BuildGoes(b, [RestBuild EXCEPT !.pc = "read", !.nodes = Ids(SeedRows)])
  /\ UNCHANGED <<stDoc, stGen, stRun, stRows, stIndex, stOps, stCut>>

FetchVectors(b) ==
  /\ stBuild[b].pc = "read"
  /\ LET seeds == stBuild[b].nodes \cap stIndex IN
     \/ BuildGoes(b, [stBuild[b] EXCEPT !.pc = "cluster", !.nodes = seeds]) /\ Cardinality(seeds) >= StMinSeeds
     \/ BuildEnds(b)     \* too few, or Milvus does not answer
  /\ UNCHANGED <<stDoc, stGen, stRun, stRows, stIndex, stQueue, stOps, stCut>>

Sqrt(n) == CHOOSE k \in 0..n : k * k <= n /\ (k + 1) * (k + 1) > n
PickK(n) == IF n < StSingle THEN 1 ELSE Min({Max({2, Sqrt((n * StDensity) \div 2)}), 20})
\* What k-means gives is a label from 1 to k for every node.
\* bound: the clusters are intervals of the places in the level, from the largest to the smallest
Cluster(labels, i) == {n \in DOMAIN labels : labels[n] = i}
FromLargest(labels, k) ==
  /\ \A m, n \in DOMAIN labels : m[3] < n[3] => labels[m] <= labels[n]
  /\ \A i, j \in 1..k : i < j => Cardinality(Cluster(labels, j)) <= Cardinality(Cluster(labels, i))
Labellings(nodes, k) == {labels \in [nodes -> 1..k] : /\ k >= Cardinality(nodes) => IsInjective(labels)
                                                      /\ StNarrow => FromLargest(labels, k)}
\* Clusters too small or without a summary are left out.
Summarised(labels, mute) == {i \in Range(labels) \ mute : Cardinality(Cluster(labels, i)) >= StMinCluster}

\* RaptorSummary: the row of a cluster, its members as children.
LevelRow(b, level, labels, i) ==
  [id |-> SummaryId(b, level, i), level |-> level, build |-> b, kids |-> Cluster(labels, i), marked |-> FALSE]

\* bound: the model fails in the first build only, and of the clusters at most the largest
\* gets no summary
Fails(b) == StNarrow => b = 1
Mutes(b, k) == IF StNarrow THEN (IF b = 1 THEN {{}, {1}} ELSE {{}}) ELSE SUBSET (1..k)

NodesStop(b) == LET n == Cardinality(stBuild[b].nodes) IN
                stBuild[b].level > StMaxLevels \/ n < StLevelMin \/ PickK(n) <= 1
ClusterLevel(b) ==
  /\ stBuild[b].pc = "cluster" /\ ~NodesStop(b)
  /\ LET k == PickK(Cardinality(stBuild[b].nodes))
         level == stBuild[b].level IN
     \E labels \in Labellings(stBuild[b].nodes, k), mute \in Mutes(b, k), embedded \in {TRUE, ~Fails(b)} :
       LET kept == Summarised(labels, mute)
           new == {LevelRow(b, level, labels, i) : i \in kept} IN
       /\ kept = {} => embedded
       /\ BuildGoes(b, [stBuild[b] EXCEPT !.out = @ \cup new, !.level = @ + 1,
            !.pc = IF kept = {} \/ ~embedded THEN "insert" ELSE "cluster",
            !.nodes = {SummaryId(b, level, i) : i \in kept}])
  /\ UNCHANGED <<stDoc, stGen, stRun, stRows, stIndex, stQueue, stOps, stCut>>
StopLevels(b) ==
  /\ stBuild[b].pc = "cluster" /\ NodesStop(b) /\ BuildGoes(b, [stBuild[b] EXCEPT !.pc = "insert"])
  /\ UNCHANGED <<stDoc, stGen, stRun, stRows, stIndex, stQueue, stOps, stCut>>

\* history: a build that a reprocess or a deletion overlapped signs with its negative
SignedRows(x, b) == {[r EXCEPT !.build = IF x.alone THEN b ELSE 0 - b] : r \in x.out}
\* The rows of an earlier build are not looked for.
InsertSummaries(b) ==
  /\ stBuild[b].pc = "insert"
  /\ \/ (stBuild[b].out = {} \/ stDoc = "gone") /\ BuildEnds(b) /\ UNCHANGED stRows
     \/ /\ stBuild[b].out # {}               \* the document may go once it was read
        /\ stRows' = stRows \cup SignedRows(stBuild[b], b)
        /\ BuildGoes(b, [stBuild[b] EXCEPT !.pc = "embed"])
  /\ UNCHANGED <<stDoc, stGen, stRun, stIndex, stQueue, stOps, stCut>>

EmbedSummaries(b) ==   \* a failure leaves the rows to the sweep
  /\ stBuild[b].pc = "embed"
  /\ \/ stIndex' = stIndex \cup Ids(stBuild[b].out) /\ BuildGoes(b, [stBuild[b] EXCEPT !.pc = "mark"])
     \/ UNCHANGED stIndex /\ BuildEnds(b)
  /\ UNCHANGED <<stDoc, stGen, stRun, stRows, stQueue, stOps, stCut>>
MarkSummaries(b) ==
  /\ stBuild[b].pc = "mark" /\ BuildEnds(b)
  /\ stRows' = {IF r.id \in Ids(stBuild[b].out) THEN [r EXCEPT !.marked = TRUE] ELSE r : r \in stRows}
  /\ UNCHANGED <<stDoc, stGen, stRun, stIndex, stQueue, stOps, stCut>>

TreeNext ==
  \/ EmbedUnit \/ EditChunk \/ DropChunk \/ StartReprocess \/ PurgeUnit \/ InsertRows \/ DeleteUnit
  \/ \E b \in StBuilds : \/ ReadLeaves(b) \/ FetchVectors(b) \/ ClusterLevel(b) \/ StopLevels(b)
                         \/ InsertSummaries(b) \/ EmbedSummaries(b) \/ MarkSummaries(b)
TreeSpec == TreeInit /\ [][TreeNext]_treeVars

-----------------------------------------------------------------------------
\* Every variable holds values of its kind.
Nodes == Nat \X Nat \X Int
TreeRows == [id : Nodes, level : 0..StMaxLevels, build : Int, kids : SUBSET Nodes, marked : BOOLEAN]
BuildStates == {"idle", "read", "cluster", "insert", "embed", "mark", "ended"}
TreeBuilds == [pc : BuildStates, nodes : SUBSET Nodes, level : 1..(StMaxLevels + 1), out : SUBSET TreeRows, alone : BOOLEAN]
TreeTypeOK ==
  /\ stDoc \in {"live", "gone"} /\ stGen \in Nat /\ stRun \in {"idle", "purge", "insert"}
  /\ stRows \subseteq TreeRows /\ stIndex \subseteq Nodes /\ stQueue \in Nat
  /\ stBuild \in [StBuilds -> TreeBuilds] /\ stCut \subseteq Nodes /\ stOps \in 0..StMaxOps

Summaries == {r \in stRows : r.build # 0}
BuildOf(r) == IF r.build < 0 THEN 0 - r.build ELSE r.build
\* A summary stands for at least two nodes of the level below, and within a build no node has
\* two summaries: what a build adds is a forest smaller than what it read.
Forest ==
  /\ \A r \in Summaries :
       /\ Cardinality(r.kids) >= 2
       /\ \A k \in stRows : k.id \in r.kids => k.level = r.level - 1
       /\ \A q \in Summaries : q # r /\ BuildOf(q) = BuildOf(r) => q.kids \cap r.kids = {}
  /\ \A b \in StBuilds : Cardinality({r \in Summaries : BuildOf(r) = b}) < StChunks
\* The levels of a build come and go together: a summary of summaries never misses them.
UpperLevelsWhole == \A r \in Summaries : r.level >= 2 => r.kids \subseteq Ids(stRows) \cup stCut
\* A build that no reprocess or deletion of the document overlapped cites chunks it has, but
\* for those deleted one by one.
CitesItsChunks == \A r \in Summaries : r.build > 0 => r.kids \subseteq Ids(stRows) \cup stCut

\* The levels above the chunks stay a hierarchy over them (knowledge/chunking/raptor_task.py:145).
HierarchySound == Forest /\ UpperLevelsWhole /\ CitesItsChunks
=============================================================================
