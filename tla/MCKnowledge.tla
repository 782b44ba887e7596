------------------------------ MODULE MCKnowledge ------------------------------
(***************************************************************************)
(* Instances of the components of a knowledge base for TLC.  They share no *)
(* variable; one run checks them all, and a behaviour is one of the        *)
(* component that part names.                                              *)
(***************************************************************************)
EXTENDS DocumentReview, DocumentLifecycle, EntryIndex, Tagging, CollectionLife,
        ChunkRetrieval, RetrievalRanking, Evaluation, CoverageScans, BaseHealth,
        Chunking, SummaryTree, RetrievalUse, Sequences

VARIABLE part

Parts == {"review", "lifecycle", "entries", "tagging", "collection", "chunks", "ranking",
          "evaluation", "coverage", "health", "chunking", "raptor", "use"}

Uploads == [d \in RvDocs |-> "ann"]
BaseOfChunk == <<1, 1, 1, 2>>
Alike == {<<1, 2>>, <<1, 3>>, <<1, 4>>}
BaseOfRow == <<1, 1, 2>>
BaseOfResult == <<1, 2, 1>>
BaseOfUnit == <<1>>
CallersOf == "a1" :> {"use", "qa"} @@ "a2" :> {"test"}
RouteWeights == {<<1, 1>>, <<0, 1>>, <<3, 1>>}

Rest(p) ==
  /\ part = p /\ part' = part
  /\ IF p = "review"     THEN TRUE ELSE UNCHANGED reviewVars
  /\ IF p = "lifecycle"  THEN TRUE ELSE UNCHANGED lifecycleVars
  /\ IF p = "entries"    THEN TRUE ELSE UNCHANGED entryVars
  /\ IF p = "tagging"    THEN TRUE ELSE UNCHANGED tagVars
  /\ IF p = "collection" THEN TRUE ELSE UNCHANGED collectionVars
  /\ IF p = "chunks"     THEN TRUE ELSE UNCHANGED chunkVars
  /\ IF p = "ranking"    THEN TRUE ELSE UNCHANGED rankingVars
  /\ IF p = "evaluation" THEN TRUE ELSE UNCHANGED evaluationVars
  /\ IF p = "coverage"   THEN TRUE ELSE UNCHANGED coverageVars
  /\ IF p = "health"     THEN TRUE ELSE UNCHANGED healthVars
  /\ IF p = "chunking"   THEN TRUE ELSE UNCHANGED chunkingVars
  /\ IF p = "raptor"     THEN TRUE ELSE UNCHANGED treeVars
  /\ IF p = "use"        THEN TRUE ELSE UNCHANGED useVars

Init == /\ part \in Parts
        /\ ReviewInit /\ (part # "review" => ~rvRequired)
        /\ LifecycleInit /\ EntryInit /\ TaggingInit /\ CollectionInit
        /\ ChunkInit /\ RankingInit /\ EvaluationInit /\ CoverageInit /\ BaseHealthInit
        /\ ChunkingInit /\ TreeInit /\ UseInit
        /\ part # "evaluation" => \A m \in EaMessages : eaMessage[m].chunks = {} /\ eaMessage[m].asked

Next == \/ Rest("review")     /\ ReviewNext
        \/ Rest("lifecycle")  /\ LifecycleNext
        \/ Rest("entries")    /\ EntryNext
        \/ Rest("tagging")    /\ TaggingNext
        \/ Rest("collection") /\ CollectionNext
        \/ Rest("chunks")     /\ ChunkNext
        \/ Rest("ranking")    /\ RankingNext
        \/ Rest("evaluation") /\ EvaluationNext
        \/ Rest("coverage")   /\ CoverageNext
        \/ Rest("health")     /\ BaseHealthNext
        \/ Rest("chunking")   /\ ChunkingNext
        \/ Rest("raptor")     /\ TreeNext
        \/ Rest("use")        /\ UseNext

Spec == Init /\ [][Next]_<<part, reviewVars, lifecycleVars, entryVars, tagVars, collectionVars,
                           chunkVars, rankingVars, evaluationVars, coverageVars, healthVars,
                           chunkingVars, treeVars, useVars>>
FairSpec == Spec /\ EntryFairness /\ CollectionFairness

TypesOK ==
  CASE part = "review"     -> ReviewTypeOK
    [] part = "lifecycle"  -> LifecycleTypeOK
    [] part = "entries"    -> EntryTypeOK
    [] part = "tagging"    -> TaggingTypeOK
    [] part = "collection" -> CollectionTypeOK
    [] part = "chunks"     -> ChunkTypeOK
    [] part = "evaluation" -> EvaluationTypeOK
    [] part = "coverage"   -> CoverageTypeOK
    [] part = "health"     -> BaseHealthTypeOK
    [] part = "chunking"   -> ChunkingTypeOK
    [] part = "raptor"     -> TreeTypeOK
    [] part = "use"        -> RetrievalUseTypeOK
    [] OTHER               -> TRUE
=============================================================================
