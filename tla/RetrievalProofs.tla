---------------------------- MODULE RetrievalProofs ----------------------------
(***************************************************************************)
(* Theorems about retrieval: which chunks an answer may hold while they    *)
(* are edited, embedded and removed, how results are ranked and fused, what*)
(* the use of an answer leaves behind, the rows that its evaluations make, *)
(* and the health of the bases that answer.  Each holds for every size of  *)
(* the constants and for runs of any length.                               *)
(***************************************************************************)
EXTENDS ChunkRetrieval, RetrievalRanking, RetrievalUse, Evaluation, BaseHealth,
        FiniteSetTheorems, FunctionTheorems, NaturalsInduction, TLAPS

-----------------------------------------------------------------------------
(****************************************************************************
 Chunks: an answer holds what may be retrieved, by its current text.
 ****************************************************************************)

\* An edit is opened below the bound, and no other step changes the text it has read.
ChunkTypeInv == ChunkTypeOK /\ (crEdit.on => crText[crEdit.chunk] \in 1..(CrMaxTexts - 1))

-----------------------------------------------------------------------------
(***************************************************************************)
(* Type correctness.                                                       *)
(***************************************************************************)

\* Initially every variable has its type.
LEMMA ChunkTypeInit == ChunkInit => ChunkTypeInv
<1> SUFFICES ASSUME ChunkInit PROVE ChunkTypeInv
  OBVIOUS
<1>1. NoEdit \in ChunkEdits
  BY RetrievalAssumption DEF NoEdit, ChunkEdits
<1>2. NoEmbed \in ChunkEmbeds /\ NoSearch \in ChunkSearches
  BY DEF NoEmbed, NoSearch, ChunkEmbeds, ChunkSearches
<1> QED
  BY <1>1, <1>2, RetrievalAssumption
  DEF ChunkInit, ChunkTypeInv, ChunkTypeOK, NoEdit, ChunkEdits, ChunkEmbeds, ChunkSearches

\* The states of an embedding task and of a request are closed under the updates of the
\* actions.
LEMMA ChunkActorStates ==
  /\ NoEmbed \in ChunkEmbeds /\ NoSearch \in ChunkSearches
  /\ \A s \in ChunkEmbeds : [s EXCEPT !.pc = "mark"] \in ChunkEmbeds
  /\ \A s \in ChunkSearches : [s EXCEPT !.pc = "search"] \in ChunkSearches
  /\ \A s \in ChunkSearches : [s EXCEPT !.pc = "answer"] \in ChunkSearches
  BY DEF NoEmbed, NoSearch, ChunkEmbeds, ChunkSearches

\* The step of every action keeps the types.
LEMMA ChunkTypeStep == ChunkTypeInv /\ [ChunkNext]_chunkVars => ChunkTypeInv'
<1> SUFFICES ASSUME ChunkTypeInv, [ChunkNext]_chunkVars PROVE ChunkTypeInv'
  OBVIOUS
<1> USE RetrievalAssumption DEF ChunkTypeInv, ChunkTypeOK
<1>1. ASSUME NEW c \in CrChunks, NEW b \in BOOLEAN, InsertChunk(c, b) PROVE ChunkTypeInv'
  BY <1>1 DEF InsertChunk, ChunkOp
<1>2. ASSUME NEW c \in CrChunks, NEW b \in BOOLEAN, DeleteChunk(c, b) PROVE ChunkTypeInv'
  BY <1>2 DEF DeleteChunk, ChunkOp, Reopen
<1>3. ASSUME NEW c \in CrChunks, OpenChunkEdit(c) PROVE ChunkTypeInv'
  BY <1>3 DEF OpenChunkEdit, ChunkEdits, ChunkOp, crRows
<1>4. ASSUME NEW c \in CrChunks, CommitChunkEdit(c) PROVE ChunkTypeInv'
  <2>1. NoEdit \in ChunkEdits /\ ~NoEdit.on
    BY DEF NoEdit, ChunkEdits
  <2> QED
    BY <1>4, <2>1 DEF CommitChunkEdit
<1>5. ASSUME NEW c \in CrChunks, SetVisible(c) PROVE ChunkTypeInv'
  BY <1>5 DEF SetVisible, ChunkOp, Reopen
<1>6. ASSUME NEW w \in CrEmbedders, EmbedTake(w) PROVE ChunkTypeInv'
  BY <1>6 DEF EmbedTake, Unembedded, ChunkEmbeds, Results, ChunkTexts, crRows
<1>7. ASSUME NEW w \in CrEmbedders, EmbedUpsert(w) PROVE ChunkTypeInv'
  <2>1. crEmbed[w].took \subseteq Results
    BY DEF ChunkEmbeds
  <2>2. crVector' \in [CrChunks -> 0..CrMaxTexts]
    <3> SUFFICES ASSUME NEW c \in CrChunks
                 PROVE  (IF \E p \in crEmbed[w].took : p[1] = c
                           THEN (CHOOSE p \in crEmbed[w].took : p[1] = c)[2]
                           ELSE crVector[c]) \in 0..CrMaxTexts
      BY <1>7 DEF EmbedUpsert
    <3>1. CASE \E p \in crEmbed[w].took : p[1] = c
      <4>1. (CHOOSE p \in crEmbed[w].took : p[1] = c) \in Results
        BY <2>1, <3>1
      <4> QED
        BY <3>1, <4>1 DEF Results, ChunkTexts
    <3>2. CASE ~ \E p \in crEmbed[w].took : p[1] = c
      BY <3>2
    <3> QED
      BY <3>1, <3>2
  <2> QED
    BY <1>7, <2>2, ChunkActorStates DEF EmbedUpsert, crRows
<1>8. ASSUME NEW w \in CrEmbedders, EmbedMark(w) PROVE ChunkTypeInv'
  BY <1>8, ChunkActorStates DEF EmbedMark
<1>9. ASSUME NEW r \in CrRequests, Retrieve(r) PROVE ChunkTypeInv'
  BY <1>9, ChunkActorStates DEF Retrieve, crRows
<1>10. ASSUME NEW r \in CrRequests, Search(r) PROVE ChunkTypeInv'
  BY <1>10 DEF Search, ChunkSearches, crRows
<1>11. ASSUME NEW r \in CrRequests, FilterInvisible(r) PROVE ChunkTypeInv'
  BY <1>11 DEF FilterInvisible, ChunkSearches, crRows
<1>12. ASSUME NEW r \in CrRequests, FilterFails(r) PROVE ChunkTypeInv'
  BY <1>12, ChunkActorStates DEF FilterFails, crRows
<1>16. ASSUME NEW r \in CrRequests, StoreAnswer(r) PROVE ChunkTypeInv'
  <2>1. crReq[r].found \in SUBSET Results
    BY DEF ChunkSearches
  <2> QED
    BY <1>16, <2>1, ChunkActorStates DEF StoreAnswer, crRows
<1>13. CASE ExpireAnswers
  BY <1>13 DEF ExpireAnswers, crRows
<1>14. CASE UNCHANGED chunkVars
  BY <1>14 DEF chunkVars, crRows
<1>15. CASE ChunkNext
  BY <1>1, <1>2, <1>3, <1>4, <1>5, <1>6, <1>7, <1>8, <1>9, <1>10, <1>11, <1>12, <1>13, <1>15, <1>16
  DEF ChunkNext
<1> QED
  BY <1>14, <1>15

\* Every variable of the chunks and their retrievals has its type, always.
THEOREM ChunkTypeCorrect == ChunkSpec => []ChunkTypeOK
<1>1. ChunkTypeInv => ChunkTypeOK
  BY DEF ChunkTypeInv
<1> QED
  BY <1>1, ChunkTypeInit, ChunkTypeStep, PTL DEF ChunkSpec

-----------------------------------------------------------------------------
(***************************************************************************)
(* What has gone out of the answers does not come back.                    *)
(***************************************************************************)

\* A result that has gone is not retrievable, and a request that holds it has not passed
\* the filter yet, which will drop it.
GoneInv ==
  /\ \A p \in crGone : ~Retrievable(p)
  /\ \A answer \in Answers : answer \cap crGone = {}
  /\ \A r \in CrRequests : crReq[r].pc = "hits" => \A p \in crReq[r].found \cap crGone : Invisible(p[1])

\* Initially nothing has gone.
LEMMA GoneInit == ChunkInit => GoneInv
  BY DEF ChunkInit, GoneInv, Answers, NoSearch

\* Two things an action does to the answers: it keeps them, or it adds that of a request.
LEMMA AnswersKept ==
  ASSUME GoneInv, UNCHANGED <<crReq, crCache>>, crGone' \subseteq crGone
  PROVE  \A answer \in Answers' : answer \cap crGone' = {}
  BY DEF GoneInv, Answers

\* No step brings back what has gone.
LEMMA GoneStep == ChunkTypeInv /\ GoneInv /\ [ChunkNext]_chunkVars => GoneInv'
<1> SUFFICES ASSUME ChunkTypeInv, GoneInv, [ChunkNext]_chunkVars PROVE GoneInv'
  OBVIOUS
<1> USE DEF ChunkTypeInv, ChunkTypeOK
<1>1. ASSUME NEW c \in CrChunks, NEW b \in BOOLEAN, InsertChunk(c, b) PROVE GoneInv'
  <2>1. crExcluded \subseteq crExcluded'
    BY <1>1 DEF InsertChunk
  <2> QED
    BY <1>1, <2>1 DEF InsertChunk, GoneInv, Retrievable, Invisible, Answers
<1>2. ASSUME NEW c \in CrChunks, NEW b \in BOOLEAN, DeleteChunk(c, b) PROVE GoneInv'
  <2>1. crGone' \subseteq crGone
    BY <1>2 DEF DeleteChunk, Reopen
  <2>2. \A p \in crGone' : p[1] # c /\ crVector'[p[1]] = crVector[p[1]]
    BY <1>2, <2>1 DEF DeleteChunk, Reopen, Results
  <2>3. \A p \in crGone' : Invisible(p[1]) <=> Invisible(p[1])'
    BY <1>2, <2>2 DEF DeleteChunk, Invisible
  <2>4. UNCHANGED <<crReq, crCache>>
    BY <1>2 DEF DeleteChunk
  <2>5. \A answer \in Answers' : answer \cap crGone' = {}
    BY <2>1, <2>4, AnswersKept
  <2> QED
    BY <2>1, <2>2, <2>3, <2>4, <2>5 DEF GoneInv, Retrievable
<1>3. ASSUME NEW c \in CrChunks, SetVisible(c) PROVE GoneInv'
  <2>1. crGone' \subseteq crGone /\ UNCHANGED <<crReq, crCache, crVector>>
    BY <1>3 DEF SetVisible, Reopen
  <2>2. \A p \in crGone' : Invisible(p[1]) <=> Invisible(p[1])'
    BY <1>3 DEF SetVisible, Reopen, Invisible
  <2>3. \A answer \in Answers' : answer \cap crGone' = {}
    BY <2>1, AnswersKept
  <2> QED
    BY <2>1, <2>2, <2>3 DEF GoneInv, Retrievable
<1>4. ASSUME NEW w \in CrEmbedders, EmbedUpsert(w) PROVE GoneInv'
  <2>1. /\ crGone' \subseteq crGone /\ UNCHANGED <<crReq, crCache, crExcluded, crArchived>>
        /\ \A p \in crGone' : ~Retrievable(p)'
    BY <1>4 DEF EmbedUpsert, Retrievable, Invisible, crRows
  <2>2. \A answer \in Answers' : answer \cap crGone' = {}
    BY <2>1, AnswersKept
  <2> QED
    BY <2>1, <2>2 DEF GoneInv, Invisible
<1>5. CASE \/ \E c \in CrChunks : OpenChunkEdit(c) \/ CommitChunkEdit(c)
           \/ \E w \in CrEmbedders : EmbedTake(w) \/ EmbedMark(w)
  <2>1. UNCHANGED <<crReq, crCache, crGone, crVector, crExcluded, crArchived>>
    BY <1>5 DEF OpenChunkEdit, CommitChunkEdit, EmbedTake, EmbedMark, crRows
  <2> QED
    BY <2>1 DEF GoneInv, Retrievable, Invisible, Answers
<1>6. ASSUME NEW r \in CrRequests, Retrieve(r) PROVE GoneInv'
  <2>1. Answers' \subseteq Answers
    BY <1>6 DEF Retrieve, Answers
  <2> QED
    BY <1>6, <2>1 DEF Retrieve, GoneInv, Retrievable, Invisible, crRows
<1>7. ASSUME NEW r \in CrRequests, Search(r) PROVE GoneInv'
  <2>1. Answers' \subseteq Answers
    BY <1>7 DEF Search, Answers
  <2>2. \A p \in crReq'[r].found \cap crGone : Invisible(p[1])
    BY <1>7 DEF Search, GoneInv, Retrievable
  <2> QED
    BY <1>7, <2>1, <2>2 DEF Search, GoneInv, Retrievable, Invisible, crRows
<1>8. ASSUME NEW r \in CrRequests, FilterInvisible(r) PROVE GoneInv'
  <2>1. Answers' \subseteq Answers \cup {crReq'[r].found}
    BY <1>8 DEF FilterInvisible, Answers
  <2>2. crReq'[r].found \cap crGone = {}
    BY <1>8 DEF FilterInvisible, GoneInv, ChunkSearches
  <2> QED
    BY <1>8, <2>1, <2>2 DEF FilterInvisible, GoneInv, Retrievable, Invisible, crRows
<1>9. ASSUME NEW r \in CrRequests, FilterFails(r) PROVE GoneInv'
  <2>1. Answers' \subseteq Answers \cup {crReq[r].found}
    BY <1>9 DEF FilterFails, Answers, ChunkSearches
  <2>2. crGone' \subseteq crGone /\ crReq[r].found \cap crGone' = {}
    BY <1>9 DEF FilterFails
  <2>3. \A answer \in Answers' : answer \cap crGone' = {}
    BY <2>1, <2>2 DEF GoneInv
  <2>4. \A q \in CrRequests : crReq'[q].pc = "hits" => crReq'[q] = crReq[q]
    BY <1>9 DEF FilterFails, ChunkSearches
  <2>5. UNCHANGED <<crVector, crExcluded, crArchived>>
    BY <1>9 DEF FilterFails, crRows
  <2> QED
    BY <2>2, <2>3, <2>4, <2>5 DEF GoneInv, Retrievable, Invisible
<1>10. ASSUME NEW r \in CrRequests, StoreAnswer(r) PROVE GoneInv'
  <2>1. Answers' \subseteq Answers
    BY <1>10 DEF StoreAnswer, Answers, NoSearch
  <2> QED
    BY <1>10, <2>1 DEF StoreAnswer, GoneInv, Retrievable, Invisible, crRows, NoSearch
<1>11. CASE ExpireAnswers
  <2>1. \A answer \in Answers' : answer \subseteq Pending
    BY <1>11 DEF ExpireAnswers, Answers, Pending
  <2>2. \A r \in CrRequests : crReq[r].found \subseteq Pending
    BY DEF Pending
  <2> QED
    BY <1>11, <2>1, <2>2 DEF ExpireAnswers, GoneInv, Retrievable, Invisible, crRows
<1>12. CASE UNCHANGED chunkVars
  BY <1>12 DEF chunkVars, crRows, GoneInv, Retrievable, Invisible, Answers
<1>13. CASE ChunkNext
  BY <1>1, <1>2, <1>3, <1>4, <1>5, <1>6, <1>7, <1>8, <1>9, <1>10, <1>11, <1>13 DEF ChunkNext
<1> QED
  BY <1>12, <1>13

\* What had gone when the cache was emptied is in no answer from then on, whatever overlaps.
THEOREM GoneForGood == ChunkSpec => []GoneStaysGone
<1>1. ChunkTypeInv /\ GoneInv => GoneStaysGone
  BY DEF GoneInv, GoneStaysGone
<1> QED
  BY <1>1, ChunkTypeInit, ChunkTypeStep, GoneInit, GoneStep, PTL DEF ChunkSpec

-----------------------------------------------------------------------------
(***************************************************************************)
(* A marked row is found by its current text.                              *)
(***************************************************************************)

\* What an embedding task has read of a chunk that nobody changed meanwhile is its current
\* text; once it has been stored, the index has it.
TookCurrent ==
  \A w \in CrEmbedders : \A p \in crEmbed[w].took :
    p[1] \notin crRaced => /\ crText[p[1]] = p[2]
                           /\ crEmbed[w].pc = "mark" => crVector[p[1]] = p[2]

\* It reads one text of a chunk.
TookOnce ==
  \A w \in CrEmbedders : \A p, q \in crEmbed[w].took : p[1] = q[1] => p = q

MarkedInv == TookCurrent /\ TookOnce /\ MarkedByCurrentText

\* Initially nothing is marked or read.
LEMMA MarkedInit == ChunkInit => MarkedInv
  BY DEF ChunkInit, MarkedInv, TookCurrent, TookOnce, MarkedByCurrentText, NoEmbed

\* A step that leaves the rows, the index and the tasks alone.
LEMMA MarkedKept ==
  ASSUME MarkedInv, UNCHANGED <<crText, crMarked, crVector, crEmbed, crRaced>>
  PROVE  MarkedInv'
  BY DEF MarkedInv, TookCurrent, TookOnce, MarkedByCurrentText

\* Every step keeps it: what changes a text or removes a row remembers who had read it.
LEMMA MarkedStep == ChunkTypeInv /\ MarkedInv /\ [ChunkNext]_chunkVars => MarkedInv'
<1> SUFFICES ASSUME ChunkTypeInv, MarkedInv, [ChunkNext]_chunkVars PROVE MarkedInv'
  OBVIOUS
<1> USE DEF ChunkTypeInv, ChunkTypeOK
<1>a. \A w \in CrEmbedders : \A p \in crEmbed[w].took :
        p[1] \notin crRaced => /\ crText[p[1]] = p[2]
                               /\ crEmbed[w].pc = "mark" => crVector[p[1]] = p[2]
  BY DEF MarkedInv, TookCurrent
<1>b. \A w \in CrEmbedders : \A p, q \in crEmbed[w].took : p[1] = q[1] => p = q
  BY DEF MarkedInv, TookOnce
<1>c. \A c \in crMarked \ crRaced : crVector[c] = crText[c]
  BY DEF MarkedInv, MarkedByCurrentText
<1>0. \A w \in CrEmbedders : \A p \in crEmbed[w].took :
        p \in Results /\ p[1] \in CrChunks /\ p[2] \in ChunkTexts /\ p[2] # 0
  BY DEF ChunkEmbeds, Results, ChunkTexts
<1>1. ASSUME NEW c \in CrChunks, NEW b \in BOOLEAN, InsertChunk(c, b) PROVE MarkedInv'
  <2>1. crText[c] = 0 /\ c \notin crRaced /\ c \notin crMarked
    BY <1>1 DEF InsertChunk
  <2>2. \A w \in CrEmbedders : \A p \in crEmbed[w].took : p[1] # c
    BY <1>0, <1>a, <2>1
  <2>3. /\ \A d \in CrChunks : d # c => crText'[d] = crText[d]
        /\ crMarked' = crMarked /\ crVector' = crVector /\ crEmbed' = crEmbed /\ crRaced' = crRaced
    BY <1>1 DEF InsertChunk
  <2>4. TookCurrent'
    BY <1>0, <1>a, <2>2, <2>3 DEF TookCurrent
  <2>5. TookOnce'
    BY <1>b, <2>3 DEF TookOnce
  <2>6. MarkedByCurrentText'
    BY <1>c, <2>1, <2>3 DEF MarkedByCurrentText
  <2> QED
    BY <2>4, <2>5, <2>6 DEF MarkedInv
<1>2. ASSUME NEW c \in CrChunks, NEW b \in BOOLEAN, DeleteChunk(c, b) PROVE MarkedInv'
  <2>1. /\ c \in crRaced' /\ crRaced \subseteq crRaced' /\ crMarked' \subseteq crMarked
        /\ \A d \in CrChunks : d # c => crText'[d] = crText[d] /\ crVector'[d] = crVector[d]
        /\ crEmbed' = crEmbed
    BY <1>2 DEF DeleteChunk
  <2>2. TookCurrent'
    BY <1>0, <1>a, <2>1 DEF TookCurrent
  <2>3. TookOnce'
    BY <1>b, <2>1 DEF TookOnce
  <2>4. MarkedByCurrentText'
    BY <1>c, <2>1 DEF MarkedByCurrentText
  <2> QED
    BY <2>2, <2>3, <2>4 DEF MarkedInv
<1>3. ASSUME NEW c \in CrChunks, CommitChunkEdit(c) PROVE MarkedInv'
  <2>1. /\ crRaced \subseteq crRaced' /\ crMarked' \subseteq crMarked
        /\ \A d \in CrChunks : d # c => crText'[d] = crText[d]
        /\ crEmbed' = crEmbed /\ crVector' = crVector
    BY <1>3 DEF CommitChunkEdit
  <2>2. c \in crRaced' \/ (c \notin crMarked' /\ ~ChunkHeld(c))
    BY <1>3 DEF CommitChunkEdit
  <2>3. c \in crRaced' \/ \A w \in CrEmbedders : \A p \in crEmbed[w].took : p[1] # c
    BY <2>2 DEF ChunkHeld
  <2>4. TookCurrent'
    BY <1>0, <1>a, <2>1, <2>3 DEF TookCurrent
  <2>5. TookOnce'
    BY <1>b, <2>1 DEF TookOnce
  <2>6. MarkedByCurrentText'
    BY <1>c, <2>1, <2>2 DEF MarkedByCurrentText
  <2> QED
    BY <2>4, <2>5, <2>6 DEF MarkedInv
<1>4. ASSUME NEW w \in CrEmbedders, EmbedTake(w) PROVE MarkedInv'
  <2>1. /\ crEmbed'[w].pc = "upsert"
        /\ crEmbed'[w].took = {<<c, crText[c]>> : c \in Unembedded}
        /\ \A v \in CrEmbedders : v # w => crEmbed'[v] = crEmbed[v]
        /\ crText' = crText /\ crMarked' = crMarked /\ crVector' = crVector /\ crRaced' = crRaced
    BY <1>4 DEF EmbedTake, crRows
  <2>2. \A p \in crEmbed'[w].took : p[2] = crText[p[1]] /\ p = <<p[1], p[2]>>
    BY <2>1
  <2>3. TookCurrent'
    <3> SUFFICES ASSUME NEW v \in CrEmbedders, NEW p \in crEmbed'[v].took, p[1] \notin crRaced
                 PROVE  crText[p[1]] = p[2] /\ (crEmbed'[v].pc = "mark" => crVector[p[1]] = p[2])
      BY <2>1 DEF TookCurrent
    <3>1. CASE v = w
      BY <2>1, <2>2, <3>1
    <3>2. CASE v # w
      BY <1>a, <2>1, <3>2
    <3> QED
      BY <3>1, <3>2
  <2>4. TookOnce'
    <3> SUFFICES ASSUME NEW v \in CrEmbedders, NEW p \in crEmbed'[v].took, NEW q \in crEmbed'[v].took,
                        p[1] = q[1]
                 PROVE  p = q
      BY DEF TookOnce
    <3>1. CASE v = w
      <4>1. p = <<p[1], p[2]>> /\ q = <<q[1], q[2]>> /\ p[2] = crText[p[1]] /\ q[2] = crText[q[1]]
        BY <2>2, <3>1
      <4>2. p[2] = q[2]
        BY <4>1
      <4> QED
        BY ONLY <4>1, <4>2, p[1] = q[1]
    <3>2. CASE v # w
      BY <1>b, <2>1, <3>2
    <3> QED
      BY <3>1, <3>2
  <2>5. MarkedByCurrentText'
    BY <1>c, <2>1 DEF MarkedByCurrentText
  <2> QED
    BY <2>3, <2>4, <2>5 DEF MarkedInv
<1>5. ASSUME NEW w \in CrEmbedders, EmbedUpsert(w) PROVE MarkedInv'
  <2>1. /\ crEmbed'[w].took = crEmbed[w].took
        /\ \A v \in CrEmbedders : v # w => crEmbed'[v] = crEmbed[v]
        /\ crText' = crText /\ crMarked' = crMarked /\ crRaced' = crRaced
    BY <1>5 DEF EmbedUpsert, crRows, ChunkEmbeds
  <2>2. ASSUME NEW p \in crEmbed[w].took PROVE crVector'[p[1]] = p[2]
    <3>1. (CHOOSE q \in crEmbed[w].took : q[1] = p[1]) = p
      <4>1. \A q \in crEmbed[w].took : q[1] = p[1] => q = p
        BY <1>b
      <4> QED
        BY <4>1
    <3>2. p[1] \in CrChunks
      BY <1>0
    <3> QED
      BY <1>5, <3>1, <3>2 DEF EmbedUpsert
  <2>3. \A c \in CrChunks : (\A p \in crEmbed[w].took : p[1] # c) => crVector'[c] = crVector[c]
    BY <1>5 DEF EmbedUpsert
  <2>4. ASSUME NEW c \in CrChunks, c \notin crRaced, crVector[c] = crText[c] PROVE crVector'[c] = crText[c]
    <3>1. ASSUME NEW p \in crEmbed[w].took, p[1] = c PROVE crVector'[c] = crText[c]
      BY <1>a, <2>2, <2>4, <3>1
    <3> QED
      BY <2>3, <2>4, <3>1
  <2>5. TookCurrent'
    <3> SUFFICES ASSUME NEW v \in CrEmbedders, NEW p \in crEmbed'[v].took, p[1] \notin crRaced
                 PROVE  crText[p[1]] = p[2] /\ (crEmbed'[v].pc = "mark" => crVector'[p[1]] = p[2])
      BY <2>1 DEF TookCurrent
    <3>1. p \in crEmbed[v].took
      BY <2>1
    <3>2. crText[p[1]] = p[2] /\ p[1] \in CrChunks
      BY <1>0, <1>a, <3>1
    <3>3. CASE v = w
      BY <2>2, <3>1, <3>2, <3>3
    <3>4. CASE v # w
      <4>1. crEmbed'[v].pc = "mark" => crVector[p[1]] = p[2]
        BY <1>a, <2>1, <3>1, <3>4
      <4> QED
        BY <2>4, <3>2, <4>1
    <3> QED
      BY <3>3, <3>4
  <2>6. \A v \in CrEmbedders : crEmbed'[v].took = crEmbed[v].took
    BY <2>1
  <2>7. TookOnce'
    BY <1>b, <2>6 DEF TookOnce
  <2>8. MarkedByCurrentText'
    BY <1>c, <2>1, <2>4 DEF MarkedByCurrentText
  <2> QED
    BY <2>5, <2>7, <2>8 DEF MarkedInv
<1>6. ASSUME NEW w \in CrEmbedders, EmbedMark(w) PROVE MarkedInv'
  <2>1. /\ crEmbed[w].pc = "mark"
        /\ crText' = crText /\ crVector' = crVector /\ crRaced' = crRaced
    BY <1>6 DEF EmbedMark
  <2>2. \A v \in CrEmbedders : crEmbed'[v] = crEmbed[v] \/ crEmbed'[v] = NoEmbed
    BY <1>6 DEF EmbedMark
  <2>3. \A c \in crMarked' : c \in crMarked \/ \E p \in crEmbed[w].took : p[1] = c
    BY <1>6 DEF EmbedMark
  <2>4. \A v \in CrEmbedders : \A p \in crEmbed'[v].took : crEmbed'[v] = crEmbed[v]
    BY <2>2 DEF NoEmbed
  <2>5. TookCurrent'
    <3> SUFFICES ASSUME NEW v \in CrEmbedders, NEW p \in crEmbed'[v].took, p[1] \notin crRaced
                 PROVE  crText[p[1]] = p[2] /\ (crEmbed'[v].pc = "mark" => crVector[p[1]] = p[2])
      BY <2>1 DEF TookCurrent
    <3> QED
      BY <1>a, <2>4
  <2>6. TookOnce'
    <3> SUFFICES ASSUME NEW v \in CrEmbedders, NEW p \in crEmbed'[v].took, NEW q \in crEmbed'[v].took,
                        p[1] = q[1]
                 PROVE  p = q
      BY DEF TookOnce
    <3> QED
      BY <1>b, <2>4
  <2>7. MarkedByCurrentText'
    <3> SUFFICES ASSUME NEW c \in crMarked', c \notin crRaced PROVE crVector[c] = crText[c]
      BY <2>1 DEF MarkedByCurrentText
    <3>1. CASE c \in crMarked
      BY <1>c, <3>1
    <3>2. ASSUME NEW p \in crEmbed[w].took, p[1] = c PROVE crVector[c] = crText[c]
      BY <1>a, <2>1, <3>2
    <3> QED
      BY <2>3, <3>1, <3>2
  <2> QED
    BY <2>5, <2>6, <2>7 DEF MarkedInv
<1>7. CASE \/ \E c \in CrChunks : OpenChunkEdit(c) \/ SetVisible(c)
           \/ \E r \in CrRequests : \/ Retrieve(r) \/ Search(r) \/ FilterInvisible(r)
                                    \/ FilterFails(r) \/ StoreAnswer(r)
           \/ ExpireAnswers
  BY <1>7, MarkedKept
  DEF OpenChunkEdit, SetVisible, Retrieve, Search, FilterInvisible, FilterFails, StoreAnswer,
      ExpireAnswers, crRows
<1>8. CASE UNCHANGED chunkVars
  BY <1>8, MarkedKept DEF chunkVars, crRows
<1>9. CASE ChunkNext
  BY <1>1, <1>2, <1>3, <1>4, <1>5, <1>6, <1>7, <1>9 DEF ChunkNext
<1> QED
  BY <1>8, <1>9

\* The rows that count as embedded are found by their current text, and what has gone out
\* of the answers stays out.
THEOREM ChunksAlwaysSound == ChunkSpec => []ChunksSound
<1>1. MarkedInv => MarkedByCurrentText
  BY DEF MarkedInv
<1>2. ChunkSpec => []MarkedInv
  BY ChunkTypeInit, ChunkTypeStep, MarkedInit, MarkedStep, PTL DEF ChunkSpec
<1>3. MarkedByCurrentText /\ GoneStaysGone => ChunksSound
  BY DEF ChunksSound
<1> QED
  BY <1>1, <1>2, <1>3, GoneForGood, PTL

-----------------------------------------------------------------------------
(****************************************************************************
 Ranking: what an order, a fusion and a deduplication keep and lose.
 ****************************************************************************)

\* Numbers from one up to n.
LEMMA UpTo ==
  ASSUME NEW n \in Nat
  PROVE  IsFiniteSet(1..n) /\ Cardinality(1..n) = n
BY FS_Interval

\* A relation that puts the elements of S in a line.
InLine(S, R) ==
  /\ \A a \in S : a \notin R[a]
  /\ \A a, b \in S : a # b => b \in R[a] \/ a \in R[b]
  /\ \A a, b, c \in S : b \in R[a] /\ c \in R[b] => c \in R[a]

\* A finite set can be listed along such a relation.
LEMMA LineListed ==
  ASSUME NEW S, IsFiniteSet(S), NEW R, InLine(S, R)
  PROVE  \E s \in [1..Cardinality(S) -> S] :
            \A i, j \in 1..Cardinality(S) : i < j => s[j] \in R[s[i]]
<1> DEFINE n == Cardinality(S)
           Upper(a) == {b \in S : a \in R[b]}
           r == [a \in S |-> Cardinality(Upper(a)) + 1]
           s == [i \in 1..n |-> CHOOSE a \in S : r[a] = i]
<1>1. n \in Nat /\ IsFiniteSet(1..n) /\ Cardinality(1..n) = n
  BY FS_CardinalityType, FS_Interval
<1>2. ASSUME NEW a \in S
      PROVE  IsFiniteSet(Upper(a)) /\ Cardinality(Upper(a)) \in Nat /\ Cardinality(Upper(a)) <= n - 1
  <2>1. Upper(a) \in SUBSET (S \ {a})
    BY DEF InLine
  <2>2. IsFiniteSet(S \ {a}) /\ Cardinality(S \ {a}) = n - 1
    BY FS_RemoveElement
  <2>3. IsFiniteSet(Upper(a)) /\ Cardinality(Upper(a)) <= n - 1
    <3> HIDE DEF Upper, n
    <3> QED BY <2>1, <2>2, FS_Subset
  <2> QED BY <2>3, FS_CardinalityType
<1>3. ASSUME NEW a \in S, NEW b \in S, b \in R[a]
      PROVE  Cardinality(Upper(a)) < Cardinality(Upper(b))
  <2>1. Upper(a) \in SUBSET Upper(b)
    BY <1>3 DEF InLine
  <2>2. Upper(a) # Upper(b)
    BY <1>3 DEF InLine
  <2>3. Cardinality(Upper(a)) <= Cardinality(Upper(b)) /\ Cardinality(Upper(a)) # Cardinality(Upper(b))
    <3>1. IsFiniteSet(Upper(b))
      BY <1>2
    <3> HIDE DEF Upper
    <3> QED BY <2>1, <2>2, <3>1, FS_Subset
  <2> HIDE DEF Upper
  <2> QED BY <2>3, <1>2
<1>4. r \in [S -> 1..n]
  <2> HIDE DEF Upper
  <2> QED BY <1>1, <1>2
<1>5. \A a, b \in S : b \in R[a] => r[a] < r[b]
  <2> HIDE DEF Upper
  <2> QED BY <1>2, <1>3
<1>6. \A a, b \in S : r[a] = r[b] => a = b
  <2> HIDE DEF r, n
  <2>1. \A a \in S : r[a] \in Int
    BY <1>1, <1>4
  <2> QED BY <2>1, <1>5 DEF InLine
<1>7. \A i \in 1..n : \E a \in S : r[a] = i
  <2> HIDE DEF r
  <2>1. r \in Injection(S, 1..n)
    BY <1>4, <1>6, Fun_IsInj
  <2>2. r \in Surjection(S, 1..n)
    <3> HIDE DEF n
    <3> QED BY <2>1, <1>1, FS_Injection DEF n
  <2> QED BY <2>2, Fun_SurjectionProperties
<1>8. \A i \in 1..n : s[i] \in S /\ r[s[i]] = i
  <2> HIDE DEF r
  <2> QED BY <1>7
<1>9. s \in [1..n -> S]
  <2> HIDE DEF r
  <2> QED BY <1>8
<1>10. ASSUME NEW i \in 1..n, NEW j \in 1..n, i < j PROVE s[j] \in R[s[i]]
  <2> HIDE DEF s, r, n
  <2>1. s[i] \in S /\ s[j] \in S /\ r[s[i]] = i /\ r[s[j]] = j
    BY <1>8
  <2> QED BY <2>1, <1>5, <1>10, <1>1 DEF InLine
<1> HIDE DEF s
<1> QED BY <1>9, <1>10

\* What is listed, each element once and at the place the relation gives it.
LEMMA ListedInLine ==
  ASSUME NEW S, IsFiniteSet(S), NEW R, InLine(S, R), NEW s, s = Listed(S, R)
  PROVE  /\ Cardinality(S) \in Nat
         /\ s \in [1..Cardinality(S) -> S]
         /\ \A i, j \in 1..Cardinality(S) : i < j => s[j] \in R[s[i]]
         /\ \A i, j \in 1..Cardinality(S) : s[i] = s[j] => i = j
         /\ \A c \in S : \E i \in 1..Cardinality(S) : s[i] = c
<1> DEFINE n == Cardinality(S)
<1>1. n \in Nat /\ IsFiniteSet(1..n) /\ Cardinality(1..n) = n
  BY FS_CardinalityType, FS_Interval
<1>2. s \in [1..n -> S] /\ \A i, j \in 1..n : i < j => s[j] \in R[s[i]]
  BY LineListed DEF Listed
<1>3. \A i, j \in 1..n : s[i] = s[j] => i = j
  BY <1>1, <1>2 DEF InLine
<1>4. \A c \in S : \E i \in 1..n : s[i] = c
  <2>1. s \in Injection(1..n, S)
    BY <1>2, <1>3, Fun_IsInj
  <2>2. s \in Surjection(1..n, S)
    <3> HIDE DEF n
    <3> QED BY <2>1, <1>1, FS_Injection DEF n
  <2> HIDE DEF n
  <2> QED BY <2>2 DEF Surjection
<1> QED BY <1>1, <1>2, <1>3, <1>4

\* Results: a sequence of distinct chunks.
IsList(s) ==
  /\ s \in Seq(RkChunks)
  /\ \A i, j \in 1..Len(s) : s[i] = s[j] => i = j

\* A chunk of a list has one place in it.
LEMMA Places ==
  ASSUME NEW s, IsList(s)
  PROVE  /\ Len(s) \in Nat /\ DOMAIN s = 1..Len(s)
         /\ Shown(s) \subseteq RkChunks
         /\ \A i \in 1..Len(s) : s[i] \in Shown(s) /\ Pos(s, s[i]) = i
         /\ \A c \in Shown(s) : Pos(s, c) \in 1..Len(s) /\ s[Pos(s, c)] = c
         /\ \A c : In(s, c) <=> c \in Shown(s)
<1>1. Len(s) \in Nat /\ DOMAIN s = 1..Len(s) /\ Shown(s) \subseteq RkChunks
  BY DEF IsList, Shown
<1>2. \A i \in 1..Len(s) : s[i] \in Shown(s)
  BY <1>1 DEF Shown
<1>3. \A c \in Shown(s) : Pos(s, c) \in 1..Len(s) /\ s[Pos(s, c)] = c
  BY <1>1 DEF Shown, Pos
<1>4. \A i \in 1..Len(s) : Pos(s, s[i]) = i
  BY <1>2, <1>3 DEF IsList
<1> QED BY <1>1, <1>2, <1>3, <1>4 DEF In, Shown

\* Chunks are finitely many, and a set of them, listed along a relation, is a list.
LEMMA ListOf ==
  ASSUME NEW S \in SUBSET RkChunks, NEW R, InLine(S, R), NEW s, s = Listed(S, R)
  PROVE  /\ IsFiniteSet(S) /\ IsList(s) /\ Shown(s) = S /\ Len(s) = Cardinality(S)
         /\ \A a, b \in S : b \in R[a] <=> Pos(s, a) < Pos(s, b)
<1>1. IsFiniteSet(S)
  BY RankingAssumption, FS_Subset
<1>2. /\ Cardinality(S) \in Nat
      /\ s \in [1..Cardinality(S) -> S]
      /\ \A i, j \in 1..Cardinality(S) : i < j => s[j] \in R[s[i]]
      /\ \A i, j \in 1..Cardinality(S) : s[i] = s[j] => i = j
      /\ \A c \in S : \E i \in 1..Cardinality(S) : s[i] = c
  BY <1>1, ListedInLine
<1>3. s \in Seq(RkChunks) /\ Len(s) = Cardinality(S) /\ DOMAIN s = 1..Cardinality(S)
  BY <1>2
<1>4. IsList(s)
  BY <1>2, <1>3 DEF IsList
<1>5. Shown(s) = S
  BY <1>2, <1>3 DEF Shown
<1>6. ASSUME NEW a \in S, NEW b \in S PROVE b \in R[a] <=> Pos(s, a) < Pos(s, b)
  <2>1. /\ Pos(s, a) \in 1..Len(s) /\ s[Pos(s, a)] = a
        /\ Pos(s, b) \in 1..Len(s) /\ s[Pos(s, b)] = b
    BY <1>4, <1>5, Places
  <2> DEFINE p == Pos(s, a)
             q == Pos(s, b)
  <2>2. p \in 1..Cardinality(S) /\ q \in 1..Cardinality(S) /\ s[p] = a /\ s[q] = b
    BY <2>1, <1>3
  <2> HIDE DEF p, q
  <2>3. CASE p < q
    BY <2>2, <2>3, <1>2 DEF p, q
  <2>4. CASE p = q
    BY <2>2, <2>4 DEF p, q, InLine
  <2>5. CASE q < p
    <3>1. a \in R[b]
      BY <2>2, <2>5, <1>2
    <3>2. b \notin R[a]
      BY <3>1 DEF InLine
    <3> QED BY <3>2, <2>5, <2>2, <1>2 DEF p, q
  <2> QED BY <2>2, <2>3, <2>4, <2>5, <1>2
<1> QED BY <1>1, <1>3, <1>4, <1>5, <1>6

\* A list has as many places as chunks.
LEMMA CountOfList ==
  ASSUME NEW s, IsList(s)
  PROVE  IsFiniteSet(Shown(s)) /\ Cardinality(Shown(s)) = Len(s)
<1>1. /\ Len(s) \in Nat /\ DOMAIN s = 1..Len(s)
      /\ \A i \in 1..Len(s) : s[i] \in Shown(s)
  BY Places
<1>2. s \in [1..Len(s) -> Shown(s)]
  BY <1>1 DEF IsList
<1>3. s \in Injection(1..Len(s), Shown(s)) /\ s \in Surjection(1..Len(s), Shown(s))
  BY <1>1, <1>2, Fun_IsInj, Fun_IsSurj DEF IsList, Shown
<1>4. IsFiniteSet(1..Len(s)) /\ Cardinality(1..Len(s)) = Len(s)
  BY <1>1, FS_Interval
<1> QED BY <1>3, <1>4, FS_Surjection

\* A sort keeps the chunks, and puts one before another by score, then by place.
LEMMA SortedList ==
  ASSUME NEW s, IsList(s), NEW score \in [RkChunks -> Int], NEW t, t = Sorted(s, score)
  PROVE  /\ IsList(t) /\ Shown(t) = Shown(s) /\ Len(t) = Len(s)
         /\ \A a, b \in Shown(s) : Pos(t, a) < Pos(t, b) <=> b \in Lower(s, score)[a]
<1>1. /\ Len(s) \in Nat /\ Shown(s) \in SUBSET RkChunks
      /\ \A c \in Shown(s) : Pos(s, c) \in Int /\ s[Pos(s, c)] = c /\ score[c] \in Int
  BY Places
<1>2. InLine(Shown(s), Lower(s, score))
  <2> DEFINE p(c) == Pos(s, c)
  <2>1. \A a, b \in Shown(s) : b \in Lower(s, score)[a]
           <=> score[a] > score[b] \/ (score[a] = score[b] /\ p(a) < p(b))
    BY DEF Lower
  <2>2. \A a, b \in Shown(s) : p(a) = p(b) => a = b
    BY <1>1
  <2>3. \A a \in Shown(s) : p(a) \in Int /\ score[a] \in Int
    BY <1>1
  <2> HIDE DEF p
  <2> QED BY <2>1, <2>2, <2>3 DEF InLine
<1>3. /\ IsList(t) /\ Shown(t) = Shown(s) /\ Len(t) = Cardinality(Shown(s))
      /\ \A a, b \in Shown(s) : b \in Lower(s, score)[a] <=> Pos(t, a) < Pos(t, b)
  BY <1>1, <1>2, ListOf DEF Sorted
<1>4. Cardinality(Shown(s)) = Len(s)
  BY CountOfList
<1> QED BY <1>3, <1>4

\* A cut keeps places.
LEMMA CutList ==
  ASSUME NEW s, IsList(s), NEW k \in Nat, NEW t, t = Cut(s, k)
  PROVE  /\ IsList(t) /\ Len(t) = Least(Len(s), k) /\ Len(t) \in Nat
         /\ \A c : In(t, c) <=> In(s, c) /\ Pos(s, c) <= k
         /\ \A c : In(t, c) => Pos(t, c) = Pos(s, c)
<1> DEFINE n == Least(Len(s), k)
<1>1. /\ Len(s) \in Nat /\ DOMAIN s = 1..Len(s) /\ s \in Seq(RkChunks)
      /\ \A i, j \in 1..Len(s) : s[i] = s[j] => i = j
  BY Places DEF IsList
<1>2. n \in Nat /\ n <= k /\ n <= Len(s) /\ (n = k \/ n = Len(s))
  BY <1>1 DEF Least
<1>3. t = [i \in 1..n |-> s[i]]
  BY DEF Cut
<1> DEFINE m == Len(s)
<1>30. m \in Nat /\ n \in Nat /\ n <= m
  BY <1>1, <1>2
<1>31. \A i \in 1..m : s[i] \in RkChunks
  BY <1>1
<1> HIDE DEF n, m
<1>32. \A i \in 1..n : i \in 1..m /\ s[i] \in RkChunks
  BY <1>30, <1>31
<1>4. t \in [1..n -> RkChunks]
  BY <1>32, <1>3
<1>5. t \in Seq(RkChunks) /\ Len(t) = n /\ DOMAIN t = 1..n
  BY <1>4, <1>2
<1>6. IsList(t)
  <2>1. \A i, j \in 1..m : s[i] = s[j] => i = j
    BY <1>1 DEF m
  <2> QED BY <2>1, <1>32, <1>3, <1>5 DEF IsList
<1>7. ASSUME NEW c, In(t, c) PROVE In(s, c) /\ Pos(s, c) <= k /\ Pos(t, c) = Pos(s, c)
  <2>1. PICK i \in 1..n : t[i] = c
    BY <1>5, <1>7 DEF In
  <2>2. i \in 1..Len(s) /\ s[i] = c
    BY <2>1, <1>32, <1>3 DEF m
  <2>3. Pos(s, c) = i /\ Pos(t, c) = i /\ In(s, c)
    BY <2>1, <2>2, <1>5, <1>6, Places
  <2> QED BY <2>3, <2>1, <1>2
<1>8. ASSUME NEW c, In(s, c), Pos(s, c) <= k PROVE In(t, c)
  <2>1. Pos(s, c) \in 1..Len(s) /\ s[Pos(s, c)] = c
    BY <1>8, Places
  <2> DEFINE i == Pos(s, c)
  <2>2. i \in 1..n
    <3>1. i \in 1..m /\ i <= k
      BY <2>1, <1>8 DEF m
    <3>2. n = k \/ n = m
      BY <1>2 DEF m
    <3> HIDE DEF i
    <3> QED BY <3>1, <3>2, <1>30
  <2>3. t[i] = c
    BY <2>1, <2>2, <1>3
  <2> HIDE DEF i
  <2> QED BY <2>2, <2>3, <1>5 DEF In
<1> QED BY <1>2, <1>5, <1>6, <1>7, <1>8 DEF n

-----------------------------------------------------------------------------
\* Division is monotone: a later rank is worth no more.
LEMMA LaterIsLess ==
  ASSUME NEW x \in Nat, NEW a \in Nat, NEW b \in Nat, a > 0, a <= b
  PROVE  x \div b \in Nat /\ x \div b <= x \div a
<1> DEFINE q == x \div a
           r == x \div b
<1>1. q \in Int /\ x < a * (q + 1) /\ a * q <= x
  BY SMT
<1>2. r \in Int /\ b * r <= x /\ x < b * (r + 1)
  BY SMT
<1>3. r >= 0
  <2> SUFFICES ASSUME r <= -1 PROVE FALSE
    BY <1>2
  <2> HIDE DEF r
  <2>1. r + 1 <= 0
    BY <1>2
  <2>2. b * (r + 1) <= 0
    BY <2>1, <1>2, SMT
  <2> QED BY <2>2, <1>2
<1>4. a * r <= b * r
  <2> HIDE DEF r
  <2> QED BY <1>2, <1>3, SMT
<1>5. r <= q
  <2> SUFFICES ASSUME q + 1 <= r PROVE FALSE
    BY <1>1, <1>2
  <2> HIDE DEF q, r
  <2>1. a * (q + 1) <= a * r
    BY <1>1, <1>2, SMT
  <2> QED BY <2>1, <1>1, <1>2, <1>4, SMT
<1> QED BY <1>2, <1>3, <1>5

\* What a route gives a chunk: a number, and no less for one that it puts first.
LEMMA RrfFacts ==
  ASSUME NEW route, IsList(route), NEW w \in Nat, NEW a, NEW b
  PROVE  /\ Rrf(route, w, a) \in Nat
         /\ In(route, a) /\ (In(route, b) => Pos(route, a) < Pos(route, b))
              => Rrf(route, w, a) >= Rrf(route, w, b)
<1>1. \A c : In(route, c) => Pos(route, c) \in 1..Len(route)
  BY Places
<1>2. Len(route) \in Nat
  BY Places
<1>3. w * RkScale \in Nat
  BY RankingAssumption
<1>4. \A c : In(route, c) => RrfK + Pos(route, c) \in Nat /\ RrfK + Pos(route, c) > 0
  BY <1>1, <1>2 DEF RrfK
<1>5. \A c : Rrf(route, w, c) \in Nat
  <2> TAKE c
  <2>1. CASE In(route, c)
    <3>1. (w * RkScale) \div (RrfK + Pos(route, c)) \in Nat
      BY <2>1, <1>3, <1>4, LaterIsLess
    <3> QED BY <3>1, <2>1 DEF Rrf
  <2> QED BY <2>1 DEF Rrf
<1>6. ASSUME In(route, a), In(route, b), Pos(route, a) < Pos(route, b)
      PROVE  Rrf(route, w, a) >= Rrf(route, w, b)
  <2> DEFINE p == RrfK + Pos(route, a)
             q == RrfK + Pos(route, b)
  <2>1. p \in Nat /\ q \in Nat /\ p > 0 /\ p <= q
    BY <1>6, <1>1, <1>2 DEF RrfK
  <2>2. Rrf(route, w, a) = (w * RkScale) \div p /\ Rrf(route, w, b) = (w * RkScale) \div q
    BY <1>6 DEF Rrf
  <2> HIDE DEF p, q
  <2>3. (w * RkScale) \div q <= (w * RkScale) \div p
    BY <2>1, <1>3, LaterIsLess
  <2> QED BY <2>2, <2>3, <1>5
<1>7. ~In(route, b) => Rrf(route, w, b) = 0
  BY DEF Rrf
<1> QED BY <1>5, <1>6, <1>7

-----------------------------------------------------------------------------
\* The rows of a search: the chunks of both routes, those of the dense one first.
LEMMA HitsList ==
  ASSUME NEW dense, IsList(dense), NEW bm25, IsList(bm25), NEW h, h = Hits(dense, bm25)
  PROVE  /\ IsList(h) /\ Shown(h) = Shown(dense) \cup Shown(bm25)
         /\ \A a, b \in Shown(h) : Pos(h, a) < Pos(h, b) <=> Entered(dense, bm25, a, b)
<1> DEFINE rows == Shown(dense) \cup Shown(bm25)
           R == [a \in rows |-> {b \in rows : Entered(dense, bm25, a, b)}]
<1>1. rows \in SUBSET RkChunks
  BY Places
<1>2. InLine(rows, R)
  <2> DEFINE D(c) == In(dense, c)
             p(c) == Pos(dense, c)
             q(c) == Pos(bm25, c)
  <2>1. \A a, b \in rows : b \in R[a] <=> IF D(a) THEN D(b) => p(a) < p(b) ELSE ~D(b) /\ q(a) < q(b)
    BY DEF Entered
  <2>2. \A a \in rows : D(a) => p(a) \in Int /\ dense[p(a)] = a
    BY Places
  <2>3. \A a \in rows : ~D(a) => q(a) \in Int /\ bm25[q(a)] = a
    BY Places
  <2> HIDE DEF D, p, q, R, rows
  <2>4. \A a \in rows : a \notin R[a]
    BY <2>1, <2>2, <2>3
  <2>5. \A a, b \in rows : a # b => b \in R[a] \/ a \in R[b]
    BY <2>1, <2>2, <2>3
  <2>6. \A a, b, c \in rows : b \in R[a] /\ c \in R[b] => c \in R[a]
    BY <2>1, <2>2, <2>3
  <2> QED BY <2>4, <2>5, <2>6 DEF InLine
<1>3. h = Listed(rows, R)
  BY DEF Hits
<1>4. /\ IsList(h) /\ Shown(h) = rows
      /\ \A a, b \in rows : b \in R[a] <=> Pos(h, a) < Pos(h, b)
  <2> HIDE DEF rows, R
  <2> QED BY <1>1, <1>2, <1>3, ListOf
<1> QED BY <1>4

\* One chunk beats another: it is scored no less and entered before.
LEMMA BeatsIsAhead ==
  ASSUME NEW q, IsList(q.dense), IsList(q.bm25), q.w \in Nat \X Nat,
         NEW a, NEW b, Beats(q, a, b), In(q.dense, b) \/ In(q.bm25, b)
  PROVE  /\ In(q.dense, a) \/ In(q.bm25, a)
         /\ Entered(q.dense, q.bm25, a, b)
         /\ Fused(q.dense, q.bm25, q.w, q.tagged, a) >= Fused(q.dense, q.bm25, q.w, q.tagged, b)
<1> DEFINE ahead(route) == In(route, a) /\ (In(route, b) => Pos(route, a) < Pos(route, b))
           neither(route) == ~In(route, a) /\ ~In(route, b)
<1>1. /\ ahead(q.dense) \/ neither(q.dense)
      /\ ahead(q.bm25) \/ neither(q.bm25)
      /\ b \in q.tagged => a \in q.tagged
  BY DEF Beats
<1>2. ASSUME NEW route, IsList(route), NEW w \in Nat, ahead(route) \/ neither(route)
      PROVE  Rrf(route, w, a) \in Nat /\ Rrf(route, w, b) \in Nat /\ Rrf(route, w, a) >= Rrf(route, w, b)
  <2>1. Rrf(route, w, a) \in Nat /\ Rrf(route, w, b) \in Nat
    BY <1>2, RrfFacts
  <2>2. CASE ahead(route)
    BY <1>2, <2>1, <2>2, RrfFacts
  <2>3. CASE neither(route)
    BY <2>1, <2>3 DEF Rrf
  <2> QED BY <1>2, <2>1, <2>2, <2>3
<1>3. q.w[1] \in Nat /\ q.w[2] \in Nat
  OBVIOUS
<1>4. Boost \in Nat
  BY RankingAssumption, LaterIsLess DEF Boost
<1>5. Fused(q.dense, q.bm25, q.w, q.tagged, a) >= Fused(q.dense, q.bm25, q.w, q.tagged, b)
  <2> DEFINE da == Rrf(q.dense, q.w[1], a)
             db == Rrf(q.dense, q.w[1], b)
             sa == Rrf(q.bm25, q.w[2], a)
             sb == Rrf(q.bm25, q.w[2], b)
  <2>1. da \in Nat /\ db \in Nat /\ da >= db
    BY <1>1, <1>2, <1>3
  <2>2. sa \in Nat /\ sb \in Nat /\ sa >= sb
    BY <1>1, <1>2, <1>3
  <2>3. /\ Fused(q.dense, q.bm25, q.w, q.tagged, a) = da + sa + (IF a \in q.tagged THEN Boost ELSE 0)
        /\ Fused(q.dense, q.bm25, q.w, q.tagged, b) = db + sb + (IF b \in q.tagged THEN Boost ELSE 0)
    BY DEF Fused
  <2> HIDE DEF da, db, sa, sb
  <2>4. CASE b \in q.tagged
    BY <2>1, <2>2, <2>3, <2>4, <1>1, <1>4
  <2>5. CASE b \notin q.tagged
    BY <2>1, <2>2, <2>3, <2>5, <1>4
  <2> QED BY <2>4, <2>5
<1>6. Entered(q.dense, q.bm25, a, b)
  BY <1>1 DEF Entered
<1> QED BY <1>1, <1>5, <1>6

\* Every hit has a score.
LEMMA FusedIsNat ==
  ASSUME NEW dense, IsList(dense), NEW bm25, IsList(bm25), NEW w \in Nat \X Nat, NEW tagged
  PROVE  [c \in RkChunks |-> Fused(dense, bm25, w, tagged, c)] \in [RkChunks -> Int]
<1>1. Boost \in Nat
  BY RankingAssumption, LaterIsLess DEF Boost
<1>2. ASSUME NEW c PROVE Fused(dense, bm25, w, tagged, c) \in Int
  <2>1. Rrf(dense, w[1], c) \in Nat /\ Rrf(bm25, w[2], c) \in Nat
    BY RrfFacts
  <2> QED BY <1>1, <2>1 DEF Fused
<1> QED BY <1>2

\* A ranking of two routes puts every chunk before those it beats.
LEMMA RankIsSound ==
  ASSUME NEW q, IsList(q.dense), IsList(q.bm25), q.w \in Nat \X Nat, q.k \in Nat,
         NEW out, out = Ranked(q.dense, q.bm25, q.w, q.tagged, q.k)
  PROVE  /\ Len(out) = Least(Len(Hits(q.dense, q.bm25)), q.k)
         /\ \A a, b \in RkChunks : Beats(q, a, b) /\ In(out, b)
              => In(out, a) /\ Pos(out, a) < Pos(out, b)
<1> DEFINE h == Hits(q.dense, q.bm25)
           score == [c \in RkChunks |-> Fused(q.dense, q.bm25, q.w, q.tagged, c)]
           t == Sorted(h, score)
<1>1. /\ IsList(h) /\ Shown(h) = Shown(q.dense) \cup Shown(q.bm25)
      /\ \A a, b \in Shown(h) : Pos(h, a) < Pos(h, b) <=> Entered(q.dense, q.bm25, a, b)
  BY HitsList
<1>2. score \in [RkChunks -> Int]
  BY FusedIsNat
<1>3. out = Cut(t, q.k)
  BY DEF Ranked
<1>4. /\ IsList(t) /\ Shown(t) = Shown(h) /\ Len(t) = Len(h)
      /\ \A a, b \in Shown(h) : Pos(t, a) < Pos(t, b) <=> b \in Lower(h, score)[a]
  <2> HIDE DEF h, score
  <2> QED BY <1>1, <1>2, SortedList
<1>5. /\ Len(out) = Least(Len(t), q.k)
      /\ \A c : In(out, c) <=> In(t, c) /\ Pos(t, c) <= q.k
      /\ \A c : In(out, c) => Pos(out, c) = Pos(t, c)
  <2> HIDE DEF t
  <2> QED BY <1>3, <1>4, CutList
<1>6. ASSUME NEW a \in RkChunks, NEW b \in RkChunks, Beats(q, a, b), In(out, b)
      PROVE  In(out, a) /\ Pos(out, a) < Pos(out, b)
  <2>1. In(t, b) /\ Pos(t, b) <= q.k
    BY <1>5, <1>6
  <2>2. b \in Shown(h)
    <3> HIDE DEF t, h
    <3> QED BY <2>1, <1>4, Places
  <2>3. In(q.dense, b) \/ In(q.bm25, b)
    BY <2>2, <1>1, Places
  <2>4. /\ In(q.dense, a) \/ In(q.bm25, a)
        /\ Entered(q.dense, q.bm25, a, b)
        /\ Fused(q.dense, q.bm25, q.w, q.tagged, a) >= Fused(q.dense, q.bm25, q.w, q.tagged, b)
    BY <1>6, <2>3, BeatsIsAhead
  <2>5. a \in Shown(h)
    BY <2>4, <1>1, Places
  <2>6. score[a] \in Int /\ score[b] \in Int /\ score[a] >= score[b]
    <3>1. score[a] >= score[b]
      BY <2>4
    <3> QED BY <3>1, <1>2
  <2>7. Pos(h, a) < Pos(h, b)
    BY <2>2, <2>4, <2>5, <1>1
  <2> HIDE DEF h, score, t
  <2>8. b \in Lower(h, score)[a]
    BY <2>2, <2>5, <2>6, <2>7 DEF Lower
  <2>9. Pos(t, a) < Pos(t, b)
    BY <2>2, <2>5, <2>8, <1>4
  <2>10. /\ Pos(t, a) \in 1..Len(t) /\ Pos(t, b) \in 1..Len(t) /\ Len(t) \in Nat
         /\ In(t, a)
    BY <2>2, <2>5, <1>4, Places
  <2>11. Pos(t, a) <= q.k
    BY <2>1, <2>9, <2>10
  <2> QED BY <2>9, <2>10, <2>11, <1>5, <1>6
<1> QED BY <1>4, <1>5, <1>6

-----------------------------------------------------------------------------
\* The least number with a property, where there is one.
LEMMA LeastNumber ==
  ASSUME NEW N \in SUBSET Nat, N # {}
  PROVE  \E n \in N : \A m \in N : n <= m
<1>1. PICK n \in N : \A m \in N : <<m, n>> \notin OpToRel(<, Nat)
  BY NatLessThanWellFounded, WFMin
<1>2. \A m \in N : n <= m
  <2> TAKE m \in N
  <2>1. ~(m < n)
    BY <1>1 DEF OpToRel
  <2> QED BY <2>1
<1> QED BY <1>2

\* Going through a list one can keep who is redundant with none kept before.
LEMMA FirstOnesExist ==
  ASSUME NEW s, IsList(s), NEW pairs
  PROVE  \E K \in SUBSET Shown(s) :
           \A c \in Shown(s) : c \in K <=> \A d \in K : Pos(s, d) < Pos(s, c) => {c, d} \notin pairs
<1> DEFINE Upper(n) == {c \in Shown(s) : Pos(s, c) <= n}
           Good(K, n) == /\ K \in SUBSET Upper(n)
                         /\ \A c \in Upper(n) : c \in K <=> \A d \in K : Pos(s, d) < Pos(s, c) => {c, d} \notin pairs
           N == {n \in Nat : n <= Len(s) /\ ~ \E K : Good(K, n)}
<1>1. /\ Len(s) \in Nat
      /\ \A i \in 1..Len(s) : s[i] \in Shown(s) /\ Pos(s, s[i]) = i
      /\ \A c \in Shown(s) : Pos(s, c) \in 1..Len(s) /\ s[Pos(s, c)] = c
  BY Places
<1>2. SUFFICES N = {}
  <2>1. PICK K : Good(K, Len(s))
    <3> HIDE DEF Good
    <3> QED BY <1>1, <1>2
  <2>2. Upper(Len(s)) = Shown(s)
    BY <1>1
  <2>3. /\ K \in SUBSET Shown(s)
        /\ \A c \in Shown(s) : c \in K <=> \A d \in K : Pos(s, d) < Pos(s, c) => {c, d} \notin pairs
    <3> HIDE DEF Upper
    <3> QED BY <2>1, <2>2
  <2> HIDE DEF Upper
  <2> QED BY <2>3
<1>3. SUFFICES ASSUME N # {} PROVE FALSE
  OBVIOUS
<1>4. PICK n \in N : \A m \in N : n <= m
  <2> HIDE DEF Good
  <2> QED BY <1>3, LeastNumber
<1>5. n # 0
  <2>1. Upper(0) = {}
    BY <1>1
  <2>2. Good({}, 0)
    BY <2>1
  <2> HIDE DEF Good
  <2> QED BY <2>2
<1>6. n \in 1..Len(s) /\ n - 1 \in Nat /\ n - 1 <= Len(s) /\ n - 1 \notin N
  <2> HIDE DEF Good
  <2> QED BY <1>1, <1>4, <1>5
<1>7. PICK K : Good(K, n - 1)
  <2> HIDE DEF Good
  <2> QED BY <1>6
<1> DEFINE c0 == s[n]
           new == \A d \in K : Pos(s, d) < n => {c0, d} \notin pairs
           L == IF new THEN K \cup {c0} ELSE K
<1>8. c0 \in Shown(s) /\ Pos(s, c0) = n
  BY <1>1, <1>6
<1>9. Upper(n) = Upper(n - 1) \cup {c0} /\ c0 \notin Upper(n - 1)
  <2> DEFINE p(c) == Pos(s, c)
  <2>1. \A c \in Shown(s) : p(c) \in Int /\ (p(c) = n <=> c = c0)
    BY <1>1, <1>6, <1>8
  <2>2. \A c \in Shown(s) : p(c) <= n <=> p(c) <= n - 1 \/ c = c0
    <3> HIDE DEF p, c0
    <3> QED BY <2>1, <1>6
  <2> HIDE DEF c0
  <2> QED BY <2>1, <2>2, <1>8
<1>10. \A d \in K : d \in Shown(s) /\ Pos(s, d) < n
  BY <1>1, <1>6, <1>7
<1>11. Good(L, n)
  <2> HIDE DEF c0
  <2>1. L \in SUBSET Upper(n)
    BY <1>7, <1>9
  <2>2. c0 \in L <=> \A d \in L : Pos(s, d) < Pos(s, c0) => {c0, d} \notin pairs
    <3>1. c0 \notin K
      BY <1>7, <1>9
    <3>2. ~(n < n)
      BY <1>6
    <3> QED BY <3>1, <3>2, <1>8
  <2>3. ASSUME NEW c \in Upper(n - 1)
        PROVE  c \in L <=> \A d \in L : Pos(s, d) < Pos(s, c) => {c, d} \notin pairs
    <3>1. c # c0
      BY <1>9, <2>3
    <3>2. ~(Pos(s, c0) < Pos(s, c))
      BY <1>1, <1>6, <1>8
    <3>3. c \in K <=> \A d \in K : Pos(s, d) < Pos(s, c) => {c, d} \notin pairs
      BY <1>7
    <3> HIDE DEF Upper, new
    <3> QED BY <3>1, <3>2, <3>3
  <2> HIDE DEF L, Upper
  <2> QED BY <1>9, <2>1, <2>2, <2>3
<1> HIDE DEF Good, L
<1> QED BY <1>11, <1>4

\* Who is redundant with c, stays and stood before it.
StandsFor(t, s, pairs, c) == \E d \in Shown(t) : Pos(s, d) < Pos(s, c) /\ {d, c} \in pairs

\* Deduplication: a list of chunks none redundant with another; who is left out is redundant
\* with one that stays and stood before it.
LEMMA DedupedList ==
  ASSUME NEW s, IsList(s), NEW pairs \in SUBSET PairsOf, NEW t, t = Deduped(s, pairs)
  PROVE  /\ IsList(t) /\ Shown(t) \subseteq Shown(s)
         /\ \A a, b \in Shown(t) : {a, b} \notin pairs
         /\ \A a, b \in Shown(t) : Pos(t, a) < Pos(t, b) <=> Pos(s, a) < Pos(s, b)
         /\ \A c \in Shown(s) : c \notin Shown(t) => StandsFor(t, s, pairs, c)
<1> DEFINE K == FirstOnes(s, pairs)
           R == [a \in K |-> {b \in K : Pos(s, a) < Pos(s, b)}]
<1>1. /\ K \in SUBSET Shown(s)
      /\ \A c \in Shown(s) : c \in K <=> \A d \in K : Pos(s, d) < Pos(s, c) => {c, d} \notin pairs
  BY FirstOnesExist DEF FirstOnes
<1>2. t = Listed(K, R)
  BY DEF Deduped
<1> HIDE DEF K
<1>3. /\ Shown(s) \in SUBSET RkChunks
      /\ \A c \in Shown(s) : Pos(s, c) \in Int /\ s[Pos(s, c)] = c
  BY Places
<1>4. InLine(K, R)
  <2> DEFINE p(c) == Pos(s, c)
  <2>1. \A a, b \in K : b \in R[a] <=> p(a) < p(b)
    OBVIOUS
  <2>2. \A a \in K : p(a) \in Int /\ s[p(a)] = a
    BY <1>1, <1>3
  <2> HIDE DEF p, R
  <2> QED BY <2>1, <2>2 DEF InLine
<1>5. /\ IsList(t) /\ Shown(t) = K
      /\ \A a, b \in K : b \in R[a] <=> Pos(t, a) < Pos(t, b)
  <2>1. K \in SUBSET RkChunks
    BY <1>1, <1>3
  <2> HIDE DEF R
  <2> QED BY <2>1, <1>2, <1>4, ListOf
<1>6. ASSUME NEW a \in K, NEW b \in K PROVE {a, b} \notin pairs
  <2>1. CASE a = b
    BY <2>1 DEF PairsOf
  <2>2. CASE Pos(s, a) < Pos(s, b)
    <3>1. {b, a} \notin pairs
      BY <1>1, <2>2
    <3>2. {a, b} = {b, a}
      OBVIOUS
    <3> QED BY <3>1, <3>2
  <2>3. CASE Pos(s, b) < Pos(s, a)
    BY <1>1, <2>3
  <2>4. a # b => Pos(s, a) < Pos(s, b) \/ Pos(s, b) < Pos(s, a)
    <3>1. /\ Pos(s, a) \in Int /\ s[Pos(s, a)] = a
          /\ Pos(s, b) \in Int /\ s[Pos(s, b)] = b
      BY <1>1, <1>3
    <3> QED BY <3>1
  <2> QED BY <2>1, <2>2, <2>3, <2>4
<1>7. ASSUME NEW c \in Shown(s), c \notin K
      PROVE  \E d \in K : Pos(s, d) < Pos(s, c) /\ {d, c} \in pairs
  <2>1. PICK d \in K : Pos(s, d) < Pos(s, c) /\ {c, d} \in pairs
    BY <1>1, <1>7
  <2>2. {c, d} = {d, c}
    OBVIOUS
  <2> QED BY <2>1, <2>2
<1>8. \A c \in Shown(s) : c \notin Shown(t) => StandsFor(t, s, pairs, c)
  BY <1>5, <1>7 DEF StandsFor
<1> QED BY <1>1, <1>5, <1>6, <1>8

-----------------------------------------------------------------------------
\* The chunk that is picked is a candidate, and the first of those of the greatest relevance.
LEMMA PickedNext ==
  ASSUME NEW s, IsList(s), NEW picked, Shown(s) \ picked # {},
         NEW score \in [RkChunks -> Int], NEW best \in Int, NEW similar,
         NEW c, c = PickNext(s, picked, score, best, similar)
  PROVE  /\ c \in Shown(s) \ picked
         /\ \A d \in Shown(s) \ picked :
              \/ d = c
              \/ Mmr(picked, c, score, best, similar) > Mmr(picked, d, score, best, similar)
              \/ /\ Mmr(picked, c, score, best, similar) = Mmr(picked, d, score, best, similar)
                 /\ Pos(s, c) < Pos(s, d)
<1> DEFINE rest == Shown(s) \ picked
           m == [x \in rest |-> Mmr(picked, x, score, best, similar)]
           R == [x \in rest |-> {y \in rest : m[x] > m[y] \/ (m[x] = m[y] /\ Pos(s, x) < Pos(s, y))}]
           l == Listed(rest, R)
<1>1. /\ rest \in SUBSET RkChunks
      /\ \A x \in rest : Pos(s, x) \in Int /\ s[Pos(s, x)] = x
  BY Places
<1>2. \A x \in rest : m[x] \in Int
  <2> TAKE x \in rest
  <2>1. score[x] \in Int
    BY <1>1
  <2>2. Mmr(picked, x, score, best, similar) \in Int
    BY <2>1 DEF Mmr
  <2> QED BY <2>2
<1>3. InLine(rest, R)
  <2> DEFINE p(x) == Pos(s, x)
  <2>1. \A x, y \in rest : y \in R[x] <=> m[x] > m[y] \/ (m[x] = m[y] /\ p(x) < p(y))
    <3> HIDE DEF m
    <3> QED OBVIOUS
  <2>2. \A x \in rest : p(x) \in Int /\ s[p(x)] = x /\ m[x] \in Int
    <3> HIDE DEF m
    <3> QED BY <1>1, <1>2
  <2> HIDE DEF p, m, R
  <2> QED BY <2>1, <2>2 DEF InLine
<1>4. /\ IsFiniteSet(rest) /\ IsList(l) /\ Shown(l) = rest
      /\ \A x, y \in rest : y \in R[x] <=> Pos(l, x) < Pos(l, y)
  <2> HIDE DEF rest, R
  <2> QED BY <1>1, <1>3, ListOf
<1>5. c = l[1]
  BY DEF PickNext
<1> HIDE DEF l, R
<1>6. /\ Len(l) \in Nat
      /\ \A i \in 1..Len(l) : l[i] \in rest /\ Pos(l, l[i]) = i
      /\ \A x \in rest : Pos(l, x) \in 1..Len(l) /\ l[Pos(l, x)] = x
  <2> HIDE DEF rest
  <2> QED BY <1>4, Places
<1>7. 1 \in 1..Len(l)
  BY <1>6
<1>8. c \in rest /\ Pos(l, c) = 1
  BY <1>5, <1>6, <1>7
<1>9. ASSUME NEW d \in rest, d # c PROVE d \in R[c]
  <2>1. Pos(l, d) \in 1..Len(l) /\ l[Pos(l, d)] = d
    BY <1>6
  <2>2. Pos(l, c) < Pos(l, d)
    <3>1. Pos(l, d) # 1
      BY <2>1, <1>5, <1>9
    <3> QED BY <2>1, <3>1, <1>6, <1>8
  <2> QED BY <2>2, <1>4, <1>8
<1>10. ASSUME NEW d \in rest, d # c
       PROVE  m[c] > m[d] \/ (m[c] = m[d] /\ Pos(s, c) < Pos(s, d))
  <2> HIDE DEF m
  <2> QED BY <1>8, <1>9, <1>10 DEF R
<1>11. m[c] = Mmr(picked, c, score, best, similar)
  BY <1>8
<1>12. \A d \in rest : m[d] = Mmr(picked, d, score, best, similar)
  OBVIOUS
<1> HIDE DEF m
<1> QED BY <1>8, <1>10, <1>11, <1>12

\* One can pick as long as candidates remain.
LEMMA PicksExist ==
  ASSUME NEW s, IsList(s), NEW t, IsList(t), Shown(t) = Shown(s), Len(t) = Len(s),
         NEW score \in [RkChunks -> Int], NEW best \in Int, NEW similar,
         NEW n \in Nat, n <= Len(s)
  PROVE  \E p \in [1..n -> Shown(s)] : InTurn(p, t, score, best, similar)
<1> DEFINE Next1(P) == PickNext(t, P, score, best, similar)
           Good(p, m) == /\ p \in [1..m -> Shown(s)]
                         /\ \A i \in 1..m : p[i] = Next1(Before(p, i))
           N == {m \in Nat : m <= Len(s) /\ ~ \E p : Good(p, m)}
<1>1. Len(s) \in Nat
  BY Places
<1>2. SUFFICES N = {}
  <2> HIDE DEF Good
  <2>1. PICK p : Good(p, n)
    BY <1>2
  <2>2. p \in [1..n -> Shown(s)] /\ \A i \in 1..n : p[i] = Next1(Before(p, i))
    BY <2>1 DEF Good
  <2>3. InTurn(p, t, score, best, similar)
    BY <2>2 DEF InTurn
  <2> QED BY <2>2, <2>3
<1>3. SUFFICES ASSUME N # {} PROVE FALSE
  OBVIOUS
<1>4. PICK m \in N : \A k \in N : m <= k
  <2> HIDE DEF Good
  <2> QED BY <1>3, LeastNumber
<1>5. m # 0
  <2>1. Good([i \in 1..0 |-> 0], 0)
    OBVIOUS
  <2> HIDE DEF Good
  <2> QED BY <2>1
<1>6. m \in 1..Len(s) /\ m - 1 \in Nat /\ m - 1 <= Len(s) /\ m - 1 \notin N
  <2> HIDE DEF Good
  <2> QED BY <1>1, <1>4, <1>5
<1>7. PICK p : Good(p, m - 1)
  <2> HIDE DEF Good
  <2> QED BY <1>6
<1> DEFINE P == Before(p, m)
           c == Next1(P)
           q == [i \in 1..m |-> IF i = m THEN c ELSE p[i]]
<1>8. Shown(t) \ P # {}
  <2>1. IsFiniteSet(Shown(s)) /\ Cardinality(Shown(s)) = Len(s)
    BY CountOfList
  <2>2. /\ p \in [1..(m - 1) -> P] /\ P \subseteq Shown(s)
        /\ \A x \in P : \E j \in 1..(m - 1) : p[j] = x
    BY <1>7 DEF Before
  <2>3. p \in Surjection(1..(m - 1), P)
    <3> HIDE DEF P
    <3> QED BY <2>2, Fun_IsSurj
  <2>4. IsFiniteSet(1..(m - 1)) /\ Cardinality(1..(m - 1)) = m - 1
    <3> DEFINE k == m - 1
    <3>1. k \in Nat
      BY <1>6
    <3> HIDE DEF k
    <3>2. IsFiniteSet(1..k) /\ Cardinality(1..k) = k
      BY <3>1, UpTo
    <3> QED BY <3>2 DEF k
  <2>5. IsFiniteSet(P) /\ Cardinality(P) <= m - 1
    <3> HIDE DEF P
    <3> QED BY <2>3, <2>4, FS_Surjection
  <2>6. P # Shown(s)
    <3> HIDE DEF P
    <3> QED BY <2>1, <2>5, <1>1, <1>6
  <2> HIDE DEF P
  <2> QED BY <2>2, <2>6
<1>9. c \in Shown(s)
  <2> HIDE DEF P
  <2> QED BY <1>8, PickedNext
<1>10. q \in [1..m -> Shown(s)]
  <2> HIDE DEF c
  <2> QED BY <1>6, <1>7, <1>9
<1>11. ASSUME NEW i \in 1..m PROVE q[i] = Next1(Before(q, i))
  <2>1. Before(q, i) = Before(p, i)
    <3>1. \A j \in 1..(i - 1) : q[j] = p[j]
      <4>1. \A j \in 1..(i - 1) : j \in 1..m /\ j # m
        BY <1>6
      <4> HIDE DEF c
      <4> QED BY <4>1
    <3> HIDE DEF q
    <3> QED BY <3>1 DEF Before
  <2>2. CASE i = m
    <3>1. q[i] = c
      BY <2>2
    <3> HIDE DEF q
    <3> QED BY <2>1, <2>2, <3>1
  <2>3. CASE i # m
    <3>1. i \in 1..(m - 1)
      BY <2>3, <1>6
    <3>2. q[i] = p[i]
      <4> HIDE DEF c
      <4> QED BY <2>3
    <3>3. p[i] = Next1(Before(p, i))
      BY <3>1, <1>7
    <3> HIDE DEF q, Next1
    <3> QED BY <2>1, <3>2, <3>3
  <2> QED BY <2>2, <2>3
<1>12. Good(q, m)
  <2> HIDE DEF q, Next1
  <2> QED BY <1>10, <1>11
<1> HIDE DEF Good, q
<1> QED BY <1>12, <1>4

\* Diversity: as many as are asked for or there are, each once, the best one first.
LEMMA DiverseList ==
  ASSUME NEW s, IsList(s), NEW score \in [RkChunks -> Int], NEW k \in Nat \ {0}, NEW similar,
         NEW out, out = Diverse(s, score, k, similar)
  PROVE  /\ IsList(out) /\ Len(out) = Least(Len(s), k) /\ Shown(out) \subseteq Shown(s)
         /\ s # <<>> => out # <<>> /\ \A d \in Shown(s) :
              \/ score[out[1]] > score[d]
              \/ score[out[1]] = score[d] /\ Pos(s, out[1]) <= Pos(s, d)
<1> DEFINE t == Sorted(s, score)
           n == Least(Len(s), k)
           best == score[t[1]]
           Follows(p) == InTurn(p, t, score, best, similar)
<1>1. /\ Len(s) \in Nat /\ DOMAIN s = 1..Len(s) /\ Shown(s) \in SUBSET RkChunks
      /\ IsFiniteSet(Shown(s)) /\ Cardinality(Shown(s)) = Len(s)
  BY Places, CountOfList
<1>2. /\ IsList(t) /\ Shown(t) = Shown(s) /\ Len(t) = Len(s)
      /\ \A a, b \in Shown(s) : Pos(t, a) < Pos(t, b) <=> b \in Lower(s, score)[a]
  BY SortedList
<1>3. n \in Nat /\ n <= Len(s) /\ n <= k /\ (n = Len(s) \/ n = k)
  BY <1>1 DEF Least
<1>4. CASE Len(s) = 0
  <2>1. n = 0
    BY <1>3, <1>4
  <2>2. 1..n = {}
    BY <2>1
  <2>3. out \in [1..n -> Shown(s)]
    <3>1. \E p \in [1..n -> Shown(s)] : Follows(p)
      <4> DEFINE e == [i \in 1..n |-> 0]
      <4>1. e \in [1..n -> Shown(s)] /\ Follows(e)
        BY <2>2 DEF InTurn
      <4> QED BY <4>1
    <3>2. out = CHOOSE p \in [1..n -> Shown(s)] : Follows(p)
      BY DEF Diverse
    <3> HIDE DEF Follows, n
    <3> QED BY <3>1, <3>2
  <2>4. out = <<>>
    BY <2>1, <2>3
  <2>5. s = <<>>
    BY <1>4 DEF IsList
  <2>6. IsList(out) /\ Len(out) = 0 /\ Shown(out) = {}
    BY <2>4 DEF IsList, Shown
  <2> HIDE DEF n
  <2>7. Len(out) = n /\ Shown(out) \subseteq Shown(s)
    BY <2>1, <2>6
  <2> QED BY <2>5, <2>6, <2>7 DEF n
<1>5. CASE Len(s) > 0
  <2>1. 1 \in 1..Len(s) /\ n > 0
    BY <1>1, <1>3, <1>5
  <2>2. t[1] \in Shown(s) /\ best \in Int
    <3>1. t[1] \in Shown(t)
      <4> HIDE DEF t
      <4> QED BY <1>2, <2>1, Places
    <3> HIDE DEF t
    <3> QED BY <1>1, <1>2, <3>1
  <2> HIDE DEF t, n, best
  <2>3. \E p \in [1..n -> Shown(s)] : Follows(p)
    BY <1>2, <1>3, <2>2, PicksExist
  <2>4. out = CHOOSE p \in [1..n -> Shown(s)] : Follows(p)
    BY DEF Diverse, t, n, best
  <2>5. out \in [1..n -> Shown(s)] /\ Follows(out)
    <3> HIDE DEF Follows
    <3> QED BY <2>3, <2>4
  <2> DEFINE L == Len(s)
  <2>60. n \in Nat /\ L \in Nat /\ n <= L
    BY <1>1, <1>3
  <2> HIDE DEF L
  <2>61. out \in [1..n -> RkChunks]
    BY <2>5, <1>1
  <2>6. DOMAIN out = 1..n /\ Len(out) = n /\ out \in Seq(RkChunks)
    BY <2>60, <2>61
  <2>7. ASSUME NEW i \in 1..n PROVE Shown(t) \ Before(out, i) # {}
    <3>1. i - 1 \in Nat /\ i - 1 < L
      BY <2>60
    <3>2. IsFiniteSet(1..(i - 1)) /\ Cardinality(1..(i - 1)) = i - 1
      <4> DEFINE l == i - 1
      <4> HIDE DEF l
      <4>1. IsFiniteSet(1..l) /\ Cardinality(1..l) = l
        BY <3>1, UpTo DEF l
      <4> QED BY <4>1 DEF l
    <3> DEFINE f == [j \in 1..(i - 1) |-> out[j]]
    <3>3. f \in [1..(i - 1) -> Before(out, i)] /\ \A x \in Before(out, i) : \E j \in 1..(i - 1) : f[j] = x
      BY DEF Before
    <3>4. f \in Surjection(1..(i - 1), Before(out, i))
      <4> HIDE DEF f
      <4> QED BY <3>3, Fun_IsSurj
    <3>5. IsFiniteSet(Before(out, i)) /\ Cardinality(Before(out, i)) <= i - 1
      <4> HIDE DEF f
      <4> QED BY <3>2, <3>4, FS_Surjection
    <3>6. Before(out, i) \subseteq Shown(s)
      <4>1. \A j \in 1..(i - 1) : j \in 1..n
        BY <1>3
      <4> QED BY <4>1, <2>5 DEF Before
    <3>7. Before(out, i) # Shown(s)
      <4> QED BY <3>1, <3>5, <1>1 DEF L
    <3> QED BY <3>6, <3>7, <1>2
  <2>8. ASSUME NEW i \in 1..n
        PROVE  /\ out[i] \in Shown(t) \ Before(out, i)
               /\ \A d \in Shown(t) \ Before(out, i) :
                    \/ d = out[i]
                    \/ Mmr(Before(out, i), out[i], score, best, similar) > Mmr(Before(out, i), d, score, best, similar)
                    \/ /\ Mmr(Before(out, i), out[i], score, best, similar) = Mmr(Before(out, i), d, score, best, similar)
                       /\ Pos(t, out[i]) < Pos(t, d)
    <3>1. out[i] = PickNext(t, Before(out, i), score, best, similar)
      BY <2>5, <2>6 DEF InTurn
    <3>2. Shown(t) \ Before(out, i) # {}
      BY <2>7
    <3> QED BY <3>1, <3>2, <1>2, <2>2, PickedNext
  <2>9. \A i, j \in 1..n : i < j => out[j] # out[i]
    <3> SUFFICES ASSUME NEW i \in 1..n, NEW j \in 1..n, i < j PROVE out[j] # out[i]
      OBVIOUS
    <3>1. i \in 1..(j - 1)
      BY <1>3
    <3>2. out[i] \in Before(out, j)
      BY <3>1 DEF Before
    <3>3. out[j] \notin Before(out, j)
      <4> QED BY <2>8
    <3> QED BY <3>2, <3>3
  <2>10. \A i, j \in 1..n : out[i] = out[j] => i = j
    BY <2>9, <1>3
  <2>11. IsList(out) /\ Shown(out) \subseteq Shown(s)
    BY <2>5, <2>6, <2>10 DEF IsList, Shown
  <2>12. out # <<>>
    <3> SUFFICES ASSUME out = <<>> PROVE FALSE
      OBVIOUS
    <3>1. Len(out) = 0
      OBVIOUS
    <3> QED BY <3>1, <2>1, <2>6
  <2>13. ASSUME NEW d \in Shown(s)
         PROVE  \/ score[out[1]] > score[d]
                \/ score[out[1]] = score[d] /\ Pos(s, out[1]) <= Pos(s, d)
    <3>1. 1 \in 1..n /\ Before(out, 1) = {}
      BY <2>1, <2>60 DEF Before
    <3>2. /\ out[1] \in Shown(t)
          /\ \/ d = out[1]
             \/ Mmr({}, out[1], score, best, similar) > Mmr({}, d, score, best, similar)
             \/ /\ Mmr({}, out[1], score, best, similar) = Mmr({}, d, score, best, similar)
                /\ Pos(t, out[1]) < Pos(t, d)
      <4> QED BY <2>8, <3>1, <1>2
    <3> DEFINE c == out[1]
    <3>3. c \in Shown(s) /\ score[c] \in Int /\ score[d] \in Int
      BY <3>2, <1>1, <1>2
    <3>4. Mmr({}, c, score, best, similar) = 7 * score[c] /\ Mmr({}, d, score, best, similar) = 7 * score[d]
      BY <3>3 DEF Mmr
    <3> HIDE DEF c
    <3>5. Pos(s, d) \in Int
      BY Places
    <3>6. Pos(t, c) < Pos(t, d) => score[c] > score[d] \/ (score[c] = score[d] /\ Pos(s, c) < Pos(s, d))
      BY <3>3, <1>2 DEF Lower
    <3>7. Pos(s, c) \in Int
      BY <3>3, Places
    <3>8. \/ d = c
          \/ 7 * score[c] > 7 * score[d]
          \/ 7 * score[c] = 7 * score[d] /\ Pos(t, c) < Pos(t, d)
      BY <3>2, <3>4 DEF c
    <3>9. score[c] > score[d] \/ (score[c] = score[d] /\ Pos(s, c) <= Pos(s, d))
      BY <3>3, <3>5, <3>6, <3>7, <3>8
    <3> QED BY <3>9 DEF c
  <2> QED BY <2>6, <2>11, <2>12, <2>13 DEF n
<1> QED BY <1>1, <1>4, <1>5

\* Fusion: no redundant pair, nothing left out of a short answer but for one that stays,
\* and the best result leads.
LEMMA FusionIsSound ==
  ASSUME NEW q, NEW s, NEW score \in [RkChunks -> Int], NEW pairs \in SUBSET PairsOf, NEW k \in Nat \ {0},
         q.found = s, q.score = score, q.pairs = pairs, q.k = k, IsList(s),
         NEW similar, NEW out, out = Fusion(s, score, pairs, similar, k)
  PROVE  WellFused(q, out)
<1> DEFINE found == Sorted(s, score)
           t == Deduped(found, pairs)
<1>1. /\ IsList(found) /\ Shown(found) = Shown(s)
      /\ \A a, b \in Shown(s) : Pos(found, a) < Pos(found, b) <=> b \in Lower(s, score)[a]
  BY SortedList
<1> HIDE DEF found
<1>2. /\ IsList(t) /\ Shown(t) \subseteq Shown(found)
      /\ \A a, b \in Shown(t) : {a, b} \notin pairs
      /\ \A a, b \in Shown(t) : Pos(t, a) < Pos(t, b) <=> Pos(found, a) < Pos(found, b)
      /\ \A c \in Shown(found) : c \notin Shown(t)
           => StandsFor(t, found, pairs, c)
  <2>1. t = Deduped(found, pairs)
    OBVIOUS
  <2>2. IsList(found)
    BY <1>1
  <2> HIDE DEF t
  <2>3. pairs \in SUBSET PairsOf
    OBVIOUS
  <2>4. IsList(t) /\ Shown(t) \subseteq Shown(found)
    BY <2>1, <2>2, <2>3, DedupedList
  <2>5. \A a, b \in Shown(t) : {a, b} \notin pairs
    BY <2>1, <2>2, <2>3, DedupedList
  <2>6. \A a, b \in Shown(t) : Pos(t, a) < Pos(t, b) <=> Pos(found, a) < Pos(found, b)
    BY <2>1, <2>2, <2>3, DedupedList
  <2>7. \A c \in Shown(found) : c \notin Shown(t) => StandsFor(t, found, pairs, c)
    BY <2>1, <2>2, <2>3, DedupedList
  <2> QED BY <2>4, <2>5, <2>6, <2>7
<1>3. out = Diverse(t, score, k, similar)
  BY DEF Fusion, found
<1> HIDE DEF t
<1>4. /\ IsList(out) /\ Len(out) = Least(Len(t), k) /\ Shown(out) \subseteq Shown(t)
      /\ t # <<>> => out # <<>> /\ \A d \in Shown(t) :
           \/ score[out[1]] > score[d]
           \/ score[out[1]] = score[d] /\ Pos(t, out[1]) <= Pos(t, d)
  BY <1>2, <1>3, DiverseList
<1>5. /\ Len(out) \in Nat /\ Len(t) \in Nat /\ Len(found) \in Nat
      /\ DOMAIN out = 1..Len(out)
  BY <1>1, <1>2, <1>4, Places
<1>6. /\ \A i, j \in DOMAIN out : i # j => out[i] # out[j]
      /\ Len(out) <= k
  BY <1>4, <1>5 DEF IsList, Least
<1>7. \A r, u \in Shown(out) : {r, u} \notin pairs
  BY <1>2, <1>4
<1>8. ASSUME Len(out) < k, NEW c \in Shown(found)
      PROVE  Represented(c, out, pairs, score)
  <2>1. Len(out) = Len(t)
    BY <1>4, <1>5, <1>8 DEF Least
  <2>2. Shown(out) = Shown(t)
    <3>1. /\ IsFiniteSet(Shown(out)) /\ Cardinality(Shown(out)) = Len(out)
          /\ IsFiniteSet(Shown(t)) /\ Cardinality(Shown(t)) = Len(t)
      BY <1>2, <1>4, CountOfList
    <3> QED BY <2>1, <3>1, <1>4, FS_Subset
  <2>3. CASE c \in Shown(t)
    BY <2>2, <2>3, <1>4, Places DEF Represented
  <2>4. CASE c \notin Shown(t)
    <3>1. PICK d \in Shown(t) : Pos(found, d) < Pos(found, c) /\ {d, c} \in pairs
      BY <1>2, <2>4 DEF StandsFor
    <3>2. d \in Shown(s) /\ c \in Shown(s) /\ Shown(s) \subseteq RkChunks
      BY <1>1, <1>2, Places
    <3>3. c \in Lower(s, score)[d]
      BY <3>1, <3>2, <1>1
    <3>4. score[d] > score[c] \/ score[d] = score[c]
      BY <3>2, <3>3 DEF Lower
    <3>5. score[d] >= score[c]
      BY <3>2, <3>4
    <3> QED BY <3>1, <3>5, <2>2 DEF Represented
  <2> QED BY <2>3, <2>4
<1>9. ASSUME found # <<>> PROVE out # <<>> /\ out[1] = found[1]
  <2> DEFINE f == found[1]
  <2>1. 1 \in 1..Len(found)
    <3>1. Len(found) # 0
      BY <1>1, <1>9 DEF IsList
    <3> QED BY <3>1, <1>5
  <2>2. /\ f \in Shown(found) /\ Pos(found, f) = 1
        /\ \A c \in Shown(found) : Pos(found, c) \in 1..Len(found) /\ found[Pos(found, c)] = c
    BY <2>1, <1>1, Places
  <2>3. f \in Shown(t)
    <3> HIDE DEF f
    <3> SUFFICES ASSUME f \notin Shown(t) PROVE FALSE
      OBVIOUS
    <3>1. PICK d \in Shown(t) : Pos(found, d) < Pos(found, f)
      <4>1. f \in Shown(found)
        BY <2>2
      <4> QED BY <1>2, <4>1 DEF StandsFor
    <3>2. Pos(found, d) \in 1..Len(found)
      BY <1>2, <2>2
    <3> QED BY <3>1, <3>2, <2>2, <1>5
  <2>4. t # <<>>
    BY <2>3 DEF Shown
  <2> DEFINE c == out[1]
  <2>5. 1 \in 1..Len(out)
    <3>1. Len(out) # 0
      BY <1>4, <2>4 DEF IsList
    <3> QED BY <3>1, <1>5
  <2>6. c \in Shown(t) /\ c \in Shown(found)
    BY <2>5, <1>2, <1>4, Places
  <2>7. score[c] > score[f] \/ (score[c] = score[f] /\ Pos(t, c) <= Pos(t, f))
    BY <1>4, <2>3, <2>4
  <2> HIDE DEF c, f
  <2>8. SUFFICES ASSUME c # f PROVE FALSE
    BY <1>4, <2>4 DEF c, f
  <2>9. Pos(found, f) < Pos(found, c)
    <3>1. Pos(found, c) # 1
      BY <2>2, <2>6, <2>8 DEF f
    <3> QED BY <3>1, <2>2, <2>6, <1>5
  <2>10. Pos(t, f) < Pos(t, c)
    BY <2>3, <2>6, <2>9, <1>2
  <2>11. Pos(t, f) \in Int /\ Pos(t, c) \in Int
    BY <2>3, <2>6, <1>2, Places
  <2>12. f \in Shown(s) /\ c \in Shown(s) /\ score[f] \in Int /\ score[c] \in Int
    <3>1. f \in Shown(s) /\ c \in Shown(s) /\ Shown(s) \subseteq RkChunks
      BY <2>2, <2>6, <1>1, Places
    <3> QED BY <3>1
  <2>13. score[f] > score[c] \/ score[f] = score[c]
    <3>1. c \in Lower(s, score)[f]
      BY <2>9, <2>12, <1>1
    <3> QED BY <3>1, <2>12 DEF Lower
  <2> QED BY <2>7, <2>10, <2>11, <2>12, <2>13
<1>10. Len(out) < k => \A c \in Shown(found) : Represented(c, out, pairs, score)
  BY <1>8
<1>11. found = Sorted(q.found, q.score)
  BY DEF found
<1> QED BY <1>6, <1>7, <1>9, <1>10, <1>11 DEF WellFused

\* The answers of the bases are a list.
LEMMA AnswersList ==
  ASSUME NEW failed, NEW score \in [RkChunks -> Int], NEW k \in Nat, NEW s, s = Merged(score, failed, k)
  PROVE  IsList(s)
<1> DEFINE all == {c \in RkChunks : RkBaseOf[c] \notin failed}
           R == [a \in all |-> {b \in all : RkBaseOf[a] < RkBaseOf[b] \/ (RkBaseOf[a] = RkBaseOf[b] /\ a < b)}]
           h == Gathered(failed)
           t == Sorted(h, score)
<1>1. \A c \in all : c \in Int /\ RkBaseOf[c] \in Int
  BY RankingAssumption
<1>2. InLine(all, R)
  <2>1. \A a, b \in all : b \in R[a] <=> RkBaseOf[a] < RkBaseOf[b] \/ (RkBaseOf[a] = RkBaseOf[b] /\ a < b)
    OBVIOUS
  <2> HIDE DEF all, R
  <2> QED BY <2>1, <1>1 DEF InLine
<1>3. h = Listed(all, R) /\ all \in SUBSET RkChunks
  BY DEF Gathered
<1>4. IsList(h)
  <2> HIDE DEF all, R, h
  <2> QED BY <1>2, <1>3, ListOf
<1>5. IsList(t)
  <2> HIDE DEF h
  <2> QED BY <1>4, SortedList
<1>6. s = Cut(t, k)
  BY DEF Merged
<1> HIDE DEF t
<1> QED BY <1>5, <1>6, CutList

\* Weighted scores are numbers.
LEMMA WeightIsNat ==
  ASSUME NEW score \in [RkChunks -> RkScores], NEW health \in [Bases -> RkHealth]
  PROVE  score \in [RkChunks -> Int] /\ Weight(score, health) \in [RkChunks -> Int]
<1>1. ASSUME NEW c \in RkChunks
      PROVE  score[c] \in Int /\ score[c] * HealthWeight(health[RkBaseOf[c]]) \in Int
  <2>1. score[c] \in Nat
    BY RankingAssumption
  <2>2. RkBaseOf[c] \in Bases
    BY DEF Bases
  <2> DEFINE g == health[RkBaseOf[c]]
             w == HealthWeight(g)
  <2>3. g \in RkHealth
    BY <2>2
  <2>4. w \in Int
    <3> HIDE DEF g
    <3>1. g \in Int
      BY <2>3, RankingAssumption DEF NoHealth
    <3> QED BY <3>1 DEF HealthWeight
  <2> HIDE DEF w
  <2>5. score[c] * w \in Int
    BY <2>1, <2>4
  <2> QED BY <2>1, <2>5 DEF w
<1> QED BY <1>1 DEF Weight

\* What a route returns is a list.
LEMMA OrdersAreLists ==
  ASSUME NEW s \in Orders
  PROVE  IsList(s)
<1>1. Cardinality(RkChunks) \in Nat
  BY RankingAssumption, FS_CardinalityType
<1>2. PICK n \in 0..Cardinality(RkChunks) :
        s \in [1..n -> RkChunks] /\ \A i, j \in 1..n : i # j => s[i] # s[j]
  BY DEF Orders
<1>3. n \in Nat
  BY <1>1
<1>4. s \in Seq(RkChunks) /\ Len(s) = n
  BY <1>2, <1>3
<1> QED BY <1>2, <1>4 DEF IsList

\* The ranking of the two routes of a collection.
LEMMA RankStep ==
  ASSUME RankCase
  PROVE  RetrievalSound'
<1>1. PICK dense \in Orders, bm25 \in Orders, w \in RkWeights, tagged \in SUBSET RkChunks, k \in RkTops :
        /\ rkCase' = [kind |-> "rank", dense |-> dense, bm25 |-> bm25, w |-> w, tagged |-> tagged, k |-> k]
        /\ rkOut'  = Ranked(dense, bm25, w, tagged, k)
  BY DEF RankCase
<1> DEFINE q == [kind |-> "rank", dense |-> dense, bm25 |-> bm25, w |-> w, tagged |-> tagged, k |-> k]
<1>2. /\ q.dense = dense /\ q.bm25 = bm25 /\ q.w = w /\ q.tagged = tagged /\ q.k = k /\ q.kind = "rank"
      /\ rkCase' = q /\ rkOut' = Ranked(q.dense, q.bm25, q.w, q.tagged, q.k)
  BY <1>1
<1>3. IsList(dense) /\ IsList(bm25)
  BY OrdersAreLists
<1>4. w \in Nat \X Nat /\ k \in Nat
  BY RankingAssumption
<1> HIDE DEF q
<1>5. /\ Len(rkOut') = Least(Len(Hits(q.dense, q.bm25)), q.k)
      /\ \A a, b \in RkChunks : Beats(q, a, b) /\ In(rkOut', b)
           => In(rkOut', a) /\ Pos(rkOut', a) < Pos(rkOut', b)
  BY <1>2, <1>3, <1>4, RankIsSound
<1>6. RankingSound'
  BY <1>2, <1>5 DEF RankingSound
<1>7. FusionSound' /\ DecisionsSound'
  BY <1>2 DEF FusionSound, DecisionsSound
<1> QED BY <1>6, <1>7 DEF RetrievalSound

\* The fusion of what several bases found.
LEMMA FuseStep ==
  ASSUME FuseCase
  PROVE  RetrievalSound'
<1>1. PICK score \in [RkChunks -> RkScores], failed \in SUBSET Bases, health \in [Bases -> RkHealth],
          pairs \in SUBSET PairsOf, similar \in SUBSET PairsOf, fetch \in RkTops, k \in RkTops :
        LET found == Merged(score, failed, fetch) IN
        /\ fetch = k \/ (pairs = {} /\ \A b \in Bases : health[b] = NoHealth)
        /\ rkCase' = [kind |-> "fuse", found |-> found, score |-> Weight(score, health), pairs |-> pairs, k |-> k]
        /\ rkOut'  = Fusion(found, Weight(score, health), pairs, similar, k)
  BY DEF FuseCase
<1> DEFINE s == Merged(score, failed, fetch)
           v == Weight(score, health)
           q == [kind |-> "fuse", found |-> s, score |-> v, pairs |-> pairs, k |-> k]
<1>2. /\ q.found = s /\ q.score = v /\ q.pairs = pairs /\ q.k = k /\ q.kind = "fuse"
      /\ rkCase' = q /\ rkOut' = Fusion(s, v, pairs, similar, k)
  BY <1>1
<1>3. score \in [RkChunks -> Int] /\ v \in [RkChunks -> Int]
  BY WeightIsNat
<1>4. k \in Nat \ {0} /\ fetch \in Nat
  BY RankingAssumption
<1>5. IsList(s)
  BY <1>3, <1>4, AnswersList
<1>6. WellFused(q, rkOut')
  <2>1. rkOut' = Fusion(s, v, pairs, similar, k)
    BY <1>2
  <2>2. q.found = s /\ q.score = v /\ q.pairs = pairs /\ q.k = k
    BY <1>2
  <2> HIDE DEF s, v, q
  <2> QED BY <2>1, <2>2, <1>3, <1>4, <1>5, FusionIsSound
<1> HIDE DEF q, s, v
<1>7. FusionSound'
  BY <1>2, <1>6 DEF FusionSound
<1>8. RankingSound' /\ DecisionsSound'
  BY <1>2 DEF RankingSound, DecisionsSound
<1> QED BY <1>7, <1>8 DEF RetrievalSound

\* A plan leaves something to search for.
LEMMA PlanStep ==
  ASSUME PlanCase
  PROVE  RetrievalSound'
<1>1. PICK query \in Queries, history \in BOOLEAN, reply \in Replies :
        /\ rkCase' = [kind |-> "plan", query |-> query, history |-> history, reply |-> reply]
        /\ rkOut'  = <<Plan(query, reply), Rewritten(query, history, reply)>>
  BY DEF PlanCase
<1>2. rkCase'.kind = "plan" /\ rkCase'.query = query
  BY <1>1
<1>3. /\ Plan(query, reply).subqueries \in 0..MaxSubqueries
      /\ Plan(query, reply).subqueries = 0 <=> query.empty
      /\ Plan(query, reply).strategy = "decompose" <=> Plan(query, reply).subqueries > 1
  <2>1. query.empty \in BOOLEAN
    BY DEF Queries
  <2>2. reply.subs \in 0..6 \/ reply.subs = 0
    BY DEF Replies
  <2>3. CASE query.empty
    BY <2>3 DEF Plan, MaxSubqueries
  <2>4. CASE ~query.empty /\ (query.short \/ ~query.compound \/ reply.kind # "decompose" \/ reply.subs < 2)
    BY <2>4 DEF Plan, MaxSubqueries
  <2>5. CASE ~query.empty /\ ~(query.short \/ ~query.compound \/ reply.kind # "decompose" \/ reply.subs < 2)
    BY <2>2, <2>5 DEF Plan, MaxSubqueries
  <2> QED BY <2>3, <2>4, <2>5
<1>4. Rewritten(query, history, reply) # ""
  BY DEF Rewritten
<1>5. DecisionsSound'
  BY <1>1, <1>2, <1>3, <1>4 DEF DecisionsSound
<1>6. RankingSound' /\ FusionSound'
  BY <1>2 DEF RankingSound, FusionSound
<1> QED BY <1>5, <1>6 DEF RetrievalSound

\* A recommendation stays near the rule.
LEMMA TuneStep ==
  ASSUME TuneCase
  PROVE  RetrievalSound'
<1>1. PICK base \in Strategies, sample \in {0, MinSamples - 1, MinSamples}, hit \in RkRates \cap 0..100, adopted \in RkRates :
        /\ rkCase' = [kind |-> "tune", base |-> base, sample |-> sample]
        /\ rkOut'  = Tuned(base, sample, hit, adopted)
  BY DEF TuneCase
<1>2. rkCase'.kind = "tune" /\ rkCase'.base = base
  BY <1>1
<1>3. base[1] \in 30..70
  <2>1. CASE base = <<70, 5, TRUE>>
    BY <2>1
  <2>2. CASE base = <<30, 6, TRUE>>
    BY <2>2
  <2>3. CASE base = <<50, 5, TRUE>>
    BY <2>3
  <2>4. CASE base = <<40, 4, FALSE>>
    BY <2>4
  <2>5. CASE base = <<70, 5, FALSE>>
    BY <2>5
  <2> QED BY <2>1, <2>2, <2>3, <2>4, <2>5, Zenon DEF Strategies
<1>4. adopted \in Nat
  BY RankingAssumption
<1> DEFINE b == base[1]
           d == Nearest(adopted - 40, 5)
           v == Bounded(10, b - d, 90)
<1>5. /\ Tuned(base, sample, hit, adopted)[2] = 100 - Tuned(base, sample, hit, adopted)[1]
      /\ \/ Tuned(base, sample, hit, adopted)[1] = b
         \/ adopted <= 60 /\ Tuned(base, sample, hit, adopted)[1] = v
  <2> HIDE DEF v, b
  <2>1. Tuned(base, sample, hit, adopted) =
          LET more == IF base[2] + 3 > 12 THEN 12 ELSE base[2] + 3
          IN  IF sample < MinSamples THEN <<b, 100 - b, base[2], base[3]>>
              ELSE IF hit < 50      THEN <<b, 100 - b, more, TRUE>>
              ELSE IF adopted > 60  THEN <<b, 100 - b, base[2], base[3]>>
              ELSE <<v, 100 - v, base[2], base[3]>>
    BY DEF Tuned, v, b
  <2>2. CASE sample < MinSamples
    BY <2>1, <2>2
  <2>3. CASE ~(sample < MinSamples) /\ hit < 50
    BY <2>1, <2>3
  <2>4. CASE ~(sample < MinSamples) /\ ~(hit < 50) /\ adopted > 60
    BY <2>1, <2>4
  <2>5. CASE ~(sample < MinSamples) /\ ~(hit < 50) /\ ~(adopted > 60)
    BY <2>1, <2>5, <1>4
  <2> QED BY <2>2, <2>3, <2>4, <2>5
<1>6. adopted <= 60 => v \in (b - 10)..(b + 10)
  <2> SUFFICES ASSUME adopted <= 60 PROVE v \in (b - 10)..(b + 10)
    OBVIOUS
  <2>1. d \in -8..4
    BY <1>4 DEF Nearest
  <2> HIDE DEF d
  <2>2. b \in 30..70
    BY <1>3
  <2> HIDE DEF b
  <2> QED BY <2>1, <2>2 DEF Bounded
<1>7. b \in Int /\ (adopted <= 60 => v \in Int) /\ b \in (b - 10)..(b + 10)
  BY <1>3, <1>6
<1> DEFINE out == Tuned(base, sample, hit, adopted)
<1>8. out[1] + out[2] = 100 /\ out[1] \in (b - 10)..(b + 10)
  <2> HIDE DEF out, v, b
  <2>1. out[2] = 100 - out[1] /\ (out[1] = b \/ (adopted <= 60 /\ out[1] = v))
    BY <1>5 DEF out
  <2> QED BY <2>1, <1>6, <1>7
<1>9. DecisionsSound'
  <2> HIDE DEF out
  <2>1. rkOut' = out /\ rkCase'.base[1] = b
    BY <1>1, <1>2 DEF out
  <2> QED BY <2>1, <1>2, <1>8 DEF DecisionsSound
<1>10. RankingSound' /\ FusionSound'
  BY <1>2 DEF RankingSound, FusionSound
<1> QED BY <1>9, <1>10 DEF RetrievalSound

\* A ranking puts no chunk behind one that beats it, a fused answer loses none without
\* a substitute, and the decisions around a search stay within their limits.
THEOREM RetrievalHolds == RankingSpec => []RetrievalSound
<1>1. RankingInit => RetrievalSound
  BY DEF RankingInit, RetrievalSound, RankingSound, FusionSound, DecisionsSound
<1>2. RetrievalSound /\ [RankingNext]_rankingVars => RetrievalSound'
  <2> SUFFICES ASSUME RetrievalSound, [RankingNext]_rankingVars
               PROVE  RetrievalSound'
    OBVIOUS
  <2>1. CASE RankCase
    BY <2>1, RankStep
  <2>2. CASE FuseCase
    BY <2>2, FuseStep
  <2>3. CASE PlanCase
    BY <2>3, PlanStep
  <2>4. CASE TuneCase
    BY <2>4, TuneStep
  <2>5. CASE UNCHANGED rankingVars
    BY <2>5 DEF rankingVars, RetrievalSound, RankingSound, FusionSound, DecisionsSound
  <2> QED BY <2>1, <2>2, <2>3, <2>4, <2>5 DEF RankingNext
<1> QED BY <1>1, <1>2, PTL DEF RankingSpec

-----------------------------------------------------------------------------
(****************************************************************************
 Use: what a search leaves behind is what it answered.
 ****************************************************************************)

UnitRows  == [pc : {"off", "look", "count", "log", "done", "failed"}, key : CacheKeys, answer : AnswersMade]
AskRows   == [pc : {"idle", "open", "stream", "done", "failed"}, kind : {"use", "test", "qa"}]
CacheRows == [at : CacheKeys, answer : AnswersMade]

UseShape ==
  /\ ruLive \subseteq RuChunks /\ ruIndex \subseteq RuChunks /\ ruRecent \subseteq ruLive
  /\ ruHits \in [RuChunks -> Nat] /\ ruEvents \in [RuChunks -> Nat] /\ ruGaps \in Nat
  /\ ruRebuild \in [RuChunks -> Nat \cup {-1}]
  /\ ruCache \subseteq CacheRows /\ \A e, f \in ruCache : e.at = f.at => e = f
  /\ ruUnit \in [Searches -> UnitRows] /\ ruAsk \in [RuAsks -> AskRows]
  /\ ruRaced \subseteq RuChunks /\ ruUsed \in [RuChunks -> Nat] /\ ruEmpty \in Nat

\* An ask that was not made has no retrieval.
UnitsAreAsked == \A u \in Searches : ruAsk[u[1]].pc = "idle" => UnitAt(u, "off")

\* What a rebuild holds of a row that stays is what its events were, and still are unless the
\* chunk was hit in between.
RebuildFollows ==
  \A c \in RuChunks :
    /\ c \notin ruLive => ruHits[c] = ruEvents[c]
    /\ c \in ruLive /\ ruRebuild[c] >= 0 =>
         ruRebuild[c] <= ruEvents[c] /\ (c \notin ruRaced => ruRebuild[c] = ruEvents[c])

\* An answer is carried with the key it was made for, in a retrieval and in the cache.
AnswersCarryKeys ==
  /\ \A u \in Searches : ruUnit[u].pc \in {"count", "log", "done"} => ruUnit[u].answer.made = {ruUnit[u].key}
  /\ \A e \in ruCache : e.answer.made = {e.at}

\* Retrievals that have been searched and may yet count: for the chunk, or for a gap.
Counting(c)   == {u \in Searches : UnitAt(u, "count") /\ c \in ruUnit[u].answer.found}
CountingGap   == {u \in Searches : UnitAt(u, "count") /\ ruUnit[u].answer.found = {}}
\* Retrievals that do not search any more.
Spent == {u \in Searches : ruAsk[u[1]].pc # "idle" /\ ~UnitAt(u, "look")}

CountsCovered ==
  /\ \A c \in RuChunks : ruEvents[c] + Cardinality(Counting(c)) <= ruUsed[c]
  /\ ruGaps + Cardinality(CountingGap) <= ruEmpty
UsesCovered ==
  /\ \A c \in RuChunks : ruUsed[c] <= Cardinality(Spent) /\ ruRebuild[c] <= ruUsed[c]
  /\ ruEmpty <= Cardinality(Spent)

UseInv == UseShape /\ UnitsAreAsked /\ RollupFollowsEvents /\ RebuildFollows /\ AnswersCarryKeys
          /\ CountsCovered /\ UsesCovered

-----------------------------------------------------------------------------
\* There are two retrievals for each ask.
LEMMA SearchesCounted ==
  IsFiniteSet(Searches) /\ Cardinality(Searches) = MaxUses /\ Cardinality(RuAsks) \in Nat
<1>1. IsFiniteSet({1}) /\ Cardinality({1}) = 1
  BY FS_Singleton
<1>2. IsFiniteSet({1, 2}) /\ Cardinality({1, 2}) = 2
  <2>1. {1, 2} = {1} \cup {2}
    OBVIOUS
  <2>2. 2 \notin {1}
    OBVIOUS
  <2> QED
    BY <1>1, <2>1, <2>2, FS_AddElement
<1>3. Cardinality(RuAsks) \in Nat
  BY UseAssumption, FS_CardinalityType
<1>4. IsFiniteSet(Searches) /\ Cardinality(Searches) = Cardinality(RuAsks) * 2
  BY <1>2, UseAssumption, FS_Product DEF Searches
<1> QED
  BY <1>3, <1>4 DEF MaxUses

\* Some of the retrievals, and some less of them.
LEMMA FewerSearches ==
  ASSUME NEW T \in SUBSET Searches, NEW S \in SUBSET T
  PROVE  /\ Cardinality(S) \in Nat /\ Cardinality(T) \in Nat /\ Cardinality(S) <= Cardinality(T)
         /\ \A u \in T \ S : Cardinality(S) + 1 <= Cardinality(T)
<1>1. IsFiniteSet(T) /\ IsFiniteSet(S)
  BY SearchesCounted, FS_Subset
<1>2. Cardinality(S) \in Nat /\ Cardinality(T) \in Nat /\ Cardinality(S) <= Cardinality(T)
  BY <1>1, FS_Subset, FS_CardinalityType
<1>3. ASSUME NEW u \in T \ S PROVE Cardinality(S) + 1 <= Cardinality(T)
  <2>1. IsFiniteSet(S \cup {u}) /\ Cardinality(S \cup {u}) = Cardinality(S) + 1
    BY <1>1, <1>3, FS_AddElement
  <2>2. S \cup {u} \in SUBSET T
    BY <1>3
  <2> QED
    BY <1>1, <2>1, <2>2, FS_Subset
<1> QED
  BY <1>2, <1>3

\* And with one more of them.
LEMMA OneMoreSearch ==
  ASSUME NEW T \in SUBSET Searches, NEW u \in Searches, NEW S \in SUBSET (T \cup {u})
  PROVE  Cardinality(S) \in Nat /\ Cardinality(T) \in Nat /\ Cardinality(S) <= Cardinality(T) + 1
<1>1. IsFiniteSet(T) /\ Cardinality(T) \in Nat
  BY SearchesCounted, FS_Subset, FS_CardinalityType
<1>2. Cardinality(T \cup {u}) \in Nat /\ Cardinality(T \cup {u}) <= Cardinality(T) + 1
  BY <1>1, FS_AddElement
<1>3. T \cup {u} \in SUBSET Searches
  OBVIOUS
<1>4. Cardinality(S) \in Nat /\ Cardinality(S) <= Cardinality(T \cup {u})
  BY <1>3, FewerSearches
<1> QED
  BY <1>1, <1>2, <1>4

\* The counts of a set of chunks are raised by one.
LEMMA BumpRaises ==
  ASSUME NEW S \in SUBSET RuChunks, NEW f \in [RuChunks -> Nat]
  PROVE  /\ Bump(S, f) \in [RuChunks -> Nat]
         /\ \A c \in RuChunks : Bump(S, f)[c] = IF c \in S THEN f[c] + 1 ELSE f[c]
  BY DEF Bump

\* Rows of the retrievals that nothing has been asked of.
LEMMA NewUnits ==
  /\ NoUnit \in UnitRows /\ NoUnit.pc = "off" /\ NoAsk \in AskRows /\ NoAsk.pc = "idle"
  /\ \A b \in BOOLEAN : OneUnit(0, b) \in UnitRows
  /\ OneUnit(0, FALSE) \in UnitRows /\ OneUnit(1, FALSE) \in UnitRows /\ OneUnit(2, FALSE) \in UnitRows
<1>1. Missing \in AnswersMade
  BY DEF Missing, AnswersMade
<1>2. [query |-> 0, embedding |-> "kb", reranked |-> FALSE] \in CacheKeys
  BY DEF CacheKeys
<1>3. NoUnit \in UnitRows /\ NoUnit.pc = "off"
  BY <1>1, <1>2, Zenon DEF NoUnit, UnitRows
<1>4. NoAsk \in AskRows /\ NoAsk.pc = "idle"
  BY Zenon DEF NoAsk, AskRows
<1>5. ASSUME NEW i \in 0..2, NEW b \in BOOLEAN
      PROVE  OneUnit(i, b) \in UnitRows
  <2>1. [query |-> i, embedding |-> "kb", reranked |-> b] \in CacheKeys
    BY <1>5 DEF CacheKeys
  <2> QED
    BY <2>1, <1>3 DEF OneUnit, UnitRows
<1>6. FALSE \in BOOLEAN /\ 0 \in 0..2 /\ 1 \in 0..2 /\ 2 \in 0..2
  OBVIOUS
<1> QED
  BY <1>3, <1>4, <1>5, <1>6, Zenon

-----------------------------------------------------------------------------
\* UseInv holds at the start.
LEMMA UseStart ==
  ASSUME UseInit
  PROVE  UseInv
<1>1. UseShape
  BY NewUnits DEF UseInit, UseShape, NoCounts
<1>2. UnitsAreAsked /\ RollupFollowsEvents /\ RebuildFollows
  BY NewUnits DEF UseInit, UnitsAreAsked, UnitAt, RollupFollowsEvents, RebuildFollows, NoCounts, Searches
<1>3. AnswersCarryKeys
  BY NewUnits DEF UseInit, AnswersCarryKeys
<1>4. \A c \in RuChunks : Counting(c) = {}
  BY NewUnits DEF UseInit, Counting, UnitAt
<1>5. CountingGap = {}
  BY NewUnits DEF UseInit, CountingGap, UnitAt
<1>6. CountsCovered
  BY <1>4, <1>5, FS_EmptySet DEF UseInit, CountsCovered
<1>7. Spent \in SUBSET Searches
  BY DEF Spent
<1>8. Cardinality(Spent) \in Nat
  BY <1>7, FewerSearches
<1>9. UsesCovered
  BY <1>8 DEF UseInit, UsesCovered, NoCounts
<1> QED
  BY <1>1, <1>2, <1>3, <1>6, <1>9 DEF UseInv

-----------------------------------------------------------------------------
\* One retrieval moves on.
LEMMA UnitMoves ==
  ASSUME UseInv, NEW u \in Searches, NEW row \in UnitRows, ruUnit' = [ruUnit EXCEPT ![u] = row],
         ruUnit[u].pc # "off", row.pc # "look", UNCHANGED ruAsk
  PROVE  /\ ruUnit' \in [Searches -> UnitRows] /\ UnitsAreAsked'
         /\ ruUnit'[u] = row /\ \A x \in Searches \ {u} : ruUnit'[x] = ruUnit[x]
         /\ Spent' \in SUBSET Searches /\ Spent \in SUBSET Spent'
         /\ ruUnit[u].pc = "look" => u \in Spent' \ Spent
<1>1. /\ ruUnit' \in [Searches -> UnitRows] /\ ruUnit'[u] = row
      /\ \A x \in Searches \ {u} : ruUnit'[x] = ruUnit[x]
  BY DEF UseInv, UseShape
<1>2. ruAsk[u[1]].pc # "idle"
  BY DEF UseInv, UnitsAreAsked, UnitAt
<1>3. UnitsAreAsked'
  BY <1>1, <1>2 DEF UseInv, UnitsAreAsked, UnitAt
<1>4. Spent' \in SUBSET Searches /\ Spent \in SUBSET Spent'
  BY <1>1, <1>2 DEF Spent, UnitAt
<1>5. ruUnit[u].pc = "look" => u \in Spent' \ Spent
  BY <1>1, <1>2 DEF Spent, UnitAt
<1> QED
  BY <1>1, <1>3, <1>4, <1>5

\* What it then may still count.
LEMMA CountMoves ==
  ASSUME NEW u \in Searches, NEW row, ruUnit'[u] = row,
         \A x \in Searches \ {u} : ruUnit'[x] = ruUnit[x]
  PROVE  /\ \A c \in RuChunks :
              /\ Counting(c) \in SUBSET Searches /\ Counting(c)' \in SUBSET (Counting(c) \cup {u})
              /\ row.pc # "count" \/ c \notin row.answer.found => Counting(c)' \in SUBSET (Counting(c) \ {u})
         /\ CountingGap \in SUBSET Searches /\ CountingGap' \in SUBSET (CountingGap \cup {u})
         /\ row.pc # "count" \/ row.answer.found # {} => CountingGap' \in SUBSET (CountingGap \ {u})
<1>1. ASSUME NEW c \in RuChunks
      PROVE  /\ Counting(c) \in SUBSET Searches /\ Counting(c)' \in SUBSET (Counting(c) \cup {u})
             /\ row.pc # "count" \/ c \notin row.answer.found => Counting(c)' \in SUBSET (Counting(c) \ {u})
  BY DEF Counting, UnitAt
<1>2. /\ CountingGap \in SUBSET Searches /\ CountingGap' \in SUBSET (CountingGap \cup {u})
      /\ row.pc # "count" \/ row.answer.found # {} => CountingGap' \in SUBSET (CountingGap \ {u})
  BY DEF CountingGap, UnitAt
<1> QED
  BY <1>1, <1>2

\* A retrieval that ends without counting anything leaves what is counted covered.
LEMMA QuietCounts ==
  ASSUME UseInv, NEW u \in Searches, NEW row \in UnitRows, ruUnit' = [ruUnit EXCEPT ![u] = row],
         ruUnit[u].pc # "off", row.pc \notin {"look", "count"}, UNCHANGED ruAsk,
         UNCHANGED <<ruEvents, ruUsed, ruGaps, ruEmpty, ruRebuild>>
  PROVE  CountsCovered' /\ UsesCovered'
<1>1. /\ ruUnit'[u] = row /\ \A x \in Searches \ {u} : ruUnit'[x] = ruUnit[x]
      /\ Spent' \in SUBSET Searches /\ Spent \in SUBSET Spent'
  BY UnitMoves
<1>2. Cardinality(Spent) \in Nat /\ Cardinality(Spent') \in Nat /\ Cardinality(Spent) <= Cardinality(Spent')
  BY <1>1, FewerSearches
<1>3. ASSUME NEW c \in RuChunks PROVE (ruEvents[c] + Cardinality(Counting(c)) <= ruUsed[c])'
  <2>1. Counting(c) \in SUBSET Searches /\ Counting(c)' \in SUBSET Counting(c)
    BY <1>1, CountMoves
  <2>2. Cardinality(Counting(c)') \in Nat /\ Cardinality(Counting(c)) \in Nat
        /\ Cardinality(Counting(c)') <= Cardinality(Counting(c))
    BY <2>1, FewerSearches
  <2>3. ruEvents[c] \in Nat /\ ruUsed[c] \in Nat /\ ruEvents[c] + Cardinality(Counting(c)) <= ruUsed[c]
    BY DEF UseInv, UseShape, CountsCovered
  <2> QED
    BY <2>2, <2>3
<1>4. (ruGaps + Cardinality(CountingGap) <= ruEmpty)'
  <2>1. CountingGap \in SUBSET Searches /\ CountingGap' \in SUBSET CountingGap
    BY <1>1, CountMoves
  <2>2. Cardinality(CountingGap') \in Nat /\ Cardinality(CountingGap) \in Nat
        /\ Cardinality(CountingGap') <= Cardinality(CountingGap)
    BY <2>1, FewerSearches
  <2> QED
    BY <2>2 DEF UseInv, UseShape, CountsCovered
<1>5. UsesCovered'
  BY <1>2 DEF UseInv, UseShape, UsesCovered
<1> QED
  BY <1>3, <1>4, <1>5 DEF CountsCovered

\* The row of a retrieval that changes its place only.
LEMMA PlaceRow ==
  ASSUME UseInv, NEW u \in Searches, NEW pc \in {"count", "log", "done", "failed"}, SetUnit(u, pc)
  PROVE  \E row \in UnitRows : /\ ruUnit' = [ruUnit EXCEPT ![u] = row] /\ row.pc = pc
                               /\ row.key = ruUnit[u].key /\ row.answer = ruUnit[u].answer
<1> DEFINE row == [ruUnit[u] EXCEPT !.pc = pc]
<1>1. ruUnit' = [ruUnit EXCEPT ![u] = row]
  BY DEF SetUnit, UseInv, UseShape
<1>2. ruUnit[u] \in UnitRows
  BY DEF UseInv, UseShape
<1>3. row \in UnitRows /\ row.pc = pc /\ row.key = ruUnit[u].key /\ row.answer = ruUnit[u].answer
  BY <1>2 DEF UnitRows
<1> QED
  BY <1>1, <1>3

\* The search fails, or the count is lost.
LEMMA QuietMove ==
  ASSUME UseInv, NEW u \in Searches, FailSearch(u) \/ LoseCount(u)
  PROVE  UseInv'
<1>1. /\ SetUnit(u, IF ruUnit[u].pc = "look" THEN "failed" ELSE "log") /\ ruUnit[u].pc \in {"look", "count"}
      /\ UNCHANGED <<useRows, ruRebuild, ruCache, ruAsk, History>>
  BY DEF FailSearch, LoseCount, UnitAt
<1>2. PICK row \in UnitRows :
        /\ ruUnit' = [ruUnit EXCEPT ![u] = row] /\ row.pc = (IF ruUnit[u].pc = "look" THEN "failed" ELSE "log")
        /\ row.key = ruUnit[u].key /\ row.answer = ruUnit[u].answer
  BY <1>1, PlaceRow
<1>3. row.pc \notin {"look", "count", "off"} /\ ruUnit[u].pc # "off" /\ (row.pc = "log" => ruUnit[u].pc = "count")
  BY <1>1, <1>2
<1>4. /\ ruUnit' \in [Searches -> UnitRows] /\ UnitsAreAsked'
      /\ ruUnit'[u] = row /\ \A x \in Searches \ {u} : ruUnit'[x] = ruUnit[x]
  BY <1>1, <1>2, <1>3, UnitMoves
<1>5. CountsCovered' /\ UsesCovered'
  BY <1>1, <1>2, <1>3, QuietCounts DEF useRows, History
<1>6. UseShape'
  BY <1>1, <1>4 DEF UseInv, UseShape, useRows, History
<1>7. RollupFollowsEvents' /\ RebuildFollows'
  BY <1>1 DEF UseInv, RollupFollowsEvents, RebuildFollows, useRows, History
<1>8. AnswersCarryKeys'
  BY <1>1, <1>2, <1>3, <1>4 DEF UseInv, AnswersCarryKeys
<1> QED
  BY <1>4, <1>5, <1>6, <1>7, <1>8 DEF UseInv

\* An answer of the cache.
LEMMA LookUpStep ==
  ASSUME UseInv, NEW u \in Searches, LookUp(u)
  PROVE  UseInv'
<1>1. PICK e \in ruCache : /\ e.at = CacheKey(ruUnit[u].key)
                           /\ ruUnit' = [ruUnit EXCEPT ![u].pc = "done", ![u].answer = e.answer]
  BY DEF LookUp
<1>2. UnitAt(u, "look") /\ UNCHANGED <<useRows, ruRebuild, ruCache, ruAsk, History>>
  BY DEF LookUp
<1> DEFINE row == [[ruUnit[u] EXCEPT !.pc = "done"] EXCEPT !.answer = e.answer]
<1>3. e.at = ruUnit[u].key /\ e.answer \in AnswersMade /\ e.answer.made = {e.at}
  BY <1>1 DEF CacheKey, UseInv, UseShape, CacheRows, AnswersCarryKeys
<1>4. ruUnit[u] \in UnitRows
  BY DEF UseInv, UseShape
<1>5. row \in UnitRows /\ row.pc = "done" /\ row.key = ruUnit[u].key /\ row.answer = e.answer
  BY <1>3, <1>4 DEF UnitRows
<1>6. ruUnit' = [ruUnit EXCEPT ![u] = row]
  BY <1>1, <1>4 DEF UseInv, UseShape
<1> HIDE DEF row
<1>7. /\ ruUnit' \in [Searches -> UnitRows] /\ UnitsAreAsked'
      /\ ruUnit'[u] = row /\ \A x \in Searches \ {u} : ruUnit'[x] = ruUnit[x]
  BY <1>2, <1>5, <1>6, UnitMoves DEF UnitAt
<1>8. CountsCovered' /\ UsesCovered'
  BY <1>2, <1>5, <1>6, QuietCounts DEF useRows, History, UnitAt
<1>9. UseShape'
  BY <1>2, <1>7 DEF UseInv, UseShape, useRows, History
<1>10. RollupFollowsEvents' /\ RebuildFollows'
  BY <1>2 DEF UseInv, RollupFollowsEvents, RebuildFollows, useRows, History
<1>11. AnswersCarryKeys'
  BY <1>2, <1>3, <1>5, <1>7 DEF UseInv, AnswersCarryKeys
<1> QED
  BY <1>7, <1>8, <1>9, <1>10, <1>11 DEF UseInv

\* The end of a retrieval that searched.
LEMMA FinishStep ==
  ASSUME UseInv, NEW u \in Searches, Finish(u)
  PROVE  UseInv'
<1>1. /\ UnitAt(u, "log") /\ SetUnit(u, "done")
      /\ UNCHANGED <<ruLive, ruIndex, ruHits, ruEvents, ruGaps, ruRecent, ruRebuild, ruAsk, History>>
      /\ \/ ruCache' = {e \in ruCache : e.at # ruUnit[u].key} \cup {[at |-> ruUnit[u].key, answer |-> ruUnit[u].answer]}
         \/ UNCHANGED ruCache
  BY DEF Finish, CacheKey
<1>2. PICK row \in UnitRows : /\ ruUnit' = [ruUnit EXCEPT ![u] = row] /\ row.pc = "done"
                              /\ row.key = ruUnit[u].key /\ row.answer = ruUnit[u].answer
  BY <1>1, PlaceRow
<1>3. row.pc \notin {"look", "count", "off"} /\ ruUnit[u].pc = "log"
  BY <1>1, <1>2 DEF UnitAt
<1>4. /\ ruUnit' \in [Searches -> UnitRows] /\ UnitsAreAsked'
      /\ ruUnit'[u] = row /\ \A x \in Searches \ {u} : ruUnit'[x] = ruUnit[x]
  BY <1>1, <1>2, <1>3, UnitMoves
<1>5. CountsCovered' /\ UsesCovered'
  BY <1>1, <1>2, <1>3, QuietCounts DEF History
<1>6. ruUnit[u].answer \in AnswersMade /\ ruUnit[u].key \in CacheKeys /\ ruUnit[u].answer.made = {ruUnit[u].key}
  BY <1>3 DEF UseInv, UseShape, UnitRows, AnswersCarryKeys
<1> DEFINE entry == [at |-> ruUnit[u].key, answer |-> ruUnit[u].answer]
<1>7. entry \in CacheRows /\ entry.at = ruUnit[u].key /\ entry.answer.made = {entry.at}
  BY <1>6 DEF CacheRows
<1>8. \A e \in ruCache' : (e \in ruCache /\ e.at # entry.at) \/ e = entry \/ (UNCHANGED ruCache /\ e \in ruCache)
  BY <1>1
<1> HIDE DEF entry
<1>9. ruCache' \subseteq CacheRows /\ (\A e, f \in ruCache' : e.at = f.at => e = f)
      /\ \A e \in ruCache' : e.answer.made = {e.at}
  BY <1>7, <1>8 DEF UseInv, UseShape, AnswersCarryKeys
<1>10. UseShape'
  BY <1>1, <1>4, <1>9 DEF UseInv, UseShape, History
<1>11. RollupFollowsEvents' /\ RebuildFollows'
  BY <1>1 DEF UseInv, RollupFollowsEvents, RebuildFollows, History
<1>12. AnswersCarryKeys'
  BY <1>2, <1>3, <1>4, <1>9 DEF UseInv, AnswersCarryKeys
<1> QED
  BY <1>4, <1>5, <1>10, <1>11, <1>12 DEF UseInv

\* The search: what real use finds is history at once, and counted later.
LEMMA SearchStep ==
  ASSUME UseInv, NEW u \in Searches, SearchIndex(u)
  PROVE  UseInv'
<1>1. /\ UnitAt(u, "look") /\ UNCHANGED <<useRows, ruRebuild, ruCache, ruAsk, ruRaced>>
  BY DEF SearchIndex
<1>2. PICK found \in SUBSET RuChunks :
        /\ ruUnit' = [ruUnit EXCEPT ![u].pc = IF IsTest(u) THEN "log" ELSE "count",
                                    ![u].answer = [made |-> {ruUnit[u].key}, found |-> found]]
        /\ ruUsed' = IF IsTest(u) THEN ruUsed ELSE Bump(found, ruUsed)
        /\ ruEmpty' = IF IsTest(u) \/ found # {} THEN ruEmpty ELSE ruEmpty + 1
  <2>1. ruIndex \subseteq RuChunks
    BY DEF UseInv, UseShape
  <2>2. \A tagged, cut : Shaped(tagged, cut) \in SUBSET RuChunks
    BY <2>1 DEF Shaped
  <2> QED
    BY <2>2 DEF SearchIndex
<1> DEFINE pc == IF IsTest(u) THEN "log" ELSE "count"
           answer == [made |-> {ruUnit[u].key}, found |-> found]
           row == [[ruUnit[u] EXCEPT !.pc = pc] EXCEPT !.answer = answer]
<1>3. ruUnit[u] \in UnitRows /\ ruUnit[u].key \in CacheKeys
  BY DEF UseInv, UseShape, UnitRows
<1>4. answer \in AnswersMade /\ answer.found = found /\ answer.made = {ruUnit[u].key}
  BY <1>3 DEF AnswersMade
<1>5. pc \in {"log", "count"} /\ (pc = "count" <=> ~IsTest(u))
  OBVIOUS
<1>6. ruUnit' = [ruUnit EXCEPT ![u] = row]
  BY <1>2 DEF UseInv, UseShape
<1> HIDE DEF pc, answer
<1>7. row \in UnitRows /\ row.pc = pc /\ row.key = ruUnit[u].key /\ row.answer = answer
  BY <1>3, <1>4, <1>5 DEF UnitRows
<1> HIDE DEF row
<1>8. /\ ruUnit' \in [Searches -> UnitRows] /\ UnitsAreAsked'
      /\ ruUnit'[u] = row /\ \A x \in Searches \ {u} : ruUnit'[x] = ruUnit[x]
      /\ Spent' \in SUBSET Searches /\ Spent \in SUBSET Spent' /\ u \in Spent' \ Spent
  BY <1>1, <1>5, <1>6, <1>7, UnitMoves DEF UnitAt
<1>9. /\ Cardinality(Spent) \in Nat /\ Cardinality(Spent') \in Nat
      /\ Cardinality(Spent) + 1 <= Cardinality(Spent')
  BY <1>8, FewerSearches
<1>10. /\ ruUsed' \in [RuChunks -> Nat] /\ ruEmpty' \in Nat /\ ruEmpty' \in {ruEmpty, ruEmpty + 1}
       /\ \A c \in RuChunks : /\ ruUsed'[c] = IF ~IsTest(u) /\ c \in found THEN ruUsed[c] + 1 ELSE ruUsed[c]
                              /\ ruUsed[c] \in Nat
  <2>1. ruUsed \in [RuChunks -> Nat] /\ ruEmpty \in Nat
    BY DEF UseInv, UseShape
  <2>2. CASE IsTest(u)
    BY <1>2, <2>1, <2>2
  <2>3. CASE ~IsTest(u)
    BY <1>2, <2>1, <2>3, BumpRaises
  <2> QED
    BY <2>2, <2>3
<1>11. ASSUME NEW c \in RuChunks
       PROVE  /\ (ruEvents[c] + Cardinality(Counting(c)) <= ruUsed[c])'
              /\ (ruUsed[c] <= Cardinality(Spent))' /\ (ruRebuild[c] <= ruUsed[c])'
  <2>1. /\ ruEvents[c] \in Nat /\ ruUsed[c] \in Nat /\ ruEvents[c] + Cardinality(Counting(c)) <= ruUsed[c]
        /\ ruUsed[c] <= Cardinality(Spent) /\ ruRebuild[c] <= ruUsed[c] /\ ruRebuild[c] \in Int
    BY DEF UseInv, UseShape, CountsCovered, UsesCovered
  <2>2. /\ Counting(c) \in SUBSET Searches /\ Counting(c)' \in SUBSET (Counting(c) \cup {u})
        /\ IsTest(u) \/ c \notin found => Counting(c)' \in SUBSET Counting(c)
    BY <1>4, <1>5, <1>7, <1>8, CountMoves
  <2>3. CASE ~IsTest(u) /\ c \in found
    <3>1. Cardinality(Counting(c)') \in Nat /\ Cardinality(Counting(c)) \in Nat
          /\ Cardinality(Counting(c)') <= Cardinality(Counting(c)) + 1
      BY <2>2, OneMoreSearch
    <3>2. ruUsed'[c] = ruUsed[c] + 1
      BY <1>10, <2>3
    <3> QED
      BY <1>1, <1>9, <2>1, <3>1, <3>2 DEF useRows
  <2>4. CASE ~(~IsTest(u) /\ c \in found)
    <3>1. Cardinality(Counting(c)') \in Nat /\ Cardinality(Counting(c)) \in Nat
          /\ Cardinality(Counting(c)') <= Cardinality(Counting(c))
      BY <2>2, <2>4, FewerSearches
    <3>2. ruUsed'[c] = ruUsed[c]
      BY <1>10, <2>4
    <3> QED
      BY <1>1, <1>9, <2>1, <3>1, <3>2 DEF useRows
  <2> QED
    BY <2>3, <2>4
<1>12. (ruGaps + Cardinality(CountingGap) <= ruEmpty)' /\ (ruEmpty <= Cardinality(Spent))'
  <2>1. /\ ruGaps \in Nat /\ ruEmpty \in Nat /\ ruGaps + Cardinality(CountingGap) <= ruEmpty
        /\ ruEmpty <= Cardinality(Spent) /\ ruGaps' = ruGaps
    BY <1>1 DEF UseInv, UseShape, CountsCovered, UsesCovered, useRows
  <2>2. /\ CountingGap \in SUBSET Searches /\ CountingGap' \in SUBSET (CountingGap \cup {u})
        /\ IsTest(u) \/ found # {} => CountingGap' \in SUBSET CountingGap
    BY <1>4, <1>5, <1>7, <1>8, CountMoves
  <2>3. CASE ~IsTest(u) /\ found = {}
    <3>1. Cardinality(CountingGap') \in Nat /\ Cardinality(CountingGap) \in Nat
          /\ Cardinality(CountingGap') <= Cardinality(CountingGap) + 1
      BY <2>2, OneMoreSearch
    <3>2. ruEmpty' = ruEmpty + 1
      BY <1>2, <2>3
    <3> QED
      BY <1>9, <2>1, <3>1, <3>2
  <2>4. CASE IsTest(u) \/ found # {}
    <3>1. Cardinality(CountingGap') \in Nat /\ Cardinality(CountingGap) \in Nat
          /\ Cardinality(CountingGap') <= Cardinality(CountingGap)
      BY <2>2, <2>4, FewerSearches
    <3>2. ruEmpty' = ruEmpty
      BY <1>2, <2>4
    <3> QED
      BY <1>9, <2>1, <3>1, <3>2
  <2> QED
    BY <2>3, <2>4
<1>13. UseShape'
  BY <1>1, <1>8, <1>10 DEF UseInv, UseShape, useRows
<1>14. RollupFollowsEvents' /\ RebuildFollows'
  BY <1>1 DEF UseInv, RollupFollowsEvents, RebuildFollows, useRows
<1>15. AnswersCarryKeys'
  BY <1>1, <1>4, <1>7, <1>8 DEF UseInv, AnswersCarryKeys
<1> QED
  BY <1>8, <1>11, <1>12, <1>13, <1>14, <1>15 DEF UseInv, CountsCovered, UsesCovered

\* The hits of an answer are counted.
LEMMA HitsStep ==
  ASSUME UseInv, NEW u \in Searches, RecordHits(u)
  PROVE  UseInv'
<1> DEFINE found == ruUnit[u].answer.found
<1>1. /\ UnitAt(u, "count") /\ found # {} /\ found \subseteq ruLive /\ SetUnit(u, "log")
      /\ ruHits' = Bump(found, ruHits) /\ ruEvents' = Bump(found, ruEvents)
      /\ ruRecent' = ruRecent \cup found /\ ruRaced' = ruRaced \cup {c \in found : ruRebuild[c] >= 0}
      /\ UNCHANGED <<ruLive, ruIndex, ruGaps, ruRebuild, ruCache, ruAsk, ruUsed, ruEmpty>>
  BY DEF RecordHits
<1>2. PICK row \in UnitRows : /\ ruUnit' = [ruUnit EXCEPT ![u] = row] /\ row.pc = "log"
                              /\ row.key = ruUnit[u].key /\ row.answer = ruUnit[u].answer
  BY <1>1, PlaceRow
<1>3. found \in SUBSET RuChunks /\ ruUnit[u].pc = "count"
  BY <1>1 DEF UseInv, UseShape, UnitAt
<1>4. \A c \in RuChunks : c \in found => u \in Counting(c)
  BY <1>1 DEF Counting
<1> HIDE DEF found
<1>5. /\ ruUnit' \in [Searches -> UnitRows] /\ UnitsAreAsked'
      /\ ruUnit'[u] = row /\ \A x \in Searches \ {u} : ruUnit'[x] = ruUnit[x]
      /\ Spent' \in SUBSET Searches /\ Spent \in SUBSET Spent'
  BY <1>1, <1>2, <1>3, UnitMoves
<1>6. Cardinality(Spent) \in Nat /\ Cardinality(Spent') \in Nat /\ Cardinality(Spent) <= Cardinality(Spent')
  BY <1>5, FewerSearches
<1>7. /\ ruHits' \in [RuChunks -> Nat] /\ ruEvents' \in [RuChunks -> Nat]
      /\ \A c \in RuChunks : /\ ruHits[c] \in Nat /\ ruEvents[c] \in Nat
                             /\ ruHits'[c] = IF c \in found THEN ruHits[c] + 1 ELSE ruHits[c]
                             /\ ruEvents'[c] = IF c \in found THEN ruEvents[c] + 1 ELSE ruEvents[c]
  <2>1. ruHits \in [RuChunks -> Nat] /\ ruEvents \in [RuChunks -> Nat]
    BY DEF UseInv, UseShape
  <2> QED
    BY <1>1, <1>3, <2>1, BumpRaises
<1>8. ASSUME NEW c \in RuChunks PROVE (ruEvents[c] + Cardinality(Counting(c)) <= ruUsed[c])'
  <2>1. Counting(c) \in SUBSET Searches /\ Counting(c)' \in SUBSET (Counting(c) \ {u})
    BY <1>2, <1>5, CountMoves
  <2>2. /\ Cardinality(Counting(c)) \in Nat /\ Cardinality(Counting(c)') \in Nat
        /\ Cardinality(Counting(c)') <= Cardinality(Counting(c))
        /\ c \in found => Cardinality(Counting(c)') + 1 <= Cardinality(Counting(c))
    BY <1>4, <2>1, FewerSearches
  <2>3. ruEvents[c] + Cardinality(Counting(c)) <= ruUsed[c] /\ ruUsed[c] \in Nat /\ ruUsed'[c] = ruUsed[c]
    BY <1>1 DEF UseInv, UseShape, CountsCovered
  <2>4. CASE c \in found
    BY <1>7, <2>2, <2>3, <2>4
  <2>5. CASE c \notin found
    BY <1>7, <2>2, <2>3, <2>5
  <2> QED
    BY <2>4, <2>5
<1>9. (ruGaps + Cardinality(CountingGap) <= ruEmpty)'
  <2>1. CountingGap \in SUBSET Searches /\ CountingGap' \in SUBSET CountingGap
    BY <1>2, <1>5, CountMoves
  <2>2. Cardinality(CountingGap') \in Nat /\ Cardinality(CountingGap) \in Nat
        /\ Cardinality(CountingGap') <= Cardinality(CountingGap)
    BY <2>1, FewerSearches
  <2> QED
    BY <1>1, <2>2 DEF UseInv, UseShape, CountsCovered
<1>10. UsesCovered'
  BY <1>1, <1>6 DEF UseInv, UseShape, UsesCovered
<1>11. UseShape'
  BY <1>1, <1>3, <1>5, <1>7 DEF UseInv, UseShape
<1>12. ASSUME NEW c \in RuChunks
       PROVE  /\ (ruHits[c] <= ruEvents[c] /\ (c \notin ruRaced => ruHits[c] = ruEvents[c]))'
              /\ (c \notin ruLive => ruHits[c] = ruEvents[c])'
              /\ (c \in ruLive /\ ruRebuild[c] >= 0 =>
                   ruRebuild[c] <= ruEvents[c] /\ (c \notin ruRaced => ruRebuild[c] = ruEvents[c]))'
  <2>1. /\ ruHits[c] <= ruEvents[c] /\ (c \notin ruRaced => ruHits[c] = ruEvents[c])
        /\ c \notin ruLive => ruHits[c] = ruEvents[c]
        /\ c \in ruLive /\ ruRebuild[c] >= 0 =>
             ruRebuild[c] <= ruEvents[c] /\ (c \notin ruRaced => ruRebuild[c] = ruEvents[c])
        /\ ruRebuild[c] \in Int
    BY DEF UseInv, UseShape, RollupFollowsEvents, RebuildFollows
  <2>2. CASE c \in found
    <3>1. ruHits'[c] = ruHits[c] + 1 /\ ruEvents'[c] = ruEvents[c] + 1 /\ ruHits[c] \in Nat /\ ruEvents[c] \in Nat
      BY <1>7, <2>2
    <3> QED
      BY <1>1, <2>1, <2>2, <3>1
  <2>3. CASE c \notin found
    <3>1. ruHits'[c] = ruHits[c] /\ ruEvents'[c] = ruEvents[c]
      BY <1>7, <2>3
    <3> QED
      BY <1>1, <2>1, <2>3, <3>1
  <2> QED
    BY <2>2, <2>3
<1>13. RollupFollowsEvents' /\ RebuildFollows'
  BY <1>12 DEF RollupFollowsEvents, RebuildFollows
<1>14. AnswersCarryKeys'
  BY <1>1, <1>2, <1>3, <1>5 DEF UseInv, AnswersCarryKeys
<1> QED
  BY <1>5, <1>8, <1>9, <1>10, <1>11, <1>13, <1>14 DEF UseInv, CountsCovered

\* A search that ended with nothing is kept as a gap.
LEMMA GapStep ==
  ASSUME UseInv, NEW u \in Searches, RecordGap(u)
  PROVE  UseInv'
<1>1. /\ UnitAt(u, "count") /\ ruUnit[u].answer.found = {} /\ SetUnit(u, "log") /\ ruGaps' = ruGaps + 1
      /\ UNCHANGED <<ruLive, ruIndex, ruHits, ruEvents, ruRecent, ruRebuild, ruCache, ruAsk, History>>
  BY DEF RecordGap
<1>2. PICK row \in UnitRows : /\ ruUnit' = [ruUnit EXCEPT ![u] = row] /\ row.pc = "log"
                              /\ row.key = ruUnit[u].key /\ row.answer = ruUnit[u].answer
  BY <1>1, PlaceRow
<1>3. ruUnit[u].pc = "count" /\ u \in CountingGap
  BY <1>1 DEF UnitAt, CountingGap
<1>4. /\ ruUnit' \in [Searches -> UnitRows] /\ UnitsAreAsked'
      /\ ruUnit'[u] = row /\ \A x \in Searches \ {u} : ruUnit'[x] = ruUnit[x]
      /\ Spent' \in SUBSET Searches /\ Spent \in SUBSET Spent'
  BY <1>1, <1>2, <1>3, UnitMoves
<1>5. Cardinality(Spent) \in Nat /\ Cardinality(Spent') \in Nat /\ Cardinality(Spent) <= Cardinality(Spent')
  BY <1>4, FewerSearches
<1>6. ASSUME NEW c \in RuChunks PROVE (ruEvents[c] + Cardinality(Counting(c)) <= ruUsed[c])'
  <2>1. Counting(c) \in SUBSET Searches /\ Counting(c)' \in SUBSET Counting(c)
    BY <1>2, <1>4, CountMoves
  <2>2. Cardinality(Counting(c)') \in Nat /\ Cardinality(Counting(c)) \in Nat
        /\ Cardinality(Counting(c)') <= Cardinality(Counting(c))
    BY <2>1, FewerSearches
  <2>3. ruEvents[c] \in Nat /\ ruUsed[c] \in Nat /\ ruEvents[c] + Cardinality(Counting(c)) <= ruUsed[c]
        /\ ruEvents'[c] = ruEvents[c] /\ ruUsed'[c] = ruUsed[c]
    BY <1>1 DEF UseInv, UseShape, CountsCovered, History
  <2> QED
    BY <2>2, <2>3
<1>7. (ruGaps + Cardinality(CountingGap) <= ruEmpty)'
  <2>1. CountingGap \in SUBSET Searches /\ CountingGap' \in SUBSET (CountingGap \ {u})
    BY <1>2, <1>4, CountMoves
  <2>2. Cardinality(CountingGap') \in Nat /\ Cardinality(CountingGap) \in Nat
        /\ Cardinality(CountingGap') + 1 <= Cardinality(CountingGap)
    BY <1>3, <2>1, FewerSearches
  <2>3. ruGaps \in Nat /\ ruEmpty \in Nat /\ ruGaps + Cardinality(CountingGap) <= ruEmpty /\ ruEmpty' = ruEmpty
    BY <1>1 DEF UseInv, UseShape, CountsCovered, History
  <2> QED
    BY <1>1, <2>2, <2>3
<1>8. UsesCovered'
  BY <1>1, <1>5 DEF UseInv, UseShape, UsesCovered, History
<1>9. UseShape'
  BY <1>1, <1>4 DEF UseInv, UseShape, History
<1>10. RollupFollowsEvents' /\ RebuildFollows'
  BY <1>1 DEF UseInv, RollupFollowsEvents, RebuildFollows, History
<1>11. AnswersCarryKeys'
  BY <1>1, <1>2, <1>3, <1>4 DEF UseInv, AnswersCarryKeys
<1> QED
  BY <1>4, <1>6, <1>7, <1>8, <1>9, <1>10, <1>11 DEF UseInv, CountsCovered

-----------------------------------------------------------------------------
\* The asks move while no retrieval begins to count.
LEMMA AskMoves ==
  ASSUME UseInv, UNCHANGED <<useRows, ruRebuild, ruCache, History>>,
         ruUnit' \in [Searches -> UnitRows], ruAsk' \in [RuAsks -> AskRows], UnitsAreAsked',
         \A u \in Searches : ruUnit'[u] = ruUnit[u] \/ ruUnit'[u].pc \in {"off", "look"},
         Spent \in SUBSET Spent'
  PROVE  UseInv'
<1>1. Spent' \in SUBSET Searches
  BY DEF Spent
<1>2. Cardinality(Spent) \in Nat /\ Cardinality(Spent') \in Nat /\ Cardinality(Spent) <= Cardinality(Spent')
  BY <1>1, FewerSearches
<1>3. ASSUME NEW c \in RuChunks PROVE (ruEvents[c] + Cardinality(Counting(c)) <= ruUsed[c])'
  <2>1. Counting(c) \in SUBSET Searches /\ Counting(c)' \in SUBSET Counting(c)
    BY DEF Counting, UnitAt
  <2>2. Cardinality(Counting(c)') \in Nat /\ Cardinality(Counting(c)) \in Nat
        /\ Cardinality(Counting(c)') <= Cardinality(Counting(c))
    BY <2>1, FewerSearches
  <2>3. ruEvents[c] \in Nat /\ ruUsed[c] \in Nat /\ ruEvents[c] + Cardinality(Counting(c)) <= ruUsed[c]
        /\ ruEvents'[c] = ruEvents[c] /\ ruUsed'[c] = ruUsed[c]
    BY DEF UseInv, UseShape, CountsCovered, History, useRows
  <2> QED
    BY <2>2, <2>3
<1>4. (ruGaps + Cardinality(CountingGap) <= ruEmpty)'
  <2>1. CountingGap \in SUBSET Searches /\ CountingGap' \in SUBSET CountingGap
    BY DEF CountingGap, UnitAt
  <2>2. Cardinality(CountingGap') \in Nat /\ Cardinality(CountingGap) \in Nat
        /\ Cardinality(CountingGap') <= Cardinality(CountingGap)
    BY <2>1, FewerSearches
  <2> QED
    BY <2>2 DEF UseInv, UseShape, CountsCovered, History, useRows
<1>5. UsesCovered'
  BY <1>2 DEF UseInv, UseShape, UsesCovered, History
<1>6. UseShape'
  BY DEF UseInv, UseShape, useRows, History
<1>7. RollupFollowsEvents' /\ RebuildFollows'
  BY DEF UseInv, RollupFollowsEvents, RebuildFollows, useRows, History
<1>8. AnswersCarryKeys'
  BY DEF UseInv, AnswersCarryKeys
<1> QED
  BY <1>3, <1>4, <1>5, <1>6, <1>7, <1>8 DEF UseInv, CountsCovered

\* An ask opens its one retrieval, or its two.
LEMMA OpenStep ==
  ASSUME UseInv, NEW a \in RuAsks, NEW kind, NEW units,
         \A i \in DOMAIN units : units[i] \in UnitRows, Open(a, kind, units)
  PROVE  UseInv'
<1>1. /\ ruAsk[a].pc = "idle" /\ kind \in RuKinds[a]
      /\ ruAsk' = [ruAsk EXCEPT ![a] = [NoAsk EXCEPT !.pc = "open", !.kind = kind]]
      /\ ruUnit' = [u \in Searches |-> IF u[1] # a \/ u[2] \notin DOMAIN units THEN ruUnit[u]
                                    ELSE [units[u[2]] EXCEPT !.pc = "look"]]
      /\ UNCHANGED <<useRows, ruRebuild, ruCache, History>>
  BY DEF Open
<1>2. kind \in {"use", "test", "qa"}
  BY <1>1, UseAssumption
<1>3. [NoAsk EXCEPT !.pc = "open", !.kind = kind] \in AskRows
      /\ [NoAsk EXCEPT !.pc = "open", !.kind = kind].pc = "open"
  BY <1>2 DEF NoAsk, AskRows
<1>4. /\ ruAsk' \in [RuAsks -> AskRows] /\ ruAsk'[a].pc = "open"
      /\ \A b \in RuAsks \ {a} : ruAsk'[b] = ruAsk[b]
  BY <1>1, <1>3 DEF UseInv, UseShape
<1>5. ASSUME NEW u \in Searches
      PROVE  ruUnit'[u] \in UnitRows /\ (ruUnit'[u] = ruUnit[u] \/ (u[1] = a /\ ruUnit'[u].pc = "look"))
  <2>1. ruUnit[u] \in UnitRows
    BY DEF UseInv, UseShape
  <2>2. CASE u[1] # a \/ u[2] \notin DOMAIN units
    BY <1>1, <2>1, <2>2
  <2>3. CASE ~(u[1] # a \/ u[2] \notin DOMAIN units)
    <3>1. ruUnit'[u] = [units[u[2]] EXCEPT !.pc = "look"] /\ units[u[2]] \in UnitRows
      BY <1>1, <2>3
    <3> QED
      BY <2>3, <3>1 DEF UnitRows
  <2> QED
    BY <2>2, <2>3
<1>6. ruUnit' \in [Searches -> UnitRows]
  BY <1>1, <1>5
<1>7. UnitsAreAsked'
  BY <1>4, <1>5 DEF UseInv, UnitsAreAsked, UnitAt, Searches
<1>8. Spent \in SUBSET Spent'
  BY <1>1, <1>4, <1>5 DEF Spent, UnitAt, Searches
<1> QED
  BY <1>1, <1>4, <1>5, <1>6, <1>7, <1>8, AskMoves

\* The callers that ask.
LEMMA AskSteps ==
  ASSUME UseInv, NEW a \in RuAsks,
         \/ AskTool(a) \/ AskQa(a)
         \/ \E b, d \in BOOLEAN : AskAgentic(a, b, d)
         \/ \E b \in BOOLEAN, f \in {"unset", "on", "off"} : AskTest(a, b, f)
  PROVE  UseInv'
<1>1. ASSUME NEW row \in UnitRows, NEW kind, Open(a, kind, <<row>>) PROVE UseInv'
  <2>1. \A i \in DOMAIN <<row>> : <<row>>[i] \in UnitRows
    OBVIOUS
  <2> QED
    BY <1>1, <2>1, OpenStep
<1>2. CASE AskTool(a) \/ AskQa(a)
  BY <1>1, <1>2, NewUnits DEF AskTool, AskQa
<1>3. ASSUME NEW b \in BOOLEAN, NEW d \in BOOLEAN, AskAgentic(a, b, d) PROVE UseInv'
  <2>1. CASE b
    <3> DEFINE units == <<OneUnit(1, FALSE), OneUnit(2, FALSE)>>
    <3>1. \A i \in DOMAIN units : units[i] \in UnitRows
      <4>1. OneUnit(1, FALSE) \in UnitRows /\ OneUnit(2, FALSE) \in UnitRows
        BY NewUnits
      <4>2. DOMAIN units = {1, 2} /\ units[1] = OneUnit(1, FALSE) /\ units[2] = OneUnit(2, FALSE)
        OBVIOUS
      <4> HIDE DEF units
      <4> QED
        BY <4>1, <4>2
    <3>2. Open(a, "use", units)
      BY <1>3, <2>1 DEF AskAgentic
    <3> HIDE DEF units
    <3> QED
      BY <3>1, <3>2, OpenStep
  <2>2. CASE ~b
    BY <1>1, <1>3, <2>2, NewUnits DEF AskAgentic
  <2> QED
    BY <2>1, <2>2
<1>4. ASSUME NEW b \in BOOLEAN, NEW f \in {"unset", "on", "off"}, AskTest(a, b, f) PROVE UseInv'
  <2> DEFINE reranked == RerankOn(f, TRUE)
             row == [OneUnit(0, reranked) EXCEPT !.key.embedding = EmbeddingOf(b)]
  <2>1. reranked \in BOOLEAN /\ EmbeddingOf(b) \in {"kb", "other"}
    BY DEF RerankOn, EmbeddingOf
  <2>2. Open(a, "test", <<row>>)
    BY <1>4 DEF AskTest
  <2> HIDE DEF reranked
  <2>3. OneUnit(0, reranked) \in UnitRows
    BY <2>1, NewUnits
  <2>4. row \in UnitRows
    BY <2>1, <2>3 DEF UnitRows, CacheKeys
  <2> HIDE DEF row
  <2> QED
    BY <1>1, <2>2, <2>4
<1> QED
  BY <1>2, <1>3, <1>4

\* What the caller gets.
LEMMA CallerSteps ==
  ASSUME UseInv, NEW a \in RuAsks, Deliver(a) \/ FailAsk(a) \/ StreamAnswer(a)
  PROVE  UseInv'
<1>1. PICK row \in AskRows : ruAsk' = [ruAsk EXCEPT ![a] = row] /\ row.pc # "idle"
  <2>1. ruAsk[a] \in AskRows
    BY DEF UseInv, UseShape
  <2>2. CASE Deliver(a)
    <3> DEFINE pc == IF ruAsk[a].kind = "qa" THEN "stream" ELSE "done"
               row == [[ruAsk[a] EXCEPT !.pc = pc] EXCEPT !.kind = "use"]
    <3>1. pc \in {"stream", "done"}
      OBVIOUS
    <3>2. ruAsk' = [ruAsk EXCEPT ![a] = row]
      BY <2>2 DEF Deliver, UseInv, UseShape
    <3> HIDE DEF pc
    <3>3. row \in AskRows /\ row.pc = pc
      BY <2>1, <3>1 DEF AskRows
    <3> QED
      BY <3>1, <3>2, <3>3
  <2>3. CASE FailAsk(a)
    <3> DEFINE row == [ruAsk[a] EXCEPT !.pc = "failed"]
    <3>1. ruAsk' = [ruAsk EXCEPT ![a] = row]
      BY <2>3 DEF FailAsk, UseInv, UseShape
    <3>2. row \in AskRows /\ row.pc = "failed"
      BY <2>1 DEF AskRows
    <3> QED
      BY <3>1, <3>2
  <2>4. CASE StreamAnswer(a)
    <3> DEFINE row == [ruAsk[a] EXCEPT !.pc = "done"]
    <3>1. ruAsk' = [ruAsk EXCEPT ![a] = row]
      BY <2>4 DEF StreamAnswer, UseInv, UseShape
    <3>2. row \in AskRows /\ row.pc = "done"
      BY <2>1 DEF AskRows
    <3> QED
      BY <3>1, <3>2
  <2> QED
    BY <2>2, <2>3, <2>4
<1>2. ruAsk' \in [RuAsks -> AskRows] /\ (\A b \in RuAsks \ {a} : ruAsk'[b] = ruAsk[b]) /\ ruAsk'[a].pc # "idle"
  BY <1>1 DEF UseInv, UseShape
<1>3. ruAsk[a].pc # "idle"
  BY DEF Deliver, FailAsk, StreamAnswer
<1>4. \A u \in Searches : ruUnit'[u] = ruUnit[u] \/ (u \in SearchesOf(a) /\ ruUnit'[u] = NoUnit)
  BY DEF Deliver, FailAsk, StreamAnswer
<1>5. ruUnit' \in [Searches -> UnitRows]
  <2>1. CASE Deliver(a)
    BY <2>1, NewUnits DEF Deliver, UseInv, UseShape
  <2>2. CASE FailAsk(a) \/ StreamAnswer(a)
    BY <2>2 DEF FailAsk, StreamAnswer, UseInv, UseShape
  <2> QED
    BY <2>1, <2>2
<1>6. UnitsAreAsked'
  BY <1>2, <1>4, NewUnits DEF UseInv, UnitsAreAsked, UnitAt, Searches
<1>7. \A u \in Searches : ruUnit'[u] = ruUnit[u] \/ ruUnit'[u].pc \in {"off", "look"}
  BY <1>4, NewUnits
<1>8. Spent \in SUBSET Spent'
  <2>1. \A u \in Searches : ruAsk[u[1]].pc # "idle" => ruAsk'[u[1]].pc # "idle"
    BY <1>2 DEF Searches
  <2> QED
    BY <1>4, <2>1, NewUnits DEF Spent, UnitAt
<1>9. UNCHANGED <<useRows, ruRebuild, ruCache, History>>
  BY DEF Deliver, FailAsk, StreamAnswer
<1> QED
  BY <1>2, <1>5, <1>6, <1>7, <1>8, <1>9, AskMoves

-----------------------------------------------------------------------------
\* Rows of chunks, of events, of the rollup and of the cache change, retrievals do not.
LEMMA RowsMove ==
  ASSUME UseInv, UNCHANGED <<ruUnit, ruAsk, ruGaps, ruUsed, ruEmpty>>, UseShape',
         \A c \in RuChunks : ruEvents'[c] <= ruEvents[c] /\ ruRebuild'[c] <= ruUsed[c],
         RollupFollowsEvents', RebuildFollows', ruCache' \subseteq ruCache
  PROVE  UseInv'
<1>1. UnitsAreAsked' /\ AnswersCarryKeys'
  BY DEF UseInv, UnitsAreAsked, AnswersCarryKeys, UnitAt
<1>2. Spent' = Spent /\ CountingGap' = CountingGap /\ \A c \in RuChunks : Counting(c)' = Counting(c)
  BY DEF Spent, CountingGap, Counting, UnitAt
<1>3. ASSUME NEW c \in RuChunks PROVE (ruEvents[c] + Cardinality(Counting(c)) <= ruUsed[c])'
  <2>1. Counting(c) \in SUBSET Searches
    BY DEF Counting
  <2>2. Cardinality(Counting(c)) \in Nat
    BY <2>1, FewerSearches
  <2>3. ruEvents[c] \in Nat /\ ruEvents'[c] \in Nat /\ ruUsed[c] \in Nat
        /\ ruEvents[c] + Cardinality(Counting(c)) <= ruUsed[c] /\ ruEvents'[c] <= ruEvents[c]
    BY DEF UseInv, UseShape, CountsCovered
  <2>4. Cardinality(Counting(c)') = Cardinality(Counting(c)) /\ ruUsed'[c] = ruUsed[c]
    BY <1>2
  <2> QED
    BY <2>2, <2>3, <2>4
<1>4. CountsCovered'
  BY <1>2, <1>3 DEF UseInv, CountsCovered
<1>5. UsesCovered'
  BY <1>2 DEF UseInv, UsesCovered
<1> QED
  BY <1>1, <1>4, <1>5 DEF UseInv

\* A row goes with its events.
LEMMA LoseChunkStep ==
  ASSUME UseInv, NEW c \in RuChunks, NEW purged \in BOOLEAN, LoseChunk(c, purged)
  PROVE  UseInv'
<1>1. /\ c \in ruLive /\ ruLive' = ruLive \ {c}
      /\ ruIndex' = (IF purged THEN ruIndex \ {c} ELSE ruIndex)
      /\ ruHits' = [ruHits EXCEPT ![c] = 0] /\ ruEvents' = [ruEvents EXCEPT ![c] = 0]
      /\ ruRecent' = ruRecent \ {c} /\ ruRaced' = ruRaced \ {c}
      /\ UNCHANGED <<ruGaps, ruRebuild, ruCache, ruUnit, ruAsk, ruUsed, ruEmpty>>
  BY DEF LoseChunk
<1>2. ruIndex' \subseteq RuChunks /\ ruLive' \subseteq RuChunks /\ ruRecent' \subseteq ruLive' /\ ruRaced' \subseteq RuChunks
  BY <1>1 DEF UseInv, UseShape
<1>3. UseShape'
  BY <1>1, <1>2 DEF UseInv, UseShape
<1>4. \A d \in RuChunks : ruEvents'[d] <= ruEvents[d] /\ ruRebuild'[d] <= ruUsed[d]
  BY <1>1 DEF UseInv, UseShape, UsesCovered
<1>5. RollupFollowsEvents' /\ RebuildFollows'
  BY <1>1 DEF UseInv, UseShape, RollupFollowsEvents, RebuildFollows
<1> QED
  BY <1>1, <1>3, <1>4, <1>5, RowsMove

\* The rebuild reads ...
LEMMA ReadEventsStep ==
  ASSUME UseInv, ReadEvents
  PROVE  UseInv'
<1>1. /\ ruRebuild' = [c \in RuChunks |-> IF c \in ruRecent THEN ruEvents[c] ELSE -1]
      /\ UNCHANGED <<useRows, ruCache, ruUnit, ruAsk, History>>
  BY DEF ReadEvents, EventCounts
<1>2. \A c \in RuChunks : /\ ruEvents[c] \in Nat /\ ruUsed[c] \in Nat /\ ruEvents[c] <= ruUsed[c]
                          /\ ruRebuild'[c] = IF c \in ruRecent THEN ruEvents[c] ELSE -1
  <2>1. ASSUME NEW c \in RuChunks PROVE ruEvents[c] \in Nat /\ ruUsed[c] \in Nat /\ ruEvents[c] <= ruUsed[c]
    <3>1. Counting(c) \in SUBSET Searches
      BY DEF Counting
    <3>2. Cardinality(Counting(c)) \in Nat
      BY <3>1, FewerSearches
    <3> QED
      BY <3>2 DEF UseInv, UseShape, CountsCovered
  <2> QED
    BY <1>1, <2>1
<1>3. ruRebuild' \in [RuChunks -> Nat \cup {-1}]
  BY <1>1, <1>2
<1>4. UseShape'
  BY <1>1, <1>3 DEF UseInv, UseShape, useRows, History
<1>5. \A c \in RuChunks : ruEvents'[c] <= ruEvents[c] /\ ruRebuild'[c] <= ruUsed[c]
  BY <1>1, <1>2 DEF useRows
<1>6. RollupFollowsEvents' /\ RebuildFollows'
  BY <1>1, <1>2 DEF UseInv, RollupFollowsEvents, RebuildFollows, useRows, History
<1> QED
  BY <1>1, <1>4, <1>5, <1>6, RowsMove DEF useRows, History

\* ... and writes what it has read over what was counted since.
LEMMA WriteCountsStep ==
  ASSUME UseInv, WriteCounts
  PROVE  UseInv'
<1>1. /\ ruRebuild' = NoCounts
      /\ UNCHANGED <<ruLive, ruIndex, ruEvents, ruGaps, ruRecent, ruCache, ruUnit, ruAsk, ruUsed, ruEmpty>>
  BY DEF WriteCounts
<1>2. PICK seen \in SUBSET {c \in RuChunks : ruRebuild[c] >= 0} :
        /\ ruHits' = [c \in RuChunks |-> IF c \in seen \cap ruLive THEN ruRebuild[c] ELSE ruHits[c]]
        /\ ruRaced' = {c \in ruRaced : ~(c \in seen /\ ruRebuild[c] = ruEvents[c])}
  BY DEF WriteCounts
<1>3. ASSUME NEW c \in RuChunks
      PROVE  /\ ruHits'[c] \in Nat /\ ruHits'[c] <= ruEvents'[c] /\ (c \notin ruRaced' => ruHits'[c] = ruEvents'[c])
             /\ (c \notin ruLive' => ruHits'[c] = ruEvents'[c])
             /\ ruEvents'[c] <= ruEvents[c] /\ ruRebuild'[c] = -1
             /\ ruUsed[c] \in Nat
  <2>1. /\ ruHits[c] <= ruEvents[c] /\ (c \notin ruRaced => ruHits[c] = ruEvents[c])
        /\ c \notin ruLive => ruHits[c] = ruEvents[c]
        /\ c \in ruLive /\ ruRebuild[c] >= 0 =>
             ruRebuild[c] <= ruEvents[c] /\ (c \notin ruRaced => ruRebuild[c] = ruEvents[c])
        /\ ruRebuild[c] \in Nat \cup {-1} /\ ruHits[c] \in Nat /\ ruEvents[c] \in Nat /\ ruUsed[c] \in Nat
    BY DEF UseInv, UseShape, RollupFollowsEvents, RebuildFollows
  <2>2. ruEvents'[c] = ruEvents[c] /\ ruLive' = ruLive /\ ruRebuild'[c] = -1
    BY <1>1 DEF NoCounts
  <2>3. CASE c \in seen \cap ruLive
    <3>1. ruHits'[c] = ruRebuild[c] /\ ruRebuild[c] >= 0 /\ c \in ruLive
      BY <1>2, <2>3
    <3>2. c \notin ruRaced' => c \notin ruRaced \/ ruRebuild[c] = ruEvents[c]
      BY <1>2
    <3> QED
      BY <2>1, <2>2, <3>1, <3>2
  <2>4. CASE c \notin seen \cap ruLive
    <3>1. ruHits'[c] = ruHits[c]
      BY <1>2, <2>4
    <3>2. c \notin ruRaced' => c \notin ruRaced \/ c \notin ruLive
      BY <1>2, <2>4
    <3> QED
      BY <2>1, <2>2, <3>1, <3>2
  <2> QED
    BY <2>3, <2>4
<1>4. ruHits' \in [RuChunks -> Nat] /\ ruRaced' \subseteq RuChunks /\ ruRebuild' \in [RuChunks -> Nat \cup {-1}]
  <2>1. ruRaced' \subseteq RuChunks
    BY <1>2 DEF UseInv, UseShape
  <2>2. ruHits' \in [RuChunks -> Nat]
    BY <1>2, <1>3
  <2> QED
    BY <1>1, <2>1, <2>2 DEF NoCounts
<1>5. UseShape'
  BY <1>1, <1>4 DEF UseInv, UseShape
<1>6. RollupFollowsEvents' /\ RebuildFollows'
  BY <1>3 DEF RollupFollowsEvents, RebuildFollows
<1>7. \A c \in RuChunks : ruEvents'[c] <= ruEvents[c] /\ ruRebuild'[c] <= ruUsed[c]
  BY <1>3
<1> QED
  BY <1>1, <1>5, <1>6, <1>7, RowsMove

\* The window passes; the cache expires.
LEMMA ExpirySteps ==
  ASSUME UseInv, PassWindow \/ DropAnswers
  PROVE  UseInv'
<1>1. UNCHANGED <<ruLive, ruIndex, ruHits, ruEvents, ruGaps, ruRebuild, ruUnit, ruAsk, History>>
      /\ ruRecent' \subseteq ruRecent /\ ruCache' \subseteq ruCache
  BY DEF PassWindow, DropAnswers, useRows
<1>2. UseShape'
  BY <1>1 DEF UseInv, UseShape, History
<1>3. RollupFollowsEvents' /\ RebuildFollows'
  BY <1>1 DEF UseInv, RollupFollowsEvents, RebuildFollows, History
<1>4. \A c \in RuChunks : ruEvents'[c] <= ruEvents[c] /\ ruRebuild'[c] <= ruUsed[c]
  BY <1>1 DEF UseInv, UseShape, UsesCovered
<1> QED
  BY <1>1, <1>2, <1>3, <1>4, RowsMove DEF History

-----------------------------------------------------------------------------
\* No step of any ask, deletion or rebuild breaks the invariant.
LEMMA UseStep ==
  ASSUME UseInv, [UseNext]_useVars
  PROVE  UseInv'
<1>1. ASSUME NEW a \in RuAsks,
             \/ AskTool(a) \/ AskQa(a)
             \/ \E b, d \in BOOLEAN : AskAgentic(a, b, d)
             \/ \E b \in BOOLEAN, f \in {"unset", "on", "off"} : AskTest(a, b, f)
      PROVE  UseInv'
  BY <1>1, AskSteps
<1>2. ASSUME NEW a \in RuAsks, Deliver(a) \/ FailAsk(a) \/ StreamAnswer(a) PROVE UseInv'
  BY <1>2, CallerSteps
<1>3. ASSUME NEW u \in Searches, \/ LookUp(u) \/ SearchIndex(u) \/ FailSearch(u) \/ RecordHits(u)
                                 \/ RecordGap(u) \/ LoseCount(u) \/ Finish(u)
      PROVE  UseInv'
  BY <1>3, LookUpStep, SearchStep, QuietMove, HitsStep, GapStep, FinishStep
<1>4. ASSUME NEW c \in RuChunks, NEW b \in BOOLEAN, LoseChunk(c, b) PROVE UseInv'
  BY <1>4, LoseChunkStep
<1>5. CASE ReadEvents \/ WriteCounts \/ PassWindow \/ DropAnswers
  BY <1>5, ReadEventsStep, WriteCountsStep, ExpirySteps
<1>6. CASE UNCHANGED useVars
  <2>1. UNCHANGED <<ruLive, ruIndex, ruHits, ruEvents, ruGaps, ruRecent, ruRebuild, ruCache, ruUnit, ruAsk,
                    ruRaced, ruUsed, ruEmpty>>
    BY <1>6 DEF useVars, useRows
  <2>2. UseShape' /\ RollupFollowsEvents' /\ RebuildFollows'
    BY <2>1 DEF UseInv, UseShape, RollupFollowsEvents, RebuildFollows
  <2>3. \A c \in RuChunks : ruEvents'[c] <= ruEvents[c] /\ ruRebuild'[c] <= ruUsed[c]
    BY <2>1 DEF UseInv, UseShape, UsesCovered
  <2> QED
    BY <2>1, <2>2, <2>3, RowsMove
<1> QED
  BY <1>1, <1>2, <1>3, <1>4, <1>5, <1>6 DEF UseNext

\* The invariant gives what a run checks, and the bounds of the counters.
LEMMA UseConclusions ==
  ASSUME UseInv
  PROVE  RetrievalUseTypeOK /\ RetrievalUseSound
<1>1. Spent \in SUBSET Searches /\ MaxUses \in Nat
  BY SearchesCounted DEF Spent, MaxUses
<1>2. Cardinality(Spent) \in Nat /\ Cardinality(Spent) <= MaxUses
  BY <1>1, FewerSearches, SearchesCounted
<1>3. ASSUME NEW c \in RuChunks
      PROVE  /\ ruHits[c] \in 0..MaxUses /\ ruEvents[c] \in 0..MaxUses /\ ruUsed[c] \in 0..MaxUses
             /\ ruRebuild[c] \in -1..MaxUses /\ ruEvents[c] <= ruUsed[c]
  <2>1. Counting(c) \in SUBSET Searches
    BY DEF Counting
  <2>2. Cardinality(Counting(c)) \in Nat
    BY <2>1, FewerSearches
  <2>3. /\ ruHits[c] \in Nat /\ ruEvents[c] \in Nat /\ ruUsed[c] \in Nat /\ ruRebuild[c] \in Nat \cup {-1}
        /\ ruHits[c] <= ruEvents[c] /\ ruEvents[c] + Cardinality(Counting(c)) <= ruUsed[c]
        /\ ruUsed[c] <= Cardinality(Spent) /\ ruRebuild[c] <= ruUsed[c]
    BY DEF UseInv, UseShape, RollupFollowsEvents, CountsCovered, UsesCovered
  <2> QED
    BY <1>1, <1>2, <2>2, <2>3
<1>4. ruGaps \in 0..MaxUses /\ ruEmpty \in 0..MaxUses /\ ruGaps <= ruEmpty
  <2>1. CountingGap \in SUBSET Searches
    BY DEF CountingGap
  <2>2. Cardinality(CountingGap) \in Nat
    BY <2>1, FewerSearches
  <2>3. /\ ruGaps \in Nat /\ ruEmpty \in Nat /\ ruGaps + Cardinality(CountingGap) <= ruEmpty
        /\ ruEmpty <= Cardinality(Spent)
    BY DEF UseInv, UseShape, CountsCovered, UsesCovered
  <2> QED
    BY <1>1, <1>2, <2>2, <2>3
<1>5. RetrievalUseTypeOK
  <2>1. ruHits \in [RuChunks -> 0..MaxUses] /\ ruEvents \in [RuChunks -> 0..MaxUses]
        /\ ruUsed \in [RuChunks -> 0..MaxUses] /\ ruRebuild \in [RuChunks -> -1..MaxUses]
    BY <1>3 DEF UseInv, UseShape
  <2>2. \A e, f \in ruCache : e.at \in CacheKeys /\ e.answer \in AnswersMade /\ (e.at = f.at => e = f)
    BY DEF UseInv, UseShape, CacheRows
  <2> QED
    BY <1>4, <2>1, <2>2 DEF UseInv, UseShape, RetrievalUseTypeOK, UnitRows, AskRows
<1>6. RetrievalUseSound
  BY <1>3, <1>4 DEF UseInv, RetrievalUseSound, OnlyRealUseCounts, AnswersOfTheirKey, AnswersCarryKeys, UnitAt
<1> QED
  BY <1>5, <1>6

\* Counts and gaps never run ahead of real use, the rollup follows the events, and every
\* answer, of the cache too, was made with what it is asked with: for any number of chunks and
\* of asks that overlap with deletions and with the rebuild.
THEOREM UseLeavesItsTrace == UseSpec => []RetrievalUseSound
<1>1. UseInit => UseInv
  BY UseStart
<1>2. UseInv /\ [UseNext]_useVars => UseInv'
  BY UseStep
<1>3. UseInv => RetrievalUseSound
  BY UseConclusions
<1> QED
  BY <1>1, <1>2, <1>3, PTL DEF UseSpec

-----------------------------------------------------------------------------
(****************************************************************************
 Evaluation: the rows of a message are one verdict, and numbers are means.
 ****************************************************************************)

\* A set of natural numbers has a least one.
LEMMA LeastOfNat ==
  ASSUME NEW S \in SUBSET Nat, S # {}
  PROVE  \E m \in S : \A k \in S : m <= k
<1>1. PICK m \in S : \A k \in S : ~(<<k, m>> \in OpToRel(<, Nat))
  BY WFMin, NatLessThanWellFounded, Zenon
<1>2. \A k \in S : ~(k < m)
  BY <1>1 DEF OpToRel
<1> QED
  BY <1>2

\* What a fold over a function adds up, on the sets of E.
IsTotal(it, f, E) ==
  it = [D \in E |-> IF D = {} THEN 0 ELSE LET x == CHOOSE i \in D : TRUE IN f[x] + it[D \ {x}]]
SmallSets(I, k) == {D \in SUBSET I : Cardinality(D) <= k}

\* An index that is taken out of a set leaves a smaller one.
LEMMA FewerIndices ==
  ASSUME NEW I, IsFiniteSet(I), NEW D \in SUBSET I, D # {}
  PROVE  LET x == CHOOSE i \in D : TRUE IN
         /\ x \in D /\ D \ {x} \in SUBSET I
         /\ Cardinality(D) \in Nat /\ Cardinality(D \ {x}) \in Nat
         /\ Cardinality(D \ {x}) = Cardinality(D) - 1
<1> DEFINE x == CHOOSE i \in D : TRUE
<1>1. x \in D
  OBVIOUS
<1>2. IsFiniteSet(D)
  BY FS_Subset
<1>3. Cardinality(D) \in Nat
  BY <1>2, FS_CardinalityType
<1>4. IsFiniteSet(D \ {x}) /\ Cardinality(D \ {x}) = Cardinality(D) - 1
  BY <1>1, <1>2, FS_RemoveElement
<1>5. Cardinality(D \ {x}) \in Nat
  BY <1>4, FS_CardinalityType
<1> QED
  BY <1>1, <1>3, <1>4, <1>5

\* The sets of at most k - 1 elements are among those of at most k.
LEMMA SmallerSets ==
  ASSUME NEW I, IsFiniteSet(I), NEW k \in Nat, k # 0
  PROVE  /\ SmallSets(I, k - 1) \subseteq SmallSets(I, k)
         /\ \A D \in SmallSets(I, k) : D # {} => D \ {CHOOSE i \in D : TRUE} \in SmallSets(I, k - 1)
<1>1. ASSUME NEW D \in SUBSET I
      PROVE  Cardinality(D) \in Nat
  BY FS_Subset, FS_CardinalityType
<1>2. SmallSets(I, k - 1) \subseteq SmallSets(I, k)
  BY <1>1 DEF SmallSets
<1>3. ASSUME NEW D \in SmallSets(I, k), D # {}
      PROVE  D \ {CHOOSE i \in D : TRUE} \in SmallSets(I, k - 1)
  <2> DEFINE x == CHOOSE i \in D : TRUE
  <2>1. D \in SUBSET I /\ Cardinality(D) <= k
    BY DEF SmallSets
  <2>2. D \ {x} \in SUBSET I /\ Cardinality(D) \in Nat /\ Cardinality(D \ {x}) = Cardinality(D) - 1
    BY <1>3, <2>1, FewerIndices
  <2>3. Cardinality(D \ {x}) <= k - 1
    BY <2>1, <2>2
  <2> QED
    BY <2>2, <2>3 DEF SmallSets
<1> QED
  BY <1>2, <1>3

\* A total exists, by the least size of sets for which it would not.
LEMMA TotalExists ==
  ASSUME NEW f, NEW I, IsFiniteSet(I), NEW k \in Nat
  PROVE  \E it : IsTotal(it, f, SmallSets(I, k))
<1> DEFINE Bad == {m \in Nat : \A it : ~IsTotal(it, f, SmallSets(I, m))}
<1>1. ASSUME Bad # {} PROVE FALSE
  <2>1. PICK m \in Bad : \A l \in Bad : m <= l
    BY <1>1, LeastOfNat
  <2>2. m \in Nat /\ (m # 0 => m - 1 \in Nat /\ m - 1 \notin Bad)
    BY <2>1
  <2>3. CASE m = 0
    <3> DEFINE it == [D \in SmallSets(I, 0) |-> 0]
    <3>1. \A D \in SmallSets(I, 0) : D = {}
      <4> SUFFICES ASSUME NEW D \in SmallSets(I, 0), D # {} PROVE FALSE
        OBVIOUS
      <4>1. D \in SUBSET I /\ Cardinality(D) <= 0
        BY DEF SmallSets
      <4> DEFINE x == CHOOSE i \in D : TRUE
      <4>2. Cardinality(D) \in Nat /\ Cardinality(D \ {x}) \in Nat /\ Cardinality(D \ {x}) = Cardinality(D) - 1
        BY <4>1, FewerIndices
      <4> QED
        BY <4>1, <4>2
    <3>2. IsTotal(it, f, SmallSets(I, 0))
      BY <3>1 DEF IsTotal
    <3> QED
      BY <2>1, <2>3, <3>2
  <2>4. CASE m # 0
    <3>1. PICK it : IsTotal(it, f, SmallSets(I, m - 1))
      BY <2>2, <2>4
    <3> DEFINE q == [D \in SmallSets(I, m) |-> IF D = {} THEN 0 ELSE LET x == CHOOSE i \in D : TRUE IN f[x] + it[D \ {x}]]
    <3>2. ASSUME NEW D \in SmallSets(I, m - 1)
          PROVE  q[D] = it[D]
      <4>1. D \in SmallSets(I, m)
        BY <2>2, <2>4, SmallerSets
      <4>2. it[D] = IF D = {} THEN 0 ELSE LET x == CHOOSE i \in D : TRUE IN f[x] + it[D \ {x}]
        BY <3>1 DEF IsTotal
      <4> QED
        BY <4>1, <4>2
    <3>3. ASSUME NEW D \in SmallSets(I, m), D # {}
          PROVE  q[D \ {CHOOSE i \in D : TRUE}] = it[D \ {CHOOSE i \in D : TRUE}]
      <4>1. D \ {CHOOSE i \in D : TRUE} \in SmallSets(I, m - 1)
        BY <2>2, <2>4, <3>3, SmallerSets
      <4> HIDE DEF q
      <4> QED
        BY <3>2, <4>1
    <3>4. ASSUME NEW D \in SmallSets(I, m)
          PROVE  q[D] = IF D = {} THEN 0 ELSE LET x == CHOOSE i \in D : TRUE IN f[x] + q[D \ {x}]
      <4>1. q[D] = IF D = {} THEN 0 ELSE LET x == CHOOSE i \in D : TRUE IN f[x] + it[D \ {x}]
        OBVIOUS
      <4> HIDE DEF q
      <4> QED
        BY <3>3, <4>1
    <3>5. IsTotal(q, f, SmallSets(I, m))
      <4>1. q = [D \in SmallSets(I, m) |-> q[D]]
        OBVIOUS
      <4> HIDE DEF q
      <4> QED
        BY <3>4, <4>1 DEF IsTotal
    <3> QED
      BY <2>1, <3>5
  <2> QED
    BY <2>3, <2>4
<1> QED
  BY <1>1

\* Total is the value of a total at the domain.
LEMMA TotalIs ==
  ASSUME NEW f, IsFiniteSet(DOMAIN f)
  PROVE  \E it : Total(f) = it[DOMAIN f] /\ IsTotal(it, f, SUBSET DOMAIN f)
<1> DEFINE I == DOMAIN f
           it == CHOOSE t : IsTotal(t, f, SUBSET I)
<1>1. Cardinality(I) \in Nat /\ SmallSets(I, Cardinality(I)) = SUBSET I
  BY FS_Subset, FS_CardinalityType DEF SmallSets
<1>2. IsTotal(it, f, SUBSET I)
  BY <1>1, TotalExists
<1>3. Total(f) = it[I]
  BY DEF Total, FoldSeq, FoldFunction, FoldFunctionOnSet, MapThenFoldSet, IsTotal
<1> QED
  BY <1>2, <1>3

\* A total of numbers between lo and hi lies between as many times lo and hi, by the least
\* size of sets where it would not.
LEMMA TotalWithin ==
  ASSUME NEW f, IsFiniteSet(DOMAIN f), NEW lo \in Int, NEW hi \in Int, \A i \in DOMAIN f : f[i] \in lo..hi
  PROVE  LET n == Cardinality(DOMAIN f) IN n \in Nat /\ Total(f) \in (lo * n)..(hi * n)
<1> DEFINE I == DOMAIN f
<1>1. PICK it : Total(f) = it[I] /\ IsTotal(it, f, SUBSET I)
  BY TotalIs
<1>2. \A D \in SUBSET I : it[D] = IF D = {} THEN 0 ELSE LET x == CHOOSE i \in D : TRUE IN f[x] + it[D \ {x}]
  BY <1>1 DEF IsTotal
<1>3. \A D \in SUBSET I : Cardinality(D) \in Nat /\ IsFiniteSet(D)
  BY FS_Subset, FS_CardinalityType
<1> DEFINE Fits(D) == it[D] \in (lo * Cardinality(D))..(hi * Cardinality(D))
           Bad == {Cardinality(D) : D \in {S \in SUBSET I : ~Fits(S)}}
<1>4. ASSUME Bad # {} PROVE FALSE
  <2>1. Bad \in SUBSET Nat
    BY <1>3
  <2>2. PICK m \in Bad : \A l \in Bad : m <= l
    BY <1>4, <2>1, LeastOfNat
  <2>3. PICK D \in SUBSET I : ~Fits(D) /\ m = Cardinality(D)
    BY <2>2
  <2>4. D # {}
    <3>1. lo * 0 = 0 /\ hi * 0 = 0
      OBVIOUS
    <3>2. it[{}] = 0 /\ Cardinality({}) = 0
      BY <1>2, FS_EmptySet
    <3>3. Fits({})
      BY <3>1, <3>2
    <3> QED
      BY <2>3, <3>3
  <2> DEFINE x == CHOOSE i \in D : TRUE
  <2>5. /\ x \in D /\ D \ {x} \in SUBSET I /\ Cardinality(D) \in Nat /\ Cardinality(D \ {x}) \in Nat
        /\ Cardinality(D \ {x}) = Cardinality(D) - 1
    BY <2>4, FewerIndices
  <2>6. Fits(D \ {x})
    <3>1. ~(m <= Cardinality(D \ {x}))
      BY <2>3, <2>5
    <3>2. Cardinality(D \ {x}) \notin Bad
      BY <2>2, <3>1
    <3> QED
      BY <2>5, <3>2
  <2>7. it[D] = f[x] + it[D \ {x}] /\ f[x] \in lo..hi
    BY <1>2, <2>4, <2>5
  <2> DEFINE n == Cardinality(D)
             y == f[x]
             z == it[D \ {x}]
  <2>8. y \in lo..hi /\ z \in (lo * (n - 1))..(hi * (n - 1)) /\ n \in Nat
    BY <2>5, <2>6, <2>7
  <2> HIDE DEF n, y, z
  <2>9. lo * (n - 1) = lo * n - lo /\ hi * (n - 1) = hi * n - hi /\ lo * n \in Int /\ hi * n \in Int
    BY <2>8
  <2>10. y + z \in (lo * n)..(hi * n)
    BY <2>8, <2>9
  <2> QED
    BY <2>3, <2>7, <2>10 DEF n, y, z
<1>5. Fits(I)
  BY <1>4
<1> QED
  BY <1>1, <1>3, <1>5

-----------------------------------------------------------------------------
\* Where each of f is at most c times that of g, so is the total.
LEMMA TotalsCompare ==
  ASSUME NEW f, NEW g, IsFiniteSet(DOMAIN f), DOMAIN g = DOMAIN f, NEW c \in Nat,
         \A i \in DOMAIN f : f[i] \in Nat /\ g[i] \in Nat /\ f[i] <= c * g[i]
  PROVE  Total(f) \in Nat /\ Total(g) \in Nat /\ Total(f) <= c * Total(g)
<1> DEFINE I == DOMAIN f
<1>1. PICK it : Total(f) = it[I] /\ IsTotal(it, f, SUBSET I)
  BY TotalIs
<1>2. PICK jt : Total(g) = jt[I] /\ IsTotal(jt, g, SUBSET I)
  BY TotalIs
<1>3. /\ \A D \in SUBSET I : it[D] = IF D = {} THEN 0 ELSE LET x == CHOOSE i \in D : TRUE IN f[x] + it[D \ {x}]
      /\ \A D \in SUBSET I : jt[D] = IF D = {} THEN 0 ELSE LET x == CHOOSE i \in D : TRUE IN g[x] + jt[D \ {x}]
  BY <1>1, <1>2 DEF IsTotal
<1>4. \A D \in SUBSET I : Cardinality(D) \in Nat /\ IsFiniteSet(D)
  BY FS_Subset, FS_CardinalityType
<1> DEFINE Fits(D) == it[D] \in Nat /\ jt[D] \in Nat /\ it[D] <= c * jt[D]
           Bad == {Cardinality(D) : D \in {S \in SUBSET I : ~Fits(S)}}
<1>5. ASSUME Bad # {} PROVE FALSE
  <2>1. Bad \in SUBSET Nat
    BY <1>4
  <2>2. PICK m \in Bad : \A l \in Bad : m <= l
    BY <1>5, <2>1, LeastOfNat
  <2>3. PICK D \in SUBSET I : ~Fits(D) /\ m = Cardinality(D)
    BY <2>2
  <2>4. D # {}
    <3>1. c * 0 = 0
      OBVIOUS
    <3>2. it[{}] = 0 /\ jt[{}] = 0
      BY <1>3
    <3>3. Fits({})
      BY <3>1, <3>2
    <3> QED
      BY <2>3, <3>3
  <2> DEFINE x == CHOOSE i \in D : TRUE
  <2>5. /\ x \in D /\ D \ {x} \in SUBSET I /\ Cardinality(D) \in Nat /\ Cardinality(D \ {x}) \in Nat
        /\ Cardinality(D \ {x}) = Cardinality(D) - 1
    BY <2>4, FewerIndices
  <2>6. Fits(D \ {x})
    <3>1. ~(m <= Cardinality(D \ {x}))
      BY <2>3, <2>5
    <3>2. Cardinality(D \ {x}) \notin Bad
      BY <2>2, <3>1
    <3> QED
      BY <2>5, <3>2
  <2>7. it[D] = f[x] + it[D \ {x}] /\ jt[D] = g[x] + jt[D \ {x}] /\ f[x] \in Nat /\ g[x] \in Nat /\ f[x] <= c * g[x]
    BY <1>3, <2>4, <2>5
  <2> DEFINE y == f[x]
             z == it[D \ {x}]
             u == g[x]
             v == jt[D \ {x}]
  <2>8. y \in Nat /\ z \in Nat /\ u \in Nat /\ v \in Nat /\ y <= c * u /\ z <= c * v
    BY <2>6, <2>7
  <2>9. it[D] = y + z /\ jt[D] = u + v
    BY <2>7
  <2> HIDE DEF y, z, u, v
  <2>10. c * (u + v) = c * u + c * v /\ c * u \in Int /\ c * v \in Int
    BY <2>8
  <2>11. y + z \in Nat /\ u + v \in Nat /\ y + z <= c * (u + v)
    BY <2>8, <2>10
  <2> QED
    BY <2>3, <2>9, <2>11
<1>6. Fits(I)
  BY <1>5
<1> QED
  BY <1>1, <1>2, <1>6

\* A quotient of at most c is.
LEMMA QuotientWithin ==
  ASSUME NEW a \in Int, NEW n \in Nat \ {0}, NEW lo \in Int, NEW hi \in Int, lo * n <= a, a <= hi * n
  PROVE  a \div n \in lo..hi
<1> DEFINE q == a \div n
<1>1. q \in Int /\ n * q <= a /\ a < n * (q + 1)
  OBVIOUS
<1> HIDE DEF q
<1>2. lo <= q
  <2>1. ~(q + 1 <= lo)
    BY <1>1
  <2> QED
    BY <1>1, <2>1
<1>3. q <= hi
  BY <1>1
<1> QED
  BY <1>1, <1>2, <1>3 DEF q

-----------------------------------------------------------------------------
(***************************************************************************)
(* Whatever its model answers, a judge gives a percentage.                 *)
(***************************************************************************)

\* A clamped answer has at most as many scores as it was asked for, each a percentage.
LEMMA ClampedIs ==
  ASSUME NEW answer \in Seq(Int), NEW n \in 0..2
  PROVE  LET s == Clamped(answer, n) IN
         \E k \in 0..2 : s = [i \in 1..k |-> s[i]] /\ DOMAIN s = 1..k /\ (\A i \in 1..k : s[i] \in 0..100)
                         /\ s \in Seq(0..100) /\ Len(s) = k
<1> DEFINE k == IF Len(answer) < n THEN Len(answer) ELSE n
           s == Clamped(answer, n)
<1>1. k \in 0..2 /\ (\A i \in 1..k : answer[i] \in Int)
  <2>1. Len(answer) \in Nat /\ \A i \in 1..Len(answer) : answer[i] \in Int
    OBVIOUS
  <2>2. k \in 0..2 /\ k <= Len(answer)
    BY <2>1
  <2> HIDE DEF k
  <2>3. 1..k \subseteq 1..Len(answer)
    BY <2>1, <2>2
  <2> QED
    BY <2>1, <2>2, <2>3
<1>2. s = [i \in 1..k |-> Clamp01(answer[i])]
  BY DEF Clamped
<1> HIDE DEF s, k
<1>3. \A i \in 1..k : s[i] \in 0..100
  <2> TAKE i \in 1..k
  <2>1. s[i] = Clamp01(answer[i]) /\ answer[i] \in Int
    BY <1>1, <1>2
  <2>2. \A v \in Int : Clamp01(v) \in 0..100
    BY DEF Clamp01
  <2> QED
    BY <2>1, <2>2
<1>4. s \in Seq(0..100) /\ Len(s) = k
  BY <1>1, <1>2, <1>3
<1> QED
  BY <1>1, <1>2, <1>3, <1>4 DEF s

\* There are k numbers from 1 to k.
LEMMA IndicesCounted ==
  ASSUME NEW k \in 0..2
  PROVE  k \in Nat /\ IsFiniteSet(1..k) /\ Cardinality(1..k) = k
<1>1. k \in Int /\ 1 \in Int
  OBVIOUS
<1>2. IsFiniteSet(1..k) /\ Cardinality(1..k) = (IF 1 > k THEN 0 ELSE k - 1 + 1)
  BY <1>1, FS_Interval
<1> QED
  BY <1>2

\* judge_context_precision: a weighted mean of percentages is one.
LEMMA PrecisionIsPercent ==
  ASSUME NEW answer \in Seq(Int), NEW n \in 0..2
  PROVE  ContextPrecision(answer, n) \in 0..100
<1> DEFINE s == Clamped(answer, n)
<1>1. PICK k \in 0..2 : s = [i \in 1..k |-> s[i]] /\ DOMAIN s = 1..k /\ (\A i \in 1..k : s[i] \in 0..100)
                        /\ s \in Seq(0..100) /\ Len(s) = k
  BY ClampedIs
<1>2. CASE s = <<>>
  BY <1>2 DEF ContextPrecision, Neutral
<1>4. k \in Nat /\ IsFiniteSet(1..k) /\ Cardinality(1..k) = k
  BY <1>1, IndicesCounted
<1>3. CASE s # <<>>
  <2> DEFINE f == [i \in DOMAIN s |-> s[i] * RankWeight(i)]
             g == [i \in DOMAIN s |-> RankWeight(i)]
  <2>1. k # 0
    BY <1>1, <1>3
  <2>2. \A i \in 1..2 : RankWeight(i) \in 1..60
    BY DEF RankWeight
  <2> HIDE DEF s
  <2>3. DOMAIN f = 1..k /\ DOMAIN g = 1..k
    BY <1>1
  <2>4. \A i \in 1..k : g[i] \in 1..60 /\ f[i] = s[i] * g[i]
    <3> TAKE i \in 1..k
    <3>1. i \in DOMAIN s /\ i \in 1..2
      BY <1>1
    <3>2. g[i] = RankWeight(i) /\ f[i] = s[i] * RankWeight(i)
      BY <3>1
    <3> QED
      BY <2>2, <3>1, <3>2
  <2> HIDE DEF f, g
  <2>5. \A a \in 0..100, b \in 1..60 : a * b \in Nat /\ a * b <= 100 * b
    OBVIOUS
  <2>6. \A i \in 1..k : f[i] \in Nat /\ g[i] \in Nat /\ f[i] <= 100 * g[i]
    <3> TAKE i \in 1..k
    <3>1. s[i] \in 0..100 /\ g[i] \in 1..60 /\ f[i] = s[i] * g[i]
      BY <1>1, <2>4
    <3> DEFINE a == s[i]
               b == g[i]
    <3>2. a \in 0..100 /\ b \in 1..60 /\ f[i] = a * b
      BY <3>1
    <3> HIDE DEF a, b
    <3>3. f[i] \in Nat /\ b \in Nat /\ f[i] <= 100 * b
      BY <2>5, <3>2
    <3> QED
      BY <3>3 DEF b
  <2>7. Total(f) \in Nat /\ Total(g) \in Nat /\ Total(f) <= 100 * Total(g)
    BY <1>4, <2>3, <2>6, TotalsCompare
  <2>8. Total(g) \in (1 * k)..(60 * k)
    <3>1. \A i \in DOMAIN g : g[i] \in 1..60
      BY <2>3, <2>4
    <3>2. IsFiniteSet(DOMAIN g) /\ Cardinality(DOMAIN g) = k /\ 1 \in Int /\ 60 \in Int
      BY <1>4, <2>3
    <3>3. LET m == Cardinality(DOMAIN g) IN m \in Nat /\ Total(g) \in (1 * m)..(60 * m)
      BY <3>1, <3>2, TotalWithin, Zenon
    <3> QED
      BY <3>2, <3>3
  <2>9. Total(g) \in Nat \ {0} /\ 0 * Total(g) = 0
    BY <1>4, <2>1, <2>7, <2>8
  <2>10. Total(f) \div Total(g) \in 0..100
    <3> DEFINE a == Total(f)
               b == Total(g)
    <3>1. a \in Int /\ b \in Nat \ {0} /\ 0 * b <= a /\ a <= 100 * b
      BY <2>7, <2>9
    <3> HIDE DEF a, b
    <3>2. a \div b \in 0..100
      BY <3>1, QuotientWithin
    <3> QED
      BY <3>2 DEF a, b
  <2> QED
    BY <1>3, <2>10 DEF ContextPrecision, f, g, s
<1> QED
  BY <1>2, <1>3

\* judge_citation_accuracy: so is a mean.
LEMMA AccuracyIsPercent ==
  ASSUME NEW answer \in Seq(Int), NEW n \in 0..2
  PROVE  CitationAccuracy(answer, n) \in 0..100
<1> DEFINE s == Clamped(answer, n)
<1>1. PICK k \in 0..2 : s = [i \in 1..k |-> s[i]] /\ DOMAIN s = 1..k /\ (\A i \in 1..k : s[i] \in 0..100)
                        /\ s \in Seq(0..100) /\ Len(s) = k
  BY ClampedIs
<1>2. CASE s = <<>>
  BY <1>2 DEF CitationAccuracy, Neutral
<1>4. k \in Nat /\ IsFiniteSet(1..k) /\ Cardinality(1..k) = k
  BY <1>1, IndicesCounted
<1>3. CASE s # <<>>
  <2>1. k \in Nat \ {0}
    BY <1>1, <1>3, <1>4
  <2> HIDE DEF s
  <2>2. Total(s) \in (0 * k)..(100 * k)
    <3>1. \A i \in DOMAIN s : s[i] \in 0..100
      BY <1>1
    <3>2. IsFiniteSet(DOMAIN s) /\ Cardinality(DOMAIN s) = k /\ 0 \in Int /\ 100 \in Int
      BY <1>1, <1>4
    <3>3. LET m == Cardinality(DOMAIN s) IN m \in Nat /\ Total(s) \in (0 * m)..(100 * m)
      BY <3>1, <3>2, TotalWithin, Zenon
    <3> QED
      BY <3>2, <3>3
  <2>3. Total(s) \div k \in 0..100
    <3> DEFINE a == Total(s)
    <3>1. a \in Int /\ 0 * k <= a /\ a <= 100 * k
      BY <1>4, <2>2
    <3> HIDE DEF a
    <3>2. a \div k \in 0..100
      BY <2>1, <3>1, QuotientWithin
    <3> QED
      BY <3>2 DEF a
  <2> QED
    BY <1>1, <1>3, <2>3 DEF CitationAccuracy, s
<1> QED
  BY <1>2, <1>3

\* _run_all_judges: every score is a percentage.
LEMMA JudgesArePercent == JudgeResults \subseteq [EaMetrics -> 0..100]
<1>1. \A a \in Answers_ : a.scores \in Seq(Int) /\ a.claims \in Nat /\ a.invented \in Nat
  <2> DEFINE Q == <<150>>
             W == <<0, 100, -5>>
             N == <<>>
  <2>1. Q \in Seq(Int) /\ W \in Seq(Int) /\ N \in Seq(Int)
    OBVIOUS
  <2> HIDE DEF Q, W, N
  <2>2. Answers_ = {[scores |-> Q, claims |-> 2, invented |-> 1], [scores |-> W, claims |-> 1, invented |-> 3],
                    [scores |-> N, claims |-> 0, invented |-> 0]}
    BY DEF Answers_, Q, W, N
  <2> QED
    BY <2>1, <2>2
<1>2. ASSUME NEW a \in Answers_, NEW n \in {0, 2}, NEW m \in EaMetrics
      PROVE  JudgeScore(m, a, n) \in 0..100
  <2>1. ContextPrecision(a.scores, n) \in 0..100 /\ CitationAccuracy(a.scores, n) \in 0..100
    <3>1. a.scores \in Seq(Int) /\ n \in 0..2
      BY <1>1
    <3> QED
      BY <3>1, PrecisionIsPercent, AccuracyIsPercent
  <2>2. OneScore(a.scores) \in 0..100
    <3>1. a.scores \in Seq(Int)
      BY <1>1
    <3>2. a.scores # <<>> => a.scores[1] \in Int
      BY <3>1
    <3>3. \A v \in Int : Clamp01(v) \in 0..100
      BY DEF Clamp01
    <3>4. CASE a.scores = <<>>
      BY <3>4 DEF OneScore, Neutral
    <3>5. CASE a.scores # <<>>
      <4>1. Clamp01(a.scores[1]) \in 0..100
        BY <3>2, <3>3, <3>5
      <4> QED
        BY <3>5, <4>1, Zenon DEF OneScore
    <3> QED
      BY <3>4, <3>5
  <2>3. Hallucination(a.claims, a.invented) \in 0..100
    <3>1. <<a.claims, a.invented>> \in {<<2, 1>>, <<1, 3>>, <<0, 0>>}
      BY DEF Answers_
    <3>2. /\ Hallucination(2, 1) \in 0..100 /\ Hallucination(1, 3) \in 0..100 /\ Hallucination(0, 0) \in 0..100
      BY DEF Hallucination, Neutral
    <3> QED
      BY <3>1, <3>2
  <2> QED
    BY <2>1, <2>2, <2>3 DEF JudgeScore
<1>3. NoScores \in [EaMetrics -> 0..100]
  BY DEF NoScores, Neutral
<1> QED
  BY <1>2, <1>3 DEF JudgeResults
-----------------------------------------------------------------------------
(***************************************************************************)
(* The rows of a message are one verdict.                                  *)
(***************************************************************************)

Percents == [EaMetrics -> 0..100]
RowType  == [message : EaMessages, metric : EaMetrics, base : EaBases, score : 0..100, by : EaTasks]
Verdict(m, t, b, s) ==
  {[message |-> m, metric |-> x, base |-> b, score |-> s[x], by |-> t] : x \in EaMetrics}
IsVerdict(m, rows) ==
  rows = {} \/ \E t \in EaTasks, b \in EaBases, s \in Percents : rows = Verdict(m, t, b, s)

\* The rows of a verdict belong to its message, and there are some.
LEMMA VerdictRows ==
  ASSUME NEW m \in EaMessages, NEW t \in EaTasks, NEW b \in EaBases, NEW s \in Percents
  PROVE  /\ Verdict(m, t, b, s) \subseteq RowType /\ Verdict(m, t, b, s) # {}
         /\ \A r \in Verdict(m, t, b, s) : r.message = m /\ r.by = t /\ r.base = b
         /\ \A x \in EaMetrics : {r \in Verdict(m, t, b, s) : r.metric = x} =
              {[message |-> m, metric |-> x, base |-> b, score |-> s[x], by |-> t]}
<1>1. \A x \in EaMetrics : s[x] \in 0..100
  BY DEF Percents
<1>2. Verdict(m, t, b, s) \subseteq RowType
  BY <1>1 DEF Verdict, RowType
<1>3. Verdict(m, t, b, s) # {}
  BY EvaluationAssumption DEF Verdict
<1>4. \A r \in Verdict(m, t, b, s) : r.message = m /\ r.by = t /\ r.base = b
  BY DEF Verdict
<1>5. ASSUME NEW x \in EaMetrics
      PROVE  {r \in Verdict(m, t, b, s) : r.metric = x} =
               {[message |-> m, metric |-> x, base |-> b, score |-> s[x], by |-> t]}
  BY DEF Verdict
<1> QED
  BY <1>2, <1>3, <1>4, <1>5

\* Such rows have each metric once.
LEMMA VerdictIsOne ==
  ASSUME NEW m \in EaMessages, NEW rows, IsVerdict(m, rows)
  PROVE  OneVerdict(rows)
<1>1. CASE rows = {}
  BY <1>1 DEF OneVerdict
<1>2. CASE rows # {}
  <2>1. PICK t \in EaTasks, b \in EaBases, s \in Percents : rows = Verdict(m, t, b, s)
    BY <1>2 DEF IsVerdict
  <2>2. \A r \in rows : r.by = t
    BY <2>1, VerdictRows
  <2>3. \A x \in EaMetrics : Cardinality({r \in rows : r.metric = x}) = 1
    <3> TAKE x \in EaMetrics
    <3>1. {r \in rows : r.metric = x} = {[message |-> m, metric |-> x, base |-> b, score |-> s[x], by |-> t]}
      BY <2>1, VerdictRows
    <3> QED
      BY <3>1, FS_Singleton
  <2> QED
    BY <2>2, <2>3 DEF OneVerdict
<1> QED
  BY <1>1, <1>2

\* Where the rows of each message are a verdict, every metric has as many rows of a base as
\* there are messages whose verdict is of that base.
LEMMA SamplesAgree ==
  ASSUME eaRows \subseteq RowType, \A m \in EaMessages : IsVerdict(m, RowsOf(m)),
         NEW b \in EaBases, NEW x \in EaMetrics
  PROVE  LET M == {m \in EaMessages : \E r \in RowsOf(m) : r.base = b}
             R == {r \in eaRows : r.base = b /\ r.metric = x}
         IN  IsFiniteSet(R) /\ Cardinality(R) = Cardinality(M)
<1> DEFINE M == {m \in EaMessages : \E r \in RowsOf(m) : r.base = b}
           R == {r \in eaRows : r.base = b /\ r.metric = x}
           f == [m \in M |-> CHOOSE r \in R : r.message = m]
<1>1. ASSUME NEW m \in M
      PROVE  \E r \in R : r.message = m /\ \A q \in R : q.message = m => q = r
  <2>1. PICK t \in EaTasks, c \in EaBases, s \in Percents : RowsOf(m) = Verdict(m, t, c, s)
    BY DEF IsVerdict
  <2>2. c = b
    BY <2>1, VerdictRows
  <2> DEFINE row == [message |-> m, metric |-> x, base |-> b, score |-> s[x], by |-> t]
  <2>3. {r \in RowsOf(m) : r.metric = x} = {row}
    BY <2>1, <2>2, VerdictRows
  <2>4. row \in R /\ row.message = m
    BY <2>3 DEF RowsOf
  <2>5. \A q \in R : q.message = m => q = row
    BY <2>3 DEF RowsOf
  <2> QED
    BY <2>4, <2>5
<1>2. ASSUME NEW r \in R
      PROVE  r.message \in M
  BY DEF RowsOf, RowType
<1>3. \A m \in M : f[m] \in R /\ f[m].message = m /\ \A q \in R : q.message = m => q = f[m]
  BY <1>1
<1>4. f \in [M -> R]
  BY <1>3
<1> HIDE DEF f, R, M
<1>5. \A r \in R : \E m \in M : f[m] = r
  BY <1>2, <1>3
<1>6. f \in Surjection(M, R)
  BY <1>4, <1>5 DEF Surjection
<1>7. f \in Injection(M, R)
  BY <1>3, <1>4 DEF Injection, IsInjective
<1>8. IsFiniteSet(M)
  BY EvaluationAssumption, FS_Subset DEF M
<1> QED
  BY <1>6, <1>7, <1>8, FS_Surjection DEF M, R

\* A finite set can be put in a sequence.
LEMMA SequenceOf ==
  ASSUME NEW S, IsFiniteSet(S)
  PROVE  LET s == SetToSeq(S) IN
         /\ Cardinality(S) \in Nat /\ s \in [1..Cardinality(S) -> S] /\ DOMAIN s = 1..Cardinality(S)
         /\ Len(s) = Cardinality(S) /\ (S # {} => Cardinality(S) # 0 /\ s # <<>>)
<1> DEFINE k == Cardinality(S)
           s == SetToSeq(S)
<1>1. k \in Nat
  BY FS_CardinalityType
<1>2. ExistsBijection(1..k, S)
  BY FS_CardinalityType
<1>3. \E f \in [1..k -> S] : IsInjective(f)
  BY <1>2 DEF ExistsBijection, Bijection, Injection
<1>4. s \in [1..k -> S]
  BY <1>3 DEF SetToSeq
<1>5. S # {} => k # 0
  BY FS_EmptySet
<1> HIDE DEF s
<1>6. s \in Seq(S) /\ Len(s) = k
  BY <1>1, <1>4
<1>7. S # {} => s # <<>>
  BY <1>5, <1>6
<1> QED
  BY <1>1, <1>4, <1>5, <1>6, <1>7 DEF s
\* An average of percentages is one.
LEMMA AverageIsPercent ==
  ASSUME eaRows \subseteq RowType, NEW b \in EaBases, NEW x \in EaMetrics,
         IsFiniteSet({r \in eaRows : r.base = b /\ r.metric = x}), SampleSize(b, x) > 0
  PROVE  Average(b, x) \in 0..100
<1> DEFINE S == {r \in eaRows : r.base = b /\ r.metric = x}
           R == SetToSeq(S)
           k == Cardinality(S)
           f == [i \in DOMAIN R |-> R[i].score]
<1>1. S \subseteq RowType
  OBVIOUS
<1>2. /\ k \in Nat /\ R \in [1..k -> S] /\ DOMAIN R = 1..k /\ Len(R) = k
  BY SequenceOf
<1>3. k > 0
  BY DEF SampleSize
<1> HIDE DEF R, S, k
<1>4. DOMAIN f = 1..k /\ \A i \in 1..k : f[i] \in 0..100
  <2>1. \A i \in 1..k : R[i] \in RowType
    BY <1>1, <1>2
  <2> QED
    BY <1>2, <2>1 DEF RowType
<1> HIDE DEF f
<1>5. IsFiniteSet(1..k) /\ Cardinality(1..k) = k
  <2>1. k \in Int /\ 1 \in Int
    BY <1>2
  <2>2. IsFiniteSet(1..k) /\ Cardinality(1..k) = (IF 1 > k THEN 0 ELSE k - 1 + 1)
    BY <2>1, FS_Interval
  <2> QED
    BY <1>2, <2>2
<1>6. Total(f) \in (0 * k)..(100 * k)
  <2>1. IsFiniteSet(DOMAIN f) /\ Cardinality(DOMAIN f) = k
    BY <1>4, <1>5
  <2>2. 0 \in Int /\ 100 \in Int
    OBVIOUS
  <2>3. \A i \in DOMAIN f : f[i] \in 0..100
    BY <1>4
  <2>4. LET m == Cardinality(DOMAIN f) IN m \in Nat /\ Total(f) \in (0 * m)..(100 * m)
    BY <2>1, <2>2, <2>3, TotalWithin, Zenon
  <2> QED
    BY <2>1, <2>4
<1>7. Total(f) \div k \in 0..100
  <2> DEFINE a == Total(f)
  <2>1. a \in Int /\ k \in Nat \ {0} /\ 0 * k <= a /\ a <= 100 * k
    BY <1>2, <1>3, <1>6
  <2> HIDE DEF a
  <2>2. a \div k \in 0..100
    BY <2>1, QuotientWithin
  <2> QED
    BY <2>2 DEF a
<1> QED
  BY <1>2, <1>7 DEF Average, f, R, S

\* Numbers between lo and hi have their mean there.
LEMMA MeanWithin ==
  ASSUME NEW G, IsFiniteSet(G), G # {}, NEW of, NEW lo \in Int, NEW hi \in Int, \A q \in G : of[q] \in lo..hi
  PROVE  Mean(of, G) \in lo..hi
<1> DEFINE s == SetToSeq(G)
           k == Cardinality(G)
           f == [i \in DOMAIN s |-> of[s[i]]]
<1>1. k \in Nat /\ s \in [1..k -> G] /\ DOMAIN s = 1..k /\ Len(s) = k /\ k # 0 /\ s # <<>>
  BY SequenceOf
<1> HIDE DEF s, k
<1>2. DOMAIN f = 1..k /\ \A i \in 1..k : f[i] \in lo..hi
  BY <1>1
<1> HIDE DEF f
<1>3. IsFiniteSet(1..k) /\ Cardinality(1..k) = k
  <2>1. k \in Int /\ 1 \in Int
    BY <1>1
  <2>2. IsFiniteSet(1..k) /\ Cardinality(1..k) = (IF 1 > k THEN 0 ELSE k - 1 + 1)
    BY <2>1, FS_Interval
  <2> QED
    BY <1>1, <2>2
<1>4. Total(f) \in (lo * k)..(hi * k)
  <2>1. IsFiniteSet(DOMAIN f) /\ Cardinality(DOMAIN f) = k /\ \A i \in DOMAIN f : f[i] \in lo..hi
    BY <1>2, <1>3
  <2>2. LET m == Cardinality(DOMAIN f) IN m \in Nat /\ Total(f) \in (lo * m)..(hi * m)
    BY <2>1, TotalWithin, Zenon
  <2> QED
    BY <2>1, <2>2
<1>5. Total(f) \div k \in lo..hi
  <2> DEFINE a == Total(f)
             c == lo * k
             d == hi * k
  <2>1. c \in Int /\ d \in Int
    BY <1>1
  <2>2. a \in c..d
    BY <1>4
  <2> HIDE DEF a
  <2>3. a \in Int /\ c <= a /\ a <= d
    <3> HIDE DEF c, d
    <3> QED
      BY <2>1, <2>2
  <2>4. a \div k \in lo..hi
    BY <1>1, <2>3, QuotientWithin
  <2> QED
    BY <2>4 DEF a
<1> QED
  BY <1>1, <1>5 DEF Mean, f, s

\* So the mean of scores that are 0 or 100 lies between two of them.
LEMMA MeanBetweenScores ==
  ASSUME NEW G, IsFiniteSet(G), G # {}, NEW of, \A q \in G : of[q] \in {0, 100}
  PROVE  Mean(of, G) \in 0..100 /\ \E p, q \in G : of[p] <= Mean(of, G) /\ Mean(of, G) <= of[q]
<1>1. 0 \in Int /\ 100 \in Int
  OBVIOUS
<1>2. Mean(of, G) \in 0..100
  <2> DEFINE lo == 0
             hi == 100
  <2>1. lo \in Int /\ hi \in Int /\ \A q \in G : of[q] \in lo..hi
    OBVIOUS
  <2> HIDE DEF lo, hi
  <2>2. Mean(of, G) \in lo..hi
    BY <2>1, MeanWithin
  <2> QED
    BY <2>2 DEF lo, hi
<1>3. CASE \A q \in G : of[q] = 0
  <2>1. \A q \in G : of[q] \in 0..0
    BY <1>3
  <2>2. Mean(of, G) \in 0..0
    BY <1>1, <2>1, MeanWithin
  <2> QED
    BY <1>2, <1>3, <2>2
<1>4. CASE \A q \in G : of[q] = 100
  <2>1. \A q \in G : of[q] \in 100..100
    BY <1>4
  <2>2. Mean(of, G) \in 100..100
    BY <1>1, <2>1, MeanWithin
  <2> QED
    BY <1>2, <1>4, <2>2
<1>5. CASE \E p, q \in G : of[p] = 0 /\ of[q] = 100
  BY <1>2, <1>5
<1> QED
  BY <1>3, <1>4, <1>5

-----------------------------------------------------------------------------
(***************************************************************************)
(* The inductive invariant.                                                *)
(***************************************************************************)

MessageType == [stored : BOOLEAN, asked : BOOLEAN, chunks : SUBSET EaBases]
TaskType == [pc : {"idle", "judging", "delete", "insert", "show", "shown"}, message : EaMessages,
             forced : BOOLEAN, base : EaBases \cup {NoBase}, scores : Percents,
             saw : SUBSET RowType, shown : SUBSET RowType]
RunType  == [pc : {"idle", "running", "unjudged", "stored"}, questions : SUBSET EaQuestions,
             status : {"none", "completed", "partial", "error"}, count : Nat,
             failed : SUBSET EaQuestions, mean : Int, of : [EaQuestions -> {0, 100}]]

EvaluationTypes ==
  /\ eaMessage \in [EaMessages -> MessageType]
  /\ eaTask \in [EaTasks -> TaskType]
  /\ eaRows \subseteq RowType
  /\ eaSet \subseteq EaQuestions /\ IsFiniteSet(eaSet)
  /\ eaRun \in [EaRuns -> RunType]

RowsAreVerdicts ==
  \A m \in EaMessages : IsVerdict(m, RowsOf(m)) /\ (~eaMessage[m].stored => RowsOf(m) = {})

\* What a call holds between its steps.  The rows that it has deleted were a verdict; the rows
\* it has stored stay, or are replaced, as long as the message does.
CallFits(task) ==
  /\ task.pc \in {"judging", "delete", "insert"} => task.base \in EaBases
  /\ task.pc = "insert" => IsVerdict(task.message, task.saw)
  /\ task.pc = "show" => (eaMessage[task.message].stored => RowsOf(task.message) # {})
  /\ task.pc = "shown" => /\ IsVerdict(task.message, task.shown)
                          /\ task.shown = {} => ~eaMessage[task.message].stored
CallsFit == \A t \in EaTasks : CallFits(eaTask[t])

RunFits(run) ==
  /\ run.pc \in {"running", "unjudged"} =>
       /\ IsFiniteSet(run.questions) /\ run.questions # {} /\ run.count = Cardinality(run.questions)
       /\ run.failed = {}
  /\ run.pc = "stored" =>
       LET good == run.questions \ run.failed IN
       /\ run.status = "completed" <=> Cardinality(good) = run.count
       /\ run.status = "error" <=> good = {}
       /\ good # {} => \E p, q \in good : run.of[p] <= run.mean /\ run.mean <= run.of[q]
RunsFit == \A r \in EaRuns : RunFits(eaRun[r])

EvaluationInv == EvaluationTypes /\ RowsAreVerdicts /\ CallsFit /\ RunsFit
\* The call that rests asks for nothing.
LEMMA RestIsACall == RestTask \in TaskType /\ RestTask.pc = "idle" /\ CallFits(RestTask)
<1>1. (CHOOSE m \in EaMessages : TRUE) \in EaMessages
  BY EvaluationAssumption
<1>2. NoScores \in Percents
  BY DEF NoScores, Neutral, Percents
<1>3. RestTask \in TaskType
  BY <1>1, <1>2 DEF RestTask, TaskType
<1>4. RestTask.pc = "idle"
  BY DEF RestTask
<1>5. CallFits(RestTask)
  BY <1>4 DEF CallFits
<1> QED
  BY <1>3, <1>4, <1>5

\* EvaluationInv holds at the start.
LEMMA EvaluationStarts == EvaluationInit => EvaluationInv
<1> SUFFICES ASSUME EvaluationInit PROVE EvaluationInv
  OBVIOUS
<1>1. EvaluationTypes
  <2>1. eaMessage \in [EaMessages -> MessageType]
    BY DEF EvaluationInit, MessageType
  <2>2. eaTask \in [EaTasks -> TaskType]
    BY RestIsACall DEF EvaluationInit
  <2>3. NoRun_ \in RunType
    BY DEF NoRun_, RunType
  <2>4. eaRun \in [EaRuns -> RunType]
    BY <2>3 DEF EvaluationInit
  <2>5. eaRows = {} /\ eaSet = {} /\ IsFiniteSet(eaSet)
    BY FS_EmptySet DEF EvaluationInit
  <2> QED
    BY <2>1, <2>2, <2>4, <2>5 DEF EvaluationTypes
<1>2. RowsAreVerdicts
  BY DEF EvaluationInit, RowsAreVerdicts, RowsOf, IsVerdict
<1>3. CallsFit
  BY RestIsACall DEF EvaluationInit, CallsFit
<1>4. RunsFit
  BY DEF EvaluationInit, RunsFit, RunFits, NoRun_
<1> QED
  BY <1>1, <1>2, <1>3, <1>4 DEF EvaluationInv

-----------------------------------------------------------------------------
(***************************************************************************)
(* The steps.                                                              *)
(***************************************************************************)

\* A step of a call that leaves the rows and the messages alone.
LEMMA CallSteps ==
  ASSUME EvaluationInv, NEW t \in EaTasks, NEW task \in TaskType, CallFits(task), Step(t, task),
         UNCHANGED <<eaMessage, eaRows, eaSet, eaRun>>
  PROVE  EvaluationInv'
<1> USE DEF EvaluationInv
<1>1. eaTask' \in [EaTasks -> TaskType] /\ eaTask'[t] = task /\ \A u \in EaTasks : u # t => eaTask'[u] = eaTask[u]
  BY DEF EvaluationTypes, Step
<1>2. EvaluationTypes'
  BY <1>1 DEF EvaluationTypes
<1>3. \A m : RowsOf(m)' = RowsOf(m)
  BY DEF RowsOf
<1>4. RowsAreVerdicts'
  BY <1>3 DEF RowsAreVerdicts
<1>5. ASSUME NEW k, CallFits(k) PROVE CallFits(k)'
  BY <1>3, <1>5 DEF CallFits
<1>6. CallsFit'
  <2> SUFFICES ASSUME NEW u \in EaTasks PROVE CallFits(eaTask[u])'
    BY DEF CallsFit
  <2>1. CASE u = t
    <3>1. CallFits(task)'
      BY <1>5
    <3> QED
      BY <1>1, <2>1, <3>1 DEF CallFits
  <2>2. CASE u # t
    <3> DEFINE k == eaTask[u]
    <3>1. CallFits(k) /\ eaTask'[u] = k
      BY <1>1, <2>2 DEF CallsFit
    <3>2. \A m : RowsOf(m)' = RowsOf(m)
      BY <1>3
    <3> QED
      BY <3>1, <3>2 DEF CallFits
  <2> QED
    BY <2>1, <2>2
<1>7. RunsFit'
  BY DEF RunsFit, RunFits
<1> QED
  BY <1>2, <1>4, <1>6, <1>7

\* Reading the message keeps EvaluationInv.
LEMMA ReadKeeps ==
  ASSUME EvaluationInv, NEW t \in EaTasks, NEW m \in EaMessages, ReadMessage(t, m)
  PROVE  EvaluationInv'
<1>1. PICK b \in eaMessage[m].chunks, forced \in BOOLEAN :
        Step(t, [RestTask EXCEPT !.pc = "judging", !.message = m, !.base = b, !.forced = forced])
  BY DEF ReadMessage
<1> DEFINE task == [RestTask EXCEPT !.pc = "judging", !.message = m, !.base = b, !.forced = forced]
<1>2. b \in EaBases
  BY DEF EvaluationInv, EvaluationTypes, MessageType
<1>3. task \in TaskType /\ task.pc = "judging" /\ task.base = b
  BY <1>2, RestIsACall DEF TaskType
<1>4. CallFits(task)
  BY <1>2, <1>3 DEF CallFits
<1>5. UNCHANGED <<eaMessage, eaRows, eaSet, eaRun>>
  BY DEF ReadMessage
<1> HIDE DEF task
<1>6. Step(t, task)
  BY <1>1 DEF task
<1> QED
  BY <1>3, <1>4, <1>5, <1>6, CallSteps

\* Asking the judges keeps EvaluationInv.
LEMMA JudgesKeep ==
  ASSUME EvaluationInv, NEW t \in EaTasks, RunAllJudges(t)
  PROVE  EvaluationInv'
<1>1. PICK s \in JudgeResults : Step(t, [eaTask[t] EXCEPT !.pc = "delete", !.scores = s])
  BY DEF RunAllJudges
<1> DEFINE task == [eaTask[t] EXCEPT !.pc = "delete", !.scores = s]
<1>2. eaTask[t] \in TaskType /\ eaTask[t].base \in EaBases
  BY DEF EvaluationInv, EvaluationTypes, CallsFit, CallFits, RunAllJudges
<1>3. s \in Percents
  BY JudgesArePercent DEF Percents
<1>4. task \in TaskType /\ task.pc = "delete" /\ task.base \in EaBases
  BY <1>2, <1>3 DEF TaskType
<1>5. CallFits(task)
  BY <1>4 DEF CallFits
<1>6. UNCHANGED <<eaMessage, eaRows, eaSet, eaRun>>
  BY DEF RunAllJudges
<1> HIDE DEF task
<1>7. Step(t, task)
  BY <1>1 DEF task
<1> QED
  BY <1>4, <1>5, <1>6, <1>7, CallSteps

\* The DELETE of a call keeps EvaluationInv: what it saw was a verdict.
LEMMA DeleteKeeps ==
  ASSUME EvaluationInv, NEW t \in EaTasks, DeleteRows(t)
  PROVE  EvaluationInv'
<1> DEFINE task == [eaTask[t] EXCEPT !.pc = "insert", !.saw = RowsOf(eaTask[t].message)]
<1>1. eaTask[t] \in TaskType /\ eaTask[t].base \in EaBases
  BY DEF EvaluationInv, EvaluationTypes, CallsFit, CallFits, DeleteRows
<1>2. eaTask[t].message \in EaMessages
  BY <1>1 DEF TaskType
<1>3. RowsOf(eaTask[t].message) \subseteq RowType /\ IsVerdict(eaTask[t].message, RowsOf(eaTask[t].message))
  BY <1>2 DEF EvaluationInv, EvaluationTypes, RowsAreVerdicts, RowsOf
<1>4. /\ task \in TaskType /\ task.pc = "insert" /\ task.base \in EaBases
      /\ task.message = eaTask[t].message /\ task.saw = RowsOf(eaTask[t].message)
  BY <1>1, <1>3 DEF TaskType
<1>5. UNCHANGED <<eaMessage, eaRows, eaSet, eaRun>> /\ Step(t, task)
  BY DEF DeleteRows
<1> HIDE DEF task
<1>6. CallFits(task)
  BY <1>3, <1>4 DEF CallFits
<1> QED
  BY <1>4, <1>5, <1>6, CallSteps

\* An insert that is refused keeps EvaluationInv.
LEMMA RefusalKeeps ==
  ASSUME EvaluationInv, NEW t \in EaTasks, StoreRefused(t)
  PROVE  EvaluationInv'
<1>1. UNCHANGED <<eaMessage, eaRows, eaSet, eaRun>> /\ Step(t, RestTask)
  BY DEF StoreRefused
<1> QED
  BY <1>1, RestIsACall, CallSteps

\* Reading the rows for the route keeps EvaluationInv.
LEMMA ShowKeeps ==
  ASSUME EvaluationInv, NEW t \in EaTasks, ShowRows(t)
  PROVE  EvaluationInv'
<1> DEFINE task == [eaTask[t] EXCEPT !.pc = "shown", !.shown = RowsOf(eaTask[t].message)]
<1>1. eaTask[t] \in TaskType /\ (eaMessage[eaTask[t].message].stored => RowsOf(eaTask[t].message) # {})
  BY DEF EvaluationInv, EvaluationTypes, CallsFit, CallFits, ShowRows
<1>2. eaTask[t].message \in EaMessages
  BY <1>1 DEF TaskType
<1>3. RowsOf(eaTask[t].message) \subseteq RowType /\ IsVerdict(eaTask[t].message, RowsOf(eaTask[t].message))
  BY <1>2 DEF EvaluationInv, EvaluationTypes, RowsAreVerdicts, RowsOf
<1>4. /\ task \in TaskType /\ task.pc = "shown"
      /\ task.message = eaTask[t].message /\ task.shown = RowsOf(eaTask[t].message)
  BY <1>1, <1>3 DEF TaskType
<1>5. UNCHANGED <<eaMessage, eaRows, eaSet, eaRun>> /\ Step(t, task)
  BY DEF ShowRows
<1> HIDE DEF task
<1>6. CallFits(task)
  BY <1>1, <1>3, <1>4 DEF CallFits
<1> QED
  BY <1>4, <1>5, <1>6, CallSteps
\* A call stores its verdict in place of the rows of its message.
LEMMA StoreKeeps ==
  ASSUME EvaluationInv, NEW t \in EaTasks, StoreRows(t)
  PROVE  EvaluationInv'
<1> USE DEF EvaluationInv
<1> PICK m : m = eaTask[t].message
  OBVIOUS
<1> DEFINE task == IF eaTask[t].forced THEN [eaTask[t] EXCEPT !.pc = "show", !.saw = {}] ELSE RestTask
<1>1. /\ eaTask[t] \in TaskType /\ eaTask[t].base \in EaBases /\ IsVerdict(m, eaTask[t].saw)
      /\ eaMessage[m].stored /\ RowsOf(m) \subseteq eaTask[t].saw
  BY DEF EvaluationTypes, CallsFit, CallFits, StoreRows, Insertable
<1>2. m \in EaMessages /\ eaTask[t].scores \in Percents /\ {} \in SUBSET RowType
  BY <1>1 DEF TaskType
<1>3. NewRows_(t) = Verdict(m, t, eaTask[t].base, eaTask[t].scores)
  BY DEF NewRows_, Verdict
<1>4. /\ NewRows_(t) \subseteq RowType /\ NewRows_(t) # {} /\ IsVerdict(m, NewRows_(t))
      /\ \A r \in NewRows_(t) : r.message = m
  BY <1>1, <1>2, <1>3, VerdictRows DEF IsVerdict
<1>5. \A r \in eaTask[t].saw : r.message = m
  BY <1>1, <1>2, VerdictRows DEF IsVerdict
<1>6. eaRows' = (eaRows \ eaTask[t].saw) \cup NewRows_(t) /\ UNCHANGED <<eaMessage, eaSet, eaRun>>
  BY DEF StoreRows
<1>7. eaTask' = [eaTask EXCEPT ![t] = task]
  BY DEF StoreRows, Step
<1>8. task \in TaskType /\ task.pc \in {"show", "idle"} /\ (task.pc = "show" => task.message = m)
  BY <1>1, <1>2, RestIsACall DEF TaskType
<1>9. RowsOf(m)' = NewRows_(t)
  BY <1>1, <1>4, <1>6 DEF RowsOf
<1>10. \A k : k # m => RowsOf(k)' = RowsOf(k)
  BY <1>4, <1>5, <1>6 DEF RowsOf
<1> HIDE DEF task
<1>11. EvaluationTypes'
  BY <1>4, <1>6, <1>7, <1>8 DEF EvaluationTypes
<1>12. RowsAreVerdicts'
  <2> SUFFICES ASSUME NEW k \in EaMessages
               PROVE  (IsVerdict(k, RowsOf(k)) /\ (~eaMessage[k].stored => RowsOf(k) = {}))'
    BY DEF RowsAreVerdicts
  <2>1. CASE k = m
    <3>1. RowsOf(k)' = NewRows_(t) /\ IsVerdict(k, NewRows_(t)) /\ eaMessage'[k].stored
      BY <1>1, <1>4, <1>6, <1>9, <2>1
    <3> QED
      BY <3>1 DEF IsVerdict
  <2>2. CASE k # m
    <3>1. RowsOf(k)' = RowsOf(k) /\ IsVerdict(k, RowsOf(k)) /\ (~eaMessage[k].stored => RowsOf(k) = {})
      BY <1>10, <2>2 DEF RowsAreVerdicts
    <3> QED
      BY <1>6, <3>1 DEF IsVerdict
  <2> QED
    BY <2>1, <2>2
<1>13. CallsFit'
  <2> SUFFICES ASSUME NEW u \in EaTasks PROVE CallFits(eaTask[u])'
    BY DEF CallsFit
  <2>1. CASE u = t
    <3>1. eaTask'[u] = task
      BY <1>7, <2>1 DEF EvaluationTypes
    <3>2. task.pc = "show" => RowsOf(m)' # {}
      BY <1>4, <1>9
    <3> QED
      BY <1>8, <3>1, <3>2 DEF CallFits
  <2>2. CASE u # t
    <3>1. eaTask'[u] = eaTask[u] /\ CallFits(eaTask[u])
      BY <1>7, <2>2 DEF EvaluationTypes, CallsFit
    <3> PICK k : k = eaTask[u].message
      OBVIOUS
    <3>2. RowsOf(k) # {} => RowsOf(k)' # {}
      BY <1>4, <1>9, <1>10
    <3>3. RowsOf(eaTask[u].message) = RowsOf(k) /\ RowsOf(eaTask[u].message)' = RowsOf(k)'
      BY <3>1
    <3> QED
      BY <1>6, <3>1, <3>2, <3>3 DEF CallFits
  <2> QED
    BY <2>1, <2>2
<1>14. RunsFit'
  BY <1>6 DEF RunsFit, RunFits
<1> QED
  BY <1>11, <1>12, <1>13, <1>14

\* Deleting a message keeps EvaluationInv: its rows go with it.
LEMMA DeletedMessageKeeps ==
  ASSUME EvaluationInv, NEW m \in EaMessages, DeleteMessage(m)
  PROVE  EvaluationInv'
<1> USE DEF EvaluationInv
<1>1. /\ eaMessage' = [eaMessage EXCEPT ![m].stored = FALSE] /\ eaRows' = eaRows \ RowsOf(m)
      /\ UNCHANGED <<eaTask, eaSet, eaRun>>
  BY DEF DeleteMessage
<1>2. RowsOf(m)' = {} /\ \A k : k # m => RowsOf(k)' = RowsOf(k)
  BY <1>1 DEF RowsOf
<1>3. /\ eaMessage' \in [EaMessages -> MessageType] /\ ~eaMessage'[m].stored
      /\ \A k \in EaMessages : k # m => eaMessage'[k] = eaMessage[k]
  BY <1>1 DEF EvaluationTypes, MessageType
<1>4. EvaluationTypes'
  BY <1>1, <1>3 DEF EvaluationTypes
<1>5. RowsAreVerdicts'
  <2> SUFFICES ASSUME NEW k \in EaMessages
               PROVE  (IsVerdict(k, RowsOf(k)) /\ (~eaMessage[k].stored => RowsOf(k) = {}))'
    BY DEF RowsAreVerdicts
  <2>1. CASE k = m
    BY <1>2, <2>1 DEF IsVerdict
  <2>2. CASE k # m
    <3>1. RowsOf(k)' = RowsOf(k) /\ IsVerdict(k, RowsOf(k)) /\ (~eaMessage[k].stored => RowsOf(k) = {})
      BY <1>2, <2>2 DEF RowsAreVerdicts
    <3> QED
      BY <1>3, <2>2, <3>1 DEF IsVerdict
  <2> QED
    BY <2>1, <2>2
<1>6. CallsFit'
  <2> SUFFICES ASSUME NEW u \in EaTasks PROVE CallFits(eaTask[u])'
    BY DEF CallsFit
  <2> PICK k : k = eaTask[u].message
    OBVIOUS
  <2>1. CallFits(eaTask[u]) /\ eaTask'[u] = eaTask[u] /\ k \in EaMessages
    BY <1>1 DEF CallsFit, EvaluationTypes, TaskType
  <2>2. eaMessage'[k].stored => eaMessage[k].stored /\ RowsOf(k)' = RowsOf(k)
    BY <1>2, <1>3, <2>1
  <2>3. RowsOf(eaTask[u].message)' = RowsOf(k)' /\ RowsOf(eaTask[u].message) = RowsOf(k)
    BY <2>1
  <2> QED
    BY <2>1, <2>2, <2>3 DEF CallFits
<1>7. RunsFit'
  BY <1>1 DEF RunsFit, RunFits
<1> QED
  BY <1>4, <1>5, <1>6, <1>7

\* A step that leaves messages, calls and rows alone.
LEMMA RunSteps ==
  ASSUME EvaluationInv, UNCHANGED <<eaMessage, eaTask, eaRows>>,
         eaSet' \subseteq EaQuestions, IsFiniteSet(eaSet'), eaRun' \in [EaRuns -> RunType],
         \A r \in EaRuns : RunFits(eaRun'[r])
  PROVE  EvaluationInv'
<1> USE DEF EvaluationInv
<1>1. EvaluationTypes'
  BY DEF EvaluationTypes
<1>2. \A m : RowsOf(m)' = RowsOf(m)
  BY DEF RowsOf
<1>3. RowsAreVerdicts'
  BY <1>2 DEF RowsAreVerdicts
<1>4. CallsFit'
  <2> SUFFICES ASSUME NEW u \in EaTasks PROVE CallFits(eaTask[u])'
    BY DEF CallsFit
  <2>1. CallFits(eaTask[u]) /\ eaTask'[u] = eaTask[u]
    BY DEF CallsFit
  <2> QED
    BY <1>2, <2>1 DEF CallFits
<1>5. RunsFit'
  BY DEF RunsFit
<1> QED
  BY <1>1, <1>3, <1>4, <1>5

\* Settings, new questions and stuttering keep EvaluationInv.
LEMMA ChangeKeeps ==
  ASSUME EvaluationInv, ChangeJudge \/ (\E q \in EaQuestions : AddQuestion(q)) \/ UNCHANGED evaluationVars
  PROVE  EvaluationInv'
<1> USE DEF EvaluationInv
<1>1. UNCHANGED <<eaMessage, eaTask, eaRows, eaRun>>
  BY DEF ChangeJudge, AddQuestion, evaluationVars
<1>2. eaSet' \subseteq EaQuestions /\ IsFiniteSet(eaSet')
  <2>1. CASE \E q \in EaQuestions : AddQuestion(q)
    BY <2>1, FS_AddElement DEF AddQuestion, EvaluationTypes
  <2>2. CASE ChangeJudge \/ UNCHANGED evaluationVars
    BY <2>2 DEF ChangeJudge, evaluationVars, EvaluationTypes
  <2> QED
    BY <2>1, <2>2
<1>3. eaRun' \in [EaRuns -> RunType] /\ \A r \in EaRuns : RunFits(eaRun'[r])
  BY <1>1 DEF EvaluationTypes, RunsFit
<1> QED
  BY <1>1, <1>2, <1>3, RunSteps

\* A step of one run.
LEMMA OneRunSteps ==
  ASSUME EvaluationInv, UNCHANGED <<eaMessage, eaTask, eaRows, eaSet>>,
         NEW r \in EaRuns, NEW run \in RunType, RunFits(run), eaRun' = [eaRun EXCEPT ![r] = run]
  PROVE  EvaluationInv'
<1>1. eaRun' \in [EaRuns -> RunType] /\ \A q \in EaRuns : RunFits(eaRun'[q])
  BY DEF EvaluationInv, EvaluationTypes, RunsFit
<1>2. eaSet' \subseteq EaQuestions /\ IsFiniteSet(eaSet')
  BY DEF EvaluationInv, EvaluationTypes
<1> QED
  BY <1>1, <1>2, RunSteps

\* The start of a golden run keeps EvaluationInv.
LEMMA StartKeeps ==
  ASSUME EvaluationInv, NEW r \in EaRuns, StartDatasetRun(r)
  PROVE  EvaluationInv'
<1> DEFINE run == [NoRun_ EXCEPT !.pc = IF eaJudge THEN "running" ELSE "unjudged",
                                 !.questions = eaSet, !.count = Cardinality(eaSet)]
<1>1. eaSet \subseteq EaQuestions /\ IsFiniteSet(eaSet) /\ eaSet # {} /\ Cardinality(eaSet) \in Nat
  BY FS_CardinalityType DEF EvaluationInv, EvaluationTypes, StartDatasetRun, Runnable
<1> DEFINE c == Cardinality(eaSet)
<1>2. /\ run \in RunType /\ run.pc \in {"running", "unjudged"} /\ run.questions = eaSet
      /\ run.count = c /\ run.failed = {}
  <2>1. c \in Nat
    BY <1>1
  <2> HIDE DEF c
  <2>2. NoRun_ \in RunType
    BY DEF NoRun_, RunType
  <2>3. NoRun_.failed = {}
    BY DEF NoRun_
  <2>4. run = [NoRun_ EXCEPT !.pc = IF eaJudge THEN "running" ELSE "unjudged", !.questions = eaSet, !.count = c]
    BY DEF c
  <2> HIDE DEF run
  <2> QED
    BY <1>1, <2>1, <2>2, <2>3, <2>4 DEF RunType
<1>3. eaRun' = [eaRun EXCEPT ![r] = run] /\ UNCHANGED <<eaMessage, eaTask, eaRows, eaSet>>
  BY DEF StartDatasetRun
<1> HIDE DEF run
<1>4. RunFits(run)
  BY <1>1, <1>2 DEF RunFits
<1> QED
  BY <1>2, <1>3, <1>4, OneRunSteps

\* A golden run without a judge keeps EvaluationInv.
LEMMA UnjudgedKeeps ==
  ASSUME EvaluationInv, NEW r \in EaRuns, CommitUnjudged(r)
  PROVE  EvaluationInv'
<1> DEFINE run == [eaRun[r] EXCEPT !.pc = "stored", !.status = "error", !.questions = {}]
<1>1. /\ eaRun[r] \in RunType /\ IsFiniteSet(eaRun[r].questions) /\ eaRun[r].questions # {}
      /\ eaRun[r].count = Cardinality(eaRun[r].questions)
  BY DEF EvaluationInv, EvaluationTypes, RunsFit, RunFits, CommitUnjudged
<1>2. /\ run \in RunType /\ run.pc = "stored" /\ run.status = "error" /\ run.questions = {}
      /\ run.count = eaRun[r].count
  BY <1>1 DEF RunType
<1>3. eaRun' = [eaRun EXCEPT ![r] = run] /\ UNCHANGED <<eaMessage, eaTask, eaRows, eaSet>>
  BY DEF CommitUnjudged
<1> HIDE DEF run
<1>4. run.count # 0 /\ Cardinality({}) = 0
  BY <1>1, <1>2, FS_EmptySet
<1>5. RunFits(run)
  BY <1>2, <1>4 DEF RunFits
<1> QED
  BY <1>2, <1>3, <1>5, OneRunSteps

\* The commit of a golden run keeps EvaluationInv.
LEMMA CommitKeeps ==
  ASSUME EvaluationInv, NEW r \in EaRuns, CommitDatasetRun(r)
  PROVE  EvaluationInv'
<1> DEFINE Q == eaRun[r].questions
<1>1. PICK o \in QuestionOutcomes(Q) :
        eaRun' = [eaRun EXCEPT ![r] =
            [@ EXCEPT !.pc = "stored", !.failed = o.failed, !.of = o.of,
                      !.status = RunStatus(Cardinality(o.failed), eaRun[r].count),
                      !.mean = Mean(o.of, Q \ o.failed)]]
  BY DEF CommitDatasetRun
<1> DEFINE F == o.failed
           run == [eaRun[r] EXCEPT !.pc = "stored", !.failed = F, !.of = o.of,
                                   !.status = RunStatus(Cardinality(F), eaRun[r].count),
                                   !.mean = Mean(o.of, Q \ F)]
<1>2. eaRun[r] \in RunType /\ IsFiniteSet(Q) /\ Q # {} /\ eaRun[r].count = Cardinality(Q)
  BY DEF EvaluationInv, EvaluationTypes, RunsFit, RunFits, CommitDatasetRun
<1>3. F \subseteq Q /\ o.of \in [EaQuestions -> {0, 100}] /\ Q \subseteq EaQuestions
  BY <1>2 DEF QuestionOutcomes, RunType
<1>4. /\ IsFiniteSet(F) /\ IsFiniteSet(Q \ F) /\ Cardinality(F) \in Nat /\ Cardinality(Q) \in Nat
      /\ Cardinality(Q \ F) \in Nat /\ Cardinality(Q \ F) = Cardinality(Q) - Cardinality(F)
  <2>1. IsFiniteSet(F) /\ IsFiniteSet(Q \ F)
    BY <1>2, <1>3, FS_Subset
  <2>2. Cardinality(Q \ F) = Cardinality(Q) - Cardinality(Q \cap F)
    BY <1>2, FS_Difference
  <2>3. Q \cap F = F
    BY <1>3
  <2> QED
    BY <1>2, <2>1, <2>2, <2>3, FS_CardinalityType
<1>5. /\ Q \ F # {} => Mean(o.of, Q \ F) \in 0..100
      /\ Q \ F # {} => \E p, q \in Q \ F : o.of[p] <= Mean(o.of, Q \ F) /\ Mean(o.of, Q \ F) <= o.of[q]
      /\ Q \ F = {} => Mean(o.of, Q \ F) = -1
  <2>1. CASE Q \ F # {}
    <3>1. \A q \in Q \ F : o.of[q] \in {0, 100}
      BY <1>3
    <3> DEFINE G == Q \ F
               of == o.of
    <3>2. IsFiniteSet(G) /\ G # {} /\ \A q \in G : of[q] \in {0, 100}
      BY <1>4, <2>1, <3>1
    <3> HIDE DEF G, of
    <3>3. Mean(of, G) \in 0..100 /\ \E p, q \in G : of[p] <= Mean(of, G) /\ Mean(of, G) <= of[q]
      BY <3>2, MeanBetweenScores
    <3> QED
      BY <2>1, <3>3 DEF G, of
  <2>2. CASE Q \ F = {}
    <3> DEFINE s == SetToSeq({})
    <3>1. IsFiniteSet({}) /\ Cardinality({}) = 0
      BY FS_EmptySet
    <3>2. s \in [1..0 -> {}]
      BY <3>1, SequenceOf
    <3>3. s = <<>>
      BY <3>2
    <3>4. Mean(o.of, {}) = -1
      BY <3>3 DEF Mean
    <3> QED
      BY <2>2, <3>4
  <2> QED
    BY <2>1, <2>2
<1>6. Mean(o.of, Q \ F) \in Int
  BY <1>5
<1>7. RunStatus(Cardinality(F), eaRun[r].count) \in {"completed", "partial", "error"}
  BY DEF RunStatus
<1>8. /\ run \in RunType /\ run.pc = "stored" /\ run.questions = Q /\ run.failed = F /\ run.of = o.of
      /\ run.count = Cardinality(Q) /\ run.mean = Mean(o.of, Q \ F)
      /\ run.status = RunStatus(Cardinality(F), Cardinality(Q))
  BY <1>2, <1>3, <1>6, <1>7 DEF RunType
<1>9. eaRun' = [eaRun EXCEPT ![r] = run] /\ UNCHANGED <<eaMessage, eaTask, eaRows, eaSet>>
  BY <1>1 DEF CommitDatasetRun
<1> HIDE DEF run
<1>10. Cardinality(Q \ F) = 0 <=> Q \ F = {}
  BY <1>4, FS_EmptySet
<1>11. run.status = "completed" <=> Cardinality(Q \ F) = run.count
  BY <1>4, <1>8 DEF RunStatus
<1>12. run.status = "error" <=> Q \ F = {}
  <2>1. Cardinality(F) = 0 => Q \ F # {}
    BY <1>2, <1>4, FS_EmptySet
  <2>2. ~(Cardinality(F) < Cardinality(Q)) <=> Cardinality(Q \ F) = 0
    BY <1>4
  <2> QED
    BY <1>8, <1>10, <2>1, <2>2 DEF RunStatus
<1>13. RunFits(run)
  BY <1>5, <1>8, <1>11, <1>12 DEF RunFits
<1> QED
  BY <1>8, <1>9, <1>13, OneRunSteps

-----------------------------------------------------------------------------
\* However evaluations of a message overlap with each other and with its deletion
\* (_run_evaluate_message, evaluate_message_now), its rows and what the route shows are those
\* of one of them, every metric of a base has the same sample, and a golden run
\* (run_dataset) counts what it ran and gives a mean that lies within its scores.
THEOREM VerdictsStayWhole == EvaluationSpec => []EvaluationsSound
<1>1. EvaluationInit => EvaluationInv
  BY EvaluationStarts
<1>2. EvaluationInv /\ [EvaluationNext]_evaluationVars => EvaluationInv'
  <2> SUFFICES ASSUME EvaluationInv, [EvaluationNext]_evaluationVars PROVE EvaluationInv'
    OBVIOUS
  <2>1. CASE \E t \in EaTasks, m \in EaMessages : ReadMessage(t, m)
    BY <2>1, ReadKeeps
  <2>2. CASE \E t \in EaTasks : RunAllJudges(t)
    BY <2>2, JudgesKeep
  <2>3. CASE \E t \in EaTasks : DeleteRows(t)
    BY <2>3, DeleteKeeps
  <2>4. CASE \E t \in EaTasks : StoreRows(t)
    BY <2>4, StoreKeeps
  <2>5. CASE \E t \in EaTasks : StoreRefused(t)
    BY <2>5, RefusalKeeps
  <2>6. CASE \E t \in EaTasks : ShowRows(t)
    BY <2>6, ShowKeeps
  <2>7. CASE \E m \in EaMessages : DeleteMessage(m)
    BY <2>7, DeletedMessageKeeps
  <2>8. CASE ChangeJudge \/ (\E q \in EaQuestions : AddQuestion(q)) \/ UNCHANGED evaluationVars
    BY <2>8, ChangeKeeps
  <2>9. CASE \E r \in EaRuns : StartDatasetRun(r)
    BY <2>9, StartKeeps
  <2>10. CASE \E r \in EaRuns : CommitDatasetRun(r)
    BY <2>10, CommitKeeps
  <2>11. CASE \E r \in EaRuns : CommitUnjudged(r)
    BY <2>11, UnjudgedKeeps
  <2> QED
    BY <2>1, <2>2, <2>3, <2>4, <2>5, <2>6, <2>7, <2>8, <2>9, <2>10, <2>11 DEF EvaluationNext
<1>3. EvaluationInv => EvaluationsSound
  <2> SUFFICES ASSUME EvaluationInv PROVE EvaluationsSound
    OBVIOUS
  <2> USE DEF EvaluationInv
  <2>1. \A m \in EaMessages : OneVerdict(RowsOf(m))
    BY VerdictIsOne DEF RowsAreVerdicts
  <2>2. ASSUME NEW t \in EaTasks, eaTask[t].pc = "shown"
        PROVE  OneVerdict(eaTask[t].shown) /\ (eaTask[t].shown = {} => ~eaMessage[eaTask[t].message].stored)
    <3>1. eaTask[t].message \in EaMessages
      BY DEF EvaluationTypes, TaskType
    <3> QED
      BY <2>2, <3>1, VerdictIsOne DEF CallsFit, CallFits
  <2>3. ASSUME NEW b \in EaBases, NEW x \in EaMetrics
        PROVE  /\ IsFiniteSet({r \in eaRows : r.base = b /\ r.metric = x})
               /\ SampleSize(b, x) = Cardinality({m \in EaMessages : \E r \in RowsOf(m) : r.base = b})
    BY SamplesAgree DEF EvaluationTypes, RowsAreVerdicts, SampleSize
  <2>4. \A b \in EaBases, x, y \in EaMetrics : SampleSize(b, x) = SampleSize(b, y)
    BY <2>3
  <2>5. \A b \in EaBases, x \in EaMetrics : SampleSize(b, x) > 0 => Average(b, x) \in 0..100
    BY <2>3, AverageIsPercent DEF EvaluationTypes
  <2>6. ASSUME NEW r \in EaRuns, eaRun[r].pc = "stored"
        PROVE  LET good == eaRun[r].questions \ eaRun[r].failed IN
               /\ eaRun[r].status = "completed" <=> Cardinality(good) = eaRun[r].count
               /\ eaRun[r].status = "error" <=> good = {}
               /\ good # {} => \E p, q \in good : eaRun[r].of[p] <= eaRun[r].mean /\ eaRun[r].mean <= eaRun[r].of[q]
    BY <2>6 DEF RunsFit, RunFits
  <2> QED
    BY <2>1, <2>2, <2>4, <2>5, <2>6 DEF EvaluationsSound
<1> QED
  BY <1>1, <1>2, <1>3, PTL DEF EvaluationSpec

-----------------------------------------------------------------------------
(****************************************************************************
 Health: every score of a base is a percentage, and none is reported twice.
 ****************************************************************************)

-----------------------------------------------------------------------------
(***************************************************************************)
(* Every score is a percentage.                                            *)
(***************************************************************************)

StatRows ==
  {s \in [total : Nat, quality : -1..100, hit : Nat, units : Nat, stale : Nat, asked : Nat, found : Nat,
          answers : -1..100] : s.found <= s.asked}

\* A part is a percentage of what it is a part of.
LEMMA PartIsPercent ==
  ASSUME NEW n \in Int, NEW of \in Nat \ {0}, NEW lo \in {-1, 0}, lo * of <= n, n <= of
  PROVE  Percent(n, of) \in (100 * lo)..100
<1> DEFINE a == 100 * n
           l == 100 * lo
<1>1. a \in Int /\ l \in Int /\ l * of <= a /\ a <= 100 * of
  OBVIOUS
<1> HIDE DEF a, l
<1>2. a \div of \in l..100
  BY <1>1, QuotientWithin
<1> QED
  BY <1>2 DEF Percent, a, l

\* A clamped score is a percentage.
LEMMA ClampedPercent ==
  \A v \in Int : Unit100(v) \in 0..100
BY DEF Unit100

\* A hundredth of what is at most ten thousand.
LEMMA HundredthIsPercent ==
  \A m \in Nat : m <= 10000 => m \div 100 \in Nat /\ m \div 100 <= 100
<1> SUFFICES ASSUME NEW m \in Nat, m <= 10000 PROVE m \div 100 \in Nat /\ m \div 100 <= 100
  OBVIOUS
<1> DEFINE n == 100
           lo == 0
           hi == 100
<1>1. m \in Int /\ n \in Nat \ {0} /\ lo \in Int /\ hi \in Int /\ lo * n <= m /\ m <= hi * n
  OBVIOUS
<1> HIDE DEF n, lo, hi
<1>2. m \div n \in lo..hi
  BY <1>1, QuotientWithin
<1> QED
  BY <1>2 DEF n, lo, hi

\* A quotient is a number, whatever is divided.
LEMMA PercentIsInt ==
  ASSUME NEW n \in Int, NEW of \in Nat \ {0}
  PROVE  Percent(n, of) \in Int
BY DEF Percent

\* The five scores of a base and their mean are percentages; a base with nothing in it has none.
LEMMA ScoresArePercent ==
  ASSUME NEW s \in StatRows
  PROVE  /\ ChunkQuality(s) \in 0..100 /\ CoverageScore(s) \in 0..100 /\ Freshness(s) \in 0..100
         /\ Availability(s) \in 0..100 /\ AnswerQuality(s) \in 0..100 /\ Health(s) \in 0..100
         /\ s.total = 0 /\ s.units = 0 => Health(s) = 0
<1> DEFINE total == s.total
           units == s.units
           asked == s.asked
           found == s.found
<1>1. /\ total \in Nat /\ s.quality \in Int /\ s.hit \in Nat /\ units \in Nat /\ s.stale \in Nat
      /\ asked \in Nat /\ found \in Nat /\ found <= asked /\ s.answers \in Int
  BY DEF StatRows
<1> HIDE DEF total, units, asked, found
<1>2. ChunkQuality(s) \in 0..100 /\ (total = 0 => ChunkQuality(s) = 0)
  <2>1. Unit100(s.quality) \in 0..100
    BY <1>1, ClampedPercent
  <2> QED
    BY <2>1 DEF ChunkQuality, total
<1>3. CoverageScore(s) \in 0..100 /\ (total = 0 => CoverageScore(s) = 0)
  <2>1. total # 0 => Percent(s.hit, total) \in Int
    BY <1>1, PercentIsInt
  <2>2. total # 0 => Unit100(Percent(s.hit, total)) \in 0..100
    BY <2>1, ClampedPercent
  <2> QED
    BY <2>2 DEF CoverageScore, total
<1>4. Freshness(s) \in 0..100 /\ (units = 0 => Freshness(s) = 0)
  <2>1. units # 0 => Percent(s.stale, units) \in Int
    BY <1>1, PercentIsInt
  <2>2. units # 0 => 100 - Percent(s.stale, units) \in Int
    BY <2>1
  <2>3. units # 0 => Unit100(100 - Percent(s.stale, units)) \in 0..100
    BY <2>2, ClampedPercent
  <2> QED
    BY <2>3 DEF Freshness, units
<1>5. Availability(s) \in 0..100 /\ (total = 0 /\ units = 0 => Availability(s) = 0)
  <2>1. CASE asked = 0
    BY <2>1 DEF Availability, total, units, asked
  <2>2. CASE asked # 0
    <3>1. Percent(found, asked) \in (100 * 0)..100
      <4>1. found \in Int /\ asked \in Nat \ {0} /\ 0 \in {-1, 0} /\ 0 * asked <= found /\ found <= asked
        BY <1>1, <2>2
      <4> QED
        BY <4>1, PartIsPercent
    <3> QED
      BY <3>1 DEF Availability, total, units, asked, found
  <2> QED
    BY <2>1, <2>2
<1>6. AnswerQuality(s) \in 0..100 /\ (total = 0 /\ units = 0 => AnswerQuality(s) = 0)
  <2>1. Unit100(s.answers) \in 0..100
    BY <1>1, ClampedPercent
  <2> QED
    BY <2>1 DEF AnswerQuality, total, units
<1>7. Health(s) \in 0..100 /\ (total = 0 /\ units = 0 => Health(s) = 0)
  <2> HIDE DEF ChunkQuality
  <2>1. \A a, b, c, d, e \in 0..100 : (a + b + c + d + e) \div 5 \in 0..100
    <3> TAKE a, b, c, d, e \in 0..100
    <3>1. a + b + c + d + e \in 0..500
      OBVIOUS
    <3>2. \A n \in 0..500 : n \div 5 \in 0..100
      OBVIOUS
    <3> QED
      BY <3>1, <3>2
  <2>2. Health(s) \in 0..100
    <3> DEFINE a == ChunkQuality(s)
               b == CoverageScore(s)
               c == Freshness(s)
               d == Availability(s)
               e == AnswerQuality(s)
    <3>1. a \in 0..100 /\ b \in 0..100 /\ c \in 0..100 /\ d \in 0..100 /\ e \in 0..100
      BY <1>2, <1>3, <1>4, <1>5, <1>6
    <3> HIDE DEF a, b, c, d, e
    <3>2. (a + b + c + d + e) \div 5 \in 0..100
      BY <2>1, <3>1
    <3> QED
      BY <3>2 DEF Health, a, b, c, d, e
  <2>3. total = 0 /\ units = 0 => Health(s) = 0
    <3>1. (0 + 0 + 0 + 0 + 0) \div 5 = 0
      OBVIOUS
    <3> QED
      BY <1>2, <1>3, <1>4, <1>5, <1>6, <3>1 DEF Health
  <2> QED
    BY <2>2, <2>3
<1> QED
  BY <1>2, <1>3, <1>4, <1>5, <1>6, <1>7 DEF total, units

\* compute_dynamic: whatever the counts of a chunk are, its use makes a percentage.
LEMMA DynamicIsPercent ==
  ASSUME NEW hit \in Nat, NEW adopted \in Nat, NEW pos \in Nat, NEW neg \in Nat
  PROVE  Dynamic(hit, adopted, pos, neg) \in 0..100
<1>1. CASE hit = 0
  BY <1>1 DEF Dynamic
<1>2. CASE hit # 0
  <2> DEFINE adoption == Unit100(Percent(adopted, hit))
             feedback == IF pos + neg = 0 THEN 50 ELSE (Percent(pos - neg, pos + neg) + 100) \div 2
             used == Percent(hit, hit + 5)
  <2>1. adoption \in 0..100
    <3>1. Percent(adopted, hit) \in Int
      BY <1>2, PercentIsInt
    <3> QED
      BY <3>1, ClampedPercent
  <2>2. feedback \in 0..100
    <3>1. CASE pos + neg = 0
      BY <3>1
    <3>2. CASE pos + neg # 0
      <4> DEFINE of == pos + neg
                 n == pos - neg
                 lo == -1
                 p == Percent(n, of)
      <4>1. n \in Int /\ of \in Nat \ {0} /\ lo \in {-1, 0} /\ lo * of <= n /\ n <= of /\ 100 * lo = -100
        BY <3>2
      <4>2. p \in (100 * lo)..100
        <5> HIDE DEF n, of, lo
        <5> QED
          BY <4>1, PartIsPercent
      <4>4. p \in -100..100
        BY <4>1, <4>2
      <4> HIDE DEF p
      <4>3. (p + 100) \div 2 \in 0..100
        BY <4>4
      <4> QED
        BY <3>2, <4>3 DEF p
    <3> QED
      BY <3>1, <3>2
  <2>3. used \in 0..100
    <3>1. hit \in Int /\ hit + 5 \in Nat \ {0} /\ 0 \in {-1, 0} /\ 0 * (hit + 5) <= hit /\ hit <= hit + 5
      OBVIOUS
    <3>2. used \in (100 * 0)..100
      BY <3>1, PartIsPercent
    <3> QED
      BY <3>2
  <2> HIDE DEF adoption, feedback, used
  <2> DEFINE m == 50 * adoption + 30 * feedback + 20 * used
  <2>4. m \in 0..10000
    BY <2>1, <2>2, <2>3
  <2> HIDE DEF m
  <2>5. m \div 100 \in 0..100
    <3>1. m \in Nat /\ m <= 10000
      BY <2>4
    <3>2. m \div 100 \in Nat /\ m \div 100 <= 100
      BY <3>1, HundredthIsPercent
    <3> QED
      BY <3>2
  <2> QED
    BY <1>2, <2>5 DEF Dynamic, adoption, feedback, used, m
<1> QED
  BY <1>1, <1>2

\* compute_composite: and so do the static and the dynamic score together.
LEMMA CompositeIsPercent ==
  ASSUME NEW static \in 0..100, NEW dynamic \in 0..100, NEW hit \in Nat
  PROVE  Composite(static, dynamic, hit) \in 0..100
<1> DEFINE n == IF hit > 60 THEN 60 ELSE hit
           w == 100 - n
           v == 100 - w
<1>1. w \in 0..100 /\ v \in 0..100 /\ w + v = 100
  OBVIOUS
<1> HIDE DEF n, w, v
<1>2. w * static \in 0..(100 * w) /\ v * dynamic \in 0..(100 * v)
  <2>1. \A a, b \in 0..100 : a * b \in Nat /\ a * b <= 100 * a
    OBVIOUS
  <2> QED
    BY <1>1, <2>1
<1> DEFINE x == w * static
           y == v * dynamic
<1> HIDE DEF x, y
<1> DEFINE m == x + y
<1>3. m \in 0..10000
  BY <1>1, <1>2 DEF x, y
<1> HIDE DEF m
<1>4. m \div 100 \in 0..100
  <2>1. m \in Nat /\ m <= 10000
    BY <1>3
  <2>2. m \div 100 \in Nat /\ m \div 100 <= 100
    BY <2>1, HundredthIsPercent
  <2> QED
    BY <2>2
<1> QED
  BY <1>4 DEF Composite, n, w, v, x, y, m

\* The counts that the runs try are among them.
LEMMA UseKeepsPercent == ScoresBounded
<1>1. \A hit, adopted, pos, neg \in Nat : Dynamic(hit, adopted, pos, neg) \in 0..100
  BY DynamicIsPercent
<1>2. \A static, dynamic \in 0..100, hit \in Nat : Composite(static, dynamic, hit) \in 0..100
  BY CompositeIsPercent
<1>3. {0, 1, 4, 70} \subseteq Nat /\ {0, 1, 5} \subseteq Nat /\ {0, 100} \subseteq 0..100
  OBVIOUS
<1>4. ASSUME NEW hit \in Nat, NEW adopted \in Nat, NEW pos \in Nat, NEW neg \in Nat, NEW static \in 0..100
      PROVE  LET d == Dynamic(hit, adopted, pos, neg) IN
             d \in 0..100 /\ Composite(static, d, hit) \in 0..100
  <2>1. Dynamic(hit, adopted, pos, neg) \in 0..100
    BY <1>1
  <2> QED
    BY <1>2, <2>1, Zenon
<1> QED
  <2> DEFINE H == {0, 1, 4, 70}
             A == {0, 1, 5}
             S == {0, 100}
  <2> HIDE DEF H, A, S
  <2>1. \A hit \in H : \A adopted, pos, neg \in A : \A static \in S :
          LET d == Dynamic(hit, adopted, pos, neg) IN
          d \in 0..100 /\ Composite(static, d, hit) \in 0..100
    <3> TAKE hit \in H
    <3> TAKE adopted, pos, neg \in A
    <3> TAKE static \in S
    <3>1. hit \in Nat /\ adopted \in Nat /\ pos \in Nat /\ neg \in Nat /\ static \in 0..100
      BY <1>3 DEF H, A, S
    <3> QED
      BY <1>4, <3>1
  <2> QED
    BY <2>1, Zenon DEF ScoresBounded, H, A, S

\* The mean of the scores of chunks is a percentage, or there is none.
LEMMA QualityIsPercent ==
  ASSUME NEW C \in SUBSET BhChunks, \A c \in BhChunks : bhChunk[c].quality \in -1..100
  PROVE  QualityOf(C) \in -1..100
<1> DEFINE S == {c \in C : bhChunk[c].quality >= 0}
           s == SetToSeq(S)
           k == Cardinality(S)
           f == [i \in DOMAIN s |-> bhChunk[s[i]].quality]
<1>1. IsFiniteSet(S)
  BY BaseHealthAssumption, FS_Subset
<1>2. k \in Nat /\ s \in [1..k -> S] /\ DOMAIN s = 1..k /\ Len(s) = k /\ (s # <<>> => k # 0)
  <2>1. S = {} => s = <<>>
    <3>1. ASSUME S = {} PROVE s = <<>>
      <4>1. k = 0
        BY <3>1, FS_EmptySet
      <4>2. s \in [1..0 -> S]
        BY <1>1, <4>1, SequenceOf
      <4> HIDE DEF s
      <4> QED
        BY <4>2
    <3> QED
      BY <3>1
  <2> QED
    BY <1>1, <2>1, SequenceOf
<1>3. \A c \in S : bhChunk[c].quality \in 0..100
  OBVIOUS
<1> HIDE DEF s, k, S
<1>4. DOMAIN f = 1..k /\ \A i \in 1..k : f[i] \in 0..100
  BY <1>2, <1>3
<1> HIDE DEF f
<1>5. IsFiniteSet(1..k) /\ Cardinality(1..k) = k
  <2>1. k \in Int /\ 1 \in Int
    BY <1>2
  <2>2. IsFiniteSet(1..k) /\ Cardinality(1..k) = (IF 1 > k THEN 0 ELSE k - 1 + 1)
    BY <2>1, FS_Interval
  <2> QED
    BY <1>2, <2>2
<1>6. Total(f) \in (0 * k)..(100 * k)
  <2>1. IsFiniteSet(DOMAIN f) /\ Cardinality(DOMAIN f) = k /\ 0 \in Int /\ 100 \in Int
    BY <1>4, <1>5
  <2>2. \A i \in DOMAIN f : f[i] \in 0..100
    BY <1>4
  <2>3. LET m == Cardinality(DOMAIN f) IN m \in Nat /\ Total(f) \in (0 * m)..(100 * m)
    BY <2>1, <2>2, TotalWithin, Zenon
  <2> QED
    BY <2>1, <2>3
<1>7. s # <<>> => Total(f) \div k \in 0..100
  <2> DEFINE a == Total(f)
  <2>1. a \in Int /\ 0 * k <= a /\ a <= 100 * k
    BY <1>2, <1>6
  <2> HIDE DEF a
  <2>2. k # 0 => a \div k \in 0..100
    BY <1>2, <2>1, QuotientWithin
  <2> QED
    BY <1>2, <2>2 DEF a
<1>8. QualityOf(C) = IF s = <<>> THEN -1 ELSE Total(f) \div Len(s)
  BY Zenon DEF QualityOf, Total, f, s, S
<1> QED
  BY <1>2, <1>7, <1>8

-----------------------------------------------------------------------------
(***************************************************************************)
(* The inductive invariant.                                                *)
(***************************************************************************)

ChunkRows   == [stored : BOOLEAN, hidden : BOOLEAN, hit : BOOLEAN, quality : -1..100]
AlertKinds  == {"stale_docs", "low_quality_chunks", "cold_chunks", "knowledge_gap", "redundancy"}
Severities  == {"info", "warning", "critical"}
AlertRows   == [kind : AlertKinds, severity : Severities]
ItemRows    == [base : BhBases, score : 0..100]
CountingPcs == {"hits", "stale", "alerts", "store"}
ReadRows    == [pc : {"idle", "next", "done"} \cup CountingPcs,
                todo : SUBSET BhBases, all : SUBSET BhBases, base : BhBases \cup {0}, stats : StatRows,
                alerts : SUBSET AlertRows, items : SUBSET ItemRows, broken : BOOLEAN, publish : BOOLEAN]

HealthTypes ==
  /\ bhChunk \in [BhChunks -> ChunkRows]
  /\ bhRead \in [BhReaders -> ReadRows]
  /\ bhHealth \in [BhBases -> -1..100]

\* A computation has counted a base, counts it now, or has yet to, and never two of these; as
\* long as no statement failed, these are all that it was asked for.
Itemed(r) == {i.base : i \in r.items}
ReadFits(r) ==
  /\ \A i, j \in r.items : i.base = j.base => i = j
  /\ Itemed(r) \cap r.todo = {}
  /\ r.pc \in CountingPcs => r.base \in BhBases \ (r.todo \cup Itemed(r)) /\ ~r.broken
  /\ ~r.broken => r.all = r.todo \cup Itemed(r) \cup (IF r.pc \in CountingPcs THEN {r.base} ELSE {})
  /\ r.pc = "done" => r.todo = {}
HealthInv == HealthTypes /\ \A k \in BhReaders : ReadFits(bhRead[k])

\* Nothing is counted before the first count.
LEMMA NoStatsAreStats == NoStats \in StatRows
BY DEF NoStats, StatRows

\* A computation that rests fits.
LEMMA RestReads == RestRead \in ReadRows /\ ReadFits(RestRead)
BY NoStatsAreStats DEF RestRead, ReadRows, ReadFits, CountingPcs, Itemed

\* HealthInv holds at the start.
LEMMA HealthStarts == BaseHealthInit => HealthInv
<1> SUFFICES ASSUME BaseHealthInit PROVE HealthInv
  OBVIOUS
<1>1. bhChunk \in [BhChunks -> ChunkRows]
  <2>1. \A c \in BhChunks : (30 * c) % 101 \in 0..100
    <3> TAKE c \in BhChunks
    <3>1. c \in Nat
      BY BaseHealthAssumption
    <3>2. 30 * c \in Nat
      BY <3>1
    <3> QED
      BY <3>2
  <2>2. \A c \in BhChunks : (IF c = 1 THEN -1 ELSE (30 * c) % 101) \in -1..100
    <3> TAKE c \in BhChunks
    <3> DEFINE q == (30 * c) % 101
    <3>1. q \in 0..100
      BY <2>1
    <3> HIDE DEF q
    <3>2. (IF c = 1 THEN -1 ELSE q) \in -1..100
      BY <3>1
    <3> QED
      BY <3>2 DEF q
  <2> DEFINE q(c) == IF c = 1 THEN -1 ELSE (30 * c) % 101
  <2>3. bhChunk = [c \in BhChunks |-> [stored |-> TRUE, hidden |-> c = 1, hit |-> c # 3, quality |-> q(c)]]
    BY DEF BaseHealthInit
  <2>4. \A c \in BhChunks : q(c) \in -1..100
    BY <2>2
  <2> HIDE DEF q
  <2> QED
    BY <2>3, <2>4 DEF ChunkRows
<1>2. bhRead \in [BhReaders -> ReadRows] /\ \A k \in BhReaders : ReadFits(bhRead[k])
  BY RestReads DEF BaseHealthInit
<1>3. bhHealth \in [BhBases -> -1..100]
  BY DEF BaseHealthInit
<1> QED
  BY <1>1, <1>2, <1>3 DEF HealthInv, HealthTypes

\* The next base is one of them.
LEMMA NextIsABase ==
  ASSUME NEW B \in SUBSET BhBases, B # {}
  PROVE  NextBase(B) \in B
<1>1. B \in SUBSET Nat
  BY BaseHealthAssumption
<1>2. \E m \in B : \A k \in B : m <= k
  BY <1>1, LeastOfNat
<1> QED
  BY <1>2 DEF NextBase

\* What is counted of the rows of a base is a number.
LEMMA CountsAreNat ==
  ASSUME NEW b
  PROVE  /\ Cardinality(Visible_(b)) \in Nat
         /\ Cardinality({c \in Visible_(b) : bhChunk[c].hit}) \in Nat
         /\ Cardinality(UnitsOf(b)) \in Nat /\ Cardinality(StaleOf(b)) \in Nat
         /\ Visible_(b) \in SUBSET BhChunks
<1>1. Visible_(b) \in SUBSET BhChunks /\ {c \in Visible_(b) : bhChunk[c].hit} \in SUBSET BhChunks
  BY DEF Visible_, ChunksOf
<1>2. UnitsOf(b) \in SUBSET BhUnits /\ StaleOf(b) \in SUBSET BhUnits
  BY DEF UnitsOf, StaleOf
<1>3. \A S \in SUBSET BhChunks : Cardinality(S) \in Nat
  BY BaseHealthAssumption, FS_Subset, FS_CardinalityType
<1>4. \A S \in SUBSET BhUnits : Cardinality(S) \in Nat
  BY BaseHealthAssumption, FS_Subset, FS_CardinalityType
<1> QED
  BY <1>1, <1>2, <1>3, <1>4

\* A step of one computation that leaves a row that fits.
LEMMA LookKeeps ==
  ASSUME HealthInv, NEW k \in BhReaders, NEW r \in ReadRows, ReadFits(r), Look(k, r),
         UNCHANGED bhChunk, bhHealth' \in [BhBases -> -1..100]
  PROVE  HealthInv'
<1>1. bhRead' = [bhRead EXCEPT ![k] = r]
  BY DEF Look
<1>2. bhRead \in [BhReaders -> ReadRows] /\ \A l \in BhReaders : ReadFits(bhRead[l])
  BY DEF HealthInv, HealthTypes
<1>3. bhRead' \in [BhReaders -> ReadRows]
  BY <1>1, <1>2
<1>4. \A l \in BhReaders : bhRead'[l] = IF l = k THEN r ELSE bhRead[l]
  BY <1>1, <1>2
<1>5. \A l \in BhReaders : ReadFits(bhRead'[l])
  BY <1>2, <1>4
<1>6. bhChunk' \in [BhChunks -> ChunkRows]
  BY DEF HealthInv, HealthTypes
<1> QED
  BY <1>3, <1>5, <1>6 DEF HealthInv, HealthTypes, ReadFits, Itemed

\* One lemma for each step: a change of a chunk.
LEMMA HealthChunksKeep ==
  ASSUME HealthInv, NEW c \in BhChunks, ChangeChunk(c)
  PROVE  HealthInv'
<1>1. bhChunk' \in [BhChunks -> ChunkRows]
  <2>1. bhChunk \in [BhChunks -> ChunkRows] /\ bhChunk[c] \in ChunkRows
    BY DEF HealthInv, HealthTypes
  <2>2. \A x \in ChunkRows : /\ [x EXCEPT !.stored = FALSE] \in ChunkRows
                             /\ [x EXCEPT !.hidden = ~@] \in ChunkRows
                             /\ [x EXCEPT !.hit = TRUE] \in ChunkRows
    BY DEF ChunkRows
  <2>3. \E x \in ChunkRows : bhChunk' = [bhChunk EXCEPT ![c] = x]
    <3>1. CASE bhChunk' = [bhChunk EXCEPT ![c].stored = FALSE]
      BY <2>1, <2>2, <3>1
    <3>2. CASE bhChunk' = [bhChunk EXCEPT ![c].hidden = ~@]
      BY <2>1, <2>2, <3>2
    <3>3. CASE bhChunk' = [bhChunk EXCEPT ![c].hit = TRUE]
      BY <2>1, <2>2, <3>3
    <3> QED
      BY <3>1, <3>2, <3>3 DEF ChangeChunk
  <2> QED
    BY <2>1, <2>3
<1> QED
  BY <1>1 DEF ChangeChunk, HealthInv, HealthTypes, ReadFits, Itemed

\* A change of a document or an entry.
LEMMA HealthUnitsKeep ==
  ASSUME HealthInv, NEW u \in BhUnits, ChangeUnit(u)
  PROVE  HealthInv'
BY DEF ChangeUnit, HealthInv, HealthTypes, ReadFits, Itemed

\* The start of a computation, for one base or for all.
LEMMA StartHealthKeeps ==
  ASSUME HealthInv, NEW k \in BhReaders, NEW todo \in SUBSET BhBases, NEW publish \in BOOLEAN,
         StartHealth(k, todo, publish)
  PROVE  HealthInv'
<1> DEFINE r == [RestRead EXCEPT !.pc = "next", !.todo = todo, !.all = todo, !.publish = publish]
<1>1. r \in ReadRows /\ ReadFits(r)
  BY NoStatsAreStats DEF RestRead, ReadRows, ReadFits, CountingPcs, Itemed
<1>2. Look(k, r) /\ UNCHANGED bhChunk /\ bhHealth' \in [BhBases -> -1..100]
  BY DEF StartHealth, HealthInv, HealthTypes, bhRows
<1> HIDE DEF r
<1> QED
  BY <1>1, <1>2, LookKeeps

\* The first count takes the base from those that are left.
LEMMA CountChunksKeeps ==
  ASSUME HealthInv, NEW k \in BhReaders, CountChunks(k)
  PROVE  HealthInv'
<1> DEFINE o == bhRead[k]
           b == NextBase(o.todo)
           s == [NoStats EXCEPT !.total = Cardinality(Visible_(b)), !.quality = QualityOf(Visible_(b))]
           r == [o EXCEPT !.pc = "hits", !.base = b, !.todo = @ \ {b}, !.stats = s]
<1>1. o \in ReadRows /\ ReadFits(o)
  BY DEF HealthInv, HealthTypes
<1>2. o.pc = "next" /\ ~o.broken /\ o.todo # {} /\ o.todo \in SUBSET BhBases
  BY <1>1 DEF CountChunks, ReadRows
<1>3. b \in o.todo
  BY <1>2, NextIsABase
<1>4. s \in StatRows
  <2> DEFINE n == Cardinality(Visible_(b))
             q == QualityOf(Visible_(b))
  <2>1. n \in Nat /\ Visible_(b) \in SUBSET BhChunks
    BY CountsAreNat
  <2>2. \A c \in BhChunks : bhChunk[c].quality \in -1..100
    BY DEF HealthInv, HealthTypes, ChunkRows
  <2>3. q \in -1..100
    BY <2>1, <2>2, QualityIsPercent
  <2> HIDE DEF n, q
  <2>4. [NoStats EXCEPT !.total = n, !.quality = q] \in StatRows
    <3>1. \A x \in StatRows : [x EXCEPT !.total = n, !.quality = q] \in StatRows
      BY <2>1, <2>3 DEF StatRows
    <3> QED
      BY <3>1, NoStatsAreStats
  <2> QED
    BY <2>4 DEF n, q
<1>5. Look(k, r) /\ UNCHANGED bhChunk /\ bhHealth' \in [BhBases -> -1..100]
  BY DEF CountChunks, HealthInv, HealthTypes, bhRows
<1> HIDE DEF s, b, o
<1>6. r \in ReadRows
  BY <1>1, <1>2, <1>3, <1>4 DEF ReadRows, CountingPcs
<1>7. ReadFits(r)
  <2>1. r.pc = "hits" /\ r.base = b /\ r.todo = o.todo \ {b} /\ r.items = o.items /\ r.broken = o.broken
        /\ r.all = o.all
    BY <1>1 DEF ReadRows
  <2>2. Itemed(r) = Itemed(o)
    BY <2>1 DEF Itemed
  <2> HIDE DEF r
  <2> QED
    BY <1>1, <1>2, <1>3, <2>1, <2>2 DEF ReadFits, CountingPcs
<1> HIDE DEF r
<1> QED
  BY <1>5, <1>6, <1>7, LookKeeps

\* The counts that follow leave the base where it is.
LEMMA StatKeeps ==
  ASSUME HealthInv, NEW k \in BhReaders, NEW s \in StatRows, NEW pc \in CountingPcs, bhRead[k].pc \in CountingPcs,
         NEW alerts \in SUBSET AlertRows,
         Look(k, [bhRead[k] EXCEPT !.stats = s, !.pc = pc, !.alerts = alerts]),
         UNCHANGED <<bhRows, bhHealth>>
  PROVE  HealthInv'
<1> DEFINE o == bhRead[k]
           r == [o EXCEPT !.stats = s, !.pc = pc, !.alerts = alerts]
<1>1. o \in ReadRows /\ ReadFits(o)
  BY DEF HealthInv, HealthTypes
<1>2. Look(k, r) /\ UNCHANGED bhChunk /\ bhHealth' \in [BhBases -> -1..100]
  BY DEF HealthInv, HealthTypes, bhRows
<1>3. o.pc \in CountingPcs
  OBVIOUS
<1> HIDE DEF o
<1>4. r \in ReadRows
  BY <1>1 DEF ReadRows
<1>5. ReadFits(r)
  <2>1. r.pc \in CountingPcs /\ r.pc # "done" /\ r.base = o.base /\ r.todo = o.todo /\ r.items = o.items
        /\ r.broken = o.broken /\ r.all = o.all
    BY <1>1 DEF ReadRows, CountingPcs
  <2>2. Itemed(r) = Itemed(o)
    BY <2>1 DEF Itemed
  <2> HIDE DEF r
  <2> QED
    BY <1>1, <1>3, <2>1, <2>2 DEF ReadFits
<1> HIDE DEF r
<1> QED
  BY <1>2, <1>4, <1>5, LookKeeps

\* The count of hits and of units.
LEMMA CountHitsKeeps ==
  ASSUME HealthInv, NEW k \in BhReaders, CountHits(k)
  PROVE  HealthInv'
<1> DEFINE o == bhRead[k]
           n == Cardinality({c \in Visible_(o.base) : bhChunk[c].hit})
           u == Cardinality(UnitsOf(o.base))
           s == [o.stats EXCEPT !.hit = n, !.units = u]
<1>1. o \in ReadRows
  BY DEF HealthInv, HealthTypes
<1>2. n \in Nat /\ u \in Nat
  BY CountsAreNat
<1>3. o.pc \in CountingPcs /\ Look(k, [o EXCEPT !.stats = s, !.pc = "stale"]) /\ UNCHANGED <<bhRows, bhHealth>>
  BY DEF CountHits, Stat, CountingPcs
<1> HIDE DEF o, n, u
<1>4. s \in StatRows
  BY <1>1, <1>2 DEF ReadRows, StatRows
<1> HIDE DEF s
<1>5. [o EXCEPT !.stats = s, !.pc = "stale"] = [o EXCEPT !.stats = s, !.pc = "stale", !.alerts = o.alerts]
      /\ o.alerts \in SUBSET AlertRows /\ "stale" \in CountingPcs
  BY <1>1 DEF ReadRows, CountingPcs
<1>6. Look(k, [o EXCEPT !.stats = s, !.pc = "stale", !.alerts = o.alerts])
  BY <1>3, <1>5
<1> QED
  BY <1>3, <1>4, <1>5, <1>6, StatKeeps DEF o

\* The count of stale units, and the use of the last days.
LEMMA CountStaleKeeps ==
  ASSUME HealthInv, NEW k \in BhReaders, CountStale(k)
  PROVE  HealthInv'
<1> DEFINE o == bhRead[k]
           n == Cardinality(StaleOf(o.base))
<1>1. o \in ReadRows
  BY DEF HealthInv, HealthTypes
<1>2. n \in Nat
  BY CountsAreNat
<1>3. PICK use \in {<<0, 0, -1>>, <<3, 1, 90>>} :
        Look(k, [o EXCEPT !.stats = [o.stats EXCEPT !.stale = n, !.asked = use[1], !.found = use[2],
                                                     !.answers = use[3]], !.pc = "alerts"])
  BY DEF CountStale, Stat
<1>4. o.pc \in CountingPcs /\ UNCHANGED <<bhRows, bhHealth>>
  BY DEF CountStale, CountingPcs
<1> DEFINE s == [o.stats EXCEPT !.stale = n, !.asked = use[1], !.found = use[2], !.answers = use[3]]
<1>5. use[1] \in Nat /\ use[2] \in Nat /\ use[2] <= use[1] /\ use[3] \in -1..100
  OBVIOUS
<1> HIDE DEF o, n
<1>6. s \in StatRows
  BY <1>1, <1>2, <1>5 DEF ReadRows, StatRows
<1>7. Look(k, [o EXCEPT !.stats = s, !.pc = "alerts"])
  BY <1>3
<1> HIDE DEF s
<1>8. [o EXCEPT !.stats = s, !.pc = "alerts"] = [o EXCEPT !.stats = s, !.pc = "alerts", !.alerts = o.alerts]
      /\ o.alerts \in SUBSET AlertRows /\ "alerts" \in CountingPcs
  BY <1>1 DEF ReadRows, CountingPcs
<1>9. Look(k, [o EXCEPT !.stats = s, !.pc = "alerts", !.alerts = o.alerts])
  BY <1>7, <1>8
<1> QED
  BY <1>4, <1>6, <1>8, <1>9, StatKeeps DEF o

\* Every alert is a kind with its severity.
LEMMA AlertsAre ==
  ASSUME NEW b, NEW s, NEW n
  PROVE  StaleAlert(s) \cup QualityAlert(b) \cup ColdAlert(b, s) \cup GapAlert(s) \cup PairAlert(n, s)
           \in SUBSET AlertRows
<1>1. \A kind \in AlertKinds, severity \in Severities : Alert(kind, severity) \subseteq AlertRows
  BY DEF Alert, AlertRows
<1>2. /\ "stale_docs" \in AlertKinds /\ "low_quality_chunks" \in AlertKinds /\ "cold_chunks" \in AlertKinds
      /\ "knowledge_gap" \in AlertKinds /\ "redundancy" \in AlertKinds
      /\ "info" \in Severities /\ "warning" \in Severities /\ "critical" \in Severities
  BY DEF AlertKinds, Severities
<1>3. StaleAlert(s) \subseteq AlertRows
  <2>1. Alert("stale_docs", "warning") \subseteq AlertRows /\ Alert("stale_docs", "critical") \subseteq AlertRows
    BY <1>1, <1>2
  <2> QED
    BY <2>1, Zenon DEF StaleAlert
<1>4. QualityAlert(b) \subseteq AlertRows
  <2>1. Alert("low_quality_chunks", "warning") \subseteq AlertRows
    BY <1>1, <1>2
  <2> QED
    BY <2>1, Zenon DEF QualityAlert
<1>5. ColdAlert(b, s) \subseteq AlertRows
  <2>1. Alert("cold_chunks", "info") \subseteq AlertRows
    BY <1>1, <1>2
  <2> QED
    BY <2>1, Zenon DEF ColdAlert
<1>6. GapAlert(s) \subseteq AlertRows
  <2>1. Alert("knowledge_gap", "info") \subseteq AlertRows
    BY <1>1, <1>2
  <2> QED
    BY <2>1, Zenon DEF GapAlert
<1>7. PairAlert(n, s) \subseteq AlertRows
  <2>1. Alert("redundancy", "warning") \subseteq AlertRows /\ Alert("redundancy", "info") \subseteq AlertRows
    BY <1>1, <1>2
  <2> QED
    BY <2>1, Zenon DEF PairAlert
<1> QED
  BY <1>3, <1>4, <1>5, <1>6, <1>7

\* The alerts of a base.
LEMMA CollectAlertsKeeps ==
  ASSUME HealthInv, NEW k \in BhReaders, CollectAlerts(k)
  PROVE  HealthInv'
<1> DEFINE o == bhRead[k]
<1>1. PICK n \in {0, 1} :
        Look(k, [o EXCEPT !.pc = "store",
                          !.alerts = StaleAlert(o.stats) \cup QualityAlert(o.base) \cup ColdAlert(o.base, o.stats)
                                     \cup GapAlert(o.stats) \cup PairAlert(n, o.stats)])
  BY DEF CollectAlerts
<1> DEFINE a == StaleAlert(o.stats) \cup QualityAlert(o.base) \cup ColdAlert(o.base, o.stats)
                \cup GapAlert(o.stats) \cup PairAlert(n, o.stats)
<1>2. a \in SUBSET AlertRows
  BY AlertsAre
<1>3. o \in ReadRows
  BY DEF HealthInv, HealthTypes
<1>4. o.pc \in CountingPcs /\ UNCHANGED <<bhRows, bhHealth>>
  BY DEF CollectAlerts, CountingPcs
<1>5. Look(k, [o EXCEPT !.pc = "store", !.alerts = a])
  BY <1>1
<1> HIDE DEF a, o
<1>6. [o EXCEPT !.pc = "store", !.alerts = a] = [o EXCEPT !.stats = o.stats, !.pc = "store", !.alerts = a]
      /\ o.stats \in StatRows /\ "store" \in CountingPcs
  BY <1>3 DEF ReadRows, CountingPcs
<1>7. Look(k, [o EXCEPT !.stats = o.stats, !.pc = "store", !.alerts = a])
  BY <1>5, <1>6
<1> QED
  BY <1>2, <1>4, <1>6, <1>7, StatKeeps DEF o

\* A base that is reported has one item, with a percentage.
LEMMA ReportedFits ==
  ASSUME HealthInv, NEW k \in BhReaders, bhRead[k].pc = "store", NEW broken \in BOOLEAN
  PROVE  LET r == [Reported(k) EXCEPT !.broken = bhRead[k].broken \/ broken] IN
         r \in ReadRows /\ ReadFits(r) /\ (~broken => r = Reported(k))
            /\ (broken => r = [Reported(k) EXCEPT !.broken = TRUE])
            /\ bhRead[k].base \in BhBases /\ Health(bhRead[k].stats) \in 0..100
<1> DEFINE o == bhRead[k]
           h == Health(o.stats)
           i == [base |-> o.base, score |-> h]
           r == [o EXCEPT !.pc = "next", !.base = 0, !.stats = NoStats, !.alerts = {},
                          !.items = @ \cup {i}, !.broken = o.broken \/ broken]
<1>1. o \in ReadRows /\ ReadFits(o) /\ o.pc = "store"
  BY DEF HealthInv, HealthTypes
<1>2. o.base \in BhBases \ (o.todo \cup Itemed(o)) /\ ~o.broken
  BY <1>1 DEF ReadFits, CountingPcs
<1>3. h \in 0..100
  <2>1. o.stats \in StatRows
    BY <1>1 DEF ReadRows
  <2> HIDE DEF o
  <2> QED
    BY <2>1, ScoresArePercent
<1>4. Reported(k) = [o EXCEPT !.pc = "next", !.base = 0, !.stats = NoStats, !.alerts = {}, !.items = @ \cup {i}]
  BY DEF Reported
<1> HIDE DEF o, h
<1>5. i \in ItemRows /\ i.base = o.base
  BY <1>2, <1>3 DEF ItemRows
<1> HIDE DEF i
<1>6. r \in ReadRows
  BY <1>1, <1>5, NoStatsAreStats DEF ReadRows, CountingPcs
<1>7. ReadFits(r)
  <2>1. r.pc = "next" /\ r.todo = o.todo /\ r.items = o.items \cup {i} /\ r.all = o.all
    BY <1>1 DEF ReadRows
  <2>2. Itemed(r) = Itemed(o) \cup {o.base}
    BY <1>5, <2>1 DEF Itemed
  <2>3. \A j, l \in r.items : j.base = l.base => j = l
    BY <1>1, <1>2, <1>5, <2>1 DEF ReadFits, Itemed
  <2>4. ~r.broken => ~o.broken
    BY <1>2
  <2> HIDE DEF r
  <2> QED
    BY <1>1, <1>2, <2>1, <2>2, <2>3, <2>4 DEF ReadFits, CountingPcs
<1>8. r = [Reported(k) EXCEPT !.broken = o.broken \/ broken]
  BY <1>1, <1>4 DEF ReadRows
<1>9. (~broken => r = Reported(k)) /\ (broken => r = [Reported(k) EXCEPT !.broken = TRUE])
  <2> DEFINE R == Reported(k)
  <2>1. R = [R EXCEPT !.broken = o.broken]
    BY <1>1, <1>4 DEF ReadRows
  <2>2. (broken => (o.broken \/ broken) = TRUE) /\ (~broken => (o.broken \/ broken) = o.broken)
    <3>1. o.broken \in BOOLEAN
      BY <1>1 DEF ReadRows
    <3> QED
      BY <1>2, <3>1
  <2> HIDE DEF R
  <2>3. r = [R EXCEPT !.broken = o.broken \/ broken]
    BY <1>8 DEF R
  <2> HIDE DEF r
  <2>4. broken => r = [R EXCEPT !.broken = TRUE]
    BY <2>2, <2>3, Zenon
  <2>5. ~broken => r = R
    BY <2>1, <2>2, <2>3, Zenon
  <2> QED
    BY <2>4, <2>5 DEF R
<1> HIDE DEF r
<1> QED
  BY <1>2, <1>3, <1>6, <1>7, <1>8, <1>9 DEF o, h

\* The score is kept, or a failure to keep it is passed over.
LEMMA StoreHealthKeeps ==
  ASSUME HealthInv, NEW k \in BhReaders, StoreHealth(k) \/ StoreHealthFails(k)
  PROVE  HealthInv'
<1>1. bhRead[k].pc = "store"
  BY DEF StoreHealth, StoreHealthFails
<1>2. Reported(k) \in ReadRows /\ ReadFits(Reported(k)) /\ bhRead[k].base \in BhBases
      /\ Health(bhRead[k].stats) \in 0..100
  <2> DEFINE broken == FALSE
             r == [Reported(k) EXCEPT !.broken = bhRead[k].broken \/ broken]
  <2>1. r \in ReadRows /\ ReadFits(r) /\ (~broken => r = Reported(k)) /\ bhRead[k].base \in BhBases
        /\ Health(bhRead[k].stats) \in 0..100
    BY <1>1, ReportedFits
  <2> HIDE DEF r
  <2> QED
    BY <2>1
<1>3. LET r == [Reported(k) EXCEPT !.broken = TRUE] IN r \in ReadRows /\ ReadFits(r)
  <2> DEFINE broken == TRUE
             r == [Reported(k) EXCEPT !.broken = bhRead[k].broken \/ broken]
  <2>1. r \in ReadRows /\ ReadFits(r) /\ (broken => r = [Reported(k) EXCEPT !.broken = TRUE])
    BY <1>1, ReportedFits
  <2> HIDE DEF r
  <2> QED
    BY <2>1
<1>4. bhHealth' \in [BhBases -> -1..100]
  <2>1. CASE StoreHealth(k)
    <3> DEFINE h == Health(bhRead[k].stats)
               b == bhRead[k].base
    <3>1. bhHealth' = [bhHealth EXCEPT ![b] = h] /\ bhHealth \in [BhBases -> -1..100] /\ b \in BhBases /\ h \in 0..100
      BY <1>2, <2>1 DEF StoreHealth, HealthInv, HealthTypes
    <3> HIDE DEF h, b
    <3> QED
      BY <3>1
  <2>2. CASE StoreHealthFails(k)
    BY <2>2 DEF StoreHealthFails, HealthInv, HealthTypes
  <2> QED
    BY <2>1, <2>2
<1>5. CASE StoreHealth(k)
  <2>1. Look(k, Reported(k)) /\ UNCHANGED bhChunk
    BY <1>5 DEF StoreHealth, bhRows
  <2> QED
    BY <1>2, <1>4, <2>1, LookKeeps
<1>6. CASE StoreHealthFails(k)
  <2> DEFINE r == [Reported(k) EXCEPT !.broken = TRUE]
  <2>1. Look(k, r) /\ UNCHANGED bhChunk
    BY <1>6 DEF StoreHealthFails, bhRows
  <2>2. r \in ReadRows /\ ReadFits(r)
    BY <1>3
  <2> HIDE DEF r
  <2> QED
    BY <1>4, <2>1, <2>2, LookKeeps
<1> QED
  BY <1>5, <1>6

\* A failing statement, the bases that are passed over, and the end.
LEMMA HealthEndsKeep ==
  ASSUME HealthInv, NEW k \in BhReaders, StatementFails(k) \/ SkipBase(k) \/ EndHealth(k)
  PROVE  HealthInv'
<1> DEFINE o == bhRead[k]
<1>1. o \in ReadRows /\ ReadFits(o)
  BY DEF HealthInv, HealthTypes
<1>2. UNCHANGED bhChunk /\ bhHealth' \in [BhBases -> -1..100]
  BY DEF StatementFails, SkipBase, EndHealth, bhRows, HealthInv, HealthTypes
<1>3. CASE StatementFails(k)
  <2> DEFINE r == [o EXCEPT !.pc = "next", !.base = 0, !.stats = NoStats, !.broken = TRUE]
  <2>1. Look(k, r)
    BY <1>3 DEF StatementFails
  <2> HIDE DEF o
  <2>2. r \in ReadRows /\ r.pc = "next" /\ r.broken /\ r.todo = o.todo /\ r.items = o.items
    BY <1>1, NoStatsAreStats DEF ReadRows
  <2> HIDE DEF r
  <2>3. ReadFits(r)
    BY <1>1, <2>2 DEF ReadFits, Itemed, CountingPcs
  <2> QED
    BY <1>2, <2>1, <2>2, <2>3, LookKeeps
<1>4. CASE SkipBase(k)
  <2> DEFINE r == [o EXCEPT !.todo = @ \ {NextBase(@)}]
  <2>1. Look(k, r) /\ o.pc = "next" /\ o.broken
    BY <1>4 DEF SkipBase
  <2> HIDE DEF o
  <2>2. r \in ReadRows /\ r.pc = "next" /\ r.broken /\ r.todo \subseteq o.todo /\ r.items = o.items
    BY <1>1, <2>1 DEF ReadRows
  <2> HIDE DEF r
  <2>3. ReadFits(r)
    BY <1>1, <2>2 DEF ReadFits, Itemed, CountingPcs
  <2> QED
    BY <1>2, <2>1, <2>2, <2>3, LookKeeps
<1>5. CASE EndHealth(k)
  <2> DEFINE r == [o EXCEPT !.pc = "done"]
  <2>1. Look(k, r) /\ o.pc = "next" /\ o.todo = {}
    BY <1>5 DEF EndHealth
  <2> HIDE DEF o
  <2>2. r \in ReadRows /\ r.pc = "done" /\ r.broken = o.broken /\ r.todo = o.todo /\ r.items = o.items /\ r.all = o.all
    BY <1>1, <2>1 DEF ReadRows
  <2> HIDE DEF r
  <2>3. ReadFits(r)
    BY <1>1, <2>1, <2>2 DEF ReadFits, Itemed, CountingPcs
  <2> QED
    BY <1>2, <2>1, <2>2, <2>3, LookKeeps
<1> QED
  BY <1>3, <1>4, <1>5

\* What BaseHealthSound asks follows from the invariant.
LEMMA HealthConclusions == HealthInv => BaseHealthSound
<1> SUFFICES ASSUME HealthInv PROVE BaseHealthSound
  OBVIOUS
<1>1. ASSUME NEW k \in BhReaders
      PROVE  /\ \A i \in bhRead[k].items : i.score \in 0..100
             /\ \A i, j \in bhRead[k].items : i.base = j.base => i = j
             /\ bhRead[k].pc = "store" => /\ CoverageScore(bhRead[k].stats) \in 0..100
                                          /\ Freshness(bhRead[k].stats) \in 0..100
             /\ bhRead[k].pc = "done" /\ ~bhRead[k].broken => {i.base : i \in bhRead[k].items} = bhRead[k].all
             /\ bhRead[k].pc = "store" /\ bhRead[k].stats.total = 0 /\ bhRead[k].stats.units = 0 =>
                  Health(bhRead[k].stats) = 0
  <2> DEFINE o == bhRead[k]
  <2>1. o \in ReadRows /\ ReadFits(o)
    BY DEF HealthInv, HealthTypes
  <2>2. o.stats \in StatRows /\ \A i \in o.items : i.score \in 0..100
    BY <2>1 DEF ReadRows, ItemRows
  <2> HIDE DEF o
  <2>3. CoverageScore(o.stats) \in 0..100 /\ Freshness(o.stats) \in 0..100
        /\ (o.stats.total = 0 /\ o.stats.units = 0 => Health(o.stats) = 0)
    BY <2>2, ScoresArePercent
  <2>4. o.pc = "done" /\ ~o.broken => Itemed(o) = o.all
    BY <2>1 DEF ReadFits, CountingPcs
  <2>5. \A i, j \in o.items : i.base = j.base => i = j
    BY <2>1 DEF ReadFits
  <2> QED
    BY <2>2, <2>3, <2>4, <2>5 DEF o, Itemed
<1>2. \A b \in BhBases : bhHealth[b] \in -1..100
  BY DEF HealthInv, HealthTypes
<1> QED
  BY <1>1, <1>2, UseKeepsPercent, Zenon DEF BaseHealthSound

\* Every step keeps HealthInv.
LEMMA HealthStep == HealthInv /\ [BaseHealthNext]_healthVars => HealthInv'
<1> SUFFICES ASSUME HealthInv, [BaseHealthNext]_healthVars PROVE HealthInv'
  OBVIOUS
<1>1. ASSUME NEW c \in BhChunks, ChangeChunk(c) PROVE HealthInv'
  BY <1>1, HealthChunksKeep
<1>2. ASSUME NEW u \in BhUnits, ChangeUnit(u) PROVE HealthInv'
  BY <1>2, HealthUnitsKeep
<1>3. ASSUME NEW k \in BhReaders,
             \/ \E b \in BhBases : StartHealth(k, {b}, FALSE)
             \/ StartHealth(k, BhBases, FALSE) \/ StartHealth(k, BhBases, TRUE)
      PROVE  HealthInv'
  <2>1. PICK todo \in SUBSET BhBases, publish \in BOOLEAN : StartHealth(k, todo, publish)
    BY <1>3
  <2> QED
    BY <2>1, StartHealthKeeps
<1>4. ASSUME NEW k \in BhReaders, CountChunks(k) PROVE HealthInv'
  BY <1>4, CountChunksKeeps
<1>5. ASSUME NEW k \in BhReaders, CountHits(k) PROVE HealthInv'
  BY <1>5, CountHitsKeeps
<1>6. ASSUME NEW k \in BhReaders, CountStale(k) PROVE HealthInv'
  BY <1>6, CountStaleKeeps
<1>7. ASSUME NEW k \in BhReaders, CollectAlerts(k) PROVE HealthInv'
  BY <1>7, CollectAlertsKeeps
<1>8. ASSUME NEW k \in BhReaders, StoreHealth(k) \/ StoreHealthFails(k) PROVE HealthInv'
  BY <1>8, StoreHealthKeeps
<1>9. ASSUME NEW k \in BhReaders, StatementFails(k) \/ SkipBase(k) \/ EndHealth(k) PROVE HealthInv'
  BY <1>9, HealthEndsKeep
<1>10. CASE UNCHANGED healthVars
  BY <1>10 DEF healthVars, HealthInv, HealthTypes, ReadFits, Itemed
<1> QED
  BY <1>1, <1>2, <1>3, <1>4, <1>5, <1>6, <1>7, <1>8, <1>9, <1>10 DEF BaseHealthNext

\* The health of bases, however its counts overlap with changes of chunks and units and whatever
\* statements fail: every score is a percentage, and a computation reports each base it was
\* asked for once, unless a statement failed.
THEOREM HealthStaysSound == BaseHealthSpec => []BaseHealthSound
<1>1. BaseHealthInit => HealthInv
  BY HealthStarts
<1>2. HealthInv /\ [BaseHealthNext]_healthVars => HealthInv'
  BY HealthStep
<1>3. HealthInv => BaseHealthSound
  BY HealthConclusions
<1> QED
  BY <1>1, <1>2, <1>3, PTL DEF BaseHealthSpec

=============================================================================
