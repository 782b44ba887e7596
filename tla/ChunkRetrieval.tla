---------------------------- MODULE ChunkRetrieval ----------------------------
(***************************************************************************)
(* The chunks of a knowledge base between their editors and their readers: *)
(* ChunkService, the embedding of edited chunks, RetrievalService.retrieve *)
(* and its cache of results.                                               *)
(*                                                                         *)
(* A retrieval looks into the cache, asks Milvus, drops what Postgres says *)
(* is not visible, and stores the answer; an answer is a set of chunks,    *)
(* each with the text Milvus had.  All requests are for one cache key.     *)
(* Ranking is the matter of RetrievalRanking.                              *)
(***************************************************************************)
EXTENDS Integers, FiniteSets

CONSTANTS
  CrChunks,      \* chunks, each of a document of its own
  CrRequests,    \* retrievals at a time
  CrEmbedders,   \* embed_unit_chunks tasks at a time
  CrMaxTexts,    \* bound: texts of a chunk
  CrMaxOps       \* bound: edits, deletions, archivings and reviews

ASSUME RetrievalAssumption == CrChunks # {} /\ CrMaxTexts \in Nat \ {0} /\ CrMaxOps \in Nat

VARIABLES
  crText,      \* chunks.content; 0: no row
  crMarked,    \* chunks whose vector_id is set
  crExcluded,  \* chunks.review_excluded
  crArchived,  \* chunks whose document is archived
  crVector,    \* the text whose vector and content Milvus holds; 0: none
  crEdit,      \* the one edit under way, and the vector_id it has read
  crEmbed,     \* what each embedding task has read
  crCache,     \* <<answer>>, or <<>> when there is none
  crReq,       \* retrievals
  crRaced,     \* history: chunks edited or deleted while an embedding or an edit had read them
  crGone,      \* history: results that ended being retrievable before the cache was emptied
  crOps

crRows == <<crText, crMarked, crExcluded, crArchived>>
chunkVars == <<crRows, crVector, crEdit, crEmbed, crCache, crReq, crRaced, crGone, crOps>>

ChunkTexts == 1..CrMaxTexts
Results == CrChunks \X ChunkTexts
NoEdit  == [on |-> FALSE, chunk |-> CHOOSE c \in CrChunks : TRUE, marked |-> FALSE]
NoEmbed == [pc |-> "idle", took |-> {}]
NoSearch == [pc |-> "idle", found |-> {}]

ChunkEdits    == [on : BOOLEAN, chunk : CrChunks, marked : BOOLEAN]
ChunkEmbeds   == [pc : {"idle", "upsert", "mark"}, took : SUBSET Results]
ChunkSearches == [pc : {"idle", "search", "hits", "answer"}, found : SUBSET Results]

ChunkTypeOK ==
  /\ crText \in [CrChunks -> 0..CrMaxTexts] /\ crVector \in [CrChunks -> 0..CrMaxTexts]
  /\ crMarked \subseteq {c \in CrChunks : crText[c] # 0}
  /\ crExcluded \subseteq CrChunks /\ crArchived \subseteq CrChunks /\ crRaced \subseteq CrChunks
  /\ crEdit \in ChunkEdits /\ crEmbed \in [CrEmbedders -> ChunkEmbeds]
  /\ crReq \in [CrRequests -> ChunkSearches]
  /\ crCache \in {<<>>} \cup {<<S>> : S \in SUBSET Results}
  /\ crGone \subseteq Results /\ crOps \in 0..CrMaxOps

ChunkInit ==
  /\ crText = [c \in CrChunks |-> 0] /\ crVector = [c \in CrChunks |-> 0]
  /\ crMarked = {} /\ crExcluded = {} /\ crArchived = {} /\ crRaced = {}
  /\ crEdit = NoEdit /\ crEmbed = [w \in CrEmbedders |-> NoEmbed]
  /\ crCache = <<>> /\ crReq = [r \in CrRequests |-> NoSearch] /\ crGone = {} /\ crOps = 0

ChunkOp == crOps < CrMaxOps /\ crOps' = crOps + 1
ChunkHeld(c) == \E w \in CrEmbedders : \E p \in crEmbed[w].took : p[1] = c

\* What a retrieval that starts now can return.
Invisible(c)   == c \in crExcluded \/ c \in crArchived
Retrievable(p) == crVector[p[1]] = p[2] /\ ~Invisible(p[1])
Answers == {crReq[r].found : r \in {q \in CrRequests : crReq[q].pc = "answer"}}
             \cup (IF crCache = <<>> THEN {} ELSE {crCache[1]})
Pending == UNION {crReq[r].found : r \in CrRequests}

\* What had gone counts anew when the chunk is shown, hidden or deleted.
Reopen(c) == crGone' = {p \in crGone : p[1] # c}

-----------------------------------------------------------------------------
(***************************************************************************)
(* Chunks.                                                                 *)
(***************************************************************************)

\* process_document commits the rows of a document, hidden when a review is required,
\* and empties the whole cache; the embedding comes later.
InsertChunk(c, hidden) ==
  /\ ChunkOp /\ crText[c] = 0 /\ c \notin crRaced /\ crVector[c] = 0
  /\ crText' = [crText EXCEPT ![c] = 1]
  /\ crExcluded' = IF hidden THEN crExcluded \cup {c} ELSE crExcluded
  /\ crCache' = <<>>
  /\ UNCHANGED <<crMarked, crArchived, crVector, crEdit, crEmbed, crReq, crRaced, crGone>>

OpenChunkEdit(c) ==
  /\ ChunkOp /\ ~crEdit.on /\ crText[c] \in 1..(CrMaxTexts - 1)
  /\ crEdit' = [on |-> TRUE, chunk |-> c, marked |-> c \in crMarked]
  /\ UNCHANGED <<crRows, crVector, crEmbed, crCache, crReq, crRaced, crGone>>

\* edit_chunk sets vector_id to None; a NULL that was read is not written.
EditKeepingId(c) ==   \* mutant: vector_id is left to the embedding
  /\ crEdit.on /\ crEdit.chunk = c /\ crText[c] # 0
  /\ crEdit' = NoEdit /\ crText' = [crText EXCEPT ![c] = @ + 1]
  /\ crRaced' = IF ChunkHeld(c) \/ crEdit.marked # (c \in crMarked) THEN crRaced \cup {c} ELSE crRaced
  /\ UNCHANGED <<crMarked, crExcluded, crArchived, crVector, crEmbed, crCache, crReq, crGone, crOps>>
CommitChunkEdit(c) ==
  /\ crEdit.on /\ crEdit.chunk = c /\ crText[c] # 0
  /\ crEdit' = NoEdit /\ crText' = [crText EXCEPT ![c] = @ + 1]
  /\ crMarked' = IF crEdit.marked THEN crMarked \ {c} ELSE crMarked
  /\ crRaced' = IF ChunkHeld(c) \/ crEdit.marked # (c \in crMarked) THEN crRaced \cup {c} ELSE crRaced
  /\ UNCHANGED <<crExcluded, crArchived, crVector, crEmbed, crCache, crReq, crGone, crOps>>

\* delete_chunk purges the vector of a marked row; a failure of Milvus is only logged.
\* Hits of the chunk pass the filter from now on: it looks for rows that are hidden.
DeleteChunk(c, purged) ==
  /\ ChunkOp /\ ~crEdit.on /\ crText[c] # 0
  /\ crText' = [crText EXCEPT ![c] = 0] /\ crMarked' = crMarked \ {c}
  /\ crVector' = IF c \in crMarked /\ purged THEN [crVector EXCEPT ![c] = 0] ELSE crVector
  /\ crExcluded' = crExcluded \ {c}
  /\ crRaced' = crRaced \cup {c}
  /\ Reopen(c)
  /\ UNCHANGED <<crArchived, crEdit, crEmbed, crCache, crReq>>

\* A decision, a revert; toggle_archive_document.  None empties the cache.
SetVisible(c) ==
  /\ ChunkOp /\ crText[c] # 0
  /\ \/ crExcluded' = crExcluded \cup {c} /\ c \notin crExcluded /\ UNCHANGED crArchived
     \/ crExcluded' = crExcluded \ {c} /\ c \in crExcluded /\ UNCHANGED crArchived
     \/ crArchived' = crArchived \cup {c} /\ c \notin crArchived /\ UNCHANGED crExcluded
     \/ crArchived' = crArchived \ {c} /\ c \in crArchived /\ UNCHANGED crExcluded
  /\ Reopen(c)
  /\ UNCHANGED <<crText, crMarked, crVector, crEdit, crEmbed, crCache, crReq, crRaced>>

Unembedded == {c \in CrChunks : crText[c] # 0 /\ c \notin crMarked}

EmbedTake(w) ==
  /\ crEmbed[w].pc = "idle" /\ Unembedded # {}
  /\ crEmbed' = [crEmbed EXCEPT ![w] = [pc |-> "upsert", took |-> {<<c, crText[c]>> : c \in Unembedded}]]
  /\ UNCHANGED <<crRows, crVector, crEdit, crCache, crReq, crRaced, crGone, crOps>>

EmbedUpsert(w) ==
  /\ crEmbed[w].pc = "upsert" /\ crEmbed' = [crEmbed EXCEPT ![w].pc = "mark"]
  /\ crVector' = [c \in CrChunks |->
       IF \E p \in crEmbed[w].took : p[1] = c
         THEN (CHOOSE p \in crEmbed[w].took : p[1] = c)[2] ELSE crVector[c]]
  /\ crGone' = {p \in crGone : crVector'[p[1]] # p[2] \/ Invisible(p[1])}
  /\ UNCHANGED <<crRows, crEdit, crCache, crReq, crRaced, crOps>>

EmbedMark(w) ==
  /\ crEmbed[w].pc = "mark" /\ crEmbed' = [crEmbed EXCEPT ![w] = NoEmbed]
  /\ crMarked' = crMarked \cup {c \in CrChunks : crText[c] # 0 /\ \E p \in crEmbed[w].took : p[1] = c}
  /\ UNCHANGED <<crText, crExcluded, crArchived, crVector, crEdit, crCache, crReq, crRaced, crGone, crOps>>

-----------------------------------------------------------------------------
(***************************************************************************)
(* RetrievalService.retrieve.                                              *)
(***************************************************************************)

\* A hit ends the request: no filter, no hit counts, no log.
Retrieve(r) ==
  /\ crReq[r].pc = "idle" /\ crCache = <<>>
  /\ crReq' = [crReq EXCEPT ![r].pc = "search"]
  /\ UNCHANGED <<crRows, crVector, crEdit, crEmbed, crCache, crRaced, crGone, crOps>>

Search(r) ==
  /\ crReq[r].pc = "search"
  /\ crReq' = [crReq EXCEPT ![r] = [pc |-> "hits", found |-> {p \in Results : crVector[p[1]] = p[2]}]]
  /\ UNCHANGED <<crRows, crVector, crEdit, crEmbed, crCache, crRaced, crGone, crOps>>

\* _filter_invisible: rows that are gone are neither excluded nor archived.
FilterReviewed(r) ==   \* mutant: archived documents are left to the index
  /\ crReq[r].pc = "hits"
  /\ crReq' = [crReq EXCEPT ![r] = [pc |-> "answer", found |-> {p \in @.found : p[1] \notin crExcluded}]]
  /\ UNCHANGED <<crRows, crVector, crEdit, crEmbed, crCache, crRaced, crGone, crOps>>
FilterInvisible(r) ==
  /\ crReq[r].pc = "hits"
  /\ crReq' = [crReq EXCEPT ![r] = [pc |-> "answer", found |-> {p \in @.found : ~Invisible(p[1])}]]
  /\ UNCHANGED <<crRows, crVector, crEdit, crEmbed, crCache, crRaced, crGone, crOps>>

\* "A failure of governance does not block retrieval": the hits pass unfiltered.
FilterFails(r) ==
  /\ crReq[r].pc = "hits"
  /\ crReq' = [crReq EXCEPT ![r].pc = "answer"] /\ crGone' = crGone \ crReq[r].found
  /\ UNCHANGED <<crRows, crVector, crEdit, crEmbed, crCache, crRaced, crOps>>

StoreAnswer(r) ==
  /\ crReq[r].pc = "answer" /\ crReq' = [crReq EXCEPT ![r] = NoSearch]
  /\ crCache' = <<crReq[r].found>> \/ crCache' = crCache
  /\ UNCHANGED <<crRows, crVector, crEdit, crEmbed, crRaced, crGone, crOps>>

\* The TTL of ten minutes.
ExpireAnswers ==
  /\ crCache # <<>> /\ crCache' = <<>>
  /\ crGone' = {p \in Results : ~Retrievable(p) /\ p \notin Pending}
  /\ UNCHANGED <<crRows, crVector, crEdit, crEmbed, crReq, crRaced, crOps>>

ChunkNext ==
  \/ \E c \in CrChunks : \/ \E b \in BOOLEAN : InsertChunk(c, b) \/ DeleteChunk(c, b)
                         \/ OpenChunkEdit(c) \/ CommitChunkEdit(c) \/ SetVisible(c)
  \/ \E w \in CrEmbedders : EmbedTake(w) \/ EmbedUpsert(w) \/ EmbedMark(w)
  \/ \E r \in CrRequests : \/ Retrieve(r) \/ Search(r) \/ FilterInvisible(r) \/ FilterFails(r)
                           \/ StoreAnswer(r)
  \/ ExpireAnswers
ChunkSpec == ChunkInit /\ [][ChunkNext]_chunkVars

-----------------------------------------------------------------------------
\* A row with a vector_id is found by its current text, unless the chunk was edited
\* while an embedding or another change of its vector_id was under way.
MarkedByCurrentText ==
  \A c \in crMarked \ crRaced : crVector[c] = crText[c]

\* A chunk that is hidden, archived, or embedded with a new text is out of all answers
\* for good once the cache has expired after the last retrieval that had found it
\* before: a later search cannot bring it back, whatever it overlaps, unless the row is
\* deleted or the filter fails.
GoneStaysGone == \A answer \in Answers : answer \cap crGone = {}

\* What is marked as embedded and what an answer may hold.
ChunksSound == MarkedByCurrentText /\ GoneStaysGone
=============================================================================
