------------------------------ MODULE EntryIndex ------------------------------
(***************************************************************************)
(* The entries of an entry base: the requests that create, import, edit    *)
(* and delete them, and the way of their rows into Milvus.                 *)
(*                                                                         *)
(* An edit or a deletion commits in Postgres, then purges every vector of  *)
(* the entry, then hands the new rows to embed_unit_chunks: three steps in *)
(* two stores, with the embedding workers, the backlog sweep and the       *)
(* consistency scan in between.  The rows of one text are one batch and    *)
(* stand for it: number n is the batch of the n-th text of its entry.      *)
(***************************************************************************)
EXTENDS Integers, FiniteSets

CONSTANTS
  Entries, NoEntry,
  EnRequests,      \* requests served at a time
  EnEmbedders,     \* workers of the queue "embedding"
  MaxTexts,        \* bound: texts per entry
  EnMaxRequests,   \* bound: requests
  EnMaxFaults      \* bound: failures of Milvus, of the model, of a process

ASSUME EntryAssumption ==
  NoEntry \notin Entries /\ MaxTexts \in Nat /\ EnMaxRequests \in Nat /\ EnMaxFaults \in Nat

VARIABLES
  enText,      \* number of the entry's text; 0: no such entry
  enStatus,    \* knowledge_entries.status
  enRows,      \* batches of chunk rows
  enMarked,    \* batches whose vector_id is set
  enVectors,   \* batches in the Milvus collection
  enQueue,     \* embed_unit_chunks messages waiting
  enReq, enEmb,
  enLast,      \* the last text an entry has had
  enUnclean,   \* history: entries with an upsert or a second request across an edit,
               \* or a purge that failed
  enRequests, enFaults

entryRow  == <<enText, enStatus, enRows, enMarked, enLast>>
entryVars == <<entryRow, enVectors, enQueue, enReq, enEmb, enUnclean, enRequests, enFaults>>

Texts == 1..MaxTexts
IdleReq == [pc |-> "idle", entry |-> NoEntry, op |-> "edit", rows |-> {}, text |-> 0]
IdleEmb == [pc |-> "idle", entry |-> NoEntry, batch |-> {}]

EntryTypeOK ==
  /\ enText \in [Entries -> 0..MaxTexts] /\ enLast \in [Entries -> 0..MaxTexts]
  /\ enStatus \in [Entries -> {"none", "processing", "completed", "error"}]
  /\ enRows \in [Entries -> SUBSET Texts] /\ enMarked \in [Entries -> SUBSET Texts]
  /\ enVectors \in [Entries -> SUBSET Texts]
  /\ enQueue \in [Entries -> 0..2]
  /\ enReq \in [EnRequests -> [pc : {"idle", "open", "purge", "dispatch"}, entry : Entries \cup {NoEntry},
                  op : {"edit", "title", "delete"}, rows : SUBSET Texts, text : 0..MaxTexts]]
  /\ enEmb \in [EnEmbedders -> [pc : {"idle", "upsert", "mark"}, entry : Entries \cup {NoEntry},
                  batch : SUBSET Texts]]
  /\ enUnclean \subseteq Entries /\ enRequests \in 0..EnMaxRequests /\ enFaults \in 0..EnMaxFaults

EntryInit ==
  /\ enText = [e \in Entries |-> 0] /\ enLast = enText
  /\ enStatus = [e \in Entries |-> "none"]
  /\ enRows = [e \in Entries |-> {}] /\ enMarked = enRows /\ enVectors = enRows
  /\ enQueue = [e \in Entries |-> 0]
  /\ enReq = [r \in EnRequests |-> IdleReq] /\ enEmb = [w \in EnEmbedders |-> IdleEmb]
  /\ enUnclean = {} /\ enRequests = 0 /\ enFaults = 0

Live(e) == enText[e] # 0
EntryRequest == enRequests < EnMaxRequests /\ enRequests' = enRequests + 1
EntryFault   == enFaults < EnMaxFaults /\ enFaults' = enFaults + 1
Enqueued(e)  == [enQueue EXCEPT ![e] = IF @ < 2 THEN @ + 1 ELSE @]   \* a third message adds nothing
OthersOn(r, e) == \/ \E q \in EnRequests \ {r} : enReq[q].entry = e
                  \/ \E w \in EnEmbedders : enEmb[w].entry = e

-----------------------------------------------------------------------------
(***************************************************************************)
(* Requests.                                                               *)
(***************************************************************************)

\* create_entry, and one row of an import: the entry and its rows are committed
\* together, and the embedding task is sent afterwards.
CreateEntry(r, e) ==
  /\ EntryRequest
  /\ enReq[r].pc = "idle" /\ enLast[e] = 0
  /\ enText' = [enText EXCEPT ![e] = 1] /\ enLast' = [enLast EXCEPT ![e] = 1]
  /\ enStatus' = [enStatus EXCEPT ![e] = "processing"]
  /\ enRows' = [enRows EXCEPT ![e] = {1}]
  /\ enReq' = [enReq EXCEPT ![r] = [IdleReq EXCEPT !.pc = "dispatch", !.entry = e]]
  /\ UNCHANGED <<enMarked, enVectors, enQueue, enEmb, enUnclean, enFaults>>

\* An import whose chunking of one row fails commits that entry without rows and
\* sends no task for it.
ImportWithoutRows(e) ==
  /\ EntryRequest /\ EntryFault
  /\ enLast[e] = 0
  /\ enText' = [enText EXCEPT ![e] = 1] /\ enLast' = [enLast EXCEPT ![e] = 1]
  /\ enStatus' = [enStatus EXCEPT ![e] = "processing"]
  /\ UNCHANGED <<enRows, enMarked, enVectors, enQueue, enReq, enEmb, enUnclean>>

\* The request reads its entry; a deletion sees the rows it will delete.
OpenEntry(r, e, op) ==
  /\ EntryRequest
  /\ enReq[r].pc = "idle" /\ Live(e)
  /\ enReq' = [enReq EXCEPT ![r] = [pc |-> "open", entry |-> e, op |-> op, rows |-> enRows[e],
                                    text |-> enText[e]]]
  /\ enUnclean' = IF OthersOn(r, e) THEN enUnclean \cup {e} ELSE enUnclean
  /\ UNCHANGED <<entryRow, enVectors, enQueue, enEmb, enFaults>>

\* The transaction of an edit, up to its commit.  New content replaces the rows; an
\* edit of the title alone keeps them, unless there are none.  The UPDATE of an entry
\* that is gone fails, and nothing is written.
Rechunks(r) == enReq[r].op = "edit" \/ enRows[enReq[r].entry] = {}
KeptRows(r, n) == enRows[enReq[r].entry] \cup {n}   \* mutant: the old rows are not deleted
NewRows(r, n) == {n}
CommitEdit(r) ==
  LET e == enReq[r].entry
      n == IF enReq[r].op = "edit" THEN enLast[e] + 1 ELSE enReq[r].text
  IN  /\ enReq[r].pc = "open" /\ enReq[r].op \in {"edit", "title"} /\ n <= MaxTexts
      /\ IF ~Live(e) \/ ~Rechunks(r)
           THEN UNCHANGED entryRow /\ enReq' = [enReq EXCEPT ![r] = IdleReq]
           ELSE /\ enText' = [enText EXCEPT ![e] = IF enReq[r].op = "edit" THEN n ELSE @]
                /\ enLast' = [enLast EXCEPT ![e] = IF n > @ THEN n ELSE @]
                /\ enRows' = [enRows EXCEPT ![e] = NewRows(r, n)]
                /\ enMarked' = [enMarked EXCEPT ![e] = {}]
                /\ enStatus' = IF enReq[r].op = "edit" THEN [enStatus EXCEPT ![e] = "processing"]
                                                       ELSE enStatus
                /\ enReq' = [enReq EXCEPT ![r].pc = "purge"]
      /\ UNCHANGED <<enVectors, enQueue, enEmb, enUnclean, enRequests, enFaults>>

\* delete_entry and batch_delete_entries: the DELETE of the rows removes those it saw.
CommitDelete(r) ==
  LET e == enReq[r].entry IN
  /\ enReq[r].pc = "open" /\ enReq[r].op = "delete"
  /\ IF ~Live(e)
       THEN UNCHANGED entryRow /\ enReq' = [enReq EXCEPT ![r] = IdleReq]
       ELSE /\ enText' = [enText EXCEPT ![e] = 0] /\ enStatus' = [enStatus EXCEPT ![e] = "none"]
            /\ enRows' = [enRows EXCEPT ![e] = @ \ enReq[r].rows]
            /\ enMarked' = [enMarked EXCEPT ![e] = @ \ enReq[r].rows]
            /\ enReq' = [enReq EXCEPT ![r].pc = "purge"]
            /\ UNCHANGED enLast
  /\ UNCHANGED <<enVectors, enQueue, enEmb, enUnclean, enRequests, enFaults>>

\* _purge_milvus_for_entries deletes by entry, whichever batch the vectors are of.
PurgeNothing(r) ==   \* mutant: the purge is forgotten
  /\ enReq[r].pc = "purge"
  /\ enReq' = [enReq EXCEPT ![r] = IF @.op = "delete" THEN IdleReq ELSE [@ EXCEPT !.pc = "dispatch"]]
  /\ UNCHANGED <<entryRow, enVectors, enQueue, enEmb, enUnclean, enRequests, enFaults>>
PurgeVectors(r) ==
  /\ enReq[r].pc = "purge"
  /\ enVectors' = [enVectors EXCEPT ![enReq[r].entry] = {}]
  /\ enReq' = [enReq EXCEPT ![r] = IF @.op = "delete" THEN IdleReq ELSE [@ EXCEPT !.pc = "dispatch"]]
  /\ UNCHANGED <<entryRow, enQueue, enEmb, enUnclean, enRequests, enFaults>>

\* Milvus stays away after three attempts, or the process dies: the request ends here
\* and no task is sent.
FailRequest(r) ==
  /\ EntryFault
  /\ enReq[r].pc \in {"purge", "dispatch"}
  /\ enUnclean' = enUnclean \cup {enReq[r].entry}
  /\ enReq' = [enReq EXCEPT ![r] = IdleReq]
  /\ UNCHANGED <<entryRow, enVectors, enQueue, enEmb, enRequests>>

DispatchEmbed(r) ==
  /\ enReq[r].pc = "dispatch"
  /\ enQueue' = Enqueued(enReq[r].entry)
  /\ enReq' = [enReq EXCEPT ![r] = IdleReq]
  /\ UNCHANGED <<entryRow, enVectors, enEmb, enUnclean, enRequests, enFaults>>

-----------------------------------------------------------------------------
(***************************************************************************)
(* embed_unit_chunks for entries.                                          *)
(***************************************************************************)

Unmarked(e) == enRows[e] \ enMarked[e]

\* A task without an entry or without rows to embed ends at once.
TakeEntry(w, e) ==
  /\ enEmb[w].pc = "idle" /\ enQueue[e] > 0
  /\ enQueue' = [enQueue EXCEPT ![e] = @ - 1]
  /\ IF Live(e) /\ Unmarked(e) # {}
       THEN /\ enEmb' = [enEmb EXCEPT ![w] = [pc |-> "upsert", entry |-> e, batch |-> Unmarked(e)]]
            /\ enUnclean' = IF \E q \in EnRequests : enReq[q].entry = e /\ enReq[q].pc # "dispatch"
                              THEN enUnclean \cup {e} ELSE enUnclean
       ELSE UNCHANGED <<enEmb, enUnclean>>
  /\ UNCHANGED <<entryRow, enVectors, enReq, enRequests, enFaults>>

UpsertEntry(w) ==
  LET e == enEmb[w].entry IN
  /\ enEmb[w].pc = "upsert"
  /\ enVectors' = [enVectors EXCEPT ![e] = @ \cup enEmb[w].batch]
  /\ enEmb' = [enEmb EXCEPT ![w].pc = "mark"]
  /\ UNCHANGED <<entryRow, enQueue, enReq, enUnclean, enRequests, enFaults>>

\* UPDATE ... WHERE id = vid: rows that are gone stay gone; the status of the entry is
\* written whatever rows it has by now.
MarkEntry(w) ==
  LET e == enEmb[w].entry IN
  /\ enEmb[w].pc = "mark"
  /\ enMarked' = [enMarked EXCEPT ![e] = @ \cup (enEmb[w].batch \cap enRows[e])]
  /\ enStatus' = IF Live(e) THEN [enStatus EXCEPT ![e] = "completed"] ELSE enStatus
  /\ enEmb' = [enEmb EXCEPT ![w] = IdleEmb]
  /\ UNCHANGED <<enText, enRows, enLast, enVectors, enQueue, enReq, enUnclean, enRequests, enFaults>>

\* An exception: the entry shows the error and the task is sent again, until its
\* retries are used up.
FailEmbed(w, again) ==
  LET e == enEmb[w].entry IN
  /\ EntryFault
  /\ enEmb[w].pc # "idle"
  /\ enStatus' = IF Live(e) THEN [enStatus EXCEPT ![e] = "error"] ELSE enStatus
  /\ enQueue' = IF again THEN Enqueued(e) ELSE enQueue
  /\ enEmb' = [enEmb EXCEPT ![w] = IdleEmb]
  /\ UNCHANGED <<enText, enRows, enMarked, enLast, enVectors, enReq, enUnclean, enRequests>>

-----------------------------------------------------------------------------
(***************************************************************************)
(* Repair.                                                                 *)
(***************************************************************************)

\* vector_backlog_compensation: rows without a vector for more than five minutes.
ResendBacklog(e) ==
  /\ Unmarked(e) # {} /\ enQueue[e] = 0
  /\ \A w \in EnEmbedders : enEmb[w].entry # e
  /\ enQueue' = Enqueued(e)
  /\ UNCHANGED <<entryRow, enVectors, enReq, enEmb, enUnclean, enRequests, enFaults>>

\* consistency_scan: rows whose vector is not in Milvus are unmarked.
NeverUnmark(e) == FALSE /\ UNCHANGED entryVars   \* mutant: the scan does not look at vectors
ScanVectors(e) ==
  /\ enMarked[e] \ enVectors[e] # {}
  /\ enMarked' = [enMarked EXCEPT ![e] = @ \cap enVectors[e]]
  /\ UNCHANGED <<enText, enStatus, enRows, enLast, enVectors, enQueue, enReq, enEmb, enUnclean,
                 enRequests, enFaults>>

EntryRequests(r) ==
  \/ \E e \in Entries : CreateEntry(r, e) \/ \E op \in {"edit", "title", "delete"} : OpenEntry(r, e, op)
  \/ CommitEdit(r) \/ CommitDelete(r) \/ PurgeVectors(r) \/ FailRequest(r) \/ DispatchEmbed(r)
EntryEmbedding(w) ==
  \/ \E e \in Entries : TakeEntry(w, e)
  \/ UpsertEntry(w) \/ MarkEntry(w) \/ \E again \in BOOLEAN : FailEmbed(w, again)
EntryNext ==
  \/ \E r \in EnRequests : EntryRequests(r)
  \/ \E w \in EnEmbedders : EntryEmbedding(w)
  \/ \E e \in Entries : ImportWithoutRows(e) \/ ResendBacklog(e) \/ ScanVectors(e)

\* Requests run to their end, the queue is served and the two beat tasks come round.
EntryFairness ==
  /\ \A r \in EnRequests : WF_entryVars(CommitEdit(r) \/ CommitDelete(r) \/ PurgeVectors(r) \/ DispatchEmbed(r))
  /\ \A w \in EnEmbedders : /\ WF_entryVars(UpsertEntry(w) \/ MarkEntry(w))
                            /\ \A e \in Entries : WF_entryVars(TakeEntry(w, e))
  /\ \A e \in Entries : WF_entryVars(ResendBacklog(e)) /\ WF_entryVars(ScanVectors(e))
EntrySpec == EntryInit /\ [][EntryNext]_entryVars

-----------------------------------------------------------------------------
\* However edits overlap, an entry never has rows of a text it no longer has.
RowsOfCurrentText == \A e \in Entries : Live(e) => enRows[e] \subseteq {enText[e]}

\* What a search finds is the current text: once its requests have ended, the
\* collection holds no vector of an older text or of a deleted entry, unless an
\* embedding or a second request overlapped an edit, or its purge failed.
OldVectorsPurged ==
  \A e \in Entries \ enUnclean :
    (\A r \in EnRequests : enReq[r].entry = e => enReq[r].pc \notin {"open", "purge"})
      => enVectors[e] \subseteq {enText[e]}

\* Rows and vectors of an entry are those of its text.
VectorsFollowText == RowsOfCurrentText /\ OldVectorsPurged

\* Whatever fails on the way, an entry with rows ends with all of them embedded and
\* their vectors in Milvus: the purge of an edit may remove vectors of the new rows,
\* tasks may be lost, and the scan and the backlog sweep make up for both.
EntriesIndexed ==
  \A e \in Entries : <>[](Live(e) => enRows[e] = enMarked[e] /\ enRows[e] \subseteq enVectors[e])
=============================================================================
