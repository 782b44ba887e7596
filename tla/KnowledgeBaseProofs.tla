-------------------------- MODULE KnowledgeBaseProofs --------------------------
(***************************************************************************)
(* Theorems about the rows of a knowledge base: the entries and their      *)
(* vectors, the review of documents, the tag dictionary, the life cycle of *)
(* documents, the life of a base with its collection, what the daily       *)
(* scans write about it and the summaries that are built over its chunks.  *)
(* Each holds for every size of the constants and for runs of any length.  *)
(***************************************************************************)
EXTENDS EntryIndex, DocumentReview, Tagging, DocumentLifecycle, CollectionLife, CoverageScans,
        SummaryTree, FiniteSetTheorems, SequenceTheorems, NaturalsInduction, TLAPS

-----------------------------------------------------------------------------
(****************************************************************************
 Entries: rows and vectors of an entry are those of its text.
 ****************************************************************************)

RequestStates == [pc : {"idle", "open", "purge", "dispatch"}, entry : Entries \cup {NoEntry},
                  op : {"edit", "title", "delete"}, rows : SUBSET Nat, text : Nat]
EmbedStates == [pc : {"idle", "upsert", "mark"}, entry : Entries \cup {NoEntry}, batch : SUBSET Nat]

EntryTypes ==
  /\ enText \in [Entries -> Nat] /\ enLast \in [Entries -> Nat]
  /\ enRows \in [Entries -> SUBSET Nat] /\ enMarked \in [Entries -> SUBSET Nat]
  /\ enVectors \in [Entries -> SUBSET Nat]
  /\ enReq \in [EnRequests -> RequestStates] /\ enEmb \in [EnEmbedders -> EmbedStates]
  /\ enUnclean \subseteq Entries

\* Who is at work is at work on an entry that has had a text, and who has opened it has
\* read a text that it had.
ActorsNamed ==
  /\ \A r \in EnRequests : enReq[r].pc = "idle" <=> enReq[r].entry = NoEntry
  /\ \A w \in EnEmbedders : enEmb[w].pc = "idle" <=> enEmb[w].entry = NoEntry
  /\ \A r \in EnRequests : enReq[r].pc # "idle" => enLast[enReq[r].entry] # 0
  /\ \A w \in EnEmbedders : enEmb[w].pc # "idle" => enLast[enEmb[w].entry] # 0
  /\ \A r \in EnRequests : enReq[r].pc = "open" => enReq[r].text \in 1..enLast[enReq[r].entry]

\* An entry without rows has had one text only, and one that was never made has nothing.
RowsSound ==
  \A e \in Entries :
    /\ enText[e] <= enLast[e]
    /\ Live(e) => enRows[e] \subseteq {enText[e]}
    /\ Live(e) /\ enRows[e] = {} => enLast[e] = 1
    /\ enLast[e] = 0 => enRows[e] = {} /\ enVectors[e] = {}

\* One request at a time is on an entry that is not unclean, no embedding overlaps its
\* edit, and until that has been purged the collection has the current text.
CleanSound ==
  \A e \in Entries : e \notin enUnclean =>
    /\ \A q, r \in EnRequests : enReq[q].entry = e /\ enReq[r].entry = e => q = r
    /\ \A r \in EnRequests, w \in EnEmbedders :
         enReq[r].entry = e /\ enReq[r].pc \in {"open", "purge"} => enEmb[w].entry # e
    /\ \A w \in EnEmbedders : enEmb[w].entry = e => enEmb[w].batch \subseteq {enText[e]}
    /\ (\A r \in EnRequests : enReq[r].entry = e => enReq[r].pc # "purge")
         => enVectors[e] \subseteq {enText[e]}

EntryInv == EntryTypes /\ ActorsNamed /\ RowsSound /\ CleanSound

\* Initially there is no entry.
LEMMA EntryStart == EntryInit => EntryInv
  BY EntryAssumption
  DEF EntryInit, EntryInv, EntryTypes, ActorsNamed, RowsSound, CleanSound, IdleReq, IdleEmb,
      RequestStates, EmbedStates, Live

\* The idle states, and the updates of the actions, are states of a request and of a task.
LEMMA EntryActorStates ==
  /\ IdleReq \in RequestStates /\ IdleReq.pc = "idle" /\ IdleReq.entry = NoEntry
  /\ IdleEmb \in EmbedStates /\ IdleEmb.pc = "idle" /\ IdleEmb.entry = NoEntry
  /\ \A s \in RequestStates, pc \in {"purge", "dispatch"} :
       /\ [s EXCEPT !.pc = pc] \in RequestStates
       /\ [s EXCEPT !.pc = pc].entry = s.entry /\ [s EXCEPT !.pc = pc].pc = pc
  /\ \A s \in EmbedStates : /\ [s EXCEPT !.pc = "mark"] \in EmbedStates
                            /\ [s EXCEPT !.pc = "mark"].entry = s.entry
                            /\ [s EXCEPT !.pc = "mark"].batch = s.batch
                            /\ [s EXCEPT !.pc = "mark"].pc = "mark"
  BY DEF IdleReq, IdleEmb, RequestStates, EmbedStates

\* The requests: each step keeps the invariant.
LEMMA RequestStep ==
  ASSUME EntryInv, NEW r \in EnRequests, EntryRequests(r) PROVE EntryInv'
<1> USE DEF EntryInv, EntryTypes
<1>0. enReq[r] \in RequestStates
  OBVIOUS
<1>1. ASSUME NEW e \in Entries, CreateEntry(r, e) PROVE EntryInv'
  <2> DEFINE s == [IdleReq EXCEPT !.pc = "dispatch", !.entry = e]
  <2>1. s \in RequestStates /\ s.pc = "dispatch" /\ s.entry = e
    BY DEF IdleReq, RequestStates
  <2>2. /\ enReq[r].pc = "idle" /\ enLast[e] = 0
        /\ enText' = [enText EXCEPT ![e] = 1] /\ enLast' = [enLast EXCEPT ![e] = 1]
        /\ enRows' = [enRows EXCEPT ![e] = {1}]
        /\ enReq' = [enReq EXCEPT ![r] = s]
        /\ UNCHANGED <<enMarked, enVectors, enEmb, enUnclean>>
    BY <1>1 DEF CreateEntry
  <2> HIDE DEF s
  <2>3. EntryTypes'
    BY <2>1, <2>2
  <2>4. ActorsNamed'
    BY <2>1, <2>2, EntryAssumption DEF ActorsNamed, RequestStates
  <2>5. RowsSound'
    BY <2>1, <2>2 DEF RowsSound, Live
  <2>6. /\ \A q \in EnRequests : enReq[q].entry # e
        /\ \A w \in EnEmbedders : enEmb[w].entry # e
    BY <2>2, EntryAssumption DEF ActorsNamed
  <2>7. CleanSound'
    BY <2>1, <2>2, <2>6 DEF CleanSound, RowsSound
  <2> QED
    BY <2>3, <2>4, <2>5, <2>7
<1>2. ASSUME NEW e \in Entries, NEW op \in {"edit", "title", "delete"}, OpenEntry(r, e, op)
      PROVE EntryInv'
  <2> DEFINE s == [pc |-> "open", entry |-> e, op |-> op, rows |-> enRows[e], text |-> enText[e]]
  <2>1. s \in RequestStates /\ s.pc = "open" /\ s.entry = e /\ s.text = enText[e]
    BY DEF RequestStates
  <2>2. /\ enReq[r].pc = "idle" /\ enText[e] # 0
        /\ enReq' = [enReq EXCEPT ![r] = s]
        /\ enUnclean' = IF OthersOn(r, e) THEN enUnclean \cup {e} ELSE enUnclean
        /\ UNCHANGED <<enText, enLast, enRows, enMarked, enVectors, enEmb>>
    BY <1>2 DEF OpenEntry, Live, entryRow
  <2> HIDE DEF s
  <2>3. EntryTypes'
    BY <2>1, <2>2
  <2>4. ActorsNamed'
    BY <2>1, <2>2, EntryAssumption DEF ActorsNamed, RowsSound, RequestStates
  <2>5. RowsSound'
    BY <2>1, <2>2 DEF RowsSound, Live
  <2>6. CleanSound'
    BY <2>1, <2>2, EntryAssumption DEF CleanSound, ActorsNamed, OthersOn
  <2> QED
    BY <2>3, <2>4, <2>5, <2>6
<1>3. ASSUME CommitEdit(r) PROVE EntryInv'
  <2> DEFINE e == enReq[r].entry
             n == IF enReq[r].op = "edit" THEN enLast[e] + 1 ELSE enReq[r].text
             s == [enReq[r] EXCEPT !.pc = "purge"]
  <2>1. /\ enReq[r].pc = "open" /\ e \in Entries /\ enReq[r].text \in 1..enLast[e]
        /\ enReq[r].op \in {"edit", "title"}
        /\ UNCHANGED <<enVectors, enEmb, enUnclean>>
    BY <1>0, <1>3 DEF CommitEdit, ActorsNamed, RequestStates
  <2>2. CASE ~Live(e) \/ ~Rechunks(r)
    <3>1. /\ enReq' = [enReq EXCEPT ![r] = IdleReq]
          /\ UNCHANGED <<enText, enLast, enRows, enMarked, enVectors, enEmb, enUnclean>>
      BY <1>3, <2>1, <2>2 DEF CommitEdit, entryRow
    <3>2. EntryTypes'
      BY <3>1, EntryActorStates
    <3>3. ActorsNamed'
      BY <3>1, EntryActorStates DEF ActorsNamed
    <3>4. RowsSound'
      BY <3>1 DEF RowsSound, Live
    <3>5. CleanSound'
      BY <2>1, <3>1, EntryActorStates, EntryAssumption DEF CleanSound
    <3> QED
      BY <3>2, <3>3, <3>4, <3>5
  <2>3. CASE Live(e) /\ Rechunks(r)
    <3>1. /\ enText' = [enText EXCEPT ![e] = IF enReq[r].op = "edit" THEN n ELSE @]
          /\ enLast' = [enLast EXCEPT ![e] = IF n > @ THEN n ELSE @]
          /\ enRows' = [enRows EXCEPT ![e] = {n}]
          /\ enMarked' = [enMarked EXCEPT ![e] = {}]
          /\ enReq' = [enReq EXCEPT ![r] = s]
      BY <1>3, <2>1, <2>3 DEF CommitEdit, NewRows
    <3>2. s \in RequestStates /\ s.pc = "purge" /\ s.entry = e
      BY <1>0, EntryActorStates
    <3>3. n \in Nat /\ n # 0 /\ enLast[e] \in Nat /\ enText[e] \in Nat
      BY <2>1
    <3>4. /\ enText'[e] = n /\ n <= enLast'[e] /\ enLast'[e] \in Nat /\ enLast'[e] >= enLast[e]
          /\ \A d \in Entries : d # e => enText'[d] = enText[d] /\ enLast'[d] = enLast[d]
      <4>1. CASE enReq[r].op = "edit"
        BY <2>1, <3>1, <3>3, <4>1
      <4>2. CASE enReq[r].op # "edit"
        <5>1. enRows[e] = {} /\ enLast[e] = 1
          BY <2>1, <2>3, <4>2 DEF Rechunks, RowsSound
        <5>2. enText[e] = 1 /\ n = 1
          BY <2>1, <2>3, <4>2, <5>1, <3>3 DEF RowsSound, Live
        <5> QED
          BY <2>1, <3>1, <3>3, <4>2, <5>1, <5>2
      <4> QED
        BY <4>1, <4>2
    <3> HIDE DEF n, s
    <3>5. EntryTypes'
      BY <2>1, <3>1, <3>2, <3>3
    <3>6. ActorsNamed'
      BY <2>1, <3>1, <3>2, <3>3, <3>4, EntryAssumption DEF ActorsNamed, RequestStates
    <3>7. RowsSound'
      <4>1. /\ enRows'[e] = {n} /\ enLast'[e] # 0 /\ enVectors' = enVectors
            /\ \A d \in Entries : d # e => enRows'[d] = enRows[d]
        BY <2>1, <3>1, <3>3, <3>4
      <4> SUFFICES ASSUME NEW d \in Entries
                   PROVE  /\ enText'[d] <= enLast'[d]
                          /\ enText'[d] # 0 => enRows'[d] \subseteq {enText'[d]}
                          /\ enText'[d] # 0 /\ enRows'[d] = {} => enLast'[d] = 1
                          /\ enLast'[d] = 0 => enRows'[d] = {} /\ enVectors'[d] = {}
        BY DEF RowsSound, Live
      <4>2. CASE d = e
        BY <3>4, <4>1, <4>2
      <4>3. CASE d # e
        BY <3>4, <4>1, <4>3 DEF RowsSound, Live
      <4> QED
        BY <4>2, <4>3
    <3>8. CleanSound'
      BY <2>1, <3>1, <3>2, <3>4 DEF CleanSound
    <3> QED
      BY <3>5, <3>6, <3>7, <3>8
  <2> QED
    BY <2>2, <2>3
<1>4. ASSUME CommitDelete(r) PROVE EntryInv'
  <2> DEFINE e == enReq[r].entry
             s == [enReq[r] EXCEPT !.pc = "purge"]
  <2>1. enReq[r].pc = "open" /\ e \in Entries /\ UNCHANGED <<enVectors, enEmb, enUnclean>>
    BY <1>0, <1>4 DEF CommitDelete, ActorsNamed, RequestStates
  <2>2. CASE ~Live(e)
    <3>1. /\ enReq' = [enReq EXCEPT ![r] = IdleReq]
          /\ UNCHANGED <<enText, enLast, enRows, enMarked, enVectors, enEmb, enUnclean>>
      BY <1>4, <2>1, <2>2 DEF CommitDelete, entryRow
    <3>2. EntryTypes'
      BY <3>1, EntryActorStates
    <3>3. ActorsNamed'
      BY <3>1, EntryActorStates DEF ActorsNamed
    <3>4. RowsSound'
      BY <3>1 DEF RowsSound, Live
    <3>5. CleanSound'
      BY <2>1, <3>1, EntryActorStates, EntryAssumption DEF CleanSound
    <3> QED
      BY <3>2, <3>3, <3>4, <3>5
  <2>3. CASE Live(e)
    <3>1. /\ enText' = [enText EXCEPT ![e] = 0] /\ enLast' = enLast
          /\ enRows' = [enRows EXCEPT ![e] = @ \ enReq[r].rows]
          /\ enMarked' = [enMarked EXCEPT ![e] = @ \ enReq[r].rows]
          /\ enReq' = [enReq EXCEPT ![r] = s]
      BY <1>4, <2>1, <2>3 DEF CommitDelete
    <3>2. s \in RequestStates /\ s.pc = "purge" /\ s.entry = e
      BY <1>0, EntryActorStates
    <3> HIDE DEF s
    <3>3. EntryTypes'
      BY <2>1, <3>1, <3>2
    <3>4. ActorsNamed'
      BY <2>1, <3>1, <3>2, EntryAssumption DEF ActorsNamed
    <3>5. RowsSound'
      BY <2>1, <3>1 DEF RowsSound, Live
    <3>6. CleanSound'
      BY <2>1, <3>1, <3>2 DEF CleanSound
    <3> QED
      BY <3>3, <3>4, <3>5, <3>6
  <2> QED
    BY <2>2, <2>3
<1>5. ASSUME PurgeVectors(r) PROVE EntryInv'
  <2> DEFINE e == enReq[r].entry
             s == IF enReq[r].op = "delete" THEN IdleReq ELSE [enReq[r] EXCEPT !.pc = "dispatch"]
  <2>1. /\ enReq[r].pc = "purge" /\ e \in Entries
        /\ enVectors' = [enVectors EXCEPT ![e] = {}] /\ enReq' = [enReq EXCEPT ![r] = s]
        /\ UNCHANGED <<enText, enLast, enRows, enMarked, enEmb, enUnclean>>
    BY <1>0, <1>5 DEF PurgeVectors, ActorsNamed, RequestStates, entryRow
  <2>2. /\ s \in RequestStates /\ s.pc \in {"idle", "dispatch"}
        /\ s.entry = IF s.pc = "idle" THEN NoEntry ELSE e
    BY <1>0, EntryActorStates
  <2> HIDE DEF s
  <2>3. EntryTypes'
    BY <2>1, <2>2
  <2>4. ActorsNamed'
    BY <2>1, <2>2, EntryAssumption DEF ActorsNamed
  <2>5. RowsSound'
    BY <2>1 DEF RowsSound, Live
  <2>6. CleanSound'
    BY <2>1, <2>2, EntryAssumption DEF CleanSound
  <2> QED
    BY <2>3, <2>4, <2>5, <2>6
<1>6. ASSUME FailRequest(r) PROVE EntryInv'
  <2>1. /\ enReq[r].pc # "idle" /\ enReq[r].entry \in Entries
        /\ enUnclean' = enUnclean \cup {enReq[r].entry} /\ enReq' = [enReq EXCEPT ![r] = IdleReq]
        /\ UNCHANGED <<enText, enLast, enRows, enMarked, enVectors, enEmb>>
    BY <1>0, <1>6 DEF FailRequest, ActorsNamed, RequestStates, entryRow
  <2>2. EntryTypes'
    BY <2>1, EntryActorStates
  <2>3. ActorsNamed'
    BY <2>1, EntryActorStates DEF ActorsNamed
  <2>4. RowsSound'
    BY <2>1 DEF RowsSound, Live
  <2>5. CleanSound'
    BY <2>1, EntryActorStates, EntryAssumption DEF CleanSound
  <2> QED
    BY <2>2, <2>3, <2>4, <2>5
<1>7. ASSUME DispatchEmbed(r) PROVE EntryInv'
  <2>1. /\ enReq[r].pc = "dispatch" /\ enReq' = [enReq EXCEPT ![r] = IdleReq]
        /\ UNCHANGED <<enText, enLast, enRows, enMarked, enVectors, enEmb, enUnclean>>
    BY <1>7 DEF DispatchEmbed, entryRow
  <2>2. EntryTypes'
    BY <2>1, EntryActorStates
  <2>3. ActorsNamed'
    BY <2>1, EntryActorStates DEF ActorsNamed
  <2>4. RowsSound'
    BY <2>1 DEF RowsSound, Live
  <2>5. CleanSound'
    BY <2>1, EntryActorStates, EntryAssumption DEF CleanSound
  <2> QED
    BY <2>2, <2>3, <2>4, <2>5
<1> QED
  BY <1>1, <1>2, <1>3, <1>4, <1>5, <1>6, <1>7 DEF EntryRequests

\* The embedding tasks.
LEMMA EmbeddingStep ==
  ASSUME EntryInv, NEW w \in EnEmbedders, EntryEmbedding(w) PROVE EntryInv'
<1> USE DEF EntryInv, EntryTypes
<1>0. enEmb[w] \in EmbedStates
  OBVIOUS
<1>1. ASSUME NEW e \in Entries, TakeEntry(w, e) PROVE EntryInv'
  <2> DEFINE s == [pc |-> "upsert", entry |-> e, batch |-> Unmarked(e)]
  <2>1. /\ enEmb[w].pc = "idle"
        /\ UNCHANGED <<enText, enLast, enRows, enMarked, enVectors, enReq>>
    BY <1>1 DEF TakeEntry, entryRow
  <2>2. CASE Live(e) /\ Unmarked(e) # {}
    <3>1. /\ enEmb' = [enEmb EXCEPT ![w] = s]
          /\ enUnclean' = IF \E q \in EnRequests : enReq[q].entry = e /\ enReq[q].pc # "dispatch"
                            THEN enUnclean \cup {e} ELSE enUnclean
      BY <1>1, <2>2 DEF TakeEntry
    <3>2. s \in EmbedStates /\ s.pc = "upsert" /\ s.entry = e /\ s.batch \subseteq {enText[e]}
      BY <2>2 DEF EmbedStates, Unmarked, RowsSound
    <3>3. enLast[e] # 0
      BY <2>2 DEF RowsSound, Live
    <3> HIDE DEF s
    <3>4. EntryTypes'
      BY <2>1, <3>1, <3>2
    <3>5. ActorsNamed'
      BY <2>1, <3>1, <3>2, <3>3, EntryAssumption DEF ActorsNamed
    <3>6. RowsSound'
      BY <2>1 DEF RowsSound, Live
    <3>7. CleanSound'
      BY <2>1, <3>1, <3>2 DEF CleanSound
    <3> QED
      BY <3>4, <3>5, <3>6, <3>7
  <2>3. CASE ~(Live(e) /\ Unmarked(e) # {})
    <3>1. UNCHANGED <<enEmb, enUnclean>>
      BY <1>1, <2>3 DEF TakeEntry
    <3> QED
      BY <2>1, <3>1 DEF ActorsNamed, RowsSound, CleanSound, Live
  <2> QED
    BY <2>2, <2>3
<1>2. ASSUME UpsertEntry(w) PROVE EntryInv'
  <2> DEFINE e == enEmb[w].entry
             s == [enEmb[w] EXCEPT !.pc = "mark"]
  <2>1. /\ enEmb[w].pc = "upsert" /\ e \in Entries /\ enLast[e] # 0
        /\ enVectors' = [enVectors EXCEPT ![e] = @ \cup enEmb[w].batch]
        /\ enEmb' = [enEmb EXCEPT ![w] = s]
        /\ UNCHANGED <<enText, enLast, enRows, enMarked, enReq, enUnclean>>
    BY <1>0, <1>2 DEF UpsertEntry, ActorsNamed, EmbedStates, entryRow
  <2>2. s \in EmbedStates /\ s.pc = "mark" /\ s.entry = e /\ s.batch = enEmb[w].batch
    BY <1>0, EntryActorStates
  <2>3. enEmb[w].batch \subseteq Nat
    BY <1>0 DEF EmbedStates
  <2> HIDE DEF s
  <2>4. EntryTypes'
    BY <2>1, <2>2, <2>3
  <2>5. ActorsNamed'
    BY <2>1, <2>2, EntryAssumption DEF ActorsNamed
  <2>6. RowsSound'
    BY <2>1 DEF RowsSound, Live
  <2>7. CleanSound'
    BY <2>1, <2>2 DEF CleanSound
  <2> QED
    BY <2>4, <2>5, <2>6, <2>7
<1>3. ASSUME MarkEntry(w) PROVE EntryInv'
  <2>1. /\ enEmb[w].pc = "mark"
        /\ enMarked' = [enMarked EXCEPT ![enEmb[w].entry] = @ \cup (enEmb[w].batch \cap enRows[enEmb[w].entry])]
        /\ enEmb' = [enEmb EXCEPT ![w] = IdleEmb]
        /\ UNCHANGED <<enText, enLast, enRows, enVectors, enReq, enUnclean>>
    BY <1>3 DEF MarkEntry
  <2>2. EntryTypes'
    BY <1>0, <2>1, EntryActorStates DEF EmbedStates
  <2>3. ActorsNamed'
    BY <2>1, EntryActorStates DEF ActorsNamed
  <2>4. RowsSound'
    BY <2>1 DEF RowsSound, Live
  <2>5. CleanSound'
    BY <2>1, EntryActorStates, EntryAssumption DEF CleanSound
  <2> QED
    BY <2>2, <2>3, <2>4, <2>5
<1>4. ASSUME NEW again \in BOOLEAN, FailEmbed(w, again) PROVE EntryInv'
  <2>1. /\ enEmb' = [enEmb EXCEPT ![w] = IdleEmb]
        /\ UNCHANGED <<enText, enLast, enRows, enMarked, enVectors, enReq, enUnclean>>
    BY <1>4 DEF FailEmbed
  <2>2. EntryTypes'
    BY <2>1, EntryActorStates
  <2>3. ActorsNamed'
    BY <2>1, EntryActorStates DEF ActorsNamed
  <2>4. RowsSound'
    BY <2>1 DEF RowsSound, Live
  <2>5. CleanSound'
    BY <2>1, EntryActorStates, EntryAssumption DEF CleanSound
  <2> QED
    BY <2>2, <2>3, <2>4, <2>5
<1> QED
  BY <1>1, <1>2, <1>3, <1>4 DEF EntryEmbedding

\* Every step keeps the invariant.
LEMMA EntryStep == EntryInv /\ [EntryNext]_entryVars => EntryInv'
<1> SUFFICES ASSUME EntryInv, [EntryNext]_entryVars PROVE EntryInv'
  OBVIOUS
<1> USE DEF EntryInv, EntryTypes
<1>1. ASSUME NEW e \in Entries, ImportWithoutRows(e) PROVE EntryInv'
  <2>1. /\ enLast[e] = 0
        /\ enText' = [enText EXCEPT ![e] = 1] /\ enLast' = [enLast EXCEPT ![e] = 1]
        /\ UNCHANGED <<enRows, enMarked, enVectors, enReq, enEmb, enUnclean>>
    BY <1>1 DEF ImportWithoutRows
  <2>2. ActorsNamed'
    BY <2>1 DEF ActorsNamed, RequestStates
  <2>3. RowsSound'
    BY <2>1 DEF RowsSound, Live
  <2>4. /\ \A q \in EnRequests : enReq[q].entry # e
        /\ \A w \in EnEmbedders : enEmb[w].entry # e
    BY <2>1, EntryAssumption DEF ActorsNamed
  <2>5. CleanSound'
    BY <2>1, <2>4 DEF CleanSound, RowsSound
  <2> QED
    BY <2>1, <2>2, <2>3, <2>5
<1>2. ASSUME NEW e \in Entries, ResendBacklog(e) PROVE EntryInv'
  BY <1>2 DEF ResendBacklog, entryRow, ActorsNamed, RowsSound, CleanSound, Live
<1>3. ASSUME NEW e \in Entries, ScanVectors(e) PROVE EntryInv'
  BY <1>3 DEF ScanVectors, ActorsNamed, RowsSound, CleanSound, Live
<1>4. CASE UNCHANGED entryVars
  BY <1>4 DEF entryVars, entryRow, ActorsNamed, RowsSound, CleanSound, Live
<1>5. CASE EntryNext
  BY <1>1, <1>2, <1>3, <1>5, RequestStep, EmbeddingStep DEF EntryNext
<1> QED
  BY <1>4, <1>5

\* However edits, deletions and embeddings of an entry overlap, its rows are those of its
\* current text, and the vectors too when nothing overlapped its edits and no purge failed.
THEOREM EntriesFollowText == EntrySpec => []VectorsFollowText
<1>1. EntryInv => VectorsFollowText
  <2> SUFFICES ASSUME EntryInv PROVE VectorsFollowText
    OBVIOUS
  <2>1. RowsOfCurrentText
    BY DEF EntryInv, RowsSound, RowsOfCurrentText
  <2>2. OldVectorsPurged
    BY DEF EntryInv, CleanSound, OldVectorsPurged
  <2> QED
    BY <2>1, <2>2 DEF VectorsFollowText
<1> QED
  BY <1>1, EntryStart, EntryStep, PTL DEF EntrySpec

-----------------------------------------------------------------------------
(****************************************************************************
 Review: the flags of chunks, whoever overlaps with whom.
 ****************************************************************************)

ReviewCalls == [op : ReviewOps, doc : RvDocs, user : RvUsers \cup {NoUser},
                seen : Subject \cup {"none"}, was : RvUsers \cup {NoUser}]

ReviewTypes ==
  /\ rvStatus \in [RvDocs -> Subject \cup {"none"}]
  /\ rvReviewer \in [RvDocs -> RvUsers \cup {NoUser}]
  /\ rvRows \in [RvDocs -> {"absent", "hidden", "shown"}]
  /\ rvCall \in [RvCalls -> {NoCall} \cup ReviewCalls]

On(c, d) == rvCall[c].op # "idle" /\ rvCall[c].doc = d

\* Nobody decides on what he has uploaded.
DecidersApart ==
  \A c \in RvCalls : rvCall[c].op \in Decisions =>
    rvCall[c].user \in RvUsers /\ rvCall[c].user # Uploader[rvCall[c].doc]

\* The only call on a document has seen it as it is.
LoneCallCurrent ==
  \A d \in RvDocs \ rvOverlap :
    /\ \A b, c \in RvCalls : On(b, d) /\ On(c, d) => b = c
    /\ \A c \in RvCalls : On(c, d) => rvCall[c].seen = rvStatus[d] /\ rvCall[c].was = rvReviewer[d]

\* Only an approval or a further run shows rows.
ShownByApproval ==
  \A d \in RvDocs : d \notin rvApprovals /\ d \notin rvRerun => rvRows[d] # "shown"

\* The flags and the reviewer are those of the decision.
FlagsOfDecision ==
  \A d \in RvDocs \ (rvOverlap \cup rvRerun) :
    /\ rvStatus[d] = "pending" => rvRows[d] # "shown"
    /\ rvRows[d] = "hidden" => rvStatus[d] \in {"pending", "rejected"}
    /\ rvStatus[d] \in {"approved", "rejected"} => rvReviewer[d] \in RvUsers \ {Uploader[d]}

ReviewInv ==
  ReviewTypes /\ DecidersApart /\ LoneCallCurrent /\ ShownByApproval /\ FlagsOfDecision

\* Initially no document has rows or calls.
LEMMA ReviewStart == ReviewInit => ReviewInv
  BY ReviewAssumption
  DEF ReviewInit, ReviewInv, ReviewTypes, DecidersApart, LoneCallCurrent, ShownByApproval,
      FlagsOfDecision, On, NoCall, Decisions

\* Opening a call: a second one on a document is remembered.
LEMMA OpenStep ==
  ASSUME ReviewInv, NEW c \in RvCalls, NEW op \in ReviewOps, NEW u \in RvUsers \cup {NoUser},
         NEW d \in RvDocs, OpenReview(c, op, u, d),
         op \in Decisions => u \in RvUsers /\ u # Uploader[d]
  PROVE  ReviewInv'
<1> DEFINE s == [op |-> op, doc |-> d, user |-> u, seen |-> rvStatus[d], was |-> rvReviewer[d]]
<1> USE DEF ReviewInv, ReviewTypes
<1>1. s \in ReviewCalls /\ s.op = op /\ s.doc = d /\ s.user = u /\ s.seen = rvStatus[d] /\ s.was = rvReviewer[d]
  BY DEF ReviewCalls
<1>2. /\ rvCall[c].op = "idle" /\ rvCall' = [rvCall EXCEPT ![c] = s]
      /\ rvOverlap' = IF Busy(d) THEN rvOverlap \cup {d} ELSE rvOverlap
      /\ UNCHANGED <<rvStatus, rvReviewer, rvRows, rvApprovals, rvRerun>>
  BY DEF OpenReview, reviewRow
<1> HIDE DEF s
<1>3. ReviewTypes'
  BY <1>1, <1>2
<1>4. DecidersApart'
  BY <1>1, <1>2 DEF DecidersApart
<1>5. LoneCallCurrent'
  BY <1>1, <1>2 DEF LoneCallCurrent, On, Busy
<1>6. ShownByApproval' /\ FlagsOfDecision'
  BY <1>2 DEF ShownByApproval, FlagsOfDecision
<1> QED
  BY <1>3, <1>4, <1>5, <1>6

\* A call that ends without a change.
LEMMA EndStep ==
  ASSUME ReviewInv, NEW c \in RvCalls, EndReview(c),
         UNCHANGED <<rvOverlap, rvApprovals, rvRerun>>
  PROVE  ReviewInv'
<1> USE DEF ReviewInv, ReviewTypes
<1>1. /\ rvCall' = [rvCall EXCEPT ![c] = NoCall] /\ NoCall.op = "idle" /\ "idle" \notin Decisions
      /\ UNCHANGED <<rvStatus, rvReviewer, rvRows>>
  BY DEF EndReview, reviewRow, NoCall, Decisions
<1>2. ReviewTypes'
  BY <1>1
<1>3. DecidersApart'
  BY <1>1 DEF DecidersApart
<1>4. LoneCallCurrent'
  BY <1>1 DEF LoneCallCurrent, On
<1>5. ShownByApproval' /\ FlagsOfDecision'
  BY <1>1 DEF ShownByApproval, FlagsOfDecision
<1> QED
  BY <1>2, <1>3, <1>4, <1>5

\* A call that writes: of a document that no second call has touched it writes what it means.
LEMMA WriteStep ==
  ASSUME ReviewInv, NEW c \in RvCalls, rvCall[c].op # "idle",
         NEW status \in Subject \cup {"none"}, NEW reviewer \in RvUsers \cup {NoUser},
         NEW rows \in {"absent", "hidden", "shown"},
         SetReview(c, status, reviewer, rows), rvOverlap' = rvOverlap,
         rvApprovals \subseteq rvApprovals', rvRerun \subseteq rvRerun',
         rows = "shown" => rvRows[rvCall[c].doc] = "shown" \/ rvCall[c].doc \in rvApprovals' \cup rvRerun',
         \/ rvCall[c].doc \in rvRerun'
         \/ /\ status = "pending" => rows # "shown"
            /\ rows = "hidden" => status \in {"pending", "rejected"}
            /\ status \in {"approved", "rejected"} => reviewer \in RvUsers \ {Uploader[rvCall[c].doc]}
         \/ rvCall[c].doc \in rvOverlap
  PROVE  ReviewInv'
<1> DEFINE d == rvCall[c].doc
<1> USE DEF ReviewInv, ReviewTypes
<1>1. d \in RvDocs
  BY DEF ReviewCalls, NoCall
<1>2. /\ rvStatus' = [rvStatus EXCEPT ![d] = Written(@, rvCall[c].seen, status)]
      /\ rvReviewer' = [rvReviewer EXCEPT ![d] = Written(@, rvCall[c].was, reviewer)]
      /\ rvRows' = [rvRows EXCEPT ![d] = rows]
      /\ rvCall' = [rvCall EXCEPT ![c] = NoCall]
  BY DEF SetReview
<1>3. NoCall.op = "idle" /\ "idle" \notin Decisions
  BY DEF NoCall, Decisions
<1>4. ReviewTypes'
  BY <1>1, <1>2 DEF Written
<1>5. DecidersApart'
  BY <1>2, <1>3 DEF DecidersApart
<1>6. LoneCallCurrent'
  BY <1>1, <1>2, <1>3 DEF LoneCallCurrent, On
<1>7. ShownByApproval'
  BY <1>1, <1>2 DEF ShownByApproval
<1>8. FlagsOfDecision'
  <2>1. d \notin rvOverlap => rvStatus'[d] = status /\ rvReviewer'[d] = reviewer
    BY <1>1, <1>2 DEF LoneCallCurrent, On, Written
  <2> QED
    BY <1>1, <1>2, <2>1 DEF FlagsOfDecision
<1> QED
  BY <1>4, <1>5, <1>6, <1>7, <1>8

\* Every step keeps the invariant.
LEMMA ReviewStep == ReviewInv /\ [ReviewNext]_reviewVars => ReviewInv'
<1> SUFFICES ASSUME ReviewInv, [ReviewNext]_reviewVars PROVE ReviewInv'
  OBVIOUS
<1>1. ASSUME NEW c \in RvCalls, NEW op \in Decisions, NEW u \in RvUsers, NEW d \in RvDocs,
             OpenDecision(c, op, u, d)
      PROVE  ReviewInv'
  BY <1>1, OpenStep DEF OpenDecision, MayDecideInKB, MayDecideUnit, ReviewOps
<1>2. ASSUME NEW c \in RvCalls, NEW u \in RvUsers, NEW d \in RvDocs, OpenRevert(c, u, d)
      PROVE  ReviewInv'
  BY <1>2, OpenStep DEF OpenRevert, ReviewOps, Decisions
<1>3. ASSUME NEW c \in RvCalls, NEW d \in RvDocs, OpenRun(c, d) PROVE ReviewInv'
  BY <1>3, OpenStep DEF OpenRun, ReviewOps, Decisions
<1>4. ASSUME NEW c \in RvCalls, CommitApprove(c) PROVE ReviewInv'
  <2>1. rvCall[c].op = "approve" /\ rvCall[c].user \in RvUsers \ {Uploader[rvCall[c].doc]}
    BY <1>4 DEF CommitApprove, ReviewInv, DecidersApart, Decisions
  <2>2. CASE Decidable(c)
    <3>1. /\ SetReview(c, "approved", rvCall[c].user, Excluded(rvCall[c].doc, FALSE))
          /\ rvApprovals' = rvApprovals \cup {rvCall[c].doc} /\ UNCHANGED <<rvOverlap, rvRerun>>
      BY <1>4, <2>2 DEF CommitApprove
    <3>2. Excluded(rvCall[c].doc, FALSE) \in {"absent", "shown"}
      BY DEF Excluded
    <3> QED
      BY <2>1, <3>1, <3>2, WriteStep DEF Subject
  <2>3. CASE ~Decidable(c)
    BY <1>4, <2>3, EndStep DEF CommitApprove
  <2> QED
    BY <2>2, <2>3
<1>5. ASSUME NEW c \in RvCalls, CommitReject(c) PROVE ReviewInv'
  <2>1. /\ rvCall[c].op = "reject" /\ rvCall[c].user \in RvUsers \ {Uploader[rvCall[c].doc]}
        /\ UNCHANGED <<rvOverlap, rvApprovals, rvRerun>>
    BY <1>5 DEF CommitReject, ReviewInv, DecidersApart, Decisions, reviewPast
  <2>2. CASE Decidable(c)
    <3>1. SetReview(c, "rejected", rvCall[c].user, rvRows[rvCall[c].doc])
      BY <1>5, <2>2 DEF CommitReject
    <3>2. rvRows[rvCall[c].doc] \in {"absent", "hidden", "shown"}
      BY <2>1 DEF ReviewInv, ReviewTypes, ReviewCalls, NoCall
    <3> QED
      BY <2>1, <3>1, <3>2, WriteStep DEF Subject
  <2>3. CASE ~Decidable(c)
    BY <1>5, <2>1, <2>3, EndStep DEF CommitReject
  <2> QED
    BY <2>2, <2>3
<1>6. ASSUME NEW c \in RvCalls, CommitRevert(c) PROVE ReviewInv'
  <2>1. rvCall[c].op = "revert" /\ UNCHANGED <<rvOverlap, rvApprovals, rvRerun>>
    BY <1>6 DEF CommitRevert, reviewPast
  <2>2. CASE rvRequired
    <3>1. SetReview(c, "pending", NoUser, Excluded(rvCall[c].doc, TRUE))
      BY <1>6, <2>2 DEF CommitRevert
    <3>2. Excluded(rvCall[c].doc, TRUE) \in {"absent", "hidden"}
      BY DEF Excluded
    <3> QED
      BY <2>1, <3>1, <3>2, WriteStep DEF Subject
  <2>3. CASE ~rvRequired
    BY <1>6, <2>1, <2>3, EndStep DEF CommitRevert
  <2> QED
    BY <2>2, <2>3
<1>7. ASSUME NEW c \in RvCalls, CommitRun(c) PROVE ReviewInv'
  <2>1. rvCall[c].op = "submit" /\ UNCHANGED <<rvOverlap, rvApprovals>>
    BY <1>7 DEF CommitRun
  <2>2. CASE Submits(c)
    <3>1. SetReview(c, "pending", NoUser, "hidden") /\ rvRerun' = rvRerun
      BY <1>7, <2>2 DEF CommitRun
    <3> QED
      BY <2>1, <3>1, WriteStep DEF Subject
  <2>3. CASE ~Submits(c)
    <3>1. /\ SetReview(c, rvCall[c].seen, rvCall[c].was, "shown")
          /\ rvRerun' = rvRerun \cup {rvCall[c].doc}
      BY <1>7, <2>3 DEF CommitRun
    <3>2. rvCall[c].seen \in Subject \cup {"none"} /\ rvCall[c].was \in RvUsers \cup {NoUser}
      BY <2>1 DEF ReviewInv, ReviewTypes, ReviewCalls, NoCall
    <3> QED
      BY <2>1, <3>1, <3>2, WriteStep
  <2> QED
    BY <2>2, <2>3
<1>8. CASE \/ RequireReview \/ \E d \in RvDocs : ArchiveReviewed(d)
           \/ UNCHANGED reviewVars
  <2>1. UNCHANGED <<rvStatus, rvReviewer, rvRows, rvCall, rvApprovals, rvOverlap, rvRerun>>
    BY <1>8 DEF RequireReview, ArchiveReviewed, reviewVars, reviewRow, reviewPast
  <2> QED
    BY <2>1 DEF ReviewInv, ReviewTypes, DecidersApart, LoneCallCurrent, ShownByApproval,
                FlagsOfDecision, On
<1>9. CASE ReviewNext
  BY <1>1, <1>2, <1>3, <1>4, <1>5, <1>6, <1>7, <1>8, <1>9 DEF ReviewNext
<1> QED
  BY <1>8, <1>9

\* However decisions, reverts and runs overlap, rows that no approval was committed for
\* are not shown, except those of a later run.
THEOREM ReviewHidesUnapproved == ReviewSpec => []UnapprovedHidden
<1>1. ReviewInv => UnapprovedHidden
  BY DEF ReviewInv, ShownByApproval, UnapprovedHidden
<1> QED
  BY <1>1, ReviewStart, ReviewStep, PTL DEF ReviewSpec

\* The flags, the reviewer and the queues agree with the decision on every document whose
\* calls did not overlap.
THEOREM ReviewFlagsFollow == ReviewSpec => []FlagsFollowStatus
<1>1. ReviewInv => FlagsFollowStatus
  BY ReviewAssumption
  DEF ReviewInv, ReviewTypes, FlagsOfDecision, FlagsFollowStatus, ReviewQueue, PendingOf
<1> QED
  BY <1>1, ReviewStart, ReviewStep, PTL DEF ReviewSpec

-----------------------------------------------------------------------------
(****************************************************************************
 Tags: every tag an entry carries has a row of the dictionary.
 ****************************************************************************)

\* A name an entry may carry: that of a row, unless a merge has replaced the row.
Carried(dict, merged) == {n \in TagNames : \E i \in Rows(dict) : dict[i].canon = n /\ (dict[i].dep => i \notin merged)}

\* What a backfill makes of one name.
Renamed(n, map) == IF \E p \in map : p[1] = n THEN (CHOOSE p \in map : p[1] = n)[2] ELSE n

\* A backfill that is sent when dict, merged becomes dict2, merged2 repairs what the write does.
Repairs(map, dict, merged, dict2, merged2) ==
  /\ \A n \in Carried(dict, merged) : Renamed(n, map) \in Carried(dict2, merged2)
  /\ \A p \in map : p[2] \in Carried(dict2, merged2)

TagDicts == [TagRows -> {NoRow} \cup [canon : TagNames, aliases : SUBSET TagNames, dep : BOOLEAN]]
OpenWrites == [dict : TagDicts, merged : SUBSET TagRows, backfill : Maps, tags : SUBSET TagNames, edits : BOOLEAN]

TagShape ==
  /\ TaggingTypeOK
  /\ tgWrite = NoWrite \/ tgWrite \in OpenWrites
  /\ tgBackfill \in Seq(Maps)
  /\ tgExtract = <<>> \/ tgExtract[1] \subseteq TagNames

\* A row that a merge replaced is deprecated, in the table and in the open write.
DictSound(dict, merged) == \A i \in merged : dict[i] # NoRow /\ dict[i].dep
MergedRowsDeprecated ==
  /\ Unique(tgDict) /\ DictSound(tgDict, tgMerged)
  /\ tgWrite # NoWrite => Unique(tgWrite.dict) /\ DictSound(tgWrite.dict, tgWrite.merged)

\* The cached map is the dictionary's; a write that leaves it does not change the dictionary.
CacheExact ==
  ~tgRaced /\ tgCache # <<>> => tgCache[1] = DictMap(tgDict) /\ (tgWrite # NoWrite => DictMap(tgWrite.dict) = DictMap(tgDict))

\* The open write sends the backfill it needs, and its tags are names of its dictionary.
WriteRepairs ==
  ~tgRaced /\ tgWrite # NoWrite =>
    /\ Repairs(tgWrite.backfill, tgDict, tgMerged, tgWrite.dict, tgWrite.merged)
    /\ tgWrite.edits => tgWrite.tags \subseteq Carried(tgWrite.dict, tgWrite.merged)

RowsCarry == tgTags \subseteq tgRows \/ tgRefresh

\* names[k] are names that the backfills from the k-th on turn into live ones: a live name
\* is one of them whatever waits, and so are the tags of the entry.
Leads(names, queue, live) ==
  /\ names \in [1..(Len(queue) + 1) -> SUBSET TagNames]
  /\ names[Len(queue) + 1] = live
  /\ \A k \in 1..Len(queue) : /\ live \subseteq names[k]
                              /\ \A t \in names[k] : Renamed(t, queue[k]) \in names[k + 1]
                              /\ \A p \in queue[k] : p[2] \in names[k + 1]
Settles(queue, live, tags) ==
  \E names \in [1..(Len(queue) + 1) -> SUBSET TagNames] : Leads(names, queue, live) /\ tags \subseteq names[1]
BackfillsLead == ~tgRaced => Settles(tgBackfill, Carried(tgDict, tgMerged), tgTags)

TagInv == TagShape /\ MergedRowsDeprecated /\ CacheExact /\ WriteRepairs /\ RowsCarry /\ BackfillsLead

-----------------------------------------------------------------------------
\* A renaming leaves a name as it is or replaces it by a target of the map.
LEMMA RenamedOf ==
  ASSUME NEW map \in Maps, NEW n \in TagNames
  PROVE  Renamed(n, map) \in TagNames /\ (Renamed(n, map) = n \/ \E p \in map : Renamed(n, map) = p[2])
<1>1. CASE \E p \in map : p[1] = n
  <2>1. (CHOOSE p \in map : p[1] = n) \in map
    BY <1>1
  <2> QED
    BY <1>1, <2>1 DEF Renamed, Maps
<1>2. CASE ~\E p \in map : p[1] = n
  BY <1>2 DEF Renamed
<1> QED
  BY <1>1, <1>2

\* A map of one pair renames that name only.
LEMMA RenamedOnce ==
  ASSUME NEW a, NEW b, NEW n
  PROVE  Renamed(n, {<<a, b>>}) = (IF n = a THEN b ELSE n)
<1>1. CASE n = a
  <2>1. <<a, b>> \in {<<a, b>>} /\ <<a, b>>[1] = n
    BY <1>1
  <2>2. (CHOOSE p \in {<<a, b>>} : p[1] = n) \in {<<a, b>>}
    BY <2>1
  <2> QED
    BY <1>1, <2>1, <2>2 DEF Renamed
<1>2. CASE n # a
  BY <1>2 DEF Renamed
<1> QED
  BY <1>1, <1>2

\* Rewriting a set of tags renames each of them.
LEMMA RewriteRenames ==
  ASSUME NEW S, NEW map
  PROVE  Rewrite(S, map) = {Renamed(t, map) : t \in S}
BY DEF Rewrite, Renamed

\* What the dictionary renames to has a row that stands.
LEMMA MapOfDictionary ==
  ASSUME NEW dict \in TagDicts, NEW merged
  PROVE  DictMap(dict) \in Maps /\ \A p \in DictMap(dict) : p[2] \in Carried(dict, merged)
<1>1. \A i \in Active(dict) : i \in TagRows /\ dict[i].canon \in TagNames /\ dict[i].aliases \subseteq TagNames /\ ~dict[i].dep
                              /\ dict[i].canon \in Carried(dict, merged)
  BY DEF Active, Rows, TagDicts, Carried
<1>2. ASSUME NEW p \in DictMap(dict) PROVE p \in TagNames \X TagNames /\ p[2] \in Carried(dict, merged)
  <2>1. PICK i \in Active(dict) : p \in ({dict[i].canon} \cup dict[i].aliases) \X {dict[i].canon}
    BY <1>2 DEF DictMap
  <2> QED
    BY <1>1, <2>1
<1> QED
  BY <1>2 DEF Maps

\* A row made for an unknown tag is a row of the dictionary.
LEMMA NewRowIsARow ==
  ASSUME NEW n \in TagNames
  PROVE  NewRow(n) # NoRow /\ NewRow(n) \in [canon : TagNames, aliases : SUBSET TagNames, dep : BOOLEAN]
BY TaggingAssumption DEF NewRow, NoRow

\* What normalising gives: canonical names and the unknown ones, live once their row is there.
LEMMA CanonicalsAre ==
  ASSUME TagInv, NEW S \in SUBSET TagNames
  PROVE  /\ Unknown(S) \subseteq TagNames /\ Canonicals(S) \subseteq TagNames
         /\ ~tgRaced => Canonicals(S) \subseteq Carried(tgDict, tgMerged) \cup Unknown(S)
<1>1. tgDict \in TagDicts
  BY DEF TagInv, TagShape, TaggingTypeOK, TagDicts
<1>2. CurrentMap \in Maps /\ (~tgRaced => \A p \in CurrentMap : p[2] \in Carried(tgDict, tgMerged))
  <2>1. CASE tgCache = <<>>
    BY <1>1, <2>1, MapOfDictionary DEF CurrentMap
  <2>2. CASE tgCache # <<>>
    <3>1. CurrentMap = tgCache[1] /\ tgCache[1] \in Maps /\ (~tgRaced => tgCache[1] = DictMap(tgDict))
      BY <2>2 DEF CurrentMap, TagInv, TagShape, TaggingTypeOK, CacheExact
    <3> QED
      BY <1>1, <3>1, MapOfDictionary
  <2> QED
    BY <2>1, <2>2
<1>3. ASSUME NEW n \in S \ Unknown(S) PROVE (CHOOSE p \in CurrentMap : p[1] = n) \in CurrentMap
  BY DEF Unknown
<1>4. ASSUME NEW c \in Canonicals(S) PROVE c \in TagNames /\ (~tgRaced => c \in Carried(tgDict, tgMerged) \cup Unknown(S))
  <2>1. CASE c \in Unknown(S)
    BY <2>1 DEF Unknown
  <2>2. CASE c \notin Unknown(S)
    <3>1. PICK n \in S \ Unknown(S) : c = (CHOOSE p \in CurrentMap : p[1] = n)[2]
      BY <2>2 DEF Canonicals
    <3> QED
      BY <1>2, <1>3, <3>1 DEF Maps
  <2> QED
    BY <2>1, <2>2
<1> QED
  BY <1>4 DEF Unknown

\* _normalize_tags: the dictionary stays unique and knows every tag it was given.
LEMMA NormalisedDictionary ==
  ASSUME TagInv, NEW S \in SUBSET TagNames, NEW i \in TagRows, Normalisable(S, i)
  PROVE  LET d == WithNew(S, i) IN
         /\ d \in TagDicts /\ Unique(d) /\ DictSound(d, tgMerged)
         /\ Carried(tgDict, tgMerged) \subseteq Carried(d, tgMerged) /\ Unknown(S) \subseteq Carried(d, tgMerged)
         /\ Unknown(S) = {} => d = tgDict
<1> DEFINE d == WithNew(S, i)
<1>1. tgDict \in TagDicts /\ tgMerged \subseteq TagRows /\ DictSound(tgDict, tgMerged)
  BY DEF TagInv, TagShape, TaggingTypeOK, TagDicts, MergedRowsDeprecated
<1>2. CASE Unknown(S) = {}
  BY <1>1, <1>2 DEF WithNew, Normalisable
<1>3. CASE Unknown(S) # {}
  <2>1. PICK u : Unknown(S) = {u}
    <3>1. IsFiniteSet(Unknown(S))
      BY TaggingAssumption, FS_Subset DEF Unknown
    <3>2. Cardinality(Unknown(S)) \in Nat /\ Cardinality(Unknown(S)) # 0 /\ Cardinality(Unknown(S)) <= 1
      BY <1>3, <3>1, FS_CardinalityType, FS_EmptySet DEF Normalisable
    <3>3. Cardinality(Unknown(S)) = 1
      BY <3>2
    <3> QED
      BY <3>1, <3>3, FS_Singleton, Zenon
  <2>2. u \in TagNames /\ (CHOOSE n \in Unknown(S) : TRUE) = u
    BY <2>1 DEF Unknown
  <2>3. d = [tgDict EXCEPT ![i] = NewRow(u)] /\ tgDict[i] = NoRow
    BY <1>3, <2>2 DEF WithNew, Normalisable
  <2>4. d \in TagDicts /\ d[i] = NewRow(u) /\ d[i].canon = u /\ ~d[i].dep /\ d[i] # NoRow /\ \A j \in TagRows \ {i} : d[j] = tgDict[j]
    BY <1>1, <2>2, <2>3, NewRowIsARow DEF TagDicts, NewRow
  <2>5. DOMAIN tgDict = TagRows /\ DOMAIN d = TagRows
    BY <1>1, <2>4 DEF TagDicts
  <2> HIDE DEF d
  <2>6. u \in Carried(d, tgMerged)
    BY <2>2, <2>4, <2>5 DEF Carried, Rows
  <2>7. ASSUME NEW n \in Carried(tgDict, tgMerged) PROVE n \in Carried(d, tgMerged)
    <3>1. PICK j \in Rows(tgDict) : tgDict[j].canon = n /\ (tgDict[j].dep => j \notin tgMerged)
      BY DEF Carried
    <3>2. j # i /\ d[j] = tgDict[j] /\ j \in Rows(d)
      BY <2>3, <2>4, <2>5, <3>1 DEF Rows
    <3> QED
      BY <3>1, <3>2 DEF Carried
  <2>8. DictSound(d, tgMerged)
    BY <1>1, <2>3, <2>4 DEF DictSound
  <2>9. Unique(d)
    BY DEF Normalisable, d
  <2> QED
    BY <1>3, <2>1, <2>4, <2>6, <2>7, <2>8, <2>9 DEF d
<1> QED
  BY <1>2, <1>3

\* Taking an element out of a sequence: its length, and what moves up.
LEMMA RemovedAt ==
  ASSUME NEW S, NEW s \in Seq(S), NEW k \in 1..Len(s)
  PROVE  /\ RemoveAt(s, k) \in Seq(S) /\ Len(RemoveAt(s, k)) = Len(s) - 1
         /\ k = 1 => \A i \in 1..(Len(s) - 1) : RemoveAt(s, k)[i] = s[i + 1]
<1> DEFINE before == SubSeq(s, 1, k - 1)
           after == SubSeq(s, k + 1, Len(s))
<1>1. Len(s) \in Nat /\ k \in Int /\ \A i \in 1..Len(s) : s[i] \in S
  BY LenProperties
<1>2. before \in Seq(S) /\ Len(before) = k - 1
  BY <1>1, SubSeqProperties
<1>3. after \in Seq(S) /\ Len(after) = Len(s) - k /\ \A i \in 1..(Len(s) - k) : after[i] = s[k + i]
  <2>1. /\ after \in Seq(S) /\ Len(after) = IF k + 1 <= Len(s) THEN Len(s) - (k + 1) + 1 ELSE 0
        /\ \A i \in 1..(Len(s) - (k + 1) + 1) : after[i] = s[(k + 1) + i - 1]
    BY <1>1, SubSeqProperties
  <2> QED
    BY <1>1, <2>1
<1> HIDE DEF before, after
<1>4. /\ before \o after \in Seq(S) /\ Len(before \o after) = Len(s) - 1
      /\ \A i \in 1..(Len(s) - 1) : (before \o after)[i] = IF i <= k - 1 THEN before[i] ELSE after[i - (k - 1)]
  BY <1>1, <1>2, <1>3, ConcatProperties
<1>5. RemoveAt(s, k) = before \o after
  BY DEF RemoveAt, before, after
<1>6. ASSUME k = 1, NEW i \in 1..(Len(s) - 1) PROVE (before \o after)[i] = s[i + 1]
  <2>1. (before \o after)[i] = after[i] /\ after[i] = s[1 + i]
    BY <1>1, <1>3, <1>4, <1>6
  <2> QED
    BY <2>1
<1> QED
  BY <1>1, <1>4, <1>5, <1>6

\* More live names, of rows a step adds.
LEMMA SettlesOnGrowth ==
  ASSUME NEW queue \in Seq(Maps), NEW live \in SUBSET TagNames, NEW grown \in SUBSET TagNames, NEW tags, NEW more,
         live \subseteq grown, Settles(queue, live, tags), more \subseteq tags \cup grown
  PROVE  Settles(queue, grown, more)
<1> DEFINE n == Len(queue)
<1>1. PICK names \in [1..(n + 1) -> SUBSET TagNames] : Leads(names, queue, live) /\ tags \subseteq names[1]
  BY DEF Settles
<1>2. n \in Nat /\ \A k \in 1..n : queue[k] \in Maps
  BY LenProperties
<1> DEFINE wider == [k \in 1..(n + 1) |-> names[k] \cup grown]
<1>3. wider \in [1..(n + 1) -> SUBSET TagNames] /\ \A k \in 1..(n + 1) : wider[k] = names[k] \cup grown
  BY <1>1
<1>4. wider[n + 1] = grown /\ names[n + 1] = live
  BY <1>1, <1>2, <1>3 DEF Leads
<1> HIDE DEF wider
<1>5. ASSUME NEW k \in 1..n
      PROVE  /\ grown \subseteq wider[k]
             /\ \A t \in wider[k] : Renamed(t, queue[k]) \in wider[k + 1]
             /\ \A p \in queue[k] : p[2] \in wider[k + 1]
  <2>1. k \in 1..(n + 1) /\ k + 1 \in 1..(n + 1) /\ queue[k] \in Maps
    BY <1>2
  <2>2. /\ \A t \in names[k] : Renamed(t, queue[k]) \in names[k + 1]
        /\ \A p \in queue[k] : p[2] \in names[k + 1]
    BY <1>1 DEF Leads
  <2>3. ASSUME NEW t \in grown PROVE Renamed(t, queue[k]) \in wider[k + 1]
    BY <1>3, <2>1, <2>2, RenamedOf
  <2> QED
    BY <1>3, <2>1, <2>2, <2>3
<1>6. Leads(wider, queue, grown)
  BY <1>3, <1>4, <1>5 DEF Leads
<1>7. more \subseteq wider[1]
  BY <1>1, <1>2, <1>3
<1> QED
  BY <1>3, <1>6, <1>7 DEF Settles

\* A write commits and sends the backfill that repairs it.
LEMMA SettlesOnSend ==
  ASSUME NEW queue \in Seq(Maps), NEW live \in SUBSET TagNames, NEW now \in SUBSET TagNames, NEW tags, NEW more,
         NEW map \in Maps, \A t \in live : Renamed(t, map) \in now, \A p \in map : p[2] \in now,
         Settles(queue, live, tags), more \subseteq tags \cup now
  PROVE  Settles(Append(queue, map), now, more)
<1> DEFINE n == Len(queue)
           sent == Append(queue, map)
<1>1. PICK names \in [1..(n + 1) -> SUBSET TagNames] : Leads(names, queue, live) /\ tags \subseteq names[1]
  BY DEF Settles
<1>2. n \in Nat /\ \A k \in 1..n : queue[k] \in Maps
  BY LenProperties
<1>3. Len(sent) = n + 1 /\ sent[n + 1] = map /\ \A k \in 1..n : sent[k] = queue[k]
  BY <1>2
<1> HIDE DEF sent
<1> DEFINE wider == [k \in 1..(n + 2) |-> IF k = n + 2 THEN now ELSE names[k] \cup now]
<1>4. /\ wider \in [1..(n + 2) -> SUBSET TagNames] /\ wider[n + 2] = now
      /\ \A k \in 1..(n + 1) : wider[k] = names[k] \cup now
      /\ names[n + 1] = live
  BY <1>1, <1>2 DEF Leads
<1> HIDE DEF wider
<1>5. ASSUME NEW k \in 1..(n + 1)
      PROVE  /\ now \subseteq wider[k]
             /\ \A t \in wider[k] : Renamed(t, sent[k]) \in wider[k + 1]
             /\ \A p \in sent[k] : p[2] \in wider[k + 1]
  <2>1. CASE k = n + 1
    <3>1. wider[k] = live \cup now /\ wider[k + 1] = now /\ sent[k] = map
      BY <1>2, <1>3, <1>4, <2>1
    <3>2. \A t \in now : Renamed(t, map) \in now
      BY RenamedOf
    <3> QED
      BY <3>1, <3>2
  <2>2. CASE k # n + 1
    <3>1. k \in 1..n /\ k + 1 \in 1..(n + 1) /\ queue[k] \in Maps /\ sent[k] = queue[k]
      BY <1>2, <1>3, <2>2
    <3>2. /\ \A t \in names[k] : Renamed(t, queue[k]) \in names[k + 1]
          /\ \A p \in queue[k] : p[2] \in names[k + 1]
      BY <1>1, <3>1 DEF Leads
    <3>3. ASSUME NEW t \in now PROVE Renamed(t, queue[k]) \in wider[k + 1]
      BY <1>4, <3>1, <3>2, RenamedOf
    <3> QED
      BY <1>4, <3>1, <3>2, <3>3
  <2> QED
    BY <2>1, <2>2
<1>6. Leads(wider, sent, now)
  <2>1. Len(sent) + 1 = n + 2
    BY <1>2, <1>3
  <2> QED
    BY <1>2, <1>3, <1>4, <1>5, <2>1 DEF Leads
<1>7. more \subseteq wider[1] /\ wider \in [1..(Len(sent) + 1) -> SUBSET TagNames]
  BY <1>1, <1>2, <1>3, <1>4
<1> QED
  BY <1>6, <1>7 DEF Settles, sent

\* The first backfill runs.
LEMMA SettlesOnBackfill ==
  ASSUME NEW queue \in Seq(Maps), NEW live \in SUBSET TagNames, NEW tags, 1 \in DOMAIN queue,
         Settles(queue, live, tags)
  PROVE  Settles(RemoveAt(queue, 1), live, Rewrite(tags, queue[1]))
<1> DEFINE n == Len(queue)
           rest == RemoveAt(queue, 1)
<1>1. PICK names \in [1..(n + 1) -> SUBSET TagNames] : Leads(names, queue, live) /\ tags \subseteq names[1]
  BY DEF Settles
<1>2. n \in Nat \ {0} /\ \A k \in 1..n : queue[k] \in Maps
  BY LenProperties
<1>3. rest \in Seq(Maps) /\ Len(rest) = n - 1 /\ \A k \in 1..(n - 1) : rest[k] = queue[k + 1]
  BY <1>2, RemovedAt
<1> HIDE DEF rest
<1> DEFINE later == [k \in 1..n |-> names[k + 1]]
<1>4. later \in [1..n -> SUBSET TagNames] /\ \A k \in 1..n : later[k] = names[k + 1]
  BY <1>1, <1>2
<1> HIDE DEF later
<1>5. Leads(later, rest, live)
  <2>1. Len(rest) + 1 = n
    BY <1>2, <1>3
  <2>2. ASSUME NEW k \in 1..(n - 1)
        PROVE  /\ live \subseteq later[k]
               /\ \A t \in later[k] : Renamed(t, rest[k]) \in later[k + 1]
               /\ \A p \in rest[k] : p[2] \in later[k + 1]
    <3>1. k \in 1..n /\ k + 1 \in 1..n
      BY <1>2
    <3> QED
      BY <1>1, <1>3, <1>4, <3>1 DEF Leads
  <2>3. later[n] = live
    BY <1>1, <1>2, <1>4 DEF Leads
  <2> QED
    BY <1>2, <1>3, <1>4, <2>1, <2>2, <2>3 DEF Leads
<1>6. Rewrite(tags, queue[1]) \subseteq later[1]
  <2>1. \A t \in names[1] : Renamed(t, queue[1]) \in names[1 + 1]
    BY <1>1, <1>2 DEF Leads
  <2>2. later[1] = names[1 + 1]
    BY <1>2, <1>4
  <2> QED
    BY <1>1, <2>1, <2>2, RewriteRenames
<1>7. Len(rest) + 1 = n
  BY <1>2, <1>3
<1> QED
  BY <1>4, <1>5, <1>6, <1>7 DEF Settles, rest

-----------------------------------------------------------------------------
\* The steps: the dictionary.
LEMMA TagShapes ==
  ASSUME TagInv
  PROVE  /\ tgDict \in TagDicts /\ tgMerged \subseteq TagRows /\ tgBackfill \in Seq(Maps)
         /\ tgTags \subseteq TagNames /\ tgAuto \subseteq TagNames /\ tgRejected \subseteq TagNames /\ tgRows \subseteq TagNames
         /\ Carried(tgDict, tgMerged) \in SUBSET TagNames
         /\ tgWrite # NoWrite => tgWrite \in OpenWrites
BY DEF TagInv, TagShape, TaggingTypeOK, TagDicts, Carried

\* Every write of the dictionary, with the backfill it queues, keeps TagInv.
LEMMA OpenWriteStep ==
  ASSUME TagInv, NEW dict \in TagDicts, NEW merged \in SUBSET TagRows, NEW backfill \in Maps,
         OpenWrite(dict, merged, backfill), DictSound(dict, merged),
         Repairs(backfill, tgDict, tgMerged, dict, merged)
  PROVE  TagInv'
<1> DEFINE w == [dict |-> dict, merged |-> merged, backfill |-> backfill, tags |-> {}, edits |-> FALSE]
<1>1. /\ tgWrite = NoWrite /\ Unique(dict) /\ tgWrite' = w /\ tgCache' = <<>> /\ tgOps < MaxTagOps /\ tgOps' = tgOps + 1
      /\ UNCHANGED <<tgDict, tgMerged, tgBackfill, tgTags, tgAuto, tgRejected, tgRows, tgRefresh, tgExtract, tgRaced>>
  BY DEF OpenWrite, TagOp, tagEntry
<1>2. w \in OpenWrites /\ w.dict = dict /\ w.merged = merged /\ w.backfill = backfill /\ w.edits = FALSE
  BY DEF OpenWrites
<1> HIDE DEF w
<1>3. TagShape'
  BY <1>1, <1>2, TaggingAssumption DEF TagInv, TagShape, TaggingTypeOK
<1>4. MergedRowsDeprecated' /\ CacheExact' /\ RowsCarry' /\ WriteRepairs'
  BY <1>1, <1>2 DEF TagInv, MergedRowsDeprecated, CacheExact, RowsCarry, WriteRepairs
<1>5. BackfillsLead'
  BY <1>1 DEF TagInv, BackfillsLead
<1> QED
  BY <1>3, <1>4, <1>5 DEF TagInv

\* A write that changes no canonical name and sends no backfill.
LEMMA NothingToRepair ==
  ASSUME NEW dict \in TagDicts, NEW merged \in SUBSET TagRows, NEW dict2 \in TagDicts,
         \A i \in TagRows : dict[i] # NoRow /\ (dict[i].dep => i \notin merged) =>
           dict2[i] # NoRow /\ dict2[i].canon = dict[i].canon /\ (dict2[i].dep => i \notin merged)
  PROVE  Repairs({}, dict, merged, dict2, merged)
<1>1. DOMAIN dict = TagRows /\ DOMAIN dict2 = TagRows
  BY DEF TagDicts
<1>2. ASSUME NEW n \in Carried(dict, merged) PROVE n \in Carried(dict2, merged)
  <2>1. PICK i \in Rows(dict) : dict[i].canon = n /\ (dict[i].dep => i \notin merged)
    BY DEF Carried
  <2> QED
    BY <1>1, <2>1 DEF Carried, Rows
<1> QED
  BY <1>2 DEF Repairs, Renamed

\* A write that replaces one name by a live one.
LEMMA OneNameRepaired ==
  ASSUME NEW a, NEW b, NEW dict, NEW merged, NEW dict2, NEW merged2, b \in Carried(dict2, merged2),
         \A t \in Carried(dict, merged) : t # a => t \in Carried(dict2, merged2)
  PROVE  Repairs({<<a, b>>}, dict, merged, dict2, merged2)
<1>1. \A t \in Carried(dict, merged) : Renamed(t, {<<a, b>>}) \in Carried(dict2, merged2)
  <2> SUFFICES ASSUME NEW t \in Carried(dict, merged) PROVE Renamed(t, {<<a, b>>}) \in Carried(dict2, merged2)
    OBVIOUS
  <2>1. \A n : Renamed(n, {<<a, b>>}) = (IF n = a THEN b ELSE n)
    BY RenamedOnce, Zenon
  <2> QED
    BY <2>1
<1>2. \A p \in {<<a, b>>} : p[2] = b
  OBVIOUS
<1> QED
  BY <1>1, <1>2 DEF Repairs

\* One lemma for each operation on the dictionary: creating a tag.
LEMMA CreateTagStep ==
  ASSUME TagInv, NEW i \in TagRows, NEW n \in TagNames, CreateTag(i, n)
  PROVE  TagInv'
<1> DEFINE d == [tgDict EXCEPT ![i] = NewRow(n)]
<1>1. d \in TagDicts /\ tgDict[i] = NoRow /\ d[i] = NewRow(n) /\ \A j \in TagRows \ {i} : d[j] = tgDict[j]
  BY TagShapes, NewRowIsARow DEF TagDicts, CreateTag
<1>2. tgDict \in TagDicts /\ tgMerged \in SUBSET TagRows /\ DictSound(tgDict, tgMerged)
  BY TagShapes DEF TagInv, MergedRowsDeprecated
<1>3. OpenWrite(d, tgMerged, {})
  BY DEF CreateTag
<1> HIDE DEF d
<1>4. DictSound(d, tgMerged)
  BY <1>1, <1>2 DEF DictSound
<1>5. Repairs({}, tgDict, tgMerged, d, tgMerged)
  BY <1>1, <1>2, NothingToRepair
<1> QED
  BY <1>1, <1>2, <1>3, <1>4, <1>5, OpenWriteStep DEF Maps

\* Editing the aliases of a tag.
LEMMA SetAliasesStep ==
  ASSUME TagInv, NEW i \in TagRows, NEW S \in SUBSET TagNames, SetAliases(i, S)
  PROVE  TagInv'
<1> DEFINE row == [tgDict[i] EXCEPT !.aliases = S]
           d == [tgDict EXCEPT ![i].aliases = S]
<1>1. tgDict \in TagDicts /\ tgMerged \in SUBSET TagRows /\ DictSound(tgDict, tgMerged) /\ tgDict[i] # NoRow
  BY TagShapes DEF TagInv, MergedRowsDeprecated, SetAliases
<1>2. tgDict[i] \in [canon : TagNames, aliases : SUBSET TagNames, dep : BOOLEAN]
  BY <1>1 DEF TagDicts
<1>3. row \in [canon : TagNames, aliases : SUBSET TagNames, dep : BOOLEAN] /\ row.canon = tgDict[i].canon /\ row.dep = tgDict[i].dep
  BY <1>2
<1>4. row # NoRow
  BY <1>3, TaggingAssumption DEF NoRow
<1>5. d \in TagDicts /\ d[i] = row /\ \A j \in TagRows \ {i} : d[j] = tgDict[j]
  BY <1>1, <1>3 DEF TagDicts
<1>6. OpenWrite(d, tgMerged, {})
  BY DEF SetAliases
<1> HIDE DEF d, row
<1>7. DictSound(d, tgMerged)
  BY <1>1, <1>3, <1>4, <1>5 DEF DictSound
<1>8. Repairs({}, tgDict, tgMerged, d, tgMerged)
  BY <1>1, <1>3, <1>4, <1>5, NothingToRepair
<1> QED
  BY <1>1, <1>5, <1>6, <1>7, <1>8, OpenWriteStep DEF Maps

\* Deleting a tag.
LEMMA DeleteTagStep ==
  ASSUME TagInv, NEW i \in TagRows, DeleteTag(i)
  PROVE  TagInv'
<1> DEFINE row == [tgDict[i] EXCEPT !.dep = TRUE]
           d == [tgDict EXCEPT ![i].dep = TRUE]
<1>1. tgDict \in TagDicts /\ tgMerged \in SUBSET TagRows /\ DictSound(tgDict, tgMerged) /\ tgDict[i] # NoRow /\ ~tgDict[i].dep
  BY TagShapes DEF TagInv, MergedRowsDeprecated, DeleteTag, Active, Rows
<1>2. tgDict[i] \in [canon : TagNames, aliases : SUBSET TagNames, dep : BOOLEAN]
  BY <1>1 DEF TagDicts
<1>3. row \in [canon : TagNames, aliases : SUBSET TagNames, dep : BOOLEAN] /\ row.canon = tgDict[i].canon /\ row.dep
  BY <1>2
<1>4. row # NoRow
  BY <1>3, TaggingAssumption DEF NoRow
<1>5. d \in TagDicts /\ d[i] = row /\ \A j \in TagRows \ {i} : d[j] = tgDict[j]
  BY <1>1, <1>3 DEF TagDicts
<1>6. OpenWrite(d, tgMerged, {})
  BY DEF DeleteTag
<1> HIDE DEF d, row
<1>7. DictSound(d, tgMerged) /\ i \notin tgMerged
  BY <1>1, <1>3, <1>4, <1>5 DEF DictSound
<1>8. Repairs({}, tgDict, tgMerged, d, tgMerged)
  BY <1>1, <1>3, <1>4, <1>5, <1>7, NothingToRepair
<1> QED
  BY <1>1, <1>5, <1>6, <1>7, <1>8, OpenWriteStep DEF Maps

\* Renaming a tag: its old name becomes an alias.
LEMMA RenameTagStep ==
  ASSUME TagInv, NEW i \in TagRows, NEW n \in TagNames, RenameTag(i, n)
  PROVE  TagInv'
<1> DEFINE old == tgDict[i].canon
           row == [tgDict[i] EXCEPT !.canon = n, !.aliases = @ \cup {tgDict[i].canon}]
           d == [tgDict EXCEPT ![i].canon = n, ![i].aliases = @ \cup {tgDict[i].canon}]
           m == tgMerged \ {i}
<1>1. /\ tgDict \in TagDicts /\ tgMerged \in SUBSET TagRows /\ DictSound(tgDict, tgMerged) /\ Unique(tgDict)
      /\ tgDict[i] # NoRow /\ n # old
  BY TagShapes DEF TagInv, MergedRowsDeprecated, RenameTag
<1>2. tgDict[i] \in [canon : TagNames, aliases : SUBSET TagNames, dep : BOOLEAN]
  BY <1>1 DEF TagDicts
<1>3. row = [[tgDict[i] EXCEPT !.canon = n] EXCEPT !.aliases = tgDict[i].aliases \cup {tgDict[i].canon}]
  BY <1>2
<1>4. row \in [canon : TagNames, aliases : SUBSET TagNames, dep : BOOLEAN] /\ row.canon = n
  BY <1>2, <1>3
<1>5. row # NoRow
  BY <1>4, TaggingAssumption DEF NoRow
<1>6. d = [tgDict EXCEPT ![i] = row]
  BY <1>1 DEF TagDicts
<1> HIDE DEF row
<1>7. d \in TagDicts /\ d[i] = row /\ (\A j \in TagRows \ {i} : d[j] = tgDict[j]) /\ DOMAIN d = TagRows /\ DOMAIN tgDict = TagRows
  BY <1>1, <1>4, <1>6 DEF TagDicts
<1>8. OpenWrite(d, m, {<<old, n>>})
  BY DEF RenameTag
<1>9. old \in TagNames
  BY <1>2
<1> HIDE DEF d
<1>10. DictSound(d, m)
  BY <1>1, <1>7 DEF DictSound
<1>11. n \in Carried(d, m)
  BY <1>4, <1>5, <1>7 DEF Carried, Rows
<1>12. ASSUME NEW t \in Carried(tgDict, tgMerged), t # old PROVE t \in Carried(d, m)
  <2>1. PICK j \in Rows(tgDict) : tgDict[j].canon = t /\ (tgDict[j].dep => j \notin tgMerged)
    BY DEF Carried
  <2>2. j # i /\ j \in TagRows
    BY <1>7, <1>12, <2>1 DEF Rows
  <2> QED
    BY <1>7, <2>1, <2>2 DEF Carried, Rows
<1>13. Repairs({<<old, n>>}, tgDict, tgMerged, d, m)
  BY <1>11, <1>12, OneNameRepaired
<1> QED
  BY <1>1, <1>7, <1>8, <1>9, <1>10, <1>13, OpenWriteStep DEF Maps

\* Merging one tag into another.
LEMMA MergeTagsStep ==
  ASSUME TagInv, NEW i \in TagRows, NEW j \in TagRows, MergeTags(i, j)
  PROVE  TagInv'
<1> DEFINE gone == [tgDict[i] EXCEPT !.dep = TRUE]
           into == [tgDict[j] EXCEPT !.aliases = @ \cup {tgDict[i].canon} \cup tgDict[i].aliases]
           d == [tgDict EXCEPT ![i].dep = TRUE, ![j].aliases = @ \cup {tgDict[i].canon} \cup tgDict[i].aliases]
           m == (tgMerged \cup {i}) \ {j}
<1>1. /\ tgDict \in TagDicts /\ tgMerged \in SUBSET TagRows /\ DictSound(tgDict, tgMerged)
      /\ i # j /\ tgDict[i] # NoRow /\ tgDict[j] # NoRow
  BY TagShapes DEF TagInv, MergedRowsDeprecated, MergeTags
<1>2. /\ tgDict[i] \in [canon : TagNames, aliases : SUBSET TagNames, dep : BOOLEAN]
      /\ tgDict[j] \in [canon : TagNames, aliases : SUBSET TagNames, dep : BOOLEAN]
  BY <1>1 DEF TagDicts
<1>3. /\ gone \in [canon : TagNames, aliases : SUBSET TagNames, dep : BOOLEAN] /\ gone.canon = tgDict[i].canon /\ gone.dep
      /\ into \in [canon : TagNames, aliases : SUBSET TagNames, dep : BOOLEAN] /\ into.canon = tgDict[j].canon
  BY <1>2
<1>4. gone # NoRow /\ into # NoRow
  BY <1>3, TaggingAssumption DEF NoRow
<1>5. d = [[tgDict EXCEPT ![i] = gone] EXCEPT ![j] = into]
  BY <1>1 DEF TagDicts
<1>6. OpenWrite(d, m, {<<tgDict[i].canon, tgDict[j].canon>>})
  BY DEF MergeTags
<1> HIDE DEF gone, into, d
<1>7. /\ d \in TagDicts /\ d[i] = gone /\ d[j] = into /\ (\A k \in TagRows \ {i, j} : d[k] = tgDict[k])
      /\ DOMAIN d = TagRows /\ DOMAIN tgDict = TagRows
  BY <1>1, <1>3, <1>5 DEF TagDicts
<1>8. DictSound(d, m)
  BY <1>1, <1>3, <1>4, <1>7 DEF DictSound
<1>9. tgDict[j].canon \in Carried(d, m)
  BY <1>2, <1>3, <1>4, <1>7 DEF Carried, Rows
<1>10. ASSUME NEW t \in Carried(tgDict, tgMerged), t # tgDict[i].canon PROVE t \in Carried(d, m)
  <2>1. PICK k \in Rows(tgDict) : tgDict[k].canon = t /\ (tgDict[k].dep => k \notin tgMerged)
    BY DEF Carried
  <2>2. k # i /\ k \in TagRows
    BY <1>7, <1>10, <2>1 DEF Rows
  <2>3. CASE k = j
    BY <1>9, <2>1, <2>3
  <2>4. CASE k # j
    BY <1>7, <2>1, <2>2, <2>4 DEF Carried, Rows
  <2> QED
    BY <2>3, <2>4
<1>11. Repairs({<<tgDict[i].canon, tgDict[j].canon>>}, tgDict, tgMerged, d, m)
  BY <1>9, <1>10, OneNameRepaired
<1> QED
  BY <1>1, <1>2, <1>6, <1>7, <1>8, <1>11, OpenWriteStep DEF Maps

\* The commit of a write.
LEMMA CommitWriteStep ==
  ASSUME TagInv, CommitWrite
  PROVE  TagInv'
<1> DEFINE w == tgWrite
<1>1. /\ w # NoWrite /\ tgDict' = w.dict /\ tgMerged' = w.merged /\ tgWrite' = NoWrite
      /\ tgBackfill' = (IF w.backfill = {} THEN tgBackfill ELSE Append(tgBackfill, w.backfill))
      /\ tgTags' = (IF w.edits THEN w.tags ELSE tgTags)
      /\ tgRefresh' = (tgRefresh \/ (w.edits /\ w.tags # tgTags))
      /\ UNCHANGED <<tgCache, tgAuto, tgRejected, tgRows, tgExtract, tgRaced, tgOps>>
  BY DEF CommitWrite
<1>2. /\ w.dict \in TagDicts /\ w.merged \in SUBSET TagRows /\ w.backfill \in Maps /\ w.tags \in SUBSET TagNames /\ w.edits \in BOOLEAN
  BY <1>1, TagShapes DEF OpenWrites
<1>3. TagShape'
  <2>1. tgBackfill' \in Seq(Maps) /\ tgTags' \subseteq TagNames /\ tgRefresh' \in BOOLEAN
    BY <1>1, <1>2, TagShapes DEF TagInv, TagShape, TaggingTypeOK
  <2> QED
    BY <1>1, <1>2, <2>1 DEF TagInv, TagShape, TaggingTypeOK, TagDicts
<1>4. MergedRowsDeprecated' /\ WriteRepairs' /\ CacheExact'
  BY <1>1 DEF TagInv, MergedRowsDeprecated, WriteRepairs, CacheExact
<1>5. RowsCarry'
  BY <1>1, <1>2 DEF TagInv, RowsCarry
<1>6. BackfillsLead'
  <2> SUFFICES ASSUME ~tgRaced PROVE Settles(tgBackfill', Carried(tgDict', tgMerged'), tgTags')
    BY <1>1 DEF BackfillsLead
  <2> DEFINE live == Carried(tgDict, tgMerged)
             now == Carried(w.dict, w.merged)
  <2>1. /\ \A t \in live : Renamed(t, w.backfill) \in now
        /\ \A p \in w.backfill : p[2] \in now
        /\ w.edits => w.tags \subseteq now
    BY <1>1 DEF TagInv, WriteRepairs, Repairs
  <2>2. live \in SUBSET TagNames /\ now \in SUBSET TagNames /\ tgBackfill \in Seq(Maps)
    BY TagShapes DEF Carried
  <2>3. Settles(tgBackfill, live, tgTags)
    BY DEF TagInv, BackfillsLead
  <2>4. tgTags' \subseteq tgTags \cup now /\ Carried(tgDict', tgMerged') = now
    BY <1>1, <2>1
  <2> HIDE DEF live, now, w
  <2>5. CASE w.backfill = {}
    <3>1. live \subseteq now
      BY <2>1, <2>5 DEF Renamed
    <3> QED
      BY <1>1, <2>2, <2>3, <2>4, <2>5, <3>1, SettlesOnGrowth
  <2>6. CASE w.backfill # {}
    BY <1>1, <1>2, <2>1, <2>2, <2>3, <2>4, <2>6, SettlesOnSend
  <2> QED
    BY <2>5, <2>6
<1> QED
  BY <1>3, <1>4, <1>5, <1>6 DEF TagInv

\* The steps: the tags of the entry.
LEMMA EditTagsStep ==
  ASSUME TagInv, NEW S \in SUBSET TagNames, NEW i \in TagRows, EditTags(S, i)
  PROVE  TagInv'
<1> DEFINE d == WithNew(S, i)
           c == Canonicals(S)
           w == [dict |-> d, merged |-> tgMerged, backfill |-> {}, tags |-> c, edits |-> TRUE]
<1>1. /\ tgWrite = NoWrite /\ Normalisable(S, i) /\ tgWrite' = w /\ tgOps < MaxTagOps /\ tgOps' = tgOps + 1
      /\ tgCache' = (IF Unknown(S) = {} THEN tgCache ELSE <<>>)
      /\ UNCHANGED <<tgDict, tgMerged, tgBackfill, tgTags, tgAuto, tgRejected, tgRows, tgRefresh, tgExtract, tgRaced>>
  BY DEF EditTags, TagOp, tagEntry
<1>2. /\ d \in TagDicts /\ Unique(d) /\ DictSound(d, tgMerged)
      /\ Carried(tgDict, tgMerged) \subseteq Carried(d, tgMerged) /\ Unknown(S) \subseteq Carried(d, tgMerged)
      /\ Unknown(S) = {} => d = tgDict
  BY <1>1, NormalisedDictionary
<1>3. c \subseteq TagNames /\ (~tgRaced => c \subseteq Carried(d, tgMerged))
  BY <1>2, CanonicalsAre
<1>4. tgMerged \in SUBSET TagRows
  BY TagShapes
<1> HIDE DEF c, d
<1>5. /\ w \in OpenWrites /\ w.dict = d /\ w.merged = tgMerged /\ w.backfill = {} /\ w.tags = c
  BY <1>2, <1>3, <1>4 DEF OpenWrites, Maps
<1> HIDE DEF w
<1>6. TagShape'
  BY <1>1, <1>5, TaggingAssumption DEF TagInv, TagShape, TaggingTypeOK
<1>7. MergedRowsDeprecated' /\ CacheExact' /\ RowsCarry'
  BY <1>1, <1>2, <1>5 DEF TagInv, MergedRowsDeprecated, CacheExact, RowsCarry
<1>8. WriteRepairs'
  BY <1>1, <1>2, <1>3, <1>5 DEF WriteRepairs, Repairs, Renamed
<1>9. BackfillsLead'
  BY <1>1 DEF TagInv, BackfillsLead
<1> QED
  BY <1>6, <1>7, <1>8, <1>9 DEF TagInv

\* The end of an extraction, which writes tags and makes rows for the unknown.
LEMMA FinishExtractStep ==
  ASSUME TagInv, NEW candidates \in SUBSET TagNames, NEW i \in TagRows, FinishExtract(candidates, i)
  PROVE  TagInv'
<1> DEFINE S == candidates \ tgExtract[1]
           d == WithNew(S, i)
           c == Canonicals(S)
<1>1. /\ tgWrite = NoWrite /\ Normalisable(S, i) /\ tgDict' = d /\ tgExtract' = <<>>
      /\ tgCache' = (IF Unknown(S) = {} THEN tgCache ELSE <<>>)
      /\ tgAuto' = c /\ tgRows' = tgTags \cup c
      /\ UNCHANGED <<tgMerged, tgWrite, tgBackfill, tgTags, tgRejected, tgRefresh, tgRaced, tgOps>>
  BY DEF FinishExtract, Extracted, RowTags
<1>2. S \in SUBSET TagNames
  OBVIOUS
<1> HIDE DEF S
<1>3. /\ d \in TagDicts /\ Unique(d) /\ DictSound(d, tgMerged)
      /\ Carried(tgDict, tgMerged) \subseteq Carried(d, tgMerged)
      /\ Unknown(S) = {} => d = tgDict
  BY <1>1, <1>2, NormalisedDictionary
<1>4. c \subseteq TagNames
  BY <1>2, CanonicalsAre
<1> HIDE DEF c, d
<1>5. TagShape'
  BY <1>1, <1>3, <1>4 DEF TagInv, TagShape, TaggingTypeOK, TagDicts
<1>6. MergedRowsDeprecated' /\ CacheExact' /\ RowsCarry' /\ WriteRepairs'
  BY <1>1, <1>3 DEF TagInv, MergedRowsDeprecated, CacheExact, RowsCarry, WriteRepairs
<1>7. BackfillsLead'
  <2> SUFFICES ASSUME ~tgRaced PROVE Settles(tgBackfill, Carried(d, tgMerged), tgTags)
    BY <1>1 DEF BackfillsLead
  <2>1. Settles(tgBackfill, Carried(tgDict, tgMerged), tgTags)
    BY DEF TagInv, BackfillsLead
  <2>2. Carried(d, tgMerged) \in SUBSET TagNames
    BY DEF Carried
  <2> QED
    BY <1>3, <2>1, <2>2, TagShapes, SettlesOnGrowth
<1> QED
  BY <1>5, <1>6, <1>7 DEF TagInv

\* A backfill rewrites the tags of the entries.
LEMMA BackfillTagsStep ==
  ASSUME TagInv, NEW k \in DOMAIN tgBackfill, BackfillTags(k)
  PROVE  TagInv'
<1> DEFINE map == tgBackfill[k]
<1>1. /\ tgBackfill' = RemoveAt(tgBackfill, k) /\ tgTags' = Rewrite(tgTags, map) /\ tgRows' = Rewrite(tgRows, map)
      /\ tgCache' = <<>> /\ tgRaced' = (tgRaced \/ k # 1)
      /\ UNCHANGED <<tgDict, tgMerged, tgWrite, tgAuto, tgRejected, tgRefresh, tgExtract, tgOps>>
  BY DEF BackfillTags
<1>2. tgBackfill \in Seq(Maps) /\ k \in 1..Len(tgBackfill)
  BY TagShapes, LenProperties
<1>3. tgBackfill' \in Seq(Maps) /\ map \in Maps
  BY <1>1, <1>2, RemovedAt, ElementOfSeq
<1>4. tgTags \subseteq TagNames /\ tgRows \subseteq TagNames
  BY TagShapes
<1> HIDE DEF map
<1>5. /\ tgTags' = {Renamed(t, map) : t \in tgTags} /\ tgRows' = {Renamed(t, map) : t \in tgRows}
      /\ tgTags' \subseteq TagNames /\ tgRows' \subseteq TagNames
  BY <1>1, <1>3, <1>4, RewriteRenames, RenamedOf
<1>6. TagShape'
  BY <1>1, <1>3, <1>5 DEF TagInv, TagShape, TaggingTypeOK
<1>7. MergedRowsDeprecated' /\ CacheExact' /\ WriteRepairs'
  BY <1>1 DEF TagInv, MergedRowsDeprecated, CacheExact, WriteRepairs
<1>8. RowsCarry'
  BY <1>1, <1>5 DEF TagInv, RowsCarry
<1>9. BackfillsLead'
  <2> SUFFICES ASSUME ~tgRaced, k = 1 PROVE Settles(tgBackfill', Carried(tgDict, tgMerged), tgTags')
    BY <1>1 DEF BackfillsLead
  <2>1. Settles(tgBackfill, Carried(tgDict, tgMerged), tgTags)
    BY DEF TagInv, BackfillsLead
  <2>2. Settles(RemoveAt(tgBackfill, 1), Carried(tgDict, tgMerged), Rewrite(tgTags, tgBackfill[1]))
    BY <2>1, TagShapes, SettlesOnBackfill
  <2> QED
    BY <1>1, <2>2 DEF map
<1> QED
  BY <1>6, <1>7, <1>8, <1>9 DEF TagInv

\* Accepting a candidate tag by hand.
LEMMA AcceptTagStep ==
  ASSUME TagInv, NEW t \in TagNames, AcceptTag(t)
  PROVE  TagInv'
<1> DEFINE c == Canonicals({t})
<1>1. /\ tgOps < MaxTagOps /\ tgOps' = tgOps + 1 /\ Unknown({t}) = {}
      /\ tgTags' = tgTags \cup c /\ tgAuto' = tgAuto \ c /\ tgRows' = tgTags' \cup tgAuto'
      /\ UNCHANGED <<tgDict, tgMerged, tgCache, tgWrite, tgBackfill, tgRejected, tgRefresh, tgExtract, tgRaced>>
  BY DEF AcceptTag, TagOp, RowTags
<1>2. c \subseteq TagNames /\ (~tgRaced => c \subseteq Carried(tgDict, tgMerged))
  BY <1>1, CanonicalsAre
<1> HIDE DEF c
<1>3. TagShape'
  BY <1>1, <1>2, TaggingAssumption DEF TagInv, TagShape, TaggingTypeOK
<1>4. MergedRowsDeprecated' /\ CacheExact' /\ RowsCarry' /\ WriteRepairs'
  BY <1>1 DEF TagInv, MergedRowsDeprecated, CacheExact, RowsCarry, WriteRepairs
<1>5. BackfillsLead'
  <2> SUFFICES ASSUME ~tgRaced PROVE Settles(tgBackfill, Carried(tgDict, tgMerged), tgTags')
    BY <1>1 DEF BackfillsLead
  <2>1. Settles(tgBackfill, Carried(tgDict, tgMerged), tgTags)
    BY DEF TagInv, BackfillsLead
  <2> QED
    BY <1>1, <1>2, <2>1, TagShapes, SettlesOnGrowth
<1> QED
  BY <1>3, <1>4, <1>5 DEF TagInv

\* Every step keeps TagInv.
LEMMA TagStep == TagInv /\ [TaggingNext]_tagVars => TagInv'
<1> SUFFICES ASSUME TagInv, [TaggingNext]_tagVars PROVE TagInv'
  OBVIOUS
<1>1. ASSUME NEW i \in TagRows, NEW n \in TagNames, CreateTag(i, n) \/ RenameTag(i, n) \/ SetAliases(i, {n}) PROVE TagInv'
  BY <1>1, CreateTagStep, RenameTagStep, SetAliasesStep
<1>2. ASSUME NEW i \in TagRows, NEW j \in TagRows, MergeTags(i, j) PROVE TagInv'
  BY <1>2, MergeTagsStep
<1>3. ASSUME NEW i \in TagRows, DeleteTag(i) PROVE TagInv'
  BY <1>3, DeleteTagStep
<1>4. CASE CommitWrite
  BY <1>4, CommitWriteStep
<1>5. CASE AbortWrite
  BY <1>5 DEF AbortWrite, tagEntry, TagInv, TagShape, TaggingTypeOK, MergedRowsDeprecated, CacheExact, RowsCarry, WriteRepairs,
              BackfillsLead
<1>6. CASE FillCache
  <2>1. TagShape'
    BY <1>6, MapOfDictionary DEF FillCache, tagEntry, TagInv, TagShape, TaggingTypeOK, TagDicts
  <2> QED
    BY <1>6, <2>1 DEF FillCache, tagEntry, TagInv, MergedRowsDeprecated, CacheExact, RowsCarry, WriteRepairs, BackfillsLead
<1>7. CASE ExpireCache \/ UNCHANGED tagVars
  BY <1>7 DEF ExpireCache, tagVars, tagEntry, TagInv, TagShape, TaggingTypeOK, MergedRowsDeprecated, CacheExact, RowsCarry,
              WriteRepairs, BackfillsLead
<1>8. ASSUME NEW k \in DOMAIN tgBackfill, BackfillTags(k) PROVE TagInv'
  BY <1>8, BackfillTagsStep
<1>9. ASSUME NEW S \in SUBSET TagNames, NEW i \in TagRows, EditTags(S, i) \/ FinishExtract(S, i) PROVE TagInv'
  BY <1>9, EditTagsStep, FinishExtractStep
<1>10. CASE RefreshTags
  BY <1>10 DEF RefreshTags, RowTags, TagInv, TagShape, TaggingTypeOK, MergedRowsDeprecated, CacheExact, RowsCarry,
               WriteRepairs, BackfillsLead
<1>11. CASE StartExtract
  BY <1>11, TaggingAssumption DEF StartExtract, TagOp, tagEntry, TagInv, TagShape, TaggingTypeOK, MergedRowsDeprecated,
               CacheExact, RowsCarry, WriteRepairs, BackfillsLead
<1>12. ASSUME NEW t \in TagNames, AcceptTag(t) PROVE TagInv'
  BY <1>12, AcceptTagStep
<1>13. ASSUME NEW t \in TagNames, RejectTag(t) PROVE TagInv'
  BY <1>13, TaggingAssumption DEF RejectTag, TagOp, RowTags, TagInv, TagShape, TaggingTypeOK, MergedRowsDeprecated,
               CacheExact, RowsCarry, WriteRepairs, BackfillsLead
<1> QED
  BY <1>1, <1>2, <1>3, <1>4, <1>5, <1>6, <1>7, <1>8, <1>9, <1>10, <1>11, <1>12, <1>13 DEF TaggingNext

\* TagInv holds at the start.
LEMMA TagStart == TaggingInit => TagInv
<1> SUFFICES ASSUME TaggingInit PROVE TagInv
  OBVIOUS
<1>1. TagShape
  <2>1. tgDict \in [TagRows -> {NoRow} \cup [canon : TagNames, aliases : SUBSET TagNames, dep : BOOLEAN]]
    BY DEF TaggingInit
  <2>2. tgBackfill \in Seq(Maps)
    BY DEF TaggingInit
  <2>3. tgOps \in 0..MaxTagOps
    BY TaggingAssumption DEF TaggingInit
  <2> QED
    BY <2>1, <2>2, <2>3 DEF TaggingInit, TagShape, TaggingTypeOK
<1>2. MergedRowsDeprecated /\ CacheExact /\ RowsCarry /\ WriteRepairs
  BY DEF TaggingInit, MergedRowsDeprecated, Unique, Rows, DictSound, CacheExact, RowsCarry, WriteRepairs
<1>3. BackfillsLead
  <2> DEFINE names == [k \in 1..(Len(tgBackfill) + 1) |-> Carried(tgDict, tgMerged)]
  <2>1. tgBackfill = <<>> /\ tgTags = {}
    BY DEF TaggingInit
  <2>2. Len(tgBackfill) = 0
    BY <2>1
  <2>3. names \in [1..(Len(tgBackfill) + 1) -> SUBSET TagNames] /\ names[1] = Carried(tgDict, tgMerged)
    BY <2>2 DEF Carried
  <2>4. Leads(names, tgBackfill, Carried(tgDict, tgMerged))
    BY <2>2, <2>3 DEF Leads
  <2> QED
    BY <2>1, <2>3, <2>4 DEF BackfillsLead, Settles
<1> QED
  BY <1>1, <1>2, <1>3 DEF TagInv

\* What DictionaryRules asks is part of TagInv.
LEMMA TagRules == TagInv => DictionaryRules
<1> SUFFICES ASSUME TagInv PROVE DictionaryRules
  OBVIOUS
<1>1. CacheFollowsDictionary
  BY DEF TagInv, CacheExact, CacheFollowsDictionary
<1>2. ASSUME TagsQuiet, ~tgRaced, NEW t \in tgTags
      PROVE  \E i \in Rows(tgDict) : tgDict[i].canon = t /\ (tgDict[i].dep => i \notin tgMerged)
  <2>1. Len(tgBackfill) = 0
    BY <1>2 DEF TagsQuiet
  <2>2. t \in Carried(tgDict, tgMerged)
    BY <1>2, <2>1 DEF TagInv, BackfillsLead, Settles, Leads
  <2> QED
    BY <2>2 DEF Carried
<1>3. TagsSettle
  BY <1>2 DEF TagsSettle, TagsQuiet, TagInv, RowsCarry
<1> QED
  BY <1>1, <1>3 DEF DictionaryRules

\* So is the type invariant.
LEMMA TagTypes == TagInv => TaggingTypeOK
BY DEF TagInv, TagShape

\* The cached map of a base is that of its dictionary, and when its tasks are done its rows
\* carry every tag of their entry and the entry no name that a rename or a merge has replaced:
\* TagDictionaryService, canonical_cache and _backfill_kb, whatever dictionary writes, edits,
\* extractions and backfills overlap, for any number of rows and names.
THEOREM DictionaryRulesTags == TaggingSpec => []DictionaryRules
<1>1. TaggingInit => TagInv
  BY TagStart
<1>2. TagInv /\ [TaggingNext]_tagVars => TagInv'
  BY TagStep
<1>3. TagInv => DictionaryRules
  BY TagRules
<1> QED
  BY <1>1, <1>2, <1>3, PTL DEF TaggingSpec

-----------------------------------------------------------------------------
(****************************************************************************
 Life cycle: no document is archived without a warning.
 ****************************************************************************)

\* A document is stale since the day its owner was last told so, and what the running sweep
\* will archive was stale for IdleDays on the day the sweep began.
WarnedFirst ==
  /\ \A d \in LcDocs : lcStaleSince[d] # 0 => lcStaleSince[d] = lcWarned[d]
  /\ \A d \in LcDocs : lcPlan[d] = "archive" => lcWarned[d] # 0 /\ lcWarned[d] < lcPlanDay - IdleDays
  /\ lcPlanDay <= lcDay /\ lcSwept <= lcDay
LifecycleInv == LifecycleTypeOK /\ WarnedFirst

-----------------------------------------------------------------------------
\* LifecycleInv holds at the start.
LEMMA LifecycleStart ==
  ASSUME LifecycleInit
  PROVE  LifecycleInv
<1>1. LifecycleTypeOK
  BY LifecycleAssumption DEF LifecycleInit, LifecycleTypeOK, Nothing, Verdicts
<1>2. WarnedFirst
  BY LifecycleAssumption DEF LifecycleInit, WarnedFirst, Nothing, Units
<1> QED
  BY <1>1, <1>2 DEF LifecycleInv

\* The sweep decides: it archives what was stale for longer than IdleDays.
LEMMA SweepReadStep ==
  ASSUME LifecycleInv, SweepRead
  PROVE  LifecycleInv'
<1>1. PICK hits \in [LcDocs -> HitCounts], before \in [LcDocs -> HitCounts] :
        /\ lcPlan' = [d \in LcDocs |-> Verdict(d, hits[d], before[d])]
        /\ lcEngaged' = lcEngaged \cup {d \in LcDocs : hits[d] > 0}
  BY DEF SweepRead
<1>2. lcPlanDay' = lcDay /\ lcSwept' = lcDay /\ UNCHANGED <<lcDay, lcRow, lcWarned, lcTouches>>
  BY DEF SweepRead
<1>3. ASSUME NEW d \in LcDocs
      PROVE  /\ lcPlan'[d] \in Verdicts
             /\ lcPlan'[d] = "archive" => lcStaleSince[d] # 0 /\ lcStaleSince[d] < lcDay - IdleDays
  BY <1>1 DEF Verdict, Verdicts, Stale
<1>4. lcPlan' \in [LcDocs -> Verdicts]
  BY <1>1, <1>3
<1>5. LifecycleTypeOK'
  BY <1>1, <1>2, <1>4, LifecycleAssumption DEF LifecycleInv, LifecycleTypeOK, lcRow, Units
<1>6. WarnedFirst'
  BY <1>2, <1>3, LifecycleAssumption DEF LifecycleInv, LifecycleTypeOK, WarnedFirst, lcRow
<1> QED
  BY <1>5, <1>6 DEF LifecycleInv

\* The commit of the daily sweep keeps LifecycleInv.
LEMMA SweepCommitStep ==
  ASSUME LifecycleInv, SweepCommit
  PROVE  LifecycleInv'
<1>1. /\ lcPlanDay \in 1..LastDay /\ lcDay \in 1..LastDay /\ lcPlan' = Nothing /\ lcPlanDay' = 0
      /\ UNCHANGED <<lcDay, lcSwept, lcTouches>>
  BY LifecycleAssumption DEF SweepCommit, LifecycleInv, LifecycleTypeOK
<1>2. /\ lcStaleSince' \in [Units -> 0..LastDay] /\ lcUpdated' \in [Units -> 1..LastDay]
      /\ lcWarned' \in [LcDocs -> 0..LastDay] /\ lcArchived' \subseteq Units /\ lcEngaged' \subseteq Units
  <2>1. lcStaleSince' \in [Units -> 0..LastDay]
    <3>1. \A x \in Units : lcStaleSince[x] \in 0..LastDay /\ lcPlanDay \in 0..LastDay /\ 0 \in 0..LastDay
      BY <1>1, LifecycleAssumption DEF LifecycleInv, LifecycleTypeOK
    <3>2. lcStaleSince' = [x \in Units |-> IF x \in Marked THEN lcPlanDay
                                          ELSE IF x \in Planned("clear") THEN 0 ELSE lcStaleSince[x]]
      BY DEF SweepCommit, SinceOf
    <3> QED
      BY <3>1, <3>2
  <2>2. lcUpdated' \in [Units -> 1..LastDay]
    BY <1>1 DEF SweepCommit, LifecycleInv, LifecycleTypeOK
  <2>3. lcWarned' \in [LcDocs -> 0..LastDay]
    BY <1>1 DEF SweepCommit, LifecycleInv, LifecycleTypeOK
  <2>4. lcArchived' \subseteq Units /\ lcEngaged' \subseteq Units
    BY DEF SweepCommit, Planned, LifecycleInv, LifecycleTypeOK, Units
  <2> QED
    BY <2>1, <2>2, <2>3, <2>4
<1>3. LifecycleTypeOK'
  BY <1>1, <1>2, LifecycleAssumption DEF LifecycleInv, LifecycleTypeOK, Nothing, Verdicts
<1>4. \A d \in LcDocs : lcStaleSince'[d] # 0 => lcStaleSince'[d] = lcWarned'[d]
  <2> TAKE d \in LcDocs
  <2>1. d \in Units
    BY DEF Units
  <2>2. CASE d \in Marked
    BY <2>1, <2>2 DEF SweepCommit, SinceOf
  <2>3. CASE d \notin Marked
    BY <2>1, <2>3 DEF SweepCommit, LifecycleInv, WarnedFirst
  <2> QED
    BY <2>2, <2>3
<1>5. WarnedFirst'
  BY <1>1, <1>4 DEF LifecycleInv, WarnedFirst, Nothing
<1> QED
  BY <1>3, <1>5 DEF LifecycleInv

\* Days pass, and people archive, restore and edit.
LEMMA TouchStep ==
  ASSUME LifecycleInv,
         \/ NextDay
         \/ \E d \in LcDocs, archive \in BOOLEAN : SetArchived(d, archive)
         \/ \E e \in LcEntries : ArchiveEntry(e)
         \/ \E x \in Units : EditUnit(x)
  PROVE  LifecycleInv'
<1>1. /\ UNCHANGED <<lcPlan, lcPlanDay, lcSwept, lcWarned>> /\ lcDay' \in 1..LastDay /\ lcDay <= lcDay'
  BY LifecycleAssumption DEF NextDay, SetArchived, ArchiveEntry, EditUnit, LifecycleInv, LifecycleTypeOK
<1>2. /\ lcTouches' \in 0..MaxTouches /\ lcUpdated' \in [Units -> 1..LastDay] /\ lcArchived' \subseteq Units
      /\ lcEngaged' \subseteq Units
  BY LifecycleAssumption DEF NextDay, SetArchived, ArchiveEntry, EditUnit, LifecycleInv, LifecycleTypeOK, lcRow, Units
<1>3. lcStaleSince' \in [Units -> 0..LastDay] /\ \A x \in Units : lcStaleSince'[x] \in {0, lcStaleSince[x]}
  <2>1. ASSUME NEW d \in LcDocs, NEW archive \in BOOLEAN, SetArchived(d, archive)
        PROVE  lcStaleSince' \in [Units -> 0..LastDay] /\ \A x \in Units : lcStaleSince'[x] \in {0, lcStaleSince[x]}
    <3>1. lcStaleSince \in [Units -> 0..LastDay] /\ d \in Units /\ 0 \in 0..LastDay
      BY LifecycleAssumption DEF LifecycleInv, LifecycleTypeOK, Units
    <3>2. lcStaleSince' = lcStaleSince \/ lcStaleSince' = [lcStaleSince EXCEPT ![d] = 0]
      BY <2>1 DEF SetArchived
    <3> QED
      BY <3>1, <3>2
  <2>2. CASE UNCHANGED lcStaleSince
    BY <2>2 DEF LifecycleInv, LifecycleTypeOK
  <2> QED
    BY <2>1, <2>2 DEF NextDay, ArchiveEntry, EditUnit, lcRow
<1>4. LifecycleTypeOK'
  BY <1>1, <1>2, <1>3 DEF LifecycleInv, LifecycleTypeOK
<1>5. WarnedFirst'
  <2>1. \A d \in LcDocs : lcStaleSince'[d] # 0 => lcStaleSince'[d] = lcWarned'[d]
    BY <1>1, <1>3 DEF LifecycleInv, WarnedFirst, Units
  <2>2. lcPlanDay' <= lcDay' /\ lcSwept' <= lcDay'
    BY <1>1, LifecycleAssumption DEF LifecycleInv, LifecycleTypeOK, WarnedFirst
  <2> QED
    BY <1>1, <2>1, <2>2 DEF LifecycleInv, WarnedFirst
<1> QED
  BY <1>4, <1>5 DEF LifecycleInv

\* Every step keeps LifecycleInv.
LEMMA LifecycleStep ==
  ASSUME LifecycleInv, [LifecycleNext]_lifecycleVars
  PROVE  LifecycleInv'
<1>1. CASE UNCHANGED lifecycleVars
  BY <1>1 DEF lifecycleVars, lcRow, LifecycleInv, LifecycleTypeOK, WarnedFirst
<1>2. CASE LifecycleNext
  BY <1>2, SweepReadStep, SweepCommitStep, TouchStep DEF LifecycleNext
<1> QED
  BY <1>1, <1>2

\* The type invariant is part of LifecycleInv.
LEMMA LifecycleTypes == LifecycleInv => LifecycleTypeOK
BY DEF LifecycleInv

\* Only a sweep archives without a request, and it archives a document only when its owner
\* was told more than IdleDays before that it is stale.
LEMMA ArchiveIsWarned ==
  ASSUME LifecycleInv, LifecycleNext, NEW d \in LcDocs, d \in lcArchived' \ lcArchived, lcTouches' = lcTouches
  PROVE  lcWarned[d] # 0 /\ lcWarned[d] < lcDay - IdleDays
<1>1. lcTouches \in Int
  BY DEF LifecycleInv, LifecycleTypeOK
<1>2. SweepCommit
  BY <1>1 DEF LifecycleNext, NextDay, SweepRead, SetArchived, ArchiveEntry, EditUnit, lcRow
<1>3. lcPlan[d] = "archive"
  BY <1>2 DEF SweepCommit, Planned
<1>4. lcWarned[d] \in Int /\ lcPlanDay \in Int /\ lcDay \in Int /\ IdleDays \in Int
  BY LifecycleAssumption DEF LifecycleInv, LifecycleTypeOK
<1> QED
  BY <1>3, <1>4 DEF LifecycleInv, WarnedFirst

\* No document is archived by the sweep but after a warning that is older than the idle days.
THEOREM ArchivingIsWarned == LifecycleSpec => ArchivedAfterWarning
<1>1. LifecycleInit => LifecycleInv
  BY LifecycleStart
<1>2. LifecycleInv /\ [LifecycleNext]_lifecycleVars => LifecycleInv'
  BY LifecycleStep
<1>3. LifecycleInv /\ [LifecycleNext]_lifecycleVars =>
        [\A d \in LcDocs : d \in lcArchived' \ lcArchived /\ lcTouches' = lcTouches
           => lcWarned[d] # 0 /\ lcWarned[d] < lcDay - IdleDays]_lifecycleVars
  BY ArchiveIsWarned
<1> QED
  BY <1>1, <1>2, <1>3, PTL DEF LifecycleSpec, ArchivedAfterWarning

-----------------------------------------------------------------------------
(****************************************************************************
 Bases: what the cleaning of orphans may delete.
 ****************************************************************************)

\* Ids of chunks are given in order, and whatever is held or listed was given.
IdsGiven ==
  /\ coSpent = 1..Cardinality(coSpent)
  /\ Held(coMain) \subseteq coSpent /\ Held(coNew) \subseteq coSpent /\ coEmb.batch \subseteq coSpent
  /\ \A x \in CoReindexers : coReindex[x].batch \subseteq coSpent
  /\ coClean.batch \subseteq coSpent

\* A base that was not created yet has nothing, and no scan has listed its collection.
NothingBefore ==
  coBase = "none" =>
    /\ coRows = {} /\ coMain = Gone /\ coNew = Gone /\ coEmb.pc = "idle" /\ ~coScan.main /\ coCascade = "idle"
    /\ \A x \in CoReindexers : coReindex[x].pc = "idle"

\* What the scan and the cleaning have decided still holds.
ScanKnows  == coScan.pc = "read" /\ coBase = "active" /\ coScan.main => coScan.active
CleanKnows == coClean.pc = "read" => coClean.batch \cap coRows = {}

CollectionInv == CollectionTypeOK /\ IdsGiven /\ NothingBefore /\ ScanKnows /\ CleanKnows

-----------------------------------------------------------------------------
\* A collection that exists is <<S>> and holds S.
LEMMA HeldIs ==
  /\ Gone \in Collections /\ ~Exists(Gone) /\ Held(Gone) = {}
  /\ \A S \in SUBSET CoChunks : <<S>> \in Collections /\ Exists(<<S>>) /\ Held(<<S>>) = S
  /\ \A c \in Collections : Held(c) \subseteq CoChunks /\ (Exists(c) => c = <<Held(c)>>)
BY DEF Gone, Collections, Exists, Held

\* ensure_collection adds no vector and drops none.
LEMMA EnsuredIs ==
  ASSUME NEW c \in Collections
  PROVE  Ensured(c) \in Collections /\ Held(Ensured(c)) = Held(c)
<1>1. {} \in SUBSET CoChunks
  OBVIOUS
<1> QED
  BY <1>1, HeldIs DEF Ensured, Held

\* The step of a task that reads the rows and changes one of the stores or itself.
LEMMA TaskStep ==
  ASSUME CollectionInv, CollectionTypeOK', UNCHANGED <<coBase, coRows, coSpent, coScan, coClean, coCascade>>,
         Held(coMain') \subseteq coSpent, Held(coNew') \subseteq coSpent, coEmb'.batch \subseteq coSpent,
         \A x \in CoReindexers : coReindex'[x].batch \subseteq coSpent,
         coBase # "none"
  PROVE  CollectionInv'
<1>1. IdsGiven'
  BY DEF CollectionInv, IdsGiven
<1>2. NothingBefore' /\ ScanKnows' /\ CleanKnows'
  BY DEF CollectionInv, NothingBefore, ScanKnows, CleanKnows
<1> QED
  BY <1>1, <1>2 DEF CollectionInv

\* Writing the vectors of a batch keeps CollectionInv.
LEMMA BaseEmbeddingStep ==
  ASSUME CollectionInv, Embedding
  PROVE  CollectionInv'
<1>1. coBase # "none" /\ UNCHANGED <<coBase, coRows, coSpent, coScan, coClean, coCascade, coNew, coReindex, coTorn, coBounds>>
  BY DEF Embedding, EmbTake, EmbCreate, EmbUpsert, EmbMark, CollectionInv, NothingBefore, coTables, coStores
<1>2. coRows \subseteq coSpent /\ coSpent \subseteq CoChunks /\ coMain \in Collections /\ coEmb.batch \subseteq coSpent /\ Held(coMain) \subseteq coSpent
  BY DEF CollectionInv, CollectionTypeOK, IdsGiven
<1>3. coEmb \in [pc : {"idle", "create", "upsert", "mark"}, batch : SUBSET CoChunks] /\ coMarked \subseteq coRows
  BY DEF CollectionInv, CollectionTypeOK
<1>4. /\ coEmb' \in [pc : {"idle", "create", "upsert", "mark"}, batch : SUBSET CoChunks] /\ coEmb'.batch \subseteq coSpent
      /\ coMain' \in Collections /\ Held(coMain') \subseteq coSpent /\ coMarked' \subseteq coRows
  <2>1. CASE EmbTake
    BY <1>2, <1>3, <2>1 DEF EmbTake, coTables, coStores
  <2>2. CASE EmbCreate
    BY <1>2, <1>3, <2>2, EnsuredIs DEF EmbCreate, coTables
  <2>3. CASE EmbUpsert
    <3>1. coMarked' = coMarked
      BY <2>3 DEF EmbUpsert, coTables
    <3>2. CASE Exists(coMain)
      <4>1. coMain' = <<Held(coMain) \cup coEmb.batch>> /\ coEmb' = [coEmb EXCEPT !.pc = "mark"]
        BY <2>3, <3>2 DEF EmbUpsert
      <4>2. Held(coMain) \cup coEmb.batch \in SUBSET CoChunks
        BY <1>2
      <4>3. coMain' \in Collections /\ Held(coMain') = Held(coMain) \cup coEmb.batch
        BY <4>1, <4>2, HeldIs
      <4> QED
        BY <1>2, <1>3, <3>1, <4>1, <4>3
    <3>3. CASE ~Exists(coMain)
      BY <1>2, <1>3, <2>3, <3>1, <3>3 DEF EmbUpsert, NoBatch
    <3> QED
      BY <3>2, <3>3
  <2>4. CASE EmbMark
    BY <1>2, <1>3, <2>4 DEF EmbMark, NoBatch, coStores
  <2> QED
    BY <2>1, <2>2, <2>3, <2>4 DEF Embedding
<1>5. CollectionTypeOK'
  BY <1>1, <1>4 DEF CollectionInv, CollectionTypeOK, coBounds
<1>6. Held(coNew') \subseteq coSpent /\ \A x \in CoReindexers : coReindex'[x].batch \subseteq coSpent
  BY <1>1 DEF CollectionInv, IdsGiven
<1> QED
  BY <1>1, <1>4, <1>5, <1>6, TaskStep

-----------------------------------------------------------------------------
ReindexRows == [pc : {"idle", "sent", "create", "upsert", "drop", "rename", "mark"}, batch : SUBSET CoChunks, tries : 0..CoRetries]

\* One reindex task goes on.
LEMMA ReindexStep ==
  ASSUME CollectionInv, NEW x \in CoReindexers, NEW row \in ReindexRows, row.batch \subseteq coSpent,
         coReindex' = [coReindex EXCEPT ![x] = row], coBase # "none",
         coMain' \in Collections, Held(coMain') \subseteq coSpent, coNew' \in Collections, Held(coNew') \subseteq coSpent,
         coMarked' \subseteq coRows, coTorn' \in BOOLEAN, coReindexes' \in 0..CoMaxReindexes, coFaults' \in 0..CoMaxFaults,
         UNCHANGED <<coBase, coRows, coSpent, coEmb, coScan, coClean, coCascade>>
  PROVE  CollectionInv'
<1>1. CollectionTypeOK'
  BY DEF CollectionInv, CollectionTypeOK, ReindexRows
<1>2. coEmb'.batch \subseteq coSpent /\ \A y \in CoReindexers : coReindex'[y].batch \subseteq coSpent
  BY DEF CollectionInv, CollectionTypeOK, IdsGiven
<1> QED
  BY <1>1, <1>2, TaskStep

\* What CollectionInv says of one reindexing task.
LEMMA ReindexShapes ==
  ASSUME CollectionInv, NEW x \in CoReindexers
  PROVE  /\ coReindex \in [CoReindexers -> ReindexRows] /\ coReindex[x] \in ReindexRows /\ coReindex[x].batch \subseteq coSpent
         /\ coReindex[x].pc # "idle" => coBase # "none"
         /\ coMain \in Collections /\ Held(coMain) \subseteq coSpent /\ coNew \in Collections /\ Held(coNew) \subseteq coSpent
         /\ coMarked \subseteq coRows /\ coRows \subseteq coSpent /\ coSpent \subseteq CoChunks
         /\ coTorn \in BOOLEAN /\ coReindexes \in 0..CoMaxReindexes /\ coFaults \in 0..CoMaxFaults
         /\ NoReindex \in ReindexRows /\ NoReindex.batch = {}
BY CollectionAssumption DEF CollectionInv, CollectionTypeOK, IdsGiven, NothingBefore, ReindexRows, NoReindex

\* A reindex task goes to another place.
LEMMA ReindexGoes ==
  ASSUME CollectionInv, NEW x \in CoReindexers, NEW pc \in {"idle", "sent", "create", "upsert", "drop", "rename", "mark"},
         ReindexTo(x, pc)
  PROVE  \E row \in ReindexRows : row.batch \subseteq coSpent /\ coReindex' = [coReindex EXCEPT ![x] = row]
<1> DEFINE row == [coReindex[x] EXCEPT !.pc = pc]
<1>1. coReindex' = [coReindex EXCEPT ![x] = row]
  BY ReindexShapes DEF ReindexTo
<1>2. row \in ReindexRows /\ row.batch \subseteq coSpent
  BY ReindexShapes DEF ReindexRows
<1> QED
  BY <1>1, <1>2

\* A reindex task that failed leaves no new collection.
LEMMA ReindexGivesUp ==
  ASSUME CollectionInv, NEW x \in CoReindexers, ReindexFails(x)
  PROVE  /\ \E row \in ReindexRows : row.batch \subseteq coSpent /\ coReindex' = [coReindex EXCEPT ![x] = row]
         /\ coNew' \in Collections /\ Held(coNew') \subseteq coSpent /\ coTorn' \in BOOLEAN
<1> DEFINE last == coReindex[x].tries = CoRetries
           again == [[NoReindex EXCEPT !.pc = "sent"] EXCEPT !.tries = coReindex[x].tries + 1]
           row == IF last THEN NoReindex ELSE again
<1>1. coReindex' = [coReindex EXCEPT ![x] = row]
  BY DEF ReindexFails
<1>2. NoReindex \in ReindexRows /\ NoReindex.batch = {} /\ coReindex[x].tries \in 0..CoRetries
  BY ReindexShapes DEF ReindexRows
<1>3. ~last => coReindex[x].tries + 1 \in 0..CoRetries
  BY <1>2, CollectionAssumption
<1>4. ~last => again \in ReindexRows /\ again.batch = {}
  BY <1>2, <1>3 DEF ReindexRows
<1>5. row \in ReindexRows /\ row.batch \subseteq coSpent
  BY <1>2, <1>4
<1>6. coNew' \in Collections /\ Held(coNew') \subseteq coSpent
  BY HeldIs DEF ReindexFails
<1>7. coTorn' \in BOOLEAN
  BY ReindexShapes DEF ReindexFails
<1> HIDE DEF row
<1> QED
  BY <1>1, <1>5, <1>6, <1>7

\* Each step of a reindexing task keeps CollectionInv.
LEMMA ReindexingStep ==
  ASSUME CollectionInv, NEW x \in CoReindexers,
         RequestReindex(x) \/ Reindexing(x) \/ ReindexDie(x) \/ ReindexFail(x)
  PROVE  CollectionInv'
<1>1. /\ UNCHANGED <<coBase, coRows, coSpent, coEmb, coScan, coClean, coCascade>> /\ coBase # "none"
  <2>1. UNCHANGED <<coEmb, coScan, coClean, coCascade>>
    BY DEF RequestReindex, Reindexing, ReindexDie, ReindexFail, ReindexTake, ReindexCreate, ReindexUpsert, ReindexDrop,
           ReindexRename, ReindexMark, ReindexRest
  <2>2. UNCHANGED <<coBase, coRows, coSpent>>
    BY DEF RequestReindex, Reindexing, ReindexDie, ReindexFail, ReindexTake, ReindexCreate, ReindexUpsert, ReindexDrop,
           ReindexRename, ReindexMark, coTables
  <2>3. coBase # "none"
    BY DEF RequestReindex, Reindexing, ReindexDie, ReindexFail, ReindexTake, ReindexCreate, ReindexUpsert, ReindexDrop,
           ReindexRename, ReindexMark, CollectionInv, NothingBefore
  <2> QED
    BY <2>1, <2>2, <2>3
<1>2. /\ coReindexes' \in 0..CoMaxReindexes /\ coFaults' \in 0..CoMaxFaults
  BY ReindexShapes, CollectionAssumption DEF RequestReindex, Reindexing, ReindexDie, ReindexFail, ReindexTake, ReindexCreate,
     ReindexUpsert, ReindexDrop, ReindexRename, ReindexMark, CollectionFault, coBounds
<1>3. /\ coMain' \in Collections /\ Held(coMain') \subseteq coSpent
  BY ReindexShapes, HeldIs DEF RequestReindex, Reindexing, ReindexDie, ReindexFail, ReindexTake, ReindexCreate,
     ReindexUpsert, ReindexDrop, ReindexRename, ReindexMark, coStores
<1>4. coMarked' \subseteq coRows
  BY ReindexShapes DEF RequestReindex, Reindexing, ReindexDie, ReindexFail, ReindexTake, ReindexCreate,
     ReindexUpsert, ReindexDrop, ReindexRename, ReindexMark, coTables
<1> SUFFICES /\ \E row \in ReindexRows : row.batch \subseteq coSpent /\ coReindex' = [coReindex EXCEPT ![x] = row]
             /\ coNew' \in Collections /\ Held(coNew') \subseteq coSpent /\ coTorn' \in BOOLEAN
  BY <1>1, <1>2, <1>3, <1>4, ReindexStep
<1> DEFINE Goal == /\ \E row \in ReindexRows : row.batch \subseteq coSpent /\ coReindex' = [coReindex EXCEPT ![x] = row]
                   /\ coNew' \in Collections /\ Held(coNew') \subseteq coSpent /\ coTorn' \in BOOLEAN
<1>5. ASSUME NEW pc \in {"idle", "sent", "create", "upsert", "drop", "rename", "mark"}, ReindexTo(x, pc),
             coNew' \in Collections, Held(coNew') \subseteq coSpent, UNCHANGED coTorn
      PROVE  Goal
  BY <1>5, ReindexGoes, ReindexShapes
<1>6. ASSUME NEW row \in ReindexRows, row.batch \subseteq coSpent, coReindex' = [coReindex EXCEPT ![x] = row],
             UNCHANGED coNew, coTorn' \in BOOLEAN
      PROVE  Goal
  BY <1>6, ReindexShapes
<1>7. ReindexFails(x) => Goal
  BY ReindexGivesUp
<1>8. CASE RequestReindex(x)
  <2>1. ReindexTo(x, "sent") /\ UNCHANGED coNew /\ UNCHANGED coTorn
    BY <1>8 DEF RequestReindex, coStores
  <2> QED
    BY <1>5, <2>1, ReindexShapes
<1>9. CASE ReindexTake(x)
  <2> DEFINE taken == [[coReindex[x] EXCEPT !.pc = "create"] EXCEPT !.batch = coRows]
             row == IF coBase \in {"active", "deleting"} /\ coRows # {} THEN taken ELSE NoReindex
  <2>1. coReindex' = [coReindex EXCEPT ![x] = row]
    BY <1>9, ReindexShapes DEF ReindexTake
  <2>2. taken \in ReindexRows /\ taken.batch = coRows
    BY ReindexShapes DEF ReindexRows
  <2>3. row \in ReindexRows /\ row.batch \subseteq coSpent
    BY <2>2, ReindexShapes
  <2>4. UNCHANGED coNew /\ coTorn' \in BOOLEAN
    BY <1>9, ReindexShapes DEF ReindexTake, coStores
  <2> HIDE DEF row
  <2> QED
    BY <1>6, <2>1, <2>3, <2>4
<1>10. CASE ReindexCreate(x)
  <2>1. ReindexTo(x, "upsert") /\ UNCHANGED coTorn /\ coNew' = Ensured(coNew)
    BY <1>10 DEF ReindexCreate
  <2> QED
    BY <1>5, <2>1, EnsuredIs, ReindexShapes
<1>11. CASE ReindexUpsert(x)
  <2>1. CASE Exists(coNew)
    <3>1. coNew' = <<Held(coNew) \cup coReindex[x].batch>> /\ ReindexTo(x, "drop") /\ UNCHANGED coTorn
      BY <1>11, <2>1 DEF ReindexUpsert
    <3>2. Held(coNew) \cup coReindex[x].batch \in SUBSET CoChunks /\ Held(coNew) \cup coReindex[x].batch \subseteq coSpent
      BY ReindexShapes
    <3>3. coNew' \in Collections /\ Held(coNew') \subseteq coSpent
      BY <3>1, <3>2, HeldIs
    <3> QED
      BY <1>5, <3>1, <3>3
  <2>2. CASE ~Exists(coNew)
    BY <1>7, <1>11, <2>2 DEF ReindexUpsert
  <2> QED
    BY <2>1, <2>2
<1>12. CASE ReindexDrop(x)
  <2>1. ReindexTo(x, "rename") /\ UNCHANGED coTorn /\ UNCHANGED coNew
    BY <1>12 DEF ReindexDrop
  <2> QED
    BY <1>5, <2>1, ReindexShapes
<1>13. CASE ReindexRename(x)
  <2>1. CASE Exists(coNew) /\ ~Exists(coMain)
    <3>1. ReindexTo(x, "mark") /\ UNCHANGED coTorn /\ coNew' = Gone
      BY <1>13, <2>1 DEF ReindexRename
    <3> QED
      BY <1>5, <3>1, HeldIs
  <2>2. CASE ~(Exists(coNew) /\ ~Exists(coMain))
    BY <1>7, <1>13, <2>2 DEF ReindexRename
  <2> QED
    BY <2>1, <2>2
<1>14. CASE ReindexMark(x)
  <2>1. coReindex' = [coReindex EXCEPT ![x] = NoReindex] /\ UNCHANGED coTorn /\ UNCHANGED coNew
    BY <1>14 DEF ReindexMark, coStores
  <2> QED
    BY <1>6, <2>1, ReindexShapes
<1>15. CASE ReindexDie(x)
  <2> DEFINE row == [[coReindex[x] EXCEPT !.pc = "sent"] EXCEPT !.batch = {}]
  <2>1. coReindex' = [coReindex EXCEPT ![x] = row] /\ UNCHANGED coTorn /\ UNCHANGED coNew
    BY <1>15, ReindexShapes DEF ReindexDie, coStores
  <2>2. row \in ReindexRows /\ row.batch = {}
    BY ReindexShapes DEF ReindexRows
  <2> HIDE DEF row
  <2> QED
    BY <1>6, <2>1, <2>2, ReindexShapes
<1>16. CASE ReindexFail(x)
  BY <1>7, <1>16 DEF ReindexFail
<1> QED
  BY <1>8, <1>9, <1>10, <1>11, <1>12, <1>13, <1>14, <1>15, <1>16 DEF Reindexing

-----------------------------------------------------------------------------
\* The rows of the base, and its end.
LEMMA BaseStep ==
  ASSUME CollectionInv, CreateBase \/ DeleteBase \/ CascadeDrop \/ CascadeDelete \/ CascadeFail \/ \E c \in CoChunks : RemoveRow(c)
  PROVE  CollectionInv'
<1>1. /\ coBase' \in {"none", "active", "deleting", "gone"} /\ coRows' \subseteq coRows /\ coMarked' \subseteq coRows'
      /\ coMain' \in {coMain, Gone} /\ coFaults' \in 0..CoMaxFaults /\ coCascade' \in {"idle", "dropped"}
      /\ UNCHANGED <<coSpent, coNew, coEmb, coReindex, coScan, coClean, coTorn, coReindexes>>
  <2>1. /\ coBase \in {"none", "active", "deleting", "gone"} /\ coMarked \subseteq coRows /\ coFaults \in 0..CoMaxFaults
        /\ coCascade \in {"idle", "dropped"} /\ CoMaxFaults \in Nat
    BY CollectionAssumption DEF CollectionInv, CollectionTypeOK
  <2>2. CASE CreateBase \/ DeleteBase
    BY <2>1, <2>2 DEF CreateBase, DeleteBase, coStores, coTasks, coBounds
  <2>3. CASE CascadeDrop \/ CascadeDelete
    BY <2>1, <2>3 DEF CascadeDrop, CascadeDelete, coTables, coStores, coBounds
  <2>4. CASE CascadeFail
    BY <2>1, <2>4 DEF CascadeFail, CollectionFault, coTables, coStores
  <2>5. CASE \E c \in CoChunks : RemoveRow(c)
    BY <2>1, <2>5 DEF RemoveRow, coStores, coTasks, coBounds
  <2> QED
    BY <2>2, <2>3, <2>4, <2>5
<1>2. CollectionTypeOK'
  BY <1>1, HeldIs DEF CollectionInv, CollectionTypeOK
<1>3. IdsGiven'
  BY <1>1, HeldIs DEF CollectionInv, IdsGiven
<1>4. CleanKnows'
  BY <1>1 DEF CollectionInv, CleanKnows
<1>5. coBase' # "none"
  BY DEF CreateBase, DeleteBase, CascadeDrop, CascadeDelete, CascadeFail, RemoveRow, CollectionInv, NothingBefore, coTables
<1>6. coBase' = "active" => coBase \in {"none", "active"}
  BY DEF CreateBase, DeleteBase, CascadeDrop, CascadeDelete, CascadeFail, RemoveRow, coTables
<1>7. ScanKnows'
  BY <1>1, <1>6 DEF CollectionInv, ScanKnows, NothingBefore
<1> QED
  BY <1>2, <1>3, <1>4, <1>5, <1>7 DEF CollectionInv, NothingBefore

\* A new chunk has an id that nothing holds.
LEMMA AddRowStep ==
  ASSUME CollectionInv, NEW c \in CoChunks, AddRow(c)
  PROVE  CollectionInv'
<1> DEFINE n == Cardinality(coSpent)
<1>1. /\ coBase = "active" /\ c = n + 1 /\ coRows' = coRows \cup {c} /\ coSpent' = coSpent \cup {c}
      /\ UNCHANGED <<coBase, coMarked, coMain, coNew, coEmb, coReindex, coScan, coClean, coCascade, coTorn, coReindexes, coFaults>>
  BY DEF AddRow, coStores, coTasks, coBounds
<1>2. n \in Nat /\ IsFiniteSet(coSpent)
  <2>1. IsFiniteSet(coSpent)
    BY CollectionAssumption, FS_Subset DEF CollectionInv, CollectionTypeOK
  <2> QED
    BY <2>1, FS_CardinalityType
<1>3. coSpent = 1..n
  BY DEF CollectionInv, IdsGiven
<1> HIDE DEF n
<1>4. c \notin coSpent /\ coSpent' = 1..(n + 1)
  BY <1>1, <1>2, <1>3
<1>5. Cardinality(coSpent') = n + 1
  BY <1>1, <1>2, <1>4, FS_AddElement DEF n
<1>6. CollectionTypeOK'
  BY <1>1 DEF CollectionInv, CollectionTypeOK
<1>7. IdsGiven'
  <2>1. coSpent \subseteq coSpent'
    BY <1>1
  <2> QED
    BY <1>1, <1>4, <1>5, <2>1 DEF CollectionInv, IdsGiven
<1>8. NothingBefore' /\ ScanKnows'
  BY <1>1 DEF CollectionInv, NothingBefore, ScanKnows
<1>9. CleanKnows'
  BY <1>1, <1>4 DEF CollectionInv, CleanKnows, IdsGiven
<1> QED
  BY <1>6, <1>7, <1>8, <1>9 DEF CollectionInv

\* The scan and the cleaning.
LEMMA SweepStep ==
  ASSUME CollectionInv, ScanList \/ ScanRead \/ ScanDrop \/ ScanSkip \/ CheckVectors
  PROVE  CollectionInv'
<1>1. /\ UNCHANGED <<coBase, coRows, coSpent, coEmb, coReindex, coClean, coCascade, coReindexes, coFaults>>
      /\ coMarked' \subseteq coMarked /\ coMain' \in {coMain, Gone} /\ coNew' \in {coNew, Gone} /\ coTorn' \in BOOLEAN
  BY DEF ScanList, ScanRead, ScanDrop, ScanSkip, CheckVectors, CollectionInv, CollectionTypeOK, coTables, coStores, coTasks, coBounds
<1>2. /\ coScan' \in [pc : {"idle", "listed", "read"}, main : BOOLEAN, new : BOOLEAN, active : BOOLEAN]
      /\ coBase = "none" => ~coScan'.main
      /\ coScan'.pc = "read" /\ coBase = "active" /\ coScan'.main => coScan'.active
  <2>0. /\ coScan \in [pc : {"idle", "listed", "read"}, main : BOOLEAN, new : BOOLEAN, active : BOOLEAN]
        /\ coBase = "none" => ~coScan.main /\ ~Exists(coMain)
        /\ coScan.pc = "read" /\ coBase = "active" /\ coScan.main => coScan.active
    BY HeldIs DEF CollectionInv, CollectionTypeOK, NothingBefore, ScanKnows
  <2>1. CASE ScanList
    <3> DEFINE main == Exists(coMain)
               new == Exists(coNew)
    <3>1. coScan' = [[[NoScan EXCEPT !.pc = "listed"] EXCEPT !.main = main] EXCEPT !.new = new]
      BY <2>1 DEF ScanList, NoScan
    <3>2. main \in BOOLEAN /\ new \in BOOLEAN
      BY DEF Exists
    <3> HIDE DEF main, new
    <3>3. coScan' = [pc |-> "listed", main |-> main, new |-> new, active |-> FALSE]
      BY <3>1 DEF NoScan
    <3> QED
      BY <2>0, <3>2, <3>3 DEF main
  <2>2. CASE ScanRead
    <3> DEFINE active == coBase = "active"
    <3>1. coScan' = [[coScan EXCEPT !.pc = "read"] EXCEPT !.active = active]
      BY <2>0, <2>2 DEF ScanRead
    <3>2. active \in BOOLEAN
      OBVIOUS
    <3> HIDE DEF active
    <3>3. /\ coScan' \in [pc : {"idle", "listed", "read"}, main : BOOLEAN, new : BOOLEAN, active : BOOLEAN]
          /\ coScan'.main = coScan.main /\ coScan'.active = active
      BY <2>0, <3>1, <3>2
    <3> QED
      BY <2>0, <3>3, Zenon DEF active
  <2>3. CASE ScanDrop \/ ScanSkip
    <3>1. /\ NoScan \in [pc : {"idle", "listed", "read"}, main : BOOLEAN, new : BOOLEAN, active : BOOLEAN]
          /\ NoScan.pc = "idle" /\ ~NoScan.main
      BY DEF NoScan
    <3> QED
      BY <2>3, <3>1 DEF ScanDrop, ScanSkip
  <2>4. CASE CheckVectors
    BY <2>0, <2>4 DEF CheckVectors, coTasks
  <2> QED
    BY <2>1, <2>2, <2>3, <2>4
<1>3. CollectionTypeOK'
  BY <1>1, <1>2, HeldIs DEF CollectionInv, CollectionTypeOK
<1>4. IdsGiven'
  BY <1>1, HeldIs DEF CollectionInv, IdsGiven
<1>5. NothingBefore' /\ ScanKnows' /\ CleanKnows'
  BY <1>1, <1>2 DEF CollectionInv, NothingBefore, ScanKnows, CleanKnows
<1> QED
  BY <1>3, <1>4, <1>5 DEF CollectionInv

\* The cleaning of orphan vectors keeps CollectionInv.
LEMMA CleanStep ==
  ASSUME CollectionInv, CleanList \/ CleanRead \/ CleanDelete
  PROVE  CollectionInv'
<1>1. UNCHANGED <<coBase, coRows, coMarked, coSpent, coNew, coEmb, coReindex, coScan, coCascade, coTorn, coReindexes, coFaults>>
  BY DEF CleanList, CleanRead, CleanDelete, coTables, coStores, coBounds
<1>2. /\ coMain \in Collections /\ Held(coMain) \subseteq coSpent /\ coSpent \subseteq CoChunks /\ coClean.batch \subseteq coSpent
      /\ coClean \in [pc : {"idle", "listed", "read"}, batch : SUBSET CoChunks]
  BY DEF CollectionInv, CollectionTypeOK, IdsGiven
<1>3. /\ coClean' \in [pc : {"idle", "listed", "read"}, batch : SUBSET CoChunks] /\ coClean'.batch \subseteq coSpent
      /\ coClean'.pc = "read" => coClean'.batch \cap coRows = {}
  BY <1>2 DEF CleanList, CleanRead, CleanDelete, Orphans, NoBatch
<1>4. coMain' \in Collections /\ Held(coMain') \subseteq coSpent /\ (coMain = Gone => coMain' = Gone)
  <2>1. CASE CleanDelete /\ Exists(coMain)
    <3>1. coMain' = <<Held(coMain) \ coClean.batch>>
      BY <2>1 DEF CleanDelete
    <3>2. Held(coMain) \ coClean.batch \in SUBSET CoChunks
      BY <1>2
    <3> QED
      BY <1>2, <2>1, <3>1, <3>2, HeldIs
  <2>2. CASE coMain' = coMain
    BY <1>2, <2>2
  <2> QED
    BY <2>1, <2>2 DEF CleanList, CleanRead, CleanDelete, coStores
<1>5. CollectionTypeOK'
  BY <1>1, <1>3, <1>4 DEF CollectionInv, CollectionTypeOK
<1>6. IdsGiven'
  BY <1>1, <1>3, <1>4 DEF CollectionInv, IdsGiven
<1>7. NothingBefore' /\ ScanKnows' /\ CleanKnows'
  BY <1>1, <1>3, <1>4 DEF CollectionInv, NothingBefore, ScanKnows, CleanKnows
<1> QED
  BY <1>5, <1>6, <1>7 DEF CollectionInv

\* CollectionInv holds at the start.
LEMMA CollectionStart ==
  ASSUME CollectionInit
  PROVE  CollectionInv
<1>1. NoReindex \in ReindexRows /\ NoReindex.batch = {} /\ NoReindex.pc = "idle"
  BY CollectionAssumption DEF NoReindex, ReindexRows
<1>2. coReindex \in [CoReindexers -> ReindexRows] /\ \A x \in CoReindexers : coReindex[x] = NoReindex
  BY <1>1 DEF CollectionInit
<1>3. /\ NoScan \in [pc : {"idle", "listed", "read"}, main : BOOLEAN, new : BOOLEAN, active : BOOLEAN]
      /\ NoScan.pc = "idle" /\ ~NoScan.main
  BY DEF NoScan
<1>4. NoBatch.pc = "idle" /\ NoBatch.batch = {}
  BY DEF NoBatch
<1>5. CollectionTypeOK
  <2>1. coEmb \in [pc : {"idle", "create", "upsert", "mark"}, batch : SUBSET CoChunks]
    BY DEF CollectionInit, NoBatch
  <2>2. coClean \in [pc : {"idle", "listed", "read"}, batch : SUBSET CoChunks]
    BY DEF CollectionInit, NoBatch
  <2> QED
    <3>1. 0 \in 0..CoMaxReindexes /\ 0 \in 0..CoMaxFaults
      BY CollectionAssumption
    <3>2. /\ coBase = "none" /\ coRows = {} /\ coMarked = {} /\ coSpent = {} /\ coMain = Gone /\ coNew = Gone /\ coScan = NoScan
          /\ coCascade = "idle" /\ coTorn = FALSE /\ coReindexes = 0 /\ coFaults = 0
      BY DEF CollectionInit
    <3> QED
      BY <1>2, <1>3, <2>1, <2>2, <3>1, <3>2, HeldIs DEF CollectionTypeOK, ReindexRows
<1>6. IdsGiven
  <2>1. {} = 1..Cardinality({})
    BY FS_EmptySet
  <2> QED
    BY <1>1, <1>2, <1>4, <2>1, HeldIs DEF CollectionInit, IdsGiven
<1>7. NothingBefore /\ ScanKnows /\ CleanKnows
  BY <1>1, <1>2, <1>3, <1>4 DEF CollectionInit, NothingBefore, ScanKnows, CleanKnows
<1> QED
  BY <1>5, <1>6, <1>7 DEF CollectionInv

\* Every step keeps CollectionInv.
LEMMA CollectionStep ==
  ASSUME CollectionInv, [CollectionNext]_collectionVars
  PROVE  CollectionInv'
<1>1. CASE UNCHANGED collectionVars
  BY <1>1 DEF collectionVars, coTables, coStores, coTasks, coBounds, CollectionInv, CollectionTypeOK, IdsGiven, NothingBefore,
     ScanKnows, CleanKnows
<1>2. CASE CollectionNext
  BY <1>2, BaseStep, AddRowStep, BaseEmbeddingStep, ReindexingStep, SweepStep, CleanStep DEF CollectionNext
<1> QED
  BY <1>1, <1>2

\* Types of the collection and its tasks, for every instance.
LEMMA CollectionTypes == CollectionInv => CollectionTypeOK
BY DEF CollectionInv

\* The scan of orphan collections drops no collection of an active base.
LEMMA ScanIsRight ==
  ASSUME CollectionInv, CollectionNext, coScan.pc = "read", coScan'.pc = "idle", coBase = "active", Exists(coMain)
  PROVE  Exists(coMain')
<1>1. coScan' # coScan
  OBVIOUS
<1>2. ScanDrop \/ ScanSkip
  <2>1. NoScan.pc = "idle" /\ coScan \in [pc : {"idle", "listed", "read"}, main : BOOLEAN, new : BOOLEAN, active : BOOLEAN]
    BY DEF NoScan, CollectionInv, CollectionTypeOK
  <2>2. ~ScanList /\ ~ScanRead
    BY <2>1 DEF ScanList, ScanRead, Quiet, NoSweep
  <2>3. \A x \in CoReindexers : ~RequestReindex(x) /\ ~Reindexing(x) /\ ~ReindexDie(x) /\ ~ReindexFail(x)
    BY <1>1 DEF RequestReindex, Reindexing, ReindexDie, ReindexFail, ReindexTake, ReindexCreate, ReindexUpsert, ReindexDrop,
       ReindexRename, ReindexMark, ReindexRest
  <2>4. ~CreateBase /\ ~DeleteBase /\ ~CascadeDrop /\ ~CascadeDelete /\ ~CascadeFail /\ \A c \in CoChunks : ~AddRow(c) /\ ~RemoveRow(c)
    BY <1>1 DEF CreateBase, DeleteBase, CascadeDrop, CascadeDelete, CascadeFail, AddRow, RemoveRow, coTasks
  <2>5. ~Embedding /\ ~CheckVectors /\ ~CleanList /\ ~CleanRead /\ ~CleanDelete
    BY <1>1 DEF Embedding, EmbTake, EmbCreate, EmbUpsert, EmbMark, CheckVectors, CleanList, CleanRead, CleanDelete, coTasks
  <2> QED
    BY <2>2, <2>3, <2>4, <2>5 DEF CollectionNext
<1>3. CASE ScanDrop
  BY <1>3 DEF ScanDrop, Sweeps, CollectionInv, ScanKnows
<1>4. CASE ScanSkip
  BY <1>4 DEF ScanSkip, coStores
<1> QED
  BY <1>2, <1>3, <1>4

\* The cleaning of orphan vectors deletes no vector of a row.
LEMMA CleaningIsRight ==
  ASSUME CollectionInv, CollectionNext, coClean.pc = "read", coClean'.pc = "idle"
  PROVE  Held(coMain) \cap coRows \subseteq Held(coMain')
<1>1. coClean' # coClean
  OBVIOUS
<1>2. CleanDelete
  <2>1. ~CleanList /\ ~CleanRead /\ ~ScanList /\ ~ScanRead /\ ~ScanDrop /\ ~ScanSkip /\ ~CheckVectors
    BY <1>1 DEF CleanList, CleanRead, Quiet, NoSweep, ScanList, ScanRead, ScanDrop, ScanSkip, CheckVectors, coTasks
  <2>2. \A x \in CoReindexers : ~RequestReindex(x) /\ ~Reindexing(x) /\ ~ReindexDie(x) /\ ~ReindexFail(x)
    BY <1>1 DEF RequestReindex, Reindexing, ReindexDie, ReindexFail, ReindexTake, ReindexCreate, ReindexUpsert, ReindexDrop,
       ReindexRename, ReindexMark, ReindexRest
  <2>3. ~CreateBase /\ ~DeleteBase /\ ~CascadeDrop /\ ~CascadeDelete /\ ~CascadeFail /\ \A c \in CoChunks : ~AddRow(c) /\ ~RemoveRow(c)
    BY <1>1 DEF CreateBase, DeleteBase, CascadeDrop, CascadeDelete, CascadeFail, AddRow, RemoveRow, coTasks
  <2>4. ~Embedding
    BY <1>1 DEF Embedding, EmbTake, EmbCreate, EmbUpsert, EmbMark
  <2> QED
    BY <2>1, <2>2, <2>3, <2>4 DEF CollectionNext
<1>3. coMain \in Collections /\ coClean.batch \cap coRows = {}
  BY DEF CollectionInv, CollectionTypeOK, CleanKnows
<1>4. CASE Exists(coMain)
  <2>1. coMain' = <<Held(coMain) \ coClean.batch>> /\ Held(coMain) \ coClean.batch \in SUBSET CoChunks
    BY <1>2, <1>3, <1>4, HeldIs DEF CleanDelete
  <2>2. Held(coMain') = Held(coMain) \ coClean.batch
    BY <2>1, HeldIs
  <2> QED
    BY <1>3, <2>2
<1>5. CASE ~Exists(coMain)
  BY <1>2, <1>5 DEF CleanDelete
<1> QED
  BY <1>4, <1>5

\* However a base is created, filled, reindexed and deleted around them, the consistency scan
\* never drops the collection of a base in use, and the cleaning never deletes the vector of a row.
THEOREM CleanupIsSafe == CollectionSpec => CleanupSpares
<1>1. CollectionInit => CollectionInv
  BY CollectionStart
<1>2. CollectionInv /\ [CollectionNext]_collectionVars => CollectionInv'
  BY CollectionStep
<1>3. CollectionInv /\ [CollectionNext]_collectionVars =>
        [coScan.pc = "read" /\ coScan'.pc = "idle" /\ coBase = "active" /\ Exists(coMain) => Exists(coMain')]_collectionVars
  BY ScanIsRight
<1>4. CollectionInv /\ [CollectionNext]_collectionVars =>
        [coClean.pc = "read" /\ coClean'.pc = "idle" => Held(coMain) \cap coRows \subseteq Held(coMain')]_collectionVars
  BY CleaningIsRight
<1>5. CollectionSpec => []CollectionInv
  BY <1>1, <1>2, PTL DEF CollectionSpec
<1>6. CollectionSpec => ScanSparesActive
  BY <1>3, <1>5, PTL DEF CollectionSpec, ScanSparesActive
<1>7. CollectionSpec => CleanSparesRows
  BY <1>4, <1>5, PTL DEF CollectionSpec, CleanSparesRows
<1> QED
  BY <1>6, <1>7 DEF CleanupSpares

-----------------------------------------------------------------------------
(****************************************************************************
 Coverage scans: the pairs and topics that a base is shown with.
 ****************************************************************************)

\* A set of natural numbers has a least one.
LEMMA LeastOfNat ==
  ASSUME NEW S \in SUBSET Nat, S # {}
  PROVE  \E m \in S : \A k \in S : m <= k
<1>1. PICK m \in S : \A k \in S : ~(<<k, m>> \in OpToRel(<, Nat))
  BY WFMin, NatLessThanWellFounded, Zenon
<1>2. \A k \in S : ~(k < m)
  BY <1>1 DEF OpToRel
<1> QED
  BY <1>2

-----------------------------------------------------------------------------
CrossRows == [base : CvBases, other : CvBases, a : CvChunks, b : CvChunks, by : Nat]
PairRows  == [base : CvBases, a : CvChunks, b : CvChunks, by : Nat]
TopicRows == [base : CvBases, number : Nat, size : Nat, examples : SUBSET CvChunks, by : Nat]
ScanRows  == [pc : {"idle", "next", "delete", "insert", "pairwise"}, kind : Kinds, run : Nat,
              todo : SUBSET (CvBases \cup (CvBases \X CvBases)), base : CvBases \cup {0},
              kept : SUBSET CvChunks, saw : SUBSET (PairRows \cup TopicRows),
              sample : [CvBases -> SUBSET CvChunks]]

TopicsIn(T, b) == {t \in T : t.base = b}

\* The bases whose topics a scan has still to replace.
Pending_(k) ==
  IF k.kind # "topics" THEN {}
  ELSE (IF k.pc \in {"next", "delete", "insert"} THEN k.todo ELSE {}) \cup
       (IF k.pc \in {"delete", "insert"} THEN {k.base} ELSE {})

\* A scan, where T are the topics and n scans were started: what it compares is of its base,
\* the topics that it saw there are all there are or have all been replaced, and none of a base
\* that it has still to do is its own.
ScanFits(k, T, n) ==
  /\ k.run <= n
  /\ k.pc \in {"next", "delete", "insert"} => k.todo \subseteq CvBases
  /\ k.pc = "pairwise" => k.todo \subseteq CvBases \X CvBases
  /\ k.pc \in {"delete", "insert"} =>
       /\ k.kind \in {"pairs", "topics"} /\ k.base \in CvBases \ k.todo
       /\ \A c \in k.kept : CvBaseOf[c] = k.base
  /\ k.pc = "insert" /\ k.kind = "topics" =>
       /\ \A t \in k.saw : t.base = k.base /\ t.by <= n
       /\ TopicsIn(T, k.base) \subseteq k.saw \/ TopicsIn(T, k.base) \cap k.saw = {}
  /\ \A b \in Pending_(k) : \A t \in TopicsIn(T, b) : t.by # k.run

\* Nor did another scan see such rows.
NotSeen(k, l) ==
  l.pc = "insert" /\ l.kind = "topics" => \A b \in Pending_(k) : \A t \in TopicsIn(l.saw, b) : t.by # k.run

ScansFit(sc, T, n) ==
  /\ \A s \in CvScans : ScanFits(sc[s], T, n)
  /\ \A s, u \in CvScans : s # u /\ sc[s].pc # "idle" /\ sc[u].pc # "idle" => sc[s].run # sc[u].run
  /\ \A s, u \in CvScans : NotSeen(sc[s], sc[u])

\* Topics of one base: of one scan, numbered from nought by size.
InOrder(S) ==
  /\ IsFiniteSet(S)
  /\ {t.number : t \in S} = 0 .. Cardinality(S) - 1
  /\ \A t, u \in S : t.by = u.by /\ (t.number < u.number => t.size >= u.size)

PairsAreSound(P, chunk) ==
  /\ \A p \in P : /\ p.a < p.b /\ <<p.a, p.b>> \in CvSimilar
                  /\ chunk[p.a].stored /\ chunk[p.b].stored
                  /\ CvBaseOf[p.a] = p.base /\ CvBaseOf[p.b] = p.base
  /\ \A p, q \in P : p.a = q.a /\ p.b = q.b => p = q
CrossIsSound(P, chunk) ==
  /\ P \subseteq CrossRows
  /\ \A p, q \in P : /\ p.a = q.a /\ p.b = q.b => p = q
                     /\ chunk[p.a].stored /\ p.base < p.other
TopicsAreSound(T, n) ==
  /\ T \subseteq TopicRows
  /\ \A t \in T : t.by <= n
  /\ \A b \in CvBases : InOrder(TopicsIn(T, b))

CoverageInv ==
  /\ cvOps \in Nat
  /\ cvChunk \in [CvChunks -> [stored : BOOLEAN, vector : BOOLEAN, hidden : BOOLEAN]]
  /\ cvScan \in [CvScans -> ScanRows]
  /\ cvPairs \subseteq PairRows /\ PairsAreSound(cvPairs, cvChunk)
  /\ CrossIsSound(cvCross, cvChunk)
  /\ TopicsAreSound(cvTopics, cvOps)
  /\ ScansFit(cvScan, cvTopics, cvOps)

-----------------------------------------------------------------------------
\* The first base to do is one of them.
LEMMA FirstIsOne ==
  ASSUME NEW B \in SUBSET CvBases, B # {}
  PROVE  FirstBase(B) \in B
<1>1. \E b \in B : \A c \in B : b <= c
  BY CoverageAssumption, LeastOfNat
<1> QED
  BY <1>1 DEF FirstBase

\* A scan that rests fits, and one that moves on does, if what it is about to insert was seen
\* just now and it has no more bases before it than it had.
LEMMA ScanMoves ==
  ASSUME NEW sc \in [CvScans -> ScanRows], NEW T, NEW n \in Nat, ScansFit(sc, T, n),
         NEW s \in CvScans, NEW k \in ScanRows, ScanFits(k, T, n),
         k.pc = "idle" \/ (k.run = sc[s].run /\ sc[s].pc # "idle"),
         Pending_(k) \subseteq Pending_(sc[s]), Pending_(k) # {} => k.run = sc[s].run,
         k.pc = "insert" /\ k.kind = "topics" => k.saw \subseteq T
  PROVE  ScansFit([sc EXCEPT ![s] = k], T, n)
<1> DEFINE sd == [sc EXCEPT ![s] = k]
<1>1. sd[s] = k /\ \A u \in CvScans : u # s => sd[u] = sc[u]
  OBVIOUS
<1> HIDE DEF sd
<1>2. \A u \in CvScans : ScanFits(sd[u], T, n)
  BY <1>1 DEF ScansFit
<1>3. \A u, v \in CvScans : u # v /\ sd[u].pc # "idle" /\ sd[v].pc # "idle" => sd[u].run # sd[v].run
  BY <1>1 DEF ScansFit
<1>4. ASSUME NEW u \in CvScans, NEW v \in CvScans
      PROVE  NotSeen(sd[u], sd[v])
  <2>1. NotSeen(sc[u], sc[v])
    BY DEF ScansFit
  <2>2. CASE v # s
    <3>1. sd[v] = sc[v]
      BY <1>1, <2>2
    <3>2. Pending_(sd[u]) \subseteq Pending_(sc[u]) /\ (Pending_(sd[u]) # {} => sd[u].run = sc[u].run)
      BY <1>1
    <3> QED
      BY <2>1, <3>1, <3>2 DEF NotSeen
  <2>3. CASE v = s
    <3>1. sd[v] = k /\ ScanFits(sd[u], T, n)
      BY <1>1, <1>2, <2>3
    <3>2. ASSUME k.pc = "insert", k.kind = "topics", NEW b \in Pending_(sd[u]), NEW t \in TopicsIn(k.saw, b)
          PROVE  t.by # sd[u].run
      <4>1. t \in TopicsIn(T, b)
        BY <3>2 DEF TopicsIn
      <4> QED
        BY <3>1, <4>1 DEF ScanFits
    <3> QED
      BY <3>1, <3>2 DEF NotSeen
  <2> QED
    BY <2>2, <2>3
<1> QED
  BY <1>2, <1>3, <1>4 DEF ScansFit, sd

\* More scans than there were change nothing for those there are.
LEMMA ScansCount ==
  ASSUME NEW sc \in [CvScans -> ScanRows], NEW T, NEW n \in Nat, ScansFit(sc, T, n),
         \A s \in CvScans : \A t \in sc[s].saw : t.by \in Int
  PROVE  ScansFit(sc, T, n + 1)
<1>1. ASSUME NEW s \in CvScans PROVE ScanFits(sc[s], T, n + 1)
  <2>1. sc[s] \in ScanRows /\ ScanFits(sc[s], T, n)
    BY DEF ScansFit
  <2>2. sc[s].run <= n + 1
    BY <2>1 DEF ScanFits, ScanRows
  <2>3. \A t \in sc[s].saw : t.by <= n => t.by <= n + 1
    OBVIOUS
  <2> QED
    BY <2>1, <2>2, <2>3 DEF ScanFits
<1> QED
  BY <1>1 DEF ScansFit
-----------------------------------------------------------------------------
(***************************************************************************)
(* The rows that a scan stores.                                            *)
(***************************************************************************)

\* A set of clusters is finite.
LEMMA FewClusters ==
  ASSUME NEW kept, NEW C \in Clusters(kept) \cup {{}}
  PROVE  IsFiniteSet(C) /\ C \subseteq SUBSET kept
<1>1. CASE C = {}
  BY <1>1, FS_EmptySet
<1>2. CASE C # {}
  <2>1. PICK of \in [kept -> 1..2] : C = {X \in {{c \in kept : of[c] = i} : i \in 1..2} : Cardinality(X) >= ClusterMin}
    BY <1>2 DEF Clusters
  <2> DEFINE X1 == {c \in kept : of[c] = 1}
             X2 == {c \in kept : of[c] = 2}
  <2>2. C \subseteq {X1, X2}
    BY <2>1
  <2>3. X1 \subseteq kept /\ X2 \subseteq kept
    OBVIOUS
  <2> HIDE DEF X1, X2
  <2>4. {X1, X2} = {X1} \cup {X2}
    OBVIOUS
  <2>5. IsFiniteSet({X1, X2})
    <3>1. IsFiniteSet({X1})
      BY FS_Singleton
    <3>2. IsFiniteSet({X1} \cup {X2})
      BY <3>1, FS_AddElement
    <3> QED
      BY <2>4, <3>2
  <2> QED
    BY <2>2, <2>3, <2>5, FS_Subset
<1> QED
  BY <1>1, <1>2

NewTopics(q, base, run) ==
  {[base |-> base, number |-> i - 1, size |-> Cardinality(q[i]), examples |-> q[i], by |-> run] : i \in DOMAIN q}

\* The topics of clusters are numbered from nought, by size.
LEMMA NewTopicsOrdered ==
  ASSUME NEW kept \in SUBSET CvChunks, NEW C \in Clusters(kept) \cup {{}}, NEW q \in Numbered(C),
         NEW base \in CvBases, NEW run \in Nat
  PROVE  LET new == NewTopics(q, base, run) IN
         /\ new \subseteq TopicRows /\ InOrder(new)
         /\ \A t \in new : t.base = base /\ t.by = run
         /\ new # {} => \E t \in new : t.number = 0
<1> DEFINE new == NewTopics(q, base, run)
           k == Cardinality(C)
<1>1. IsFiniteSet(C) /\ C \subseteq SUBSET kept /\ k \in Nat
  BY FewClusters, FS_CardinalityType
<1>2. /\ q \in [1..k -> C] /\ IsInjective(q)
      /\ \A i, j \in 1..k : i < j => Cardinality(q[i]) >= Cardinality(q[j])
  BY DEF Numbered
<1> HIDE DEF k
<1>3. \A i \in 1..k : q[i] \in SUBSET CvChunks /\ Cardinality(q[i]) \in Nat
  <2> TAKE i \in 1..k
  <2>1. q[i] \in SUBSET CvChunks
    BY <1>1, <1>2
  <2>2. IsFiniteSet(q[i])
    BY <2>1, CoverageAssumption, FS_Subset
  <2> QED
    BY <2>1, <2>2, FS_CardinalityType
<1> DEFINE row(i) == [base |-> base, number |-> i - 1, size |-> Cardinality(q[i]), examples |-> q[i], by |-> run]
<1>4. new = {row(i) : i \in 1..k}
  BY <1>2 DEF NewTopics
<1>5. new \subseteq TopicRows
  BY <1>1, <1>3, <1>4 DEF TopicRows
<1> HIDE DEF new
<1>6. \A t \in new : t.base = base /\ t.by = run /\ t.number \in 0..(k-1) /\ t = row(t.number + 1)
  <2> SUFFICES ASSUME NEW i \in 1..k
               PROVE  /\ row(i).base = base /\ row(i).by = run /\ row(i).number \in 0..(k-1)
                      /\ row(i) = row(row(i).number + 1)
    BY <1>4
  <2>1. row(i).number + 1 = i
    BY <1>1
  <2> QED
    BY <1>1, <2>1
<1>7. \A j \in 0..(k-1) : row(j + 1) \in new /\ row(j + 1).number = j
  <2> TAKE j \in 0..(k-1)
  <2>1. j + 1 \in 1..k
    BY <1>1
  <2> QED
    BY <1>1, <1>4, <2>1
<1>8. IsFiniteSet(new) /\ Cardinality(new) = k
  <2> DEFINE f == [i \in 1..k |-> row(i)]
  <2>1. IsFiniteSet(1..k) /\ Cardinality(1..k) = k
    <3>1. k \in Int /\ 1 \in Int
      BY <1>1
    <3>2. IsFiniteSet(1..k) /\ Cardinality(1..k) = (IF 1 > k THEN 0 ELSE k - 1 + 1)
      BY <3>1, FS_Interval
    <3> QED
      BY <1>1, <3>2
  <2>2. \A i \in 1..k : f[i] = row(i)
    OBVIOUS
  <2>3. f \in [1..k -> new]
    BY <1>4
  <2>4. f \in Surjection(1..k, new)
    BY <1>4, <2>2, <2>3 DEF Surjection
  <2>5. f \in Injection(1..k, new)
    <3>1. ASSUME NEW i \in 1..k, NEW j \in 1..k, f[i] = f[j]
          PROVE  i = j
      <4>1. f[i].number = i - 1 /\ f[j].number = j - 1
        BY <2>2
      <4> QED
        BY <1>1, <3>1, <4>1
    <3> HIDE DEF f
    <3> QED
      BY <2>3, <3>1 DEF Injection, IsInjective
  <2> HIDE DEF f
  <2> QED
    BY <2>1, <2>4, <2>5, FS_Surjection
<1>9. {t.number : t \in new} = 0..(k - 1)
  BY <1>6, <1>7
<1>10. ASSUME NEW t \in new, NEW u \in new, t.number < u.number
       PROVE  t.size >= u.size
  <2>1. t.number + 1 \in 1..k /\ u.number + 1 \in 1..k /\ t.number + 1 < u.number + 1
    BY <1>1, <1>6, <1>10
  <2>2. t.size = Cardinality(q[t.number + 1]) /\ u.size = Cardinality(q[u.number + 1])
    BY <1>6
  <2> QED
    BY <1>2, <2>1, <2>2
<1>11. InOrder(new)
  BY <1>6, <1>8, <1>9, <1>10 DEF InOrder
<1>12. new # {} => \E t \in new : t.number = 0
  <2> SUFFICES ASSUME new # {} PROVE \E t \in new : t.number = 0
    OBVIOUS
  <2>1. 0 \in 0..(k-1)
    BY <1>1, <1>6
  <2> QED
    BY <1>7, <2>1
<1> QED
  BY <1>5, <1>6, <1>11, <1>12 DEF new

\* So where the topics of the base all were seen, or have all been replaced, they are in order
\* when those of the scan have been stored.
LEMMA TopicsStored ==
  ASSUME NEW T, NEW n \in Nat, TopicsAreSound(T, n), NEW old, NEW base \in CvBases, NEW new,
         TopicsIn(T, base) \subseteq old \/ TopicsIn(T, base) \cap old = {},
         \A t \in old : t.base = base,
         new \subseteq TopicRows, InOrder(new), \A t \in new : t.base = base /\ t.by <= n,
         new # {} => \E t \in new : t.number = 0,
         \A t \in new : \A u \in T \ old : ~(t.base = u.base /\ t.number = u.number),
         NEW D, D = (T \ old) \cup new
  PROVE  /\ TopicsAreSound(D, n)
         /\ TopicsIn(D, base) = new \/ (new = {} /\ D = T)
         /\ \A b \in CvBases : b # base => TopicsIn(D, b) = TopicsIn(T, b)
<1>1. \A b \in CvBases : b # base => TopicsIn(D, b) = TopicsIn(T, b)
  BY DEF TopicsIn
<1>2. CASE TopicsIn(T, base) \subseteq old
  <2>1. TopicsIn(D, base) = new
    BY <1>2 DEF TopicsIn
  <2> QED
    BY <1>1, <2>1 DEF TopicsAreSound
<1>3. CASE TopicsIn(T, base) \cap old = {} /\ TopicsIn(T, base) # {}
  <2>1. \E u \in TopicsIn(T, base) : u.number = 0
    <3> DEFINE S == TopicsIn(T, base)
    <3>1. IsFiniteSet(S) /\ {t.number : t \in S} = 0 .. Cardinality(S) - 1
      BY DEF TopicsAreSound, InOrder
    <3> HIDE DEF S
    <3>2. Cardinality(S) \in Nat /\ Cardinality(S) # 0
      BY <1>3, <3>1, FS_CardinalityType, FS_EmptySet DEF S
    <3>3. 0 \in 0 .. Cardinality(S) - 1
      BY <3>2
    <3> QED
      BY <3>1, <3>3 DEF S
  <2>2. PICK u \in TopicsIn(T, base) : u.number = 0
    BY <2>1
  <2>3. u \in T \ old /\ u.base = base
    BY <1>3 DEF TopicsIn
  <2>4. new = {}
    BY <2>2, <2>3
  <2>5. D = T
    BY <1>3, <2>4 DEF TopicsIn
  <2> QED
    BY <1>1, <2>4, <2>5
<1> QED
  BY <1>2, <1>3
-----------------------------------------------------------------------------
(***************************************************************************)
(* The steps.                                                              *)
(***************************************************************************)

\* Resting and moving on to the next base, as values of a scan.
Moved(k) == [k EXCEPT !.pc = "next", !.base = 0, !.kept = {}, !.saw = {}]

\* A scan that rests fits any tables.
LEMMA RestingFits ==
  ASSUME NEW T, NEW n \in Nat
  PROVE  RestScan \in ScanRows /\ RestScan.pc = "idle" /\ Pending_(RestScan) = {} /\ ScanFits(RestScan, T, n)
<1>1. RestScan \in ScanRows
  BY DEF RestScan, ScanRows, Kinds
<1>2. RestScan.pc = "idle" /\ RestScan.kind = "pairs" /\ RestScan.run = 0
  BY DEF RestScan
<1> QED
  BY <1>1, <1>2 DEF ScanFits, Pending_

\* A scan that goes on to the next base has nothing pending there.
LEMMA MovingFits ==
  ASSUME NEW T, NEW n \in Nat, NEW k \in ScanRows, k.pc \in {"next", "delete", "insert"}, ScanFits(k, T, n)
  PROVE  /\ Moved(k) \in ScanRows /\ ScanFits(Moved(k), T, n) /\ Moved(k).run = k.run /\ Moved(k).pc = "next"
         /\ Pending_(Moved(k)) \subseteq Pending_(k) /\ Moved(k).todo = k.todo /\ Moved(k).kind = k.kind
<1>1. /\ Moved(k) \in ScanRows /\ Moved(k).run = k.run /\ Moved(k).pc = "next"
      /\ Moved(k).todo = k.todo /\ Moved(k).kind = k.kind
  BY DEF Moved, ScanRows
<1>2. Pending_(Moved(k)) \subseteq Pending_(k)
  BY <1>1 DEF Pending_
<1> QED
  BY <1>1, <1>2 DEF ScanFits

\* CoverageInv holds at the start.
LEMMA CoverageStarts == CoverageInit => CoverageInv
<1> SUFFICES ASSUME CoverageInit PROVE CoverageInv
  OBVIOUS
<1>1. cvScan \in [CvScans -> ScanRows] /\ \A s \in CvScans : cvScan[s] = RestScan
  BY RestingFits DEF CoverageInit
<1>2. cvOps = 0 /\ cvPairs = {} /\ cvTopics = {} /\ cvCross = {}
  BY DEF CoverageInit
<1>3. cvChunk \in [CvChunks -> [stored : BOOLEAN, vector : BOOLEAN, hidden : BOOLEAN]]
  BY DEF CoverageInit
<1>4. TopicsAreSound({}, 0)
  <2>1. \A b : TopicsIn({}, b) = {}
    BY DEF TopicsIn
  <2>2. IsFiniteSet({}) /\ Cardinality({}) = 0
    BY FS_EmptySet
  <2>3. InOrder({})
    BY <2>2 DEF InOrder
  <2> QED
    BY <2>1, <2>3 DEF TopicsAreSound
<1>5. ScansFit(cvScan, {}, 0)
  <2>1. \A s \in CvScans : ScanFits(cvScan[s], {}, 0) /\ cvScan[s].pc = "idle"
    BY <1>1, RestingFits
  <2> QED
    BY <2>1 DEF ScansFit, NotSeen
<1>6. PairsAreSound({}, cvChunk) /\ CrossIsSound({}, cvChunk)
  BY DEF PairsAreSound, CrossIsSound
<1> QED
  BY <1>1, <1>2, <1>3, <1>4, <1>5, <1>6 DEF CoverageInv

\* A scan that moves and leaves the tables alone, or its pairs to others.
LEMMA ScanSteps ==
  ASSUME CoverageInv, NEW s \in CvScans, NEW k \in ScanRows, Go(s, k), ScanFits(k, cvTopics, cvOps),
         k.pc = "idle" \/ (k.run = cvScan[s].run /\ cvScan[s].pc # "idle"),
         Pending_(k) \subseteq Pending_(cvScan[s]), Pending_(k) # {} => k.run = cvScan[s].run,
         k.pc = "insert" /\ k.kind = "topics" => k.saw \subseteq cvTopics,
         UNCHANGED <<cvOps, cvChunk, cvTopics>>,
         cvPairs' \subseteq PairRows, PairsAreSound(cvPairs', cvChunk), CrossIsSound(cvCross', cvChunk)
  PROVE  CoverageInv'
<1>1. cvScan' \in [CvScans -> ScanRows]
  BY DEF CoverageInv, Go
<1>2. ScansFit([cvScan EXCEPT ![s] = k], cvTopics, cvOps)
  BY ScanMoves DEF CoverageInv
<1>3. ScansFit(cvScan', cvTopics', cvOps')
  BY <1>2 DEF Go
<1> QED
  BY <1>1, <1>3 DEF CoverageInv

\* What nobody touches stays sound.
LEMMA TablesAre ==
  ASSUME CoverageInv, UNCHANGED <<cvPairs, cvCross>>
  PROVE  cvPairs' \subseteq PairRows /\ PairsAreSound(cvPairs', cvChunk) /\ CrossIsSound(cvCross', cvChunk)
  BY DEF CoverageInv

\* One lemma for each step of a scan: its start, which numbers it.
LEMMA StartScanKeeps ==
  ASSUME CoverageInv, NEW s \in CvScans, NEW kind \in Kinds, StartScan(s, kind)
  PROVE  CoverageInv'
<1> DEFINE k == [RestScan EXCEPT !.pc = "next", !.kind = kind, !.run = cvOps + 1, !.todo = CvBases]
           n == cvOps + 1
           T == cvTopics
<1>1. /\ cvScan \in [CvScans -> ScanRows] /\ cvOps \in Nat /\ TopicsAreSound(T, cvOps)
      /\ ScansFit(cvScan, T, cvOps) /\ cvScan[s] = RestScan
  BY DEF CoverageInv, StartScan
<1>2. k \in ScanRows /\ k.pc = "next" /\ k.kind = kind /\ k.run = n /\ k.todo = CvBases
  <2>1. RestScan \in ScanRows /\ n \in Nat
    BY <1>1, RestingFits
  <2> QED
    BY <2>1 DEF ScanRows
<1>3. cvOps' = n /\ cvScan' = [cvScan EXCEPT ![s] = k] /\ UNCHANGED <<cvChunk, cvPairs, cvTopics, cvCross>>
  BY DEF StartScan, SpendScan, Go, cvFound
<1> HIDE DEF k, T
<1>4. \A t \in T : t.by \in Nat /\ t.by <= cvOps
  BY <1>1 DEF TopicsAreSound, TopicRows
<1>5. \A u \in CvScans : \A t \in cvScan[u].saw : t.by \in Int
  BY <1>1 DEF ScanRows, PairRows, TopicRows
<1>6. ScansFit(cvScan, T, n)
  BY <1>1, <1>5, ScansCount
<1>7. ScanFits(k, T, n)
  <2>1. \A t \in T : t.by # k.run
    BY <1>1, <1>2, <1>4
  <2>2. k.run <= n
    BY <1>1, <1>2
  <2> QED
    BY <1>2, <2>1, <2>2 DEF ScanFits, TopicsIn
<1> DEFINE sd == [cvScan EXCEPT ![s] = k]
<1>8. sd[s] = k /\ \A u \in CvScans : u # s => sd[u] = cvScan[u]
  BY <1>1
<1> HIDE DEF sd
<1>9. \A u \in CvScans : ScanFits(sd[u], T, n)
  BY <1>6, <1>7, <1>8 DEF ScansFit
<1>10. \A u \in CvScans : u # s => sd[u].run # n
  <2> TAKE u \in CvScans
  <2>1. cvScan[u].run <= cvOps /\ cvScan[u].run \in Nat
    BY <1>1 DEF ScansFit, ScanFits, ScanRows
  <2> QED
    BY <1>1, <1>8, <2>1
<1>11. \A u, v \in CvScans : u # v /\ sd[u].pc # "idle" /\ sd[v].pc # "idle" => sd[u].run # sd[v].run
  <2> TAKE u, v \in CvScans
  <2>1. CASE u # s /\ v # s
    BY <1>1, <1>8, <2>1 DEF ScansFit
  <2>2. CASE u = s \/ v = s
    BY <1>2, <1>8, <1>10, <2>2
  <2> QED
    BY <2>1, <2>2
<1>12. ASSUME NEW u \in CvScans, NEW v \in CvScans
       PROVE  NotSeen(sd[u], sd[v])
  <2>1. CASE v = s
    BY <1>2, <1>8, <2>1 DEF NotSeen
  <2>2. CASE v # s /\ u # s
    BY <1>1, <1>8, <2>2 DEF ScansFit
  <2>3. CASE v # s /\ u = s
    <3>1. ScanFits(cvScan[v], T, cvOps) /\ cvScan[v] \in ScanRows
      BY <1>1 DEF ScansFit
    <3>2. \A t \in cvScan[v].saw : cvScan[v].pc = "insert" /\ cvScan[v].kind = "topics" => t.by <= cvOps
      BY <3>1 DEF ScanFits
    <3>3. \A t \in cvScan[v].saw : cvScan[v].pc = "insert" /\ cvScan[v].kind = "topics" => t.by # n
      BY <1>1, <1>5, <3>2
    <3> QED
      BY <1>2, <1>8, <2>3, <3>3 DEF NotSeen, TopicsIn
  <2> QED
    BY <2>1, <2>2, <2>3
<1>13. ScansFit(sd, T, n)
  BY <1>9, <1>11, <1>12 DEF ScansFit
<1>14. TopicsAreSound(T, n)
  <2>1. \A t \in T : t.by <= n
    BY <1>1, <1>4
  <2> QED
    BY <1>1, <2>1 DEF TopicsAreSound
<1>15. cvScan' \in [CvScans -> ScanRows] /\ cvOps' \in Nat
  BY <1>1, <1>2, <1>3
<1>16. cvScan' = sd /\ cvTopics' = T /\ cvOps' = n
  BY <1>3 DEF sd, T
<1> HIDE DEF n
<1> QED
  BY <1>3, <1>13, <1>14, <1>15, <1>16 DEF CoverageInv
\* Chunks that go take their pairs with them.
LEMMA ChunksKeep ==
  ASSUME CoverageInv, NEW c \in CvChunks, RemoveChunk(c) \/ AlterChunk(c)
  PROVE  CoverageInv'
<1> DEFINE n == cvOps + 1
           T == cvTopics
<1>1. /\ cvScan \in [CvScans -> ScanRows] /\ cvOps \in Nat /\ TopicsAreSound(T, cvOps) /\ ScansFit(cvScan, T, cvOps)
      /\ cvOps' = n /\ UNCHANGED <<cvTopics, cvScan>>
  BY DEF CoverageInv, RemoveChunk, AlterChunk, SpendScan, cvFound
<1>2. ScansFit(cvScan, T, n)
  <2>1. \A u \in CvScans : \A t \in cvScan[u].saw : t.by \in Int
    BY <1>1 DEF ScanRows, PairRows, TopicRows
  <2> QED
    BY <1>1, <2>1, ScansCount
<1>3. TopicsAreSound(T, n)
  <2>1. \A t \in T : t.by <= n
    BY <1>1 DEF TopicsAreSound, TopicRows
  <2> QED
    BY <1>1, <2>1 DEF TopicsAreSound
<1>4. /\ cvChunk' \in [CvChunks -> [stored : BOOLEAN, vector : BOOLEAN, hidden : BOOLEAN]]
      /\ cvPairs' \subseteq PairRows /\ PairsAreSound(cvPairs', cvChunk') /\ CrossIsSound(cvCross', cvChunk')
  <2>1. CASE RemoveChunk(c)
    <3>1. /\ cvChunk' = [cvChunk EXCEPT ![c].stored = FALSE]
          /\ cvPairs' = Without(cvPairs, c) /\ cvCross' = Without(cvCross, c)
      BY <2>1 DEF RemoveChunk
    <3>2. /\ cvChunk' \in [CvChunks -> [stored : BOOLEAN, vector : BOOLEAN, hidden : BOOLEAN]]
          /\ \A d \in CvChunks : d # c => cvChunk'[d] = cvChunk[d]
      BY <3>1 DEF CoverageInv
    <3>3. PairsAreSound(cvPairs', cvChunk') /\ cvPairs' \subseteq PairRows
      BY <3>1, <3>2 DEF CoverageInv, PairsAreSound, Without, PairRows
    <3>4. CrossIsSound(cvCross', cvChunk')
      BY <3>1, <3>2 DEF CoverageInv, CrossIsSound, Without, CrossRows
    <3> QED
      BY <3>2, <3>3, <3>4
  <2>2. CASE AlterChunk(c)
    <3>1. /\ cvChunk' \in {[cvChunk EXCEPT ![c].vector = ~@], [cvChunk EXCEPT ![c].hidden = ~@]}
          /\ UNCHANGED <<cvPairs, cvCross>>
      BY <2>2 DEF AlterChunk, cvFound
    <3>2. /\ cvChunk' \in [CvChunks -> [stored : BOOLEAN, vector : BOOLEAN, hidden : BOOLEAN]]
          /\ \A d \in CvChunks : d # c => cvChunk'[d] = cvChunk[d]
          /\ cvChunk'[c].stored = cvChunk[c].stored
      BY <3>1 DEF CoverageInv
    <3>3. \A d \in CvChunks : cvChunk'[d].stored = cvChunk[d].stored
      BY <3>2
    <3>4. PairsAreSound(cvPairs', cvChunk') /\ CrossIsSound(cvCross', cvChunk')
      BY <3>1, <3>3 DEF CoverageInv, PairsAreSound, CrossIsSound, PairRows, CrossRows
    <3> QED
      BY <3>1, <3>2, <3>4 DEF CoverageInv
  <2> QED
    BY <2>1, <2>2
<1> HIDE DEF n
<1>5. cvTopics' = T /\ cvScan' = cvScan /\ n \in Nat
  BY <1>1 DEF n
<1> QED
  BY <1>1, <1>2, <1>3, <1>4, <1>5 DEF CoverageInv

\* The reading of a base.
LEMMA ScanBaseKeeps ==
  ASSUME CoverageInv, NEW s \in CvScans, ScanBase(s)
  PROVE  CoverageInv'
<1> DEFINE w == cvScan[s]
           b == FirstBase(w.todo)
           left == [w EXCEPT !.todo = @ \ {b}]
<1>1. PICK kept : /\ kept = {} \/ kept = Scannable(b)
                  /\ \/ Go(s, left)
                     \/ Go(s, [left EXCEPT !.pc = "delete", !.base = b, !.kept = kept])
  <2>1. PICK lost \in BOOLEAN :
          LET p == IF lost THEN {} ELSE Scannable(b) IN
          Go(s, IF TooSmall(w.kind, Cardinality(p)) \/ Cardinality(Scannable(b)) > MaxChunksPerKb
                THEN left ELSE [left EXCEPT !.pc = "delete", !.base = b, !.kept = p])
    BY DEF ScanBase
  <2> DEFINE p == IF lost THEN {} ELSE Scannable(b)
  <2>2. p = {} \/ p = Scannable(b)
    OBVIOUS
  <2>3. Go(s, left) \/ Go(s, [left EXCEPT !.pc = "delete", !.base = b, !.kept = p])
    BY <2>1
  <2> QED
    BY <2>2, <2>3
<1>2. /\ w \in ScanRows /\ ScanFits(w, cvTopics, cvOps) /\ w.pc = "next" /\ w.kind \in {"pairs", "topics"}
      /\ w.todo # {} /\ UNCHANGED <<cvOps, cvChunk, cvPairs, cvTopics, cvCross>>
  BY DEF CoverageInv, ScansFit, ScanBase, cvFound
<1>3. w.todo \subseteq CvBases /\ b \in w.todo
  BY <1>2, FirstIsOne DEF ScanFits
<1>4. kept \subseteq CvChunks /\ \A c \in kept : CvBaseOf[c] = b
  BY <1>1 DEF Scannable
<1> DEFINE k == [left EXCEPT !.pc = "delete", !.base = b, !.kept = kept]
<1> HIDE DEF w, b
<1>5. left \in ScanRows /\ left.pc = "next" /\ left.kind = w.kind /\ left.run = w.run /\ left.todo = w.todo \ {b}
  BY <1>2 DEF ScanRows
<1>6. /\ k \in ScanRows /\ k.pc = "delete" /\ k.kind = w.kind /\ k.run = w.run /\ k.todo = w.todo \ {b}
      /\ k.base = b /\ k.kept = kept
  BY <1>2, <1>3, <1>4 DEF ScanRows
<1> HIDE DEF left, k
<1>7. Pending_(left) \subseteq Pending_(w) /\ Pending_(k) \subseteq Pending_(w)
  BY <1>2, <1>3, <1>5, <1>6 DEF Pending_
<1>8. ScanFits(left, cvTopics, cvOps)
  BY <1>2, <1>5, <1>7 DEF ScanFits
<1>9. ScanFits(k, cvTopics, cvOps)
  BY <1>2, <1>3, <1>4, <1>6, <1>7 DEF ScanFits
<1>10. /\ cvPairs' \subseteq PairRows /\ PairsAreSound(cvPairs', cvChunk) /\ CrossIsSound(cvCross', cvChunk)
  BY <1>2, TablesAre
<1>11. Go(s, left) \/ Go(s, k)
  BY <1>1 DEF k
<1>12. CASE Go(s, left)
  BY <1>2, <1>5, <1>7, <1>8, <1>10, <1>12, ScanSteps DEF w
<1>13. CASE Go(s, k)
  BY <1>2, <1>6, <1>7, <1>9, <1>10, <1>13, ScanSteps DEF w
<1> QED
  BY <1>11, <1>12, <1>13

\* The deletion of the rows of earlier scans.
LEMMA DeleteOldKeeps ==
  ASSUME CoverageInv, NEW s \in CvScans, DeleteOld(s)
  PROVE  CoverageInv'
<1> DEFINE w == cvScan[s]
           S == IF w.kind = "pairs" THEN StoredPairs(w.base) ELSE TopicsOf(w.base)
           k == [w EXCEPT !.pc = "insert", !.saw = S]
<1>1. /\ w \in ScanRows /\ ScanFits(w, cvTopics, cvOps) /\ w.pc = "delete"
      /\ Go(s, k) /\ UNCHANGED <<cvOps, cvChunk, cvPairs, cvTopics, cvCross>>
  BY DEF CoverageInv, ScansFit, DeleteOld, cvFound
<1>2. S \subseteq PairRows \cup TopicRows /\ (w.kind = "topics" => S = TopicsIn(cvTopics, w.base))
  BY DEF CoverageInv, TopicsAreSound, StoredPairs, TopicsOf, TopicsIn
<1>3. \A t \in cvTopics : t.by <= cvOps
  BY DEF CoverageInv, TopicsAreSound
<1> HIDE DEF w, S
<1>4. /\ k \in ScanRows /\ k.pc = "insert" /\ k.kind = w.kind /\ k.run = w.run /\ k.todo = w.todo
      /\ k.base = w.base /\ k.kept = w.kept /\ k.saw = S
  BY <1>1, <1>2 DEF ScanRows
<1> HIDE DEF k
<1>5. Pending_(k) \subseteq Pending_(w)
  BY <1>1, <1>4 DEF Pending_
<1>6. k.kind = "topics" => S \subseteq cvTopics /\ \A t \in S : t.base = k.base /\ t.by <= cvOps
  BY <1>2, <1>3, <1>4 DEF TopicsIn
<1>7. ScanFits(k, cvTopics, cvOps)
  BY <1>1, <1>2, <1>4, <1>5, <1>6 DEF ScanFits
<1>8. /\ cvPairs' \subseteq PairRows /\ PairsAreSound(cvPairs', cvChunk) /\ CrossIsSound(cvCross', cvChunk)
  BY <1>1, TablesAre
<1> QED
  BY <1>1, <1>4, <1>5, <1>6, <1>7, <1>8, ScanSteps DEF w

\* A scan that rests again, having changed no topics.
LEMMA RestKeeps ==
  ASSUME CoverageInv, NEW s \in CvScans, Go(s, RestScan), UNCHANGED <<cvOps, cvChunk, cvTopics>>,
         cvPairs' \subseteq PairRows, PairsAreSound(cvPairs', cvChunk), CrossIsSound(cvCross', cvChunk)
  PROVE  CoverageInv'
<1>1. cvOps \in Nat
  BY DEF CoverageInv
<1> QED
  BY <1>1, RestingFits, ScanSteps

\* The insertion of redundant pairs.
LEMMA StorePairsKeeps ==
  ASSUME CoverageInv, NEW s \in CvScans, StorePairs(s)
  PROVE  CoverageInv'
<1> DEFINE w == cvScan[s]
<1>1. PICK P \in Capped(RedundantPairs(w.kept)) :
        LET new == {[base |-> w.base, a |-> p[1], b |-> p[2], by |-> w.run] : p \in P} IN
        IF PairsFit(new, w.saw) THEN cvPairs' = (cvPairs \ w.saw) \cup new /\ Next_(s)
                                ELSE UNCHANGED cvPairs /\ Abort_(s)
  BY DEF StorePairs
<1> DEFINE new == {[base |-> w.base, a |-> p[1], b |-> p[2], by |-> w.run] : p \in P}
<1>2. /\ w \in ScanRows /\ ScanFits(w, cvTopics, cvOps) /\ w.pc = "insert" /\ cvOps \in Nat
      /\ UNCHANGED <<cvOps, cvChunk, cvTopics, cvCross>>
  BY DEF CoverageInv, ScansFit, StorePairs
<1>3. P \subseteq RedundantPairs(w.kept)
  BY DEF Capped
<1>4. w.kept \subseteq CvChunks /\ (\A c \in w.kept : CvBaseOf[c] = w.base) /\ w.base \in CvBases /\ w.run \in Nat
  BY <1>2 DEF ScanFits, ScanRows
<1>5. CASE PairsFit(new, w.saw)
  <2>1. cvPairs' = (cvPairs \ w.saw) \cup new /\ Next_(s)
    BY <1>1, <1>5
  <2>2. \A p \in P : p \in CvSimilar /\ p[1] \in w.kept /\ p[2] \in w.kept /\ p[1] < p[2] /\ p = <<p[1], p[2]>>
    <3>1. \A p \in CvSimilar : p = <<p[1], p[2]>>
      BY CoverageAssumption
    <3> QED
      BY <1>3, <3>1 DEF RedundantPairs
  <2>3. new \subseteq PairRows
    BY <1>4, <2>2 DEF PairRows
  <2>4. \A p \in new : /\ p.a < p.b /\ <<p.a, p.b>> \in CvSimilar
                       /\ CvBaseOf[p.a] = p.base /\ CvBaseOf[p.b] = p.base
    BY <1>4, <2>2
  <2>5. \A p, q \in new : p.a = q.a /\ p.b = q.b => p = q
    OBVIOUS
  <2> HIDE DEF new
  <2>6. PairsAreSound(cvPairs', cvChunk)
    BY <1>5, <2>1, <2>4, <2>5 DEF CoverageInv, PairsAreSound, PairsFit
  <2>7. cvPairs' \subseteq PairRows /\ CrossIsSound(cvCross', cvChunk)
    BY <1>2, <2>1, <2>3 DEF CoverageInv
  <2>8. Go(s, Moved(w))
    BY <2>1 DEF Next_, Moved
  <2> HIDE DEF w
  <2>9. /\ Moved(w) \in ScanRows /\ ScanFits(Moved(w), cvTopics, cvOps) /\ Moved(w).run = w.run
        /\ Moved(w).pc = "next" /\ Pending_(Moved(w)) \subseteq Pending_(w)
    BY <1>2, MovingFits
  <2> QED
    BY <1>2, <2>6, <2>7, <2>8, <2>9, ScanSteps DEF w
<1>6. CASE ~PairsFit(new, w.saw)
  <2>1. UNCHANGED cvPairs /\ Go(s, RestScan)
    BY <1>1, <1>6 DEF Abort_
  <2> QED
    BY <1>2, <2>1, TablesAre, RestKeeps
<1> QED
  BY <1>5, <1>6
\* The insertion of topics, and of none where another scan has inserted its own.
LEMMA StoreTopicsKeeps ==
  ASSUME CoverageInv, NEW s \in CvScans, StoreTopics(s)
  PROVE  CoverageInv'
<1> DEFINE w == cvScan[s]
           T == cvTopics
<1> PICK C \in Clusters(w.kept) \cup {{}} :
      \E q \in Numbered(C) :
        LET new == NewTopics(q, w.base, w.run) IN
        IF TopicsFit(new, w.saw) THEN cvTopics' = (cvTopics \ w.saw) \cup new /\ Next_(s)
                                 ELSE UNCHANGED cvTopics /\ Abort_(s)
  BY DEF StoreTopics, NewTopics
<1>1. PICK q \in Numbered(C) :
        LET new == NewTopics(q, w.base, w.run) IN
        IF TopicsFit(new, w.saw) THEN cvTopics' = (cvTopics \ w.saw) \cup new /\ Next_(s)
                                 ELSE UNCHANGED cvTopics /\ Abort_(s)
  OBVIOUS
<1> DEFINE new == NewTopics(q, w.base, w.run)
           D == (T \ w.saw) \cup new
<1>2. /\ w \in ScanRows /\ ScanFits(w, T, cvOps) /\ w.pc = "insert" /\ w.kind = "topics" /\ cvOps \in Nat
      /\ UNCHANGED <<cvOps, cvChunk, cvPairs, cvCross>> /\ cvScan \in [CvScans -> ScanRows]
      /\ TopicsAreSound(T, cvOps) /\ ScansFit(cvScan, T, cvOps)
  BY DEF CoverageInv, ScansFit, StoreTopics
<1>3. /\ w.kept \in SUBSET CvChunks /\ w.base \in CvBases \ w.todo /\ w.run \in Nat /\ w.run <= cvOps
      /\ \A t \in w.saw : t.base = w.base
      /\ TopicsIn(T, w.base) \subseteq w.saw \/ TopicsIn(T, w.base) \cap w.saw = {}
  BY <1>2 DEF ScanFits, ScanRows
<1>4. CASE ~TopicsFit(new, w.saw)
  <2>1. UNCHANGED cvTopics /\ Go(s, RestScan)
    BY <1>1, <1>4 DEF Abort_
  <2> QED
    BY <1>2, <2>1, TablesAre, RestKeeps
<1>5. CASE TopicsFit(new, w.saw)
  <2>1. cvTopics' = D /\ Go(s, Moved(w))
    BY <1>1, <1>5 DEF Next_, Moved
  <2>2. /\ new \subseteq TopicRows /\ InOrder(new) /\ (\A t \in new : t.base = w.base /\ t.by = w.run)
        /\ new # {} => \E t \in new : t.number = 0
    <3> DEFINE kept == w.kept
               base == w.base
               run == w.run
    <3>1. kept \in SUBSET CvChunks /\ C \in Clusters(kept) \cup {{}} /\ base \in CvBases /\ run \in Nat
      BY <1>3
    <3> HIDE DEF kept, base, run
    <3>2. LET N == NewTopics(q, base, run) IN
          /\ N \subseteq TopicRows /\ InOrder(N)
          /\ \A t \in N : t.base = base /\ t.by = run
          /\ N # {} => \E t \in N : t.number = 0
      BY <1>1, <3>1, NewTopicsOrdered
    <3> QED
      BY <3>2 DEF base, run
  <2>3. \A t \in new : \A u \in T \ w.saw : ~(t.base = u.base /\ t.number = u.number)
    BY <1>5 DEF TopicsFit
  <2>4. w.base \in CvBases /\ w.base \notin w.todo
    BY <1>3
  <2>5. \A t \in new : t.base = w.base /\ t.by <= cvOps
    BY <1>3, <2>2
  <2>6. /\ Moved(w) \in ScanRows /\ ScanFits(Moved(w), T, cvOps) /\ Moved(w).run = w.run
        /\ Moved(w).pc = "next" /\ Pending_(Moved(w)) \subseteq Pending_(w) /\ Moved(w).todo = w.todo
        /\ Moved(w).kind = "topics"
    BY <1>2, MovingFits
  <2> HIDE DEF new
  <2>7. /\ TopicsAreSound(D, cvOps)
        /\ TopicsIn(D, w.base) = new \/ D = T
        /\ \A b \in CvBases : b # w.base => TopicsIn(D, b) = TopicsIn(T, b)
    <3> DEFINE old == w.saw
               base == w.base
               n == cvOps
    <3>1. TopicsAreSound(T, n) /\ base \in CvBases /\ n \in Nat
      BY <1>2, <1>3
    <3>2. TopicsIn(T, base) \subseteq old \/ TopicsIn(T, base) \cap old = {}
      BY <1>3
    <3>3. \A t \in old : t.base = base
      BY <1>3
    <3>4. new \subseteq TopicRows /\ InOrder(new)
      BY <2>2
    <3>5. \A t \in new : t.base = base /\ t.by <= n
      BY <2>5
    <3>6. new # {} => \E t \in new : t.number = 0
      BY <2>2
    <3>7. \A t \in new : \A u \in T \ old : ~(t.base = u.base /\ t.number = u.number)
      BY <2>3
    <3>8. D = (T \ old) \cup new
      OBVIOUS
    <3> HIDE DEF old, base, n, T, D
    <3>9. /\ TopicsAreSound(D, n)
          /\ TopicsIn(D, base) = new \/ (new = {} /\ D = T)
          /\ \A b \in CvBases : b # base => TopicsIn(D, b) = TopicsIn(T, b)
      BY <3>1, <3>2, <3>3, <3>4, <3>5, <3>6, <3>7, <3>8, TopicsStored
    <3> QED
      BY <3>9 DEF old, base, n
  <2> DEFINE sd == [cvScan EXCEPT ![s] = Moved(w)]
  <2>8. ScansFit(sd, T, cvOps)
    <3> DEFINE k == Moved(w)
    <3>1. /\ k \in ScanRows /\ ScanFits(k, T, cvOps) /\ k.run = cvScan[s].run /\ cvScan[s].pc # "idle" /\ k.pc # "insert"
          /\ Pending_(k) \subseteq Pending_(cvScan[s])
      BY <1>2, <2>6
    <3> HIDE DEF k, T, w
    <3>2. ScansFit([cvScan EXCEPT ![s] = k], T, cvOps)
      BY <1>2, <3>1, ScanMoves
    <3> QED
      BY <3>2 DEF k
  <2>9. sd[s] = Moved(w) /\ (\A u \in CvScans : u # s => sd[u] = cvScan[u]) /\ sd \in [CvScans -> ScanRows]
    BY <1>2, <2>6
  <2> HIDE DEF sd, D, T
  <2>10. ASSUME NEW u \in CvScans PROVE ScanFits(sd[u], D, cvOps)
    <3> DEFINE k == sd[u]
    <3>1. ScanFits(k, T, cvOps) /\ k \in ScanRows
      BY <2>8, <2>9 DEF ScansFit
    <3>2. u # s /\ k.pc # "idle" => k.run # w.run
      BY <1>2, <2>9 DEF ScansFit
    <3>3. w.base \in Pending_(w)
      BY <1>2 DEF Pending_
    <3>4. ASSUME k.pc = "insert", k.kind = "topics"
          PROVE  TopicsIn(D, k.base) \subseteq k.saw \/ TopicsIn(D, k.base) \cap k.saw = {}
      <4>1. u # s /\ k = cvScan[u]
        BY <2>6, <2>9, <3>4
      <4>2. NotSeen(w, k)
        BY <1>2, <4>1 DEF ScansFit
      <4>3. \A t \in TopicsIn(k.saw, w.base) : t.by # w.run
        BY <3>3, <3>4, <4>2 DEF NotSeen
      <4>4. k.base \in CvBases /\ (TopicsIn(T, k.base) \subseteq k.saw \/ TopicsIn(T, k.base) \cap k.saw = {})
        BY <3>1, <3>4 DEF ScanFits
      <4>5. CASE k.base = w.base /\ TopicsIn(D, w.base) = new
        <5>1. \A t \in new : t \notin k.saw
          BY <2>2, <4>3 DEF TopicsIn
        <5> QED
          BY <4>5, <5>1
      <4>6. CASE k.base # w.base \/ D = T
        BY <2>7, <4>4, <4>6
      <4> QED
        BY <2>7, <4>5, <4>6
    <3>5. ASSUME NEW b \in Pending_(k), NEW t \in TopicsIn(D, b)
          PROVE  t.by # k.run
      <4>1. k.pc \in {"next", "delete", "insert"}
        BY <3>5 DEF Pending_
      <4>2. b \in CvBases /\ (t \in TopicsIn(T, b) => t.by # k.run)
        BY <3>1, <3>5, <4>1 DEF ScanFits, Pending_
      <4>3. CASE b = w.base /\ TopicsIn(D, w.base) = new
        <5>1. t.by = w.run
          BY <2>2, <3>5, <4>3
        <5>2. u # s
          BY <2>4, <2>6, <2>9, <3>5, <4>3 DEF Pending_
        <5> QED
          BY <3>2, <4>1, <5>1, <5>2
      <4>4. CASE b # w.base \/ D = T
        BY <2>7, <3>5, <4>2, <4>4
      <4> QED
        BY <2>7, <4>3, <4>4
    <3> HIDE DEF k
    <3>6. ScanFits(k, D, cvOps)
      BY <3>1, <3>4, <3>5 DEF ScanFits
    <3> QED
      BY <3>6 DEF k
  <2>11. ScansFit(sd, D, cvOps)
    BY <2>8, <2>10 DEF ScansFit
  <2>12. cvScan' = sd /\ cvTopics' = D
    BY <2>1 DEF Go, sd
  <2> QED
    BY <1>2, <2>7, <2>9, <2>11, <2>12 DEF CoverageInv
<1> QED
  BY <1>4, <1>5

\* The end of a scan.
LEMMA EndKeeps ==
  ASSUME CoverageInv, NEW s \in CvScans, ScanEnds(s) \/ CrossEnds(s)
  PROVE  CoverageInv'
<1>1. Go(s, RestScan) /\ UNCHANGED <<cvOps, cvChunk, cvPairs, cvTopics, cvCross>>
  BY DEF ScanEnds, CrossEnds, cvFound
<1> QED
  BY <1>1, TablesAre, RestKeeps

\* The sampling of a base for the pairs across bases.
LEMMA SampleKeeps ==
  ASSUME CoverageInv, NEW s \in CvScans, SampleBase(s)
  PROVE  CoverageInv'
<1> DEFINE w == cvScan[s]
           b == FirstBase(w.todo)
           S == IF Cardinality(Scannable(b)) < SampleMin THEN {} ELSE Scannable(b)
           k == [w EXCEPT !.todo = @ \ {b}, !.sample[b] = S]
<1>1. /\ w \in ScanRows /\ ScanFits(w, cvTopics, cvOps) /\ w.pc = "next" /\ w.kind = "cross"
      /\ Go(s, k) /\ UNCHANGED <<cvOps, cvChunk, cvPairs, cvTopics, cvCross>>
  BY DEF CoverageInv, ScansFit, SampleBase, cvFound
<1>2. S \subseteq CvChunks
  BY DEF Scannable
<1> HIDE DEF w, b, S
<1>3. k \in ScanRows /\ k.pc = "next" /\ k.kind = "cross" /\ k.run = w.run /\ k.todo = w.todo \ {b}
  <2>1. w.sample \in [CvBases -> SUBSET CvChunks]
    BY <1>1 DEF ScanRows
  <2>2. [w.sample EXCEPT ![b] = S] \in [CvBases -> SUBSET CvChunks]
    BY <1>2, <2>1
  <2>3. k = [w EXCEPT !.todo = @ \ {b}, !.sample = [w.sample EXCEPT ![b] = S]]
    OBVIOUS
  <2> HIDE DEF k
  <2> QED
    BY <1>1, <2>2, <2>3 DEF ScanRows
<1> HIDE DEF k
<1>4. Pending_(k) = {}
  BY <1>3 DEF Pending_
<1>5. ScanFits(k, cvTopics, cvOps)
  BY <1>1, <1>3, <1>4 DEF ScanFits
<1>6. /\ cvPairs' \subseteq PairRows /\ PairsAreSound(cvPairs', cvChunk) /\ CrossIsSound(cvCross', cvChunk)
  BY <1>1, TablesAre
<1> QED
  BY <1>1, <1>3, <1>4, <1>5, <1>6, ScanSteps DEF w

\* The deletion of all pairs across bases.
LEMMA EmptyKeeps ==
  ASSUME CoverageInv, NEW s \in CvScans, EmptyCross(s)
  PROVE  CoverageInv'
<1> DEFINE w == cvScan[s]
           k == [w EXCEPT !.pc = "pairwise", !.todo = BasePairs(s)]
<1>1. /\ w \in ScanRows /\ ScanFits(w, cvTopics, cvOps) /\ w.pc = "next" /\ w.kind = "cross"
      /\ Go(s, k) /\ cvCross' = {} /\ UNCHANGED <<cvOps, cvChunk, cvPairs, cvTopics>>
  BY DEF CoverageInv, ScansFit, EmptyCross
<1>2. BasePairs(s) \subseteq CvBases \X CvBases
  BY DEF BasePairs
<1> HIDE DEF w
<1>3. /\ k \in ScanRows /\ k.pc = "pairwise" /\ k.kind = "cross" /\ k.run = w.run
      /\ k.todo \subseteq CvBases \X CvBases
  BY <1>1, <1>2 DEF ScanRows
<1> HIDE DEF k
<1>4. Pending_(k) = {}
  BY <1>3 DEF Pending_
<1>5. ScanFits(k, cvTopics, cvOps)
  BY <1>1, <1>3, <1>4 DEF ScanFits
<1>6. /\ cvPairs' \subseteq PairRows /\ PairsAreSound(cvPairs', cvChunk) /\ CrossIsSound(cvCross', cvChunk)
  BY <1>1 DEF CoverageInv, CrossIsSound
<1> QED
  BY <1>1, <1>3, <1>4, <1>5, <1>6, ScanSteps DEF w

\* The insertion of the pairs between two bases.
LEMMA StoreCrossKeeps ==
  ASSUME CoverageInv, NEW s \in CvScans, StoreCross(s)
  PROVE  CoverageInv'
<1> DEFINE w == cvScan[s]
<1>1. PICK x \in w.todo :
        LET new == CrossPairs(s, x[1], x[2]) IN
        IF CrossFit(new) THEN cvCross' = cvCross \cup new /\ Go(s, [w EXCEPT !.todo = @ \ {x}])
                         ELSE UNCHANGED cvCross /\ Abort_(s)
  BY DEF StoreCross
<1>2. /\ w \in ScanRows /\ ScanFits(w, cvTopics, cvOps) /\ w.pc = "pairwise"
      /\ UNCHANGED <<cvOps, cvChunk, cvPairs, cvTopics>>
  BY DEF CoverageInv, ScansFit, StoreCross
<1> DEFINE new == CrossPairs(s, x[1], x[2])
           k == [w EXCEPT !.todo = @ \ {x}]
<1>3. CASE CrossFit(new)
  <2>1. cvCross' = cvCross \cup new /\ Go(s, k)
    BY <1>1, <1>3
  <2>2. /\ k \in ScanRows /\ k.pc = "pairwise" /\ k.kind = w.kind /\ k.run = w.run
        /\ k.todo = w.todo \ {x} /\ w.todo \subseteq CvBases \X CvBases
    BY <1>2 DEF ScanRows, ScanFits
  <2>3. Pending_(k) = {}
    BY <1>2, <2>2 DEF Pending_
  <2>4. ScanFits(k, cvTopics, cvOps)
    BY <1>2, <2>2, <2>3 DEF ScanFits
  <2>5. CrossIsSound(cvCross', cvChunk)
    <3>1. \A p, q \in new : p.a = q.a /\ p.b = q.b => p = q
      BY DEF CrossPairs
    <3>2. new \subseteq CrossRows
      <4>1. x \in CvBases \X CvBases
        BY <2>2
      <4>2. x[1] \in CvBases /\ x[2] \in CvBases
        BY <4>1
      <4>3. w.sample[x[1]] \in SUBSET CvChunks /\ w.sample[x[2]] \in SUBSET CvChunks /\ w.run \in Nat
        BY <1>2, <4>2 DEF ScanRows
      <4> QED
        BY <4>2, <4>3 DEF CrossPairs, CrossRows
    <3> HIDE DEF new
    <3> QED
      BY <1>3, <2>1, <3>1, <3>2 DEF CoverageInv, CrossIsSound, CrossFit
  <2>6. cvPairs' \subseteq PairRows /\ PairsAreSound(cvPairs', cvChunk)
    BY <1>2 DEF CoverageInv
  <2> HIDE DEF k
  <2> QED
    BY <1>2, <2>1, <2>2, <2>3, <2>4, <2>5, <2>6, ScanSteps
<1>4. CASE ~CrossFit(new)
  <2>1. UNCHANGED cvCross /\ Go(s, RestScan)
    BY <1>1, <1>4 DEF Abort_
  <2> QED
    BY <1>2, <2>1, TablesAre, RestKeeps
<1> QED
  BY <1>3, <1>4

-----------------------------------------------------------------------------
\* However the scans of knowledge bases (coverage/tasks.py) overlap and whatever becomes of the
\* chunks meanwhile, stored pairs are of stored chunks, alike, and there once, and the topics of
\* a base are those of one scan, numbered from nought by size.
THEOREM ScansStaySound == CoverageSpec => []ScansSound
<1>1. CoverageInit => CoverageInv
  BY CoverageStarts
<1>2. CoverageInv /\ [CoverageNext]_coverageVars => CoverageInv'
  <2> SUFFICES ASSUME CoverageInv, [CoverageNext]_coverageVars PROVE CoverageInv'
    OBVIOUS
  <2>1. CASE \E c \in CvChunks : RemoveChunk(c) \/ AlterChunk(c)
    BY <2>1, ChunksKeep
  <2>2. CASE \E s \in CvScans, kind \in Kinds : StartScan(s, kind)
    BY <2>2, StartScanKeeps
  <2>3. CASE \E s \in CvScans : ScanBase(s)
    BY <2>3, ScanBaseKeeps
  <2>4. CASE \E s \in CvScans : DeleteOld(s)
    BY <2>4, DeleteOldKeeps
  <2>5. CASE \E s \in CvScans : StorePairs(s)
    BY <2>5, StorePairsKeeps
  <2>6. CASE \E s \in CvScans : StoreTopics(s)
    BY <2>6, StoreTopicsKeeps
  <2>7. CASE \E s \in CvScans : ScanEnds(s) \/ CrossEnds(s)
    BY <2>7, EndKeeps
  <2>8. CASE \E s \in CvScans : SampleBase(s)
    BY <2>8, SampleKeeps
  <2>9. CASE \E s \in CvScans : EmptyCross(s)
    BY <2>9, EmptyKeeps
  <2>10. CASE \E s \in CvScans : StoreCross(s)
    BY <2>10, StoreCrossKeeps
  <2>11. CASE UNCHANGED coverageVars
    BY <2>11 DEF coverageVars, CoverageInv
  <2> QED
    BY <2>1, <2>2, <2>3, <2>4, <2>5, <2>6, <2>7, <2>8, <2>9, <2>10, <2>11 DEF CoverageNext
<1>3. CoverageInv => ScansSound
  BY DEF CoverageInv, ScansSound, PairsAreSound, CrossIsSound, TopicsAreSound, InOrder, TopicsIn, TopicsOf
<1> QED
  BY <1>1, <1>2, <1>3, PTL DEF CoverageSpec

-----------------------------------------------------------------------------
(****************************************************************************
 RAPTOR: the summaries of a build are a forest over the chunks it read.
 ****************************************************************************)

\* The rows of a chunk and of a summary, as they are made: the node is of its processing or
\* build and of its level, and what a summary stands for is one level down.
LeafShape(r, gen) == /\ r.kids = {} /\ r.id[1] = gen /\ r.id[2] = 0
                     /\ r.id[3] \in 0..StChunks /\ r.level = (IF r.id[3] = 0 THEN 1 ELSE 0)
NodeOf(n, b, level) == n[2] = level /\ IF level = 0 THEN n[3] # 0 ELSE n[1] = b
SummaryShape(r, b) == /\ r.level >= 1 /\ NodeOf(r.id, b, r.level)
                      /\ Cardinality(r.kids) >= 2 /\ \A n \in r.kids : NodeOf(n, b, r.level - 1)
\* An id is of one row, the rows of a build share no child, and what a row stands for is there
\* or was deleted by hand, where the run promises it.
Distinct(R) == \A r, q \in R : r.id = q.id => r = q
OfBuild(R, b) == {r \in R : r.build # 0 /\ BuildOf(r) = b}
Apart(R) == \A r, q \in R : r.id # q.id => r.kids \cap q.kids = {}
KidsHere(R, cut) == \A r \in R : (r.build # 0 /\ r.level >= 2) \/ r.build > 0 => r.kids \subseteq Ids(R) \cup cut
\* The rows of the document: chunks of its last processing, summaries of builds, fewer of each
\* build than there are chunks.
RowsGood(R, gen, cut) ==
  /\ IsFiniteSet(R) /\ Distinct(R)
  /\ \A r \in R : r.build = 0 => LeafShape(r, gen)
  /\ \A r \in R : r.build # 0 => BuildOf(r) \in StBuilds /\ SummaryShape(r, BuildOf(r))
  /\ \A b \in StBuilds : Apart(OfBuild(R, b)) /\ Cardinality(OfBuild(R, b)) < StChunks
  /\ KidsHere(R, cut)
\* A build under way: what it has made is a forest over chunks that are there while nothing
\* took them away, and every node left to cluster is of the level just made.  A summary stands
\* for two nodes at least, so those made and those to cluster are no more than the chunks read.
BuildGood(B, b, present) ==
  /\ IsFiniteSet(B.out) /\ IsFiniteSet(B.nodes) /\ Distinct(B.out) /\ Apart(B.out)
  /\ \A r \in B.out : r.build = b /\ SummaryShape(r, b) /\ r.level < B.level
  /\ \A r \in B.out : IF r.level >= 2 THEN r.kids \subseteq Ids(B.out) ELSE B.alone => r.kids \subseteq present
  /\ \A n \in B.nodes : NodeOf(n, b, B.level - 1)
  /\ IF B.level >= 2 THEN B.nodes \subseteq Ids(B.out) ELSE B.alone => B.nodes \subseteq present
  /\ Cardinality(B.out) + Cardinality(B.nodes) <= StChunks /\ Cardinality(B.out) < StChunks
\* The inductive invariant: besides, a build has rows only once it has inserted them, and while
\* a reprocess is between its deletion and its insert there is no chunk.
TreeInv ==
  /\ RowsGood(stRows, stGen, stCut)
  /\ stRun # "idle" => \A r \in stRows : r.build # 0
  /\ \A b \in StBuilds : stBuild[b].pc \in {"read", "cluster", "insert"} => BuildGood(stBuild[b], b, Ids(stRows) \cup stCut)
  /\ \A r \in stRows : r.build # 0 => stBuild[BuildOf(r)].pc \in {"embed", "mark", "ended"}
TreeIInv == TreeTypeOK /\ TreeInv

\* Clusters of at least two nodes: the nodes are at least twice as many, as each has two of its own.
LEMMA TwiceAsManyKids ==
  ASSUME NEW N, IsFiniteSet(N), NEW labels \in [N -> Int], NEW K \in SUBSET Int,
         \A i \in K : Cardinality(Cluster(labels, i)) >= 2
  PROVE  IsFiniteSet(K) /\ 2 * Cardinality(K) <= Cardinality(N)
<1> DEFINE C(i) == Cluster(labels, i)
           f == [i \in K |-> CHOOSE n \in C(i) : TRUE]
           g == [i \in K |-> CHOOSE n \in C(i) : n # f[i]]
           F == {f[i] : i \in K}
           G == {g[i] : i \in K}
<1>1. \A i \in K : \E m, n \in C(i) : m # n
  <2> SUFFICES ASSUME NEW i \in K PROVE \E m, n \in C(i) : m # n
    OBVIOUS
  <2>1. IsFiniteSet(C(i))
    BY FS_Subset DEF Cluster
  <2>2. C(i) # {}
    BY FS_EmptySet
  <2>3. PICK m \in C(i) : TRUE
    BY <2>2
  <2>4. C(i) # {m}
    BY FS_Singleton
  <2> QED BY <2>3, <2>4
<1>2. \A i \in K : f[i] \in N /\ g[i] \in N /\ labels[f[i]] = i /\ labels[g[i]] = i /\ f[i] # g[i]
  <2> SUFFICES ASSUME NEW i \in K PROVE f[i] \in N /\ g[i] \in N /\ labels[f[i]] = i /\ labels[g[i]] = i /\ f[i] # g[i]
    OBVIOUS
  <2>1. f[i] \in C(i)
    BY <1>1
  <2>2. \E n \in C(i) : n # f[i]
    <3> HIDE DEF f
    <3> QED BY <1>1
  <2>3. g[i] = CHOOSE n \in C(i) : n # f[i]
    <3> HIDE DEF f
    <3> QED OBVIOUS
  <2>4. g[i] \in C(i) /\ g[i] # f[i]
    <3> HIDE DEF f, g
    <3> QED BY <2>2, <2>3
  <2> QED
    <3> HIDE DEF f, g
    <3> QED BY <2>1, <2>4 DEF Cluster
<1> HIDE DEF f, g
<1>3. f \in [K -> F] /\ g \in [K -> G]
  BY DEF f, g
<1>4. F \subseteq N /\ G \subseteq N /\ F \cap G = {}
  BY <1>2
<1>5. f \in Injection(K, F) /\ g \in Injection(K, G) /\ f \in Surjection(K, F) /\ g \in Surjection(K, G)
  BY <1>2, <1>3 DEF Injection, Surjection, IsInjective
<1>6. IsFiniteSet(F) /\ IsFiniteSet(G)
  BY <1>4, FS_Subset
<1> HIDE DEF F, G
<1>7. IsFiniteSet(K) /\ Cardinality(K) = Cardinality(F)
  BY <1>5, <1>6, FS_Injection
<1>8. Cardinality(K) = Cardinality(G)
  BY <1>5, <1>6, FS_Injection
<1>9. Cardinality(F \cup G) = Cardinality(F) + Cardinality(G)
  <2>1. Cardinality(F \cap G) = 0
    BY <1>4, FS_EmptySet
  <2>2. Cardinality(F) \in Nat /\ Cardinality(G) \in Nat
    BY <1>6, FS_CardinalityType
  <2> QED BY <2>1, <2>2, <1>6, FS_Union
<1>10. Cardinality(F \cup G) <= Cardinality(N)
  BY <1>4, FS_Subset
<1>11. Cardinality(K) \in Nat
  BY <1>7, FS_CardinalityType
<1> QED BY <1>7, <1>8, <1>9, <1>10, <1>11

\* Setting or clearing vector_id changes nothing that RowsGood speaks of.
LEMMA MarkedAgain ==
  ASSUME NEW R, NEW gen, NEW cut, RowsGood(R, gen, cut), NEW S, NEW f \in [R -> S],
         NEW T, T = {f[r] : r \in R},
         \A r \in R : /\ f[r].id = r.id /\ f[r].level = r.level
                      /\ f[r].build = r.build /\ f[r].kids = r.kids
  PROVE  RowsGood(T, gen, cut) /\ Ids(T) = Ids(R)
<1>1. \A t \in T : \E r \in R : t = f[r] /\ t.id = r.id /\ t.level = r.level /\ t.build = r.build /\ t.kids = r.kids
  OBVIOUS
<1>2. \A r \in R : f[r] \in T
  OBVIOUS
<1>3. f \in Surjection(R, T)
  BY DEF Surjection
<1>4. IsFiniteSet(T)
  BY <1>3, FS_Surjection DEF RowsGood
<1>5. Ids(T) = Ids(R)
  BY <1>1, <1>2 DEF Ids
<1>6. Distinct(T)
  BY <1>1 DEF Distinct, RowsGood
<1>7. \A t \in T : t.build = 0 => LeafShape(t, gen)
  BY <1>1 DEF RowsGood, LeafShape
<1>8. \A t \in T : t.build # 0 => BuildOf(t) \in StBuilds /\ SummaryShape(t, BuildOf(t))
  <2> SUFFICES ASSUME NEW t \in T, t.build # 0 PROVE BuildOf(t) \in StBuilds /\ SummaryShape(t, BuildOf(t))
    OBVIOUS
  <2>1. PICK r \in R : t.id = r.id /\ t.level = r.level /\ t.build = r.build /\ t.kids = r.kids
    BY <1>1
  <2>2. BuildOf(t) = BuildOf(r)
    BY <2>1 DEF BuildOf
  <2>3. BuildOf(r) \in StBuilds /\ SummaryShape(r, BuildOf(r))
    BY <2>1 DEF RowsGood
  <2> QED BY <2>1, <2>2, <2>3 DEF SummaryShape
<1>9. ASSUME NEW b \in StBuilds PROVE Apart(OfBuild(T, b)) /\ Cardinality(OfBuild(T, b)) < StChunks
  <2> DEFINE A == OfBuild(R, b)
             B == OfBuild(T, b)
             h == [r \in A |-> f[r]]
  <2>1. Apart(B)
    <3> SUFFICES ASSUME NEW t \in B, NEW u \in B, t.id # u.id PROVE t.kids \cap u.kids = {}
      BY DEF Apart
    <3>1. PICK r \in R : t.id = r.id /\ t.build = r.build /\ t.kids = r.kids
      BY <1>1 DEF OfBuild
    <3>2. PICK q \in R : u.id = q.id /\ u.build = q.build /\ u.kids = q.kids
      BY <1>1 DEF OfBuild
    <3>3. r \in A /\ q \in A
      BY <3>1, <3>2 DEF OfBuild, BuildOf
    <3> QED BY <3>1, <3>2, <3>3 DEF RowsGood, Apart
  <2>2. \A r \in A : f[r] \in B
    BY <1>2 DEF OfBuild, BuildOf
  <2>3. \A t \in B : \E r \in A : f[r] = t
    BY <1>1 DEF OfBuild, BuildOf
  <2> HIDE DEF B
  <2>4. h \in Surjection(A, B)
    BY <2>2, <2>3 DEF Surjection
  <2>5. IsFiniteSet(A) /\ Cardinality(A) < StChunks
    <3>1. IsFiniteSet(R) /\ A \subseteq R
      BY DEF RowsGood, OfBuild
    <3> QED BY <3>1, FS_Subset DEF RowsGood
  <2> HIDE DEF A, h
  <2>6. IsFiniteSet(B) /\ Cardinality(B) <= Cardinality(A)
    BY <2>4, <2>5, FS_Surjection
  <2>7. Cardinality(A) \in Nat /\ Cardinality(B) \in Nat
    BY <2>5, <2>6, FS_CardinalityType
  <2>8. Cardinality(B) < StChunks
    BY <2>5, <2>6, <2>7, TreeAssumption
  <2> QED BY <2>1, <2>8 DEF B
<1>10. KidsHere(T, cut)
  <2> SUFFICES ASSUME NEW t \in T, (t.build # 0 /\ t.level >= 2) \/ t.build > 0 PROVE t.kids \subseteq Ids(T) \cup cut
    BY DEF KidsHere
  <2>1. PICK r \in R : t.level = r.level /\ t.build = r.build /\ t.kids = r.kids
    BY <1>1
  <2> QED BY <2>1, <1>5 DEF RowsGood, KidsHere
<1>11. RowsGood(T, gen, cut)
  BY <1>4, <1>6, <1>7, <1>8, <1>9, <1>10 DEF RowsGood
<1> QED BY <1>5, <1>11

\* Nor does deleting one row, which is then among those deleted by hand.
LEMMA RowDropped ==
  ASSUME NEW R, NEW gen, NEW cut, RowsGood(R, gen, cut), NEW r \in R
  PROVE  /\ RowsGood(R \ {r}, gen, cut \cup {r.id})
         /\ Ids(R) \cup cut \subseteq Ids(R \ {r}) \cup (cut \cup {r.id})
<1> DEFINE T == R \ {r}
<1>1. Ids(R) \cup cut \subseteq Ids(T) \cup (cut \cup {r.id})
  BY DEF Ids
<1>2. IsFiniteSet(T) /\ Distinct(T)
  BY FS_Subset DEF RowsGood, Distinct
<1>3. ASSUME NEW b \in StBuilds PROVE Apart(OfBuild(T, b)) /\ Cardinality(OfBuild(T, b)) < StChunks
  <2> DEFINE A == OfBuild(R, b)
             B == OfBuild(T, b)
  <2>1. B \subseteq A
    BY DEF OfBuild
  <2>2. Apart(B)
    BY <2>1 DEF Apart, RowsGood
  <2>3. IsFiniteSet(A) /\ Cardinality(A) < StChunks
    <3>1. IsFiniteSet(R) /\ A \subseteq R
      BY DEF RowsGood, OfBuild
    <3> QED BY <3>1, FS_Subset DEF RowsGood
  <2> HIDE DEF A, B
  <2>4. IsFiniteSet(B) /\ Cardinality(B) <= Cardinality(A)
    BY <2>1, <2>3, FS_Subset
  <2>5. Cardinality(A) \in Nat /\ Cardinality(B) \in Nat
    BY <2>3, <2>4, FS_CardinalityType
  <2>6. Cardinality(B) < StChunks
    BY <2>3, <2>4, <2>5, TreeAssumption
  <2> QED BY <2>2, <2>6 DEF B
<1>4. KidsHere(T, cut \cup {r.id})
  BY <1>1 DEF KidsHere, RowsGood
<1> QED BY <1>1, <1>2, <1>3, <1>4 DEF RowsGood
\* The rows of one processing are as many ids as rows, each of the shape of a chunk.
LEMMA LeavesFacts ==
  ASSUME NEW gen \in Nat
  PROVE  /\ IsFiniteSet(Leaves(gen)) /\ Distinct(Leaves(gen)) /\ Leaves(gen) \subseteq TreeRows
         /\ \A r \in Leaves(gen) : r.build = 0 /\ LeafShape(r, gen) /\ r.marked = FALSE
<1> USE TreeAssumption
<1> DEFINE Low(i) == [id |-> LeafId(gen, i), level |-> 0, build |-> 0, kids |-> {}, marked |-> FALSE]
           top == [id |-> LeafId(gen, 0), level |-> 1, build |-> 0, kids |-> {}, marked |-> FALSE]
           L == {Low(i) : i \in 1..StChunks}
           f == [i \in 1..StChunks |-> Low(i)]
<1>1. Leaves(gen) = L \cup {top}
  BY DEF Leaves
<1>2. IsFiniteSet(1..StChunks)
  BY FS_Interval
<1>3. f \in Surjection(1..StChunks, L)
  BY DEF Surjection
<1>4. IsFiniteSet(L)
  BY <1>2, <1>3, FS_Surjection
<1>5. IsFiniteSet(Leaves(gen))
  <2> HIDE DEF L, top
  <2> QED BY <1>1, <1>4, FS_AddElement
<1>6. \A i \in 1..StChunks : /\ Low(i) \in TreeRows /\ LeafShape(Low(i), gen) /\ Low(i).build = 0
                             /\ Low(i).marked = FALSE /\ Low(i).id = <<gen, 0, i>>
  BY DEF TreeRows, Nodes, LeafId, LeafShape
<1>7. top \in TreeRows /\ LeafShape(top, gen) /\ top.build = 0 /\ top.marked = FALSE /\ top.id = <<gen, 0, 0>>
  BY DEF TreeRows, Nodes, LeafId, LeafShape
<1>8. \A r \in Leaves(gen) : r = top \/ \E i \in 1..StChunks : r = Low(i)
  BY <1>1
<1>9. Distinct(Leaves(gen))
  <2> SUFFICES ASSUME NEW r \in Leaves(gen), NEW q \in Leaves(gen), r.id = q.id PROVE r = q
    BY DEF Distinct
  <2>1. CASE r = top
    BY <2>1, <1>6, <1>7, <1>8
  <2>2. CASE q = top
    BY <2>2, <1>6, <1>7, <1>8
  <2>3. CASE r # top /\ q # top
    <3>1. PICK i \in 1..StChunks : r = Low(i)
      BY <2>3, <1>8
    <3>2. PICK j \in 1..StChunks : q = Low(j)
      BY <2>3, <1>8
    <3>3. i = j
      BY <3>1, <3>2, <1>6
    <3> QED BY <3>1, <3>2, <3>3
  <2> QED BY <2>1, <2>2, <2>3
<1> HIDE DEF Low, top
<1> QED BY <1>5, <1>6, <1>7, <1>8, <1>9

\* Inserting the chunks of a new processing where those of the last are gone keeps RowsGood.
LEMMA LeavesInserted ==
  ASSUME NEW R, NEW gen \in Nat, NEW cut, RowsGood(R, gen, cut), \A r \in R : r.build # 0
  PROVE  /\ RowsGood(R \cup Leaves(gen + 1), gen + 1, cut)
         /\ Ids(R) \subseteq Ids(R \cup Leaves(gen + 1))
<1> DEFINE L == Leaves(gen + 1)
           T == R \cup L
<1>1. /\ IsFiniteSet(L) /\ Distinct(L)
      /\ \A r \in L : r.build = 0 /\ LeafShape(r, gen + 1)
  <2>1. gen + 1 \in Nat
    OBVIOUS
  <2> QED BY <2>1, LeavesFacts
<1> HIDE DEF L
<1>2. IsFiniteSet(T)
  BY <1>1, FS_Union DEF RowsGood
<1>3. \A r \in R, q \in L : r.id # q.id
  BY <1>1 DEF RowsGood, LeafShape, SummaryShape, NodeOf
<1>4. Distinct(T)
  BY <1>1, <1>3 DEF Distinct, RowsGood
<1>5. \A b \in StBuilds : OfBuild(T, b) = OfBuild(R, b)
  BY <1>1 DEF OfBuild
<1>6. KidsHere(T, cut) /\ Ids(R) \subseteq Ids(T)
  BY <1>1 DEF KidsHere, RowsGood, Ids
<1> HIDE DEF T
<1>7. RowsGood(T, gen + 1, cut)
  <2>1. \A r \in T : r.build = 0 => LeafShape(r, gen + 1)
    BY <1>1 DEF T
  <2>2. \A r \in T : r.build # 0 => BuildOf(r) \in StBuilds /\ SummaryShape(r, BuildOf(r))
    BY <1>1 DEF T, RowsGood
  <2>3. \A b \in StBuilds : Apart(OfBuild(T, b)) /\ Cardinality(OfBuild(T, b)) < StChunks
    BY <1>5 DEF RowsGood
  <2> QED BY <1>2, <1>4, <1>6, <2>1, <2>2, <2>3 DEF RowsGood
<1> QED BY <1>6, <1>7 DEF L, T

\* A build stays good while no chunk goes but by hand.
LEMMA StillGood ==
  ASSUME NEW B, NEW b, NEW P, NEW Q, BuildGood(B, b, P), P \subseteq Q
  PROVE  BuildGood(B, b, Q)
BY DEF BuildGood

\* Inserting the rows of a build that has none yet keeps RowsGood.
LEMMA SummariesInserted ==
  ASSUME NEW R, R \subseteq TreeRows, NEW gen, NEW cut, RowsGood(R, gen, cut), NEW b \in StBuilds, NEW B \in TreeBuilds,
         OfBuild(R, b) = {},
         NEW P, P = Ids(R) \cup cut, BuildGood(B, b, P), NEW T, T = R \cup SignedRows(B, b)
  PROVE  /\ RowsGood(T, gen, cut) /\ Ids(R) \subseteq Ids(T) /\ T \subseteq TreeRows
         /\ \A r \in T : r \in R \/ (r.build # 0 /\ BuildOf(r) = b)
<1> DEFINE sign == IF B.alone THEN b ELSE 0 - b
           h == [r \in B.out |-> [r EXCEPT !.build = sign]]
           N == {h[r] : r \in B.out}
<1>1. b \in Nat /\ b > 0 /\ sign \in Int /\ sign # 0 /\ (sign > 0 <=> B.alone) /\ (IF sign < 0 THEN 0 - sign ELSE sign) = b
  <2>1. b \in Nat /\ b # 0 /\ B.alone \in BOOLEAN
    BY TreeAssumption DEF TreeBuilds
  <2> QED BY <2>1
<1> HIDE DEF sign
<1>2. B.out \subseteq TreeRows
  BY DEF TreeBuilds
<1>3. \A r \in B.out : /\ h[r] \in TreeRows /\ h[r].id = r.id /\ h[r].level = r.level /\ h[r].kids = r.kids /\ h[r].build = sign
  BY <1>1, <1>2 DEF TreeRows
<1>4. T = R \cup N
  <2>1. N = {[r EXCEPT !.build = sign] : r \in B.out}
    OBVIOUS
  <2> QED BY <2>1 DEF sign, SignedRows
<1> HIDE DEF h
<1>5. \A t \in N : \E r \in B.out : t = h[r] /\ t.id = r.id /\ t.level = r.level /\ t.kids = r.kids /\ t.build = sign
  BY <1>3
<1>6. h \in [B.out -> N]
  BY DEF h
<1>7. h \in Surjection(B.out, N)
  BY <1>6 DEF Surjection
<1>8. IsFiniteSet(N) /\ Cardinality(N) <= Cardinality(B.out)
  BY <1>7, FS_Surjection DEF BuildGood
<1>9. Ids(N) = Ids(B.out)
  BY <1>3, <1>5 DEF Ids
<1>10. N \subseteq TreeRows
  BY <1>3, <1>5
<1>11. Distinct(N) /\ Apart(N)
  BY <1>5 DEF BuildGood, Distinct, Apart
<1>12. \A t \in N : t.build # 0 /\ BuildOf(t) = b /\ SummaryShape(t, b)
  BY <1>1, <1>5 DEF BuildOf, BuildGood, SummaryShape
<1>13. \A t \in N : t.kids \subseteq Ids(N) \cup Ids(R) \cup cut \/ (t.level < 2 /\ t.build < 0)
  <2> SUFFICES ASSUME NEW t \in N PROVE t.kids \subseteq Ids(N) \cup Ids(R) \cup cut \/ (t.level < 2 /\ t.build < 0)
    OBVIOUS
  <2>1. PICK r \in B.out : t.level = r.level /\ t.kids = r.kids /\ t.build = sign /\ r.level \in Nat
    BY <1>2, <1>5 DEF TreeRows
  <2>2. CASE r.level >= 2
    BY <2>1, <2>2, <1>9 DEF BuildGood
  <2>3. CASE B.alone /\ ~(r.level >= 2)
    BY <2>1, <2>3 DEF BuildGood
  <2>4. CASE ~B.alone /\ ~(r.level >= 2)
    BY <2>1, <2>4, <1>1
  <2> QED BY <2>2, <2>3, <2>4
<1> HIDE DEF N
<1>14. \A r \in R, t \in N : r.id # t.id
  <2> SUFFICES ASSUME NEW r \in R, NEW t \in N, r.id = t.id PROVE FALSE
    OBVIOUS
  <2>1. SummaryShape(t, b) /\ t.level \in Nat
    BY <1>12, <1>10 DEF TreeRows
  <2>2. CASE r.build = 0
    BY <2>1, <2>2 DEF RowsGood, LeafShape, SummaryShape, NodeOf
  <2>3. CASE r.build # 0
    <3>1. BuildOf(r) # b
      BY <2>3 DEF OfBuild
    <3>2. SummaryShape(r, BuildOf(r)) /\ r.level \in Nat
      BY <2>3 DEF RowsGood, TreeRows
    <3>3. r.id[1] = BuildOf(r) /\ t.id[1] = b
      BY <2>1, <3>2 DEF SummaryShape, NodeOf
    <3> QED BY <3>1, <3>3
  <2> QED BY <2>2, <2>3
<1>15. \A c \in StBuilds : OfBuild(T, c) = (IF c = b THEN N ELSE OfBuild(R, c))
  BY <1>4, <1>12 DEF OfBuild
<1>16. Cardinality(N) < StChunks
  <2>1. Cardinality(N) \in Nat /\ Cardinality(B.out) \in Nat /\ Cardinality(B.out) < StChunks
    BY <1>8, FS_CardinalityType DEF BuildGood
  <2> QED BY <2>1, <1>8, TreeAssumption
<1>17. IsFiniteSet(T)
  <2>1. IsFiniteSet(R \cup N)
    BY <1>8, FS_Union DEF RowsGood
  <2> QED BY <2>1, <1>4
<1>18. Distinct(T)
  BY <1>4, <1>11, <1>14 DEF Distinct, RowsGood
<1>19. Ids(T) = Ids(R) \cup Ids(N)
  BY <1>4 DEF Ids
<1>20. KidsHere(T, cut)
  <2>1. \A t \in N : (t.build # 0 /\ t.level >= 2) \/ t.build > 0 => ~(t.level < 2 /\ t.build < 0)
    BY <1>10 DEF TreeRows
  <2> QED BY <2>1, <1>4, <1>13, <1>19 DEF KidsHere, RowsGood
<1>21. RowsGood(T, gen, cut)
  <2>1. \A r \in T : r.build = 0 => LeafShape(r, gen)
    BY <1>4, <1>12 DEF RowsGood
  <2>2. \A r \in T : r.build # 0 => BuildOf(r) \in StBuilds /\ SummaryShape(r, BuildOf(r))
    BY <1>4, <1>12 DEF RowsGood
  <2>3. \A c \in StBuilds : Apart(OfBuild(T, c)) /\ Cardinality(OfBuild(T, c)) < StChunks
    BY <1>11, <1>15, <1>16 DEF RowsGood
  <2> QED BY <1>17, <1>18, <1>20, <2>1, <2>2, <2>3 DEF RowsGood
<1>22. T \subseteq TreeRows /\ Ids(R) \subseteq Ids(T)
  BY <1>4, <1>10, <1>19
<1>23. \A r \in T : r \in R \/ (r.build # 0 /\ BuildOf(r) = b)
  <2> SUFFICES ASSUME NEW r \in T, r \notin R PROVE r.build # 0 /\ BuildOf(r) = b
    OBVIOUS
  <2>1. r \in N
    BY <1>4
  <2> QED BY <2>1, <1>12
<1> QED BY <1>21, <1>22, <1>23

\* One level: whatever labels k-means gives and whichever clusters get no summary, the build stays good.
LEMMA LevelClustered ==
  ASSUME NEW b \in StBuilds, NEW B \in TreeBuilds, NEW P, BuildGood(B, b, P),
         B.level \in 1..StMaxLevels, NEW k, NEW labels \in [B.nodes -> 1..k], NEW mute,
         NEW C, C.out = B.out \cup {LevelRow(b, B.level, labels, i) : i \in Summarised(labels, mute)},
         C.nodes = {SummaryId(b, B.level, i) : i \in Summarised(labels, mute)},
         C.level = B.level + 1, C.alone = B.alone
  PROVE  /\ BuildGood(C, b, P) /\ C.out \subseteq TreeRows /\ C.nodes \subseteq Nodes
<1> DEFINE K == Summarised(labels, mute)
           level == B.level
           row(i) == LevelRow(b, level, labels, i)
           new == {row(i) : i \in K}
           ids == {SummaryId(b, level, i) : i \in K}
<1>1. /\ b \in Nat /\ b > 0 /\ level \in Nat /\ level >= 1 /\ level <= StMaxLevels
      /\ StMinCluster \in Nat /\ StMinCluster >= 2 /\ StChunks \in Nat /\ StMaxLevels \in Nat
  BY TreeAssumption
<1>2. K \subseteq Int /\ labels \in [B.nodes -> Int]
  <2>1. \A n \in B.nodes : labels[n] \in Int
    OBVIOUS
  <2> QED BY <2>1 DEF Summarised, Range
<1>3. \A i \in K : Cluster(labels, i) \subseteq B.nodes /\ Cardinality(Cluster(labels, i)) >= 2
  <2> SUFFICES ASSUME NEW i \in K PROVE Cluster(labels, i) \subseteq B.nodes /\ Cardinality(Cluster(labels, i)) >= 2
    OBVIOUS
  <2>1. Cluster(labels, i) \subseteq B.nodes
    BY DEF Cluster
  <2>2. Cardinality(Cluster(labels, i)) \in Nat
    BY <2>1, FS_Subset, FS_CardinalityType DEF BuildGood
  <2>3. Cardinality(Cluster(labels, i)) >= StMinCluster
    BY DEF Summarised
  <2> QED BY <2>1, <2>2, <2>3, <1>1
<1>4. \A i, j \in K : i # j => Cluster(labels, i) \cap Cluster(labels, j) = {}
  BY DEF Cluster
<1>5. IsFiniteSet(K) /\ 2 * Cardinality(K) <= Cardinality(B.nodes) /\ Cardinality(K) \in Nat
  <2>1. IsFiniteSet(B.nodes)
    BY DEF BuildGood
  <2> QED BY <2>1, <1>2, <1>3, TwiceAsManyKids, FS_CardinalityType
<1> HIDE DEF K
<1>6. IsFiniteSet(new) /\ Cardinality(new) <= Cardinality(K)
  <2>1. [i \in K |-> row(i)] \in Surjection(K, new)
    BY DEF Surjection
  <2> QED BY <2>1, <1>5, FS_Surjection
<1>7. IsFiniteSet(ids) /\ Cardinality(ids) <= Cardinality(K)
  <2>1. [i \in K |-> SummaryId(b, level, i)] \in Surjection(K, ids)
    BY DEF Surjection
  <2> QED BY <2>1, <1>5, FS_Surjection
<1>8. \A i \in K : /\ row(i).id = <<b, level, i>> /\ row(i).level = level /\ row(i).build = b
                   /\ row(i).kids = Cluster(labels, i) /\ row(i).marked = FALSE
  BY DEF LevelRow, SummaryId
<1>9. \A i \in K : row(i) \in TreeRows
  <2> SUFFICES ASSUME NEW i \in K PROVE row(i) \in TreeRows
    OBVIOUS
  <2>1. Cluster(labels, i) \in SUBSET Nodes
    BY <1>3 DEF TreeBuilds
  <2>2. <<b, level, i>> \in Nodes
    BY <1>1, <1>2 DEF Nodes
  <2>3. level \in 0..StMaxLevels /\ b \in Int
    BY <1>1
  <2> QED BY <2>1, <2>2, <2>3 DEF LevelRow, SummaryId, TreeRows
<1>10. \A t \in new : \E i \in K : t = row(i)
  OBVIOUS
<1>11. ids \subseteq Nodes /\ \A n \in ids : n[1] = b /\ n[2] = level
  BY <1>1, <1>2 DEF Nodes, SummaryId
<1>12. ids \subseteq Ids(new)
  BY <1>8 DEF Ids, SummaryId
<1> HIDE DEF row
<1>13. \A t \in new : SummaryShape(t, b) /\ t.build = b /\ t.level = level /\ t.kids \subseteq B.nodes
  <2> SUFFICES ASSUME NEW t \in new PROVE SummaryShape(t, b) /\ t.build = b /\ t.level = level /\ t.kids \subseteq B.nodes
    OBVIOUS
  <2>1. PICK i \in K : t = row(i)
    BY <1>10
  <2>2. NodeOf(t.id, b, t.level)
    BY <2>1, <1>1, <1>8 DEF NodeOf
  <2>3. t.level = level /\ t.build = b /\ t.kids \subseteq B.nodes /\ Cardinality(t.kids) >= 2
    BY <2>1, <1>3, <1>8
  <2>4. \A n \in t.kids : NodeOf(n, b, t.level - 1)
    BY <2>3 DEF BuildGood
  <2> QED BY <2>2, <2>3, <2>4, <1>1 DEF SummaryShape
<1>14. Distinct(new) /\ Apart(new)
  <2> SUFFICES ASSUME NEW t \in new, NEW u \in new PROVE (t.id = u.id => t = u) /\ (t.id # u.id => t.kids \cap u.kids = {})
    BY DEF Distinct, Apart
  <2>1. PICK i \in K : t = row(i)
    BY <1>10
  <2>2. PICK j \in K : u = row(j)
    BY <1>10
  <2>3. t.id = u.id <=> i = j
    BY <2>1, <2>2, <1>8
  <2> QED BY <2>1, <2>2, <2>3, <1>4, <1>8
<1> HIDE DEF new, ids
<1>15. \A r \in B.out, t \in new : r.id # t.id /\ r.kids \cap t.kids = {}
  <2> SUFFICES ASSUME NEW r \in B.out, NEW t \in new PROVE r.id # t.id /\ r.kids \cap t.kids = {}
    OBVIOUS
  <2>1. SummaryShape(r, b) /\ r.level < level /\ r.level \in Nat
    BY DEF BuildGood, TreeBuilds, TreeRows
  <2>2. SummaryShape(t, b) /\ t.level = level /\ t.kids \subseteq B.nodes
    BY <1>13
  <2>3. r.id[2] = r.level /\ t.id[2] = level
    BY <2>1, <2>2 DEF SummaryShape, NodeOf
  <2>4. \A n \in r.kids : n[2] = r.level - 1
    BY <2>1 DEF SummaryShape, NodeOf
  <2>5. \A n \in t.kids : n[2] = level - 1
    BY <2>2 DEF SummaryShape, NodeOf
  <2> QED BY <2>1, <2>3, <2>4, <2>5, <1>1
<1>16. IsFiniteSet(B.out \cup new) /\ Cardinality(B.out \cup new) <= Cardinality(B.out) + Cardinality(K)
  <2>1. IsFiniteSet(B.out) /\ Cardinality(B.out) \in Nat /\ Cardinality(new) \in Nat
    BY <1>6, FS_CardinalityType DEF BuildGood
  <2>2. IsFiniteSet(B.out \cup new) /\ Cardinality(B.out \cup new) = Cardinality(B.out) + Cardinality(new) - Cardinality(B.out \cap new)
    BY <2>1, <1>6, FS_Union
  <2>3. Cardinality(B.out \cap new) \in Nat
    BY <2>1, FS_Intersection, FS_CardinalityType
  <2> QED BY <2>1, <2>2, <2>3, <1>5, <1>6
<1>17. C.out = B.out \cup new /\ C.nodes = ids /\ C.level = level + 1
  BY DEF K, new, ids, row
<1>18. Distinct(C.out) /\ Apart(C.out)
  BY <1>14, <1>15, <1>17 DEF BuildGood, Distinct, Apart
<1>19. \A r \in C.out : r.build = b /\ SummaryShape(r, b) /\ r.level < C.level
  <2> SUFFICES ASSUME NEW r \in C.out PROVE r.build = b /\ SummaryShape(r, b) /\ r.level < C.level
    OBVIOUS
  <2>1. CASE r \in new
    BY <2>1, <1>1, <1>13, <1>17
  <2>2. CASE r \in B.out
    <3>1. r.level \in Nat /\ r.level < level /\ r.build = b /\ SummaryShape(r, b)
      BY <2>2 DEF BuildGood, TreeBuilds, TreeRows
    <3> QED BY <3>1, <1>1, <1>17
  <2> QED BY <2>1, <2>2, <1>17
<1>20. Ids(C.out) = Ids(B.out) \cup Ids(new)
  BY <1>17 DEF Ids
<1>21. ASSUME NEW r \in C.out
       PROVE  IF r.level >= 2 THEN r.kids \subseteq Ids(C.out) ELSE C.alone => r.kids \subseteq P
  <2>1. CASE r \in new
    <3>1. r.level = level /\ r.kids \subseteq B.nodes
      BY <2>1, <1>13
    <3>2. IF level >= 2 THEN B.nodes \subseteq Ids(B.out) ELSE B.alone => B.nodes \subseteq P
      BY DEF BuildGood
    <3> QED BY <3>1, <3>2, <1>20
  <2>2. CASE r \in B.out
    BY <2>2, <1>20 DEF BuildGood
  <2> QED BY <2>1, <2>2, <1>17
<1>22. /\ \A n \in C.nodes : NodeOf(n, b, C.level - 1)
       /\ C.level >= 2 /\ C.nodes \subseteq Ids(C.out)
  <2>1. C.level - 1 = level /\ level # 0 /\ C.level >= 2
    BY <1>1, <1>17
  <2> QED BY <2>1, <1>11, <1>12, <1>17, <1>20 DEF NodeOf
<1>23. Cardinality(C.out) + Cardinality(C.nodes) <= StChunks /\ Cardinality(C.out) < StChunks
  <2>1. /\ Cardinality(B.out) \in Nat /\ Cardinality(B.nodes) \in Nat /\ Cardinality(B.out) < StChunks
        /\ Cardinality(B.out) + Cardinality(B.nodes) <= StChunks
    BY FS_CardinalityType DEF BuildGood
  <2>2. Cardinality(C.out) \in Nat /\ Cardinality(C.nodes) \in Nat
    BY <1>7, <1>16, <1>17, FS_CardinalityType
  <2>3. Cardinality(C.out) <= Cardinality(B.out) + Cardinality(K) /\ Cardinality(C.nodes) <= Cardinality(K)
    BY <1>7, <1>16, <1>17
  <2>4. CASE Cardinality(K) = 0
    BY <2>1, <2>2, <2>3, <2>4, <1>1
  <2>5. CASE Cardinality(K) > 0
    BY <2>1, <2>2, <2>3, <2>5, <1>1, <1>5
  <2> QED BY <2>4, <2>5, <1>5
<1>24. BuildGood(C, b, P)
  BY <1>7, <1>16, <1>17, <1>18, <1>19, <1>21, <1>22, <1>23 DEF BuildGood
<1>25. C.out \subseteq TreeRows /\ C.nodes \subseteq Nodes
  BY <1>9, <1>10, <1>11, <1>17 DEF TreeBuilds
<1> QED BY <1>24, <1>25
\* A document without rows.
LEMMA NoRowsGood ==
  ASSUME NEW gen, NEW cut
  PROVE  RowsGood({}, gen, cut)
<1>1. IsFiniteSet({}) /\ Cardinality({}) = 0
  BY FS_EmptySet
<1>2. \A b : OfBuild({}, b) = {}
  BY DEF OfBuild
<1>3. \A b \in StBuilds : Apart(OfBuild({}, b)) /\ Cardinality(OfBuild({}, b)) < StChunks
  BY <1>1, <1>2, TreeAssumption DEF Apart
<1>4. Distinct({}) /\ KidsHere({}, cut)
  BY DEF Distinct, KidsHere
<1> QED BY <1>1, <1>3, <1>4 DEF RowsGood

\* A build that rests or has ended.
LEMMA RestOfBuild ==
  /\ RestBuild \in TreeBuilds /\ [RestBuild EXCEPT !.pc = "ended"] \in TreeBuilds
  /\ RestBuild.pc = "idle" /\ [RestBuild EXCEPT !.pc = "ended"].pc = "ended"
<1>1. 1 \in 1..(StMaxLevels + 1)
  BY TreeAssumption
<1>2. "idle" \in BuildStates /\ "ended" \in BuildStates
  BY DEF BuildStates
<1> QED BY <1>1, <1>2 DEF RestBuild, TreeBuilds

\* The invariant holds at the start.
LEMMA TreeStarts == TreeInit => TreeIInv
<1> SUFFICES ASSUME TreeInit PROVE TreeIInv
  OBVIOUS
<1> USE DEF TreeInit
<1>1. RowsGood(stRows, stGen, stCut) /\ stRows \subseteq TreeRows
  <2>1. RowsGood({} \cup Leaves(0 + 1), 0 + 1, {})
    BY NoRowsGood, LeavesInserted
  <2>2. {} \cup Leaves(0 + 1) = stRows /\ stGen = 0 + 1
    OBVIOUS
  <2>3. Leaves(1) \subseteq TreeRows
    BY LeavesFacts
  <2> QED BY <2>1, <2>2, <2>3
<1>2. \A r \in stRows : r.build = 0
  <2>1. 1 \in Nat
    OBVIOUS
  <2> QED BY <2>1, LeavesFacts
<1>3. \A b \in StBuilds : stBuild[b].pc = "idle"
  BY RestOfBuild
<1>4. TreeTypeOK
  BY <1>1, RestOfBuild, TreeAssumption DEF TreeTypeOK
<1> QED BY <1>1, <1>2, <1>3, <1>4 DEF TreeIInv, TreeInv

\* What a step keeps that leaves the working builds as they are and takes no row away.
LEMMA BuildsUntouched ==
  ASSUME TreeIInv, stBuild' = stBuild, Ids(stRows) \cup stCut \subseteq Ids(stRows') \cup stCut'
  PROVE  \A b \in StBuilds : stBuild'[b].pc \in {"read", "cluster", "insert"} =>
           BuildGood(stBuild'[b], b, Ids(stRows') \cup stCut')
BY StillGood DEF TreeIInv, TreeInv

\* What a step keeps that only sets or clears vector_id.
LEMMA RowsMarkedAgain ==
  ASSUME TreeIInv, NEW f, f = [r \in stRows |-> f[r]], stRows' = {f[r] : r \in stRows},
         \A r \in stRows : /\ f[r] \in TreeRows /\ f[r].id = r.id /\ f[r].level = r.level
                           /\ f[r].build = r.build /\ f[r].kids = r.kids,
         stGen' = stGen, stCut' = stCut
  PROVE  /\ RowsGood(stRows', stGen', stCut') /\ Ids(stRows') = Ids(stRows) /\ stRows' \subseteq TreeRows
         /\ \A t \in stRows' : \E r \in stRows : t.build = r.build
<1>1. f \in [stRows -> TreeRows]
  OBVIOUS
<1>2. RowsGood(stRows, stGen, stCut)
  BY DEF TreeIInv, TreeInv
<1>3. RowsGood(stRows', stGen, stCut) /\ Ids(stRows') = Ids(stRows)
  <2> DEFINE R == stRows
             gen == stGen
             cut == stCut
             T == stRows'
  <2>1. \A r \in R : f[r].id = r.id /\ f[r].level = r.level /\ f[r].build = r.build /\ f[r].kids = r.kids
    OBVIOUS
  <2>2. RowsGood(R, gen, cut) /\ f \in [R -> TreeRows] /\ T = {f[r] : r \in R}
    BY <1>1, <1>2
  <2> HIDE DEF R, gen, cut, T
  <2>3. RowsGood(T, gen, cut) /\ Ids(T) = Ids(R)
    BY <2>1, <2>2, MarkedAgain
  <2> QED BY <2>3 DEF R, gen, cut, T
<1>4. stRows' \subseteq TreeRows /\ \A t \in stRows' : \E r \in stRows : t.build = r.build
  OBVIOUS
<1> QED BY <1>3, <1>4

\* One lemma for each operation: embedding the rows without a vector.
LEMMA EmbedUnitKeeps == TreeIInv /\ EmbedUnit => TreeIInv'
<1> SUFFICES ASSUME TreeIInv, EmbedUnit PROVE TreeIInv'
  OBVIOUS
<1>1. PICK f : f = [r \in stRows |-> [r EXCEPT !.marked = TRUE]]
  OBVIOUS
<1>2. stRows \subseteq TreeRows
  BY DEF TreeIInv, TreeTypeOK
<1>3. \A r \in stRows : /\ f[r] \in TreeRows /\ f[r].id = r.id /\ f[r].level = r.level
                        /\ f[r].build = r.build /\ f[r].kids = r.kids
  BY <1>1, <1>2 DEF TreeRows
<1>4. f = [r \in stRows |-> f[r]] /\ stRows' = {f[r] : r \in stRows} /\ stGen' = stGen /\ stCut' = stCut
  BY <1>1 DEF EmbedUnit
<1>5. /\ RowsGood(stRows', stGen', stCut') /\ Ids(stRows') = Ids(stRows) /\ stRows' \subseteq TreeRows
      /\ \A t \in stRows' : \E r \in stRows : t.build = r.build
  BY <1>3, <1>4, RowsMarkedAgain
<1>6. stQueue' \in Nat
  <2> DEFINE D == {b \in StBuilds : stBuild[b].pc = "idle"}
             S == {stQueue + 1, Cardinality(D)}
  <2>1. IsFiniteSet(D)
    BY TreeAssumption, FS_Subset
  <2>2. Cardinality(D) \in Nat /\ stQueue + 1 \in Nat
    BY <2>1, FS_CardinalityType DEF TreeIInv, TreeTypeOK
  <2>3. stQueue' = Min(S)
    BY DEF EmbedUnit
  <2> HIDE DEF D
  <2>4. \E x \in S : \A y \in S : x <= y
    <3>1. CASE stQueue + 1 <= Cardinality(D)
      BY <2>2, <3>1
    <3>2. CASE ~(stQueue + 1 <= Cardinality(D))
      <4>1. Cardinality(D) <= stQueue + 1
        BY <2>2, <3>2
      <4> QED BY <2>2, <4>1
    <3> QED BY <3>1, <3>2
  <2>5. Min(S) \in S
    <3> HIDE DEF S
    <3> QED BY <2>4 DEF Min
  <2> QED BY <2>2, <2>3, <2>5
<1>7. stIndex' \subseteq Nodes
  BY <1>2 DEF EmbedUnit, TreeIInv, TreeTypeOK, Ids, TreeRows
<1>8. TreeTypeOK'
  BY <1>5, <1>6, <1>7 DEF EmbedUnit, TreeIInv, TreeTypeOK
<1>9. stBuild' = stBuild /\ stRun' = stRun
  BY DEF EmbedUnit
<1>10. \A b \in StBuilds : stBuild'[b].pc \in {"read", "cluster", "insert"} =>
           BuildGood(stBuild'[b], b, Ids(stRows') \cup stCut')
  BY <1>4, <1>5, <1>9, BuildsUntouched
<1>11. stRun' # "idle" => \A r \in stRows' : r.build # 0
  BY <1>5, <1>9 DEF TreeIInv, TreeInv
<1>12. \A r \in stRows' : r.build # 0 => stBuild'[BuildOf(r)].pc \in {"embed", "mark", "ended"}
  BY <1>5, <1>9 DEF TreeIInv, TreeInv, BuildOf
<1> QED BY <1>5, <1>8, <1>10, <1>11, <1>12 DEF TreeIInv, TreeInv
\* Editing one chunk.
LEMMA EditChunkKeeps == TreeIInv /\ EditChunk => TreeIInv'
<1> SUFFICES ASSUME TreeIInv, EditChunk PROVE TreeIInv'
  OBVIOUS
<1> PICK e \in Editable : stRows' = (stRows \ {e}) \cup {[e EXCEPT !.marked = FALSE]}
  BY DEF EditChunk
<1>1. PICK f : f = [r \in stRows |-> IF r = e THEN [r EXCEPT !.marked = FALSE] ELSE r]
  OBVIOUS
<1>2. stRows \subseteq TreeRows /\ e \in stRows
  BY DEF TreeIInv, TreeTypeOK, Editable
<1>3. \A r \in stRows : /\ f[r] \in TreeRows /\ f[r].id = r.id /\ f[r].level = r.level
                        /\ f[r].build = r.build /\ f[r].kids = r.kids
  BY <1>1, <1>2 DEF TreeRows
<1>4. f = [r \in stRows |-> f[r]] /\ stRows' = {f[r] : r \in stRows} /\ stGen' = stGen /\ stCut' = stCut
  BY <1>1, <1>2 DEF EditChunk
<1>5. /\ RowsGood(stRows', stGen', stCut') /\ Ids(stRows') = Ids(stRows) /\ stRows' \subseteq TreeRows
      /\ \A t \in stRows' : \E r \in stRows : t.build = r.build
  BY <1>3, <1>4, RowsMarkedAgain
<1>6. TreeTypeOK'
  BY <1>5, TreeAssumption DEF EditChunk, SpendEdit, TreeIInv, TreeTypeOK
<1>7. stBuild' = stBuild /\ stRun' = stRun
  BY DEF EditChunk
<1>8. \A b \in StBuilds : stBuild'[b].pc \in {"read", "cluster", "insert"} =>
           BuildGood(stBuild'[b], b, Ids(stRows') \cup stCut')
  BY <1>4, <1>5, <1>7, BuildsUntouched
<1>9. stRun' # "idle" => \A r \in stRows' : r.build # 0
  BY <1>5, <1>7 DEF TreeIInv, TreeInv
<1>10. \A r \in stRows' : r.build # 0 => stBuild'[BuildOf(r)].pc \in {"embed", "mark", "ended"}
  BY <1>5, <1>7 DEF TreeIInv, TreeInv, BuildOf
<1> QED BY <1>5, <1>6, <1>8, <1>9, <1>10 DEF TreeIInv, TreeInv

\* Deleting one chunk.
LEMMA DropChunkKeeps == TreeIInv /\ DropChunk => TreeIInv'
<1> SUFFICES ASSUME TreeIInv, DropChunk PROVE TreeIInv'
  OBVIOUS
<1>1. PICK e \in Editable : /\ stRows' = stRows \ {e} /\ stCut' = stCut \cup {e.id}
                            /\ stIndex' \in {stIndex, stIndex \ {e.id}}
  BY DEF DropChunk
<1>2. stRows \subseteq TreeRows /\ e \in stRows /\ e.id \in Nodes
  BY DEF TreeIInv, TreeTypeOK, Editable, TreeRows
<1>3. /\ RowsGood(stRows', stGen, stCut')
      /\ Ids(stRows) \cup stCut \subseteq Ids(stRows') \cup stCut'
  BY <1>1, <1>2, RowDropped DEF TreeIInv, TreeInv
<1>4. stGen' = stGen /\ stBuild' = stBuild /\ stRun' = stRun
  BY DEF DropChunk
<1>5. TreeTypeOK'
  BY <1>1, <1>2, TreeAssumption DEF DropChunk, SpendEdit, TreeIInv, TreeTypeOK
<1>6. \A b \in StBuilds : stBuild'[b].pc \in {"read", "cluster", "insert"} =>
           BuildGood(stBuild'[b], b, Ids(stRows') \cup stCut')
  BY <1>3, <1>4, BuildsUntouched
<1>7. /\ stRun' # "idle" => \A r \in stRows' : r.build # 0
      /\ \A r \in stRows' : r.build # 0 => stBuild'[BuildOf(r)].pc \in {"embed", "mark", "ended"}
  BY <1>1, <1>4 DEF TreeIInv, TreeInv
<1> QED BY <1>3, <1>4, <1>5, <1>6, <1>7 DEF TreeIInv, TreeInv

\* What taking all rows leaves: the builds under way no longer count on the chunks.
LEMMA DisturbedGood ==
  ASSUME TreeIInv, stBuild' = Disturbed, NEW Q
  PROVE  /\ stBuild' \in [StBuilds -> TreeBuilds]
         /\ \A b \in StBuilds : /\ stBuild'[b].pc = stBuild[b].pc
                                /\ stBuild[b].pc \in {"read", "cluster", "insert"} => BuildGood(stBuild'[b], b, Q)
<1>1. stBuild \in [StBuilds -> TreeBuilds]
  BY DEF TreeIInv, TreeTypeOK
<1>2. ASSUME NEW b \in StBuilds
      PROVE  /\ stBuild'[b] \in TreeBuilds /\ stBuild'[b].pc = stBuild[b].pc /\ stBuild'[b].nodes = stBuild[b].nodes
             /\ stBuild'[b].level = stBuild[b].level /\ stBuild'[b].out = stBuild[b].out /\ stBuild'[b].alone = FALSE
  <2>1. stBuild[b] \in TreeBuilds /\ stBuild'[b] = [stBuild[b] EXCEPT !.alone = FALSE]
    BY <1>1 DEF Disturbed
  <2> QED BY <2>1 DEF TreeBuilds
<1>3. stBuild' \in [StBuilds -> TreeBuilds]
  BY <1>2 DEF Disturbed
<1>4. ASSUME NEW b \in StBuilds, stBuild[b].pc \in {"read", "cluster", "insert"} PROVE BuildGood(stBuild'[b], b, Q)
  <2>1. BuildGood(stBuild[b], b, Ids(stRows) \cup stCut)
    BY <1>4 DEF TreeIInv, TreeInv
  <2> DEFINE B == stBuild[b]
             C == stBuild'[b]
             P == Ids(stRows) \cup stCut
  <2>2. BuildGood(B, b, P) /\ C.nodes = B.nodes /\ C.level = B.level /\ C.out = B.out /\ C.alone = FALSE
    BY <2>1, <1>2
  <2> HIDE DEF B, C, P
  <2>3. BuildGood(C, b, Q)
    BY <2>2 DEF BuildGood
  <2> QED BY <2>3 DEF C
<1> QED BY <1>2, <1>3, <1>4

\* Processing again, its deletion.
LEMMA StartReprocessKeeps == TreeIInv /\ StartReprocess => TreeIInv'
<1> SUFFICES ASSUME TreeIInv, StartReprocess PROVE TreeIInv'
  OBVIOUS
<1>1. stRows' = {} /\ stBuild' = Disturbed
  BY DEF StartReprocess
<1>2. RowsGood(stRows', stGen', stCut')
  BY <1>1, NoRowsGood
<1>3. /\ stBuild' \in [StBuilds -> TreeBuilds]
      /\ \A b \in StBuilds : stBuild'[b].pc \in {"read", "cluster", "insert"} =>
           BuildGood(stBuild'[b], b, Ids(stRows') \cup stCut')
  BY <1>1, DisturbedGood
<1>4. TreeTypeOK'
  BY <1>1, <1>3, TreeAssumption DEF StartReprocess, SpendEdit, TreeIInv, TreeTypeOK
<1> QED BY <1>1, <1>2, <1>3, <1>4 DEF TreeIInv, TreeInv

\* Deleting the document.
LEMMA DeleteUnitKeeps == TreeIInv /\ DeleteUnit => TreeIInv'
<1> SUFFICES ASSUME TreeIInv, DeleteUnit PROVE TreeIInv'
  OBVIOUS
<1>1. stRows' = {} /\ stBuild' = Disturbed
  BY DEF DeleteUnit
<1>2. RowsGood(stRows', stGen', stCut')
  BY <1>1, NoRowsGood
<1>3. /\ stBuild' \in [StBuilds -> TreeBuilds]
      /\ \A b \in StBuilds : stBuild'[b].pc \in {"read", "cluster", "insert"} =>
           BuildGood(stBuild'[b], b, Ids(stRows') \cup stCut')
  BY <1>1, DisturbedGood
<1>4. TreeTypeOK'
  BY <1>1, <1>3, TreeAssumption DEF DeleteUnit, SpendEdit, TreeIInv, TreeTypeOK
<1> QED BY <1>1, <1>2, <1>3, <1>4 DEF TreeIInv, TreeInv

\* Processing again, its purge of Milvus.
LEMMA PurgeUnitKeeps == TreeIInv /\ PurgeUnit => TreeIInv'
<1> SUFFICES ASSUME TreeIInv, PurgeUnit PROVE TreeIInv'
  OBVIOUS
<1>1. /\ UNCHANGED <<stGen, stRows, stBuild, stCut>>
      /\ stRun = "purge" /\ stRun' = "insert" /\ stIndex' = {}
  BY DEF PurgeUnit
<1>2. TreeTypeOK'
  BY <1>1 DEF PurgeUnit, TreeIInv, TreeTypeOK
<1>3. TreeInv'
  <2>1. RowsGood(stRows', stGen', stCut')
    BY <1>1 DEF TreeIInv, TreeInv
  <2>2. \A b \in StBuilds : stBuild'[b].pc \in {"read", "cluster", "insert"} =>
           BuildGood(stBuild'[b], b, Ids(stRows') \cup stCut')
    BY <1>1, BuildsUntouched
  <2>3. /\ stRun' # "idle" => \A r \in stRows' : r.build # 0
        /\ \A r \in stRows' : r.build # 0 => stBuild'[BuildOf(r)].pc \in {"embed", "mark", "ended"}
    BY <1>1 DEF TreeIInv, TreeInv
  <2> QED BY <2>1, <2>2, <2>3 DEF TreeInv
<1> QED BY <1>2, <1>3 DEF TreeIInv

\* Processing again, its insert.
LEMMA InsertRowsKeeps == TreeIInv /\ InsertRows => TreeIInv'
<1> SUFFICES ASSUME TreeIInv, InsertRows PROVE TreeIInv'
  OBVIOUS
<1>1. UNCHANGED <<stDoc, stBuild, stCut, stIndex, stQueue, stOps>> /\ stRun = "insert" /\ stRun' = "idle"
  BY DEF InsertRows
<1>2. stGen \in Nat /\ stRows \subseteq TreeRows /\ RowsGood(stRows, stGen, stCut) /\ \A r \in stRows : r.build # 0
  BY <1>1 DEF TreeIInv, TreeTypeOK, TreeInv
<1>3. CASE stGen' = stGen + 1 /\ stRows' = stRows \cup Leaves(stGen + 1)
  <2>1. RowsGood(stRows', stGen', stCut') /\ Ids(stRows) \subseteq Ids(stRows')
    BY <1>1, <1>2, <1>3, LeavesInserted
  <2>2. stGen + 1 \in Nat
    BY <1>2
  <2>3. Leaves(stGen + 1) \subseteq TreeRows /\ \A r \in Leaves(stGen + 1) : r.build = 0
    BY <2>2, LeavesFacts
  <2>4. TreeTypeOK'
    BY <1>1, <1>3, <2>2, <2>3 DEF TreeIInv, TreeTypeOK
  <2>5. \A b \in StBuilds : stBuild'[b].pc \in {"read", "cluster", "insert"} =>
           BuildGood(stBuild'[b], b, Ids(stRows') \cup stCut')
    BY <1>1, <2>1, BuildsUntouched
  <2>6. \A r \in stRows' : r.build # 0 => stBuild'[BuildOf(r)].pc \in {"embed", "mark", "ended"}
    <3> SUFFICES ASSUME NEW r \in stRows', r.build # 0 PROVE stBuild'[BuildOf(r)].pc \in {"embed", "mark", "ended"}
      OBVIOUS
    <3>1. r \in stRows
      BY <1>3, <2>3
    <3> QED BY <3>1, <1>1 DEF TreeIInv, TreeInv
  <2> QED BY <1>1, <2>1, <2>4, <2>5, <2>6 DEF TreeIInv, TreeInv
<1>4. CASE UNCHANGED <<stGen, stRows>>
  <2>1. \A b \in StBuilds : stBuild'[b].pc \in {"read", "cluster", "insert"} =>
           BuildGood(stBuild'[b], b, Ids(stRows') \cup stCut')
    BY <1>1, <1>4, BuildsUntouched
  <2>2. TreeTypeOK' /\ RowsGood(stRows', stGen', stCut')
    BY <1>1, <1>2, <1>4 DEF TreeIInv, TreeTypeOK
  <2>3. \A r \in stRows' : r.build # 0 => stBuild'[BuildOf(r)].pc \in {"embed", "mark", "ended"}
    BY <1>1, <1>4 DEF TreeIInv, TreeInv
  <2> QED BY <1>1, <2>1, <2>2, <2>3 DEF TreeIInv, TreeInv
<1> QED BY <1>3, <1>4 DEF InsertRows
\* What a step of one build keeps that leaves the rows as they are.
LEMMA BuildMoves ==
  ASSUME TreeIInv, NEW b \in StBuilds, NEW x \in TreeBuilds, BuildGoes(b, x),
         x.pc \in {"read", "cluster", "insert"} => BuildGood(x, b, Ids(stRows) \cup stCut),
         stBuild[b].pc \in {"embed", "mark", "ended"} => x.pc \in {"embed", "mark", "ended"},
         UNCHANGED <<stDoc, stGen, stRun, stRows, stCut, stOps>>, stQueue' \in Nat, stIndex' \subseteq Nodes
  PROVE  TreeIInv'
<1>1. stBuild \in [StBuilds -> TreeBuilds]
  BY DEF TreeIInv, TreeTypeOK
<1>2. /\ stBuild' \in [StBuilds -> TreeBuilds] /\ stBuild'[b] = x
      /\ \A c \in StBuilds : c # b => stBuild'[c] = stBuild[c]
  BY <1>1 DEF BuildGoes
<1>3. TreeTypeOK'
  BY <1>2 DEF TreeIInv, TreeTypeOK
<1>4. RowsGood(stRows', stGen', stCut')
  BY DEF TreeIInv, TreeInv
<1>5. ASSUME NEW c \in StBuilds, stBuild'[c].pc \in {"read", "cluster", "insert"}
      PROVE  BuildGood(stBuild'[c], c, Ids(stRows') \cup stCut')
  <2>1. CASE c = b
    BY <2>1, <1>2, <1>5
  <2>2. CASE c # b
    <3>1. BuildGood(stBuild[c], c, Ids(stRows) \cup stCut)
      BY <2>2, <1>2, <1>5 DEF TreeIInv, TreeInv
    <3>2. stBuild'[c] = stBuild[c] /\ stRows' = stRows /\ stCut' = stCut
      BY <2>2, <1>2
    <3> QED BY <3>1, <3>2
  <2> QED BY <2>1, <2>2
<1>6. ASSUME NEW r \in stRows', r.build # 0 PROVE stBuild'[BuildOf(r)].pc \in {"embed", "mark", "ended"}
  <2>1. r \in stRows /\ BuildOf(r) \in StBuilds /\ stBuild[BuildOf(r)].pc \in {"embed", "mark", "ended"}
    BY <1>6 DEF TreeIInv, TreeInv, RowsGood
  <2> QED BY <2>1, <1>2
<1>7. stRun' # "idle" => \A r \in stRows' : r.build # 0
  BY DEF TreeIInv, TreeInv
<1> QED BY <1>3, <1>4, <1>5, <1>6, <1>7 DEF TreeIInv, TreeInv

\* The chunks a build reads: all of one processing, so at most StChunks.
LEMMA SeedsRead ==
  ASSUME TreeIInv
  PROVE  /\ IsFiniteSet(Ids(SeedRows)) /\ Cardinality(Ids(SeedRows)) <= StChunks /\ Ids(SeedRows) \subseteq Nodes
         /\ Ids(SeedRows) \subseteq Ids(stRows) /\ \A b : \A n \in Ids(SeedRows) : NodeOf(n, b, 0)
<1>1. stRows \subseteq TreeRows /\ RowsGood(stRows, stGen, stCut)
  BY DEF TreeIInv, TreeTypeOK, TreeInv
<1>2. \A r \in SeedRows : /\ r \in stRows /\ r.level = 0 /\ r.build = 0 /\ r.id \in Nodes
                          /\ r.id[1] = stGen /\ r.id[2] = 0 /\ r.id[3] \in 1..StChunks
  <2> SUFFICES ASSUME NEW r \in SeedRows
               PROVE  /\ r \in stRows /\ r.level = 0 /\ r.build = 0 /\ r.id \in Nodes
                      /\ r.id[1] = stGen /\ r.id[2] = 0 /\ r.id[3] \in 1..StChunks
    OBVIOUS
  <2>1. r \in stRows /\ r.level = 0 /\ r.id \in Nodes
    BY <1>1 DEF SeedRows, TreeRows
  <2>2. r.build = 0
    BY <2>1, <1>1 DEF RowsGood, SummaryShape
  <2>3. LeafShape(r, stGen)
    BY <2>1, <2>2, <1>1 DEF RowsGood
  <2>4. r.id[1] = stGen /\ r.id[2] = 0 /\ r.id[3] \in 0..StChunks /\ r.id[3] # 0
    BY <2>1, <2>3 DEF LeafShape
  <2> QED BY <2>1, <2>2, <2>4, TreeAssumption
<1> DEFINE S == Ids(SeedRows)
           h == [n \in S |-> n[3]]
<1>3. \A n \in S : n \in Nodes /\ n[1] = stGen /\ n[2] = 0 /\ n[3] \in 1..StChunks
  BY <1>2 DEF Ids
<1>4. \A m, n \in S : m[3] = n[3] => m = n
  BY <1>3 DEF Nodes
<1>5. S \subseteq Ids(stRows)
  BY <1>2 DEF Ids
<1> HIDE DEF S
<1>6. h \in Injection(S, 1..StChunks)
  BY <1>3, <1>4 DEF Injection, IsInjective
<1>7. IsFiniteSet(1..StChunks) /\ Cardinality(1..StChunks) = StChunks
  BY FS_Interval, TreeAssumption
<1>8. IsFiniteSet(S) /\ Cardinality(S) <= StChunks
  BY <1>6, <1>7, FS_Injection
<1>9. S \subseteq Nodes /\ \A b : \A n \in S : NodeOf(n, b, 0)
  BY <1>3 DEF NodeOf
<1> QED BY <1>5, <1>8, <1>9 DEF S

\* The read of a build.
LEMMA ReadLeavesKeeps == TreeIInv /\ (\E b \in StBuilds : ReadLeaves(b)) => TreeIInv'
<1> SUFFICES ASSUME TreeIInv, NEW b \in StBuilds, ReadLeaves(b) PROVE TreeIInv'
  OBVIOUS
<1>1. /\ stBuild[b].pc = "idle" /\ stQueue' \in Nat /\ stIndex' \subseteq Nodes
      /\ UNCHANGED <<stDoc, stGen, stRun, stRows, stCut, stOps>>
  BY DEF ReadLeaves, TreeIInv, TreeTypeOK
<1> DEFINE ended == [RestBuild EXCEPT !.pc = "ended"]
           x == [RestBuild EXCEPT !.pc = "read", !.nodes = Ids(SeedRows)]
<1>2. CASE BuildGoes(b, ended)
  <2>1. ended \in TreeBuilds /\ ended.pc = "ended"
    BY RestOfBuild
  <2> QED BY <1>1, <1>2, <2>1, BuildMoves
<1>3. CASE BuildGoes(b, x)
  <2> DEFINE N == Ids(SeedRows)
  <2>1. /\ IsFiniteSet(N) /\ Cardinality(N) <= StChunks /\ N \subseteq Nodes
        /\ N \subseteq Ids(stRows) /\ \A n \in N : NodeOf(n, b, 0)
    BY SeedsRead
  <2> HIDE DEF N
  <2>2. x = [RestBuild EXCEPT !.pc = "read", !.nodes = N]
    BY DEF N
  <2> HIDE DEF x
  <2>3. x \in TreeBuilds /\ x.pc = "read" /\ x.nodes = N /\ x.level = 1 /\ x.out = {} /\ x.alone = TRUE
    <3>1. RestBuild \in TreeBuilds /\ RestBuild.level = 1 /\ RestBuild.out = {} /\ RestBuild.alone = TRUE
      BY RestOfBuild DEF RestBuild
    <3>2. "read" \in BuildStates
      BY DEF BuildStates
    <3> QED BY <2>1, <2>2, <3>1, <3>2 DEF TreeBuilds
  <2>4. BuildGood(x, b, Ids(stRows) \cup stCut)
    <3>1. IsFiniteSet({}) /\ Cardinality({}) = 0
      BY FS_EmptySet
    <3>2. Cardinality(N) \in Nat
      BY <2>1, FS_CardinalityType
    <3>3. 0 + Cardinality(N) <= StChunks /\ 0 < StChunks
      BY <2>1, <3>2, TreeAssumption
    <3>4. Distinct({}) /\ Apart({})
      BY DEF Distinct, Apart
    <3>5. x.out = {} /\ x.nodes = N /\ x.level = 1 /\ x.level - 1 = 0
      BY <2>3
    <3>6. Cardinality(x.out) + Cardinality(x.nodes) <= StChunks /\ Cardinality(x.out) < StChunks
      BY <3>1, <3>3, <3>5
    <3> QED BY <2>1, <3>1, <3>4, <3>5, <3>6 DEF BuildGood
  <2> QED BY <1>1, <1>3, <2>3, <2>4, BuildMoves
<1> QED BY <1>2, <1>3 DEF ReadLeaves, BuildEnds

\* The vectors of what it read.
LEMMA FetchVectorsKeeps == TreeIInv /\ (\E b \in StBuilds : FetchVectors(b)) => TreeIInv'
<1> SUFFICES ASSUME TreeIInv, NEW b \in StBuilds, FetchVectors(b) PROVE TreeIInv'
  OBVIOUS
<1>1. /\ stBuild[b].pc = "read" /\ stQueue' \in Nat /\ stIndex' \subseteq Nodes
      /\ UNCHANGED <<stDoc, stGen, stRun, stRows, stCut, stOps>>
  BY DEF FetchVectors, TreeIInv, TreeTypeOK
<1> DEFINE ended == [RestBuild EXCEPT !.pc = "ended"]
           B == stBuild[b]
           N == B.nodes \cap stIndex
           x == [B EXCEPT !.pc = "cluster", !.nodes = N]
           P == Ids(stRows) \cup stCut
<1>2. CASE BuildGoes(b, ended)
  <2>1. ended \in TreeBuilds /\ ended.pc = "ended"
    BY RestOfBuild
  <2> QED BY <1>1, <1>2, <2>1, BuildMoves
<1>3. CASE BuildGoes(b, x)
  <2>1. B \in TreeBuilds /\ BuildGood(B, b, P)
    BY <1>1 DEF TreeIInv, TreeTypeOK, TreeInv
  <2>2. N \subseteq B.nodes
    OBVIOUS
  <2> HIDE DEF B, N, P
  <2>3. x \in TreeBuilds /\ x.pc = "cluster" /\ x.nodes = N /\ x.out = B.out /\ x.level = B.level /\ x.alone = B.alone
    <3>1. "cluster" \in BuildStates
      BY DEF BuildStates
    <3> QED BY <2>1, <2>2, <3>1 DEF TreeBuilds
  <2> HIDE DEF x
  <2>4. IsFiniteSet(N) /\ Cardinality(N) <= Cardinality(B.nodes) /\ Cardinality(N) \in Nat
    BY <2>1, <2>2, FS_Subset, FS_CardinalityType DEF BuildGood
  <2>5. Cardinality(B.out) \in Nat /\ Cardinality(B.nodes) \in Nat
    BY <2>1, FS_CardinalityType DEF BuildGood
  <2>6. Cardinality(x.out) + Cardinality(x.nodes) <= StChunks /\ Cardinality(x.out) < StChunks
    BY <2>1, <2>3, <2>4, <2>5, TreeAssumption DEF BuildGood
  <2>7. BuildGood(x, b, P)
    BY <2>1, <2>2, <2>3, <2>4, <2>6 DEF BuildGood
  <2> QED BY <1>1, <1>3, <2>3, <2>7, BuildMoves DEF P
<1> QED BY <1>2, <1>3 DEF FetchVectors, BuildEnds

\* One level of clustering and summaries.
LEMMA ClusterLevelKeeps == TreeIInv /\ (\E b \in StBuilds : ClusterLevel(b)) => TreeIInv'
<1> SUFFICES ASSUME TreeIInv, NEW b \in StBuilds, ClusterLevel(b) PROVE TreeIInv'
  OBVIOUS
<1> DEFINE B == stBuild[b]
           k == PickK(Cardinality(B.nodes))
           P == Ids(stRows) \cup stCut
<1>1. /\ stBuild[b].pc = "cluster" /\ stQueue' \in Nat /\ stIndex' \subseteq Nodes
      /\ UNCHANGED <<stDoc, stGen, stRun, stRows, stCut, stOps>>
  BY DEF ClusterLevel, TreeIInv, TreeTypeOK
<1>2. B \in TreeBuilds /\ BuildGood(B, b, P)
  BY <1>1 DEF TreeIInv, TreeTypeOK, TreeInv
<1>3. B.level \in 1..StMaxLevels
  <2>1. ~(B.level > StMaxLevels)
    BY DEF ClusterLevel, NodesStop
  <2> QED BY <1>2, <2>1, TreeAssumption DEF TreeBuilds
<1>4. PICK labels \in Labellings(B.nodes, k), mute \in Mutes(b, k), embedded \in {TRUE, ~Fails(b)} :
        BuildGoes(b, [B EXCEPT !.out = @ \cup {LevelRow(b, B.level, labels, i) : i \in Summarised(labels, mute)},
             !.level = @ + 1,
             !.pc = IF Summarised(labels, mute) = {} \/ ~embedded THEN "insert" ELSE "cluster",
             !.nodes = {SummaryId(b, B.level, i) : i \in Summarised(labels, mute)}])
  BY DEF ClusterLevel
<1> DEFINE K == Summarised(labels, mute)
           new == {LevelRow(b, B.level, labels, i) : i \in K}
           ids == {SummaryId(b, B.level, i) : i \in K}
           pc == IF K = {} \/ ~embedded THEN "insert" ELSE "cluster"
           x == [B EXCEPT !.out = @ \cup new, !.level = @ + 1, !.pc = pc, !.nodes = ids]
<1>5. BuildGoes(b, x)
  BY <1>4
<1>6. labels \in [B.nodes -> 1..k]
  BY DEF Labellings
<1>7. pc \in {"insert", "cluster"}
  OBVIOUS
<1> HIDE DEF B, K, pc, P, k
<1>8. x.out = B.out \cup new /\ x.nodes = ids /\ x.level = B.level + 1 /\ x.alone = B.alone /\ x.pc = pc
  <2> HIDE DEF new, ids
  <2> QED BY <1>2 DEF TreeBuilds
<1>9. BuildGood(x, b, P) /\ x.out \subseteq TreeRows /\ x.nodes \subseteq Nodes
  <2> HIDE DEF x
  <2> QED BY <1>2, <1>3, <1>6, <1>8, LevelClustered DEF K
<1>10. x \in TreeBuilds
  <2>1. B.level + 1 \in 1..(StMaxLevels + 1)
    BY <1>3, TreeAssumption
  <2>2. "insert" \in BuildStates /\ "cluster" \in BuildStates
    BY DEF BuildStates
  <2>3. B.out \cup new \in SUBSET TreeRows /\ ids \in SUBSET Nodes
    BY <1>8, <1>9
  <2> HIDE DEF new, ids
  <2> QED BY <1>2, <1>7, <2>1, <2>2, <2>3 DEF TreeBuilds
<1> HIDE DEF x
<1> QED BY <1>1, <1>5, <1>9, <1>10, BuildMoves DEF P
\* No further level.
LEMMA StopLevelsKeeps == TreeIInv /\ (\E b \in StBuilds : StopLevels(b)) => TreeIInv'
<1> SUFFICES ASSUME TreeIInv, NEW b \in StBuilds, StopLevels(b) PROVE TreeIInv'
  OBVIOUS
<1> DEFINE B == stBuild[b]
           x == [B EXCEPT !.pc = "insert"]
           P == Ids(stRows) \cup stCut
<1>1. /\ B.pc = "cluster" /\ stQueue' \in Nat /\ stIndex' \subseteq Nodes /\ BuildGoes(b, x)
      /\ UNCHANGED <<stDoc, stGen, stRun, stRows, stCut, stOps>>
  BY DEF StopLevels, TreeIInv, TreeTypeOK
<1>2. B \in TreeBuilds /\ BuildGood(B, b, P)
  BY <1>1 DEF TreeIInv, TreeTypeOK, TreeInv
<1> HIDE DEF B, P
<1>3. x \in TreeBuilds /\ x.pc = "insert" /\ x.nodes = B.nodes /\ x.out = B.out /\ x.level = B.level /\ x.alone = B.alone
  <2>1. "insert" \in BuildStates
    BY DEF BuildStates
  <2> QED BY <1>2, <2>1 DEF TreeBuilds
<1> HIDE DEF x
<1>4. BuildGood(x, b, P)
  BY <1>2, <1>3 DEF BuildGood
<1> QED BY <1>1, <1>3, <1>4, BuildMoves DEF B, P

\* The insert of the summaries.
LEMMA InsertSummariesKeeps == TreeIInv /\ (\E b \in StBuilds : InsertSummaries(b)) => TreeIInv'
<1> SUFFICES ASSUME TreeIInv, NEW b \in StBuilds, InsertSummaries(b) PROVE TreeIInv'
  OBVIOUS
<1> DEFINE ended == [RestBuild EXCEPT !.pc = "ended"]
           B == stBuild[b]
           x == [B EXCEPT !.pc = "embed"]
           T == stRows \cup SignedRows(B, b)
           P == Ids(stRows) \cup stCut
<1>1. /\ B.pc = "insert" /\ stQueue' \in Nat /\ stIndex' \subseteq Nodes
      /\ UNCHANGED <<stDoc, stGen, stRun, stCut, stOps, stIndex, stQueue>>
  BY DEF InsertSummaries, TreeIInv, TreeTypeOK
<1>2. CASE BuildGoes(b, ended) /\ UNCHANGED stRows
  <2>1. ended \in TreeBuilds /\ ended.pc = "ended"
    BY RestOfBuild
  <2> QED BY <1>1, <1>2, <2>1, BuildMoves
<1>3. CASE stRows' = T /\ BuildGoes(b, x)
  <2>1. B \in TreeBuilds /\ BuildGood(B, b, P) /\ stRows \subseteq TreeRows /\ RowsGood(stRows, stGen, stCut)
    BY <1>1 DEF TreeIInv, TreeTypeOK, TreeInv
  <2>2. OfBuild(stRows, b) = {}
    BY <1>1 DEF OfBuild, TreeIInv, TreeInv
  <2>3. stBuild \in [StBuilds -> TreeBuilds]
    BY DEF TreeIInv, TreeTypeOK
  <2> HIDE DEF B
  <2>4. x \in TreeBuilds /\ x.pc = "embed"
    <3>1. "embed" \in BuildStates
      BY DEF BuildStates
    <3> QED BY <2>1, <3>1 DEF TreeBuilds
  <2>5. /\ RowsGood(T, stGen, stCut) /\ Ids(stRows) \subseteq Ids(T) /\ T \subseteq TreeRows
        /\ \A r \in T : r \in stRows \/ (r.build # 0 /\ BuildOf(r) = b)
    <3> DEFINE R == stRows
               gen == stGen
               cut == stCut
    <3>1. BuildGood(B, b, P) /\ R \subseteq TreeRows /\ RowsGood(R, gen, cut) /\ OfBuild(R, b) = {} /\ B \in TreeBuilds
      BY <2>1, <2>2 DEF P
    <3>2. T = R \cup SignedRows(B, b) /\ P = Ids(R) \cup cut
      OBVIOUS
    <3> HIDE DEF R, gen, cut, T, P
    <3>3. /\ RowsGood(T, gen, cut) /\ Ids(R) \subseteq Ids(T) /\ T \subseteq TreeRows
          /\ \A r \in T : r \in R \/ (r.build # 0 /\ BuildOf(r) = b)
      BY <3>1, <3>2, SummariesInserted
    <3> QED BY <3>3 DEF R, gen, cut
  <2> HIDE DEF x, T
  <2>6. /\ stBuild' \in [StBuilds -> TreeBuilds] /\ stBuild'[b] = x
        /\ \A c \in StBuilds : c # b => stBuild'[c] = stBuild[c]
    BY <1>3, <2>3, <2>4 DEF BuildGoes
  <2>7. TreeTypeOK'
    BY <1>1, <1>3, <2>5, <2>6 DEF TreeIInv, TreeTypeOK
  <2>8. RowsGood(stRows', stGen', stCut')
    BY <1>1, <1>3, <2>5
  <2>9. ASSUME NEW c \in StBuilds, stBuild'[c].pc \in {"read", "cluster", "insert"}
        PROVE  BuildGood(stBuild'[c], c, Ids(stRows') \cup stCut')
    <3>1. c # b /\ stBuild'[c] = stBuild[c]
      BY <2>4, <2>6, <2>9
    <3>2. BuildGood(stBuild[c], c, P)
      BY <2>9, <3>1 DEF TreeIInv, TreeInv
    <3>3. P \subseteq Ids(stRows') \cup stCut'
      BY <1>1, <1>3, <2>5
    <3> QED BY <3>1, <3>2, <3>3, StillGood
  <2>10. ASSUME NEW r \in stRows', r.build # 0 PROVE stBuild'[BuildOf(r)].pc \in {"embed", "mark", "ended"}
    <3>1. CASE r \in stRows
      <4>1. BuildOf(r) \in StBuilds /\ stBuild[BuildOf(r)].pc \in {"embed", "mark", "ended"}
        BY <2>10, <3>1 DEF TreeIInv, TreeInv, RowsGood
      <4> QED BY <4>1, <2>4, <2>6
    <3>2. CASE BuildOf(r) = b
      BY <3>2, <2>4, <2>6
    <3> QED BY <3>1, <3>2, <1>3, <2>5
  <2>11. stRun' # "idle" => \A r \in stRows' : r.build # 0
    BY <1>1, <1>3, <2>5 DEF TreeIInv, TreeInv
  <2> QED BY <2>7, <2>8, <2>9, <2>10, <2>11 DEF TreeIInv, TreeInv
<1> QED BY <1>2, <1>3 DEF InsertSummaries, BuildEnds

\* Their embedding.
LEMMA EmbedSummariesKeeps == TreeIInv /\ (\E b \in StBuilds : EmbedSummaries(b)) => TreeIInv'
<1> SUFFICES ASSUME TreeIInv, NEW b \in StBuilds, EmbedSummaries(b) PROVE TreeIInv'
  OBVIOUS
<1> DEFINE ended == [RestBuild EXCEPT !.pc = "ended"]
           B == stBuild[b]
           x == [B EXCEPT !.pc = "mark"]
<1>1. /\ B.pc = "embed" /\ stQueue' \in Nat /\ B \in TreeBuilds
      /\ UNCHANGED <<stDoc, stGen, stRun, stRows, stCut, stOps>>
  BY DEF EmbedSummaries, TreeIInv, TreeTypeOK
<1>2. stIndex' \subseteq Nodes
  <2>1. Ids(B.out) \subseteq Nodes
    BY <1>1 DEF TreeBuilds, TreeRows, Ids
  <2> QED BY <2>1 DEF EmbedSummaries, TreeIInv, TreeTypeOK
<1>3. CASE BuildGoes(b, ended)
  <2>1. ended \in TreeBuilds /\ ended.pc = "ended"
    BY RestOfBuild
  <2> QED BY <1>1, <1>2, <1>3, <2>1, BuildMoves
<1>4. CASE BuildGoes(b, x)
  <2>1. x \in TreeBuilds /\ x.pc = "mark"
    <3>1. "mark" \in BuildStates
      BY DEF BuildStates
    <3> HIDE DEF B
    <3> QED BY <1>1, <3>1 DEF TreeBuilds
  <2> QED BY <1>1, <1>2, <1>4, <2>1, BuildMoves
<1> QED BY <1>3, <1>4 DEF EmbedSummaries, BuildEnds

\* Their vector_id.
LEMMA MarkSummariesKeeps == TreeIInv /\ (\E b \in StBuilds : MarkSummaries(b)) => TreeIInv'
<1> SUFFICES ASSUME TreeIInv, NEW b \in StBuilds, MarkSummaries(b) PROVE TreeIInv'
  OBVIOUS
<1> DEFINE ended == [RestBuild EXCEPT !.pc = "ended"]
           O == Ids(stBuild[b].out)
<1>1. PICK f : f = [r \in stRows |-> IF r.id \in O THEN [r EXCEPT !.marked = TRUE] ELSE r]
  OBVIOUS
<1>2. stRows \subseteq TreeRows /\ stBuild \in [StBuilds -> TreeBuilds]
  BY DEF TreeIInv, TreeTypeOK
<1>3. /\ stBuild[b].pc = "mark" /\ BuildGoes(b, ended) /\ stRows' = {f[r] : r \in stRows}
      /\ UNCHANGED <<stDoc, stGen, stRun, stIndex, stQueue, stCut, stOps>>
  BY <1>1 DEF MarkSummaries, BuildEnds
<1> HIDE DEF O
<1>4. \A r \in stRows : /\ f[r] \in TreeRows /\ f[r].id = r.id /\ f[r].level = r.level
                        /\ f[r].build = r.build /\ f[r].kids = r.kids
  BY <1>1, <1>2 DEF TreeRows
<1>5. f = [r \in stRows |-> f[r]]
  BY <1>1
<1>6. /\ RowsGood(stRows', stGen', stCut') /\ Ids(stRows') = Ids(stRows) /\ stRows' \subseteq TreeRows
      /\ \A t \in stRows' : \E r \in stRows : t.build = r.build
  BY <1>3, <1>4, <1>5, RowsMarkedAgain
<1>7. ended \in TreeBuilds /\ ended.pc = "ended"
  BY RestOfBuild
<1>8. /\ stBuild' \in [StBuilds -> TreeBuilds] /\ stBuild'[b] = ended
      /\ \A c \in StBuilds : c # b => stBuild'[c] = stBuild[c]
  <2> HIDE DEF ended
  <2> QED BY <1>2, <1>3, <1>7 DEF BuildGoes
<1> HIDE DEF ended
<1>9. TreeTypeOK'
  BY <1>3, <1>6, <1>8 DEF TreeIInv, TreeTypeOK
<1>10. ASSUME NEW c \in StBuilds, stBuild'[c].pc \in {"read", "cluster", "insert"}
       PROVE  BuildGood(stBuild'[c], c, Ids(stRows') \cup stCut')
  <2>1. c # b /\ stBuild'[c] = stBuild[c]
    BY <1>7, <1>8, <1>10
  <2>2. BuildGood(stBuild[c], c, Ids(stRows) \cup stCut)
    BY <1>10, <2>1 DEF TreeIInv, TreeInv
  <2> QED BY <2>1, <2>2, <1>3, <1>6
<1>11. ASSUME NEW t \in stRows', t.build # 0 PROVE stBuild'[BuildOf(t)].pc \in {"embed", "mark", "ended"}
  <2>1. PICK r \in stRows : t.build = r.build
    BY <1>6
  <2>2. BuildOf(t) = BuildOf(r) /\ r.build # 0
    BY <1>11, <2>1 DEF BuildOf
  <2>3. BuildOf(r) \in StBuilds /\ stBuild[BuildOf(r)].pc \in {"embed", "mark", "ended"}
    BY <2>2 DEF TreeIInv, TreeInv, RowsGood
  <2> QED BY <2>2, <2>3, <1>7, <1>8
<1>12. stRun' # "idle" => \A r \in stRows' : r.build # 0
  BY <1>3, <1>6 DEF TreeIInv, TreeInv
<1> QED BY <1>6, <1>9, <1>10, <1>11, <1>12 DEF TreeIInv, TreeInv

\* A step of something else.
LEMMA TreeStutters == TreeIInv /\ UNCHANGED treeVars => TreeIInv'
<1> SUFFICES ASSUME TreeIInv, UNCHANGED treeVars PROVE TreeIInv'
  OBVIOUS
<1>1. UNCHANGED <<stDoc, stGen, stRun, stRows, stIndex, stQueue, stBuild, stCut, stOps>>
  BY DEF treeVars
<1>2. TreeTypeOK'
  BY <1>1 DEF TreeIInv, TreeTypeOK
<1>3. RowsGood(stRows', stGen', stCut')
  BY <1>1 DEF TreeIInv, TreeInv
<1>4. \A b \in StBuilds : stBuild'[b].pc \in {"read", "cluster", "insert"} =>
           BuildGood(stBuild'[b], b, Ids(stRows') \cup stCut')
  BY <1>1, BuildsUntouched
<1>5. /\ stRun' # "idle" => \A r \in stRows' : r.build # 0
      /\ \A r \in stRows' : r.build # 0 => stBuild'[BuildOf(r)].pc \in {"embed", "mark", "ended"}
  BY <1>1 DEF TreeIInv, TreeInv
<1> QED BY <1>2, <1>3, <1>4, <1>5 DEF TreeIInv, TreeInv

\* Every step keeps the invariant.
LEMMA TreeStep == TreeIInv /\ [TreeNext]_treeVars => TreeIInv'
BY EmbedUnitKeeps, EditChunkKeeps, DropChunkKeeps, StartReprocessKeeps, PurgeUnitKeeps, InsertRowsKeeps,
   DeleteUnitKeeps, ReadLeavesKeeps, FetchVectorsKeeps, ClusterLevelKeeps, StopLevelsKeeps, InsertSummariesKeeps,
   EmbedSummariesKeeps, MarkSummariesKeeps, TreeStutters DEF TreeNext

\* What HierarchySound asks is part of it.
LEMMA TreeIsSound == TreeIInv => HierarchySound
<1> SUFFICES ASSUME TreeIInv PROVE HierarchySound
  OBVIOUS
<1>1. RowsGood(stRows, stGen, stCut) /\ stRows \subseteq TreeRows
  BY DEF TreeIInv, TreeInv, TreeTypeOK
<1>2. \A r \in Summaries : r \in stRows /\ r.build # 0 /\ BuildOf(r) \in StBuilds /\ SummaryShape(r, BuildOf(r))
  BY <1>1 DEF Summaries, RowsGood
<1>3. ASSUME NEW r \in Summaries, NEW n \in stRows, n.id \in r.kids PROVE n.level = r.level - 1
  <2>1. NodeOf(n.id, BuildOf(r), r.level - 1) /\ r.level \in Nat /\ r.level >= 1 /\ n.level \in Nat
    BY <1>1, <1>2, <1>3 DEF SummaryShape, TreeRows
  <2>2. CASE n.build = 0
    <3>1. n.id[2] = 0 /\ n.level = (IF n.id[3] = 0 THEN 1 ELSE 0)
      BY <2>2, <1>1 DEF RowsGood, LeafShape
    <3> QED BY <2>1, <3>1 DEF NodeOf
  <2>3. CASE n.build # 0
    <3>1. n.id[2] = n.level
      BY <2>3, <1>1 DEF RowsGood, SummaryShape, NodeOf
    <3> QED BY <2>1, <3>1 DEF NodeOf
  <2> QED BY <2>2, <2>3
<1>4. ASSUME NEW r \in Summaries, NEW q \in Summaries, q # r, BuildOf(q) = BuildOf(r) PROVE q.kids \cap r.kids = {}
  <2>1. q.id # r.id
    BY <1>1, <1>2, <1>4 DEF RowsGood, Distinct
  <2>2. q \in OfBuild(stRows, BuildOf(r)) /\ r \in OfBuild(stRows, BuildOf(r))
    BY <1>2, <1>4 DEF OfBuild
  <2>3. Apart(OfBuild(stRows, BuildOf(r)))
    BY <1>1, <1>2 DEF RowsGood
  <2> QED BY <2>1, <2>2, <2>3 DEF Apart
<1>5. \A b \in StBuilds : Cardinality({r \in Summaries : BuildOf(r) = b}) < StChunks
  <2>1. \A b \in StBuilds : {r \in Summaries : BuildOf(r) = b} = OfBuild(stRows, b)
    BY DEF Summaries, OfBuild
  <2> QED BY <1>1, <2>1 DEF RowsGood
<1>6. \A r \in Summaries : Cardinality(r.kids) >= 2
  BY <1>2 DEF SummaryShape
<1>7. Forest
  BY <1>3, <1>4, <1>5, <1>6 DEF Forest
<1>8. UpperLevelsWhole /\ CitesItsChunks
  BY <1>1, <1>2 DEF UpperLevelsWhole, CitesItsChunks, RowsGood, KidsHere
<1> QED BY <1>7, <1>8 DEF HierarchySound

\* THEOREM: the type invariant of a RAPTOR build, for any number of chunks, builds, levels and edits.
THEOREM TreeTypes == TreeSpec => []TreeTypeOK
<1>1. TreeIInv => TreeTypeOK
  BY DEF TreeIInv
<1> QED BY <1>1, TreeStarts, TreeStep, PTL DEF TreeSpec

\* THEOREM: for every labelling and every overlap of builds, edits, reprocesses and deletions
\* (knowledge/chunking/raptor_task.py:145), the summaries stay a hierarchy over the chunks.
THEOREM HierarchyHolds == TreeSpec => []HierarchySound
BY TreeStarts, TreeStep, TreeIsSound, PTL DEF TreeSpec

=============================================================================
