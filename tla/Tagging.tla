------------------------------- MODULE Tagging -------------------------------
(***************************************************************************)
(* Tags of one entry base: the dictionary with its Redis cache, and the    *)
(* tags of an entry, of its rows and of the extraction task.               *)
(*                                                                         *)
(* A dictionary row gives a canonical name its aliases.  Every write       *)
(* deletes the cached map before it commits; a reader in between puts the  *)
(* old map back for an hour.  A rename or a merge rewrites the stored tags *)
(* in a task of its own.  Maps are sets of pairs <<name, canonical>>: two  *)
(* rows may claim one name, and the code takes whichever comes last.       *)
(***************************************************************************)
EXTENDS Integers, FiniteSets, SequencesExt

CONSTANTS
  TagNames,
  TagRows,      \* ids of dictionary rows
  MaxTagOps     \* bound: requests and tasks

ASSUME TaggingAssumption == MaxTagOps \in Nat /\ IsFiniteSet(TagNames) /\ "none" \notin TagNames

VARIABLES
  tgDict,       \* tag_dictionary rows: canonical, aliases, is_deprecated
  tgMerged,     \* history: rows whose name a merge has replaced, and no later merge or rename brought back
  tgCache,      \* kb_tag_dict:<kb> in Redis, <<>> or <<the map>>
  tgWrite,      \* the write whose cache deletion is done and whose commit is not
  tgBackfill,   \* backfill tasks waiting, in the order they were sent: maps old name -> new name
  tgTags,       \* knowledge_entries.tags
  tgAuto,       \* knowledge_entries.auto_tags
  tgRejected,   \* knowledge_entries.rejected_auto_tags
  tgRows,       \* chunks.chunk_tags
  tgRefresh,    \* a refresh_user_tags message waits
  tgExtract,    \* what a running extract_auto_tags has read of the rejected tags
  tgRaced,      \* history: the cache was filled while a write was not committed, or a
                \* backfill overtook one that was sent before it
  tgOps

tagEntry == <<tgTags, tgAuto, tgRejected, tgRows>>
tagVars == <<tgDict, tgMerged, tgCache, tgWrite, tgBackfill, tagEntry, tgRefresh, tgExtract, tgRaced, tgOps>>

NoRow   == [canon |-> "none", aliases |-> {}, dep |-> FALSE]
NoWrite == [dict |-> <<>>, merged |-> {}, backfill |-> {}, tags |-> {}, edits |-> FALSE]
Maps    == SUBSET (TagNames \X TagNames)

TaggingTypeOK ==
  /\ tgDict \in [TagRows -> {NoRow} \cup [canon : TagNames, aliases : SUBSET TagNames, dep : BOOLEAN]]
  /\ tgMerged \subseteq TagRows
  /\ tgCache = <<>> \/ tgCache[1] \in Maps
  /\ tgTags \subseteq TagNames /\ tgAuto \subseteq TagNames /\ tgRejected \subseteq TagNames
  /\ tgRows \subseteq TagNames /\ tgRefresh \in BOOLEAN /\ tgRaced \in BOOLEAN
  /\ tgOps \in 0..MaxTagOps

TaggingInit ==
  /\ tgDict = [i \in TagRows |-> NoRow] /\ tgMerged = {} /\ tgCache = <<>> /\ tgWrite = NoWrite
  /\ tgBackfill = <<>> /\ tgTags = {} /\ tgAuto = {} /\ tgRejected = {} /\ tgRows = {}
  /\ tgRefresh = FALSE /\ tgExtract = <<>> /\ tgRaced = FALSE /\ tgOps = 0

TagOp == tgOps < MaxTagOps /\ tgOps' = tgOps + 1

-----------------------------------------------------------------------------
(***************************************************************************)
(* The dictionary.                                                         *)
(***************************************************************************)

Rows(dict) == {i \in DOMAIN dict : dict[i] # NoRow}
Active(dict) == {i \in Rows(dict) : ~dict[i].dep}
DictMap(dict) ==
  UNION {({dict[i].canon} \cup dict[i].aliases) \X {dict[i].canon} : i \in Active(dict)}

\* get_kb_dict_map: the cache if there is one.
CurrentMap == IF tgCache = <<>> THEN DictMap(tgDict) ELSE tgCache[1]

\* Unique (kb_id, canonical), deprecated rows included: the INSERT or UPDATE fails.
Unique(dict) == \A i, j \in Rows(dict) : dict[i].canon = dict[j].canon => i = j

NewRow(n) == [canon |-> n, aliases |-> {}, dep |-> FALSE]

\* A write flushes, deletes the cached map and has not committed yet.
OpenWriteCached(dict, merged, backfill) ==   \* mutant: the cache is left to expire
  /\ TagOp
  /\ tgWrite = NoWrite /\ Unique(dict)
  /\ tgWrite' = [dict |-> dict, merged |-> merged, backfill |-> backfill, tags |-> {}, edits |-> FALSE]
  /\ UNCHANGED <<tgDict, tgMerged, tgCache, tgBackfill, tagEntry, tgRefresh, tgExtract, tgRaced>>
OpenWrite(dict, merged, backfill) ==
  /\ TagOp
  /\ tgWrite = NoWrite /\ Unique(dict)
  /\ tgWrite' = [dict |-> dict, merged |-> merged, backfill |-> backfill, tags |-> {}, edits |-> FALSE]
  /\ tgCache' = <<>>
  /\ UNCHANGED <<tgDict, tgMerged, tgBackfill, tagEntry, tgRefresh, tgExtract, tgRaced>>

CreateTag(i, n) == tgDict[i] = NoRow /\ OpenWrite([tgDict EXCEPT ![i] = NewRow(n)], tgMerged, {})

SetAliases(i, S) ==
  tgDict[i] # NoRow /\ OpenWrite([tgDict EXCEPT ![i].aliases = S], tgMerged, {})

RenameTag(i, n) ==
  /\ tgDict[i] # NoRow /\ n # tgDict[i].canon
  /\ OpenWrite([tgDict EXCEPT ![i].canon = n, ![i].aliases = @ \cup {tgDict[i].canon}], tgMerged \ {i},
               {<<tgDict[i].canon, n>>})

MergeTags(i, j) ==
  /\ i # j /\ tgDict[i] # NoRow /\ tgDict[j] # NoRow
  /\ OpenWrite([tgDict EXCEPT ![i].dep = TRUE,
                              ![j].aliases = @ \cup {tgDict[i].canon} \cup tgDict[i].aliases],
               (tgMerged \cup {i}) \ {j}, {<<tgDict[i].canon, tgDict[j].canon>>})

DeleteTag(i) ==
  i \in Active(tgDict) /\ OpenWrite([tgDict EXCEPT ![i].dep = TRUE], tgMerged, {})

CommitUnlisted ==   \* mutant: the backfill of a rename or merge is not sent
  /\ tgWrite # NoWrite
  /\ tgDict' = tgWrite.dict /\ tgMerged' = tgWrite.merged
  /\ tgTags' = IF tgWrite.edits THEN tgWrite.tags ELSE tgTags
  /\ tgRefresh' = (tgRefresh \/ (tgWrite.edits /\ tgWrite.tags # tgTags))
  /\ tgWrite' = NoWrite
  /\ UNCHANGED <<tgCache, tgBackfill, tgAuto, tgRejected, tgRows, tgExtract, tgRaced, tgOps>>
CommitWrite ==
  /\ tgWrite # NoWrite
  /\ tgDict' = tgWrite.dict /\ tgMerged' = tgWrite.merged
  /\ tgBackfill' = IF tgWrite.backfill = {} THEN tgBackfill ELSE Append(tgBackfill, tgWrite.backfill)
  /\ tgTags' = IF tgWrite.edits THEN tgWrite.tags ELSE tgTags
  /\ tgRefresh' = (tgRefresh \/ (tgWrite.edits /\ tgWrite.tags # tgTags))
  /\ tgWrite' = NoWrite
  /\ UNCHANGED <<tgCache, tgAuto, tgRejected, tgRows, tgExtract, tgRaced, tgOps>>

\* The endpoint answers 403 or 404 after the flush: nothing is written.
AbortWrite ==
  /\ tgWrite # NoWrite /\ tgWrite' = NoWrite
  /\ UNCHANGED <<tgDict, tgMerged, tgCache, tgBackfill, tagEntry, tgRefresh, tgExtract, tgRaced, tgOps>>

FillCache ==
  /\ tgCache = <<>> /\ tgCache' = <<DictMap(tgDict)>>
  /\ tgRaced' = (tgRaced \/ tgWrite # NoWrite)
  /\ UNCHANGED <<tgDict, tgMerged, tgWrite, tgBackfill, tagEntry, tgRefresh, tgExtract, tgOps>>

ExpireCache ==
  /\ tgCache # <<>> /\ tgCache' = <<>>
  /\ UNCHANGED <<tgDict, tgMerged, tgWrite, tgBackfill, tagEntry, tgRefresh, tgExtract, tgRaced, tgOps>>

Rewrite(S, map) == {IF \E p \in map : p[1] = t THEN (CHOOSE p \in map : p[1] = t)[2] ELSE t : t \in S}

\* _backfill_kb: tags and chunk_tags, not auto_tags; the cache is deleted at the end.
BackfillTags(k) ==
  /\ k \in DOMAIN tgBackfill /\ tgBackfill' = RemoveAt(tgBackfill, k)
  /\ tgTags' = Rewrite(tgTags, tgBackfill[k]) /\ tgRows' = Rewrite(tgRows, tgBackfill[k])
  /\ tgCache' = <<>> /\ tgRaced' = (tgRaced \/ k # 1)
  /\ UNCHANGED <<tgDict, tgMerged, tgWrite, tgAuto, tgRejected, tgRefresh, tgExtract, tgOps>>

-----------------------------------------------------------------------------
(***************************************************************************)
(* The tags of the entry.                                                  *)
(***************************************************************************)

\* normalize_tags: the canonical of each name; a name without one becomes a row.
Unknown(S) == {n \in S : \A p \in CurrentMap : p[1] # n}
Canonicals(S) ==
  {(CHOOSE p \in CurrentMap : p[1] = n)[2] : n \in S \ Unknown(S)} \cup Unknown(S)

\* The dictionary with the rows that normalising S adds; at most one here.
WithNew(S, i) == IF Unknown(S) = {} THEN tgDict
                 ELSE [tgDict EXCEPT ![i] = NewRow(CHOOSE n \in Unknown(S) : TRUE)]
Normalisable(S, i) ==
  /\ Cardinality(Unknown(S)) <= 1 /\ (Unknown(S) # {} => tgDict[i] = NoRow)
  /\ Unique(WithNew(S, i))

\* An edit of the tags alone: commit, then refresh_user_tags.
EditTags(S, i) ==
  /\ TagOp
  /\ tgWrite = NoWrite /\ Normalisable(S, i)
  /\ tgWrite' = [dict |-> WithNew(S, i), merged |-> tgMerged, backfill |-> {}, tags |-> Canonicals(S),
                 edits |-> TRUE]
  /\ tgCache' = IF Unknown(S) = {} THEN tgCache ELSE <<>>
  /\ UNCHANGED <<tgDict, tgMerged, tgBackfill, tagEntry, tgRefresh, tgExtract, tgRaced>>

\* _compute_chunk_tags_from_unit
RowTags(tags, auto) == tags \cup auto

RefreshTags ==
  /\ tgRefresh /\ tgRefresh' = FALSE
  /\ tgRows' = RowTags(tgTags, tgAuto)
  /\ UNCHANGED <<tgDict, tgMerged, tgCache, tgWrite, tgBackfill, tgTags, tgAuto, tgRejected, tgExtract,
                 tgRaced, tgOps>>

AcceptTag(t) ==
  /\ TagOp
  /\ t \in tgAuto /\ Unknown({t}) = {}
  /\ tgTags' = tgTags \cup Canonicals({t}) /\ tgAuto' = tgAuto \ Canonicals({t})
  /\ tgRows' = RowTags(tgTags', tgAuto')
  /\ UNCHANGED <<tgDict, tgMerged, tgCache, tgWrite, tgBackfill, tgRejected, tgRefresh, tgExtract, tgRaced>>

RejectTag(t) ==
  /\ TagOp
  /\ t \in tgAuto
  /\ tgRejected' = tgRejected \cup {t} /\ tgAuto' = tgAuto \ {t}
  /\ tgRows' = RowTags(tgTags, tgAuto')
  /\ UNCHANGED <<tgDict, tgMerged, tgCache, tgWrite, tgBackfill, tgTags, tgRefresh, tgExtract, tgRaced>>

\* extract_auto_tags reads the entry, asks a model, and writes in a second session.
StartExtract ==
  /\ TagOp
  /\ tgExtract = <<>> /\ tgExtract' = <<tgRejected>>
  /\ UNCHANGED <<tgDict, tgMerged, tgCache, tgWrite, tgBackfill, tagEntry, tgRefresh, tgRaced>>

\* The black list is applied to what the model said, before names become canonical.
Extracted(candidates) == Canonicals(candidates \ tgExtract[1])

FinishExtract(candidates, i) ==
  /\ tgExtract # <<>> /\ tgExtract' = <<>>
  /\ tgWrite = NoWrite /\ Normalisable(candidates \ tgExtract[1], i)
  /\ tgDict' = WithNew(candidates \ tgExtract[1], i)
  /\ tgCache' = IF Unknown(candidates \ tgExtract[1]) = {} THEN tgCache ELSE <<>>
  /\ tgAuto' = Extracted(candidates) /\ tgRows' = RowTags(tgTags, tgAuto')
  /\ UNCHANGED <<tgMerged, tgWrite, tgBackfill, tgTags, tgRejected, tgRefresh, tgRaced, tgOps>>

TaggingNext ==
  \/ \E i \in TagRows, n \in TagNames : CreateTag(i, n) \/ RenameTag(i, n) \/ SetAliases(i, {n})
  \/ \E i, j \in TagRows : MergeTags(i, j)
  \/ \E i \in TagRows : DeleteTag(i)
  \/ CommitWrite \/ AbortWrite \/ FillCache \/ ExpireCache
  \/ \E k \in DOMAIN tgBackfill : BackfillTags(k)
  \/ \E S \in SUBSET TagNames, i \in TagRows : EditTags(S, i) \/ FinishExtract(S, i)
  \/ RefreshTags \/ StartExtract
  \/ \E t \in TagNames : AcceptTag(t) \/ RejectTag(t)
TaggingSpec == TaggingInit /\ [][TaggingNext]_tagVars

-----------------------------------------------------------------------------
TagsQuiet == tgWrite = NoWrite /\ tgBackfill = <<>> /\ ~tgRefresh

\* The cached map is the dictionary's, when no write is between its invalidation and
\* its commit, unless a reader filled the cache in such a gap.
CacheFollowsDictionary ==
  TagsQuiet /\ tgCache # <<>> /\ ~tgRaced => tgCache[1] = DictMap(tgDict)

\* When the tasks are done, the rows carry every tag of their entry, and the entry
\* carries no name that a rename or a merge has replaced.
TagsSettle ==
  TagsQuiet => /\ tgTags \subseteq tgRows
               /\ tgRaced \/ \A t \in tgTags : \E i \in Rows(tgDict) :
                               tgDict[i].canon = t /\ (tgDict[i].dep => i \notin tgMerged)

\* The dictionary rules the cached map and the tags.
DictionaryRules == CacheFollowsDictionary /\ TagsSettle
=============================================================================
