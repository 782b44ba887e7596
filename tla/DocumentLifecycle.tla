-------------------------- MODULE DocumentLifecycle --------------------------
(***************************************************************************)
(* The ageing of documents and entries: the daily sweep unit_lifecycle,    *)
(* which marks stale, clears and archives, and the requests and the        *)
(* workflow node that archive and restore.                                 *)
(*                                                                         *)
(* The sweep decides on the rows it has read and commits once at the end.  *)
(* Every UPDATE of a row sets its updated_at (onupdate), also the sweep's. *)
(* Days are numbered from 1; 0 stands for NULL.                            *)
(***************************************************************************)
EXTENDS Integers

CONSTANTS
  LcDocs,          \* documents of a file base
  LcEntries,       \* entries of an entry base
  ExpirationDays, IdleDays,
  HitCounts,       \* what the two hit windows may count
  LastDay,         \* bound
  MaxTouches       \* bound: edits, archivings and restorations

ASSUME LifecycleAssumption ==
  /\ ExpirationDays \in Nat /\ IdleDays \in Nat /\ LastDay \in Nat \ {0} /\ MaxTouches \in Nat
  /\ HitCounts \subseteq Nat /\ LcDocs \cap LcEntries = {}

VARIABLES
  lcDay,
  lcUpdated,     \* updated_at
  lcStaleSince,  \* stale_since; 0 when is_stale is FALSE
  lcArchived,    \* is_archived
  lcPlan,        \* what the running sweep will write, per document
  lcPlanDay,     \* the now of the running sweep; 0: none runs
  lcSwept,       \* the day of the last sweep
  lcWarned,      \* history: the day of the last warning of a document's owner
  lcEngaged,     \* history: units edited, restored or hit since they were marked stale
  lcTouches

lcRow == <<lcUpdated, lcStaleSince, lcArchived>>
lifecycleVars == <<lcDay, lcRow, lcPlan, lcPlanDay, lcSwept, lcWarned, lcEngaged, lcTouches>>

Units == LcDocs \cup LcEntries
Verdicts == {"mark", "clear", "archive", "keep"}
Nothing  == [d \in LcDocs |-> "keep"]

LifecycleTypeOK ==
  /\ lcDay \in 1..LastDay /\ lcPlanDay \in 0..LastDay /\ lcSwept \in 0..LastDay
  /\ lcUpdated \in [Units -> 1..LastDay]
  /\ lcStaleSince \in [Units -> 0..LastDay]
  /\ lcArchived \subseteq Units
  /\ lcPlan \in [LcDocs -> Verdicts]
  /\ lcWarned \in [LcDocs -> 0..LastDay]
  /\ lcEngaged \subseteq Units /\ lcTouches \in 0..MaxTouches

LifecycleInit ==
  /\ lcDay = 1 /\ lcUpdated = [x \in Units |-> 1] /\ lcStaleSince = [x \in Units |-> 0]
  /\ lcArchived = {} /\ lcPlan = Nothing /\ lcPlanDay = 0 /\ lcSwept = 0
  /\ lcWarned = [d \in LcDocs |-> 0] /\ lcEngaged = {} /\ lcTouches = 0

Stale(x) == lcStaleSince[x] # 0

-----------------------------------------------------------------------------
NextDay ==
  /\ lcDay < LastDay /\ lcDay' = lcDay + 1
  /\ UNCHANGED <<lcRow, lcPlan, lcPlanDay, lcSwept, lcWarned, lcEngaged, lcTouches>>

\* The heat cliff of _compute_doc_hit_windows: traffic fell below 30 per cent.
HeatCliff(hits, before) == before > 0 /\ 10 * hits < 3 * before

Verdict(d, hits, before) ==
  LET old == lcUpdated[d] < lcDay - ExpirationDays \/ HeatCliff(hits, before) IN
  CASE d \in lcArchived -> "keep"
    [] old /\ ~Stale(d) -> "mark"
    [] ~old /\ Stale(d) -> "clear"
    [] old /\ Stale(d) /\ lcStaleSince[d] < lcDay - IdleDays -> "archive"
    [] OTHER -> "keep"

\* mark_stale_units of an entry base: a single UPDATE that nothing takes back.
OldEntries == {e \in LcEntries \ lcArchived : ~Stale(e) /\ lcUpdated[e] < lcPlanDay - ExpirationDays}

\* _run_lifecycle up to its decisions.  A hit in the last seven days engages a
\* document.
SweepRead ==
  /\ lcPlanDay = 0 /\ lcSwept < lcDay
  /\ lcSwept' = lcDay /\ lcPlanDay' = lcDay
  /\ \E hits, before \in [LcDocs -> HitCounts] :
       /\ lcPlan' = [d \in LcDocs |-> Verdict(d, hits[d], before[d])]
       /\ lcEngaged' = lcEngaged \cup {d \in LcDocs : hits[d] > 0}
  /\ UNCHANGED <<lcDay, lcRow, lcWarned, lcTouches>>

\* Its commit: rows are written for every verdict but "keep", and the owner is told
\* of a mark and of an archiving.  The entries of other bases are marked with it.
Planned(v) == {d \in LcDocs : lcPlan[d] = v}
Marked == Planned("mark") \cup OldEntries
UpdatedOn(x) == lcUpdated[x]   \* mutant: stale since the last update instead of now
SinceOf(x) == lcPlanDay
SweepCommit ==
  /\ lcPlanDay # 0 /\ lcPlan' = Nothing /\ lcPlanDay' = 0
  /\ lcStaleSince' = [x \in Units |-> IF x \in Marked THEN SinceOf(x)
                                      ELSE IF x \in Planned("clear") THEN 0 ELSE lcStaleSince[x]]
  /\ lcArchived' = lcArchived \cup Planned("archive")
  /\ lcUpdated' = [x \in Units |-> IF x \in Marked \cup (LcDocs \ Planned("keep"))
                                   THEN lcDay ELSE lcUpdated[x]]
  /\ lcWarned' = [d \in LcDocs |-> IF d \in Marked THEN lcPlanDay ELSE lcWarned[d]]
  /\ lcEngaged' = lcEngaged \ Marked
  /\ UNCHANGED <<lcDay, lcSwept, lcTouches>>

\* A request or the node kb_archive_document: restoring clears the stale mark.
SetArchived(x, archive) ==
  /\ lcTouches < MaxTouches /\ lcTouches' = lcTouches + 1
  /\ lcArchived' = IF archive THEN lcArchived \cup {x} ELSE lcArchived \ {x}
  /\ lcStaleSince' = IF archive THEN lcStaleSince ELSE [lcStaleSince EXCEPT ![x] = 0]
  /\ lcUpdated' = [lcUpdated EXCEPT ![x] = lcDay]
  /\ lcEngaged' = lcEngaged \cup {x}
  /\ UNCHANGED <<lcDay, lcPlan, lcPlanDay, lcSwept, lcWarned>>

\* batch_archive_entries; nothing restores an entry.
ArchiveEntry(e) ==
  /\ lcTouches < MaxTouches /\ lcTouches' = lcTouches + 1
  /\ lcArchived' = lcArchived \cup {e} /\ lcUpdated' = [lcUpdated EXCEPT ![e] = lcDay]
  /\ UNCHANGED <<lcDay, lcStaleSince, lcPlan, lcPlanDay, lcSwept, lcWarned, lcEngaged>>

EditUnit(x) ==
  /\ lcTouches < MaxTouches /\ lcTouches' = lcTouches + 1
  /\ lcUpdated' = [lcUpdated EXCEPT ![x] = lcDay] /\ lcEngaged' = lcEngaged \cup {x}
  /\ UNCHANGED <<lcDay, lcStaleSince, lcArchived, lcPlan, lcPlanDay, lcSwept, lcWarned>>

LifecycleNext ==
  \/ NextDay \/ SweepRead \/ SweepCommit
  \/ \E d \in LcDocs, archive \in BOOLEAN : SetArchived(d, archive)
  \/ \E e \in LcEntries : ArchiveEntry(e)
  \/ \E x \in Units : EditUnit(x)

LifecycleSpec == LifecycleInit /\ [][LifecycleNext]_lifecycleVars

-----------------------------------------------------------------------------
\* The sweep archives a document only when its owner was told, more than IdleDays
\* days before, that it is stale.
ArchivedAfterWarning ==
  [][\A d \in LcDocs : d \in lcArchived' \ lcArchived /\ lcTouches' = lcTouches
       => lcWarned[d] # 0 /\ lcWarned[d] < lcDay - IdleDays]_lifecycleVars

\* "True -> False : clear flags - owner re-engaged, reset cycle": the sweep forgets
\* the staleness of a document only when it was edited, restored or hit meanwhile.
\* The code does not keep to this: marking a document stale is an update of its row.
ClearedByEngagement ==
  [][\A d \in LcDocs : Stale(d) /\ lcStaleSince'[d] = 0 /\ lcTouches' = lcTouches
       => d \in lcEngaged]_lifecycleVars
=============================================================================
