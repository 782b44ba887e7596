------------------------------ MODULE BaseHealth -------------------------------
(***************************************************************************)
(* The health of a knowledge base: a score made of counts that are read    *)
(* one statement after another while chunks and units change, the alerts   *)
(* it is shown with, and the daily task that publishes them.               *)
(*                                                                         *)
(* Scores and ratios are in percent.                                       *)
(***************************************************************************)
EXTENDS Integers, FiniteSets, SequencesExt

CONSTANTS
  BhBases,       \* knowledge bases, numbers
  BhChunks,      \* chunks
  BhBaseOf,      \* the base of a chunk
  BhUnits,       \* documents or entries
  BhUnitBase,    \* the base of a unit
  BhReaders,     \* computations of health
  BhMaxOps,      \* bound: requests, and changes of chunks and units
  BhMaxFaults    \* bound: statements that fail

ASSUME BaseHealthAssumption ==
  BhBases \subseteq Nat /\ BhChunks \subseteq Nat /\ IsFiniteSet(BhChunks) /\ IsFiniteSet(BhUnits)

VARIABLES
  bhChunk,       \* chunks: [stored, hidden, hit, quality (-1 unknown)]
  bhUnit,        \* documents or entries: [archived, stale]
  bhRead,        \* computations of health under way
  bhHealth,      \* knowledge_bases.health_score
  bhAlerts,      \* alerts published to the event bus
  bhOps, bhFaults

healthVars == <<bhChunk, bhUnit, bhRead, bhHealth, bhAlerts, bhOps, bhFaults>>
bhRows  == <<bhChunk, bhUnit>>

NoStats  == [total |-> 0, quality |-> -1, hit |-> 0, units |-> 0, stale |-> 0, asked |-> 0, found |-> 0,
             answers |-> -1]
RestRead == [pc |-> "idle", todo |-> {}, all |-> {}, base |-> 0, stats |-> NoStats, alerts |-> {},
             items |-> {}, broken |-> FALSE, publish |-> FALSE]

BaseHealthInit ==
  /\ bhChunk = [c \in BhChunks |-> [stored |-> TRUE, hidden |-> c = 1, hit |-> c # 3,
                                    quality |-> IF c = 1 THEN -1 ELSE (30 * c) % 101]]
  /\ bhUnit = [u \in BhUnits |-> [archived |-> FALSE, stale |-> FALSE]]
  /\ bhAlerts = {} /\ bhOps = 0 /\ bhFaults = 0
  /\ bhRead = [k \in BhReaders |-> RestRead]
  /\ bhHealth = [b \in BhBases |-> -1]

Spend_ == bhOps < BhMaxOps /\ bhOps' = bhOps + 1
Fault_ == bhFaults < BhMaxFaults /\ bhFaults' = bhFaults + 1
Idle_  == UNCHANGED <<bhOps, bhFaults>>

ChangeChunk(c) ==
  /\ Spend_ /\ bhChunk[c].stored
  /\ \/ bhChunk' = [bhChunk EXCEPT ![c].stored = FALSE]
     \/ bhChunk' = [bhChunk EXCEPT ![c].hidden = ~@]       \* reviewed
     \/ ~bhChunk[c].hit /\ bhChunk' = [bhChunk EXCEPT ![c].hit = TRUE]
  /\ UNCHANGED <<bhUnit, bhRead, bhHealth, bhAlerts, bhFaults>>

ChangeUnit(u) ==
  /\ Spend_ /\ bhUnit' = [bhUnit EXCEPT ![u] = IF @.stale THEN [@ EXCEPT !.archived = ~@]
                                                         ELSE [@ EXCEPT !.stale = TRUE]]
  /\ UNCHANGED <<bhChunk, bhRead, bhHealth, bhAlerts, bhFaults>>

ChunksOf(b) == {c \in BhChunks : bhChunk[c].stored /\ BhBaseOf[c] = b}
Visible_(b) == {c \in ChunksOf(b) : ~bhChunk[c].hidden}

-----------------------------------------------------------------------------
(***************************************************************************)
(* Scores, in percent.                                                     *)
(***************************************************************************)

Unit100(v) == IF v < 0 THEN 0 ELSE IF v > 100 THEN 100 ELSE v
Percent(n, of) == (100 * n) \div of

ChunkQuality(s) == IF s.total = 0 THEN 0 ELSE IF s.quality < 0 THEN 50 ELSE Unit100(s.quality)
CoverageAny(s)   == IF s.total = 0 THEN 0 ELSE Percent(s.hit, s.total)   \* mutant: more hit than there were
CoverageScore(s) == IF s.total = 0 THEN 0 ELSE Unit100(Percent(s.hit, s.total))
Freshness(s) == IF s.units = 0 THEN 0 ELSE Unit100(100 - Percent(s.stale, s.units))
Availability(s) ==
  IF s.total = 0 /\ s.units = 0 THEN 0 ELSE IF s.asked = 0 THEN 100 ELSE Percent(s.found, s.asked)
AnswerQuality(s) ==
  IF s.total = 0 /\ s.units = 0 THEN 0 ELSE IF s.answers < 0 THEN 50 ELSE Unit100(s.answers)

\* The weights are normalised; they are equal unless the settings say otherwise.
Health(s) == (ChunkQuality(s) + CoverageScore(s) + Freshness(s) + Availability(s) + AnswerQuality(s)) \div 5

\* What a chunk's use makes of its score: adoption, feedback and use count 50, 30 and 20.
Dynamic(hit, adopted, pos, neg) ==
  IF hit = 0 THEN 0
  ELSE LET adoption == Unit100(Percent(adopted, hit))
           feedback == IF pos + neg = 0 THEN 50 ELSE (Percent(pos - neg, pos + neg) + 100) \div 2 IN
       (50 * adoption + 30 * feedback + 20 * Percent(hit, hit + 5)) \div 100
Composite(static, dynamic, hit) ==
  LET n == IF hit > 60 THEN 60 ELSE hit
      w == 100 - n IN          \* 1 - 0.6 * n / 60, never below 40
  (w * static + (100 - w) * dynamic) \div 100
ScoresBounded == \A hit \in {0, 1, 4, 70}, adopted, pos, neg \in {0, 1, 5}, static \in {0, 100} :
                   LET d == Dynamic(hit, adopted, pos, neg) IN
                   d \in 0..100 /\ Composite(static, d, hit) \in 0..100

-----------------------------------------------------------------------------
(***************************************************************************)
(* The health of a base: every count is a statement of its own, and the    *)
(* transaction sees what others commit between two of them.                *)
(***************************************************************************)

NextBase(B) == CHOOSE b \in B : \A c \in B : b <= c      \* the bases come in the order of the query
Look(k, r) == bhRead' = [bhRead EXCEPT ![k] = r]
Stat(k, s, pc) == Look(k, [bhRead[k] EXCEPT !.stats = s, !.pc = pc])

\* One base (kb_governance), or all (the overview, and the daily task that publishes alerts).
StartHealth(k, todo, publish) ==
  /\ Spend_ /\ bhRead[k].pc \in {"idle", "done"}
  /\ Look(k, [RestRead EXCEPT !.pc = "next", !.todo = todo, !.all = todo, !.publish = publish])
  /\ UNCHANGED <<bhRows, bhHealth, bhAlerts, bhFaults>>

QualityOf(C) ==
  LET s == SetToSeq({c \in C : bhChunk[c].quality >= 0}) IN
  IF s = <<>> THEN -1 ELSE FoldSeq(+, 0, [i \in DOMAIN s |-> bhChunk[s[i]].quality]) \div Len(s)
CountChunks(k) ==
  /\ bhRead[k].pc = "next" /\ ~bhRead[k].broken /\ bhRead[k].todo # {}
  /\ LET b == NextBase(bhRead[k].todo) IN
     Look(k, [bhRead[k] EXCEPT !.pc = "hits", !.base = b, !.todo = @ \ {b},
              !.stats = [NoStats EXCEPT !.total = Cardinality(Visible_(b)), !.quality = QualityOf(Visible_(b))]])
  /\ Idle_ /\ UNCHANGED <<bhRows, bhHealth, bhAlerts>>

\* unit_stats: documents or entries, as the base has them.
UnitsOf(b) == {u \in BhUnits : BhUnitBase[u] = b /\ ~bhUnit[u].archived}
StaleOf(b) == {u \in UnitsOf(b) : bhUnit[u].stale}

\* The hits, and the number of units, which nothing relates to them.
CountHits(k) ==
  /\ bhRead[k].pc = "hits"
  /\ LET b == bhRead[k].base IN
     Stat(k, [bhRead[k].stats EXCEPT !.hit = Cardinality({c \in Visible_(b) : bhChunk[c].hit}),
                                     !.units = Cardinality(UnitsOf(b))], "stale")
  /\ Idle_ /\ UNCHANGED <<bhRows, bhHealth, bhAlerts>>
CountStale(k) ==
  /\ bhRead[k].pc = "stale"
  /\ \E use \in {<<0, 0, -1>>, <<3, 1, 90>>} :     \* retrievals and judged answers of seven days
       Stat(k, [bhRead[k].stats EXCEPT !.stale = Cardinality(StaleOf(bhRead[k].base)),
                                       !.asked = use[1], !.found = use[2], !.answers = use[3]], "alerts")
  /\ Idle_ /\ UNCHANGED <<bhRows, bhHealth, bhAlerts>>

\* Which alerts a base has: old units, low scores, chunks without hits, queries without an
\* answer, and the redundant pairs of the last scan.
Alert(kind, severity) == {[kind |-> kind, severity |-> severity]}
StaleAlert(s) ==
  IF s.stale = 0 THEN {}
  ELSE Alert("stale_docs", IF 10 * s.stale < 3 * (IF s.units > 1 THEN s.units ELSE 1) THEN "warning" ELSE "critical")
QualityAlert(b) ==
  IF \E c \in Visible_(b) : bhChunk[c].quality \in 0..39 THEN Alert("low_quality_chunks", "warning") ELSE {}
ColdAlert(b, s) ==
  LET cold == Cardinality({c \in Visible_(b) : ~bhChunk[c].hit}) IN
  IF s.total > 0 /\ 2 * cold > s.total THEN Alert("cold_chunks", "info") ELSE {}
GapAlert(s) == IF s.asked > s.found THEN Alert("knowledge_gap", "info") ELSE {}
PairAlert(n, s) ==
  IF n = 0 THEN {}
  ELSE Alert("redundancy", IF 10 * n > (IF s.total > 1 THEN s.total ELSE 1) THEN "warning" ELSE "info")
CollectAlerts(k) ==
  /\ bhRead[k].pc = "alerts"
  /\ \E pairs \in {0, 1} :
       LET b == bhRead[k].base
           s == bhRead[k].stats IN
       Look(k, [bhRead[k] EXCEPT !.pc = "store", !.alerts = StaleAlert(s) \cup QualityAlert(b) \cup
                                 ColdAlert(b, s) \cup GapAlert(s) \cup PairAlert(pairs, s)])
  /\ Idle_ /\ UNCHANGED <<bhRows, bhHealth, bhAlerts>>

Reported(k) ==
  [bhRead[k] EXCEPT !.pc = "next", !.base = 0, !.stats = NoStats, !.alerts = {},
                    !.items = @ \cup {[base |-> bhRead[k].base, score |-> Health(bhRead[k].stats)]}]
Publish(k) == bhAlerts' = IF bhRead[k].publish THEN bhAlerts \cup {bhRead[k].base} \X bhRead[k].alerts ELSE bhAlerts

\* The score is kept in the row of the base, for the lists.
StoreHealth(k) ==
  /\ bhRead[k].pc = "store" /\ Look(k, Reported(k)) /\ Publish(k)
  /\ bhHealth' = [bhHealth EXCEPT ![bhRead[k].base] = Health(bhRead[k].stats)]
  /\ Idle_ /\ UNCHANGED <<bhRows>>

\* A failure to keep it is passed over, the base is still reported; but nothing rolls the
\* transaction back, and the statements for the bases that follow are refused.
StoreHealthFails(k) ==
  /\ Fault_ /\ bhRead[k].pc = "store" /\ Publish(k) /\ Look(k, [Reported(k) EXCEPT !.broken = TRUE])
  /\ UNCHANGED <<bhRows, bhHealth, bhOps>>
StatementFails(k) ==
  /\ Fault_ /\ bhRead[k].pc \in {"hits", "stale"}
  /\ Look(k, [bhRead[k] EXCEPT !.pc = "next", !.base = 0, !.stats = NoStats, !.broken = TRUE])
  /\ UNCHANGED <<bhRows, bhHealth, bhAlerts, bhOps>>

SkipBase(k) ==
  /\ bhRead[k].pc = "next" /\ bhRead[k].broken
  /\ bhRead[k].todo # {} /\ Look(k, [bhRead[k] EXCEPT !.todo = @ \ {NextBase(@)}])
  /\ Idle_ /\ UNCHANGED <<bhRows, bhHealth, bhAlerts>>

EndHealth(k) ==
  /\ bhRead[k].pc = "next" /\ bhRead[k].todo = {} /\ Look(k, [bhRead[k] EXCEPT !.pc = "done"])
  /\ Idle_ /\ UNCHANGED <<bhRows, bhHealth, bhAlerts>>

BaseHealthNext ==
  \/ \E c \in BhChunks : ChangeChunk(c)
  \/ \E u \in BhUnits : ChangeUnit(u)
  \/ \E k \in BhReaders : \/ \E b \in BhBases : StartHealth(k, {b}, FALSE)
                          \/ StartHealth(k, BhBases, FALSE) \/ StartHealth(k, BhBases, TRUE)
                          \/ CountChunks(k) \/ CountHits(k) \/ CountStale(k)
                          \/ CollectAlerts(k) \/ StoreHealth(k) \/ StoreHealthFails(k)
                          \/ StatementFails(k) \/ SkipBase(k) \/ EndHealth(k)
BaseHealthSpec == BaseHealthInit /\ [][BaseHealthNext]_healthVars

-----------------------------------------------------------------------------
BaseHealthTypeOK ==
  /\ bhHealth \in [BhBases -> -1..100]
  /\ \A k \in BhReaders : bhRead[k].pc \in {"idle", "next", "hits", "stale", "alerts", "store", "done"}

\* Though the counts are of different moments, every score is a percentage; a base with nothing
\* in it has none; and every base is reported exactly once unless a statement failed before.
BaseHealthSound ==
  /\ ScoresBounded
  /\ \A k \in BhReaders :
       /\ \A i \in bhRead[k].items : i.score \in 0..100
       /\ \A i, j \in bhRead[k].items : i.base = j.base => i = j
       /\ bhRead[k].pc = "store" => /\ CoverageScore(bhRead[k].stats) \in 0..100
                                    /\ Freshness(bhRead[k].stats) \in 0..100
       /\ bhRead[k].pc = "done" /\ ~bhRead[k].broken => {i.base : i \in bhRead[k].items} = bhRead[k].all
       /\ bhRead[k].pc = "store" /\ bhRead[k].stats.total = 0 /\ bhRead[k].stats.units = 0 =>
            Health(bhRead[k].stats) = 0
  /\ \A b \in BhBases : bhHealth[b] \in -1..100
=============================================================================
