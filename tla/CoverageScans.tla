----------------------------- MODULE CoverageScans -----------------------------
(***************************************************************************)
(* The daily scans of knowledge bases: redundant pairs, topics, and pairs   *)
(* across bases.  Each replaces what an earlier scan found, while chunks    *)
(* are embedded, hidden and deleted and another scan may be under way (a    *)
(* task is delivered again when it takes long).                             *)
(***************************************************************************)
EXTENDS Integers, FiniteSets, SequencesExt

CONSTANTS
  CvBases,       \* knowledge bases, numbers: pairs across bases are ordered
  CvChunks,      \* chunks, numbers: pairs are ordered
  CvBaseOf,      \* the base of a chunk
  CvSimilar,     \* the pairs <<a, b>>, a < b, whose vectors are alike
  CvScans,       \* runs of the scans
  PairMin, TopicMin, SampleMin, ClusterMin,  \* 2, 6, 5 and 3 in the code
  MaxChunksPerKb, MaxPairsPerKb,             \* 5000 and 500
  CvMaxOps       \* bound: scans, and changes of chunks

ASSUME CoverageAssumption ==
  CvBases \subseteq Nat /\ IsFiniteSet(CvChunks) /\ CvSimilar \subseteq CvChunks \X CvChunks

VARIABLES
  cvChunk,       \* chunks: [stored, vector, hidden]
  cvPairs,       \* chunk_redundancy_pairs
  cvTopics,      \* kb_topics
  cvCross,       \* chunk_cross_kb_redundancy_pairs
  cvScan,        \* scans under way
  cvOps

coverageVars == <<cvChunk, cvPairs, cvTopics, cvCross, cvScan, cvOps>>
cvFound == <<cvPairs, cvTopics, cvCross>>

Kinds    == {"pairs", "topics", "cross"}
RestScan == [pc |-> "idle", kind |-> "pairs", run |-> 0, todo |-> {}, base |-> 0, kept |-> {},
             saw |-> {}, sample |-> [b \in CvBases |-> {}]]

CoverageInit ==
  /\ cvChunk = [c \in CvChunks |-> [stored |-> TRUE, vector |-> TRUE, hidden |-> FALSE]]
  /\ cvPairs = {} /\ cvTopics = {} /\ cvCross = {} /\ cvOps = 0
  /\ cvScan = [s \in CvScans |-> RestScan]

SpendScan == cvOps < CvMaxOps /\ cvOps' = cvOps + 1

\* Pairs go with their chunks; the examples of a topic are only numbers.
Without(P, c) == {p \in P : p.a # c /\ p.b # c}
RemoveChunk(c) ==
  /\ SpendScan /\ cvChunk[c].stored
  /\ cvChunk' = [cvChunk EXCEPT ![c].stored = FALSE]
  /\ cvPairs' = Without(cvPairs, c) /\ cvCross' = Without(cvCross, c)
  /\ UNCHANGED <<cvTopics, cvScan>>

\* Edited or embedded, reviewed.
AlterChunk(c) ==
  /\ SpendScan /\ cvChunk[c].stored
  /\ cvChunk' \in {[cvChunk EXCEPT ![c].vector = ~@], [cvChunk EXCEPT ![c].hidden = ~@]}
  /\ UNCHANGED <<cvFound, cvScan>>

Scannable(b) == {c \in CvChunks : /\ cvChunk[c].stored /\ CvBaseOf[c] = b
                                  /\ cvChunk[c].vector /\ ~cvChunk[c].hidden}

-----------------------------------------------------------------------------
(***************************************************************************)
(* Scans.                                                                  *)
(***************************************************************************)

\* The bases come in the order of the query.
FirstBase(B) == CHOOSE b \in B : \A c \in B : b <= c
Go(s, scan) == cvScan' = [cvScan EXCEPT ![s] = scan]

\* A scan is numbered; the number tells its rows from those of others (rows have ids).
StartScan(s, kind) ==
  /\ SpendScan /\ cvScan[s] = RestScan /\ (kind = "cross" => Cardinality(CvBases) >= 2)
  /\ Go(s, [RestScan EXCEPT !.pc = "next", !.kind = kind, !.run = cvOps + 1, !.todo = CvBases])
  /\ UNCHANGED <<cvChunk, cvFound>>

\* A base with too few chunks, or too many, keeps what an earlier scan found.
TooSmall(kind, n) == n < IF kind = "pairs" THEN PairMin ELSE TopicMin

\* Vectors of rows without a vector in the collection are not found (_fetch_vectors); the
\* rest is compared.
ScanBase(s) ==
  /\ cvScan[s].pc = "next" /\ cvScan[s].kind \in {"pairs", "topics"} /\ cvScan[s].todo # {}
  /\ \E lost \in BOOLEAN :
       LET b == FirstBase(cvScan[s].todo)
           kept == IF lost THEN {} ELSE Scannable(b)
           n == Cardinality(kept)
           left == [cvScan[s] EXCEPT !.todo = @ \ {b}] IN
       Go(s, IF TooSmall(cvScan[s].kind, n) \/ Cardinality(Scannable(b)) > MaxChunksPerKb
             THEN left ELSE [left EXCEPT !.pc = "delete", !.base = b, !.kept = kept])
  /\ UNCHANGED <<cvOps, cvChunk, cvFound>>

StoredPairs(b)  == {p \in cvPairs : p.base = b}
TopicsOf(b) == {t \in cvTopics : t.base = b}

\* The DELETE does not see what another transaction inserts after it began.
DeleteOld(s) ==
  /\ cvScan[s].pc = "delete"
  /\ Go(s, [cvScan[s] EXCEPT !.pc = "insert",
            !.saw = IF cvScan[s].kind = "pairs" THEN StoredPairs(cvScan[s].base) ELSE TopicsOf(cvScan[s].base)])
  /\ UNCHANGED <<cvOps, cvChunk, cvFound>>

Next_(s)  == Go(s, [cvScan[s] EXCEPT !.pc = "next", !.base = 0, !.kept = {}, !.saw = {}])
Abort_(s) == Go(s, RestScan)     \* the bases that are left are not scanned

\* find_redundant_pairs: every pair above the threshold once, the most alike first.
RedundantPairs(kept) == {p \in CvSimilar : p[1] \in kept /\ p[2] \in kept /\ p[1] < p[2]}
Capped(P) == {Q \in SUBSET P : \/ Q = P /\ Cardinality(P) <= MaxPairsPerKb
                               \/ Cardinality(Q) = MaxPairsPerKb}

PairsFitAny(new, old) == \A p \in new : cvChunk[p.a].stored /\ cvChunk[p.b].stored   \* mutant: no uq

\* uq_chunk_redundancy_ordered_pair and the foreign keys to the chunks.
PairsFit(new, old) == /\ \A p \in new : cvChunk[p.a].stored /\ cvChunk[p.b].stored
                      /\ \A p \in new, q \in cvPairs \ old : ~(p.a = q.a /\ p.b = q.b)

StorePairs(s) ==
  /\ cvScan[s].pc = "insert" /\ cvScan[s].kind = "pairs"
  /\ \E P \in Capped(RedundantPairs(cvScan[s].kept)) :
       LET new == {[base |-> cvScan[s].base, a |-> p[1], b |-> p[2], by |-> cvScan[s].run] : p \in P}
           old == cvScan[s].saw IN
       IF PairsFit(new, old) THEN cvPairs' = (cvPairs \ old) \cup new /\ Next_(s)
                             ELSE UNCHANGED cvPairs /\ Abort_(s)
  /\ UNCHANGED <<cvOps, cvChunk, cvTopics, cvCross>>

\* k-means puts every chunk into one of k clusters; small ones are dropped, the others are
\* numbered by size, those of a size in any order.  A label the model does not give is made up.
Clusters(kept) ==
  IF Cardinality(kept) < 2 * ClusterMin THEN {{}}
  ELSE {{C \in {{c \in kept : of[c] = i} : i \in 1..2} : Cardinality(C) >= ClusterMin} :
          of \in [kept -> 1..2]}
Numbered(C) == {q \in [1..Cardinality(C) -> C] :
                  /\ IsInjective(q)
                  /\ \A i, j \in DOMAIN q : i < j => Cardinality(q[i]) >= Cardinality(q[j])}

TopicsFit(new, old) == \A t \in new, u \in cvTopics \ old : ~(t.base = u.base /\ t.number = u.number)
StoreTopics(s) ==
  /\ cvScan[s].pc = "insert" /\ cvScan[s].kind = "topics"
  /\ \E C \in Clusters(cvScan[s].kept) \cup {{}} :      \* none: the clustering failed
     \E seq \in Numbered(C) :
       LET old == cvScan[s].saw
           new == {[base |-> cvScan[s].base, number |-> i - 1, size |-> Cardinality(seq[i]),
                    examples |-> seq[i], by |-> cvScan[s].run] : i \in DOMAIN seq} IN
       IF TopicsFit(new, old) THEN cvTopics' = (cvTopics \ old) \cup new /\ Next_(s)
                              ELSE UNCHANGED cvTopics /\ Abort_(s)
  /\ UNCHANGED <<cvOps, cvChunk, cvPairs, cvCross>>

ScanEnds(s) ==
  /\ cvScan[s].pc = "next" /\ cvScan[s].todo = {} /\ cvScan[s].kind # "cross" /\ Go(s, RestScan)
  /\ UNCHANGED <<cvOps, cvChunk, cvFound>>

\* Across bases: a sample of every base, then the table is emptied, then the pairs of two
\* bases at a time are committed.
SampleBase(s) ==
  /\ cvScan[s].pc = "next" /\ cvScan[s].kind = "cross" /\ cvScan[s].todo # {}
  /\ LET b == FirstBase(cvScan[s].todo)
         kept == Scannable(b) IN
     Go(s, [cvScan[s] EXCEPT !.todo = @ \ {b},
            !.sample[b] = IF Cardinality(kept) < SampleMin THEN {} ELSE kept])
  /\ UNCHANGED <<cvOps, cvChunk, cvFound>>

BasePairs(s) == {w \in CvBases \X CvBases :
                   w[1] < w[2] /\ cvScan[s].sample[w[1]] # {} /\ cvScan[s].sample[w[2]] # {}}
EmptyCross(s) ==
  /\ cvScan[s].pc = "next" /\ cvScan[s].kind = "cross" /\ cvScan[s].todo = {}
  /\ cvCross' = {} /\ Go(s, [cvScan[s] EXCEPT !.pc = "pairwise", !.todo = BasePairs(s)])
  /\ UNCHANGED <<cvOps, cvChunk, cvPairs, cvTopics>>

CrossPairs(s, x, y) ==
  {[base |-> x, other |-> y, a |-> p[1], b |-> p[2], by |-> cvScan[s].run] :
     p \in {q \in cvScan[s].sample[x] \X cvScan[s].sample[y] : q \in CvSimilar}}
CrossFit(new) == /\ \A p \in new : cvChunk[p.a].stored /\ cvChunk[p.b].stored /\ p.base < p.other
                 /\ \A p \in new, q \in cvCross : ~(p.a = q.a /\ p.b = q.b)
StoreCross(s) ==
  /\ cvScan[s].pc = "pairwise"
  /\ \E w \in cvScan[s].todo :
       LET new == CrossPairs(s, w[1], w[2]) IN
       IF CrossFit(new)
       THEN cvCross' = cvCross \cup new /\ Go(s, [cvScan[s] EXCEPT !.todo = @ \ {w}])
       ELSE UNCHANGED cvCross /\ Abort_(s)
  /\ UNCHANGED <<cvOps, cvChunk, cvPairs, cvTopics>>

CrossEnds(s) ==
  /\ cvScan[s].pc = "pairwise" /\ cvScan[s].todo = {} /\ Go(s, RestScan)
  /\ UNCHANGED <<cvOps, cvChunk, cvFound>>

CoverageNext ==
  \/ \E c \in CvChunks : RemoveChunk(c) \/ AlterChunk(c)
  \/ \E s \in CvScans : \/ \E kind \in Kinds : StartScan(s, kind)
                        \/ ScanBase(s) \/ DeleteOld(s) \/ StorePairs(s) \/ StoreTopics(s) \/ ScanEnds(s)
                        \/ SampleBase(s) \/ EmptyCross(s) \/ StoreCross(s) \/ CrossEnds(s)
CoverageSpec == CoverageInit /\ [][CoverageNext]_coverageVars

-----------------------------------------------------------------------------
CoverageTypeOK ==
  /\ cvPairs \subseteq [base : CvBases, a : CvChunks, b : CvChunks, by : Nat]
  /\ cvCross \subseteq [base : CvBases, other : CvBases, a : CvChunks, b : CvChunks, by : Nat]
  /\ \A s \in CvScans : cvScan[s].pc \in {"idle", "next", "delete", "insert", "pairwise"}

\* However scans overlap and chunks go meanwhile, the chunks of a pair are stored, in the
\* base, alike and in order, and each pair is there once (pairs of two overlapping scans may
\* be mixed); the topics of a base are those of one scan, numbered from nought by size; a
\* pair across bases is there once.
ScansSound ==
  /\ \A p \in cvPairs : /\ p.a < p.b /\ <<p.a, p.b>> \in CvSimilar
                        /\ cvChunk[p.a].stored /\ cvChunk[p.b].stored
                        /\ CvBaseOf[p.a] = p.base /\ CvBaseOf[p.b] = p.base
  /\ \A p, q \in cvPairs : p.a = q.a /\ p.b = q.b => p = q
  /\ \A b \in CvBases :
       /\ {t.number : t \in TopicsOf(b)} = 0 .. Cardinality(TopicsOf(b)) - 1
       /\ \A t, u \in TopicsOf(b) : t.by = u.by /\ (t.number < u.number => t.size >= u.size)
  /\ \A p, q \in cvCross : /\ p.a = q.a /\ p.b = q.b => p = q
                           /\ cvChunk[p.a].stored /\ p.base < p.other
=============================================================================
