------------------------------- MODULE Evaluation -------------------------------
(***************************************************************************)
(* Evaluation of answers: evaluate_message, as a task or by the route that *)
(* forces it, which asks the judges about a message and then replaces its  *)
(* rows; and runs over golden datasets.                                    *)
(*                                                                         *)
(* A score is in percent.  What a judge's model answers is a choice; the   *)
(* score that is made of it is computed.                                   *)
(***************************************************************************)
EXTENDS Integers, Sequences, FiniteSets, SequencesExt

CONSTANTS
  EaMessages,    \* messages that are asked about
  EaBases,       \* knowledge bases their chunks come from
  EaMetrics,     \* metrics (the code has five)
  EaTasks,       \* calls of evaluate_message
  EaRuns,        \* requests to run the dataset
  EaQuestions,   \* questions somebody adds to it
  EaMaxOps       \* bound: requests

ASSUME EvaluationAssumption ==
  /\ EaMaxOps \in Nat /\ EaMetrics # {}
  /\ IsFiniteSet(EaMessages) /\ EaMessages # {}

VARIABLES
  eaMessage,     \* rows of messages: [stored, asked, chunks]
  eaJudge,       \* settings name a default model
  eaTask,        \* evaluations under way
  eaRows,        \* message_evaluations
  eaSet,         \* golden_questions; the dataset goes with its base
  eaRun,         \* runs of the dataset under way, and what they have committed
  eaOps

evaluationVars == <<eaMessage, eaJudge, eaTask, eaRows, eaSet, eaRun, eaOps>>

Neutral  == 50
NoBase   == "NULL"
NoScores == [m \in EaMetrics |-> Neutral]
RestTask == [pc |-> "idle", message |-> CHOOSE m \in EaMessages : TRUE, forced |-> FALSE,
             base |-> NoBase, scores |-> NoScores, saw |-> {}, shown |-> {}]
NoRun_   == [pc |-> "idle", questions |-> {}, status |-> "none", count |-> 0, failed |-> {},
             mean |-> -1, of |-> [q \in EaQuestions |-> 0]]

-----------------------------------------------------------------------------
(***************************************************************************)
(* Judges.                                                                 *)
(***************************************************************************)

Clamp01(v) == IF v < 0 THEN 0 ELSE IF v > 100 THEN 100 ELSE v
Total(s)   == FoldSeq(+, 0, s)
Clamped(answer, n) == [i \in 1..(IF Len(answer) < n THEN Len(answer) ELSE n) |-> Clamp01(answer[i])]

\* Precision of the first ranks counts more: rank i weighs 1/i (in sixtieths, five ranks).
RankWeight(i) == 60 \div i
ContextPrecision(answer, n) ==
  LET s == Clamped(answer, n) IN
  IF s = <<>> THEN Neutral
  ELSE Total([i \in DOMAIN s |-> s[i] * RankWeight(i)]) \div Total([i \in DOMAIN s |-> RankWeight(i)])

\* faithfulness and answer_relevancy; an answer without a score is the empty sequence.
OneScore(answer) == IF answer = <<>> THEN Neutral ELSE Clamp01(answer[1])

Hallucination(claims, invented) ==
  IF claims <= 0 THEN Neutral
  ELSE LET s == 100 - (100 * invented) \div claims IN IF s < 0 THEN 0 ELSE s

CitationAccuracy(answer, n) ==
  LET s == Clamped(answer, n) IN
  IF s = <<>> THEN Neutral ELSE Total(s) \div Len(s)

\* What a model may answer: scores without bounds, claims with more invented than there are,
\* no scores at all, or nothing that can be read.  (A negative number of invented claims, which
\* the code would take and score above one, is left out.)
Answers_ == {[scores |-> <<150>>, claims |-> 2, invented |-> 1], [scores |-> <<0, 100, -5>>, claims |-> 1, invented |-> 3],
             [scores |-> <<>>, claims |-> 0, invented |-> 0]}
JudgeScore(metric, a, n) ==
  CASE n = 0                        -> 0      \* no answer, chunk or citation to judge
    [] metric = "context_precision" -> ContextPrecision(a.scores, n)
    [] metric = "hallucination"     -> Hallucination(a.claims, a.invented)
    [] metric = "citation_accuracy" -> CitationAccuracy(a.scores, n)
    [] OTHER                        -> OneScore(a.scores)

\* A judge that raises counts as neutral.
JudgeResults == {[m \in EaMetrics |-> JudgeScore(m, a, n)] : a \in Answers_, n \in {0, 2}} \cup {NoScores}

-----------------------------------------------------------------------------
EvaluationInit ==
  /\ eaMessage \in [EaMessages -> [stored : {TRUE}, asked : BOOLEAN, chunks : SUBSET EaBases]]
  /\ eaJudge = TRUE /\ eaRows = {} /\ eaSet = {} /\ eaOps = 0
  /\ eaTask = [t \in EaTasks |-> RestTask] /\ eaRun = [r \in EaRuns |-> NoRun_]

Request_ == eaOps < EaMaxOps /\ eaOps' = eaOps + 1
Step(t, task) == eaTask' = [eaTask EXCEPT ![t] = task]

\* The sample rate spares some messages unless the call is forced; a message that is gone,
\* that a user wrote or that retrieved nothing, and settings without a model end the call.
Judged(m) == eaMessage[m].stored /\ ~eaMessage[m].asked /\ eaMessage[m].chunks # {} /\ eaJudge

\* Of the bases the chunks come from any one is taken.
ReadMessage(t, m) ==
  /\ Request_ /\ eaTask[t] = RestTask /\ Judged(m)
  /\ \E b \in eaMessage[m].chunks, forced \in BOOLEAN :
       Step(t, [RestTask EXCEPT !.pc = "judging", !.message = m, !.base = b, !.forced = forced])
  /\ UNCHANGED <<eaMessage, eaJudge, eaRows, eaSet, eaRun>>

RunAllJudges(t) ==
  /\ eaTask[t].pc = "judging"
  /\ \E s \in JudgeResults : Step(t, [eaTask[t] EXCEPT !.pc = "delete", !.scores = s])
  /\ UNCHANGED <<eaMessage, eaJudge, eaRows, eaSet, eaRun, eaOps>>

RowsOf(m) == {r \in eaRows : r.message = m}
NewRows_(t) == {[message |-> eaTask[t].message, metric |-> x, base |-> eaTask[t].base,
                 score |-> eaTask[t].scores[x], by |-> t] : x \in EaMetrics}

\* The DELETE of a transaction finds the rows that were committed when it began; one that
\* waits for another transaction does not find what that one has inserted.
DeleteRows(t) ==
  /\ eaTask[t].pc = "delete"
  /\ Step(t, [eaTask[t] EXCEPT !.pc = "insert", !.saw = RowsOf(eaTask[t].message)])
  /\ UNCHANGED <<eaMessage, eaJudge, eaRows, eaSet, eaRun, eaOps>>

InsertableAny(t) == eaMessage[eaTask[t].message].stored   \* mutant: rows may be there twice
\* uq_message_evaluations_msg_metric, and the foreign key to the message.
Insertable(t) == /\ eaMessage[eaTask[t].message].stored
                 /\ RowsOf(eaTask[t].message) \subseteq eaTask[t].saw

StoreRows(t) ==
  /\ eaTask[t].pc = "insert" /\ Insertable(t)
  /\ eaRows' = (eaRows \ eaTask[t].saw) \cup NewRows_(t)
  /\ IF eaTask[t].forced THEN Step(t, [eaTask[t] EXCEPT !.pc = "show", !.saw = {}])
                         ELSE Step(t, RestTask)
  /\ UNCHANGED <<eaMessage, eaJudge, eaSet, eaRun, eaOps>>

StoreRefused(t) ==
  /\ eaTask[t].pc = "insert" /\ ~Insertable(t) /\ Step(t, RestTask)
  /\ UNCHANGED <<eaMessage, eaJudge, eaRows, eaSet, eaRun, eaOps>>

\* evaluate_message_now reads the rows of the message again.
ShowRows(t) ==
  /\ eaTask[t].pc = "show"
  /\ Step(t, [eaTask[t] EXCEPT !.pc = "shown", !.shown = RowsOf(eaTask[t].message)])
  /\ UNCHANGED <<eaMessage, eaJudge, eaRows, eaSet, eaRun, eaOps>>

\* Rows go with their message.
DeleteMessage(m) ==
  /\ Request_ /\ eaMessage[m].stored
  /\ eaMessage' = [eaMessage EXCEPT ![m].stored = FALSE] /\ eaRows' = eaRows \ RowsOf(m)
  /\ UNCHANGED <<eaJudge, eaTask, eaSet, eaRun>>

ChangeJudge ==
  /\ Request_ /\ eaJudge' = ~eaJudge
  /\ UNCHANGED <<eaMessage, eaTask, eaRows, eaSet, eaRun>>

-----------------------------------------------------------------------------
(***************************************************************************)
(* The summary of a base, and golden runs.                                 *)
(***************************************************************************)

SampleSize(b, metric) == Cardinality({r \in eaRows : r.base = b /\ r.metric = metric})
Average(b, metric) ==
  LET R == SetToSeq({r \in eaRows : r.base = b /\ r.metric = metric}) IN
  Total([i \in DOMAIN R |-> R[i].score]) \div Len(R)

AddQuestion(q) ==
  /\ Request_ /\ q \notin eaSet /\ eaSet' = eaSet \cup {q}
  /\ UNCHANGED <<eaMessage, eaJudge, eaTask, eaRows, eaRun>>

\* trigger_run refuses a dataset without questions.
Runnable(r) == eaRun[r].pc = "idle" /\ eaSet # {}
StartDatasetRun(r) ==
  /\ Request_ /\ Runnable(r)
  /\ eaRun' = [eaRun EXCEPT ![r] = [NoRun_ EXCEPT !.pc = IF eaJudge THEN "running" ELSE "unjudged",
                                                  !.questions = eaSet, !.count = Cardinality(eaSet)]]
  /\ UNCHANGED <<eaMessage, eaJudge, eaTask, eaRows, eaSet>>

\* aggregate_metrics over the questions that did not fail; none: no metrics.
Mean(of, over) ==
  LET s == SetToSeq(over) IN
  IF s = <<>> THEN -1 ELSE Total([i \in DOMAIN s |-> of[s[i]]]) \div Len(s)
RunStatus(failed, count) ==
  IF failed = 0 THEN "completed" ELSE IF failed < count THEN "partial" ELSE "error"

\* Every question is searched for, answered and judged, or fails, alone: the search, the
\* answer (an empty one is an error too) or, here, a single judge.
QuestionOutcomes(questions) ==
  {o \in [failed : SUBSET questions, of : [EaQuestions -> {0, 100}]] :
     \A q \in EaQuestions : q \notin questions \ o.failed => o.of[q] = 0}

\* Nothing of the run is seen before the request commits.
CommitDatasetRun(r) ==
  /\ eaRun[r].pc = "running"
  /\ \E o \in QuestionOutcomes(eaRun[r].questions) :
       eaRun' = [eaRun EXCEPT ![r] =
            [@ EXCEPT !.pc = "stored", !.failed = o.failed, !.of = o.of,
                      !.status = RunStatus(Cardinality(o.failed), eaRun[r].count),
                      !.mean = Mean(o.of, eaRun[r].questions \ o.failed)]]
  /\ UNCHANGED <<eaMessage, eaJudge, eaTask, eaRows, eaSet, eaOps>>

CommitUnjudged(r) ==
  /\ eaRun[r].pc = "unjudged"
  /\ eaRun' = [eaRun EXCEPT ![r] = [@ EXCEPT !.pc = "stored", !.status = "error", !.questions = {}]]
  /\ UNCHANGED <<eaMessage, eaJudge, eaTask, eaRows, eaSet, eaOps>>

EvaluationNext ==
  \/ \E t \in EaTasks : \/ \E m \in EaMessages : ReadMessage(t, m)
                        \/ RunAllJudges(t) \/ DeleteRows(t) \/ StoreRows(t) \/ StoreRefused(t)
                        \/ ShowRows(t)
  \/ \E m \in EaMessages : DeleteMessage(m)
  \/ ChangeJudge
  \/ \E q \in EaQuestions : AddQuestion(q)
  \/ \E r \in EaRuns : StartDatasetRun(r) \/ CommitDatasetRun(r) \/ CommitUnjudged(r)
EvaluationSpec == EvaluationInit /\ [][EvaluationNext]_evaluationVars

-----------------------------------------------------------------------------
EvaluationTypeOK ==
  /\ eaRows \subseteq [message : EaMessages, metric : EaMetrics, base : EaBases, score : 0..100, by : EaTasks]
  /\ \A t \in EaTasks : /\ eaTask[t].pc \in {"idle", "judging", "delete", "insert", "show", "shown"}
                        /\ eaTask[t].scores \in [EaMetrics -> 0..100]
  /\ \A r \in EaRuns : eaRun[r].mean \in -1..100 /\ eaRun[r].failed \subseteq EaQuestions

\* The rows are the answer of one evaluation: each metric once, all by one call.
OneVerdict(rows) ==
  rows = {} \/ \E t \in EaTasks : /\ \A r \in rows : r.by = t
                                  /\ \A x \in EaMetrics : Cardinality({r \in rows : r.metric = x}) = 1

\* However evaluations of a message overlap, with each other and with its deletion, its rows
\* are those of one of them, and what the route shows is such a set, empty only if the
\* message is gone; so every metric of a base has the same sample.  A golden run counts
\* what it ran: it is completed exactly if every question it read has scores, and its
\* mean lies within them.
EvaluationsSound ==
  /\ \A m \in EaMessages : OneVerdict(RowsOf(m))
  /\ \A t \in EaTasks : eaTask[t].pc = "shown" =>
       /\ OneVerdict(eaTask[t].shown)
       /\ eaTask[t].shown = {} => ~eaMessage[eaTask[t].message].stored
  /\ \A b \in EaBases, x, y \in EaMetrics : SampleSize(b, x) = SampleSize(b, y)
  /\ \A b \in EaBases, x \in EaMetrics : SampleSize(b, x) > 0 => Average(b, x) \in 0..100
  /\ \A r \in EaRuns : eaRun[r].pc = "stored" =>
       LET good == eaRun[r].questions \ eaRun[r].failed IN
       /\ eaRun[r].status = "completed" <=> Cardinality(good) = eaRun[r].count
       /\ eaRun[r].status = "error" <=> good = {}
       /\ good # {} => \E p, q \in good : eaRun[r].of[p] <= eaRun[r].mean /\ eaRun[r].mean <= eaRun[r].of[q]
=============================================================================
