--------------------------- MODULE ConversationProofs ---------------------------
(***************************************************************************)
(* Theorems about a conversation: the turns that are stored, the votes on  *)
(* its answers and the rules that route it.  Each holds for every size of  *)
(* the constants and for runs of any length.                               *)
(***************************************************************************)
EXTENDS Orchestrator, Chat,
        FiniteSetTheorems, SequenceTheorems, NaturalsInduction, TLAPS

-----------------------------------------------------------------------------
(****************************************************************************
 Chat: what is stored of a turn is what its client was shown.
 ****************************************************************************)

\* What is stored of one turn, given where the turn is and what its client was shown.
TurnStored(conv, stored, turn, answer) ==
  /\ turn.pc \in {"idle", "loaded"} => ~stored
  /\ ~stored => answer = NoAnswer
  /\ conv # "deleted" /\ turn.pc \in {"started", "stream", "store"} => stored
  /\ turn.pc \in {"started", "stream", "store"} =>
       /\ answer.status # "none" => turn.kind # "workflow"
       /\ answer.status \in {"none", "generating"} /\ answer.text = ""
       /\ stored /\ turn.kind # "workflow" => answer.status = "generating"
  /\ turn.pc = "store" => turn.end \in {"answered", "failed", "blocked"} /\ (turn.end = "failed" => turn.kind = "rag")
  /\ turn.pc = "done" /\ stored =>
       IF turn.end \in {"answered", "failed", "blocked"}
         THEN /\ turn.shown # "" => answer.text = turn.shown
              /\ turn.end = "failed" <=> answer.status = "error"
              /\ answer.status \notin {"none", "generating"}
         ELSE answer.status \in {"none", "generating"} /\ answer.text = ""

Places == {"idle", "loaded", "started", "stream", "store", "done"}
Ends == {"", "answered", "failed", "blocked", "refused", "broken", "left", "unpublished"}
AnswerRows == [status : {"none", "generating", "completed", "error", "plain"}, text : Shown \cup {"recovered", "empty"}]
TurnRows == [pc : Places, kind : Pipelines, count : Nat, shown : Shown,
             end : Ends]
ChatInv == ChatTypeOK /\ CountIsMessages /\ \A t \in CtTurns : TurnStored(ctConv, t \in ctUser, ctTurn[t], ctAnswer[t])

-----------------------------------------------------------------------------
\* What ChatInv says of the rows of one turn.
LEMMA ChatShapes ==
  ASSUME ChatInv
  PROVE  /\ ctAnswer \in [CtTurns -> AnswerRows] /\ ctTurn \in [CtTurns -> TurnRows]
         /\ \A t \in CtTurns : ctTurn[t] \in TurnRows /\ ctAnswer[t] \in AnswerRows
         /\ ctUser \subseteq CtTurns /\ ctCount \in Nat /\ ctConv \in {"none", "open", "deleted"}
BY DEF ChatInv, ChatTypeOK, AnswerRows, TurnRows, Places, Ends

\* The vote variables change only within their types.
VoteTypes ==
  /\ ctVote \in [CtTurns -> Feedback] /\ ctEvents \in [CtTurns -> [up : Nat, down : Nat, reverse : Nat]]
  /\ ctVoter \in [CtVoters -> [on : BOOLEAN, turn : CtTurns, was : Feedback]]
  /\ ctVotes \in 0..CtMaxVotes /\ ctMixed \in BOOLEAN

\* A set of turns that one turn joins, or that stays.
LEMMA OneMore ==
  ASSUME NEW S, S \subseteq CtTurns, NEW t \in CtTurns
  PROVE  /\ Cardinality(S) \in Nat
         /\ Cardinality(S \cup {t}) = IF t \in S THEN Cardinality(S) ELSE Cardinality(S) + 1
<1>1. IsFiniteSet(S)
  BY ChatAssumption, FS_Subset
<1> QED
  BY <1>1, FS_CardinalityType, FS_AddElement

\* A step that moves one turn and its answer keeps ChatInv.
LEMMA TurnMoves ==
  ASSUME ChatInv, NEW t \in CtTurns, NEW turn \in TurnRows, NEW answer \in AnswerRows,
         ctTurn' = [ctTurn EXCEPT ![t] = turn], ctAnswer' = [ctAnswer EXCEPT ![t] = answer],
         ctConv' \in {"none", "open", "deleted"}, ctConv' = "deleted" <=> ctConv = "deleted",
         ctUser' \in {ctUser, ctUser \cup {t}},
         TurnStored(ctConv', t \in ctUser', turn, answer),
         answer.status = "none" => ctAnswer[t].status = "none",
         ctCount' = ctCount + (IF t \in ctUser' \ ctUser THEN 1 ELSE 0)
                            + (IF answer.status # ctAnswer[t].status /\ ctAnswer[t].status = "none" THEN 1 ELSE 0),
         UNCHANGED voteVars
  PROVE  ChatInv'
<1>1. /\ ctTurn'[t] = turn /\ ctAnswer'[t] = answer
      /\ \A u \in CtTurns \ {t} : ctTurn'[u] = ctTurn[u] /\ ctAnswer'[u] = ctAnswer[u] /\ (u \in ctUser') = (u \in ctUser)
  BY ChatShapes
<1>2. ctCount' \in Nat
  BY ChatShapes
<1>3. ChatTypeOK'
  BY <1>2, ChatShapes DEF ChatInv, ChatTypeOK, AnswerRows, TurnRows, Places, Ends, voteVars
<1>4. \A u \in CtTurns : TurnStored(ctConv', u \in ctUser', ctTurn'[u], ctAnswer'[u])
  <2>1. ASSUME NEW u \in CtTurns \ {t} PROVE TurnStored(ctConv', u \in ctUser', ctTurn'[u], ctAnswer'[u])
    <3>1. TurnStored(ctConv, u \in ctUser, ctTurn[u], ctAnswer[u])
      BY DEF ChatInv
    <3> QED
      BY <1>1, <3>1 DEF TurnStored
  <2> QED
    BY <1>1, <2>1
<1>5. CountIsMessages'
  <2> DEFINE A == {u \in CtTurns : ctAnswer[u].status # "none"}
             B == {u \in CtTurns : ctAnswer'[u].status # "none"}
             more == IF answer.status # ctAnswer[t].status /\ ctAnswer[t].status = "none" THEN 1 ELSE 0
             asked == IF t \in ctUser' \ ctUser THEN 1 ELSE 0
  <2>1. B = IF answer.status = "none" THEN A ELSE A \cup {t}
    BY <1>1
  <2>2. (t \in A) = (ctAnswer[t].status # "none") /\ A \subseteq CtTurns
    OBVIOUS
  <2> HIDE DEF A, B
  <2>3. Cardinality(B) = Cardinality(A) + more /\ Cardinality(A) \in Nat
    BY <2>1, <2>2, OneMore
  <2>4. Cardinality(ctUser') = Cardinality(ctUser) + asked /\ Cardinality(ctUser) \in Nat
    <3>1. Cardinality(ctUser) \in Nat /\ Cardinality(ctUser \cup {t}) = IF t \in ctUser THEN Cardinality(ctUser) ELSE Cardinality(ctUser) + 1
      BY ChatShapes, OneMore
    <3>2. CASE ctUser' = ctUser
      BY <3>1, <3>2
    <3>3. CASE ctUser' = ctUser \cup {t}
      BY <3>1, <3>3
    <3> QED
      BY <3>1, <3>2, <3>3
  <2>5. ctCount = Cardinality(ctUser) + Cardinality(A)
    BY DEF ChatInv, CountIsMessages, A
  <2>6. ctCount' = ctCount + asked + more
    OBVIOUS
  <2>7. asked \in Nat /\ more \in Nat
    OBVIOUS
  <2> HIDE DEF asked, more
  <2>8. ctCount' = Cardinality(ctUser') + Cardinality(B)
    BY <2>3, <2>4, <2>5, <2>6, <2>7
  <2> QED
    BY <2>8 DEF CountIsMessages, B
<1> QED
  BY <1>3, <1>4, <1>5 DEF ChatInv

\* A turn moves, and nothing is stored.
LEMMA TurnAlone ==
  ASSUME ChatInv, NEW t \in CtTurns, NEW turn \in TurnRows, ctTurn' = [ctTurn EXCEPT ![t] = turn], NoRowChange,
         TurnStored(ctConv, t \in ctUser, turn, ctAnswer[t])
  PROVE  ChatInv'
<1>1. ctAnswer' = [ctAnswer EXCEPT ![t] = ctAnswer[t]] /\ ctCount' = ctCount + 0 + 0
  BY ChatShapes DEF NoRowChange
<1> QED
  BY <1>1, ChatShapes, TurnMoves DEF NoRowChange

\* The row new is turn with another place, text and end.
Turned(new, turn, pc, shown, end) ==
  new \in TurnRows /\ new.pc = pc /\ new.kind = turn.kind /\ new.shown = shown /\ new.end = end

-----------------------------------------------------------------------------
\* What the invariant says of one turn.
LEMMA OfTurn ==
  ASSUME ChatInv, NEW t \in CtTurns
  PROVE  /\ TurnStored(ctConv, t \in ctUser, ctTurn[t], ctAnswer[t]) /\ ctTurn[t] \in TurnRows /\ ctAnswer[t] \in AnswerRows
         /\ ctTurn[t].pc \in Places
         /\ ctTurn[t].kind \in Pipelines /\ ctTurn[t].shown \in Shown
         /\ ctTurn[t].end \in Ends
BY ChatShapes DEF ChatInv, TurnRows

\* Loading the conversation of a turn keeps ChatInv.
LEMMA LoadConversationStep ==
  ASSUME ChatInv, NEW t \in CtTurns, NEW kind \in Pipelines, LoadConversation(t, kind)
  PROVE  ChatInv'
<1> DEFINE turn == ctTurn[t]
           new == [[[turn EXCEPT !.pc = "loaded"] EXCEPT !.kind = kind] EXCEPT !.count = ctCount]
<1>1. turn.pc = "idle" /\ turn \in TurnRows /\ ctCount \in Nat
  BY OfTurn, ChatShapes DEF LoadConversation, At
<1>2. ctTurn' = [ctTurn EXCEPT ![t] = new] /\ NoRowChange
  BY DEF LoadConversation
<1>3. new \in TurnRows /\ new.pc = "loaded"
  BY <1>1 DEF TurnRows, Places
<1>4. TurnStored(ctConv, t \in ctUser, turn, ctAnswer[t])
  BY OfTurn
<1> HIDE DEF new
<1>5. TurnStored(ctConv, t \in ctUser, new, ctAnswer[t])
  BY <1>1, <1>3, <1>4 DEF TurnStored
<1> QED
  BY <1>2, <1>3, <1>5, TurnAlone

\* The steps of a turn that store nothing.
LEMMA SilentStep ==
  ASSUME ChatInv, NEW t \in CtTurns,
         Block(t) \/ RefuseModel(t) \/ OpenStream(t) \/ OpenRoute(t) \/ Delta(t) \/ CloseStream(t) \/ FailStream(t) \/ Break(t) \/ Leave(t)
  PROVE  ChatInv'
<1> DEFINE turn == ctTurn[t]
           ok == TurnStored(ctConv, t \in ctUser, turn, ctAnswer[t])
<1>1. /\ ok /\ turn \in TurnRows /\ turn.shown \in Shown
      /\ turn.end \in Ends /\ turn.kind \in Pipelines
  BY OfTurn
<1>0. ctTurn \in [CtTurns -> TurnRows]
  BY ChatShapes
<1>2. NoRowChange
  BY DEF Block, RefuseModel, OpenStream, OpenRoute, Delta, CloseStream, FailStream, Break, Leave
<1>3. ASSUME NEW new, NEW pc, NEW shown, NEW end, Turned(new, turn, pc, shown, end), ctTurn' = [ctTurn EXCEPT ![t] = new],
             \/ turn.pc \in {"started", "stream"} /\ pc \in {"started", "stream"}
             \/ turn.pc \in {"started", "stream"} /\ pc = "store" /\ end \in {"answered", "failed", "blocked"} /\ (end = "failed" => turn.kind = "rag")
             \/ turn.pc \in {"loaded", "started", "stream", "store"} /\ pc = "done" /\ end \notin {"answered", "failed", "blocked"}
      PROVE  ChatInv'
    <2>1. new \in TurnRows /\ new.pc = pc /\ new.kind = turn.kind /\ new.shown = shown /\ new.end = end
      BY <1>3 DEF Turned
    <2> HIDE DEF turn
    <2>2. TurnStored(ctConv, t \in ctUser, new, ctAnswer[t])
      BY <1>1, <1>3, <2>1 DEF TurnStored
    <2> QED
      BY <1>2, <1>3, <2>1, <2>2, TurnAlone
<1>4. CASE Block(t)
  <2> DEFINE new == [[turn EXCEPT !.pc = "store"] EXCEPT !.shown = "notice", !.end = "blocked"]
  <2>1. turn.pc = "started" /\ turn.kind = "rag" /\ ctTurn' = [ctTurn EXCEPT ![t] = new]
    BY <1>0, <1>4 DEF Block, At, Moved
  <2>2. Turned(new, turn, "store", "notice", "blocked")
    BY <1>1 DEF Turned, TurnRows, Places, Ends, Shown
  <2> QED
    BY <1>3, <2>1, <2>2
<1>5. CASE RefuseModel(t)
  <2> DEFINE new == [[[turn EXCEPT !.pc = "done"] EXCEPT !.end = "refused"] EXCEPT !.shown = "notice"]
  <2>1. turn.pc = "started" /\ ctTurn' = [ctTurn EXCEPT ![t] = new]
    BY <1>0, <1>5 DEF RefuseModel, At, Ended
  <2>2. Turned(new, turn, "done", "notice", "refused")
    BY <1>1 DEF Turned, TurnRows, Places, Ends, Shown
  <2> QED
    BY <1>3, <2>1, <2>2
<1>6. CASE OpenStream(t) \/ OpenRoute(t)
  <2> DEFINE new == [turn EXCEPT !.pc = "stream"]
  <2>1. turn.pc = "started" /\ ctTurn' = [ctTurn EXCEPT ![t] = new]
    BY <1>6 DEF OpenStream, OpenRoute, At, Moved
  <2>2. Turned(new, turn, "stream", turn.shown, turn.end)
    BY <1>1 DEF Turned, TurnRows, Places, Ends
  <2> QED
    BY <1>3, <2>1, <2>2
<1>7. CASE Delta(t)
  <2> DEFINE new == [turn EXCEPT !.shown = "part"]
  <2>1. turn.pc = "stream" /\ ctTurn' = [ctTurn EXCEPT ![t] = new]
    BY <1>7 DEF Delta, At
  <2>2. Turned(new, turn, "stream", "part", turn.end)
    BY <1>1, <2>1 DEF Turned, TurnRows, Shown
  <2> QED
    BY <1>3, <2>1, <2>2
<1>8. CASE CloseStream(t)
  <2> DEFINE shown == IF turn.shown = "part" THEN "full" ELSE turn.shown
             new == [[[turn EXCEPT !.pc = "store"] EXCEPT !.end = "answered"] EXCEPT !.shown = shown]
  <2>1. turn.pc = "stream" /\ ctTurn' = [ctTurn EXCEPT ![t] = new]
    BY <1>0, <1>1, <1>8 DEF CloseStream, At, Moved, TurnRows
  <2>2. shown \in Shown
    BY <1>1 DEF Shown
  <2> HIDE DEF shown
  <2>3. Turned(new, turn, "store", shown, "answered")
    BY <1>1, <2>2 DEF Turned, TurnRows, Places, Ends
  <2> QED
    BY <1>3, <2>1, <2>3
<1>9. CASE FailStream(t)
  <2> DEFINE end == IF turn.kind = "rag" THEN "failed" ELSE "answered"
             shown == IF turn.kind = "orchestrator" \/ (turn.kind = "rag" /\ turn.shown = "") THEN "notice" ELSE turn.shown
             new == [[[turn EXCEPT !.pc = "store"] EXCEPT !.end = end] EXCEPT !.shown = shown]
  <2>1. turn.pc = "stream" /\ ctTurn' = [ctTurn EXCEPT ![t] = new]
    BY <1>0, <1>1, <1>9 DEF FailStream, At, Moved, TurnRows
  <2>2. shown \in Shown /\ end \in {"answered", "failed"} /\ (end = "failed" => turn.kind = "rag")
    BY <1>1 DEF Shown
  <2> HIDE DEF shown, end
  <2>3. Turned(new, turn, "store", shown, end)
    BY <1>1, <2>2 DEF Turned, TurnRows, Places, Ends
  <2> QED
    BY <1>3, <2>1, <2>2, <2>3
<1>10. ASSUME NEW end \in {"broken", "left"}, turn.pc \in {"loaded", "started", "stream", "store"}, ctTurn' = Ended(t, end)
       PROVE  ChatInv'
  <2> DEFINE new == [[turn EXCEPT !.pc = "done"] EXCEPT !.end = end]
  <2>1. ctTurn' = [ctTurn EXCEPT ![t] = new]
    BY <1>0, <1>10 DEF Ended
  <2>2. Turned(new, turn, "done", turn.shown, end)
    BY <1>1 DEF Turned, TurnRows, Places, Ends
  <2> QED
    BY <1>3, <1>10, <2>1, <2>2
<1>11. CASE Break(t) \/ Leave(t)
  BY <1>10, <1>11 DEF Break, Leave, At
<1> QED
  BY <1>4, <1>5, <1>6, <1>7, <1>8, <1>9, <1>11

\* The row of an answer that is not there yet.
LEMMA NoAnswerIs == NoAnswer \in AnswerRows /\ NoAnswer.status = "none" /\ NoAnswer.text = ""
BY DEF NoAnswer, AnswerRows, Shown

\* The steps of a turn that store a message.
LEMMA SaveTurnStep ==
  ASSUME ChatInv, NEW t \in CtTurns, SaveTurn(t)
  PROVE  ChatInv'
<1> DEFINE turn == ctTurn[t]
           new == [turn EXCEPT !.pc = "started"]
           answer == [ctAnswer[t] EXCEPT !.status = "generating"]
<1>1. /\ turn.pc = "loaded" /\ turn.kind # "workflow" /\ ctConv # "deleted" /\ ctConv' = "open" /\ ctUser' = ctUser \cup {t}
      /\ ctCount' = ctCount + 2 /\ UNCHANGED voteVars
  BY DEF SaveTurn, At, Counted
<1>2. ctTurn' = [ctTurn EXCEPT ![t] = new] /\ ctAnswer' = [ctAnswer EXCEPT ![t] = answer]
  BY ChatShapes DEF SaveTurn, Moved
<1>3. turn \in TurnRows /\ TurnStored(ctConv, t \in ctUser, turn, ctAnswer[t])
  BY OfTurn
<1>4. t \notin ctUser /\ ctAnswer[t] = NoAnswer
  BY <1>1, <1>3 DEF TurnStored
<1>5. new \in TurnRows /\ new.pc = "started" /\ new.kind # "workflow"
  BY <1>1, <1>3 DEF TurnRows, Places
<1>6. answer \in AnswerRows /\ answer.status = "generating" /\ answer.text = "" /\ ctAnswer[t].status = "none"
  BY <1>4, NoAnswerIs DEF AnswerRows
<1> HIDE DEF new, answer
<1>7. TurnStored(ctConv', t \in ctUser', new, answer)
  BY <1>1, <1>5, <1>6 DEF TurnStored
<1>8. ctCount' = ctCount + 1 + 1
  BY <1>1, ChatShapes
<1> QED
  BY <1>1, <1>2, <1>4, <1>5, <1>6, <1>7, <1>8, TurnMoves

\* Saving the question of a turn keeps ChatInv.
LEMMA SaveQuestionStep ==
  ASSUME ChatInv, NEW t \in CtTurns, SaveQuestion(t)
  PROVE  ChatInv'
<1> DEFINE turn == ctTurn[t]
<1>1. turn.pc = "loaded" /\ turn.kind = "workflow" /\ ctConv # "deleted"
  BY DEF SaveQuestion, At
<1>2. turn \in TurnRows /\ TurnStored(ctConv, t \in ctUser, turn, ctAnswer[t]) /\ ctAnswer[t] \in AnswerRows
  BY OfTurn
<1>3. t \notin ctUser /\ ctAnswer[t] = NoAnswer
  BY <1>1, <1>2 DEF TurnStored
<1>4. CASE ctUser' = ctUser \cup {t}
  <2> DEFINE new == [turn EXCEPT !.pc = "stream"]
  <2>0. ctUser' # ctUser
    BY <1>3, <1>4
  <2>1. ctConv' = "open" /\ ctCount' = ctCount + 1 /\ UNCHANGED <<ctAnswer, voteVars>> /\ ctTurn' = [ctTurn EXCEPT ![t] = new]
    BY <2>0 DEF SaveQuestion, Moved, Counted, NoRowChange
  <2>2. new \in TurnRows /\ new.pc = "stream" /\ new.kind = "workflow"
    BY <1>1, <1>2 DEF TurnRows, Places
  <2>3. ctAnswer' = [ctAnswer EXCEPT ![t] = ctAnswer[t]] /\ ctAnswer[t].status = "none" /\ ctAnswer[t].text = ""
    BY <1>3, <2>1, ChatShapes, NoAnswerIs
  <2> HIDE DEF new
  <2>4. TurnStored(ctConv', t \in ctUser', new, ctAnswer[t])
    BY <1>3, <1>4, <2>1, <2>2, <2>3 DEF TurnStored
  <2>5. ctCount' = ctCount + 1 + 0
    BY <2>1, ChatShapes
  <2> QED
    BY <1>1, <1>2, <1>3, <1>4, <2>1, <2>2, <2>3, <2>4, <2>5, TurnMoves
<1>5. CASE ctUser' = ctUser
  <2> DEFINE new == [[[turn EXCEPT !.pc = "done"] EXCEPT !.end = "unpublished"] EXCEPT !.shown = "notice"]
  <2>0. ctUser' # ctUser \cup {t}
    BY <1>3, <1>5
  <2>1. NoRowChange /\ ctTurn' = [ctTurn EXCEPT ![t] = new]
    BY <2>0, ChatShapes DEF SaveQuestion, Ended
  <2>2. new \in TurnRows /\ new.pc = "done"
    BY <1>2 DEF TurnRows, Places, Ends, Shown
  <2> HIDE DEF new
  <2>3. TurnStored(ctConv, t \in ctUser, new, ctAnswer[t])
    BY <1>3, <2>2 DEF TurnStored
  <2> QED
    BY <2>1, <2>2, <2>3, TurnAlone
<1> QED
  BY <1>4, <1>5 DEF SaveQuestion, NoRowChange

\* The answer of a turn is stored: a row that was generating, or the first row of a workflow.
LEMMA StoreStep ==
  ASSUME ChatInv, NEW t \in CtTurns, StoreAnswerOf(t) \/ StoreRouted(t) \/ StoreWorkflowAnswer(t)
  PROVE  ChatInv'
<1> DEFINE turn == ctTurn[t]
           new == [turn EXCEPT !.pc = "done"]
<1>1. /\ turn.pc = "store" /\ ctConv # "deleted" /\ UNCHANGED <<ctConv, ctUser, voteVars>>
      /\ ctTurn' = [ctTurn EXCEPT ![t] = new]
  BY DEF StoreAnswerOf, StoreRouted, StoreWorkflowAnswer, At, Moved
<1>2. /\ turn \in TurnRows /\ turn.shown \in Shown /\ ctAnswer[t] \in AnswerRows /\ TurnStored(ctConv, t \in ctUser, turn, ctAnswer[t])
  BY OfTurn
<1>3. /\ t \in ctUser /\ turn.end \in {"answered", "failed", "blocked"} /\ (turn.end = "failed" => turn.kind = "rag")
      /\ (turn.kind # "workflow" => ctAnswer[t].status = "generating")
      /\ (turn.kind = "workflow" => ctAnswer[t].status = "none")
  BY <1>1, <1>2 DEF TurnStored
<1>4. new \in TurnRows /\ new.pc = "done" /\ new.kind = turn.kind /\ new.shown = turn.shown /\ new.end = turn.end
  BY <1>2 DEF TurnRows, Places
<1> HIDE DEF new
<1>5. ASSUME NEW status \in {"completed", "error", "plain"}, NEW text \in Shown \cup {"recovered", "empty"},
             ctAnswer' = [ctAnswer EXCEPT ![t] = [status |-> status, text |-> text]],
             turn.shown # "" => text = turn.shown, turn.end = "failed" <=> status = "error",
             ctCount' = ctCount + IF turn.kind = "workflow" THEN 1 ELSE 0
      PROVE  ChatInv'
  <2> DEFINE answer == [status |-> status, text |-> text]
  <2>1. answer \in AnswerRows /\ answer.status = status /\ answer.text = text
    BY DEF AnswerRows
  <2>2. ctAnswer' = [ctAnswer EXCEPT ![t] = answer]
    BY <1>5
  <2> HIDE DEF answer
  <2>3. TurnStored(ctConv', t \in ctUser', new, answer)
    BY <1>1, <1>3, <1>4, <1>5, <2>1 DEF TurnStored
  <2>4. ctCount' = ctCount + 0 + (IF answer.status # ctAnswer[t].status /\ ctAnswer[t].status = "none" THEN 1 ELSE 0)
    <3>1. answer.status # "none" /\ ctCount \in Nat
      BY <2>1, ChatShapes
    <3>2. CASE turn.kind = "workflow"
      <4>1. ctCount' = ctCount + 1
        BY <1>5, <3>2
      <4>2. (IF answer.status # ctAnswer[t].status /\ ctAnswer[t].status = "none" THEN 1 ELSE 0) = 1
        BY <1>3, <3>1, <3>2
      <4> QED
        BY <3>1, <4>1, <4>2
    <3>3. CASE turn.kind # "workflow"
      <4>1. ctCount' = ctCount + 0
        BY <1>5, <3>3
      <4>2. (IF answer.status # ctAnswer[t].status /\ ctAnswer[t].status = "none" THEN 1 ELSE 0) = 0
        BY <1>3, <3>3
      <4> QED
        BY <3>1, <4>1, <4>2
    <3> QED
      BY <3>2, <3>3
  <2> QED
    BY <1>1, <1>3, <1>4, <2>1, <2>2, <2>3, <2>4, ChatShapes, TurnMoves
<1>6. CASE StoreAnswerOf(t)
  <2>1. /\ ctAnswer' = [ctAnswer EXCEPT ![t] = [status |-> StatusOf(turn.end), text |-> turn.shown]]
        /\ turn.kind = "rag" /\ ctCount' = ctCount + 0
    BY <1>6, ChatShapes DEF StoreAnswerOf
  <2> QED
    BY <1>2, <1>5, <2>1 DEF StatusOf
<1>7. CASE StoreRouted(t)
  <2> DEFINE text == IF turn.shown = "" THEN "empty" ELSE turn.shown
  <2>1. /\ ctAnswer' = [ctAnswer EXCEPT ![t] = [status |-> "completed", text |-> text]]
        /\ turn.kind = "orchestrator" /\ ctCount' = ctCount
    BY <1>7 DEF StoreRouted
  <2>2. text \in Shown \cup {"recovered", "empty"} /\ (turn.shown # "" => text = turn.shown) /\ turn.end # "failed"
    BY <1>2, <1>3, <2>1
  <2> HIDE DEF text
  <2>3. ctCount' = ctCount + 0
    BY <2>1, ChatShapes
  <2> QED
    BY <1>5, <2>1, <2>2, <2>3
<1>8. CASE StoreWorkflowAnswer(t)
  <2>1. PICK text \in IF turn.shown = "" THEN {"recovered", "empty"} ELSE {turn.shown} :
          ctAnswer' = [ctAnswer EXCEPT ![t] = [status |-> "plain", text |-> text]]
    BY <1>8 DEF StoreWorkflowAnswer
  <2>2. turn.kind = "workflow" /\ ctCount' = ctCount + 1
    BY <1>8 DEF StoreWorkflowAnswer, Counted
  <2>3. text \in Shown \cup {"recovered", "empty"} /\ (turn.shown # "" => text = turn.shown) /\ turn.end # "failed"
    BY <1>2, <1>3, <2>1, <2>2
  <2> QED
    BY <1>5, <2>1, <2>2, <2>3
<1> QED
  BY <1>6, <1>7, <1>8

\* Deleting the conversation keeps ChatInv.
LEMMA DeleteConversationStep ==
  ASSUME ChatInv, DeleteConversation
  PROVE  ChatInv'
<1>1. /\ ctConv' = "deleted" /\ ctCount' = 0 /\ ctUser' = {} /\ ctAnswer' = [t \in CtTurns |-> NoAnswer]
      /\ UNCHANGED ctTurn /\ UNCHANGED voteVars
  BY DEF DeleteConversation
<1>2. ctAnswer' \in [CtTurns -> AnswerRows] /\ \A t \in CtTurns : ctAnswer'[t] = NoAnswer
  BY <1>1, NoAnswerIs
<1>3. ChatTypeOK'
  BY <1>1, <1>2 DEF ChatInv, ChatTypeOK, AnswerRows, voteVars
<1>4. CountIsMessages'
  <2>1. {t \in CtTurns : ctAnswer'[t].status # "none"} = {}
    BY <1>2, NoAnswerIs
  <2> QED
    BY <1>1, <2>1, FS_EmptySet DEF CountIsMessages
<1>5. \A t \in CtTurns : TurnStored(ctConv', t \in ctUser', ctTurn'[t], ctAnswer'[t])
  <2> SUFFICES ASSUME NEW t \in CtTurns PROVE TurnStored(ctConv', t \in ctUser', ctTurn'[t], ctAnswer'[t])
    OBVIOUS
  <2>1. TurnStored(ctConv, t \in ctUser, ctTurn[t], ctAnswer[t])
    BY OfTurn
  <2> QED
    BY <1>1, <1>2, <2>1, NoAnswerIs DEF TurnStored
<1> QED
  BY <1>3, <1>4, <1>5 DEF ChatInv

\* A vote keeps ChatInv.
LEMMA VoteStep ==
  ASSUME ChatInv, NEW v \in CtVoters,
         \/ \E t \in CtTurns : OpenVote(v, t)
         \/ \E new \in Feedback : SetFeedback(v, new)
         \/ DropVote(v)
  PROVE  ChatInv'
<1>1. UNCHANGED turnVars
  BY DEF OpenVote, SetFeedback, DropVote
<1>2. VoteTypes
  BY DEF ChatInv, ChatTypeOK, VoteTypes
<1>3. NoVoter \in [on : BOOLEAN, turn : CtTurns, was : Feedback]
  <2>1. (CHOOSE t \in CtTurns : TRUE) \in CtTurns
    BY ChatAssumption
  <2> QED
    BY <2>1 DEF NoVoter, Feedback
<1>4. VoteTypes'
  <2>1. ASSUME NEW t \in CtTurns, OpenVote(v, t) PROVE VoteTypes'
    <3>1. [on |-> TRUE, turn |-> t, was |-> ctVote[t]] \in [on : BOOLEAN, turn : CtTurns, was : Feedback]
      BY <1>2 DEF VoteTypes
    <3>2. ctVoter' \in [CtVoters -> [on : BOOLEAN, turn : CtTurns, was : Feedback]] /\ UNCHANGED <<ctVote, ctEvents>>
      BY <1>2, <2>1, <3>1 DEF VoteTypes, OpenVote
    <3>3. ctVotes' \in 0..CtMaxVotes
      BY <1>2, <2>1, ChatAssumption DEF VoteTypes, OpenVote
    <3>4. ctMixed' \in BOOLEAN
      BY <2>1, Zenon DEF OpenVote
    <3> QED
      BY <1>2, <3>2, <3>3, <3>4 DEF VoteTypes
  <2>2. ASSUME NEW new \in Feedback, SetFeedback(v, new) PROVE VoteTypes'
    <3> DEFINE t == ctVoter[v].turn
               was == ctVoter[v].was
               up == IF new = "up" /\ was # "up" THEN 1 ELSE 0
               down == IF new = "down" /\ was # "down" THEN 1 ELSE 0
               reverse == IF Reverses(was, new) THEN 1 ELSE 0
               old == ctEvents[t]
               row == [up |-> old.up + up, down |-> old.down + down, reverse |-> old.reverse + reverse]
    <3>1. t \in CtTurns /\ old \in [up : Nat, down : Nat, reverse : Nat]
      BY <1>2 DEF VoteTypes
    <3>2. up \in Nat /\ down \in Nat /\ reverse \in Nat
      OBVIOUS
    <3>3. /\ ctEvents' = [ctEvents EXCEPT ![t] = row] /\ ctVote' = [ctVote EXCEPT ![t] = new]
          /\ ctVoter' = [ctVoter EXCEPT ![v] = NoVoter] /\ UNCHANGED ctVotes
      BY <1>2, <2>2, <3>1 DEF SetFeedback, VoteTypes
    <3> HIDE DEF up, down, reverse, old
    <3>4. row \in [up : Nat, down : Nat, reverse : Nat]
      BY <3>1, <3>2
    <3> HIDE DEF row
    <3>5. ctMixed' \in BOOLEAN
      BY <2>2, Zenon DEF SetFeedback
    <3> QED
      BY <1>2, <1>3, <3>1, <3>3, <3>4, <3>5 DEF VoteTypes
  <2>3. ASSUME DropVote(v) PROVE VoteTypes'
    BY <1>2, <1>3, <2>3 DEF DropVote, VoteTypes
  <2> QED
    BY <2>1, <2>2, <2>3
<1>5. ChatTypeOK'
  BY <1>1, <1>4 DEF ChatInv, ChatTypeOK, turnVars, VoteTypes
<1> QED
  BY <1>1, <1>5 DEF ChatInv, turnVars, CountIsMessages

\* ChatInv holds at the start.
LEMMA ChatStart ==
  ASSUME ChatInit
  PROVE  ChatInv
<1>1. NoTurn \in TurnRows /\ NoTurn.pc = "idle"
  BY DEF NoTurn, TurnRows, Places, Ends, Pipelines, Shown
<1>2. NoVoter \in [on : BOOLEAN, turn : CtTurns, was : Feedback]
  <2>1. (CHOOSE t \in CtTurns : TRUE) \in CtTurns
    BY ChatAssumption
  <2> QED
    BY <2>1 DEF NoVoter, Feedback
<1>3. NoEvents \in [up : Nat, down : Nat, reverse : Nat]
  BY DEF NoEvents
<1>4. /\ \A t \in CtTurns : ctTurn[t] = NoTurn /\ ctAnswer[t] = NoAnswer
      /\ ctUser = {} /\ ctCount = 0
  BY DEF ChatInit
<1>5. ctTurn \in [CtTurns -> TurnRows] /\ ctAnswer \in [CtTurns -> AnswerRows]
  BY <1>1, NoAnswerIs DEF ChatInit
<1>6. ChatTypeOK
  <2>1. ctVoter \in [CtVoters -> [on : BOOLEAN, turn : CtTurns, was : Feedback]]
    BY <1>2 DEF ChatInit
  <2>2. ctEvents \in [CtTurns -> [up : Nat, down : Nat, reverse : Nat]]
    BY <1>3 DEF ChatInit
  <2>3. ctVote \in [CtTurns -> Feedback]
    BY DEF ChatInit, Feedback
  <2>4. ctVotes \in 0..CtMaxVotes
    BY ChatAssumption DEF ChatInit
  <2>5. ctMixed \in BOOLEAN
    BY DEF ChatInit
  <2>6. ctConv = "none"
    BY DEF ChatInit
  <2> QED
    BY <1>4, <1>5, <2>1, <2>2, <2>3, <2>4, <2>5, <2>6 DEF ChatTypeOK, AnswerRows, TurnRows, Places, Ends
<1>7. CountIsMessages
  <2>1. {t \in CtTurns : ctAnswer[t].status # "none"} = {}
    BY <1>4, NoAnswerIs
  <2> QED
    BY <1>4, <2>1, FS_EmptySet DEF CountIsMessages
<1>8. \A t \in CtTurns : TurnStored(ctConv, t \in ctUser, ctTurn[t], ctAnswer[t])
  BY <1>1, <1>4 DEF TurnStored
<1> QED
  BY <1>6, <1>7, <1>8 DEF ChatInv

\* Every step keeps ChatInv.
LEMMA ChatStep ==
  ASSUME ChatInv, [ChatNext]_chatVars
  PROVE  ChatInv'
<1>1. CASE UNCHANGED chatVars
  BY <1>1 DEF chatVars, turnVars, voteVars, ChatInv, ChatTypeOK, CountIsMessages
<1>2. CASE ChatNext
  BY <1>2, LoadConversationStep, SilentStep, SaveTurnStep, SaveQuestionStep, StoreStep, DeleteConversationStep, VoteStep
  DEF ChatNext
<1> QED
  BY <1>1, <1>2

\* Types of the conversation, its turns and its votes, for every instance.
LEMMA ChatTypes == ChatInv => ChatTypeOK
BY DEF ChatInv

\* Whatever turns overlap and wherever one of them stops, the counter of the conversation is the
\* number of its messages, and a turn that came to its end has stored what its client was shown.
THEOREM TurnsAreStored == ChatSpec => []TurnsSound
<1>1. ChatInit => ChatInv
  BY ChatStart
<1>2. ChatInv /\ [ChatNext]_chatVars => ChatInv'
  BY ChatStep
<1>3. ChatInv => TurnsSound
  BY DEF ChatInv, TurnsSound, ShownIsStored, TurnStored, At
<1> QED
  BY <1>1, <1>2, <1>3, PTL DEF ChatSpec

-----------------------------------------------------------------------------
(****************************************************************************
 Votes: the rebuild of the scores counts the votes that stand.
 ****************************************************************************)

\* A set of natural numbers has a least one.
LEMMA LeastExists ==
  ASSUME NEW S \in SUBSET Nat, S # {}
  PROVE  \E m \in S : \A k \in S : m <= k
<1>1. PICK m \in S : \A k \in S : ~(<<k, m>> \in OpToRel(<, Nat))
  BY WFMin, NatLessThanWellFounded, Zenon
<1>2. \A k \in S : ~(k < m)
  BY <1>1 DEF OpToRel
<1> QED
  BY <1>2

\* The sum that the rebuild makes, over the sets of at most k turns.
Small(k) == {S \in SUBSET CtTurns : Cardinality(S) <= k}
IsSum(s, D, kind) ==
  s = [S \in D |-> IF S = {} THEN 0 ELSE LET t == CHOOSE x \in S : TRUE IN ctEvents[t][kind] + s[S \ {t}]]

\* A turn that is taken out of a set leaves a smaller one.
LEMMA FewerTurns ==
  ASSUME NEW S \in SUBSET CtTurns, S # {}
  PROVE  LET t == CHOOSE x \in S : TRUE IN
         /\ t \in S /\ S \ {t} \in SUBSET CtTurns
         /\ Cardinality(S) \in Nat /\ Cardinality(S \ {t}) \in Nat
         /\ Cardinality(S \ {t}) = Cardinality(S) - 1
<1> DEFINE t == CHOOSE x \in S : TRUE
<1>1. t \in S
  OBVIOUS
<1>2. IsFiniteSet(S)
  BY ChatAssumption, FS_Subset
<1>3. Cardinality(S) \in Nat
  BY <1>2, FS_CardinalityType
<1>4. IsFiniteSet(S \ {t}) /\ Cardinality(S \ {t}) = Cardinality(S) - 1
  BY <1>1, <1>2, FS_RemoveElement
<1>5. Cardinality(S \ {t}) \in Nat
  BY <1>4, FS_CardinalityType
<1> QED
  BY <1>1, <1>3, <1>4, <1>5

\* Such a sum exists, by the least size for which it would not.
LEMMA SumExists ==
  ASSUME NEW kind, NEW k \in Nat
  PROVE  \E s : IsSum(s, Small(k), kind)
<1> DEFINE Bad == {m \in Nat : \A s : ~IsSum(s, Small(m), kind)}
<1>1. ASSUME Bad # {} PROVE FALSE
  <2>1. PICK m \in Bad : \A l \in Bad : m <= l
    BY <1>1, LeastExists
  <2>2. m \in Nat /\ (m # 0 => m - 1 \in Nat /\ m - 1 \notin Bad)
    BY <2>1
  <2>3. CASE m = 0
    <3> DEFINE s == [S \in Small(0) |-> 0]
    <3>1. \A S \in Small(0) : S = {}
      <4> SUFFICES ASSUME NEW S \in Small(0), S # {} PROVE FALSE
        OBVIOUS
      <4>1. S \in SUBSET CtTurns /\ Cardinality(S) <= 0
        BY DEF Small
      <4> DEFINE t == CHOOSE x \in S : TRUE
      <4>2. Cardinality(S) \in Nat /\ Cardinality(S \ {t}) \in Nat /\ Cardinality(S \ {t}) = Cardinality(S) - 1
        BY <4>1, FewerTurns
      <4> QED
        BY <4>1, <4>2
    <3>2. IsSum(s, Small(0), kind)
      BY <3>1 DEF IsSum
    <3> QED
      BY <2>1, <2>3, <3>2
  <2>4. CASE m # 0
    <3>1. PICK s : IsSum(s, Small(m - 1), kind)
      BY <2>2, <2>4
    <3> DEFINE q == [S \in Small(m) |-> IF S = {} THEN 0 ELSE LET t == CHOOSE x \in S : TRUE IN ctEvents[t][kind] + s[S \ {t}]]
    <3>2. \A S \in Small(m - 1) : q[S] = s[S]
      <4> TAKE S \in Small(m - 1)
      <4>1. S \in Small(m)
        <5>1. S \in SUBSET CtTurns /\ Cardinality(S) <= m - 1
          BY DEF Small
        <5>2. Cardinality(S) \in Nat
          BY <5>1, FS_Subset, FS_CardinalityType, ChatAssumption
        <5>3. Cardinality(S) <= m
          BY <2>2, <5>1, <5>2
        <5> QED
          BY <5>1, <5>3 DEF Small
      <4>2. s[S] = IF S = {} THEN 0 ELSE LET t == CHOOSE x \in S : TRUE IN ctEvents[t][kind] + s[S \ {t}]
        BY <3>1 DEF IsSum
      <4> QED
        BY <4>1, <4>2
    <3>3. ASSUME NEW S \in Small(m), S # {}
          PROVE  q[S \ {CHOOSE x \in S : TRUE}] = s[S \ {CHOOSE x \in S : TRUE}]
      <4> DEFINE t == CHOOSE x \in S : TRUE
      <4>1. S \in SUBSET CtTurns /\ Cardinality(S) <= m
        BY DEF Small
      <4>2. S \ {t} \in SUBSET CtTurns /\ Cardinality(S) \in Nat /\ Cardinality(S \ {t}) = Cardinality(S) - 1
        BY <3>3, <4>1, FewerTurns
      <4>3. Cardinality(S \ {t}) <= m - 1
        BY <2>2, <4>1, <4>2
      <4>4. S \ {t} \in Small(m - 1)
        BY <4>2, <4>3 DEF Small
      <4> QED
        BY <3>2, <4>4
    <3>4. ASSUME NEW S \in Small(m)
          PROVE  q[S] = IF S = {} THEN 0 ELSE LET t == CHOOSE x \in S : TRUE IN ctEvents[t][kind] + q[S \ {t}]
      <4>1. q[S] = IF S = {} THEN 0 ELSE LET t == CHOOSE x \in S : TRUE IN ctEvents[t][kind] + s[S \ {t}]
        OBVIOUS
      <4> HIDE DEF q
      <4> QED
        BY <3>3, <4>1
    <3>5. IsSum(q, Small(m), kind)
      <4>1. q = [S \in Small(m) |-> q[S]]
        OBVIOUS
      <4> HIDE DEF q
      <4> QED
        BY <3>4, <4>1 DEF IsSum
    <3> QED
      BY <2>1, <3>5
  <2> QED
    BY <2>3, <2>4
<1> QED
  BY <1>1

\* The sum that the rebuild makes over all turns.
Sums(s, kind) == \A S \in SUBSET CtTurns :
  s[S] = IF S = {} THEN 0 ELSE LET t == CHOOSE x \in S : TRUE IN ctEvents[t][kind] + s[S \ {t}]
\* EventSum is the value at CtTurns of a function that sums.
LEMMA EventSumIs ==
  ASSUME NEW kind
  PROVE  \E s : EventSum(kind) = s[CtTurns] /\ Sums(s, kind)
<1>1. Cardinality(CtTurns) \in Nat
  BY FS_CardinalityType, ChatAssumption
<1>2. Small(Cardinality(CtTurns)) = SUBSET CtTurns
  BY FS_Subset, ChatAssumption DEF Small
<1> DEFINE s == CHOOSE s : IsSum(s, SUBSET CtTurns, kind)
<1>3. IsSum(s, SUBSET CtTurns, kind)
  BY <1>1, <1>2, SumExists
<1>4. EventSum(kind) = s[CtTurns]
  BY DEF EventSum, IsSum
<1> HIDE DEF s
<1>5. Sums(s, kind)
  BY <1>3 DEF IsSum, Sums
<1> QED
  BY <1>4, <1>5

-----------------------------------------------------------------------------
\* While votes were set one after another, a turn has as many votes that were not reversed as
\* stand, one or none, and a request knows the vote it replaces.
Voted(t) == ctVote[t] \in {"up", "down"}
VoteCounted(t) ==
  /\ ctVote[t] \in {"null", "up", "down"}
  /\ ctEvents[t].up + ctEvents[t].down = ctEvents[t].reverse + (IF Voted(t) THEN 1 ELSE 0)
VotesInv == ~ctMixed =>
  /\ \A t \in CtTurns : VoteCounted(t)
  /\ \A v \in CtVoters : ctVoter[v].on => ctVoter[v].was = ctVote[ctVoter[v].turn]
  /\ \A v, w \in CtVoters : ctVoter[v].on /\ ctVoter[w].on /\ ctVoter[v].turn = ctVoter[w].turn => v = w

\* Initially there are no votes.
LEMMA VotesStart == ChatInit => VotesInv
BY DEF ChatInit, VotesInv, VoteCounted, Voted, NoEvents, NoVoter

\* Opening a request on a message that has none.
LEMMA OpenVoteStep ==
  ASSUME ChatTypeOK, VotesInv, NEW v \in CtVoters, NEW t \in CtTurns, OpenVote(v, t)
  PROVE  VotesInv'
<1>1. /\ ctVoter' = [ctVoter EXCEPT ![v] = [on |-> TRUE, turn |-> t, was |-> ctVote[t]]]
      /\ ctMixed' = (ctMixed \/ \E w \in CtVoters : ctVoter[w].on /\ ctVoter[w].turn = t)
      /\ UNCHANGED <<ctVote, ctEvents>>
  BY DEF OpenVote
<1> SUFFICES ASSUME ~ctMixed' PROVE VotesInv'
  BY DEF VotesInv
<1>2. ~ctMixed /\ \A w \in CtVoters : ~(ctVoter[w].on /\ ctVoter[w].turn = t)
  BY <1>1 DEF ChatTypeOK
<1>3. /\ ctVoter'[v].turn = t /\ ctVoter'[v].was = ctVote[t]
      /\ \A w \in CtVoters \ {v} : ctVoter'[w] = ctVoter[w]
  BY <1>1 DEF ChatTypeOK
<1>4. \A w \in CtTurns : VoteCounted(w)'
  BY <1>1, <1>2 DEF VotesInv, VoteCounted, Voted
<1>5. \A w \in CtVoters : ctVoter'[w].on => ctVoter'[w].was = ctVote'[ctVoter'[w].turn]
  BY <1>1, <1>2, <1>3 DEF VotesInv
<1>6. \A w, x \in CtVoters : ctVoter'[w].on /\ ctVoter'[x].on /\ ctVoter'[w].turn = ctVoter'[x].turn => w = x
  BY <1>2, <1>3 DEF VotesInv
<1> QED
  BY <1>4, <1>5, <1>6 DEF VotesInv

\* Replacing the vote that was there.
LEMMA SetFeedbackStep ==
  ASSUME ChatTypeOK, VotesInv, NEW v \in CtVoters, NEW new \in Feedback, SetFeedback(v, new)
  PROVE  VotesInv'
<1> DEFINE t == ctVoter[v].turn
           was == ctVoter[v].was
           old == ctEvents[t]
           up == IF new = "up" /\ was # "up" THEN 1 ELSE 0
           down == IF new = "down" /\ was # "down" THEN 1 ELSE 0
           reverse == IF Reverses(was, new) THEN 1 ELSE 0
           row == [up |-> old.up + up, down |-> old.down + down, reverse |-> old.reverse + reverse]
<1>1. /\ ctVoter[v].on /\ ctVoter' = [ctVoter EXCEPT ![v] = NoVoter]
      /\ ctVote' = [ctVote EXCEPT ![t] = new]
      /\ ctMixed' = (ctMixed \/ new = "zero")
  BY DEF SetFeedback
<1>2. ctEvents' = [ctEvents EXCEPT ![t] = row]
  BY DEF SetFeedback
<1>3. t \in CtTurns /\ was \in Feedback /\ old \in [up : Nat, down : Nat, reverse : Nat]
  BY DEF ChatTypeOK
<1> SUFFICES ASSUME ~ctMixed' PROVE VotesInv'
  BY DEF VotesInv
<1>4. ~ctMixed /\ new # "zero"
  BY <1>1 DEF ChatTypeOK
<1>5. was = ctVote[t] /\ VoteCounted(t)
  BY <1>1, <1>3, <1>4 DEF VotesInv
<1>6. ctVote'[t] = new /\ \A u \in CtTurns \ {t} : ctVote'[u] = ctVote[u]
  BY <1>1, <1>3 DEF ChatTypeOK
<1>7. ctEvents'[t] = row /\ \A u \in CtTurns \ {t} : ctEvents'[u] = ctEvents[u]
  BY <1>2, <1>3 DEF ChatTypeOK
<1>8. \A u \in CtTurns : u = t => VoteCounted(u)'
  <2>1. was \in {"null", "up", "down"} /\ old.up + old.down = old.reverse + (IF was \in {"up", "down"} THEN 1 ELSE 0)
    BY <1>5 DEF VoteCounted, Voted
  <2>2. new \in {"null", "up", "down"}
    BY <1>4 DEF Feedback
  <2>3. up + down = reverse + (IF new \in {"up", "down"} THEN 1 ELSE 0) - (IF was \in {"up", "down"} THEN 1 ELSE 0)
    BY <2>1, <2>2 DEF Reverses
  <2>4. old.up \in Nat /\ old.down \in Nat /\ old.reverse \in Nat /\ up \in Nat /\ down \in Nat /\ reverse \in Nat
    BY <1>3
  <2>5. row.up = old.up + up /\ row.down = old.down + down /\ row.reverse = old.reverse + reverse
    OBVIOUS
  <2> HIDE DEF up, down, reverse, row, old, was
  <2>6. row.up + row.down = row.reverse + (IF new \in {"up", "down"} THEN 1 ELSE 0)
    BY <2>1, <2>3, <2>4, <2>5
  <2> HIDE DEF t
  <2>7. /\ ctVote'[t] \in {"null", "up", "down"}
        /\ ctEvents'[t].up + ctEvents'[t].down = ctEvents'[t].reverse + (IF ctVote'[t] \in {"up", "down"} THEN 1 ELSE 0)
    BY <1>6, <1>7, <2>2, <2>6
  <2> QED
    BY <2>7 DEF VoteCounted, Voted
<1>9. \A u \in CtTurns : VoteCounted(u)'
  <2>1. \A u \in CtTurns \ {t} : VoteCounted(u)'
    BY <1>4, <1>6, <1>7 DEF VotesInv, VoteCounted, Voted
  <2> QED
    BY <1>8, <2>1
<1>10. ~ctVoter'[v].on /\ \A w \in CtVoters \ {v} : ctVoter'[w] = ctVoter[w]
  BY <1>1 DEF ChatTypeOK, NoVoter
<1>11. \A w \in CtVoters : ctVoter'[w].on => ctVoter'[w].was = ctVote'[ctVoter'[w].turn]
  <2> SUFFICES ASSUME NEW w \in CtVoters, ctVoter'[w].on PROVE ctVoter'[w].was = ctVote'[ctVoter'[w].turn]
    OBVIOUS
  <2>1. w # v /\ ctVoter'[w] = ctVoter[w]
    BY <1>10
  <2>2. ctVoter[w].turn # t /\ ctVoter[w].turn \in CtTurns
    BY <1>1, <1>4, <2>1 DEF VotesInv, ChatTypeOK
  <2> QED
    BY <1>4, <1>6, <2>1, <2>2 DEF VotesInv
<1>12. \A w, x \in CtVoters : ctVoter'[w].on /\ ctVoter'[x].on /\ ctVoter'[w].turn = ctVoter'[x].turn => w = x
  BY <1>4, <1>10 DEF VotesInv
<1> QED
  BY <1>9, <1>11, <1>12 DEF VotesInv

\* A request that finds the conversation deleted.
LEMMA DropVoteStep ==
  ASSUME ChatTypeOK, VotesInv, NEW v \in CtVoters, DropVote(v)
  PROVE  VotesInv'
<1>1. ctVoter' = [ctVoter EXCEPT ![v] = NoVoter] /\ UNCHANGED <<ctVote, ctEvents, ctMixed>>
  BY DEF DropVote
<1>2. ~ctVoter'[v].on /\ \A w \in CtVoters \ {v} : ctVoter'[w] = ctVoter[w]
  BY <1>1 DEF ChatTypeOK, NoVoter
<1> SUFFICES ASSUME ~ctMixed PROVE VotesInv'
  BY <1>1 DEF VotesInv
<1>3. \A t \in CtTurns : VoteCounted(t)'
  BY <1>1 DEF VotesInv, VoteCounted, Voted
<1>4. \A w \in CtVoters : ctVoter'[w].on => ctVoter'[w].was = ctVote'[ctVoter'[w].turn]
  BY <1>1, <1>2 DEF VotesInv
<1>5. \A w, x \in CtVoters : ctVoter'[w].on /\ ctVoter'[x].on /\ ctVoter'[w].turn = ctVoter'[x].turn => w = x
  BY <1>2 DEF VotesInv
<1> QED
  BY <1>3, <1>4, <1>5 DEF VotesInv

\* Every step keeps the counts: turns and the deletion leave the votes alone.
LEMMA VotesStep == ChatTypeOK /\ VotesInv /\ [ChatNext]_chatVars => VotesInv'
<1> SUFFICES ASSUME ChatTypeOK, VotesInv, [ChatNext]_chatVars PROVE VotesInv'
  OBVIOUS
<1>1. CASE UNCHANGED voteVars
  BY <1>1 DEF voteVars, VotesInv, VoteCounted, Voted
<1>2. CASE \E v \in CtVoters : \/ \E t \in CtTurns : OpenVote(v, t)
                               \/ \E new \in Feedback : SetFeedback(v, new)
                               \/ DropVote(v)
  BY <1>2, OpenVoteStep, SetFeedbackStep, DropVoteStep
<1>3. CASE DeleteConversation
  BY <1>1, <1>3 DEF DeleteConversation
<1>4. ASSUME NEW t \in CtTurns,
             \/ \E kind \in Pipelines : LoadConversation(t, kind)
             \/ SaveTurn(t) \/ SaveQuestion(t) \/ Block(t) \/ RefuseModel(t)
             \/ OpenStream(t) \/ OpenRoute(t)
             \/ Delta(t) \/ CloseStream(t) \/ FailStream(t)
             \/ StoreAnswerOf(t) \/ StoreRouted(t) \/ StoreWorkflowAnswer(t) \/ Break(t) \/ Leave(t)
      PROVE  VotesInv'
  <2>1. UNCHANGED voteVars
    BY <1>4 DEF LoadConversation, SaveTurn, SaveQuestion, Block, RefuseModel, OpenStream, OpenRoute, Delta, CloseStream,
       FailStream, StoreAnswerOf, StoreRouted, StoreWorkflowAnswer, Break, Leave, NoRowChange
  <2> QED
    BY <1>1, <2>1
<1>5. CASE UNCHANGED chatVars
  BY <1>1, <1>5 DEF chatVars
<1> QED
  BY <1>2, <1>3, <1>4, <1>5 DEF ChatNext

-----------------------------------------------------------------------------
\* Turn by turn the sums of the votes are the sum of the reverses and the votes that stand.
LEMMA SumsBalance ==
  ASSUME NEW up, NEW down, NEW reverse, ChatTypeOK, \A t \in CtTurns : VoteCounted(t),
         Sums(up, "up"), Sums(down, "down"), Sums(reverse, "reverse")
  PROVE  /\ up[CtTurns] \in Nat /\ down[CtTurns] \in Nat /\ reverse[CtTurns] \in Nat
         /\ up[CtTurns] + down[CtTurns] = reverse[CtTurns] + Cardinality({t \in CtTurns : Voted(t)})
<1> DEFINE Votes(S) == {t \in S : Voted(t)}
           Even(S) == /\ up[S] \in Nat /\ down[S] \in Nat /\ reverse[S] \in Nat /\ Cardinality(Votes(S)) \in Nat
                      /\ up[S] + down[S] = reverse[S] + Cardinality(Votes(S))
           Bad == {S \in SUBSET CtTurns : ~Even(S)}
           Sizes == {Cardinality(S) : S \in Bad}
<1>1. ASSUME Bad # {} PROVE FALSE
  <2>1. \A S \in Bad : Cardinality(S) \in Nat
    BY FS_Subset, FS_CardinalityType, ChatAssumption
  <2>2. Sizes \in SUBSET Nat /\ Sizes # {}
    BY <1>1, <2>1
  <2>3. PICK m \in Sizes : \A k \in Sizes : m <= k
    BY <2>2, LeastExists
  <2>4. PICK S \in Bad : m = Cardinality(S)
    BY <2>3
  <2>5. CASE S = {}
    <3>1. Votes(S) = {} /\ up[S] = 0 /\ down[S] = 0 /\ reverse[S] = 0
      BY <2>5 DEF Sums
    <3>2. Cardinality(Votes(S)) = 0
      BY <3>1, FS_EmptySet
    <3>3. Even(S)
      BY <3>1, <3>2
    <3> QED
      BY <2>4, <3>3
  <2>6. CASE S # {}
    <3> DEFINE t == CHOOSE x \in S : TRUE
               R == S \ {t}
    <3>1. t \in S /\ R \in SUBSET CtTurns /\ Cardinality(S) \in Nat /\ Cardinality(R) \in Nat /\ Cardinality(R) = Cardinality(S) - 1
      BY <2>6, FewerTurns
    <3>2. Even(R)
      <4>1. R \notin Bad
        <5> SUFFICES ASSUME R \in Bad PROVE FALSE
          OBVIOUS
        <5>1. m <= Cardinality(R)
          BY <2>3
        <5> QED
          BY <2>4, <3>1, <5>1
      <4> QED
        BY <3>1, <4>1
    <3>3. up[S] = ctEvents[t].up + up[R] /\ down[S] = ctEvents[t].down + down[R] /\ reverse[S] = ctEvents[t].reverse + reverse[R]
      BY <2>6 DEF Sums
    <3>4. /\ ctEvents[t].up \in Nat /\ ctEvents[t].down \in Nat /\ ctEvents[t].reverse \in Nat
          /\ ctEvents[t].up + ctEvents[t].down = ctEvents[t].reverse + (IF Voted(t) THEN 1 ELSE 0)
      <4>1. t \in CtTurns
        BY <3>1
      <4> HIDE DEF t
      <4> QED
        BY <4>1 DEF ChatTypeOK, VoteCounted
    <3>5. Cardinality(Votes(S)) = Cardinality(Votes(R)) + (IF Voted(t) THEN 1 ELSE 0)
      <4>1. IsFiniteSet(Votes(R)) /\ Cardinality(Votes(R)) \in Nat
        BY <3>1, FS_Subset, FS_CardinalityType, ChatAssumption
      <4>2. CASE Voted(t)
        <5>1. Votes(S) = Votes(R) \cup {t} /\ t \notin Votes(R)
          BY <3>1, <4>2
        <5> HIDE DEF Votes, R, t
        <5> QED
          BY <4>1, <4>2, <5>1, FS_AddElement
      <4>3. CASE ~Voted(t)
        <5>1. Votes(S) = Votes(R)
          BY <3>1, <4>3
        <5> HIDE DEF Votes, R, t
        <5> QED
          BY <4>1, <4>3, <5>1
      <4> QED
        BY <4>2, <4>3
    <3>6. Even(S)
      <4> HIDE DEF Votes, R, t
      <4> QED
        BY <3>2, <3>3, <3>4, <3>5
    <3> QED
      BY <2>4, <3>6
  <2> QED
    BY <2>5, <2>6
<1>2. Even(CtTurns)
  BY <1>1
<1> QED
  BY <1>2

\* For any number of turns and of feedbacks set on them, one after another on each: the
\* votes that the rebuild of a chunk's scores counts are the votes that stand, though a
\* reverse does not say what it reverses.
THEOREM RebuildCountsVotes == ChatSpec => []VotesNet
<1>1. ASSUME ChatTypeOK, VotesInv, ~ctMixed
      PROVE  Rebuilt.up + Rebuilt.down = Cardinality({t \in CtTurns : ctVote[t] \in {"up", "down"}})
  <2> DEFINE U == EventSum("up")
             D == EventSum("down")
             R == EventSum("reverse")
             n == Cardinality({t \in CtTurns : Voted(t)})
  <2>1. U \in Nat /\ D \in Nat /\ R \in Nat /\ U + D = R + n
    <3>1. PICK up : U = up[CtTurns] /\ Sums(up, "up")
      BY EventSumIs
    <3>2. PICK down : D = down[CtTurns] /\ Sums(down, "down")
      BY EventSumIs
    <3>3. PICK reverse : R = reverse[CtTurns] /\ Sums(reverse, "reverse")
      BY EventSumIs
    <3>4. \A t \in CtTurns : VoteCounted(t)
      BY <1>1 DEF VotesInv
    <3>5. /\ up[CtTurns] \in Nat /\ down[CtTurns] \in Nat /\ reverse[CtTurns] \in Nat
          /\ up[CtTurns] + down[CtTurns] = reverse[CtTurns] + n
      BY <1>1, <3>1, <3>2, <3>3, <3>4, SumsBalance
    <3> QED
      BY <3>1, <3>2, <3>3, <3>5
  <2>2. n \in Nat
    BY FS_Subset, FS_CardinalityType, ChatAssumption
  <2> DEFINE cancel == IF R < U + D THEN R ELSE U + D
             taken == IF cancel < U THEN cancel ELSE U
  <2>3. Rebuilt = [up |-> U - taken, down |-> D - (cancel - taken)]
    BY DEF Rebuilt
  <2> HIDE DEF U, D, R, n
  <2>4. cancel = R
    BY <2>1, <2>2
  <2>5. (U - taken) + (D - (cancel - taken)) = n
    BY <2>1, <2>2, <2>4
  <2> HIDE DEF taken, cancel
  <2>6. Rebuilt.up + Rebuilt.down = n
    BY <2>3, <2>5
  <2> QED
    BY <2>6 DEF n, Voted
<1>2. ChatTypeOK /\ VotesInv => VotesNet
  BY <1>1 DEF VotesNet
<1>3. ChatInv => ChatTypeOK
  BY DEF ChatInv
<1> QED
  BY <1>2, <1>3, ChatStart, ChatStep, VotesStart, VotesStep, PTL DEF ChatSpec

-----------------------------------------------------------------------------
(****************************************************************************
 Orchestrator: a route is explained by what is recorded.
 ****************************************************************************)

RuleRow   == [ver : Int, prio : Nat, active : BOOLEAN, match : Matches, policy : Policies]
RuleEntry == [rule : OcRules, row : RuleRow]
RouteRecord == [pc : {"idle", "selected", "trying", "default", "done"}, list : Seq(RuleEntry),
                tried : Seq(RuleEntry), skip : SUBSET OcRules]
EditRecord  == [pc : {"idle", "loaded", "flushed"}, rule : OcRules, loaded : RuleRow, new : RuleRow]

OrchShape ==
  /\ ocRow \in [OcRules -> RuleRow] /\ ocSnap \in [OcRules -> SUBSET RuleRow]
  /\ ocEdit \in [OcEdits -> EditRecord]
  /\ ocKnown \in [OcRules -> SUBSET (BOOLEAN \X Matches \X Policies)]
  /\ ocCache \in Seq(RuleEntry) /\ ocRoute \in RouteRecord

\* Every version of a rule that is there was recorded, and so were its settings.
VersionsRecorded ==
  /\ \A r \in Live : /\ \A v \in 1..ocRow[r].ver : \E s \in ocSnap[r] : s.ver = v
                     /\ Setting(ocRow[r]) \in ocKnown[r]
  /\ \A r \in OcRules : ocRow[r].ver = 0 => ocKnown[r] = {}

Versioned(e) == ocEdit[e].new.ver # ocEdit[e].loaded.ver

\* What a request loaded is what the row still is, unless a later version is recorded; it
\* will write the next version, or a priority alone.
EditsLoaded ==
  \A e \in OcEdits : ocEdit[e].pc # "idle" =>
    LET t == ocEdit[e]
        row == ocRow[t.rule] IN
    /\ row.ver # 0 /\ t.loaded.ver > 0 /\ (t.rule \in Live => t.loaded.ver <= row.ver)
    /\ t.loaded.ver = row.ver => Setting(t.loaded) = Setting(row)
    /\ IF Versioned(e) THEN t.new.ver = t.loaded.ver + 1 ELSE Setting(t.new) = Setting(t.loaded)

\* Of one rule at most one transaction has written the row, and its version is a new one.
FlushesExclusive ==
  \A e \in OcEdits : ocEdit[e].pc = "flushed" =>
    /\ ocEdit[e].rule \in Live /\ (Versioned(e) => ~VersionUsed(e))
    /\ \A o \in OcEdits : ocEdit[o].pc = "flushed" /\ ocEdit[o].rule = ocEdit[e].rule => o = e

Documented(list) == \A i \in 1..Len(list) : Setting(list[i].row) \in ocKnown[list[i].rule]

\* The lists that wait in the cache or in the route hold recorded settings.
ListsRecorded == (ocCache # NoList => Documented(ocCache)) /\ Documented(ocRoute.list)

\* The route skips what it tried, and it goes on only behind a rule that hands on.
RouteHandsOn ==
  LET tried == ocRoute.tried IN
  /\ \A i \in 1..Len(tried) : tried[i].rule \in ocRoute.skip
  /\ \A i, j \in 1..Len(tried) : i < j => tried[i].rule # tried[j].rule
  /\ \A i \in 1..Len(tried) : i < Len(tried) \/ ocRoute.pc = "trying" => tried[i].row.policy = "fallback_next"
  /\ ocRoute.pc \in {"idle", "selected"} => tried = <<>>

\* Versions and attempts are counted.
OrchBounds ==
  /\ ocOps \in 0..OcMaxOps
  /\ \A r \in OcRules : /\ ocRow[r].ver \in -1..(ocOps + 1)
                        /\ \A s \in ocSnap[r] : s.ver > 0
  /\ \A e \in OcEdits : ocEdit[e].pc # "idle" => ocEdit[e].new.ver \in 1..(ocOps + 1)
  /\ Len(ocRoute.tried) <= OcMaxAttempts /\ (ocRoute.pc = "trying" => Len(ocRoute.tried) < OcMaxAttempts)

OrchInv == OrchBounds /\ OrchShape /\ VersionsRecorded /\ EditsLoaded /\ FlushesExclusive /\ ListsRecorded /\ RouteHandsOn

-----------------------------------------------------------------------------
\* A finite set of things with a number has one with the largest: by the smallest size of
\* a set that has none.
LEMMA LargestExists ==
  ASSUME NEW T, IsFiniteSet(T), T # {}, NEW f \in [T -> Int]
  PROVE  \E r \in T : \A q \in T : f[r] >= f[q]
<1> DEFINE Good(S) == S # {} => \E r \in S : \A q \in S : f[r] >= f[q]
           Sizes == {n \in Nat : \E S \in SUBSET T : Cardinality(S) = n /\ ~Good(S)}
<1>1. SUFFICES ASSUME NEW S \in SUBSET T, ~Good(S) PROVE FALSE
  OBVIOUS
<1>2. Cardinality(S) \in Sizes
  BY <1>1, FS_Subset, FS_CardinalityType
<1>3. PICK n \in Sizes : \A m \in Sizes : n <= m
  BY <1>2, LeastExists
<1>4. PICK U \in SUBSET T : Cardinality(U) = n /\ ~Good(U)
  BY <1>3
<1>5. PICK x \in U : TRUE
  BY <1>4
<1>6. IsFiniteSet(U) /\ IsFiniteSet(U \ {x}) /\ Cardinality(U \ {x}) = n - 1 /\ n - 1 \in Nat
  <2>1. IsFiniteSet(U)
    BY FS_Subset
  <2>2. IsFiniteSet(U \ {x}) /\ Cardinality(U \ {x}) = Cardinality(U) - 1
    BY <2>1, <1>5, FS_RemoveElement
  <2> QED
    BY <1>4, <2>1, <2>2, FS_CardinalityType
<1>7. Good(U \ {x})
  <2>1. n - 1 \notin Sizes
    BY <1>3
  <2> QED
    BY <1>6, <2>1
<1>8. CASE U \ {x} = {}
  BY <1>4, <1>5, <1>8
<1>9. CASE U \ {x} # {}
  <2>1. PICK r \in U \ {x} : \A q \in U \ {x} : f[r] >= f[q]
    BY <1>7, <1>9
  <2>2. \A q \in U : f[q] \in Int
    OBVIOUS
  <2> QED
    BY <1>4, <1>5, <2>1, <2>2
<1> QED
  BY <1>8, <1>9

\* A listing holds live rules, as they are.
LEMMA ListingShape ==
  ASSUME OrchShape, NEW list \in Listings
  PROVE  /\ list \in Seq(RuleEntry)
         /\ \A i \in 1..Len(list) : list[i].rule \in Live /\ list[i].row = ocRow[list[i].rule]
<1>1. IsFiniteSet(Live) /\ Live \subseteq OcRules
  BY OrchestratorAssumption, FS_Subset DEF Live
<1>2. Cardinality(Live) \in Nat
  BY <1>1, FS_CardinalityType
<1>3. PICK n \in 0..Cardinality(Live) : list \in [1..n -> {[rule |-> r, row |-> ocRow[r]] : r \in Live}]
  BY DEF Listings
<1>4. n \in Nat /\ Len(list) = n
  BY <1>2, <1>3
<1>5. {[rule |-> r, row |-> ocRow[r]] : r \in Live} \subseteq RuleEntry
  BY <1>1 DEF OrchShape, RuleEntry
<1>6. \A i \in 1..n : \E r \in Live : list[i] = [rule |-> r, row |-> ocRow[r]]
  BY <1>3
<1> QED
  BY <1>3, <1>4, <1>5, <1>6

\* The first match is none or one of the list.
LEMMA FirstMatchOfList ==
  ASSUME NEW list \in Seq(RuleEntry), NEW skip, NEW said \in BOOLEAN
  PROVE  /\ FirstMatch(list, skip, said) \in 0..Len(list)
         /\ FirstMatch(list, skip, said) # 0 => list[FirstMatch(list, skip, said)].rule \notin skip
<1> DEFINE ok == {i \in 1..Len(list) : /\ list[i].rule \notin skip
                                       /\ list[i].row.match = "hit" \/ (list[i].row.match = "llm" /\ said)}
<1>1. ok \in SUBSET Nat /\ Len(list) \in Nat
  OBVIOUS
<1>2. CASE ok = {}
  BY <1>1, <1>2 DEF FirstMatch
<1>3. CASE ok # {}
  <2>1. \E i \in ok : \A j \in ok : i <= j
    BY <1>1, <1>3, LeastExists
  <2>2. FirstMatch(list, skip, said) \in ok
    BY <1>3, <2>1 DEF FirstMatch
  <2> QED
    BY <1>1, <2>2
<1> QED
  BY <1>2, <1>3

\* What a commit makes of a row: only changed columns are written.
LEMMA WrittenRow ==
  ASSUME NEW cur \in RuleRow, NEW t \in EditRecord
  PROVE  LET w == Written(cur, t) IN
         /\ w \in RuleRow
         /\ w.ver = IF t.new.ver # t.loaded.ver THEN t.new.ver ELSE cur.ver
         /\ Setting(t.loaded) = Setting(cur) => Setting(w) = Setting(t.new)
         /\ Setting(t.loaded) = Setting(t.new) => Setting(w) = Setting(cur)
<1> DEFINE w == Written(cur, t)
<1>1. w = [ver    |-> IF t.new.ver # t.loaded.ver THEN t.new.ver ELSE cur.ver,
           prio   |-> IF t.new.prio # t.loaded.prio THEN t.new.prio ELSE cur.prio,
           active |-> IF t.new.active # t.loaded.active THEN t.new.active ELSE cur.active,
           match  |-> IF t.new.match # t.loaded.match THEN t.new.match ELSE cur.match,
           policy |-> IF t.new.policy # t.loaded.policy THEN t.new.policy ELSE cur.policy]
  BY DEF Written, RuleRow, EditRecord
<1> QED
  BY <1>1 DEF RuleRow, EditRecord, Setting

\* No list is a list; settings are what a version records.
LEMMA NoListShape == NoList \in Seq(RuleEntry) /\ DeadRow \in RuleRow /\ NoRow \in RuleRow
<1>1. DeadRow \in RuleRow /\ NoRow \in RuleRow
  <2>1. NoRow \in RuleRow
    BY DEF NoRow, RuleRow, Matches, Policies
  <2> QED
    BY <2>1 DEF DeadRow, RuleRow
<1>2. (CHOOSE r \in OcRules : TRUE) \in OcRules
  BY OrchestratorAssumption
<1>3. [rule |-> CHOOSE r \in OcRules : TRUE, row |-> DeadRow] \in RuleEntry
  BY <1>1, <1>2 DEF RuleEntry
<1> QED
  BY <1>1, <1>3 DEF NoList

\* What the dispatch reads of a rule.
LEMMA SettingShape == \A row \in RuleRow : Setting(row) \in BOOLEAN \X Matches \X Policies
BY DEF Setting, RuleRow

\* At first each rule has its first version.
LEMMA OrchStart == OrchInit => OrchInv
<1> SUFFICES ASSUME OrchInit PROVE OrchInv
  OBVIOUS
<1>1. PICK match \in {"hit", "llm"} :
        ocRow = [r \in OcRules |-> IF \E i \in 1..Len(OcFirst) : OcFirst[i] = r
                                  THEN Created(OcStep * CHOOSE i \in 1..Len(OcFirst) : OcFirst[i] = r, match, "fallback_next")
                                  ELSE NoRow]
  BY DEF OrchInit
<1>2. ocRow \in [OcRules -> RuleRow]
  <2>1. ASSUME NEW r \in OcRules, \E i \in 1..Len(OcFirst) : OcFirst[i] = r
        PROVE  OcStep * (CHOOSE i \in 1..Len(OcFirst) : OcFirst[i] = r) \in Nat
    <3>1. (CHOOSE i \in 1..Len(OcFirst) : OcFirst[i] = r) \in Nat
      BY <2>1
    <3> HIDE <2>1
    <3>2. \A a, b \in Nat : a * b \in Nat
      OBVIOUS
    <3> QED
      BY <3>1, <3>2, OrchestratorAssumption
  <2> QED
    BY <1>1, <2>1 DEF Created, NoRow, RuleRow, Matches, Policies
<1>3. \A r \in OcRules : ocRow[r] = NoRow \/ ocRow[r].ver = 1
  BY <1>1 DEF Created
<1>4. ocEdit \in [OcEdits -> EditRecord] /\ \A e \in OcEdits : ocEdit[e].pc = "idle"
  BY OrchestratorAssumption DEF OrchInit, IdleEdit, EditRecord, NoRow, RuleRow, Matches, Policies
<1>5. ocCache = NoList /\ NoList \in Seq(RuleEntry)
  BY NoListShape DEF OrchInit
<1>6. ocRoute = [pc |-> "idle", list |-> <<>>, tried |-> <<>>, skip |-> {}] /\ ocRoute \in RouteRecord
  BY DEF OrchInit, RouteRecord
<1>7. ocSnap = [r \in OcRules |-> IF ocRow[r] = NoRow THEN {} ELSE {ocRow[r]}] /\ ocSnap \in [OcRules -> SUBSET RuleRow]
  BY <1>2 DEF OrchInit
<1>8. ocKnown = [r \in OcRules |-> {Setting(s) : s \in ocSnap[r]}]
      /\ ocKnown \in [OcRules -> SUBSET (BOOLEAN \X Matches \X Policies)]
  <2>1. \A r \in OcRules : {Setting(s) : s \in ocSnap[r]} \subseteq BOOLEAN \X Matches \X Policies
    BY <1>7, SettingShape
  <2> QED
    BY <2>1 DEF OrchInit
<1>9. OrchShape
  BY <1>2, <1>4, <1>5, <1>6, <1>7, <1>8 DEF OrchShape
<1>10. VersionsRecorded
  <2>3. \A r \in OcRules : ocRow[r].ver = 0 => ocKnown[r] = {}
    BY <1>3, <1>7, <1>8
  <2> SUFFICES ASSUME NEW r \in Live
               PROVE  ocRow[r].ver = 1 /\ ocSnap[r] = {ocRow[r]} /\ ocKnown[r] = {Setting(ocRow[r])}
    BY <2>3 DEF VersionsRecorded
  <2>1. r \in OcRules /\ ocRow[r] # NoRow
    BY DEF Live, NoRow
  <2>2. ocSnap[r] = {ocRow[r]}
    BY <1>7, <2>1
  <2> QED
    BY <1>3, <1>8, <2>1, <2>2
<1>11. OrchBounds
  <2>1. ocOps = 0 /\ Len(ocRoute.tried) = 0 /\ ocRoute.pc = "idle"
    BY <1>6 DEF OrchInit
  <2>2. \A r \in OcRules : ocRow[r].ver \in 0..1 /\ (ocRow[r] = NoRow \/ ocRow[r].ver = 1)
    BY <1>3 DEF NoRow
  <2>3. \A r \in OcRules : \A s \in ocSnap[r] : s = ocRow[r] /\ ocRow[r] # NoRow
    BY <1>7
  <2> QED
    BY <1>4, <2>1, <2>2, <2>3, OrchestratorAssumption DEF OrchBounds
<1> QED
  BY <1>4, <1>5, <1>6, <1>9, <1>10, <1>11
     DEF OrchInv, EditsLoaded, FlushesExclusive, ListsRecorded, Documented, RouteHandsOn

\* A new rule: it has one version, and no request has loaded it.
LEMMA CreateRuleStep ==
  ASSUME OrchInv, NEW r \in OcRules, NEW match \in Matches, NEW policy \in Policies, CreateRule(r, match, policy)
  PROVE  OrchInv'
<1> DEFINE prio == (IF Live = {} THEN 0 ELSE ocRow[Highest(Live)].prio) + OcStep
           row  == Created(prio, match, policy)
<1>1. IsFiniteSet(Live) /\ Live \subseteq OcRules
  BY OrchestratorAssumption, FS_Subset DEF Live
<1>2. prio \in Nat
  <2>1. CASE Live = {}
    BY <2>1, OrchestratorAssumption
  <2>2. CASE Live # {}
    <3> DEFINE f == [q \in Live |-> ocRow[q].prio]
    <3>1. f \in [Live -> Int]
      BY <1>1 DEF OrchInv, OrchShape, RuleRow
    <3>2. \E h \in Live : \A q \in Live : f[h] >= f[q]
      BY <1>1, <2>2, <3>1, LargestExists
    <3>3. \E h \in Live : \A q \in Live : ocRow[h].prio >= ocRow[q].prio
      BY <3>2
    <3>4. Highest(Live) \in Live
      BY <3>3 DEF Highest
    <3> QED
      BY <1>1, <3>4, OrchestratorAssumption DEF OrchInv, OrchShape, RuleRow
  <2> QED
    BY <2>1, <2>2
<1> HIDE DEF prio
<1>3. /\ row \in RuleRow /\ row.ver = 1 /\ ocRow[r] = NoRow
      /\ ocRow' = [ocRow EXCEPT ![r] = row] /\ ocSnap' = [ocSnap EXCEPT ![r] = {row}]
      /\ ocKnown' = [ocKnown EXCEPT ![r] = {Setting(row)}]
      /\ ocCache' = NoList /\ ocEdit' = ocEdit /\ ocRoute' = ocRoute
  BY <1>2 DEF CreateRule, prio, Created, RuleRow
<1> HIDE DEF row
<1>4. OrchShape'
  BY <1>3, NoListShape, SettingShape DEF OrchInv, OrchShape
<1>5. Live' = Live \cup {r} /\ r \notin Live
  BY <1>3 DEF Live, NoRow, OrchInv, OrchShape
<1>6. VersionsRecorded'
  BY <1>1, <1>3, <1>5 DEF OrchInv, OrchShape, VersionsRecorded
<1>7. \A e \in OcEdits : ocEdit[e].pc # "idle" => ocEdit[e].rule # r /\ ocRow'[ocEdit[e].rule] = ocRow[ocEdit[e].rule]
                                                 /\ ocSnap'[ocEdit[e].rule] = ocSnap[ocEdit[e].rule]
  BY <1>3 DEF OrchInv, OrchShape, EditsLoaded, EditRecord, NoRow
<1>8. EditsLoaded'
  BY <1>3, <1>5, <1>7 DEF OrchInv, EditsLoaded, Versioned
<1>9. FlushesExclusive'
  BY <1>3, <1>5, <1>7 DEF OrchInv, FlushesExclusive, Versioned, VersionUsed
<1>10. ListsRecorded'
  <2>1. ocKnown[r] = {} /\ \A q \in OcRules : ocKnown[q] \subseteq ocKnown'[q]
    BY <1>3 DEF OrchInv, OrchShape, VersionsRecorded, NoRow
  <2>2. ASSUME NEW list \in Seq(RuleEntry), Documented(list) PROVE Documented(list)'
    <3>1. \A i \in 1..Len(list) : list[i].rule \in OcRules
      <4>1. \A i \in 1..Len(list) : list[i] \in RuleEntry
        OBVIOUS
      <4> QED
        BY <4>1 DEF RuleEntry
    <3> QED
      BY <2>1, <2>2, <3>1 DEF Documented
  <2> QED
    BY <1>3, <2>2 DEF OrchInv, OrchShape, ListsRecorded, RouteRecord
<1>11. RouteHandsOn'
  BY <1>3 DEF OrchInv, RouteHandsOn
<1>12. OrchBounds'
  <2>1. ocOps' = ocOps + 1 /\ ocOps < OcMaxOps
    BY DEF CreateRule, OcOp
  <2>2. /\ ocRow' = [ocRow EXCEPT ![r] = row] /\ ocRow \in [OcRules -> RuleRow]
        /\ ocSnap' = [ocSnap EXCEPT ![r] = {row}] /\ ocSnap \in [OcRules -> SUBSET RuleRow]
    BY <1>3 DEF OrchInv, OrchShape
  <2>3. \A q \in OcRules : ocRow'[q].ver \in -1..(ocOps + 2) /\ \A s \in ocSnap'[q] : s.ver > 0
    <3>1. ASSUME NEW q \in OcRules, q = r PROVE ocRow'[q].ver \in -1..(ocOps + 2) /\ \A s \in ocSnap'[q] : s.ver > 0
      BY <1>3, <2>2, <3>1, OrchestratorAssumption DEF OrchInv, OrchBounds
    <3>2. ASSUME NEW q \in OcRules, q # r PROVE ocRow'[q].ver \in -1..(ocOps + 2) /\ \A s \in ocSnap'[q] : s.ver > 0
      BY <2>2, <3>2, OrchestratorAssumption DEF OrchInv, OrchBounds
    <3> QED
      BY <3>1, <3>2
  <2>4. \A e \in OcEdits : ocEdit[e].pc # "idle" => ocEdit[e].new.ver \in 1..(ocOps + 2)
    BY OrchestratorAssumption DEF OrchInv, OrchBounds
  <2> QED
    BY <1>3, <2>1, <2>3, <2>4, OrchestratorAssumption DEF OrchInv, OrchBounds
<1> QED
  BY <1>4, <1>6, <1>8, <1>9, <1>10, <1>11, <1>12 DEF OrchInv

\* A request loads a rule; what it will write is the next version, or a priority.
LEMMA LoadStep ==
  ASSUME OrchInv, NEW e \in OcEdits, NEW r \in OcRules, NEW new \in RuleRow, Load(e, r, new),
         new.ver = ocRow[r].ver + 1 \/ (new.ver = ocRow[r].ver /\ Setting(new) = Setting(ocRow[r]))
  PROVE  OrchInv'
<1> DEFINE t == [pc |-> "loaded", rule |-> r, loaded |-> ocRow[r], new |-> new]
<1>1. /\ t \in EditRecord /\ t.pc = "loaded" /\ t.rule = r /\ t.loaded = ocRow[r] /\ t.new = new
      /\ r \in Live /\ ocRow[r].ver > 0 /\ ocRow[r] \in RuleRow
  BY DEF Load, Live, EditRecord, OrchInv, OrchShape
<1> HIDE DEF t
<1>2. /\ ocEdit' = [ocEdit EXCEPT ![e] = t]
      /\ UNCHANGED <<ocRow, ocSnap, ocCache, ocRoute, ocKnown>> /\ Live' = Live
  BY DEF Load, t, Live
<1>3. OrchShape'
  BY <1>1, <1>2 DEF OrchInv, OrchShape
<1>4. ocEdit'[e] = t /\ \A o \in OcEdits \ {e} : ocEdit'[o] = ocEdit[o]
  BY <1>1, <1>2 DEF OrchInv, OrchShape
<1>5. EditsLoaded'
  <2> SUFFICES ASSUME NEW o \in OcEdits, ocEdit'[o].pc # "idle"
               PROVE  LET u == ocEdit'[o]
                          row == ocRow'[u.rule] IN
                      /\ row.ver # 0 /\ u.loaded.ver > 0 /\ (u.rule \in Live' => u.loaded.ver <= row.ver)
                      /\ u.loaded.ver = row.ver => Setting(u.loaded) = Setting(row)
                      /\ IF u.new.ver # u.loaded.ver THEN u.new.ver = u.loaded.ver + 1 ELSE Setting(u.new) = Setting(u.loaded)
    BY DEF EditsLoaded, Versioned
  <2>1. CASE o = e
    BY <1>1, <1>2, <1>4, <2>1 DEF RuleRow
  <2>2. CASE o # e
    BY <1>2, <1>4, <2>2 DEF OrchInv, EditsLoaded, Versioned
  <2> QED
    BY <2>1, <2>2
<1>6. FlushesExclusive'
  BY <1>1, <1>2, <1>4 DEF OrchInv, FlushesExclusive, Versioned, VersionUsed
<1>7. VersionsRecorded' /\ ListsRecorded' /\ RouteHandsOn'
  BY <1>2 DEF OrchInv, VersionsRecorded, ListsRecorded, Documented, RouteHandsOn
<1>8. OrchBounds'
  <2>1. ocOps' = ocOps + 1 /\ ocOps < OcMaxOps /\ ocOps \in Nat
    BY OrchestratorAssumption DEF Load, OcOp, OrchInv, OrchBounds
  <2>2. new.ver \in 1..(ocOps + 2)
    BY <1>1, <2>1 DEF OrchInv, OrchBounds
  <2>3. \A o \in OcEdits : ocEdit'[o].pc # "idle" => ocEdit'[o].new.ver \in 1..(ocOps + 2)
    BY <1>1, <1>4, <2>1, <2>2 DEF OrchInv, OrchBounds
  <2> QED
    BY <1>2, <2>1, <2>3, OrchestratorAssumption DEF OrchInv, OrchBounds
<1> QED
  BY <1>3, <1>5, <1>6, <1>7, <1>8 DEF OrchInv

\* One setting and the version of a row.
LEMMA NextVersionShape ==
  ASSUME NEW row \in RuleRow
  PROVE  /\ \A active \in BOOLEAN : /\ [row EXCEPT !.active = active, !.ver = @ + 1] \in RuleRow
                                    /\ [row EXCEPT !.active = active, !.ver = @ + 1].ver = row.ver + 1
         /\ \A match \in Matches : /\ [row EXCEPT !.match = match, !.ver = @ + 1] \in RuleRow
                                   /\ [row EXCEPT !.match = match, !.ver = @ + 1].ver = row.ver + 1
         /\ \A policy \in Policies : /\ [row EXCEPT !.policy = policy, !.ver = @ + 1] \in RuleRow
                                     /\ [row EXCEPT !.policy = policy, !.ver = @ + 1].ver = row.ver + 1
<1>1. /\ \A active \in BOOLEAN : [row EXCEPT !.active = active] \in RuleRow
      /\ \A match \in Matches : [row EXCEPT !.match = match] \in RuleRow
      /\ \A policy \in Policies : [row EXCEPT !.policy = policy] \in RuleRow
      /\ \A s \in RuleRow : [s EXCEPT !.ver = row.ver + 1] \in RuleRow
  BY DEF RuleRow
<1>2. ASSUME NEW active \in BOOLEAN
      PROVE  /\ [row EXCEPT !.active = active, !.ver = @ + 1] = [[row EXCEPT !.active = active] EXCEPT !.ver = row.ver + 1]
             /\ [row EXCEPT !.active = active, !.ver = @ + 1].ver = row.ver + 1
  BY DEF RuleRow
<1>3. ASSUME NEW match \in Matches
      PROVE  /\ [row EXCEPT !.match = match, !.ver = @ + 1] = [[row EXCEPT !.match = match] EXCEPT !.ver = row.ver + 1]
             /\ [row EXCEPT !.match = match, !.ver = @ + 1].ver = row.ver + 1
  BY DEF RuleRow
<1>4. ASSUME NEW policy \in Policies
      PROVE  /\ [row EXCEPT !.policy = policy, !.ver = @ + 1] = [[row EXCEPT !.policy = policy] EXCEPT !.ver = row.ver + 1]
             /\ [row EXCEPT !.policy = policy, !.ver = @ + 1].ver = row.ver + 1
  BY DEF RuleRow
<1> QED
  BY <1>1, <1>2, <1>3, <1>4

\* What the requests write: an update and a rollback the next version, a move a priority.
LEMMA EditStep ==
  ASSUME OrchInv, NEW e \in OcEdits, NEW r \in OcRules,
         UpdateRule(e, r) \/ RollbackRule(e, r) \/ \E after \in OcRules : MoveRule(e, r, after)
  PROVE  OrchInv'
<1>1. ocRow[r] \in RuleRow /\ ocSnap[r] \subseteq RuleRow
  BY DEF OrchInv, OrchShape
<1>2. CASE UpdateRule(e, r)
  <2>1. ASSUME NEW active \in BOOLEAN, Load(e, r, [ocRow[r] EXCEPT !.active = active, !.ver = @ + 1]) PROVE OrchInv'
    <3>1. /\ [ocRow[r] EXCEPT !.active = active, !.ver = @ + 1] \in RuleRow
          /\ [ocRow[r] EXCEPT !.active = active, !.ver = @ + 1].ver = ocRow[r].ver + 1
      BY <1>1, NextVersionShape
    <3> QED
      BY <2>1, <3>1, LoadStep
  <2>2. ASSUME NEW match \in Matches, Load(e, r, [ocRow[r] EXCEPT !.match = match, !.ver = @ + 1]) PROVE OrchInv'
    <3>1. /\ [ocRow[r] EXCEPT !.match = match, !.ver = @ + 1] \in RuleRow
          /\ [ocRow[r] EXCEPT !.match = match, !.ver = @ + 1].ver = ocRow[r].ver + 1
      BY <1>1, NextVersionShape
    <3> QED
      BY <2>2, <3>1, LoadStep
  <2>3. ASSUME NEW policy \in Policies, Load(e, r, [ocRow[r] EXCEPT !.policy = policy, !.ver = @ + 1]) PROVE OrchInv'
    <3>1. /\ [ocRow[r] EXCEPT !.policy = policy, !.ver = @ + 1] \in RuleRow
          /\ [ocRow[r] EXCEPT !.policy = policy, !.ver = @ + 1].ver = ocRow[r].ver + 1
      BY <1>1, NextVersionShape
    <3> QED
      BY <2>3, <3>1, LoadStep
  <2> QED
    BY <1>2, <2>1, <2>2, <2>3 DEF UpdateRule
<1>3. CASE RollbackRule(e, r)
  <2>1. PICK target \in ocSnap[r] : Load(e, r, [target EXCEPT !.ver = ocRow[r].ver + 1])
    BY <1>3 DEF RollbackRule
  <2>2. /\ [target EXCEPT !.ver = ocRow[r].ver + 1] \in RuleRow
        /\ [target EXCEPT !.ver = ocRow[r].ver + 1].ver = ocRow[r].ver + 1
    BY <1>1 DEF RuleRow
  <2> QED
    BY <2>1, <2>2, LoadStep
<1>4. ASSUME NEW after \in OcRules, MoveRule(e, r, after) PROVE OrchInv'
  <2>0. \A q \in OcRules : ocRow[q].prio \in Nat
    BY DEF OrchInv, OrchShape, RuleRow
  <2>1. ASSUME NEW S \in SUBSET Live, S # {} PROVE Lowest(S) \in OcRules
    <3> DEFINE f == [q \in S |-> 0 - ocRow[q].prio]
    <3>1. IsFiniteSet(S) /\ S \subseteq OcRules
      BY OrchestratorAssumption, FS_Subset DEF Live
    <3>2. f \in [S -> Int]
      BY <2>0, <3>1
    <3>3. \E h \in S : \A q \in S : f[h] >= f[q]
      BY <2>1, <3>1, <3>2, LargestExists
    <3>4. \E h \in S : \A q \in S : ocRow[h].prio <= ocRow[q].prio
      BY <2>0, <3>1, <3>3
    <3> QED
      BY <3>1, <3>4 DEF Lowest
  <2>2. PICK twice \in IF after = r THEN {TopPriority(Live \ {r})} ELSE PriorityBehind(Live \ {r}, after) :
          /\ after \in Live /\ Load(e, r, [ocRow[r] EXCEPT !.prio = twice \div 2])
    BY <1>4 DEF MoveRule
  <2>3. twice \in Nat
    <3>1. CASE after = r
      <4>1. twice = TopPriority(Live \ {r}) /\ OcStep \in Nat
        BY <2>2, <3>1, OrchestratorAssumption
      <4>2. CASE Live \ {r} = {}
        BY <4>1, <4>2 DEF TopPriority
      <4>3. CASE Live \ {r} # {}
        BY <2>0, <2>1, <4>1, <4>3 DEF TopPriority
      <4> QED
        BY <4>2, <4>3
    <3>2. CASE after # r
      <4> DEFINE others == Live \ {r}
                 higher == {q \in others : ocRow[q].prio > ocRow[after].prio}
                 last   == IF higher = {} THEN 2 * (ocRow[after].prio + OcStep) ELSE ocRow[after].prio + ocRow[Lowest(higher)].prio
      <4>1. last \in Nat
        <5>1. ocRow[after].prio \in Nat /\ OcStep \in Nat
          BY <2>0, OrchestratorAssumption
        <5>2. higher \in SUBSET Live
          OBVIOUS
        <5> HIDE DEF higher
        <5>3. higher # {} => ocRow[Lowest(higher)].prio \in Nat
          BY <2>0, <2>1, <5>2
        <5> QED
          BY <5>1, <5>3
      <4>2. twice = last \/ \E q \in others : twice = 2 * ocRow[q].prio
        BY <2>2, <3>2 DEF PriorityBehind
      <4> QED
        BY <2>0, <4>1, <4>2 DEF Live
    <3> QED
      BY <3>1, <3>2
  <2>4. /\ [ocRow[r] EXCEPT !.prio = twice \div 2] \in RuleRow
        /\ [ocRow[r] EXCEPT !.prio = twice \div 2].ver = ocRow[r].ver
        /\ Setting([ocRow[r] EXCEPT !.prio = twice \div 2]) = Setting(ocRow[r])
    BY <1>1, <2>3 DEF RuleRow, Setting
  <2> QED
    BY <2>2, <2>4, LoadStep
<1> QED
  BY <1>2, <1>3, <1>4

\* A request that rests.
LEMMA IdleEditShape == IdleEdit \in EditRecord /\ IdleEdit.pc = "idle"
<1>1. (CHOOSE r \in OcRules : TRUE) \in OcRules
  BY OrchestratorAssumption
<1> QED
  BY <1>1, NoListShape DEF IdleEdit, EditRecord

\* A flush: it is refused when the version is taken or the row is gone.
LEMMA FlushStep ==
  ASSUME OrchInv, NEW e \in OcEdits, FlushEdit(e)
  PROVE  OrchInv'
<1>1. ocEdit[e].pc = "loaded" /\ RowFree(e) /\ UNCHANGED <<ocRow, ocSnap, ocRoute, ocKnown, ocOps>> /\ Live' = Live
  BY DEF FlushEdit, Live
<1>2. CASE ocEdit' = [ocEdit EXCEPT ![e] = IdleEdit] /\ ocCache' = ocCache
  <2>1. ocEdit'[e].pc = "idle" /\ \A o \in OcEdits \ {e} : ocEdit'[o] = ocEdit[o]
    BY <1>2, IdleEditShape DEF OrchInv, OrchShape
  <2>2. OrchShape'
    BY <1>1, <1>2, IdleEditShape DEF OrchInv, OrchShape
  <2>3. EditsLoaded' /\ FlushesExclusive'
    BY <1>1, <2>1 DEF OrchInv, EditsLoaded, FlushesExclusive, Versioned, VersionUsed
  <2>4. OrchBounds' /\ VersionsRecorded' /\ ListsRecorded' /\ RouteHandsOn'
    BY <1>1, <1>2, <2>1 DEF OrchInv, OrchBounds, VersionsRecorded, ListsRecorded, Documented, RouteHandsOn
  <2> QED
    BY <2>2, <2>3, <2>4 DEF OrchInv
<1>3. CASE /\ ocEdit' = [ocEdit EXCEPT ![e].pc = "flushed"] /\ ocCache' = NoList
           /\ ~(ocRow[ocEdit[e].rule].ver < 1 \/ (ocEdit[e].new.ver # ocEdit[e].loaded.ver /\ VersionUsed(e)))
  <2>1. ocEdit[e] \in EditRecord /\ ocEdit'[e] = [ocEdit[e] EXCEPT !.pc = "flushed"]
        /\ \A o \in OcEdits \ {e} : ocEdit'[o] = ocEdit[o]
    BY <1>3 DEF OrchInv, OrchShape
  <2>2. ocEdit'[e] \in EditRecord /\ \A o \in OcEdits : /\ ocEdit'[o].rule = ocEdit[o].rule
           /\ ocEdit'[o].new = ocEdit[o].new /\ ocEdit'[o].loaded = ocEdit[o].loaded
           /\ (ocEdit'[o].pc # "idle" => ocEdit[o].pc # "idle")
    BY <1>1, <2>1 DEF EditRecord
  <2>3. OrchShape'
    BY <1>1, <1>3, <2>2, NoListShape DEF OrchInv, OrchShape
  <2>4. EditsLoaded'
    BY <1>1, <2>2 DEF OrchInv, EditsLoaded, Versioned
  <2>5. FlushesExclusive'
    <3>1. ocEdit[e].rule \in Live /\ (Versioned(e) => ~VersionUsed(e))
      BY <1>1, <1>3, <2>1 DEF Live, Versioned, OrchInv, OrchShape, RuleRow, EditRecord
    <3>2. \A o \in OcEdits \ {e} : ocEdit[o].pc = "flushed" => ocEdit[o].rule # ocEdit[e].rule
      BY <1>1 DEF RowFree
    <3> QED
      BY <1>1, <2>1, <2>2, <3>1, <3>2 DEF OrchInv, FlushesExclusive, Versioned, VersionUsed
  <2>6. OrchBounds' /\ VersionsRecorded' /\ ListsRecorded' /\ RouteHandsOn'
    BY <1>1, <1>3, <2>2 DEF OrchInv, OrchBounds, VersionsRecorded, ListsRecorded, Documented, RouteHandsOn
  <2> QED
    BY <2>3, <2>4, <2>5, <2>6 DEF OrchInv
<1> QED
  BY <1>2, <1>3 DEF FlushEdit

\* A commit: the row is still what the request loaded, apart from its priority, when a
\* version is written; and its settings are those of the version.
LEMMA CommitStep ==
  ASSUME OrchInv, NEW e \in OcEdits, CommitEdit(e)
  PROVE  OrchInv'
<1> DEFINE t == ocEdit[e]
           r == t.rule
           cur == ocRow[r]
           w == Written(cur, t)
<1>1. t \in EditRecord /\ r \in OcRules /\ cur \in RuleRow /\ t.new \in RuleRow /\ t.loaded \in RuleRow
  BY DEF OrchInv, OrchShape, EditRecord
<1>2. /\ t.pc = "flushed" /\ ocEdit' = [ocEdit EXCEPT ![e] = IdleEdit]
      /\ ocRow' = [ocRow EXCEPT ![r] = w]
      /\ ocSnap'  = [ocSnap EXCEPT ![r] = IF Versioned(e) THEN ocSnap[r] \cup {t.new} ELSE ocSnap[r]]
      /\ ocKnown' = [ocKnown EXCEPT ![r] = IF Versioned(e) THEN ocKnown[r] \cup {Setting(t.new)} ELSE ocKnown[r]]
      /\ UNCHANGED <<ocCache, ocRoute, ocOps>>
  BY DEF CommitEdit, Versioned
<1>3. /\ w \in RuleRow /\ w.ver = IF Versioned(e) THEN t.new.ver ELSE cur.ver
      /\ Setting(t.loaded) = Setting(cur) => Setting(w) = Setting(t.new)
      /\ Setting(t.loaded) = Setting(t.new) => Setting(w) = Setting(cur)
  BY <1>1, WrittenRow DEF Versioned
<1>4. /\ r \in Live /\ cur.ver > 0 /\ (Versioned(e) => ~VersionUsed(e)) /\ t.loaded.ver > 0 /\ t.loaded.ver <= cur.ver
      /\ t.loaded.ver = cur.ver => Setting(t.loaded) = Setting(cur)
      /\ IF Versioned(e) THEN t.new.ver = t.loaded.ver + 1 ELSE Setting(t.new) = Setting(t.loaded)
  BY <1>2 DEF OrchInv, FlushesExclusive, EditsLoaded, Live
<1>5. Versioned(e) => t.loaded.ver = cur.ver
  <2> SUFFICES ASSUME Versioned(e), t.loaded.ver # cur.ver PROVE FALSE
    OBVIOUS
  <2>1. t.new.ver \in 1..cur.ver
    BY <1>1, <1>4 DEF RuleRow
  <2>2. \E s \in ocSnap[r] : s.ver = t.new.ver
    BY <1>4, <2>1 DEF OrchInv, VersionsRecorded
  <2> QED
    BY <1>4, <2>2 DEF VersionUsed
<1>6. /\ Versioned(e) => w.ver = cur.ver + 1 /\ Setting(w) = Setting(t.new)
      /\ ~Versioned(e) => w.ver = cur.ver /\ Setting(w) = Setting(cur)
  BY <1>3, <1>4, <1>5
<1>7. /\ \A o \in OcEdits \ {e} : ocEdit'[o] = ocEdit[o] /\ (ocEdit[o].pc = "flushed" => ocEdit[o].rule # r)
      /\ ocEdit'[e].pc = "idle"
  BY <1>1, <1>2, IdleEditShape DEF OrchInv, OrchShape, FlushesExclusive
<1>8. /\ ocRow'[r] = w /\ \A q \in OcRules \ {r} : ocRow'[q] = ocRow[q] /\ ocSnap'[q] = ocSnap[q] /\ ocKnown'[q] = ocKnown[q]
      /\ ocSnap'[r] = IF Versioned(e) THEN ocSnap[r] \cup {t.new} ELSE ocSnap[r]
      /\ ocKnown'[r] = IF Versioned(e) THEN ocKnown[r] \cup {Setting(t.new)} ELSE ocKnown[r]
  BY <1>1, <1>2 DEF OrchInv, OrchShape
<1> HIDE DEF w
<1>9. OrchShape'
  BY <1>1, <1>2, <1>3, IdleEditShape, SettingShape DEF OrchInv, OrchShape
<1>10. Live' = Live
  BY <1>1, <1>4, <1>6, <1>8 DEF Live, RuleRow
<1>11. VersionsRecorded'
  <2>1. \A v \in 1..w.ver : \E s \in ocSnap'[r] : s.ver = v
    <3>1. CASE Versioned(e)
      <4>1. t.new.ver = cur.ver + 1 /\ t.new \in ocSnap'[r] /\ ocSnap[r] \subseteq ocSnap'[r] /\ cur.ver \in Int
        BY <1>1, <1>4, <1>5, <1>8, <3>1 DEF RuleRow
      <4>2. \A v \in 1..(cur.ver + 1) : v \in 1..cur.ver \/ v = cur.ver + 1
        BY <4>1
      <4> QED
        BY <1>4, <1>6, <3>1, <4>1, <4>2 DEF OrchInv, VersionsRecorded
    <3>2. CASE ~Versioned(e)
      BY <1>4, <1>6, <1>8, <3>2 DEF OrchInv, VersionsRecorded
    <3> QED
      BY <3>1, <3>2
  <2>2. Setting(w) \in ocKnown'[r]
    BY <1>4, <1>6, <1>8 DEF OrchInv, VersionsRecorded
  <2>3. w.ver # 0
    BY <1>1, <1>4, <1>6 DEF RuleRow
  <2> QED
    BY <1>8, <1>10, <2>1, <2>2, <2>3 DEF OrchInv, VersionsRecorded, Live
<1>12. EditsLoaded'
  <2> SUFFICES ASSUME NEW o \in OcEdits, ocEdit'[o].pc # "idle"
               PROVE  LET u == ocEdit'[o]
                          row == ocRow'[u.rule] IN
                      /\ row.ver # 0 /\ u.loaded.ver > 0 /\ (u.rule \in Live' => u.loaded.ver <= row.ver)
                      /\ u.loaded.ver = row.ver => Setting(u.loaded) = Setting(row)
                      /\ IF u.new.ver # u.loaded.ver THEN u.new.ver = u.loaded.ver + 1 ELSE Setting(u.new) = Setting(u.loaded)
    BY DEF EditsLoaded, Versioned
  <2>1. o # e /\ ocEdit'[o] = ocEdit[o] /\ ocEdit[o] \in EditRecord /\ ocEdit[o].pc # "idle"
    BY <1>7 DEF OrchInv, OrchShape
  <2>2. CASE ocEdit[o].rule # r
    <3>1. ocRow'[ocEdit[o].rule] = ocRow[ocEdit[o].rule]
      BY <1>8, <2>1, <2>2 DEF EditRecord
    <3> QED
      BY <1>10, <2>1, <3>1 DEF OrchInv, EditsLoaded, Versioned
  <2>3. CASE ocEdit[o].rule = r
    <3>1. /\ ocEdit[o].loaded.ver > 0 /\ ocEdit[o].loaded.ver <= cur.ver /\ ocEdit[o].loaded.ver \in Int /\ cur.ver \in Int
          /\ ocEdit[o].loaded.ver = cur.ver => Setting(ocEdit[o].loaded) = Setting(cur)
          /\ IF ocEdit[o].new.ver # ocEdit[o].loaded.ver THEN ocEdit[o].new.ver = ocEdit[o].loaded.ver + 1
                                                          ELSE Setting(ocEdit[o].new) = Setting(ocEdit[o].loaded)
      BY <1>1, <1>4, <2>1, <2>3 DEF OrchInv, EditsLoaded, Versioned, EditRecord, RuleRow
    <3>2. /\ w.ver >= cur.ver /\ (w.ver = cur.ver => Setting(w) = Setting(cur)) /\ w.ver > 0 /\ w.ver \in Int
      BY <1>1, <1>4, <1>6 DEF RuleRow
    <3> QED
      BY <1>8, <2>1, <2>3, <3>1, <3>2
  <2> QED
    BY <2>2, <2>3
<1>13. FlushesExclusive'
  <2>1. ASSUME NEW o \in OcEdits, ocEdit'[o].pc = "flushed"
        PROVE  /\ ocEdit'[o].rule \in Live' /\ (Versioned(o)' => ~VersionUsed(o)')
               /\ \A p \in OcEdits : ocEdit'[p].pc = "flushed" /\ ocEdit'[p].rule = ocEdit'[o].rule => p = o
    <3>1. o # e /\ ocEdit'[o] = ocEdit[o] /\ ocEdit[o].rule \in OcRules \ {r} /\ ocEdit[o].pc = "flushed"
      BY <1>7, <2>1 DEF OrchInv, OrchShape, EditRecord
    <3>2. ocSnap'[ocEdit[o].rule] = ocSnap[ocEdit[o].rule]
      BY <1>8, <3>1
    <3>3. \A p \in OcEdits : ocEdit'[p].pc = "flushed" => ocEdit'[p] = ocEdit[p]
      BY <1>7
    <3> QED
      BY <1>10, <3>1, <3>2, <3>3 DEF OrchInv, FlushesExclusive, Versioned, VersionUsed
  <2> QED
    BY <2>1 DEF FlushesExclusive
<1>14. ListsRecorded'
  <2>1. \A q \in OcRules : ocKnown[q] \subseteq ocKnown'[q]
    BY <1>8
  <2>2. ASSUME NEW list \in Seq(RuleEntry), Documented(list) PROVE Documented(list)'
    <3>1. \A i \in 1..Len(list) : list[i] \in RuleEntry
      OBVIOUS
    <3>2. \A i \in 1..Len(list) : list[i].rule \in OcRules
      BY <3>1 DEF RuleEntry
    <3> QED
      BY <2>1, <2>2, <3>2 DEF Documented
  <2> QED
    BY <1>2, <2>2 DEF OrchInv, OrchShape, ListsRecorded, RouteRecord
<1>15. OrchBounds' /\ RouteHandsOn'
  <2>1. t.new.ver \in 1..(ocOps + 1) /\ ocOps \in Nat
    BY <1>2, OrchestratorAssumption DEF OrchInv, OrchBounds
  <2>2. w.ver \in -1..(ocOps + 1) /\ \A s \in ocSnap'[r] : s.ver > 0
    BY <1>1, <1>3, <1>8, <2>1 DEF OrchInv, OrchBounds
  <2>3. \A q \in OcRules : ocRow'[q].ver \in -1..(ocOps + 1) /\ \A s \in ocSnap'[q] : s.ver > 0
    BY <1>8, <2>2 DEF OrchInv, OrchBounds
  <2> QED
    BY <1>2, <1>7, <2>3 DEF OrchInv, OrchBounds, RouteHandsOn
<1> QED
  BY <1>9, <1>11, <1>12, <1>13, <1>14, <1>15 DEF OrchInv

\* A rule is deleted with its versions; what a request has loaded of it is refused later.
LEMMA DeleteRuleStep ==
  ASSUME OrchInv, NEW r \in OcRules, DeleteRule(r)
  PROVE  OrchInv'
<1>1. /\ r \in Live /\ ocRow' = [ocRow EXCEPT ![r] = DeadRow] /\ ocSnap' = [ocSnap EXCEPT ![r] = {}]
      /\ ocCache' = NoList /\ UNCHANGED <<ocEdit, ocRoute, ocKnown>> /\ ocOps' = ocOps + 1 /\ ocOps < OcMaxOps
      /\ \A e \in OcEdits : ~(ocEdit[e].pc = "flushed" /\ ocEdit[e].rule = r)
  BY DEF DeleteRule, OcOp
<1>2. DeadRow.ver = -1 /\ DeadRow \in RuleRow
  BY NoListShape DEF DeadRow, NoRow
<1>3. OrchShape'
  BY <1>1, NoListShape DEF OrchInv, OrchShape
<1>4. ocRow'[r] = DeadRow /\ ocSnap'[r] = {} /\ \A q \in OcRules \ {r} : ocRow'[q] = ocRow[q] /\ ocSnap'[q] = ocSnap[q]
  BY <1>1 DEF OrchInv, OrchShape
<1>5. Live' = Live \ {r}
  BY <1>2, <1>4 DEF Live
<1>6. VersionsRecorded'
  BY <1>1, <1>2, <1>4, <1>5 DEF OrchInv, VersionsRecorded, Live
<1>7. ASSUME NEW e \in OcEdits, ocEdit[e].pc # "idle"
      PROVE  /\ ocRow'[ocEdit[e].rule].ver # 0
             /\ ocEdit[e].rule # r => ocRow'[ocEdit[e].rule] = ocRow[ocEdit[e].rule] /\ ocSnap'[ocEdit[e].rule] = ocSnap[ocEdit[e].rule]
             /\ ocEdit[e].rule = r => ocRow'[ocEdit[e].rule].ver = -1 /\ ocEdit[e].loaded.ver > 0 /\ ocEdit[e].loaded.ver \in Int
  <2>1. ocEdit[e].rule \in OcRules /\ ocEdit[e].loaded.ver \in Int
    BY DEF OrchInv, OrchShape, EditRecord, RuleRow
  <2> QED
    BY <1>2, <1>4, <1>7, <2>1 DEF OrchInv, EditsLoaded
<1>8. EditsLoaded'
  <2> SUFFICES ASSUME NEW e \in OcEdits, ocEdit[e].pc # "idle"
               PROVE  LET u == ocEdit[e]
                          row == ocRow'[u.rule] IN
                      /\ row.ver # 0 /\ u.loaded.ver > 0 /\ (u.rule \in Live' => u.loaded.ver <= row.ver)
                      /\ u.loaded.ver = row.ver => Setting(u.loaded) = Setting(row)
                      /\ IF u.new.ver # u.loaded.ver THEN u.new.ver = u.loaded.ver + 1 ELSE Setting(u.new) = Setting(u.loaded)
    BY <1>1 DEF EditsLoaded, Versioned
  <2> QED
    BY <1>5, <1>7 DEF OrchInv, EditsLoaded, Versioned
<1>9. FlushesExclusive'
  BY <1>1, <1>5, <1>7 DEF OrchInv, FlushesExclusive, Versioned, VersionUsed
<1>10. ListsRecorded' /\ RouteHandsOn'
  BY <1>1 DEF OrchInv, ListsRecorded, Documented, RouteHandsOn
<1>11. OrchBounds'
  <2>1. ocOps \in Nat
    BY OrchestratorAssumption DEF OrchInv, OrchBounds
  <2>2. \A q \in OcRules : ocRow'[q].ver \in -1..(ocOps + 2) /\ \A s \in ocSnap'[q] : s.ver > 0
    BY <1>2, <1>4, <2>1 DEF OrchInv, OrchBounds
  <2>3. \A e \in OcEdits : ocEdit[e].pc # "idle" => ocEdit[e].new.ver \in 1..(ocOps + 2)
    BY <2>1 DEF OrchInv, OrchBounds
  <2> QED
    BY <1>1, <2>1, <2>2, <2>3, OrchestratorAssumption DEF OrchInv, OrchBounds
<1> QED
  BY <1>3, <1>6, <1>8, <1>9, <1>10, <1>11 DEF OrchInv

\* The worker renumbers the priorities and leaves the rest of the rows.
LEMMA RebalanceStep == OrchInv /\ Rebalance => OrchInv'
<1> SUFFICES ASSUME OrchInv, Rebalance PROVE OrchInv'
  OBVIOUS
<1>1. PICK pos \in [Live -> 1..Cardinality(Live)] :
        ocRow' = [r \in OcRules |-> IF r \in Live THEN [ocRow[r] EXCEPT !.prio = pos[r] * OcStep] ELSE ocRow[r]]
  BY DEF Rebalance
<1>2. UNCHANGED <<ocSnap, ocEdit, ocCache, ocRoute, ocKnown, ocOps>>
  BY DEF Rebalance
<1>3. \A r \in Live : pos[r] * OcStep \in Nat
  <2>1. \A a, b \in Nat : a * b \in Nat
    OBVIOUS
  <2> QED
    BY <2>1, OrchestratorAssumption
<1>4. ASSUME NEW r \in OcRules
      PROVE  ocRow'[r] \in RuleRow /\ ocRow'[r].ver = ocRow[r].ver /\ Setting(ocRow'[r]) = Setting(ocRow[r])
  <2>1. \A row \in RuleRow, n \in Nat : /\ [row EXCEPT !.prio = n] \in RuleRow /\ [row EXCEPT !.prio = n].ver = row.ver
                                        /\ Setting([row EXCEPT !.prio = n]) = Setting(row)
    BY DEF RuleRow, Setting
  <2> QED
    BY <1>1, <1>3, <2>1 DEF OrchInv, OrchShape
<1>5. Live' = Live /\ ocRow' \in [OcRules -> RuleRow]
  BY <1>1, <1>4 DEF Live
<1>6. OrchShape' /\ VersionsRecorded'
  BY <1>2, <1>4, <1>5 DEF OrchInv, OrchShape, VersionsRecorded, Live
<1>7. \A e \in OcEdits : ocEdit[e].rule \in OcRules
  BY DEF OrchInv, OrchShape, EditRecord
<1>8. EditsLoaded' /\ FlushesExclusive'
  BY <1>2, <1>4, <1>5, <1>7 DEF OrchInv, EditsLoaded, FlushesExclusive, Versioned, VersionUsed
<1>9. OrchBounds' /\ ListsRecorded' /\ RouteHandsOn'
  BY <1>2, <1>4 DEF OrchInv, OrchBounds, ListsRecorded, Documented, RouteHandsOn
<1> QED
  BY <1>6, <1>8, <1>9 DEF OrchInv

\* The route changes itself and the cache alone.
LEMMA RouteFrame ==
  ASSUME OrchInv, UNCHANGED <<ocRow, ocSnap, ocEdit, ocKnown, ocOps>>, ocCache' \in Seq(RuleEntry), ocRoute' \in RouteRecord
  PROVE  /\ OrchShape' /\ VersionsRecorded' /\ EditsLoaded' /\ FlushesExclusive'
         /\ (Len(ocRoute'.tried) <= OcMaxAttempts /\ (ocRoute'.pc = "trying" => Len(ocRoute'.tried) < OcMaxAttempts)) => OrchBounds'
BY DEF OrchInv, OrchShape, VersionsRecorded, EditsLoaded, FlushesExclusive, Versioned, VersionUsed, OrchBounds, Live

\* A list is selected and stored.
LEMMA SelectStep == OrchInv /\ (SelectRules \/ StoreRules \/ UpdateConfig) => OrchInv'
<1> SUFFICES ASSUME OrchInv, SelectRules \/ StoreRules \/ UpdateConfig PROVE OrchInv'
  OBVIOUS
<1>1. ocRoute \in RouteRecord /\ ocCache \in Seq(RuleEntry) /\ UNCHANGED <<ocRow, ocSnap, ocEdit, ocKnown, ocOps>>
  BY DEF OrchInv, OrchShape, SelectRules, StoreRules, UpdateConfig
<1>2. ASSUME NEW pc \in {"trying", "selected"}, NEW list \in Seq(RuleEntry), Documented(list), ocRoute.pc \in {"idle", "selected"},
             ocRoute' = [ocRoute EXCEPT !.pc = pc, !.list = list], ocCache' = ocCache
      PROVE  OrchInv'
  <2>1. /\ ocRoute'.pc = pc /\ ocRoute'.list = list /\ ocRoute'.tried = <<>> /\ ocRoute'.tried = ocRoute.tried
        /\ ocRoute' = [[ocRoute EXCEPT !.pc = pc] EXCEPT !.list = list]
    BY <1>1, <1>2 DEF OrchInv, RouteHandsOn, RouteRecord
  <2>2. ocRoute' \in RouteRecord
    BY <1>1, <2>1 DEF RouteRecord
  <2>3. ListsRecorded' /\ RouteHandsOn'
    BY <1>1, <1>2, <2>1 DEF OrchInv, ListsRecorded, Documented, RouteHandsOn
  <2>4. OrchBounds'
    BY <1>1, <1>2, <2>1, <2>2, RouteFrame, OrchestratorAssumption
  <2> QED
    BY <1>1, <1>2, <2>2, <2>3, <2>4, RouteFrame DEF OrchInv
<1>3. CASE SelectRules
  <2>1. CASE ocCache # NoList
    BY <1>1, <1>2, <1>3, <2>1 DEF SelectRules, OrchInv, ListsRecorded
  <2>2. ASSUME NEW list \in Listings, ocRoute' = [ocRoute EXCEPT !.pc = "selected", !.list = list] PROVE OrchInv'
    <3>1. list \in Seq(RuleEntry) /\ Documented(list)
      BY ListingShape DEF OrchInv, Documented, VersionsRecorded
    <3> QED
      BY <1>2, <1>3, <2>2, <3>1 DEF SelectRules
  <2> QED
    BY <1>3, <2>1, <2>2 DEF SelectRules
<1>4. CASE StoreRules
  <2>1. /\ ocRoute'.pc = "trying" /\ ocRoute'.list = ocRoute.list /\ ocRoute'.tried = ocRoute.tried /\ ocRoute'.skip = ocRoute.skip
        /\ ocCache' = ocRoute.list /\ ocRoute' \in RouteRecord /\ ocRoute.list \in Seq(RuleEntry) /\ ocRoute.tried = <<>>
    BY <1>1, <1>4 DEF StoreRules, RouteRecord, OrchInv, RouteHandsOn
  <2>2. ListsRecorded' /\ RouteHandsOn'
    BY <1>1, <2>1 DEF OrchInv, ListsRecorded, Documented, RouteHandsOn
  <2>3. OrchBounds'
    BY <1>1, <2>1, RouteFrame, OrchestratorAssumption
  <2> QED
    BY <1>1, <2>1, <2>2, <2>3, RouteFrame DEF OrchInv
<1>5. CASE UpdateConfig
  <2>1. ocRoute' = ocRoute /\ ocCache' = NoList
    BY <1>5 DEF UpdateConfig
  <2>2. ListsRecorded' /\ RouteHandsOn' /\ OrchBounds'
    BY <1>1, <2>1 DEF OrchInv, ListsRecorded, Documented, RouteHandsOn, OrchBounds
  <2> QED
    BY <1>1, <2>1, <2>2, RouteFrame, NoListShape DEF OrchInv
<1> QED
  BY <1>3, <1>4, <1>5

\* A rule is tried: it is none of those before it, whose policies were to hand on.
LEMMA TryStep ==
  ASSUME OrchInv, NEW said \in BOOLEAN, TryRule(said)
  PROVE  OrchInv'
<1> DEFINE i == FirstMatch(ocRoute.list, ocRoute.skip, said)
           tried == ocRoute.tried
<1>1. /\ ocRoute \in RouteRecord /\ ocCache' = ocCache /\ ocCache \in Seq(RuleEntry) /\ ocRoute.pc = "trying"
      /\ UNCHANGED <<ocRow, ocSnap, ocEdit, ocKnown, ocOps>>
  BY DEF OrchInv, OrchShape, TryRule
<1>2. i \in 0..Len(ocRoute.list) /\ (i # 0 => ocRoute.list[i].rule \notin ocRoute.skip)
  BY <1>1, FirstMatchOfList DEF RouteRecord
<1>3. CASE i = 0
  <2>1. ocRoute' = [ocRoute EXCEPT !.pc = "default"]
    BY <1>3 DEF TryRule
  <2> HIDE DEF i
  <2>2. /\ ocRoute' \in RouteRecord /\ ocRoute'.pc = "default" /\ ocRoute'.list = ocRoute.list
        /\ ocRoute'.tried = tried /\ ocRoute'.skip = ocRoute.skip
    BY <1>1, <2>1 DEF RouteRecord
  <2>3. ListsRecorded' /\ RouteHandsOn'
    BY <1>1, <2>2 DEF OrchInv, ListsRecorded, Documented, RouteHandsOn
  <2>4. OrchBounds'
    BY <1>1, <2>2, RouteFrame DEF OrchInv, OrchBounds
  <2> QED
    BY <1>1, <2>2, <2>3, <2>4, RouteFrame DEF OrchInv
<1>4. CASE i # 0
  <2> DEFINE entry == ocRoute.list[i]
             pc    == NextAfter(entry.row.policy, Len(tried) + 1)
             more  == Append(tried, entry)
             skip  == ocRoute.skip \cup {entry.rule}
  <2>1. ocRoute' = [ocRoute EXCEPT !.pc = pc, !.tried = more, !.skip = skip]
    BY <1>4 DEF TryRule
  <2>2. entry \in RuleEntry /\ entry.rule \notin ocRoute.skip /\ entry.rule \in OcRules /\ entry.row.policy \in Policies
    <3>1. ocRoute.list \in Seq(RuleEntry) /\ i \in 1..Len(ocRoute.list)
      BY <1>1, <1>2, <1>4 DEF RouteRecord
    <3>2. entry \in RuleEntry
      BY <3>1
    <3> QED
      BY <1>2, <1>4, <3>2 DEF RuleEntry, RuleRow
  <2> HIDE DEF i, entry
  <2>3. /\ pc \in {"done", "trying", "default"}
        /\ pc = "trying" => entry.row.policy = "fallback_next" /\ Len(tried) + 1 < OcMaxAttempts
    BY <2>2 DEF NextAfter, Policies
  <2> HIDE DEF pc
  <2>4. tried \in Seq(RuleEntry) /\ Len(tried) \in Nat /\ ocRoute.skip \subseteq OcRules
    BY <1>1 DEF RouteRecord
  <2>5. more \in Seq(RuleEntry) /\ skip \subseteq OcRules /\ Len(more) = Len(tried) + 1 /\ more[Len(tried) + 1] = entry
        /\ \A j \in 1..Len(tried) : more[j] = tried[j]
    BY <2>2, <2>4
  <2> HIDE DEF more, skip
  <2>6. /\ ocRoute' = [[[ocRoute EXCEPT !.pc = pc] EXCEPT !.tried = more] EXCEPT !.skip = skip]
        /\ ocRoute'.pc = pc /\ ocRoute'.list = ocRoute.list /\ ocRoute'.tried = more /\ ocRoute'.skip = skip
    BY <1>1, <2>1 DEF RouteRecord
  <2>7. ocRoute' \in RouteRecord
    BY <1>1, <2>3, <2>5, <2>6 DEF RouteRecord
  <2>8. ListsRecorded'
    BY <1>1, <2>6 DEF OrchInv, ListsRecorded, Documented
  <2>9. \A j \in 1..Len(tried) : tried[j].rule \in ocRoute.skip /\ tried[j].row.policy = "fallback_next"
    BY <1>1 DEF OrchInv, RouteHandsOn
  <2>10. \A j \in 1..Len(more) : j \in 1..Len(tried) \/ j = Len(tried) + 1
    BY <2>4, <2>5
  <2>11. RouteHandsOn'
    <3>1. \A j \in 1..Len(more) : more[j].rule \in skip
      BY <2>5, <2>9, <2>10 DEF skip
    <3>2. \A j, k \in 1..Len(more) : j < k => more[j].rule # more[k].rule
      <4>1. \A j, k \in 1..Len(tried) : j < k => tried[j].rule # tried[k].rule
        BY DEF OrchInv, RouteHandsOn
      <4> QED
        BY <2>2, <2>4, <2>5, <2>9, <2>10, <4>1
    <3>3. \A j \in 1..Len(more) : j < Len(more) \/ pc = "trying" => more[j].row.policy = "fallback_next"
      BY <2>3, <2>4, <2>5, <2>9, <2>10
    <3> QED
      BY <2>3, <2>6, <3>1, <3>2, <3>3 DEF RouteHandsOn
  <2>12. OrchBounds'
    <3>1. Len(tried) < OcMaxAttempts
      BY <1>1 DEF OrchInv, OrchBounds
    <3> QED
      BY <1>1, <2>3, <2>4, <2>5, <2>6, <2>7, <3>1, RouteFrame, OrchestratorAssumption
  <2> QED
    BY <1>1, <2>7, <2>8, <2>11, <2>12, RouteFrame DEF OrchInv
<1> QED
  BY <1>3, <1>4

\* The route ends, and rests.
LEMMA RouteEndStep == OrchInv /\ (RunDefault \/ NextMessage) => OrchInv'
<1> SUFFICES ASSUME OrchInv, RunDefault \/ NextMessage PROVE OrchInv'
  OBVIOUS
<1>1. /\ ocRoute \in RouteRecord /\ ocCache' = ocCache /\ ocCache \in Seq(RuleEntry)
      /\ UNCHANGED <<ocRow, ocSnap, ocEdit, ocKnown, ocOps>>
  BY DEF OrchInv, OrchShape, RunDefault, NextMessage
<1>2. CASE RunDefault
  <2>1. /\ ocRoute' \in RouteRecord /\ ocRoute'.pc = "done" /\ ocRoute'.list = ocRoute.list
        /\ ocRoute'.tried = ocRoute.tried /\ ocRoute'.skip = ocRoute.skip
    BY <1>1, <1>2 DEF RunDefault, RouteRecord
  <2>2. ListsRecorded' /\ RouteHandsOn'
    BY <1>1, <2>1 DEF OrchInv, ListsRecorded, Documented, RouteHandsOn
  <2>3. OrchBounds'
    BY <1>1, <2>1, RouteFrame DEF OrchInv, OrchBounds
  <2> QED
    BY <1>1, <2>1, <2>2, <2>3, RouteFrame DEF OrchInv
<1>3. CASE NextMessage
  <2>1. ocRoute' = [pc |-> "idle", list |-> <<>>, tried |-> <<>>, skip |-> {}] /\ ocRoute' \in RouteRecord
    BY <1>3 DEF NextMessage, RouteRecord
  <2>2. ListsRecorded' /\ RouteHandsOn' /\ OrchBounds'
    BY <1>1, <2>1, RouteFrame, OrchestratorAssumption DEF OrchInv, ListsRecorded, Documented, RouteHandsOn
  <2> QED
    BY <1>1, <2>1, <2>2, RouteFrame DEF OrchInv
<1> QED
  BY <1>2, <1>3

\* Every step keeps OrchInv.
LEMMA OrchStep == OrchInv /\ [OrchNext]_orchVars => OrchInv'
<1> SUFFICES ASSUME OrchInv, [OrchNext]_orchVars PROVE OrchInv'
  OBVIOUS
<1>1. CASE UNCHANGED orchVars
  BY <1>1 DEF orchVars, OrchInv, OrchBounds, OrchShape, VersionsRecorded, EditsLoaded, FlushesExclusive, ListsRecorded,
     RouteHandsOn, Documented, Versioned, VersionUsed, Live
<1>2. CASE OrchNext
  BY <1>2, CreateRuleStep, DeleteRuleStep, EditStep, FlushStep, CommitStep, RebalanceStep, SelectStep, TryStep,
     RouteEndStep DEF OrchNext
<1> QED
  BY <1>1, <1>2

\* For any rules and any number of overlapping edits: a route goes by settings that some
\* version recorded, and by different rules, each behind one that hands on.
THEOREM RoutesAreRecorded == OrchSpec => []RouteIsRecorded
<1>1. ASSUME OrchInv PROVE RouteIsRecorded
  <2>1. \A i, j \in 1..Len(ocRoute.tried) : i < j => i < Len(ocRoute.tried)
    BY DEF OrchInv, OrchShape, RouteRecord
  <2> QED
    BY <1>1, <2>1 DEF OrchInv, ListsRecorded, Documented, RouteHandsOn, RouteIsRecorded
<1> QED
  BY <1>1, OrchStart, OrchStep, PTL DEF OrchSpec

\* The type invariant is part of OrchInv.
LEMMA OrchTypes == OrchInv => OrchTypeOK
BY OrchestratorAssumption DEF OrchInv, OrchBounds, OrchShape, OrchTypeOK, RuleRow, EditRecord, RouteRecord

=============================================================================
