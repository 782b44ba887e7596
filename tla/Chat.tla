--------------------------------- MODULE Chat ---------------------------------
(***************************************************************************)
(* One conversation: the turns of the three pipelines (a retrieval agent,  *)
(* a workflow agent, an orchestrator), its deletion, and the votes on its  *)
(* answers.                                                                *)
(*                                                                         *)
(* A turn loads the conversation, commits the messages it begins with,     *)
(* streams to its client, and stores the answer.  A client may leave, or   *)
(* the process stop, at each await in between; nothing takes up a turn     *)
(* that was left.  A text is what the client was shown: nothing, part of   *)
(* the answer, all of it, or a notice written by the pipeline.             *)
(* Titles, summaries and evaluations, tasks that follow a turn, are left   *)
(* out.                                                                    *)
(***************************************************************************)
EXTENDS Integers, FiniteSets

CONSTANTS
  CtTurns,      \* turns of the conversation
  CtVoters,     \* requests that set a feedback
  CtMaxVotes    \* bound: feedbacks set

ASSUME ChatAssumption == CtMaxVotes \in Nat /\ IsFiniteSet(CtTurns) /\ CtTurns # {}

VARIABLES
  ctConv,     \* the conversation
  ctCount,    \* conversations.message_count
  ctUser,     \* turns whose user message is stored
  ctAnswer,   \* the assistant message of each turn
  ctTurn,     \* the turns
  ctVote,     \* messages.feedback
  ctEvents,   \* chunk_usage_events about the feedback of each answer
  ctVoter,    \* feedback requests
  ctVotes,    \* feedbacks set so far
  ctMixed     \* history: a vote that overlapped another one of its message, or was set to 0

turnVars == <<ctConv, ctCount, ctUser, ctAnswer, ctTurn>>
voteVars == <<ctVote, ctEvents, ctVoter, ctVotes, ctMixed>>
chatVars == <<turnVars, voteVars>>

Pipelines == {"rag", "workflow", "orchestrator"}
NoAnswer  == [status |-> "none", text |-> ""]
NoTurn    == [pc |-> "idle", kind |-> "rag", count |-> 0, shown |-> "", end |-> ""]
NoVoter   == [on |-> FALSE, turn |-> CHOOSE t \in CtTurns : TRUE, was |-> "null"]
Shown     == {"", "part", "full", "notice"}
Feedback  == {"null", "zero", "up", "down"}
NoEvents  == [up |-> 0, down |-> 0, reverse |-> 0]

ChatTypeOK ==
  /\ ctConv \in {"none", "open", "deleted"} /\ ctCount \in Nat
  /\ ctUser \subseteq CtTurns
  /\ ctAnswer \in [CtTurns -> [status : {"none", "generating", "completed", "error", "plain"},
                               text : Shown \cup {"recovered", "empty"}]]
  /\ ctTurn \in [CtTurns -> [pc : {"idle", "loaded", "started", "stream", "store", "done"},
                             kind : Pipelines, count : Nat, shown : Shown,
                             end : {"", "answered", "failed", "blocked", "refused", "broken", "left", "unpublished"}]]
  /\ ctVote \in [CtTurns -> Feedback] /\ ctEvents \in [CtTurns -> [up : Nat, down : Nat, reverse : Nat]]
  /\ ctVoter \in [CtVoters -> [on : BOOLEAN, turn : CtTurns, was : Feedback]]
  /\ ctVotes \in 0..CtMaxVotes /\ ctMixed \in BOOLEAN

ChatInit ==
  /\ ctConv = "none" /\ ctCount = 0 /\ ctUser = {}
  /\ ctAnswer = [t \in CtTurns |-> NoAnswer] /\ ctTurn = [t \in CtTurns |-> NoTurn]
  /\ ctVote = [t \in CtTurns |-> "null"] /\ ctEvents = [t \in CtTurns |-> NoEvents]
  /\ ctVoter = [v \in CtVoters |-> NoVoter] /\ ctVotes = 0 /\ ctMixed = FALSE

At(t, pc)      == ctTurn[t].pc = pc
Moved(t, pc)   == [ctTurn EXCEPT ![t].pc = pc]
Ended(t, how)  == [ctTurn EXCEPT ![t].pc = "done", ![t].end = how]
NoRowChange    == UNCHANGED <<ctConv, ctCount, ctUser, ctAnswer, voteVars>>

-----------------------------------------------------------------------------
(***************************************************************************)
(* A turn.                                                                 *)
(***************************************************************************)

\* A turn without an id creates the conversation, one with an id reads it.
LoadConversation(t, kind) ==
  /\ At(t, "idle") /\ ctConv \in {"none", "open"}
  /\ ctConv = "none" => \A u \in CtTurns : ~At(u, "loaded")
  /\ ctTurn' = [ctTurn EXCEPT ![t] = [@ EXCEPT !.pc = "loaded", !.kind = kind, !.count = ctCount]]
  /\ NoRowChange

\* add_message: one row, and one more in the counter of the conversation.
StaleCount(t, n) == ctTurn[t].count + n   \* mutant: the value that was read is written back
Counted(t, n)    == ctCount + n

\* The user message and the answer to come are committed together ...
SaveTurn(t) ==
  /\ At(t, "loaded") /\ ctTurn[t].kind # "workflow" /\ ctConv # "deleted"
  /\ ctConv' = "open" /\ ctUser' = ctUser \cup {t}
  /\ ctAnswer' = [ctAnswer EXCEPT ![t].status = "generating"] /\ ctCount' = Counted(t, 2)
  /\ ctTurn' = Moved(t, "started") /\ UNCHANGED voteVars

\* ... but a workflow agent has no answer yet, and nothing is committed when its workflow
\* is not published: the client is told the id of a message that is not there.
SaveQuestion(t) ==
  /\ At(t, "loaded") /\ ctTurn[t].kind = "workflow" /\ ctConv # "deleted"
  /\ \/ /\ ctConv' = "open" /\ ctUser' = ctUser \cup {t} /\ ctCount' = Counted(t, 1)
        /\ ctTurn' = Moved(t, "stream") /\ UNCHANGED <<ctAnswer, voteVars>>
     \/ /\ ctTurn' = [Ended(t, "unpublished") EXCEPT ![t].shown = "notice"] /\ NoRowChange

\* The prompt guard refuses a message before anything is retrieved.
Block(t) ==
  /\ At(t, "started") /\ ctTurn[t].kind = "rag"
  /\ ctTurn' = [Moved(t, "store") EXCEPT ![t].shown = "notice", ![t].end = "blocked"] /\ NoRowChange

\* The check of the model: the client gets a notice and the end of the message, and the
\* row stays as it is.
RefuseModel(t) ==
  /\ At(t, "started") /\ ctTurn[t].kind = "rag"
  /\ ctTurn' = [Ended(t, "refused") EXCEPT ![t].shown = "notice"] /\ NoRowChange

\* History, retrieval, prompt.  (An agent with knowledge bases breaks here: the pipeline
\* imports KnowledgeBaseService, and app.knowledge.service has only KBService.)
OpenStream(t) ==
  /\ At(t, "started") /\ ctTurn[t].kind = "rag" /\ ctTurn' = Moved(t, "stream") /\ NoRowChange

\* The orchestrator resolves the department and the metadata of the user, and routes.
OpenRoute(t) ==
  /\ At(t, "started") /\ ctTurn[t].kind = "orchestrator" /\ ctTurn' = Moved(t, "stream") /\ NoRowChange

Delta(t) ==
  /\ At(t, "stream") /\ ctTurn[t].shown = ""
  /\ ctTurn' = [ctTurn EXCEPT ![t].shown = "part"] /\ NoRowChange

CloseStream(t) ==
  /\ At(t, "stream")
  /\ ctTurn' = [Moved(t, "store") EXCEPT ![t].end = "answered", ![t].shown = IF @ = "part" THEN "full" ELSE @]
  /\ NoRowChange

\* The provider failed, or said nothing for 45 s: what was shown stays, and only an empty
\* answer gets a notice.  An orchestrator adds its notice and goes on; the driver of a
\* workflow only closes the bus.
FailStream(t) ==
  /\ At(t, "stream")
  /\ ctTurn' = [Moved(t, "store") EXCEPT
       ![t].end = IF ctTurn[t].kind = "rag" THEN "failed" ELSE "answered",
       ![t].shown = IF ctTurn[t].kind = "orchestrator" \/ (ctTurn[t].kind = "rag" /\ @ = "") THEN "notice" ELSE @]
  /\ NoRowChange

StatusOf(end) == IF end = "failed" THEN "error" ELSE "completed"

\* update_message and the commit; adopted events, of retrieval agents, come with it.
StoreStatusOnly(t) ==   \* mutant: the text of a failed stream is lost
  /\ At(t, "store") /\ ctTurn[t].kind = "rag" /\ ctConv # "deleted"
  /\ ctAnswer' = [ctAnswer EXCEPT ![t] =
       [status |-> StatusOf(ctTurn[t].end),
        text   |-> IF ctTurn[t].end = "failed" THEN "" ELSE ctTurn[t].shown]]
  /\ ctTurn' = Moved(t, "done") /\ UNCHANGED <<ctConv, ctCount, ctUser, voteVars>>
StoreAnswerOf(t) ==
  /\ At(t, "store") /\ ctTurn[t].kind = "rag" /\ ctConv # "deleted"
  /\ ctAnswer' = [ctAnswer EXCEPT ![t] = [status |-> StatusOf(ctTurn[t].end), text |-> ctTurn[t].shown]]
  /\ ctTurn' = Moved(t, "done") /\ UNCHANGED <<ctConv, ctCount, ctUser, voteVars>>

StoreRouted(t) ==
  /\ At(t, "store") /\ ctTurn[t].kind = "orchestrator" /\ ctConv # "deleted"
  /\ ctAnswer' = [ctAnswer EXCEPT ![t] =
       [status |-> "completed", text |-> IF ctTurn[t].shown = "" THEN "empty" ELSE ctTurn[t].shown]]
  /\ ctTurn' = Moved(t, "done") /\ UNCHANGED <<ctConv, ctCount, ctUser, voteVars>>

\* A workflow that streamed nothing may still have an answer among its outputs; the client
\* is not shown it.
StoreWorkflowAnswer(t) ==
  /\ At(t, "store") /\ ctTurn[t].kind = "workflow" /\ ctConv # "deleted"
  /\ \E text \in IF ctTurn[t].shown = "" THEN {"recovered", "empty"} ELSE {ctTurn[t].shown} :
       ctAnswer' = [ctAnswer EXCEPT ![t] = [status |-> "plain", text |-> text]]
  /\ ctCount' = Counted(t, 1)
  /\ ctTurn' = Moved(t, "done") /\ UNCHANGED <<ctConv, ctUser, voteVars>>

\* An exception out of the stream, or a conversation deleted meanwhile: the end of the
\* message is sent, or the stream breaks, and the row is left as it is.
Break(t) ==
  /\ At(t, "loaded") \/ At(t, "started") \/ At(t, "store")
  /\ ctTurn' = Ended(t, "broken") /\ NoRowChange

\* The client disconnects, or the process stops.
Leave(t) ==
  /\ At(t, "started") \/ At(t, "stream") \/ At(t, "store")
  /\ ctTurn' = Ended(t, "left") /\ NoRowChange

\* delete_conversation: messages and checkpoints go with it.
DeleteConversation ==
  /\ ctConv = "open" /\ ctConv' = "deleted" /\ ctCount' = 0 /\ ctUser' = {}
  /\ ctAnswer' = [t \in CtTurns |-> NoAnswer] /\ UNCHANGED <<ctTurn, voteVars>>

-----------------------------------------------------------------------------
(***************************************************************************)
(* Votes.  All answers cite one chunk.                                     *)
(***************************************************************************)

OpenVote(v, t) ==
  /\ ~ctVoter[v].on /\ ctVotes < CtMaxVotes /\ ctVotes' = ctVotes + 1
  /\ ctAnswer[t].status = "completed" /\ ctTurn[t].kind = "rag"
  /\ ctVoter' = [ctVoter EXCEPT ![v] = [on |-> TRUE, turn |-> t, was |-> ctVote[t]]]
  /\ ctMixed' = (ctMixed \/ \E w \in CtVoters : ctVoter[w].on /\ ctVoter[w].turn = t)
  /\ UNCHANGED <<turnVars, ctVote, ctEvents>>

\* A vote that was there is reversed, then the new one recorded.  A 0 that was there counts
\* as a vote when it is replaced: a reverse is written that reverses nothing.
ReversesSet(was, new) == was # "null" /\ was # new /\ new \in {"up", "down"}   \* mutant: a cleared vote stays
Reverses(was, new) == was # "null" /\ was # (IF new = "null" THEN "zero" ELSE new)

SetFeedback(v, new) ==
  LET t == ctVoter[v].turn  was == ctVoter[v].was IN
  /\ ctVoter[v].on /\ ctVoter' = [ctVoter EXCEPT ![v] = NoVoter]
  /\ ctConv # "deleted"
  /\ ctEvents' = [ctEvents EXCEPT ![t] =
       [up      |-> @.up + (IF new = "up" /\ was # "up" THEN 1 ELSE 0),
        down    |-> @.down + (IF new = "down" /\ was # "down" THEN 1 ELSE 0),
        reverse |-> @.reverse + (IF Reverses(was, new) THEN 1 ELSE 0)]]
  /\ ctVote' = [ctVote EXCEPT ![t] = new]
  /\ ctMixed' = (ctMixed \/ new = "zero")
  /\ UNCHANGED <<turnVars, ctVotes>>

DropVote(v) ==
  /\ ctVoter[v].on /\ ctConv = "deleted" /\ ctVoter' = [ctVoter EXCEPT ![v] = NoVoter]
  /\ UNCHANGED <<turnVars, ctVote, ctEvents, ctVotes, ctMixed>>

\* chunk_score_rebuild: reverses cancel positive votes first, whatever they reversed.
EventSum(kind) ==
  LET sum[S \in SUBSET CtTurns] ==
        IF S = {} THEN 0 ELSE LET t == CHOOSE x \in S : TRUE IN ctEvents[t][kind] + sum[S \ {t}]
  IN  sum[CtTurns]
Rebuilt ==
  LET cancel == IF EventSum("reverse") < EventSum("up") + EventSum("down")
                  THEN EventSum("reverse") ELSE EventSum("up") + EventSum("down")
      up     == IF cancel < EventSum("up") THEN cancel ELSE EventSum("up")
  IN  [up |-> EventSum("up") - up, down |-> EventSum("down") - (cancel - up)]

ChatNext ==
  \/ \E t \in CtTurns :
       \/ \E kind \in Pipelines : LoadConversation(t, kind)
       \/ SaveTurn(t) \/ SaveQuestion(t) \/ Block(t) \/ RefuseModel(t)
       \/ OpenStream(t) \/ OpenRoute(t)
       \/ Delta(t) \/ CloseStream(t) \/ FailStream(t)
       \/ StoreAnswerOf(t) \/ StoreRouted(t) \/ StoreWorkflowAnswer(t) \/ Break(t) \/ Leave(t)
  \/ DeleteConversation
  \/ \E v \in CtVoters : \/ \E t \in CtTurns : OpenVote(v, t)
                         \/ \E new \in Feedback : SetFeedback(v, new)
                         \/ DropVote(v)
ChatSpec == ChatInit /\ [][ChatNext]_chatVars

-----------------------------------------------------------------------------
\* The counter that decides on summaries is the number of messages, whatever turns
\* overlap and wherever one of them stops.
CountIsMessages ==
  ctCount = Cardinality(ctUser) + Cardinality({t \in CtTurns : ctAnswer[t].status # "none"})

\* A turn that came to its end left exactly what its client was shown, or an answer where
\* nothing was shown, and its status says how it ended; only turns that were left, broken
\* or refused leave an answer that is still generating, and none of these has a text.
ShownIsStored ==
  \A t \in CtTurns : t \in ctUser /\ At(t, "done") =>
    IF ctTurn[t].end \in {"answered", "failed", "blocked"}
      THEN /\ ctTurn[t].shown # "" => ctAnswer[t].text = ctTurn[t].shown
           /\ ctTurn[t].end = "failed" <=> ctAnswer[t].status = "error"
           /\ ctAnswer[t].status \notin {"none", "generating"}
      ELSE ctAnswer[t].status \in {"none", "generating"} /\ ctAnswer[t].text = ""

\* The counter and the stored answers of the turns.
TurnsSound == CountIsMessages /\ ShownIsStored

\* The votes of a chunk that the rebuild counts are as many as the votes that stand, as
\* long as no two requests on one message overlapped and nobody set a vote to 0.
VotesNet ==
  ~ctMixed => Rebuilt.up + Rebuilt.down = Cardinality({t \in CtTurns : ctVote[t] \in {"up", "down"}})
=============================================================================
