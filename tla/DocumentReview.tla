---------------------------- MODULE DocumentReview ----------------------------
(***************************************************************************)
(* The review of documents before they are retrieved: ReviewService, its   *)
(* endpoints, and the submission at the end of process_document.           *)
(*                                                                         *)
(* documents.review_status is the decision and chunks.review_excluded, a   *)
(* column derived from it, is what retrieval looks at.  A request reads    *)
(* the document in one statement and writes both columns in its one        *)
(* transaction at the end.  SQLAlchemy writes a column only when its value *)
(* differs from the one that was read, so a request that overlaps another  *)
(* may write the flags of the rows without the status.                     *)
(***************************************************************************)
EXTENDS Integers, FiniteSets

CONSTANTS
  RvDocs,       \* documents of one knowledge base
  RvUsers, NoUser,
  Uploader,     \* documents.created_by, a function of RvDocs
  Editors,      \* users with edit access to the knowledge base
  Reviewers,    \* users for whom is_user_reviewer_for_kb holds
  SysAdmins,
  RvCalls,      \* requests and runs that may overlap
  MaxReviews    \* bound: requests and runs

ASSUME ReviewAssumption ==
  /\ Uploader \in [RvDocs -> RvUsers] /\ NoUser \notin RvUsers
  /\ Editors \subseteq RvUsers /\ Reviewers \subseteq RvUsers /\ SysAdmins \subseteq Reviewers
  /\ MaxReviews \in Nat

VARIABLES
  rvRequired,   \* knowledge_bases.review_required
  rvStatus,     \* documents.review_status; "none": NULL
  rvReviewer,   \* documents.reviewer_id
  rvRows,       \* chunk rows of a document: "absent", "hidden" or "shown"
  rvArchived,   \* documents.is_archived
  rvCall,       \* what each request or run has read
  rvApprovals,  \* history: documents some approval has been committed for
  rvOverlap,    \* history: documents that had two calls at a time
  rvRerun,      \* history: documents with rows of a run that submitted nothing
  rvCount

reviewRow  == <<rvStatus, rvReviewer, rvRows>>
reviewPast == <<rvApprovals, rvOverlap, rvRerun>>
reviewVars == <<rvRequired, reviewRow, rvArchived, rvCall, reviewPast, rvCount>>

Decisions == {"approve", "reject"}
Subject   == {"pending", "approved", "rejected"}
ReviewOps == Decisions \cup {"revert", "submit"}
NoCall    == [op |-> "idle", doc |-> "none", user |-> NoUser, seen |-> "none", was |-> NoUser]

ReviewTypeOK ==
  /\ rvRequired \in BOOLEAN
  /\ rvStatus \in [RvDocs -> Subject \cup {"none"}]
  /\ rvReviewer \in [RvDocs -> RvUsers \cup {NoUser}]
  /\ rvRows \in [RvDocs -> {"absent", "hidden", "shown"}]
  /\ rvArchived \subseteq RvDocs
  /\ rvCall \in [RvCalls -> {NoCall} \cup [op : ReviewOps, doc : RvDocs, user : RvUsers \cup {NoUser},
                    seen : Subject \cup {"none"}, was : RvUsers \cup {NoUser}]]
  /\ rvApprovals \subseteq RvDocs /\ rvOverlap \subseteq RvDocs /\ rvRerun \subseteq RvDocs
  /\ rvCount \in 0..MaxReviews

ReviewInit ==
  /\ rvRequired \in BOOLEAN
  /\ rvStatus = [d \in RvDocs |-> "none"] /\ rvReviewer = [d \in RvDocs |-> NoUser]
  /\ rvRows = [d \in RvDocs |-> "absent"] /\ rvArchived = {}
  /\ rvCall = [c \in RvCalls |-> NoCall]
  /\ rvApprovals = {} /\ rvOverlap = {} /\ rvRerun = {} /\ rvCount = 0

Busy(d) == \E c \in RvCalls : rvCall[c].op # "idle" /\ rvCall[c].doc = d

-----------------------------------------------------------------------------
(***************************************************************************)
(* Who may do what.                                                        *)
(***************************************************************************)

\* approve and reject of a knowledge base: edit access, never one's own upload.
MayDecideInKB(u, d) == u \in Editors /\ u # Uploader[d]

\* approve and reject of the review centre: a candidate reviewer.
MayDecideUnit(u, d) == u \in Reviewers /\ u # Uploader[d]

MayRevert(u, d) == u = Uploader[d] \/ u \in SysAdmins

\* The queue of a knowledge base, and the pending list of the review centre.
ReviewQueue == {d \in RvDocs : rvStatus[d] = "pending" /\ d \notin rvArchived}
PendingOf(u) ==
  {d \in RvDocs : u \in Reviewers /\ rvStatus[d] = "pending" /\ d \notin rvArchived /\ u # Uploader[d]}

\* The decision of a service call on what it has read; it raises otherwise.
Decidable(c) == rvCall[c].seen \in Subject

-----------------------------------------------------------------------------
(***************************************************************************)
(* Requests and runs: one step reads the document, one commits.            *)
(***************************************************************************)

OpenReview(c, op, u, d) ==
  /\ rvCall[c].op = "idle" /\ rvCount < MaxReviews
  /\ rvCount' = rvCount + 1
  /\ rvCall' = [rvCall EXCEPT ![c] = [op |-> op, doc |-> d, user |-> u, seen |-> rvStatus[d],
                                      was |-> rvReviewer[d]]]
  /\ rvOverlap' = IF Busy(d) THEN rvOverlap \cup {d} ELSE rvOverlap
  /\ UNCHANGED <<rvRequired, reviewRow, rvArchived, rvApprovals, rvRerun>>

OpenDecision(c, op, u, d) ==
  /\ op \in Decisions /\ rvRows[d] # "absent"
  /\ MayDecideInKB(u, d) \/ MayDecideUnit(u, d)
  /\ OpenReview(c, op, u, d)

OpenRevert(c, u, d) == MayRevert(u, d) /\ OpenReview(c, "revert", u, d)

\* process_document in its last transaction; the lock of the document keeps a
\* second run away.
OpenRun(c, d) ==
  /\ \A e \in RvCalls : rvCall[e].op = "submit" => rvCall[e].doc # d
  /\ OpenReview(c, "submit", NoUser, d)

\* What SQLAlchemy's UPDATE makes of a column: unchanged values are not written.
Written(old, seen, new) == IF new = seen THEN old ELSE new

SetReview(c, status, reviewer, rows) ==
  LET d == rvCall[c].doc IN
  /\ rvStatus'   = [rvStatus EXCEPT ![d] = Written(@, rvCall[c].seen, status)]
  /\ rvReviewer' = [rvReviewer EXCEPT ![d] = Written(@, rvCall[c].was, reviewer)]
  /\ rvRows'     = [rvRows EXCEPT ![d] = rows]
  /\ rvCall'     = [rvCall EXCEPT ![c] = NoCall]

EndReview(c) == rvCall' = [rvCall EXCEPT ![c] = NoCall] /\ UNCHANGED reviewRow

\* _set_chunks_excluded: an UPDATE of the rows there are.
Excluded(d, flag) ==
  IF rvRows[d] = "absent" THEN "absent" ELSE IF flag THEN "hidden" ELSE "shown"

CommitApproveHiding(c) ==   \* mutant: the flags are set as for a rejection
  /\ rvCall[c].op = "approve"
  /\ SetReview(c, "approved", rvCall[c].user, rvRows[rvCall[c].doc])
  /\ rvApprovals' = rvApprovals \cup {rvCall[c].doc}
  /\ UNCHANGED <<rvRequired, rvArchived, rvOverlap, rvRerun, rvCount>>
CommitApprove(c) ==
  LET d == rvCall[c].doc IN
  /\ rvCall[c].op = "approve"
  /\ IF Decidable(c)
       THEN /\ SetReview(c, "approved", rvCall[c].user, Excluded(d, FALSE))
            /\ rvApprovals' = rvApprovals \cup {d}
       ELSE EndReview(c) /\ UNCHANGED rvApprovals
  /\ UNCHANGED <<rvRequired, rvArchived, rvOverlap, rvRerun, rvCount>>

CommitReject(c) ==
  /\ rvCall[c].op = "reject"
  /\ IF Decidable(c)
       THEN SetReview(c, "rejected", rvCall[c].user, rvRows[rvCall[c].doc])
       ELSE EndReview(c)
  /\ UNCHANGED <<rvRequired, rvArchived, reviewPast, rvCount>>

\* request_re_review: whatever the status was, once the base asks for reviews.
CommitRevert(c) ==
  /\ rvCall[c].op = "revert"
  /\ IF rvRequired
       THEN SetReview(c, "pending", NoUser, Excluded(rvCall[c].doc, TRUE))
       ELSE EndReview(c)
  /\ UNCHANGED <<rvRequired, rvArchived, reviewPast, rvCount>>

\* The rows of the run replace those of the run before.  Only a document without
\* a review status is submitted, and only then are the new rows hidden.
Submits(c) == rvRequired /\ rvCall[c].seen = "none"
CommitRunVisible(c) ==   \* mutant: the rows are flagged by a later task
  /\ rvCall[c].op = "submit"
  /\ SetReview(c, IF Submits(c) THEN "pending" ELSE rvCall[c].seen,
                  IF Submits(c) THEN NoUser ELSE rvCall[c].was, "shown")
  /\ rvRerun' = IF Submits(c) THEN rvRerun ELSE rvRerun \cup {rvCall[c].doc}
  /\ UNCHANGED <<rvRequired, rvArchived, rvApprovals, rvOverlap, rvCount>>
CommitRun(c) ==
  LET d == rvCall[c].doc IN
  /\ rvCall[c].op = "submit"
  /\ SetReview(c, IF Submits(c) THEN "pending" ELSE rvCall[c].seen,
                  IF Submits(c) THEN NoUser ELSE rvCall[c].was,
                  IF Submits(c) THEN "hidden" ELSE "shown")
  /\ rvRerun' = IF Submits(c) THEN rvRerun ELSE rvRerun \cup {d}
  /\ UNCHANGED <<rvRequired, rvArchived, rvApprovals, rvOverlap, rvCount>>

RequireReview == /\ rvCount < MaxReviews /\ rvCount' = rvCount + 1
                 /\ rvRequired' = ~rvRequired
                 /\ UNCHANGED <<reviewRow, rvArchived, rvCall, reviewPast>>

ArchiveReviewed(d) ==
  /\ rvCount < MaxReviews /\ rvCount' = rvCount + 1
  /\ rvArchived' = IF d \in rvArchived THEN rvArchived \ {d} ELSE rvArchived \cup {d}
  /\ UNCHANGED <<rvRequired, reviewRow, rvCall, reviewPast>>

ReviewNext ==
  \/ \E c \in RvCalls, d \in RvDocs, u \in RvUsers :
       (\E op \in Decisions : OpenDecision(c, op, u, d)) \/ OpenRevert(c, u, d)
  \/ \E c \in RvCalls, d \in RvDocs : OpenRun(c, d)
  \/ \E c \in RvCalls : CommitApprove(c) \/ CommitReject(c) \/ CommitRevert(c) \/ CommitRun(c)
  \/ RequireReview \/ \E d \in RvDocs : ArchiveReviewed(d)

ReviewSpec == ReviewInit /\ [][ReviewNext]_reviewVars

-----------------------------------------------------------------------------
\* Rows of a document nobody has approved are not retrieved: those of the run that
\* submitted it stay hidden through every rejection, revert and overlap, until an
\* approval commits.  (A later run inserts its rows unflagged: rvRerun.)
UnapprovedHidden ==
  \A d \in RvDocs : rvStatus[d] # "none" /\ d \notin rvApprovals /\ d \notin rvRerun
                      => rvRows[d] # "shown"

\* The flags follow the decision, for a document whose calls never overlapped and
\* that was not processed again: what waits in a queue is not retrieved, what is
\* approved is, and hidden rows are rejected or archived or in front of every
\* reviewer other than the author.
FlagsFollowStatus ==
  \A d \in RvDocs \ (rvOverlap \cup rvRerun) :
    /\ d \in ReviewQueue => rvRows[d] # "shown"
    /\ rvStatus[d] = "approved" => rvRows[d] # "hidden"
    /\ rvStatus[d] \in {"approved", "rejected"} => rvReviewer[d] \notin {NoUser, Uploader[d]}
    /\ rvRows[d] = "hidden" => \/ rvStatus[d] = "rejected" \/ d \in rvArchived
                               \/ \A u \in Reviewers \ {Uploader[d]} : d \in PendingOf(u)
=============================================================================
