---------------------------- MODULE DocumentContent ----------------------------
(***************************************************************************)
(* What the document pipeline promises of a document: its status and the   *)
(* content (the batches of chunk rows) that is published for it.  Content  *)
(* is withdrawn only while the document is being processed or removed, and *)
(* published by the same step that completes the document.                 *)
(*                                                                         *)
(* The promise has one hole, and it is the code's: a document removed      *)
(* while a run is about to publish leaves stranded content behind.         *)
(***************************************************************************)
EXTENDS Naturals

CONSTANT Docs

VARIABLES
  status,   \* status of the document
  serial,   \* number of the last batch published for the document
  content   \* numbers of the batches that can be read

vars == <<status, serial, content>>

Present == {"pending", "processing", "completed", "error"}

TypeOK ==
  /\ status \in [Docs -> Present \cup {"none", "deleted"}]
  /\ serial \in [Docs -> Nat]
  /\ content \in [Docs -> SUBSET Nat]

Init ==
  /\ status = [d \in Docs |-> "none"]
  /\ serial = [d \in Docs |-> 0]
  /\ content = [d \in Docs |-> {}]

\* An upload is committed, or rolled back.
Create(d) ==
  /\ status[d] = "none"
  /\ \E s \in {"pending", "deleted"} : status' = [status EXCEPT ![d] = s]
  /\ UNCHANGED <<serial, content>>

\* A run takes the document.
Claim(d) ==
  /\ status[d] \in Present
  /\ status' = [status EXCEPT ![d] = "processing"]
  /\ UNCHANGED <<serial, content>>

\* The run withdraws what an earlier run published; a document removed since
\* the run began loses what its removal left.
Withdraw(d) ==
  /\ status[d] \in {"processing", "error", "deleted"}
  /\ content' = [content EXCEPT ![d] = {}]
  /\ UNCHANGED <<status, serial>>

\* The run publishes a new batch in place of nothing.  It completes the
\* document, even one a sweep has failed meanwhile, unless it has been removed:
\* then the batch is stranded.
Publish(d) ==
  /\ status[d] \in {"processing", "error", "deleted"}
  /\ content[d] = {}
  /\ serial' = [serial EXCEPT ![d] = @ + 1]
  /\ content' = [content EXCEPT ![d] = {serial[d] + 1}]
  /\ status' = [status EXCEPT ![d] = IF @ = "deleted" THEN @ ELSE "completed"]

\* Runs fail, or the consistency scan fails documents.
Fail(S) ==
  /\ \A d \in S : status[d] \in Present
  /\ status' = [d \in Docs |-> IF d \in S THEN "error" ELSE status[d]]
  /\ UNCHANGED <<serial, content>>

\* The document is removed with its content; a batch published since the
\* removal began stays.
Remove(d) ==
  /\ status[d] # "none"
  /\ status' = [status EXCEPT ![d] = "deleted"]
  /\ content' \in {content, [content EXCEPT ![d] = {}]}
  /\ UNCHANGED serial

Next ==
  \/ \E d \in Docs : Create(d) \/ Claim(d) \/ Withdraw(d) \/ Publish(d) \/ Remove(d)
  \/ \E S \in SUBSET Docs : Fail(S)

Spec == Init /\ [][Next]_vars

\* Nothing but the latest batch of a document can ever be read, and a completed
\* document has it.
LatestContent ==
  \A d \in Docs : /\ content[d] \subseteq {serial[d]}
                  /\ status[d] = "completed" => content[d] = {serial[d]}

=============================================================================
