--------------------------- MODULE WorkflowExecution ---------------------------
(***************************************************************************)
(* Executions of workflows: rows of workflow_executions, the coroutines    *)
(* (drivers) that run the graph of one execution inside an API process,    *)
(* the resume and cancel requests, the cancel channel of Redis and the     *)
(* retention task.                                                         *)
(*                                                                         *)
(* A driver flushes status = running at its start and commits at its end,  *)
(* so the variables below, which are what Postgres has committed, never    *)
(* show "running"; what others see of a driver is its lock on the row.     *)
(* LangGraph writes its checkpoints over a connection of its own: a        *)
(* rollback of the driver does not undo them.                              *)
(***************************************************************************)
EXTENDS Integers

CONSTANTS
  Executions,   \* rows of workflow_executions
  Processes,    \* API processes
  Drivers,      \* coroutines that may run at the same time
  Cancels,      \* cancel requests that may be served at the same time
  None,         \* stands for "no execution", "no process", "no holder"
  MaxRequests,  \* bound: run, webhook, resume and cancel requests
  MaxFaults     \* bound: failures of the environment

ASSUME ExecutionAssumption ==
  /\ None \notin Executions \cup Processes \cup Drivers \cup Cancels
  /\ Drivers \cap Cancels = {}
  /\ MaxRequests \in Nat
  /\ MaxFaults \in Nat

VARIABLES
  status,    \* workflow_executions.status; "none": no row yet, "purged": deleted
  finished,  \* executions whose finished_at is set
  output,    \* the pass that wrote workflow_executions.output (0: NULL)
  nodes,     \* the passes that wrote the node_executions rows there are
  thread,    \* LangGraph's checkpoint of the execution's thread; "restarted": a second
             \* pass from the start of the graph has written over it
  holder,    \* who holds the lock of the row
  drv,       \* what each driver does
  can,       \* what each cancel request does
  msgs,      \* cancel messages on their way: <<process, execution>>
  requests,  \* requests so far
  faults     \* failures so far

row  == <<status, finished, output, nodes>>
vars == <<row, thread, holder, drv, can, msgs, requests, faults>>

Outcomes == {"succeeded", "failed", "waiting"}
Status   == Outcomes \cup {"none", "pending", "cancelled", "purged"}

\* What starts a driver.  "restart" is a resume without a value: the graph gets its
\* initial state and not a Command, so it begins anew on the same thread.
Firsts  == {"run", "webhook"}
Resumes == {"resume", "restart"}

DriverState == [pc : {"idle", "load", "mark", "graph", "finish"},
                exec : Executions \cup {None}, proc : Processes \cup {None},
                kind : Firsts \cup Resumes, pass : 0..MaxRequests,
                cancelled : BOOLEAN, result : Outcomes]
CancelState == [pc : {"idle", "update", "publish", "commit"},
                exec : Executions \cup {None}, proc : Processes \cup {None},
                hit : Drivers \cup {None}]

IdleDrv == [pc |-> "idle", exec |-> None, proc |-> None, kind |-> "run", pass |-> 0,
            cancelled |-> FALSE, result |-> "failed"]
IdleCan == [pc |-> "idle", exec |-> None, proc |-> None, hit |-> None]

Exists(x) == status[x] \notin {"none", "purged"}

NoFault == UNCHANGED faults
Fault   == faults < MaxFaults /\ faults' = faults + 1
Request == requests < MaxRequests /\ requests' = requests + 1

\* The drivers that task.cancel() reaches in process p through _live_tasks: those
\* of run_workflow.  Neither the webhook nor the resume registers its task.
LiveTasks(p, x) ==
  {d \in Drivers : drv[d].pc # "idle" /\ drv[d].kind = "run" /\ drv[d].proc = p
                                      /\ drv[d].exec = x}
CancelTasks(S) == drv' = [d \in Drivers |-> IF d \in S THEN [drv[d] EXCEPT !.cancelled = TRUE]
                                                       ELSE drv[d]]

\* The locks that remain when the transactions of the holders S end.
Unlocked(S) == [x \in Executions |-> IF holder[x] \in S THEN None ELSE holder[x]]

TypeOK ==
  /\ status \in [Executions -> Status]
  /\ finished \subseteq Executions
  /\ output \in [Executions -> 0..MaxRequests]
  /\ nodes \in [Executions -> SUBSET (0..MaxRequests)]
  /\ thread \in [Executions -> {"none", "interrupted", "done", "restarted"}]
  /\ holder \in [Executions -> Drivers \cup Cancels \cup {None}]
  /\ drv \in [Drivers -> DriverState]
  /\ can \in [Cancels -> CancelState]
  /\ msgs \subseteq Processes \X Executions
  /\ requests \in 0..MaxRequests /\ faults \in 0..MaxFaults

Init ==
  /\ status = [x \in Executions |-> "none"] /\ finished = {}
  /\ output = [x \in Executions |-> 0] /\ nodes = [x \in Executions |-> {}]
  /\ thread = [x \in Executions |-> "none"]
  /\ holder = [x \in Executions |-> None]
  /\ drv = [d \in Drivers |-> IdleDrv]
  /\ can = [c \in Cancels |-> IdleCan]
  /\ msgs = {} /\ requests = 0 /\ faults = 0

-----------------------------------------------------------------------------
(***************************************************************************)
(* Drivers.                                                                *)
(***************************************************************************)

Start(d, x, p, kind) ==
  drv' = [drv EXCEPT ![d] = [IdleDrv EXCEPT !.pc = "load", !.exec = x, !.proc = p,
                                            !.kind = kind, !.pass = requests + 1]]

\* run_workflow and trigger_webhook: commit the row, then create the driver.
CreateExecution(d, x, p, kind) ==
  /\ Request
  /\ drv[d].pc = "idle" /\ kind \in Firsts
  /\ status[x] = "none"
  /\ status' = [status EXCEPT ![x] = "pending"]
  /\ Start(d, x, p, kind)
  /\ UNCHANGED <<finished, output, nodes, thread, holder, can, msgs, faults>>

\* The resume endpoint: the status is checked here, and again by the driver.
ResumeExecution(d, x, p, kind) ==
  /\ Request
  /\ drv[d].pc = "idle" /\ kind \in Resumes
  /\ status[x] = "waiting"
  /\ Start(d, x, p, kind)
  /\ UNCHANGED <<row, thread, holder, can, msgs, faults>>

\* The driver reads the row in a session of its own.  Only a resume looks at the
\* status it finds.
LoadExecution(d) ==
  LET x == drv[d].exec
      go == Exists(x) /\ (drv[d].kind \in Resumes => status[x] = "waiting")
  IN  /\ drv[d].pc = "load" /\ ~drv[d].cancelled
      /\ drv' = [drv EXCEPT ![d] = IF go THEN [@ EXCEPT !.pc = "mark"] ELSE IdleDrv]
      /\ UNCHANGED <<row, thread, holder, can, msgs, requests, faults>>

\* Mutant: status = running is committed before the graph runs.
MarkRunningCommitted(d) ==
  LET x == drv[d].exec
  IN  /\ drv[d].pc = "mark" /\ ~drv[d].cancelled
      /\ holder[x] = None
      /\ drv' = [drv EXCEPT ![d] = IF Exists(x) THEN [@ EXCEPT !.pc = "graph"] ELSE IdleDrv]
      /\ status' = IF Exists(x) THEN [status EXCEPT ![x] = "running"] ELSE status
      /\ thread' = IF Exists(x) /\ drv[d].kind = "restart"
                   THEN [thread EXCEPT ![x] = "restarted"] ELSE thread
      /\ UNCHANGED <<finished, output, nodes, holder, can, msgs, requests, faults>>

\* UPDATE ... SET status = running: waits for the lock of the row and keeps it
\* until the driver's transaction ends.  A row purged meanwhile raises.  The first
\* checkpoint of a restart follows at once.
MarkRunning(d) ==
  LET x == drv[d].exec
  IN  /\ drv[d].pc = "mark" /\ ~drv[d].cancelled
      /\ holder[x] = None
      /\ drv' = [drv EXCEPT ![d] = IF Exists(x) THEN [@ EXCEPT !.pc = "graph"] ELSE IdleDrv]
      /\ holder' = IF Exists(x) THEN [holder EXCEPT ![x] = d] ELSE holder
      /\ thread' = IF Exists(x) /\ drv[d].kind = "restart"
                   THEN [thread EXCEPT ![x] = "restarted"] ELSE thread
      /\ UNCHANGED <<row, can, msgs, requests, faults>>

\* Mutant: an interrupt of the graph is taken for its end.
RunGraphToEnd(d) ==
  LET x == drv[d].exec
  IN  /\ drv[d].pc = "graph" /\ ~drv[d].cancelled
      /\ thread' = [thread EXCEPT ![x] = IF @ = "none" THEN "interrupted" ELSE @]
      /\ drv' = [drv EXCEPT ![d].pc = "finish", ![d].result = "succeeded"]
      /\ UNCHANGED <<row, holder, can, msgs, requests, faults>>

\* stream_execution: the graph ends, fails, or stops at a human_approval node; the
\* checkpoint is written first.  A thread that has ended is not interrupted again.
RunGraph(d) ==
  LET x == drv[d].exec
  IN  /\ drv[d].pc = "graph" /\ ~drv[d].cancelled
      /\ \E r \in Outcomes :
           /\ thread[x] = "done" => r # "waiting"
           /\ thread' = [thread EXCEPT ![x] = IF @ = "restarted" \/ r = "failed" THEN @
                                                ELSE IF r = "succeeded" THEN "done"
                                                ELSE "interrupted"]
           /\ drv' = [drv EXCEPT ![d] = [@ EXCEPT !.pc = "finish", !.result = r]]
      /\ UNCHANGED <<row, holder, can, msgs, requests, faults>>

\* The node rows of a pass: none when it failed (its outputs are {}).
NodeRows(d) == IF drv[d].result = "failed" THEN {} ELSE {drv[d].pass}

\* Mutant: a resume adds its node rows to those of the passes before it.
CommitRunKeeping(d) ==
  LET x == drv[d].exec
  IN  /\ drv[d].pc = "finish"
      /\ status' = [status EXCEPT ![x] = drv[d].result]
      /\ finished' = finished \cup {x}
      /\ output' = [output EXCEPT ![x] = drv[d].pass]
      /\ nodes' = [nodes EXCEPT ![x] = @ \cup NodeRows(d)]
      /\ holder' = Unlocked({d})
      /\ drv' = [drv EXCEPT ![d] = IdleDrv]
      /\ UNCHANGED <<thread, can, msgs, requests, faults>>

\* Final status, output, finished_at and node rows in the transaction of the
\* driver, and its commit.  Only a resume deletes the node rows there are.  A task
\* cancelled while its COMMIT is under way may commit all the same.
CommitRun(d) ==
  LET x == drv[d].exec
  IN  /\ drv[d].pc = "finish"
      /\ status' = [status EXCEPT ![x] = drv[d].result]
      /\ finished' = finished \cup {x}
      /\ output' = [output EXCEPT ![x] = drv[d].pass]
      /\ nodes' = [nodes EXCEPT ![x] = NodeRows(d) \cup (IF drv[d].kind \in Resumes THEN {} ELSE @)]
      /\ holder' = Unlocked({d})
      /\ drv' = [drv EXCEPT ![d] = IdleDrv]
      /\ UNCHANGED <<thread, can, msgs, requests, faults>>

\* Mutant: the session of an aborted driver keeps its transaction open.
AbortDriverOpen(d) ==
  /\ drv[d].pc # "idle"
  /\ (drv[d].cancelled /\ NoFault) \/ Fault
  /\ drv' = [drv EXCEPT ![d] = IdleDrv]
  /\ UNCHANGED <<row, thread, holder, can, msgs, requests>>

\* CancelledError, or an exception of the database: the session rolls back.
AbortDriver(d) ==
  /\ drv[d].pc # "idle"
  /\ (drv[d].cancelled /\ NoFault) \/ Fault
  /\ holder' = Unlocked({d})
  /\ drv' = [drv EXCEPT ![d] = IdleDrv]
  /\ UNCHANGED <<row, thread, can, msgs, requests>>

-----------------------------------------------------------------------------
(***************************************************************************)
(* Cancellation.                                                           *)
(***************************************************************************)

\* The driver that runs the graph of x.
InGraph(x) == {d \in Drivers : drv[d].pc = "graph" /\ drv[d].exec = x}

\* cancel_execution: cancel the task of this process, then update the row if it
\* is pending.
CancelExecution(c, x, p) ==
  /\ Request
  /\ can[c].pc = "idle"
  /\ Exists(x)
  /\ CancelTasks(LiveTasks(p, x))
  /\ \E h \in IF InGraph(x) = {} THEN {None} ELSE InGraph(x) :
       can' = [can EXCEPT ![c] = [pc |-> IF status[x] = "pending" THEN "update" ELSE "publish",
                                  exec |-> x, proc |-> p, hit |-> h]]
  /\ UNCHANGED <<row, thread, holder, msgs, faults>>

\* UPDATE ... SET status = cancelled: waits for the lock of the row.
CancelUpdate(c) ==
  LET x == can[c].exec
  IN  /\ can[c].pc = "update"
      /\ holder[x] = None
      /\ can' = [can EXCEPT ![c] = IF Exists(x) THEN [@ EXCEPT !.pc = "publish"] ELSE IdleCan]
      /\ holder' = IF Exists(x) THEN [holder EXCEPT ![x] = c] ELSE holder
      /\ UNCHANGED <<row, thread, drv, msgs, requests, faults>>

\* publish_cancel never raises; with Redis down nobody hears of it.
CancelPublish(c) ==
  /\ can[c].pc = "publish"
  /\ \/ msgs' = msgs \cup (Processes \X {can[c].exec}) /\ NoFault
     \/ Fault /\ UNCHANGED msgs
  /\ can' = [can EXCEPT ![c] = [@ EXCEPT !.pc = "commit"]]
  /\ UNCHANGED <<row, thread, holder, drv, requests>>

\* The commit of get_db.
CancelCommit(c) ==
  LET x == can[c].exec
  IN  /\ can[c].pc = "commit"
      /\ IF holder[x] = c
         THEN status' = [status EXCEPT ![x] = "cancelled"] /\ finished' = finished \cup {x}
         ELSE UNCHANGED <<status, finished>>
      /\ holder' = Unlocked({c})
      /\ can' = [can EXCEPT ![c] = IdleCan]
      /\ UNCHANGED <<output, nodes, thread, drv, msgs, requests, faults>>

\* The subscriber of process p takes a message off the channel.
ReceiveCancel(p, x) ==
  /\ <<p, x>> \in msgs
  /\ msgs' = msgs \ {<<p, x>>}
  /\ CancelTasks(LiveTasks(p, x))
  /\ UNCHANGED <<row, thread, holder, can, requests, faults>>

-----------------------------------------------------------------------------
(***************************************************************************)
(* Retention and crashes.                                                  *)
(***************************************************************************)

\* cleanup_old_executions, once finished_at is older than the retention period.
\* The DELETE waits for the lock of the row; node rows go by cascade.
PurgeExecution(x) ==
  /\ x \in finished
  /\ holder[x] = None
  /\ status' = [status EXCEPT ![x] = "purged"]
  /\ finished' = finished \ {x}
  /\ output' = [output EXCEPT ![x] = 0]
  /\ nodes' = [nodes EXCEPT ![x] = {}]
  /\ UNCHANGED <<thread, holder, drv, can, msgs, requests, faults>>

\* An API process dies: its coroutines are gone, Postgres rolls them back and
\* nothing looks at their executions when the process starts again.
CrashProcess(p) ==
  LET D == {d \in Drivers : drv[d].proc = p}
      C == {c \in Cancels : can[c].proc = p}
  IN  /\ Fault
      /\ D \cup C # {}
      /\ holder' = Unlocked(D \cup C)
      /\ drv' = [d \in Drivers |-> IF d \in D THEN IdleDrv ELSE drv[d]]
      /\ can' = [c \in Cancels |-> IF c \in C THEN IdleCan ELSE can[c]]
      /\ msgs' = {m \in msgs : m[1] # p}
      /\ UNCHANGED <<row, thread, requests>>

-----------------------------------------------------------------------------

DriverStep(d) ==
  LoadExecution(d) \/ MarkRunning(d) \/ RunGraph(d) \/ CommitRun(d) \/ AbortDriver(d)

CancelStep(c) == CancelUpdate(c) \/ CancelPublish(c) \/ CancelCommit(c)

Next ==
  \/ \E d \in Drivers : \/ \E x \in Executions, p \in Processes :
                             \/ \E kind \in Firsts : CreateExecution(d, x, p, kind)
                             \/ \E kind \in Resumes : ResumeExecution(d, x, p, kind)
                        \/ DriverStep(d)
  \/ \E c \in Cancels : \/ \E x \in Executions, p \in Processes : CancelExecution(c, x, p)
                        \/ CancelStep(c)
  \/ \E x \in Executions : \/ PurgeExecution(x)
                           \/ \E p \in Processes : ReceiveCancel(p, x)
  \/ \E p \in Processes : CrashProcess(p)

\* The clients a node calls have time limits and the event loop serves every
\* coroutine, so a driver and a cancel request that can go on do so.
Fairness ==
  /\ \A d \in Drivers : WF_vars(DriverStep(d))
  /\ \A c \in Cancels : WF_vars(CancelStep(c))

Spec == Init /\ [][Next]_vars
FairSpec == Spec /\ Fairness

\* The same without the time limits: a graph may take as long as it likes, everything
\* else goes on and messages arrive.
SlowGraphFairness ==
  /\ \A d \in Drivers : WF_vars(DriverStep(d) /\ drv[d].pc # "graph")
  /\ \A d \in Drivers : WF_vars(AbortDriver(d) /\ drv[d].cancelled)
  /\ \A c \in Cancels : WF_vars(CancelStep(c))
  /\ \A p \in Processes, x \in Executions : WF_vars(ReceiveCancel(p, x))
SlowGraphSpec == Spec /\ SlowGraphFairness

-----------------------------------------------------------------------------
(***************************************************************************)
(* Properties.                                                             *)
(***************************************************************************)

\* Nothing but the lock that the uncommitted status = running keeps on the row
\* stops two drivers of one execution (a resume that was sent twice) from running
\* its graph, on one checkpoint thread, at the same time.
OneGraphPerExecution ==
  \A d, e \in Drivers :
    /\ drv[d].pc \in {"graph", "finish"} /\ drv[e].pc \in {"graph", "finish"}
    /\ drv[d].exec = drv[e].exec
    => d = e

\* The node rows of an execution are those of the pass that wrote its output,
\* whatever passes, cancels and crashes came before.
NodeRowsMatchOutput == \A x \in Executions : nodes[x] \subseteq {output[x]}

\* The row is never ahead of the checkpoint: what it calls succeeded has reached
\* the end of the graph, what it calls waiting has stopped at an interrupt, unless a
\* resume without a value has written over the checkpoint.
RowNotAheadOfCheckpoint ==
  \A x \in Executions : /\ status[x] = "succeeded" => thread[x] \in {"done", "restarted"}
                        /\ status[x] = "waiting" => thread[x] # "none"

\* Drivers end and cancel requests are answered: nobody waits for the lock of a
\* row forever.
DriversEnd == \A d \in Drivers : drv[d].pc # "idle" ~> drv[d].pc = "idle"
CancelsAnswered == \A c \in Cancels : can[c].pc # "idle" ~> can[c].pc = "idle"

\* Nobody waits forever, neither a driver nor a request to cancel.
RequestsEnd == DriversEnd /\ CancelsAnswered

\* "Fans out cancellation to all workers" (cancel_bus): a run of run_workflow that was
\* in its graph when the cancel request came is told, or through, sooner or later.
CancelReachesRun ==
  \A c \in Cancels, d \in Drivers :
    can[c].hit = d /\ drv[d].kind = "run" /\ drv[d].pc = "graph"
      ~> drv[d].pc # "graph" \/ drv[d].cancelled

\* "Precondition: execution.status == waiting" (resume_execution): a resume enters
\* the graph of an execution that waits.
ResumesOnlyWaiting ==
  \A d \in Drivers :
    drv[d].pc = "graph" /\ drv[d].kind \in Resumes => status[drv[d].exec] = "waiting"

\* "Only purge terminal rows" (cleanup_old_executions).
PurgesOnlyTerminal ==
  [][\A x \in Executions : status[x] = "waiting" => status'[x] # "purged"]_vars

=============================================================================
