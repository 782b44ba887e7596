------------------------ MODULE WorkflowExecutionProofs ------------------------
(***************************************************************************)
(* Theorems about WorkflowExecution for every number of executions,        *)
(* processes, drivers and cancel requests, and for every bound.            *)
(***************************************************************************)
EXTENDS WorkflowExecution, TLAPS

USE DEF Firsts, Resumes

\* A driver or a cancel request that is not idle has an execution.
ActorsHaveExecutions ==
  /\ \A d \in Drivers : drv[d].pc # "idle" => drv[d].exec \in Executions
  /\ \A c \in Cancels : can[c].pc # "idle" => can[c].exec \in Executions

TypeInv == TypeOK /\ ActorsHaveExecutions

-----------------------------------------------------------------------------
(***************************************************************************)
(* Type correctness.                                                       *)
(***************************************************************************)

\* Initially every variable has its type.
LEMMA TypeInit == Init => TypeInv
  BY ExecutionAssumption
  DEF Init, TypeInv, ActorsHaveExecutions, TypeOK, Status, Outcomes, IdleDrv, IdleCan,
      DriverState, CancelState

\* The states of an actor are closed under the updates the actions make.
LEMMA ActorStates ==
  /\ IdleDrv \in DriverState /\ IdleCan \in CancelState
  /\ \A s \in DriverState :
       /\ [s EXCEPT !.pc = "mark"] \in DriverState
       /\ [s EXCEPT !.pc = "graph"] \in DriverState
       /\ [s EXCEPT !.cancelled = TRUE] \in DriverState
       /\ \A r \in Outcomes : [s EXCEPT !.pc = "finish", !.result = r] \in DriverState
  /\ \A s \in CancelState : /\ [s EXCEPT !.pc = "publish"] \in CancelState
                            /\ [s EXCEPT !.pc = "commit"] \in CancelState
<1>1. IdleDrv \in DriverState /\ IdleCan \in CancelState
  BY ExecutionAssumption DEF IdleDrv, IdleCan, DriverState, CancelState, Outcomes
<1>2. ASSUME NEW s \in DriverState
      PROVE  /\ [s EXCEPT !.pc = "mark"] \in DriverState
             /\ [s EXCEPT !.pc = "graph"] \in DriverState
             /\ [s EXCEPT !.cancelled = TRUE] \in DriverState
             /\ \A r \in Outcomes : [s EXCEPT !.pc = "finish", !.result = r] \in DriverState
  BY <1>2 DEF DriverState
<1>3. ASSUME NEW s \in CancelState
      PROVE  /\ [s EXCEPT !.pc = "publish"] \in CancelState
             /\ [s EXCEPT !.pc = "commit"] \in CancelState
  BY <1>3 DEF CancelState
<1> QED
  BY <1>1, <1>2, <1>3

\* A new driver is a driver state, whatever it is started for.
LEMMA StartedState ==
  ASSUME TypeInv, Request, NEW x \in Executions, NEW p \in Processes,
         NEW kind \in Firsts \cup Resumes
  PROVE  [IdleDrv EXCEPT !.pc = "load", !.exec = x, !.proc = p, !.kind = kind,
                         !.pass = requests + 1] \in DriverState
<1>1. requests + 1 \in 0..MaxRequests
  BY ExecutionAssumption DEF TypeInv, TypeOK, Request
<1> QED
  BY <1>1 DEF IdleDrv, DriverState, Outcomes

\* Every step keeps every variable in its type.
LEMMA TypeStep ==
  ASSUME TypeInv, [Next]_vars
  PROVE  TypeInv'
<1> USE ExecutionAssumption DEF TypeInv, TypeOK
<1>i. IdleDrv.pc = "idle" /\ IdleCan.pc = "idle"
  BY DEF IdleDrv, IdleCan
<1>1. ASSUME NEW d \in Drivers, NEW x \in Executions, NEW p \in Processes,
             NEW kind \in Firsts, CreateExecution(d, x, p, kind)
      PROVE  TypeInv'
  <2>1. drv' \in [Drivers -> DriverState]
    BY <1>1, StartedState, ActorStates DEF CreateExecution, Start
  <2>2. ActorsHaveExecutions'
    BY <1>1 DEF CreateExecution, Start, IdleDrv, ActorsHaveExecutions
  <2> QED
    BY <1>1, <2>1, <2>2 DEF CreateExecution, Request, Status
<1>2. ASSUME NEW d \in Drivers, NEW x \in Executions, NEW p \in Processes,
             NEW kind \in Resumes, ResumeExecution(d, x, p, kind)
      PROVE  TypeInv'
  <2>1. drv' \in [Drivers -> DriverState]
    BY <1>2, StartedState, ActorStates DEF ResumeExecution, Start
  <2>2. ActorsHaveExecutions'
    BY <1>2 DEF ResumeExecution, Start, IdleDrv, ActorsHaveExecutions
  <2> QED
    BY <1>2, <2>1, <2>2 DEF ResumeExecution, Request, row
<1>3. ASSUME NEW d \in Drivers, LoadExecution(d)
      PROVE  TypeInv'
  <2>1. drv' \in [Drivers -> DriverState]
    BY <1>3, ActorStates DEF LoadExecution
  <2>2. ActorsHaveExecutions'
    BY <1>3, <1>i DEF LoadExecution, ActorsHaveExecutions
  <2> QED
    BY <1>3, <2>1, <2>2 DEF LoadExecution, row
<1>4. ASSUME NEW d \in Drivers, MarkRunning(d)
      PROVE  TypeInv'
  <2>1. drv' \in [Drivers -> DriverState]
    BY <1>4, ActorStates DEF MarkRunning
  <2>2. ActorsHaveExecutions'
    BY <1>4, <1>i DEF MarkRunning, ActorsHaveExecutions
  <2> QED
    BY <1>4, <2>1, <2>2 DEF MarkRunning, row
<1>5. ASSUME NEW d \in Drivers, RunGraph(d)
      PROVE  TypeInv'
  <2>1. PICK r \in Outcomes :
           /\ thread' = [thread EXCEPT ![drv[d].exec] =
                           IF @ = "restarted" \/ r = "failed" THEN @
                           ELSE IF r = "succeeded" THEN "done" ELSE "interrupted"]
           /\ drv' = [drv EXCEPT ![d] = [@ EXCEPT !.pc = "finish", !.result = r]]
    BY <1>5 DEF RunGraph
  <2>2. drv' \in [Drivers -> DriverState]
    BY <2>1, ActorStates
  <2>3. ActorsHaveExecutions'
    BY <1>5, <2>1 DEF RunGraph, ActorsHaveExecutions, DriverState
  <2>4. thread' \in [Executions -> {"none", "interrupted", "done", "restarted"}]
    BY <2>1
  <2> QED
    BY <1>5, <2>2, <2>3, <2>4 DEF RunGraph, row
<1>6. ASSUME NEW d \in Drivers, CommitRun(d)
      PROVE  TypeInv'
  <2>1. drv[d].result \in Outcomes /\ drv[d].pass \in 0..MaxRequests
    BY DEF DriverState
  <2>2. NodeRows(d) \subseteq 0..MaxRequests
    BY <2>1 DEF NodeRows
  <2>3. drv[d].exec \in Executions
    BY <1>6 DEF CommitRun, ActorsHaveExecutions
  <2>4. drv' \in [Drivers -> DriverState]
    BY <1>6, ActorStates DEF CommitRun
  <2>5. ActorsHaveExecutions'
    BY <1>6, <1>i DEF CommitRun, ActorsHaveExecutions
  <2>6. holder' \in [Executions -> Drivers \cup Cancels \cup {None}]
    BY <1>6 DEF CommitRun, Unlocked
  <2>7. nodes' \in [Executions -> SUBSET (0..MaxRequests)]
    BY <1>6, <2>2, <2>3 DEF CommitRun
  <2> QED
    BY <1>6, <2>1, <2>3, <2>4, <2>5, <2>6, <2>7 DEF CommitRun, Status
<1>7. ASSUME NEW d \in Drivers, AbortDriver(d)
      PROVE  TypeInv'
  <2>1. drv' \in [Drivers -> DriverState]
    BY <1>7, ActorStates DEF AbortDriver
  <2>2. ActorsHaveExecutions'
    BY <1>7, <1>i DEF AbortDriver, ActorsHaveExecutions
  <2>3. holder' \in [Executions -> Drivers \cup Cancels \cup {None}]
    BY <1>7 DEF AbortDriver, Unlocked
  <2>4. faults' \in 0..MaxFaults
    BY <1>7 DEF AbortDriver, NoFault, Fault
  <2> QED
    BY <1>7, <2>1, <2>2, <2>3, <2>4 DEF AbortDriver, row
<1>8. ASSUME NEW c \in Cancels, NEW x \in Executions, NEW p \in Processes,
             CancelExecution(c, x, p)
      PROVE  TypeInv'
  <2>1. drv' \in [Drivers -> DriverState]
    BY <1>8, ActorStates DEF CancelExecution, CancelTasks
  <2>2. PICK h \in Drivers \cup {None}, q \in {"update", "publish"} :
           can' = [can EXCEPT ![c] = [pc |-> q, exec |-> x, proc |-> p, hit |-> h]]
    BY <1>8 DEF CancelExecution, InGraph
  <2>3. can' \in [Cancels -> CancelState]
    BY <2>2, ActorStates DEF CancelState
  <2>4. \A d \in Drivers : drv'[d].pc = drv[d].pc /\ drv'[d].exec = drv[d].exec
    BY <1>8 DEF CancelExecution, CancelTasks, DriverState
  <2>5. ActorsHaveExecutions'
    BY <1>8, <2>2, <2>4 DEF CancelExecution, ActorsHaveExecutions
  <2> QED
    BY <1>8, <2>1, <2>3, <2>5 DEF CancelExecution, Request, row
<1>9. ASSUME NEW c \in Cancels, CancelUpdate(c)
      PROVE  TypeInv'
  <2>1. can' \in [Cancels -> CancelState]
    BY <1>9, ActorStates DEF CancelUpdate
  <2>2. ActorsHaveExecutions'
    BY <1>9, <1>i DEF CancelUpdate, ActorsHaveExecutions
  <2> QED
    BY <1>9, <2>1, <2>2 DEF CancelUpdate, row
<1>10. ASSUME NEW c \in Cancels, CancelPublish(c)
      PROVE  TypeInv'
  <2>1. can[c].exec \in Executions
    BY <1>10 DEF CancelPublish, ActorsHaveExecutions
  <2>2. can' \in [Cancels -> CancelState]
    BY <1>10, ActorStates DEF CancelPublish
  <2>3. ActorsHaveExecutions'
    BY <1>10, <2>1 DEF CancelPublish, ActorsHaveExecutions, CancelState
  <2> QED
    BY <1>10, <2>1, <2>2, <2>3 DEF CancelPublish, NoFault, Fault, row
<1>11. ASSUME NEW c \in Cancels, CancelCommit(c)
      PROVE  TypeInv'
  <2>1. can[c].exec \in Executions
    BY <1>11 DEF CancelCommit, ActorsHaveExecutions
  <2>2. can' \in [Cancels -> CancelState]
    BY <1>11, ActorStates DEF CancelCommit
  <2>3. ActorsHaveExecutions'
    BY <1>11, <1>i DEF CancelCommit, ActorsHaveExecutions
  <2>4. holder' \in [Executions -> Drivers \cup Cancels \cup {None}]
    BY <1>11 DEF CancelCommit, Unlocked
  <2>5. status' \in [Executions -> Status] /\ finished' \subseteq Executions
    BY <1>11, <2>1 DEF CancelCommit, Status
  <2> QED
    BY <1>11, <2>1, <2>2, <2>3, <2>4, <2>5 DEF CancelCommit
<1>12. ASSUME NEW p \in Processes, NEW x \in Executions, ReceiveCancel(p, x)
      PROVE  TypeInv'
  <2>1. drv' \in [Drivers -> DriverState]
    BY <1>12, ActorStates DEF ReceiveCancel, CancelTasks
  <2>2. \A d \in Drivers : drv'[d].pc = drv[d].pc /\ drv'[d].exec = drv[d].exec
    BY <1>12 DEF ReceiveCancel, CancelTasks, DriverState
  <2>3. ActorsHaveExecutions'
    BY <1>12, <2>2 DEF ReceiveCancel, ActorsHaveExecutions
  <2> QED
    BY <1>12, <2>1, <2>3 DEF ReceiveCancel, row
<1>13. ASSUME NEW x \in Executions, PurgeExecution(x)
      PROVE  TypeInv'
  BY <1>13 DEF PurgeExecution, Status, ActorsHaveExecutions
<1>14. ASSUME NEW p \in Processes, CrashProcess(p)
      PROVE  TypeInv'
  <2>1. drv' \in [Drivers -> DriverState] /\ can' \in [Cancels -> CancelState]
    BY <1>14, ActorStates DEF CrashProcess
  <2>2. ActorsHaveExecutions'
    BY <1>14, <1>i DEF CrashProcess, ActorsHaveExecutions
  <2>3. holder' \in [Executions -> Drivers \cup Cancels \cup {None}]
    BY <1>14 DEF CrashProcess, Unlocked
  <2> QED
    BY <1>14, <2>1, <2>2, <2>3 DEF CrashProcess, Fault, row
<1>15. CASE UNCHANGED vars
  BY <1>15 DEF vars, row, ActorsHaveExecutions
<1> QED
  BY <1>1, <1>2, <1>3, <1>4, <1>5, <1>6, <1>7, <1>8, <1>9, <1>10, <1>11, <1>12, <1>13,
     <1>14, <1>15
  DEF Next, DriverStep, CancelStep

\* The type invariant: whatever requests, cancels, crashes and purges do, the columns of
\* a row keep values of their type, and an aborted actor holds no lock of an unknown row.
THEOREM ExecutionTypeCorrect == Spec => []TypeOK
<1>1. TypeInv /\ [Next]_vars => TypeInv'
  BY TypeStep
<1> QED
  BY TypeInit, <1>1, PTL DEF Spec, TypeInv

-----------------------------------------------------------------------------
(***************************************************************************)
(* One driver at a time runs the graph of an execution.                    *)
(***************************************************************************)

\* A driver that runs the graph, or is about to commit, holds the lock of its row.
HolderInv ==
  \A d \in Drivers : drv[d].pc \in {"graph", "finish"} => holder[drv[d].exec] = d

\* The invariant implies mutual exclusion: a lock has one holder.
LEMMA HolderExcludes == HolderInv => OneGraphPerExecution
  BY DEF HolderInv, OneGraphPerExecution

\* Only MarkRunning brings a driver into its graph, and it takes the lock; the locks
\* that others give up or take are their own or free.
LEMMA HolderStep ==
  ASSUME TypeInv, HolderInv, [Next]_vars
  PROVE  HolderInv'
<1> USE ExecutionAssumption DEF TypeInv, TypeOK, HolderInv
<1>i. IdleDrv.pc = "idle"
  BY DEF IdleDrv
<1>1. ASSUME NEW d \in Drivers, NEW x \in Executions, NEW p \in Processes,
             NEW kind \in Firsts, CreateExecution(d, x, p, kind)
      PROVE  HolderInv'
  BY <1>1 DEF CreateExecution, Start, IdleDrv
<1>2. ASSUME NEW d \in Drivers, NEW x \in Executions, NEW p \in Processes,
             NEW kind \in Resumes, ResumeExecution(d, x, p, kind)
      PROVE  HolderInv'
  BY <1>2 DEF ResumeExecution, Start, IdleDrv
<1>3. ASSUME NEW d \in Drivers, LoadExecution(d)
      PROVE  HolderInv'
  BY <1>3, <1>i DEF LoadExecution, DriverState
<1>4. ASSUME NEW d \in Drivers, MarkRunning(d)
      PROVE  HolderInv'
  BY <1>4, <1>i DEF MarkRunning, DriverState, ActorsHaveExecutions
<1>5. ASSUME NEW d \in Drivers, RunGraph(d)
      PROVE  HolderInv'
  BY <1>5 DEF RunGraph, DriverState
<1>6. ASSUME NEW d \in Drivers, CommitRun(d)
      PROVE  HolderInv'
  BY <1>6, <1>i DEF CommitRun, Unlocked, ActorsHaveExecutions
<1>7. ASSUME NEW d \in Drivers, AbortDriver(d)
      PROVE  HolderInv'
  BY <1>7, <1>i DEF AbortDriver, Unlocked, ActorsHaveExecutions
<1>8. ASSUME NEW S \in SUBSET Drivers, CancelTasks(S), UNCHANGED holder
      PROVE  HolderInv'
  BY <1>8 DEF CancelTasks, DriverState
<1>8a. ASSUME NEW c \in Cancels, NEW x \in Executions, NEW p \in Processes, CancelExecution(c, x, p)
      PROVE  HolderInv'
  BY <1>8a, <1>8 DEF CancelExecution, LiveTasks
<1>8b. ASSUME NEW p \in Processes, NEW x \in Executions, ReceiveCancel(p, x)
      PROVE  HolderInv'
  BY <1>8b, <1>8 DEF ReceiveCancel, LiveTasks
<1>9. ASSUME NEW c \in Cancels, CancelUpdate(c)
      PROVE  HolderInv'
  BY <1>9 DEF CancelUpdate, ActorsHaveExecutions
<1>10. ASSUME NEW c \in Cancels, CancelPublish(c)
      PROVE  HolderInv'
  BY <1>10 DEF CancelPublish
<1>11. ASSUME NEW c \in Cancels, CancelCommit(c)
      PROVE  HolderInv'
  BY <1>11 DEF CancelCommit, Unlocked, ActorsHaveExecutions
<1>12. ASSUME NEW x \in Executions, PurgeExecution(x)
      PROVE  HolderInv'
  BY <1>12 DEF PurgeExecution
<1>13. ASSUME NEW p \in Processes, CrashProcess(p)
      PROVE  HolderInv'
  BY <1>13, <1>i DEF CrashProcess, Unlocked, ActorsHaveExecutions
<1>14. CASE UNCHANGED vars
  BY <1>14 DEF vars
<1> QED
  BY <1>1, <1>2, <1>3, <1>4, <1>5, <1>6, <1>7, <1>8a, <1>8b, <1>9, <1>10, <1>11, <1>12, <1>13, <1>14
  DEF Next, DriverStep, CancelStep

\* Two drivers of one execution, be it by a resume that was sent twice, never run its
\* graph at the same time (MarkRunning keeps the lock of the row).
THEOREM GraphMutualExclusion == Spec => []OneGraphPerExecution
<1>1. Init => HolderInv
  BY DEF Init, HolderInv, IdleDrv
<1>2. TypeInv /\ [Next]_vars => TypeInv'
  BY TypeStep
<1>3. TypeInv /\ HolderInv /\ [Next]_vars => HolderInv'
  BY HolderStep
<1> QED
  BY TypeInit, <1>1, <1>2, <1>3, HolderExcludes, PTL DEF Spec

-----------------------------------------------------------------------------
(***************************************************************************)
(* Node rows follow the output.                                            *)
(***************************************************************************)

\* The driver of a run or webhook is the only driver of its execution, and its
\* execution has no node rows yet; no driver belongs to a row that is not there.
FirstPassInv ==
  /\ \A d \in Drivers : drv[d].pc # "idle" /\ drv[d].kind \in Firsts
       => /\ status[drv[d].exec] \in {"pending", "cancelled", "purged"}
          /\ nodes[drv[d].exec] = {}
  /\ \A d, e \in Drivers :
       /\ drv[d].pc # "idle" /\ drv[e].pc # "idle"
       /\ drv[d].kind \in Firsts /\ drv[d].exec = drv[e].exec
       => d = e
  /\ \A d \in Drivers : drv[d].pc # "idle" => status[drv[d].exec] # "none"
  /\ \A x \in Executions : status[x] = "none" => nodes[x] = {}

NodesInv == FirstPassInv /\ NodeRowsMatchOutput

\* A step that leaves rows alone and starts no driver keeps the invariant.
LEMMA NodesFrame ==
  ASSUME TypeInv, NodesInv, UNCHANGED <<status, output, nodes>>,
         \A d \in Drivers : drv'[d].pc # "idle" => /\ drv[d].pc # "idle"
                                                   /\ drv'[d].exec = drv[d].exec
                                                   /\ drv'[d].kind = drv[d].kind
  PROVE  NodesInv'
  BY DEF NodesInv, FirstPassInv, NodeRowsMatchOutput

\* A resume replaces the node rows, and the first pass of an execution finds none.
LEMMA NodesStep ==
  ASSUME TypeInv, NodesInv, [Next]_vars
  PROVE  NodesInv'
<1> USE ExecutionAssumption DEF TypeInv, TypeOK
<1>i. IdleDrv.pc = "idle"
  BY DEF IdleDrv
<1>1. ASSUME NEW d \in Drivers, NEW x \in Executions, NEW p \in Processes,
             NEW kind \in Firsts, CreateExecution(d, x, p, kind)
      PROVE  NodesInv'
  <2>1. /\ drv'[d].exec = x /\ drv'[d].kind = kind
        /\ \A e \in Drivers : e # d => drv'[e] = drv[e]
        /\ status[x] = "none" /\ status' = [status EXCEPT ![x] = "pending"]
        /\ UNCHANGED <<output, nodes>>
    BY <1>1 DEF CreateExecution, Start, IdleDrv
  <2>2. \A e \in Drivers : e # d /\ drv'[e].pc # "idle" => drv'[e].exec # x
    BY <2>1 DEF NodesInv, FirstPassInv
  <2> QED
    BY <2>1, <2>2, <1>1 DEF NodesInv, FirstPassInv, NodeRowsMatchOutput, ActorsHaveExecutions
<1>2. ASSUME NEW d \in Drivers, NEW x \in Executions, NEW p \in Processes,
             NEW kind \in Resumes, ResumeExecution(d, x, p, kind)
      PROVE  NodesInv'
  <2>1. /\ drv'[d].exec = x /\ drv'[d].kind \in Resumes
        /\ \A e \in Drivers : e # d => drv'[e] = drv[e]
        /\ status[x] = "waiting" /\ UNCHANGED <<status, output, nodes>>
    BY <1>2 DEF ResumeExecution, Start, IdleDrv, row
  <2>2. \A e \in Drivers : e # d /\ drv'[e].pc # "idle" /\ drv'[e].kind \in Firsts
                             => drv'[e].exec # x
    BY <2>1 DEF NodesInv, FirstPassInv
  <2>3. \A e \in Drivers : drv'[e].pc # "idle" /\ drv'[e].kind \in Firsts
                             => e # d /\ drv'[e] = drv[e]
    BY <2>1
  <2> HIDE DEF TypeInv, TypeOK
  <2>4. \A e \in Drivers : drv'[e].pc # "idle" /\ drv'[e].kind \in Firsts
                             => /\ status'[drv'[e].exec] \in {"pending", "cancelled", "purged"}
                                /\ nodes'[drv'[e].exec] = {}
    BY <2>1, <2>3 DEF NodesInv, FirstPassInv
  <2>5. \A e \in Drivers : drv'[e].pc # "idle" => status'[drv'[e].exec] # "none"
    BY <2>1 DEF NodesInv, FirstPassInv
  <2>6. ASSUME NEW e \in Drivers, NEW f \in Drivers, drv'[e].pc # "idle", drv'[f].pc # "idle",
               drv'[e].kind \in Firsts, drv'[e].exec = drv'[f].exec
        PROVE  e = f
    <3>1. e # d /\ f # d
      BY <2>1, <2>2, <2>6
    <3> QED
      BY <3>1, <2>1, <2>6 DEF NodesInv, FirstPassInv
  <2>7. FirstPassInv'
    BY <2>1, <2>4, <2>5, <2>6 DEF NodesInv, FirstPassInv
  <2> QED
    BY <2>1, <2>7 DEF NodesInv, NodeRowsMatchOutput
<1>3. ASSUME NEW d \in Drivers, LoadExecution(d)
      PROVE  NodesInv'
  BY <1>3, <1>i, NodesFrame DEF LoadExecution, DriverState, row
<1>4. ASSUME NEW d \in Drivers, MarkRunning(d)
      PROVE  NodesInv'
  BY <1>4, <1>i, NodesFrame DEF MarkRunning, DriverState, row
<1>5. ASSUME NEW d \in Drivers, RunGraph(d)
      PROVE  NodesInv'
  BY <1>5, NodesFrame DEF RunGraph, DriverState, row
<1>6. ASSUME NEW d \in Drivers, CommitRun(d)
      PROVE  NodesInv'
  <2> DEFINE x == drv[d].exec
  <2>1. /\ x \in Executions /\ drv[d].pc # "idle"
        /\ drv'[d].pc = "idle" /\ \A e \in Drivers : e # d => drv'[e] = drv[e]
        /\ status' = [status EXCEPT ![x] = drv[d].result]
        /\ output' = [output EXCEPT ![x] = drv[d].pass]
        /\ nodes' = [nodes EXCEPT ![x] = NodeRows(d) \cup (IF drv[d].kind \in Resumes THEN {} ELSE @)]
    BY <1>6, <1>i DEF CommitRun, ActorsHaveExecutions
  <2>2. nodes'[x] = NodeRows(d)
    <3>1. CASE drv[d].kind \in Firsts
      BY <2>1, <3>1 DEF NodesInv, FirstPassInv
    <3>2. CASE drv[d].kind \in Resumes
      BY <2>1, <3>2
    <3> QED
      BY <3>1, <3>2 DEF DriverState
  <2>3. NodeRows(d) \subseteq {output'[x]}
    BY <2>1 DEF NodeRows
  <2>4. \A e \in Drivers : drv'[e].pc # "idle" /\ drv'[e].kind \in Firsts => drv'[e].exec # x
    BY <2>1 DEF NodesInv, FirstPassInv
  <2>5. status'[x] # "none"
    BY <2>1 DEF DriverState, Outcomes
  <2>6. \A y \in Executions : y # x => /\ status'[y] = status[y] /\ output'[y] = output[y]
                                       /\ nodes'[y] = nodes[y]
    BY <2>1
  <2> HIDE DEF x
  <2>7. NodeRowsMatchOutput'
    BY <2>2, <2>3, <2>6 DEF NodesInv, NodeRowsMatchOutput
  <2>8. FirstPassInv'
    BY <2>1, <2>4, <2>5, <2>6 DEF NodesInv, FirstPassInv, ActorsHaveExecutions
  <2> QED
    BY <2>7, <2>8 DEF NodesInv
<1>7. ASSUME NEW d \in Drivers, AbortDriver(d)
      PROVE  NodesInv'
  BY <1>7, <1>i, NodesFrame DEF AbortDriver, row
<1>8. ASSUME NEW S \in SUBSET Drivers, CancelTasks(S), UNCHANGED row
      PROVE  NodesInv'
  BY <1>8, NodesFrame DEF CancelTasks, DriverState, row
<1>8a. ASSUME NEW c \in Cancels, NEW x \in Executions, NEW p \in Processes, CancelExecution(c, x, p)
      PROVE  NodesInv'
  BY <1>8a, <1>8 DEF CancelExecution, LiveTasks, row
<1>8b. ASSUME NEW p \in Processes, NEW x \in Executions, ReceiveCancel(p, x)
      PROVE  NodesInv'
  BY <1>8b, <1>8 DEF ReceiveCancel, LiveTasks, row
<1>9. ASSUME NEW c \in Cancels, CancelUpdate(c) \/ CancelPublish(c)
      PROVE  NodesInv'
  BY <1>9, NodesFrame DEF CancelUpdate, CancelPublish, row
<1>10. ASSUME NEW c \in Cancels, CancelCommit(c)
      PROVE  NodesInv'
  <2> DEFINE x == can[c].exec
  <2>1. x \in Executions /\ UNCHANGED <<output, nodes, drv>>
    BY <1>10 DEF CancelCommit, ActorsHaveExecutions
  <2>2. \/ UNCHANGED status
        \/ status' = [status EXCEPT ![x] = "cancelled"]
    BY <1>10 DEF CancelCommit
  <2> HIDE DEF x
  <2> QED
    BY <2>1, <2>2 DEF NodesInv, FirstPassInv, NodeRowsMatchOutput, ActorsHaveExecutions
<1>11. ASSUME NEW x \in Executions, PurgeExecution(x)
      PROVE  NodesInv'
  BY <1>11 DEF PurgeExecution, NodesInv, FirstPassInv, NodeRowsMatchOutput, ActorsHaveExecutions
<1>12. ASSUME NEW p \in Processes, CrashProcess(p)
      PROVE  NodesInv'
  BY <1>12, <1>i, NodesFrame DEF CrashProcess, row
<1>13. CASE UNCHANGED vars
  BY <1>13, NodesFrame DEF vars, row
<1> QED
  BY <1>1, <1>2, <1>3, <1>4, <1>5, <1>6, <1>7, <1>8a, <1>8b, <1>9, <1>10, <1>11, <1>12, <1>13
  DEF Next, DriverStep, CancelStep

\* The node rows shown for an execution are those of the pass whose output it shows.
THEOREM NodeRowsFollowOutput == Spec => []NodeRowsMatchOutput
<1>1. Init => NodesInv
  BY DEF Init, NodesInv, FirstPassInv, NodeRowsMatchOutput, IdleDrv
<1>2. TypeInv /\ [Next]_vars => TypeInv'
  BY TypeStep
<1>3. TypeInv /\ NodesInv /\ [Next]_vars => NodesInv'
  BY NodesStep
<1>4. NodesInv => NodeRowsMatchOutput
  BY DEF NodesInv
<1> QED
  BY TypeInit, <1>1, <1>2, <1>3, <1>4, PTL DEF Spec

-----------------------------------------------------------------------------
(***************************************************************************)
(* The row follows the checkpoint.                                         *)
(***************************************************************************)

\* What a driver is about to commit has reached the checkpoint already: RunGraph writes
\* the checkpoint before the driver knows the outcome.
CheckpointInv ==
  /\ RowNotAheadOfCheckpoint
  /\ \A d \in Drivers : drv[d].pc = "finish" =>
       /\ drv[d].result = "succeeded" => thread[drv[d].exec] \in {"done", "restarted"}
       /\ drv[d].result = "waiting" => thread[drv[d].exec] # "none"

\* A step that brings no driver to its end keeps the invariant if no row becomes
\* succeeded or waiting by it and the checkpoints stay.
LEMMA CheckpointFrame ==
  ASSUME CheckpointInv, UNCHANGED thread,
         \A x \in Executions : status'[x] \in {"succeeded", "waiting"} => status'[x] = status[x],
         \A d \in Drivers : drv'[d].pc = "finish" => /\ drv[d].pc = "finish"
                                                     /\ drv'[d].exec = drv[d].exec
                                                     /\ drv'[d].result = drv[d].result
  PROVE  CheckpointInv'
  BY DEF CheckpointInv, RowNotAheadOfCheckpoint

\* Checkpoints only advance, and a row takes over what its driver has seen of them.
LEMMA CheckpointStep ==
  ASSUME TypeInv, CheckpointInv, [Next]_vars
  PROVE  CheckpointInv'
<1> USE DEF TypeInv, TypeOK
<1>i. IdleDrv.pc = "idle"
  BY DEF IdleDrv
<1>1. ASSUME NEW d \in Drivers, NEW x \in Executions, NEW p \in Processes,
             NEW kind \in Firsts, CreateExecution(d, x, p, kind)
      PROVE  CheckpointInv'
  BY <1>1, CheckpointFrame DEF CreateExecution, Start, IdleDrv
<1>2. ASSUME NEW d \in Drivers, NEW x \in Executions, NEW p \in Processes,
             NEW kind \in Resumes, ResumeExecution(d, x, p, kind)
      PROVE  CheckpointInv'
  BY <1>2, CheckpointFrame DEF ResumeExecution, Start, IdleDrv, row
<1>3. ASSUME NEW d \in Drivers, LoadExecution(d)
      PROVE  CheckpointInv'
  BY <1>3, <1>i, CheckpointFrame DEF LoadExecution, DriverState, row
<1>4. ASSUME NEW d \in Drivers, MarkRunning(d)
      PROVE  CheckpointInv'
  <2> DEFINE x == drv[d].exec
  <2>1. /\ x \in Executions /\ UNCHANGED status
        /\ drv[d].pc = "mark" /\ drv'[d].pc \in {"graph", "idle"}
        /\ \A e \in Drivers : e # d => drv'[e] = drv[e]
        /\ thread' = thread \/ thread' = [thread EXCEPT ![x] = "restarted"]
    BY <1>4, <1>i DEF MarkRunning, DriverState, ActorsHaveExecutions, row
  <2>2. \A y \in Executions : /\ thread[y] \in {"done", "restarted"}
                                    => thread'[y] \in {"done", "restarted"}
                              /\ thread[y] # "none" => thread'[y] # "none"
    BY <2>1
  <2>3. \A e \in Drivers : drv[e].pc = "finish" => drv[e].exec \in Executions
    BY DEF ActorsHaveExecutions
  <2> HIDE DEF x, TypeInv, TypeOK
  <2> QED
    BY <2>1, <2>2, <2>3 DEF CheckpointInv, RowNotAheadOfCheckpoint
<1>5. ASSUME NEW d \in Drivers, RunGraph(d)
      PROVE  CheckpointInv'
  <2> DEFINE x == drv[d].exec
  <2>1. PICK r \in Outcomes :
          /\ thread[x] = "done" => r # "waiting"
          /\ thread' = [thread EXCEPT ![x] = IF @ = "restarted" \/ r = "failed" THEN @
                                               ELSE IF r = "succeeded" THEN "done" ELSE "interrupted"]
          /\ drv' = [drv EXCEPT ![d] = [@ EXCEPT !.pc = "finish", !.result = r]]
    BY <1>5 DEF RunGraph
  <2>2. x \in Executions /\ UNCHANGED status
    BY <1>5 DEF RunGraph, ActorsHaveExecutions, row
  <2>3. \A y \in Executions : /\ thread[y] \in {"done", "restarted"} => thread'[y] \in {"done", "restarted"}
                              /\ thread[y] # "none" => thread'[y] # "none"
    <3>1. thread'[x] \in {thread[x], "done", "interrupted"}
      BY <2>1, <2>2
    <3>2. thread[x] \in {"done", "restarted"} => thread'[x] \in {"done", "restarted"}
      BY <2>1, <2>2 DEF Outcomes
    <3>3. \A y \in Executions : y # x => thread'[y] = thread[y]
      BY <2>1, <2>2
    <3> QED
      BY <3>1, <3>2, <3>3
  <2>4. /\ drv'[d].exec = x /\ drv'[d].result = r
        /\ \A e \in Drivers : e # d => drv'[e] = drv[e]
    BY <2>1 DEF DriverState
  <2>5. /\ r = "succeeded" => thread'[x] \in {"done", "restarted"}
        /\ r = "waiting" => thread'[x] # "none"
    BY <2>1, <2>2
  <2>6. \A e \in Drivers : drv[e].pc = "finish" => drv[e].exec \in Executions
    BY DEF ActorsHaveExecutions
  <2> HIDE DEF x, TypeInv, TypeOK
  <2>7. RowNotAheadOfCheckpoint'
    BY <2>2, <2>3 DEF CheckpointInv, RowNotAheadOfCheckpoint
  <2> QED
    BY <2>3, <2>4, <2>5, <2>6, <2>7 DEF CheckpointInv
<1>6. ASSUME NEW d \in Drivers, CommitRun(d)
      PROVE  CheckpointInv'
  <2> DEFINE x == drv[d].exec
  <2>1. /\ x \in Executions /\ drv[d].pc = "finish" /\ UNCHANGED thread
        /\ drv'[d].pc = "idle" /\ \A e \in Drivers : e # d => drv'[e] = drv[e]
        /\ status' = [status EXCEPT ![x] = drv[d].result]
    BY <1>6, <1>i DEF CommitRun, ActorsHaveExecutions
  <2> HIDE DEF x
  <2>2. RowNotAheadOfCheckpoint'
    BY <2>1 DEF CheckpointInv, RowNotAheadOfCheckpoint, x
  <2> QED
    BY <2>1, <2>2 DEF CheckpointInv
<1>7. ASSUME NEW d \in Drivers, AbortDriver(d)
      PROVE  CheckpointInv'
  BY <1>7, <1>i, CheckpointFrame DEF AbortDriver, row
<1>8. ASSUME NEW S \in SUBSET Drivers, CancelTasks(S), UNCHANGED <<row, thread>>
      PROVE  CheckpointInv'
  BY <1>8, CheckpointFrame DEF CancelTasks, DriverState, row
<1>8a. ASSUME NEW c \in Cancels, NEW x \in Executions, NEW p \in Processes, CancelExecution(c, x, p)
      PROVE  CheckpointInv'
  BY <1>8a, <1>8 DEF CancelExecution, LiveTasks, row
<1>8b. ASSUME NEW p \in Processes, NEW x \in Executions, ReceiveCancel(p, x)
      PROVE  CheckpointInv'
  BY <1>8b, <1>8 DEF ReceiveCancel, LiveTasks, row
<1>9. ASSUME NEW c \in Cancels, CancelUpdate(c) \/ CancelPublish(c)
      PROVE  CheckpointInv'
  BY <1>9, CheckpointFrame DEF CancelUpdate, CancelPublish, row
<1>10. ASSUME NEW c \in Cancels, CancelCommit(c)
      PROVE  CheckpointInv'
  BY <1>10, CheckpointFrame DEF CancelCommit
<1>11. ASSUME NEW x \in Executions, PurgeExecution(x)
      PROVE  CheckpointInv'
  BY <1>11, CheckpointFrame DEF PurgeExecution
<1>12. ASSUME NEW p \in Processes, CrashProcess(p)
      PROVE  CheckpointInv'
  BY <1>12, <1>i, CheckpointFrame DEF CrashProcess, row
<1>13. CASE UNCHANGED vars
  BY <1>13, CheckpointFrame DEF vars, row
<1> QED
  BY <1>1, <1>2, <1>3, <1>4, <1>5, <1>6, <1>7, <1>8a, <1>8b, <1>9, <1>10, <1>11, <1>12, <1>13
  DEF Next, DriverStep, CancelStep

\* What a row calls succeeded has reached the end of its graph, and what it calls waiting
\* can be resumed: crashes and aborts between the checkpoint and the commit only leave
\* the row behind.
THEOREM RowFollowsCheckpoint == Spec => []RowNotAheadOfCheckpoint
<1>1. Init => CheckpointInv
  BY DEF Init, CheckpointInv, RowNotAheadOfCheckpoint, IdleDrv
<1>2. TypeInv /\ [Next]_vars => TypeInv'
  BY TypeStep
<1>3. TypeInv /\ CheckpointInv /\ [Next]_vars => CheckpointInv'
  BY CheckpointStep
<1>4. CheckpointInv => RowNotAheadOfCheckpoint
  BY DEF CheckpointInv
<1> QED
  BY TypeInit, <1>1, <1>2, <1>3, <1>4, PTL DEF Spec

=============================================================================
