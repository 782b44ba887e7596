---------------------------- MODULE WorkflowVersions ----------------------------
(***************************************************************************)
(* Workflows between their authors and their callers: drafts, published    *)
(* versions, templates, webhooks, and the executions that the run route,   *)
(* a webhook and a governance alert create.                                *)
(*                                                                         *)
(* A route that changes a workflow loads its row and writes, at its        *)
(* commit, the columns whose value differs from what it had loaded.        *)
(***************************************************************************)
EXTENDS Integers, FiniteSets

CONSTANTS
  WvFlows,      \* ids of workflows
  WvEdits,      \* routes that may be open on workflows at the same time
  WvRuns,       \* executions
  WvDrafts,     \* graphs an author saves
  WvRunnable,   \* those of them that parse_dsl accepts, with a node after the start
  WvAlerted,    \* those of them whose trigger_config matches the alert that comes
  WvKeep,       \* version rows that are kept (the code: 50)
  WvMaxOps      \* bound: requests

ASSUME VersionsAssumption ==
  /\ WvRunnable \subseteq WvDrafts /\ WvAlerted \subseteq WvDrafts
  /\ WvKeep \in Nat \ {0} /\ WvMaxOps \in Nat /\ WvFlows # {}

VARIABLES
  wvFlow,       \* rows of workflows
  wvRows,       \* workflow_versions: <<workflow, version, graph>>
  wvPublished,  \* history: every row a publish has written
  wvEdit,       \* what each open route has loaded and is about to write
  wvRun,        \* workflow_executions
  wvTemplates,  \* workflow_templates: [graph, builtin]
  wvHooks,      \* hook ids given out
  wvOps

versionVars == <<wvFlow, wvRows, wvPublished, wvEdit, wvRun, wvTemplates, wvHooks, wvOps>>

SeedGraph == "start only"
NoCut     == "never published"
WvGraphs_ == WvDrafts \cup {SeedGraph}
\* hook: -1: webhook_config is NULL; 0: a configuration without a hook id.
FlowRow(graph, trigger) ==
  [graph |-> graph, cut |-> NoCut, version |-> 0, status |-> "draft", trigger |-> trigger, hook |-> -1]
NoFlow == [FlowRow(SeedGraph, "manual") EXCEPT !.status = "none"]
GoneFlow == [NoFlow EXCEPT !.status = "gone"]   \* the id of a deleted row is not given again
FlowExists(f) == wvFlow[f].status \notin {"none", "gone"}
UnusedId(f) == wvFlow[f].status = "none"
NoRoute == [op |-> "none", flow |-> CHOOSE f \in WvFlows : TRUE, saw |-> NoFlow, new |-> NoFlow]
NoRun   == [flow |-> CHOOSE f \in WvFlows : TRUE, version |-> -1, ran |-> NoCut]

VersionInit ==
  /\ wvFlow = [f \in WvFlows |-> NoFlow] /\ wvRows = {} /\ wvPublished = {}
  /\ wvEdit = [r \in WvEdits |-> NoRoute] /\ wvRun = [x \in WvRuns |-> NoRun]
  /\ wvTemplates = {} /\ wvHooks = 0 /\ wvOps = 0

Request == wvOps < WvMaxOps /\ wvOps' = wvOps + 1

-----------------------------------------------------------------------------
(***************************************************************************)
(* Rows are born: create, from a template, as a copy.                      *)
(***************************************************************************)

\* A graph without nodes is replaced by the one with a start node.
CreateWorkflow(f) ==
  /\ Request /\ UnusedId(f)
  /\ \E g \in WvGraphs_, t \in {"manual", "governance_event"} :
       wvFlow' = [wvFlow EXCEPT ![f] = FlowRow(g, t)]
  /\ UNCHANGED <<wvRows, wvPublished, wvEdit, wvRun, wvTemplates, wvHooks>>

CreateFromTemplate(f) ==
  /\ Request /\ UnusedId(f)
  /\ \E t \in wvTemplates : wvFlow' = [wvFlow EXCEPT ![f] = FlowRow(t.graph, "manual")]
  /\ UNCHANGED <<wvRows, wvPublished, wvEdit, wvRun, wvTemplates, wvHooks>>

\* A copy has the draft, and neither the versions nor the trigger.
DuplicateWorkflow(f, of) ==
  /\ Request /\ UnusedId(f) /\ FlowExists(of)
  /\ wvFlow' = [wvFlow EXCEPT ![f] = FlowRow(wvFlow[of].graph, "manual")]
  /\ UNCHANGED <<wvRows, wvPublished, wvEdit, wvRun, wvTemplates, wvHooks>>

\* The published graph is preferred to the draft.
SaveAsTemplate(f) ==
  /\ Request /\ FlowExists(f)
  /\ LET source == IF wvFlow[f].cut = NoCut THEN wvFlow[f].graph ELSE wvFlow[f].cut IN
     wvTemplates' = wvTemplates \cup {[graph |-> source, builtin |-> FALSE]}
  /\ UNCHANGED <<wvFlow, wvRows, wvPublished, wvEdit, wvRun, wvHooks>>

\* The start of a process writes the built-in templates again.
SeedTemplates(g) ==
  /\ Request /\ g \in WvRunnable
  /\ wvTemplates' = wvTemplates \cup {[graph |-> g, builtin |-> TRUE]}
  /\ UNCHANGED <<wvFlow, wvRows, wvPublished, wvEdit, wvRun, wvHooks>>

DeleteTemplate(t) ==
  /\ Request /\ t \in wvTemplates /\ ~t.builtin /\ wvTemplates' = wvTemplates \ {t}
  /\ UNCHANGED <<wvFlow, wvRows, wvPublished, wvEdit, wvRun, wvHooks>>

-----------------------------------------------------------------------------
(***************************************************************************)
(* Routes that change a row.                                               *)
(***************************************************************************)

Open(r, f, op, new) ==
  /\ Request /\ wvEdit[r] = NoRoute /\ FlowExists(f)
  /\ wvEdit' = [wvEdit EXCEPT ![r] = [op |-> op, flow |-> f, saw |-> wvFlow[f], new |-> new]]

\* A draft is checked for its shape only.
UpdateDraft(r, f) ==
  /\ \E g \in WvDrafts : Open(r, f, "update", [wvFlow[f] EXCEPT !.graph = g])
  /\ UNCHANGED <<wvFlow, wvRows, wvPublished, wvRun, wvTemplates, wvHooks>>

OpenPublish(r, f) ==
  /\ wvFlow[f].graph \in WvRunnable
  /\ Open(r, f, "publish", [wvFlow[f] EXCEPT !.version = @ + 1, !.status = "published",
                                             !.cut = wvFlow[f].graph])
  /\ UNCHANGED <<wvFlow, wvRows, wvPublished, wvRun, wvTemplates, wvHooks>>

RevertToDraft(r, f) ==
  /\ Open(r, f, "draft", [wvFlow[f] EXCEPT !.status = "draft"])
  /\ UNCHANGED <<wvFlow, wvRows, wvPublished, wvRun, wvTemplates, wvHooks>>

Rollback(r, f) ==
  /\ \E v \in wvRows :
       v[1] = f /\ Open(r, f, "rollback", [wvFlow[f] EXCEPT !.graph = v[3], !.status = "draft"])
  /\ UNCHANGED <<wvFlow, wvRows, wvPublished, wvRun, wvTemplates, wvHooks>>

RegenerateWebhook(r, f) ==
  /\ Open(r, f, "hook", [wvFlow[f] EXCEPT !.hook = wvHooks + 1]) /\ wvHooks' = wvHooks + 1
  /\ UNCHANGED <<wvFlow, wvRows, wvPublished, wvRun, wvTemplates>>

\* The whole configuration is written, the hook id of the time of the load included.
UpdateWebhook(r, f) ==
  /\ Open(r, f, "hook", [wvFlow[f] EXCEPT !.hook = IF @ = -1 THEN 0 ELSE @])
  /\ UNCHANGED <<wvFlow, wvRows, wvPublished, wvRun, wvTemplates, wvHooks>>

DeleteWebhook(r, f) ==
  /\ Open(r, f, "hook", [wvFlow[f] EXCEPT !.hook = -1])
  /\ UNCHANGED <<wvFlow, wvRows, wvPublished, wvRun, wvTemplates, wvHooks>>

\* What the commit leaves in the row.
Put(e, now) ==
  [c \in DOMAIN now |-> IF e.new[c] # e.saw[c] \/ (e.op = "hook" /\ c = "hook") THEN e.new[c] ELSE now[c]]

\* uq_workflow_version refuses the second row of a version, and with it the whole commit.
UniqueAlways(f, v) == TRUE   \* mutant: no such constraint
Unique(f, v) == ~\E w \in wvRows : w[1] = f /\ w[2] = v

\* _prune_old_versions: the newest rows stay.
Pruned(rows, f) ==
  {w \in rows : w[1] = f => Cardinality({u \in rows : u[1] = f /\ u[2] > w[2]}) < WvKeep}

CommitRoute(r) ==
  LET e == wvEdit[r]  f == e.flow IN
  /\ e # NoRoute /\ e.op # "publish" /\ FlowExists(f)
  /\ wvFlow' = [wvFlow EXCEPT ![f] = Put(e, @)] /\ wvEdit' = [wvEdit EXCEPT ![r] = NoRoute]
  /\ UNCHANGED <<wvRows, wvPublished, wvRun, wvTemplates, wvHooks, wvOps>>

\* bound: fewer than WvKeep publishes of a workflow are committed while one is open.
FewOverlap(f) == \A q \in WvEdits : wvEdit[q].op = "publish" /\ wvEdit[q].flow = f =>
                                     wvFlow[f].version < wvEdit[q].saw.version + WvKeep

PublishVersion(r) ==
  LET e == wvEdit[r]  f == e.flow  row == <<f, e.new.version, e.new.cut>> IN
  /\ e # NoRoute /\ e.op = "publish" /\ FlowExists(f) /\ Unique(f, e.new.version) /\ FewOverlap(f)
  /\ wvFlow' = [wvFlow EXCEPT ![f] = Put(e, @)]
  /\ wvRows' = Pruned(wvRows \cup {row}, f) /\ wvPublished' = wvPublished \cup {row}
  /\ wvEdit' = [wvEdit EXCEPT ![r] = NoRoute]
  /\ UNCHANGED <<wvRun, wvTemplates, wvHooks, wvOps>>

\* The version is taken or the row is gone: the request ends with an error.
RouteFails(r) ==
  LET e == wvEdit[r] IN
  /\ e # NoRoute
  /\ ~FlowExists(e.flow) \/ (e.op = "publish" /\ ~Unique(e.flow, e.new.version))
  /\ wvEdit' = [wvEdit EXCEPT ![r] = NoRoute]
  /\ UNCHANGED <<wvFlow, wvRows, wvPublished, wvRun, wvTemplates, wvHooks, wvOps>>

\* Versions and executions go with the row.
DeleteWorkflow(f) ==
  /\ Request /\ FlowExists(f)
  /\ wvFlow' = [wvFlow EXCEPT ![f] = GoneFlow] /\ wvRows' = {w \in wvRows : w[1] # f}
  /\ wvPublished' = {w \in wvPublished : w[1] # f}
  /\ wvRun' = [x \in WvRuns |-> IF wvRun[x].flow = f THEN NoRun ELSE wvRun[x]]
  /\ UNCHANGED <<wvEdit, wvTemplates, wvHooks>>

-----------------------------------------------------------------------------
(***************************************************************************)
(* Executions.                                                             *)
(***************************************************************************)

\* create_execution: version 0 marks a run of the draft.
CreateExecution(x, f, draft) ==
  /\ Request /\ wvRun[x] = NoRun /\ FlowExists(f) /\ (draft \/ wvFlow[f].cut # NoCut)
  /\ wvRun' = [wvRun EXCEPT ![x] = [flow |-> f, version |-> IF draft THEN 0 ELSE wvFlow[f].version, ran |-> NoCut]]
  /\ UNCHANGED <<wvFlow, wvRows, wvPublished, wvEdit, wvTemplates, wvHooks>>

RunWorkflow(x, f) == \E draft \in BOOLEAN : CreateExecution(x, f, draft)

\* find_by_hook_id; a workflow that went back to draft still answers.
HookOf(f) == wvFlow[f].hook > 0
TriggerWebhook(x, f) == HookOf(f) /\ CreateExecution(x, f, FALSE)

\* handle_governance_alert matches the trigger_config of the draft.
EventMatches(f) == wvFlow[f].graph \in WvAlerted
GovernanceAlert(x, f) ==
  /\ wvFlow[f].trigger = "governance_event" /\ wvFlow[f].status = "published" /\ EventMatches(f)
  /\ CreateExecution(x, f, FALSE)

\* run_and_persist reads the graph when the driver starts.
GraphSource(f, version) == IF version = 0 THEN wvFlow[f].graph ELSE wvFlow[f].cut

StartDriver(x) ==
  /\ wvRun[x] # NoRun /\ wvRun[x].ran = NoCut
  /\ wvRun' = [wvRun EXCEPT ![x].ran = GraphSource(wvRun[x].flow, wvRun[x].version)]
  /\ UNCHANGED <<wvFlow, wvRows, wvPublished, wvEdit, wvTemplates, wvHooks, wvOps>>

VersionNext ==
  \/ \E f \in WvFlows :
       \/ CreateWorkflow(f) \/ CreateFromTemplate(f) \/ SaveAsTemplate(f) \/ DeleteWorkflow(f)
       \/ \E of \in WvFlows : DuplicateWorkflow(f, of)
       \/ \E r \in WvEdits : \/ UpdateDraft(r, f) \/ OpenPublish(r, f) \/ RevertToDraft(r, f)
                             \/ Rollback(r, f) \/ RegenerateWebhook(r, f) \/ UpdateWebhook(r, f)
                             \/ DeleteWebhook(r, f)
       \/ \E x \in WvRuns : RunWorkflow(x, f) \/ TriggerWebhook(x, f) \/ GovernanceAlert(x, f)
  \/ \E r \in WvEdits : CommitRoute(r) \/ PublishVersion(r) \/ RouteFails(r)
  \/ \E g \in WvRunnable : SeedTemplates(g)
  \/ \E t \in wvTemplates : DeleteTemplate(t)
  \/ \E x \in WvRuns : StartDriver(x)
VersionSpec == VersionInit /\ [][VersionNext]_versionVars

-----------------------------------------------------------------------------
FlowRows == [graph : WvGraphs_, cut : WvGraphs_ \cup {NoCut}, version : 0..WvMaxOps,
             status : {"none", "draft", "published", "gone"}, trigger : {"manual", "governance_event"},
             hook : -1..WvMaxOps]
VersionTypeOK ==
  /\ wvFlow \in [WvFlows -> FlowRows]
  /\ wvRows \subseteq wvPublished /\ wvPublished \subseteq WvFlows \X (1..WvMaxOps) \X WvRunnable
  /\ \A r \in WvEdits : wvEdit[r].flow \in WvFlows /\ wvEdit[r].saw \in FlowRows /\ wvEdit[r].new \in FlowRows
  /\ \A x \in WvRuns : wvRun[x].flow \in WvFlows /\ wvRun[x].version \in -1..WvMaxOps
  /\ wvTemplates \subseteq [graph : WvGraphs_, builtin : BOOLEAN]
  /\ wvHooks \in 0..WvMaxOps /\ wvOps \in 0..WvMaxOps

\* The published graph of a workflow is the one its newest version row records, whatever
\* publishes, saves, rollbacks and reverts overlap; each version has one row.
PublishedIsRecorded ==
  /\ \A f \in WvFlows : wvFlow[f].cut # NoCut =>
       /\ <<f, wvFlow[f].version, wvFlow[f].cut>> \in wvRows
       /\ \A w \in wvRows : w[1] = f => w[2] <= wvFlow[f].version
  /\ \A v, w \in wvPublished : v[1] = w[1] /\ v[2] = w[2] => v = w

\* An execution that is not a debug run has run a graph that some publish recorded, of the
\* version it names or of a later one: never a draft.
DraftsStayIn ==
  \A x \in WvRuns : wvRun[x].version > 0 /\ wvRun[x].ran # NoCut =>
    \E w \in wvPublished : w[1] = wvRun[x].flow /\ w[2] >= wvRun[x].version /\ w[3] = wvRun[x].ran

VersionsSound == PublishedIsRecorded /\ DraftsStayIn
=============================================================================
