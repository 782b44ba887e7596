------------------------ MODULE PublishedWorkflowProofs ------------------------
(***************************************************************************)
(* Theorems about workflows that are published: the versions a run may     *)
(* execute, the passes over their graphs and the events a client is sent.  *)
(* Each holds for every size of the constants and for runs of any length.  *)
(***************************************************************************)
EXTENDS WorkflowEvents, WorkflowVersions, WorkflowGraph,
        FiniteSetTheorems, SequenceTheorems, NaturalsInduction, TLAPS

-----------------------------------------------------------------------------
(****************************************************************************
 Versions: a run executes the graph that was published.
 ****************************************************************************)

RouteOps == {"none", "update", "publish", "draft", "rollback", "hook"}
RouteRows == [op : RouteOps, flow : WvFlows, saw : FlowRows, new : FlowRows]
RunRows == [flow : WvFlows, version : -1..WvMaxOps, ran : WvGraphs_ \cup {NoCut}]
VersionShape ==
  /\ wvFlow \in [WvFlows -> FlowRows] /\ wvEdit \in [WvEdits -> RouteRows] /\ wvRun \in [WvRuns -> RunRows]
  /\ wvPublished \subseteq WvFlows \X (1..WvMaxOps) \X WvRunnable
  /\ wvTemplates \subseteq [graph : WvGraphs_, builtin : BOOLEAN]
  /\ wvOps \in 0..WvMaxOps /\ wvHooks \in 0..wvOps

\* Every version and every hook id took a request.
RequestsPaid ==
  /\ \A f \in WvFlows : wvFlow[f].version <= wvOps /\ wvFlow[f].hook <= wvHooks
  /\ \A r \in WvEdits : /\ wvEdit[r].saw.version <= wvOps /\ wvEdit[r].new.version <= wvOps
                        /\ wvEdit[r].saw.hook <= wvHooks /\ wvEdit[r].new.hook <= wvHooks

\* The versions of a workflow that exists are numbered without a gap, each with one row, and
\* the newest WvKeep of the rows are there.
VersionsNumbered ==
  /\ \A w \in wvPublished : FlowExists(w[1]) /\ w[2] <= wvFlow[w[1]].version
  /\ \A v, w \in wvPublished : v[1] = w[1] /\ v[2] = w[2] => v = w
  /\ \A f \in WvFlows : FlowExists(f) => \A n \in 1..wvFlow[f].version : \E w \in wvPublished : w[1] = f /\ w[2] = n
  /\ wvRows \subseteq wvPublished
  /\ \A w \in wvPublished : wvFlow[w[1]].version < w[2] + WvKeep => w \in wvRows

\* The cut of a workflow is the graph of its newest version; who has none has no graph.
CutIsNewest ==
  \A f \in WvFlows : wvFlow[f].cut # NoCut => FlowExists(f) /\ <<f, wvFlow[f].version, wvFlow[f].cut>> \in wvPublished

\* What an open route is about to write, and what its load is worth.
RoutesSound ==
  \A r \in WvEdits : LET e == wvEdit[r]  now == wvFlow[e.flow] IN
    /\ e.op = "none" => e = NoRoute
    /\ e.op \notin {"none", "publish"} => e.new.version = e.saw.version /\ e.new.cut = e.saw.cut
    /\ e.op = "publish" => e.new.version = e.saw.version + 1 /\ e.new.cut \in WvRunnable
    /\ e.op # "none" => ~UnusedId(e.flow) /\ e.saw.status \notin {"none", "gone"} /\ e.new.status \notin {"none", "gone"}
    /\ e.op # "none" /\ FlowExists(e.flow) =>
         /\ e.saw.version <= now.version
         /\ e.saw.version = now.version => e.saw.cut = now.cut
         /\ e.op = "publish" => now.version <= e.saw.version + WvKeep

\* What an execution has pinned.
RunsSound ==
  \A x \in WvRuns : LET run == wvRun[x] IN
    /\ run.version = -1 => run = NoRun
    /\ run.version >= 0 => FlowExists(run.flow) /\ run.version <= wvFlow[run.flow].version

VersionInv == VersionShape /\ RequestsPaid /\ VersionsNumbered /\ CutIsNewest /\ RoutesSound /\ RunsSound /\ DraftsStayIn

-----------------------------------------------------------------------------
\* The rows of a workflow as they are made.
LEMMA FlowsAre ==
  /\ \A g \in WvGraphs_, t \in {"manual", "governance_event"} :
       LET row == FlowRow(g, t) IN row \in FlowRows /\ row.version = 0 /\ row.cut = NoCut /\ row.status = "draft" /\ row.hook = -1
  /\ NoFlow \in FlowRows /\ NoFlow.version = 0 /\ NoFlow.cut = NoCut /\ NoFlow.status = "none" /\ NoFlow.hook = -1
  /\ GoneFlow \in FlowRows /\ GoneFlow.version = 0 /\ GoneFlow.cut = NoCut /\ GoneFlow.status = "gone" /\ GoneFlow.hook = -1
  /\ NoRoute \in RouteRows /\ NoRoute.op = "none" /\ NoRoute.saw = NoFlow /\ NoRoute.new = NoFlow
  /\ NoRun \in RunRows /\ NoRun.version = -1
<1>1. \A g \in WvGraphs_, t \in {"manual", "governance_event"} :
        LET row == FlowRow(g, t) IN row \in FlowRows /\ row.version = 0 /\ row.cut = NoCut /\ row.status = "draft" /\ row.hook = -1
  BY VersionsAssumption DEF FlowRow, FlowRows
<1>2. NoFlow \in FlowRows /\ NoFlow.version = 0 /\ NoFlow.cut = NoCut /\ NoFlow.status = "none" /\ NoFlow.hook = -1
  <2>1. SeedGraph \in WvGraphs_
    BY DEF WvGraphs_
  <2> QED
    BY <2>1, <1>1 DEF NoFlow, FlowRows
<1>3. GoneFlow \in FlowRows /\ GoneFlow.version = 0 /\ GoneFlow.cut = NoCut /\ GoneFlow.status = "gone" /\ GoneFlow.hook = -1
  BY <1>2 DEF GoneFlow, FlowRows
<1>4. (CHOOSE f \in WvFlows : TRUE) \in WvFlows
  BY VersionsAssumption
<1>5. NoRoute \in RouteRows /\ NoRoute.op = "none" /\ NoRoute.saw = NoFlow /\ NoRoute.new = NoFlow
  BY <1>2, <1>4 DEF NoRoute, RouteRows, RouteOps
<1>6. NoRun \in RunRows /\ NoRun.version = -1
  BY <1>4, VersionsAssumption DEF NoRun, RunRows
<1> QED
  BY <1>1, <1>2, <1>3, <1>5, <1>6

\* What VersionInv says of one workflow, route, run and published graph.
LEMMA VersionShapes ==
  ASSUME VersionInv
  PROVE  /\ \A f \in WvFlows : wvFlow[f] \in FlowRows /\ wvFlow[f].version \in Nat
         /\ \A r \in WvEdits : /\ wvEdit[r] \in RouteRows /\ wvEdit[r].flow \in WvFlows /\ wvEdit[r].saw \in FlowRows
                               /\ wvEdit[r].new \in FlowRows /\ wvEdit[r].saw.version \in Nat /\ wvEdit[r].new.version \in Nat
         /\ \A x \in WvRuns : wvRun[x] \in RunRows /\ wvRun[x].flow \in WvFlows
         /\ \A w \in wvPublished : w[1] \in WvFlows /\ w[2] \in 1..WvMaxOps /\ w[3] \in WvRunnable /\ w = <<w[1], w[2], w[3]>>
         /\ wvOps \in Nat /\ wvHooks \in Nat
BY VersionsAssumption DEF VersionInv, VersionShape, RouteRows, FlowRows, RunRows

\* A step that takes a request and changes neither workflows, versions, routes nor runs.
LEMMA RequestStep ==
  ASSUME VersionInv, wvOps' \in 0..WvMaxOps, wvOps <= wvOps',
         wvTemplates' \subseteq [graph : WvGraphs_, builtin : BOOLEAN],
         UNCHANGED <<wvFlow, wvRows, wvPublished, wvEdit, wvRun, wvHooks>>
  PROVE  VersionInv'
<1>1. wvHooks' \in 0..wvOps'
  BY DEF VersionInv, VersionShape
<1>2. VersionShape'
  BY <1>1 DEF VersionInv, VersionShape
<1>3. RequestsPaid'
  BY VersionShapes DEF VersionInv, RequestsPaid
<1>4. VersionsNumbered' /\ CutIsNewest' /\ RoutesSound' /\ RunsSound' /\ DraftsStayIn'
  BY DEF VersionInv, VersionsNumbered, CutIsNewest, RoutesSound, RunsSound, DraftsStayIn, FlowExists, UnusedId
<1> QED
  BY <1>2, <1>3, <1>4 DEF VersionInv

\* Templates keep VersionInv.
LEMMA TemplateStep ==
  ASSUME VersionInv,
         \/ \E f \in WvFlows : SaveAsTemplate(f)
         \/ \E g \in WvRunnable : SeedTemplates(g)
         \/ \E t \in wvTemplates : DeleteTemplate(t)
  PROVE  VersionInv'
<1>1. /\ wvOps' \in 0..WvMaxOps /\ wvOps <= wvOps' /\ UNCHANGED <<wvFlow, wvRows, wvPublished, wvEdit, wvRun, wvHooks>>
  BY VersionsAssumption, VersionShapes DEF SaveAsTemplate, SeedTemplates, DeleteTemplate, Request
<1>2. wvTemplates' \subseteq [graph : WvGraphs_, builtin : BOOLEAN]
  <2>0. wvTemplates \subseteq [graph : WvGraphs_, builtin : BOOLEAN]
    BY DEF VersionInv, VersionShape
  <2>1. ASSUME NEW f \in WvFlows, SaveAsTemplate(f) PROVE wvTemplates' \subseteq [graph : WvGraphs_, builtin : BOOLEAN]
    <3> DEFINE source == IF wvFlow[f].cut = NoCut THEN wvFlow[f].graph ELSE wvFlow[f].cut
    <3>1. source \in WvGraphs_
      BY VersionShapes DEF FlowRows
    <3>2. wvTemplates' = wvTemplates \cup {[graph |-> source, builtin |-> FALSE]}
      BY <2>1 DEF SaveAsTemplate
    <3> HIDE DEF source
    <3>3. [graph |-> source, builtin |-> FALSE] \in [graph : WvGraphs_, builtin : BOOLEAN]
      BY <3>1
    <3> QED
      BY <2>0, <3>2, <3>3, Zenon
  <2>2. ASSUME NEW g \in WvRunnable, SeedTemplates(g) PROVE wvTemplates' \subseteq [graph : WvGraphs_, builtin : BOOLEAN]
    <3>1. g \in WvGraphs_ /\ wvTemplates' = wvTemplates \cup {[graph |-> g, builtin |-> TRUE]}
      BY <2>2, VersionsAssumption DEF SeedTemplates, WvGraphs_
    <3>2. [graph |-> g, builtin |-> TRUE] \in [graph : WvGraphs_, builtin : BOOLEAN]
      BY <3>1
    <3> QED
      BY <2>0, <3>1, <3>2, Zenon
  <2> QED
    BY <2>0, <2>1, <2>2 DEF DeleteTemplate
<1> QED
  BY <1>1, <1>2, RequestStep

\* A workflow is born.
LEMMA BirthStep ==
  ASSUME VersionInv, NEW f \in WvFlows, NEW row \in FlowRows, UnusedId(f),
         row.version = 0, row.cut = NoCut, row.status = "draft", row.hook = -1,
         wvFlow' = [wvFlow EXCEPT ![f] = row], Request,
         UNCHANGED <<wvRows, wvPublished, wvEdit, wvRun, wvTemplates, wvHooks>>
  PROVE  VersionInv'
<1>1. wvFlow'[f] = row /\ (\A g \in WvFlows \ {f} : wvFlow'[g] = wvFlow[g]) /\ ~FlowExists(f)
  BY DEF VersionInv, VersionShape, FlowExists, UnusedId
<1>2. wvOps \in Nat /\ wvOps' = wvOps + 1 /\ wvOps' \in 0..WvMaxOps
  BY VersionShapes, VersionsAssumption DEF Request
<1>3. \A w \in wvPublished : w[1] # f /\ w[1] \in WvFlows
  BY <1>1, VersionShapes DEF VersionInv, VersionsNumbered
<1>4. VersionShape'
  BY <1>2, VersionShapes DEF VersionInv, VersionShape
<1>5. RequestsPaid'
  BY <1>1, <1>2, VersionShapes DEF VersionInv, RequestsPaid
<1>6. \A g \in WvFlows \ {f} : FlowExists(g)' = FlowExists(g) /\ UnusedId(g)' = UnusedId(g)
  BY <1>1 DEF FlowExists, UnusedId
<1>7. VersionsNumbered'
  <2>1. \A w \in wvPublished : wvFlow'[w[1]] = wvFlow[w[1]] /\ FlowExists(w[1])' = FlowExists(w[1])
    BY <1>1, <1>3 DEF FlowExists
  <2>2. \A w \in wvPublished : FlowExists(w[1])' /\ w[2] <= wvFlow'[w[1]].version
    BY <2>1 DEF VersionInv, VersionsNumbered
  <2>3. \A w \in wvPublished : wvFlow'[w[1]].version < w[2] + WvKeep => w \in wvRows
    BY <2>1 DEF VersionInv, VersionsNumbered
  <2>4. ASSUME NEW g \in WvFlows, FlowExists(g)', NEW n \in 1..wvFlow'[g].version PROVE \E w \in wvPublished : w[1] = g /\ w[2] = n
    BY <1>1, <1>6, <2>4 DEF VersionInv, VersionsNumbered
  <2> QED
    BY <2>2, <2>3, <2>4 DEF VersionInv, VersionsNumbered
<1>8. CutIsNewest'
  BY <1>1, <1>6 DEF VersionInv, CutIsNewest
<1>9. \A r \in WvEdits : wvEdit[r].op # "none" => wvEdit[r].flow # f
  BY DEF VersionInv, RoutesSound
<1>10. RoutesSound'
  <2> SUFFICES ASSUME NEW r \in WvEdits
               PROVE  LET e == wvEdit[r]  now == wvFlow'[e.flow] IN
                 /\ e.op = "none" => e = NoRoute
                 /\ e.op \notin {"none", "publish"} => e.new.version = e.saw.version /\ e.new.cut = e.saw.cut
                 /\ e.op = "publish" => e.new.version = e.saw.version + 1 /\ e.new.cut \in WvRunnable
                 /\ e.op # "none" => now.status # "none" /\ e.saw.status \notin {"none", "gone"} /\ e.new.status \notin {"none", "gone"}
                 /\ e.op # "none" /\ now.status \notin {"none", "gone"} =>
                      /\ e.saw.version <= now.version
                      /\ e.saw.version = now.version => e.saw.cut = now.cut
                      /\ e.op = "publish" => now.version <= e.saw.version + WvKeep
    BY DEF RoutesSound, FlowExists, UnusedId
  <2>1. CASE wvEdit[r].op = "none"
    BY <2>1 DEF VersionInv, RoutesSound
  <2>2. CASE wvEdit[r].op # "none"
    <3>1. wvFlow'[wvEdit[r].flow] = wvFlow[wvEdit[r].flow]
      BY <1>1, <1>9, <2>2, VersionShapes
    <3> QED
      BY <2>2, <3>1 DEF VersionInv, RoutesSound, FlowExists, UnusedId
  <2> QED
    BY <2>1, <2>2
<1>11. RunsSound'
  <2>1. \A x \in WvRuns : wvRun[x].version >= 0 => wvRun[x].flow # f
    BY <1>1 DEF VersionInv, RunsSound
  <2> QED
    BY <1>1, <1>6, <2>1, VersionShapes DEF VersionInv, RunsSound
<1>12. DraftsStayIn'
  BY DEF VersionInv, DraftsStayIn
<1> QED
  BY <1>4, <1>5, <1>7, <1>8, <1>10, <1>11, <1>12 DEF VersionInv

\* Creating a workflow keeps VersionInv.
LEMMA CreateStep ==
  ASSUME VersionInv, NEW f \in WvFlows,
         CreateWorkflow(f) \/ CreateFromTemplate(f) \/ \E of \in WvFlows : DuplicateWorkflow(f, of)
  PROVE  VersionInv'
<1>1. UnusedId(f) /\ Request /\ UNCHANGED <<wvRows, wvPublished, wvEdit, wvRun, wvTemplates, wvHooks>>
  BY DEF CreateWorkflow, CreateFromTemplate, DuplicateWorkflow
<1>2. PICK g \in WvGraphs_, t \in {"manual", "governance_event"} : wvFlow' = [wvFlow EXCEPT ![f] = FlowRow(g, t)]
  <2>1. \A t \in wvTemplates : t.graph \in WvGraphs_
    BY DEF VersionInv, VersionShape
  <2>2. \A of \in WvFlows : wvFlow[of].graph \in WvGraphs_
    BY VersionShapes DEF FlowRows
  <2> QED
    BY <2>1, <2>2 DEF CreateWorkflow, CreateFromTemplate, DuplicateWorkflow
<1> DEFINE row == FlowRow(g, t)
<1>3. row \in FlowRows /\ row.version = 0 /\ row.cut = NoCut /\ row.status = "draft" /\ row.hook = -1
  BY FlowsAre
<1> HIDE DEF row
<1> QED
  BY <1>1, <1>2, <1>3, BirthStep DEF row

-----------------------------------------------------------------------------
\* What RoutesSound says of one route, for the row its workflow has.
RouteFits(e, now) ==
  /\ e.op = "none" => e = NoRoute
  /\ e.op \notin {"none", "publish"} => e.new.version = e.saw.version /\ e.new.cut = e.saw.cut
  /\ e.op = "publish" => e.new.version = e.saw.version + 1 /\ e.new.cut \in WvRunnable
  /\ e.op # "none" => now.status # "none" /\ e.saw.status \notin {"none", "gone"} /\ e.new.status \notin {"none", "gone"}
  /\ e.op # "none" /\ now.status \notin {"none", "gone"} =>
       /\ e.saw.version <= now.version
       /\ e.saw.version = now.version => e.saw.cut = now.cut
       /\ e.op = "publish" => now.version <= e.saw.version + WvKeep

\* RoutesSound, said of each route alone.
LEMMA RoutesFit ==
  /\ RoutesSound <=> \A r \in WvEdits : RouteFits(wvEdit[r], wvFlow[wvEdit[r].flow])
  /\ RoutesSound' <=> \A r \in WvEdits : RouteFits(wvEdit'[r], wvFlow'[wvEdit'[r].flow])
BY DEF RoutesSound, RouteFits, FlowExists, UnusedId

\* One route changes, no row does.
LEMMA RouteStep ==
  ASSUME VersionInv, NEW r \in WvEdits, NEW e \in RouteRows, wvEdit' = [wvEdit EXCEPT ![r] = e],
         RouteFits(e, wvFlow[e.flow]),
         wvOps' \in 0..WvMaxOps, wvOps <= wvOps', wvHooks' \in 0..wvOps', wvHooks <= wvHooks',
         e.saw.version <= wvOps', e.new.version <= wvOps', e.saw.hook <= wvHooks', e.new.hook <= wvHooks',
         UNCHANGED <<wvFlow, wvRows, wvPublished, wvRun, wvTemplates>>
  PROVE  VersionInv'
<1>1. wvEdit'[r] = e /\ \A q \in WvEdits \ {r} : wvEdit'[q] = wvEdit[q]
  BY DEF VersionInv, VersionShape
<1>2. VersionShape'
  BY DEF VersionInv, VersionShape
<1>3. RequestsPaid'
  <2>1. \A f \in WvFlows : wvFlow[f].version \in Int /\ wvFlow[f].hook \in Int
    BY VersionShapes DEF FlowRows
  <2>2. \A q \in WvEdits : wvEdit[q].saw.version \in Int /\ wvEdit[q].new.version \in Int /\ wvEdit[q].saw.hook \in Int /\ wvEdit[q].new.hook \in Int
    BY VersionShapes DEF FlowRows
  <2>3. wvOps \in Int /\ wvHooks \in Int /\ wvOps' \in Int /\ wvHooks' \in Int
    BY VersionShapes
  <2>4. \A f \in WvFlows : wvFlow[f].version <= wvOps' /\ wvFlow[f].hook <= wvHooks'
    BY <2>1, <2>3 DEF VersionInv, RequestsPaid
  <2>5. \A q \in WvEdits : /\ wvEdit'[q].saw.version <= wvOps' /\ wvEdit'[q].new.version <= wvOps'
                           /\ wvEdit'[q].saw.hook <= wvHooks' /\ wvEdit'[q].new.hook <= wvHooks'
    BY <1>1, <2>2, <2>3 DEF VersionInv, RequestsPaid
  <2> QED
    BY <2>4, <2>5 DEF RequestsPaid
<1>4. VersionsNumbered' /\ CutIsNewest' /\ RunsSound' /\ DraftsStayIn'
  BY DEF VersionInv, VersionsNumbered, CutIsNewest, RunsSound, DraftsStayIn, FlowExists
<1>5. RoutesSound'
  BY <1>1, RoutesFit DEF VersionInv
<1> QED
  BY <1>2, <1>3, <1>4, <1>5 DEF VersionInv

\* Opening a route that edits a workflow keeps VersionInv.
LEMMA OpenStep ==
  ASSUME VersionInv, NEW r \in WvEdits, NEW f \in WvFlows, NEW op \in RouteOps \ {"none"}, NEW new \in FlowRows,
         Open(r, f, op, new), new.status \notin {"none", "gone"},
         IF op = "publish" THEN new.version = wvFlow[f].version + 1 /\ new.cut \in WvRunnable
                           ELSE new.version = wvFlow[f].version /\ new.cut = wvFlow[f].cut,
         wvHooks' \in {wvHooks, wvHooks + 1}, new.hook <= wvHooks',
         UNCHANGED <<wvFlow, wvRows, wvPublished, wvRun, wvTemplates>>
  PROVE  VersionInv'
<1> DEFINE e == [op |-> op, flow |-> f, saw |-> wvFlow[f], new |-> new]
<1>1. e \in RouteRows /\ e.op = op /\ e.flow = f /\ e.saw = wvFlow[f] /\ e.new = new
  BY VersionShapes DEF RouteRows
<1>2. wvEdit' = [wvEdit EXCEPT ![r] = e] /\ FlowExists(f) /\ wvOps < WvMaxOps /\ wvOps' = wvOps + 1
  BY DEF Open, Request
<1> HIDE DEF e
<1>3. RouteFits(e, wvFlow[e.flow])
  BY <1>1, <1>2, VersionShapes, VersionsAssumption DEF RouteFits, FlowExists
<1>4. /\ wvFlow[f].version \in Nat /\ wvFlow[f].version <= wvOps /\ wvFlow[f].hook \in Int /\ wvFlow[f].hook <= wvHooks
      /\ wvOps \in Nat /\ wvHooks \in Nat /\ wvHooks <= wvOps
  BY VersionShapes DEF FlowRows, VersionInv, RequestsPaid, VersionShape
<1>5. /\ wvOps' \in 0..WvMaxOps /\ wvOps <= wvOps' /\ wvHooks' \in 0..wvOps' /\ wvHooks <= wvHooks'
      /\ e.saw.version <= wvOps' /\ e.new.version <= wvOps' /\ e.saw.hook <= wvHooks' /\ e.new.hook <= wvHooks'
  BY <1>1, <1>2, <1>4, VersionsAssumption
<1> QED
  BY <1>1, <1>2, <1>3, <1>5, RouteStep

\* Each of the seven routes opens in this way.
LEMMA RouteOpens ==
  ASSUME VersionInv, NEW r \in WvEdits, NEW f \in WvFlows,
         \/ UpdateDraft(r, f) \/ OpenPublish(r, f) \/ RevertToDraft(r, f) \/ Rollback(r, f)
         \/ RegenerateWebhook(r, f) \/ UpdateWebhook(r, f) \/ DeleteWebhook(r, f)
  PROVE  VersionInv'
<1> DEFINE row == wvFlow[f]
<1>1. UNCHANGED <<wvFlow, wvRows, wvPublished, wvRun, wvTemplates>>
  BY DEF UpdateDraft, OpenPublish, RevertToDraft, Rollback, RegenerateWebhook, UpdateWebhook, DeleteWebhook
<1>2. /\ row \in FlowRows /\ row.version \in Nat /\ row.version <= wvOps /\ row.hook \in -1..WvMaxOps /\ row.hook <= wvHooks
      /\ wvOps \in Nat /\ wvHooks \in Nat /\ wvHooks <= wvOps
  BY VersionShapes DEF FlowRows, VersionInv, RequestsPaid, VersionShape
<1>3. row.status \notin {"none", "gone"} /\ wvOps < WvMaxOps
  BY DEF UpdateDraft, OpenPublish, RevertToDraft, Rollback, RegenerateWebhook, UpdateWebhook, DeleteWebhook, Open, FlowExists, Request
<1> HIDE DEF row
<1>4. CASE UpdateDraft(r, f)
  <2>1. PICK g \in WvDrafts : Open(r, f, "update", [row EXCEPT !.graph = g])
    BY <1>4 DEF UpdateDraft, row
  <2> DEFINE new == [row EXCEPT !.graph = g]
  <2>2. new \in FlowRows /\ new.version = row.version /\ new.cut = row.cut /\ new.status = row.status /\ new.hook = row.hook
    BY <1>2 DEF FlowRows, WvGraphs_
  <2> HIDE DEF new
  <2> QED
    BY <1>1, <1>2, <1>3, <1>4, <2>1, <2>2, OpenStep DEF UpdateDraft, RouteOps, row, new
<1>5. CASE OpenPublish(r, f)
  <2> DEFINE new == [row EXCEPT !.version = @ + 1, !.status = "published", !.cut = row.graph]
  <2>1. row.graph \in WvRunnable /\ Open(r, f, "publish", new) /\ UNCHANGED wvHooks
    BY <1>5 DEF OpenPublish, row
  <2>2. new = [[[row EXCEPT !.version = row.version + 1] EXCEPT !.status = "published"] EXCEPT !.cut = row.graph]
    BY <1>2 DEF FlowRows
  <2>3. row.version + 1 \in 0..WvMaxOps /\ row.graph \in WvGraphs_ \cup {NoCut}
    BY <1>2, <1>3, <2>1, VersionsAssumption DEF WvGraphs_
  <2>4. /\ new \in FlowRows /\ new.version = row.version + 1 /\ new.cut = row.graph /\ new.status = "published"
        /\ new.hook = row.hook
    BY <1>2, <2>2, <2>3 DEF FlowRows
  <2> HIDE DEF new
  <2> QED
    BY <1>1, <1>2, <2>1, <2>4, OpenStep DEF RouteOps, row
<1>6. CASE RevertToDraft(r, f)
  <2> DEFINE new == [row EXCEPT !.status = "draft"]
  <2>1. Open(r, f, "draft", new) /\ UNCHANGED wvHooks
    BY <1>6 DEF RevertToDraft, row
  <2>2. new \in FlowRows /\ new.version = row.version /\ new.cut = row.cut /\ new.status = "draft" /\ new.hook = row.hook
    BY <1>2 DEF FlowRows
  <2> HIDE DEF new
  <2> QED
    BY <1>1, <1>2, <2>1, <2>2, OpenStep DEF RouteOps, row
<1>7. CASE Rollback(r, f)
  <2>1. PICK v \in wvRows : Open(r, f, "rollback", [row EXCEPT !.graph = v[3], !.status = "draft"])
    BY <1>7 DEF Rollback, row
  <2> DEFINE new == [row EXCEPT !.graph = v[3], !.status = "draft"]
  <2>2. v[3] \in WvGraphs_
    BY VersionShapes, VersionsAssumption DEF VersionInv, VersionsNumbered, WvGraphs_
  <2>3. new = [[row EXCEPT !.graph = v[3]] EXCEPT !.status = "draft"]
    BY <1>2 DEF FlowRows
  <2>4. new \in FlowRows /\ new.version = row.version /\ new.cut = row.cut /\ new.status = "draft" /\ new.hook = row.hook
    BY <1>2, <2>2, <2>3 DEF FlowRows
  <2>5. Open(r, f, "rollback", new) /\ UNCHANGED wvHooks
    BY <1>7, <2>1 DEF Rollback
  <2> HIDE DEF new
  <2> QED
    BY <1>1, <1>2, <2>4, <2>5, OpenStep DEF RouteOps, row
<1>8. ASSUME NEW hook \in -1..(wvHooks + 1), Open(r, f, "hook", [row EXCEPT !.hook = hook]),
             wvHooks' = IF hook = wvHooks + 1 THEN wvHooks + 1 ELSE wvHooks
      PROVE  VersionInv'
  <2> DEFINE new == [row EXCEPT !.hook = hook]
  <2>1. hook \in -1..WvMaxOps /\ wvHooks' \in {wvHooks, wvHooks + 1} /\ hook <= wvHooks'
    BY <1>2, <1>3, <1>8, VersionsAssumption
  <2>2. new \in FlowRows /\ new.version = row.version /\ new.cut = row.cut /\ new.status = row.status /\ new.hook = hook
    BY <1>2, <2>1 DEF FlowRows
  <2>3. Open(r, f, "hook", new)
    BY <1>8
  <2> HIDE DEF new
  <2> QED
    BY <1>1, <1>2, <1>3, <2>1, <2>2, <2>3, OpenStep DEF RouteOps, row
<1>9. CASE RegenerateWebhook(r, f)
  <2>1. wvHooks + 1 \in -1..(wvHooks + 1) /\ Open(r, f, "hook", [row EXCEPT !.hook = wvHooks + 1]) /\ wvHooks' = wvHooks + 1
    BY <1>2, <1>9 DEF RegenerateWebhook, row
  <2> QED
    BY <1>2, <1>8, <2>1
<1>10. CASE UpdateWebhook(r, f)
  <2> DEFINE hook == IF row.hook = -1 THEN 0 ELSE row.hook
  <2>1. hook \in -1..(wvHooks + 1) /\ hook # wvHooks + 1
    BY <1>2
  <2>2. Open(r, f, "hook", [row EXCEPT !.hook = hook]) /\ wvHooks' = wvHooks
    BY <1>10 DEF UpdateWebhook, row
  <2> HIDE DEF hook
  <2> QED
    BY <1>8, <2>1, <2>2
<1>11. CASE DeleteWebhook(r, f)
  <2>1. -1 \in -1..(wvHooks + 1) /\ -1 # wvHooks + 1 /\ Open(r, f, "hook", [row EXCEPT !.hook = -1]) /\ wvHooks' = wvHooks
    BY <1>2, <1>11 DEF DeleteWebhook, row
  <2> QED
    BY <1>8, <2>1
<1> QED
  BY <1>4, <1>5, <1>6, <1>7, <1>9, <1>10, <1>11

\* A route that fails keeps VersionInv.
LEMMA RouteFailsStep ==
  ASSUME VersionInv, NEW r \in WvEdits, RouteFails(r)
  PROVE  VersionInv'
<1>1. /\ wvEdit' = [wvEdit EXCEPT ![r] = NoRoute]
      /\ UNCHANGED <<wvFlow, wvRows, wvPublished, wvRun, wvTemplates, wvHooks, wvOps>>
  BY DEF RouteFails
<1>2. RouteFits(NoRoute, wvFlow[NoRoute.flow])
  BY FlowsAre DEF RouteFits
<1>3. /\ NoRoute.saw.version <= wvOps /\ NoRoute.new.version <= wvOps /\ NoRoute.saw.hook <= wvHooks /\ NoRoute.new.hook <= wvHooks
      /\ wvOps <= wvOps /\ wvHooks <= wvHooks
  BY FlowsAre, VersionShapes
<1>4. wvOps \in 0..WvMaxOps /\ wvHooks \in 0..wvOps
  BY DEF VersionInv, VersionShape
<1> QED
  BY <1>1, <1>2, <1>3, <1>4, FlowsAre, RouteStep

-----------------------------------------------------------------------------
\* What a commit leaves in a row, column by column.
LEMMA PutColumns ==
  ASSUME NEW e \in RouteRows, NEW now \in FlowRows
  PROVE  /\ Put(e, now) \in FlowRows
         /\ Put(e, now).version = IF e.new.version # e.saw.version THEN e.new.version ELSE now.version
         /\ Put(e, now).cut = IF e.new.cut # e.saw.cut THEN e.new.cut ELSE now.cut
         /\ Put(e, now).status = IF e.new.status # e.saw.status THEN e.new.status ELSE now.status
         /\ Put(e, now).hook \in {e.new.hook, now.hook}
<1> DEFINE col(c) == IF e.new[c] # e.saw[c] \/ (e.op = "hook" /\ c = "hook") THEN e.new[c] ELSE now[c]
           row == [graph |-> col("graph"), cut |-> col("cut"), version |-> col("version"), status |-> col("status"),
                   trigger |-> col("trigger"), hook |-> col("hook")]
<1>1. DOMAIN now = {"graph", "cut", "version", "status", "trigger", "hook"}
  BY DEF FlowRows
<1>2. Put(e, now) = [c \in {"graph", "cut", "version", "status", "trigger", "hook"} |-> col(c)]
  BY <1>1 DEF Put
<1>3. e.new \in FlowRows
  BY DEF RouteRows
<1>4. /\ col("graph") \in WvGraphs_ /\ col("cut") \in WvGraphs_ \cup {NoCut} /\ col("version") \in 0..WvMaxOps
      /\ col("status") \in {"none", "draft", "published", "gone"} /\ col("trigger") \in {"manual", "governance_event"}
      /\ col("hook") \in -1..WvMaxOps
  BY <1>3 DEF FlowRows
<1>5. /\ col("version") = IF e.new.version # e.saw.version THEN e.new.version ELSE now.version
      /\ col("cut") = IF e.new.cut # e.saw.cut THEN e.new.cut ELSE now.cut
      /\ col("status") = IF e.new.status # e.saw.status THEN e.new.status ELSE now.status
      /\ col("hook") \in {e.new.hook, now.hook}
  OBVIOUS
<1> HIDE DEF col
<1>6. row \in FlowRows
  BY <1>4 DEF FlowRows
<1>7. Put(e, now) = row
  BY <1>2
<1> QED
  BY <1>5, <1>6, <1>7

\* The rows of the other workflows, and of the one that changes, under a commit.
LEMMA CommitRouteStep ==
  ASSUME VersionInv, NEW r \in WvEdits, CommitRoute(r)
  PROVE  VersionInv'
<1> DEFINE e == wvEdit[r]
           f == e.flow
           row == Put(e, wvFlow[f])
<1>1. /\ e # NoRoute /\ e.op # "publish" /\ FlowExists(f) /\ wvFlow' = [wvFlow EXCEPT ![f] = row]
      /\ wvEdit' = [wvEdit EXCEPT ![r] = NoRoute] /\ UNCHANGED <<wvRows, wvPublished, wvRun, wvTemplates, wvHooks, wvOps>>
  BY DEF CommitRoute
<1>2. e \in RouteRows /\ f \in WvFlows /\ wvFlow[f] \in FlowRows
  BY VersionShapes
<1>3. e.op # "none" /\ e.new.version = e.saw.version /\ e.new.cut = e.saw.cut /\ e.new.status \notin {"none", "gone"}
  BY <1>1 DEF VersionInv, RoutesSound
<1>4. /\ row \in FlowRows /\ row.version = wvFlow[f].version /\ row.cut = wvFlow[f].cut /\ row.status \notin {"none", "gone"}
      /\ row.hook \in {e.new.hook, wvFlow[f].hook}
  BY <1>1, <1>2, <1>3, PutColumns DEF FlowExists
<1> HIDE DEF row
<1>5. /\ wvFlow'[f] = row /\ \A g \in WvFlows \ {f} : wvFlow'[g] = wvFlow[g]
      /\ wvEdit'[r] = NoRoute /\ \A q \in WvEdits \ {r} : wvEdit'[q] = wvEdit[q]
  BY <1>1, <1>2 DEF VersionInv, VersionShape
<1>6. \A g \in WvFlows : /\ wvFlow'[g].version = wvFlow[g].version /\ wvFlow'[g].cut = wvFlow[g].cut
                         /\ FlowExists(g)' = FlowExists(g) /\ UnusedId(g)' = UnusedId(g)
  BY <1>1, <1>4, <1>5 DEF FlowExists, UnusedId
<1>7. VersionShape'
  BY <1>1, <1>4, <1>2, FlowsAre DEF VersionInv, VersionShape
<1>8. RequestsPaid'
  <2>1. e.new.hook <= wvHooks /\ \A g \in WvFlows : wvFlow[g].hook <= wvHooks
    BY DEF VersionInv, RequestsPaid
  <2>2. \A g \in WvFlows : wvFlow'[g].version <= wvOps /\ wvFlow'[g].hook <= wvHooks
    BY <1>4, <1>5, <1>6, <2>1 DEF VersionInv, RequestsPaid
  <2>3. \A q \in WvEdits : /\ wvEdit'[q].saw.version <= wvOps /\ wvEdit'[q].new.version <= wvOps
                           /\ wvEdit'[q].saw.hook <= wvHooks /\ wvEdit'[q].new.hook <= wvHooks
    BY <1>5, FlowsAre, VersionShapes DEF VersionInv, RequestsPaid
  <2> QED
    BY <1>1, <2>2, <2>3 DEF RequestsPaid
<1>9. VersionsNumbered' /\ CutIsNewest'
  <2>1. \A w \in wvPublished : w[1] \in WvFlows
    BY VersionShapes
  <2>2. VersionsNumbered'
    BY <1>1, <1>6, <2>1 DEF VersionInv, VersionsNumbered
  <2>3. CutIsNewest'
    BY <1>1, <1>6 DEF VersionInv, CutIsNewest
  <2> QED
    BY <2>2, <2>3
<1>10. RoutesSound'
  <2> SUFFICES ASSUME NEW q \in WvEdits PROVE RouteFits(wvEdit'[q], wvFlow'[wvEdit'[q].flow])
    BY RoutesFit
  <2>1. CASE q = r
    BY <1>5, <2>1, FlowsAre DEF RouteFits
  <2>2. CASE q # r
    <3>1. wvEdit'[q] = wvEdit[q] /\ wvEdit[q].flow \in WvFlows /\ RouteFits(wvEdit[q], wvFlow[wvEdit[q].flow])
      BY <1>5, <2>2, VersionShapes, RoutesFit DEF VersionInv
    <3> DEFINE g == wvEdit[q].flow
    <3>2. /\ wvFlow'[g].version = wvFlow[g].version /\ wvFlow'[g].cut = wvFlow[g].cut
          /\ (wvFlow'[g].status \notin {"none", "gone"}) = (wvFlow[g].status \notin {"none", "gone"})
          /\ (wvFlow'[g].status = "none") = (wvFlow[g].status = "none")
      BY <1>6, <3>1 DEF FlowExists, UnusedId
    <3> HIDE DEF g
    <3> QED
      BY <3>1, <3>2 DEF RouteFits, g
  <2> QED
    BY <2>1, <2>2
<1>11. RunsSound' /\ DraftsStayIn'
  BY <1>1, <1>6, VersionShapes DEF VersionInv, RunsSound, DraftsStayIn
<1> QED
  BY <1>7, <1>8, <1>9, <1>10, <1>11 DEF VersionInv

\* Versions are numbered, so that fewer than WvKeep rows are above one of the newest.
LEMMA FewAbove ==
  ASSUME NEW U, NEW low \in Nat, NEW high \in Nat, high < low + WvKeep,
         \A u \in U : u[2] \in (low + 1)..high,
         \A u, v \in U : u[2] = v[2] => u = v
  PROVE  Cardinality(U) < WvKeep
<1> DEFINE T == (low + 1)..high
           number == [u \in U |-> u[2]]
<1>1. IsFiniteSet(T) /\ Cardinality(T) = IF low + 1 > high THEN 0 ELSE high - low
  <2>1. low + 1 \in Int /\ high \in Int
    OBVIOUS
  <2>2. IsFiniteSet(T) /\ Cardinality(T) = IF low + 1 > high THEN 0 ELSE high - (low + 1) + 1
    BY <2>1, FS_Interval
  <2> QED
    BY <2>2
<1>2. Cardinality(T) \in Nat /\ Cardinality(T) < WvKeep
  <2>1. WvKeep \in Nat \ {0}
    BY VersionsAssumption
  <2> HIDE DEF T
  <2> QED
    BY <1>1, <2>1
<1>3. number \in Injection(U, T)
  BY DEF Injection, IsInjective
<1> HIDE DEF T, number
<1>4. IsFiniteSet(U) /\ Cardinality(U) <= Cardinality(T)
  BY <1>1, <1>3, FS_Injection
<1>5. Cardinality(U) \in Nat
  BY <1>4, FS_CardinalityType
<1> QED
  BY <1>2, <1>4, <1>5, VersionsAssumption

\* A publish that is not refused adds the next version.
LEMMA PublishVersionStep ==
  ASSUME VersionInv, NEW r \in WvEdits, PublishVersion(r)
  PROVE  VersionInv'
<1> DEFINE e == wvEdit[r]
           f == e.flow
           now == wvFlow[f]
           row == Put(e, now)
           next == now.version + 1
           added == <<f, next, e.new.cut>>
           rows == wvRows \cup {added}
<1>1. /\ e # NoRoute /\ e.op = "publish" /\ FlowExists(f) /\ Unique(f, e.new.version) /\ FewOverlap(f)
      /\ wvFlow' = [wvFlow EXCEPT ![f] = row]
      /\ wvRows' = Pruned(wvRows \cup {<<f, e.new.version, e.new.cut>>}, f)
      /\ wvPublished' = wvPublished \cup {<<f, e.new.version, e.new.cut>>}
      /\ wvEdit' = [wvEdit EXCEPT ![r] = NoRoute] /\ UNCHANGED <<wvRun, wvTemplates, wvHooks, wvOps>>
  BY DEF PublishVersion
<1>2. /\ e \in RouteRows /\ f \in WvFlows /\ now \in FlowRows /\ now.version \in Nat
      /\ e.saw.version \in Nat /\ e.new.version \in Nat
  BY VersionShapes
<1>3. /\ e.new.version = e.saw.version + 1 /\ e.new.cut \in WvRunnable /\ e.new.status \notin {"none", "gone"}
      /\ e.saw.version <= now.version /\ (e.saw.version = now.version => e.saw.cut = now.cut)
  BY <1>1 DEF VersionInv, RoutesSound
<1>4. e.saw.version = now.version
  <2>1. SUFFICES ASSUME e.saw.version # now.version PROVE FALSE
    OBVIOUS
  <2>2. e.new.version \in 1..now.version
    BY <1>2, <1>3, <2>1
  <2>3. PICK w \in wvPublished : w[1] = f /\ w[2] = e.new.version
    BY <1>1, <1>2, <2>2 DEF VersionInv, VersionsNumbered
  <2>4. now.version < e.saw.version + WvKeep
    BY <1>1 DEF FewOverlap
  <2>5. now.version < w[2] + WvKeep
    BY <1>2, <1>3, <2>3, <2>4, VersionsAssumption
  <2>6. w \in wvRows
    BY <2>3, <2>5 DEF VersionInv, VersionsNumbered
  <2> QED
    BY <1>1, <2>3, <2>6 DEF Unique
<1>5. e.new.version = next
  BY <1>3, <1>4
<1>6. wvRows' = Pruned(rows, f) /\ wvPublished' = wvPublished \cup {added}
  BY <1>1, <1>5
<1>7. /\ row \in FlowRows /\ row.version = next /\ row.cut = e.new.cut /\ row.status \notin {"none", "gone"}
      /\ row.hook \in {e.new.hook, now.hook}
  <2>1. e.new.version # e.saw.version
    BY <1>2, <1>3
  <2> QED
    BY <1>1, <1>2, <1>3, <1>4, <1>5, <2>1, PutColumns DEF FlowExists
<1> HIDE DEF row
<1>8. /\ wvFlow'[f] = row /\ \A g \in WvFlows \ {f} : wvFlow'[g] = wvFlow[g]
      /\ wvEdit'[r] = NoRoute /\ \A q \in WvEdits \ {r} : wvEdit'[q] = wvEdit[q]
  BY <1>1, <1>2 DEF VersionInv, VersionShape
<1>9. \A g \in WvFlows : FlowExists(g)' = FlowExists(g) /\ UnusedId(g)' = UnusedId(g)
  BY <1>1, <1>7, <1>8 DEF FlowExists, UnusedId
<1>10. next \in Nat /\ next <= wvOps /\ wvOps \in 0..WvMaxOps
  BY <1>2, <1>5 DEF VersionInv, RequestsPaid, VersionShape
<1>11. next \in 1..WvMaxOps
  BY <1>2, <1>10, VersionsAssumption
<1>12. added \in WvFlows \X (1..WvMaxOps) \X WvRunnable /\ added[1] = f /\ added[2] = next /\ added[3] = e.new.cut
  BY <1>2, <1>3, <1>11
<1> HIDE DEF added
<1>13. \A w \in wvPublished : w[1] = f => w[2] \in Nat /\ w[2] <= now.version /\ w[2] # next
  <2>1. \A w \in wvPublished : w[1] = f => w[2] \in Nat /\ w[2] <= now.version
    BY VersionShapes DEF VersionInv, VersionsNumbered
  <2> QED
    BY <2>1, <1>2
<1>14. VersionShape'
  BY <1>1, <1>2, <1>6, <1>7, <1>12, FlowsAre DEF VersionInv, VersionShape
<1>15. RequestsPaid'
  <2>1. e.new.hook <= wvHooks /\ \A g \in WvFlows : wvFlow[g].hook <= wvHooks /\ wvFlow[g].version <= wvOps
    BY DEF VersionInv, RequestsPaid
  <2>2. row.hook <= wvHooks /\ row.version <= wvOps
    BY <1>2, <1>7, <1>10, <2>1
  <2>3. \A g \in WvFlows : wvFlow'[g].version <= wvOps /\ wvFlow'[g].hook <= wvHooks
    BY <1>8, <2>1, <2>2
  <2>4. \A q \in WvEdits : /\ wvEdit'[q].saw.version <= wvOps /\ wvEdit'[q].new.version <= wvOps
                           /\ wvEdit'[q].saw.hook <= wvHooks /\ wvEdit'[q].new.hook <= wvHooks
    BY <1>8, FlowsAre, VersionShapes DEF VersionInv, RequestsPaid
  <2> QED
    BY <1>1, <2>3, <2>4 DEF RequestsPaid
<1>16. VersionsNumbered'
  <2>1. \A w \in wvPublished' : FlowExists(w[1])' /\ w[2] <= wvFlow'[w[1]].version
    <3>1. \A w \in wvPublished : w[1] \in WvFlows /\ FlowExists(w[1]) /\ w[2] <= wvFlow[w[1]].version /\ w[2] \in Nat
      BY VersionShapes DEF VersionInv, VersionsNumbered
    <3>2. \A w \in wvPublished : FlowExists(w[1])' /\ w[2] <= wvFlow'[w[1]].version
      BY <1>2, <1>7, <1>8, <1>9, <1>13, <3>1
    <3>3. wvFlow'[added[1]].status \notin {"none", "gone"} /\ added[2] <= wvFlow'[added[1]].version
      BY <1>7, <1>8, <1>10, <1>12
    <3> QED
      BY <1>6, <3>2, <3>3 DEF FlowExists
  <2>2. \A v, w \in wvPublished' : v[1] = w[1] /\ v[2] = w[2] => v = w
    BY <1>6, <1>12, <1>13 DEF VersionInv, VersionsNumbered
  <2>3. ASSUME NEW g \in WvFlows, FlowExists(g)', NEW n \in 1..wvFlow'[g].version PROVE \E w \in wvPublished' : w[1] = g /\ w[2] = n
    <3>1. CASE g = f /\ n = next
      BY <1>6, <1>12, <3>1
    <3>2. CASE g = f /\ n # next
      <4>1. n \in 1..now.version
        BY <1>2, <1>7, <1>8, <2>3, <3>2
      <4> QED
        BY <1>1, <1>2, <1>6, <3>2, <4>1 DEF VersionInv, VersionsNumbered
    <3>3. CASE g # f
      BY <1>6, <1>8, <1>9, <2>3, <3>3 DEF VersionInv, VersionsNumbered
    <3> QED
      BY <3>1, <3>2, <3>3
  <2>4. wvRows' \subseteq wvPublished'
    BY <1>6 DEF VersionInv, VersionsNumbered, Pruned
  <2>5. ASSUME NEW w \in wvPublished', wvFlow'[w[1]].version < w[2] + WvKeep PROVE w \in wvRows'
    <3>1. CASE w[1] # f
      <4>1. w \in wvPublished /\ wvFlow[w[1]].version < w[2] + WvKeep
        BY <1>6, <1>8, <1>12, <2>5, <3>1, VersionShapes
      <4> QED
        BY <1>6, <3>1, <4>1 DEF VersionInv, VersionsNumbered, Pruned
    <3>2. CASE w[1] = f
      <4> DEFINE above == {u \in rows : u[1] = f /\ u[2] > w[2]}
      <4>1. w[2] \in Nat /\ next < w[2] + WvKeep
        BY <1>2, <1>6, <1>7, <1>8, <1>12, <1>13, <1>10, <2>5, <3>2
      <4>2. w \in rows
        <5>1. w \in wvPublished => now.version < w[2] + WvKeep
          BY <1>2, <4>1, VersionsAssumption
        <5> QED
          BY <1>6, <3>2, <5>1 DEF VersionInv, VersionsNumbered
      <4>3. rows \subseteq wvPublished'
        BY <1>6 DEF VersionInv, VersionsNumbered
      <4>4. \A u \in rows : u[1] = f => u[2] \in Nat /\ u[2] <= next
        BY <1>2, <1>10, <1>12, <1>13 DEF VersionInv, VersionsNumbered
      <4>5. \A u \in above : u[2] \in (w[2] + 1)..next
        BY <4>1, <4>4, <1>10
      <4>6. \A u, v \in above : u[2] = v[2] => u = v
        BY <2>2, <4>3
      <4> HIDE DEF above
      <4>7. Cardinality(above) < WvKeep
        BY <1>10, <4>1, <4>5, <4>6, FewAbove
      <4> QED
        BY <1>6, <4>2, <4>7 DEF Pruned, above
    <3> QED
      BY <3>1, <3>2
  <2> QED
    BY <2>1, <2>2, <2>3, <2>4, <2>5 DEF VersionsNumbered
<1>17. CutIsNewest'
  <2> SUFFICES ASSUME NEW g \in WvFlows, wvFlow'[g].cut # NoCut
               PROVE  FlowExists(g)' /\ <<g, wvFlow'[g].version, wvFlow'[g].cut>> \in wvPublished'
    BY DEF CutIsNewest
  <2>1. CASE g = f
    BY <1>1, <1>2, <1>6, <1>7, <1>8, <1>9, <2>1 DEF added
  <2>2. CASE g # f
    BY <1>6, <1>8, <1>9, <2>2 DEF VersionInv, CutIsNewest
  <2> QED
    BY <2>1, <2>2
<1>18. RoutesSound'
  <2> SUFFICES ASSUME NEW q \in WvEdits PROVE RouteFits(wvEdit'[q], wvFlow'[wvEdit'[q].flow])
    BY RoutesFit
  <2>1. CASE q = r
    BY <1>8, <2>1, FlowsAre DEF RouteFits
  <2>2. CASE q # r /\ wvEdit[q].flow # f
    <3>1. wvEdit'[q] = wvEdit[q] /\ wvEdit[q].flow \in WvFlows /\ RouteFits(wvEdit[q], wvFlow[wvEdit[q].flow])
      BY <1>8, <2>2, VersionShapes, RoutesFit DEF VersionInv
    <3>2. wvFlow'[wvEdit[q].flow] = wvFlow[wvEdit[q].flow]
      BY <1>8, <2>2, <3>1
    <3> QED
      BY <3>1, <3>2
  <2>3. CASE q # r /\ wvEdit[q].flow = f
    <3> DEFINE d == wvEdit[q]
    <3>1. wvEdit'[q] = d /\ d.flow = f /\ RouteFits(d, now)
      BY <1>8, <2>3, RoutesFit DEF VersionInv
    <3>2. d.op = "publish" => now.version < d.saw.version + WvKeep
      BY <1>1, <2>3 DEF FewOverlap
    <3>3. d.saw.version \in Nat /\ now.status \notin {"none", "gone"}
      BY <1>1, VersionShapes DEF FlowExists
    <3>4. wvFlow'[f].version = next /\ wvFlow'[f].status \notin {"none", "gone"}
      BY <1>7, <1>8
    <3> HIDE DEF d, now
    <3>5. d.op # "none" => d.saw.version <= next /\ d.saw.version # next /\ (d.op = "publish" => next <= d.saw.version + WvKeep)
      BY <1>2, <3>1, <3>2, <3>3, VersionsAssumption DEF RouteFits
    <3>6. RouteFits(d, wvFlow'[f])
      BY <3>1, <3>3, <3>4, <3>5 DEF RouteFits
    <3> QED
      BY <3>1, <3>6
  <2> QED
    BY <2>1, <2>2, <2>3
<1>19. RunsSound'
  <2>1. ASSUME NEW x \in WvRuns, wvRun[x].version >= 0
        PROVE  wvFlow'[wvRun[x].flow].status \notin {"none", "gone"} /\ wvRun[x].version <= wvFlow'[wvRun[x].flow].version
    <3>1. wvRun[x].flow \in WvFlows /\ FlowExists(wvRun[x].flow) /\ wvRun[x].version <= wvFlow[wvRun[x].flow].version
      BY <2>1, VersionShapes DEF VersionInv, RunsSound
    <3>2. wvRun[x].version \in Int
      BY VersionShapes DEF RunRows
    <3>3. CASE wvRun[x].flow = f
      BY <1>2, <1>7, <1>8, <3>1, <3>2, <3>3
    <3>4. CASE wvRun[x].flow # f
      BY <1>8, <3>1, <3>4 DEF FlowExists
    <3> QED
      BY <3>3, <3>4
  <2> QED
    BY <1>1, <2>1 DEF VersionInv, RunsSound, FlowExists
<1>20. DraftsStayIn'
  BY <1>1, <1>6 DEF VersionInv, DraftsStayIn
<1> QED
  BY <1>14, <1>15, <1>16, <1>17, <1>18, <1>19, <1>20 DEF VersionInv

-----------------------------------------------------------------------------
\* A deleted workflow takes its versions and executions with it, and its id is not given again.
LEMMA DeleteWorkflowStep ==
  ASSUME VersionInv, NEW f \in WvFlows, DeleteWorkflow(f)
  PROVE  VersionInv'
<1>1. /\ wvOps' = wvOps + 1 /\ wvOps < WvMaxOps /\ FlowExists(f) /\ wvFlow' = [wvFlow EXCEPT ![f] = GoneFlow]
      /\ wvRows' = {w \in wvRows : w[1] # f} /\ wvPublished' = {w \in wvPublished : w[1] # f}
      /\ wvRun' = [x \in WvRuns |-> IF wvRun[x].flow = f THEN NoRun ELSE wvRun[x]]
      /\ UNCHANGED <<wvEdit, wvTemplates, wvHooks>>
  BY DEF DeleteWorkflow, Request
<1>2. wvFlow'[f] = GoneFlow /\ \A g \in WvFlows \ {f} : wvFlow'[g] = wvFlow[g]
  BY <1>1 DEF VersionInv, VersionShape
<1>3. wvOps \in Nat /\ wvOps' \in 0..WvMaxOps /\ wvHooks \in 0..wvOps
  BY <1>1, VersionShapes, VersionsAssumption DEF VersionInv, VersionShape
<1>4. \A g \in WvFlows \ {f} : FlowExists(g)' = FlowExists(g) /\ UnusedId(g)' = UnusedId(g)
  BY <1>2 DEF FlowExists, UnusedId
<1>5. VersionShape'
  <2>1. wvRun' \in [WvRuns -> RunRows]
    BY <1>1, FlowsAre DEF VersionInv, VersionShape
  <2>2. wvHooks' \in 0..wvOps'
    BY <1>1, <1>3
  <2>3. wvFlow' \in [WvFlows -> FlowRows]
    BY <1>1, FlowsAre DEF VersionInv, VersionShape
  <2> QED
    BY <1>1, <1>3, <2>1, <2>2, <2>3 DEF VersionInv, VersionShape
<1>6. RequestsPaid'
  <2>1. \A g \in WvFlows : wvFlow'[g].version <= wvOps' /\ wvFlow'[g].hook <= wvHooks'
    BY <1>1, <1>2, <1>3, FlowsAre, VersionShapes DEF VersionInv, RequestsPaid
  <2>2. \A q \in WvEdits : /\ wvEdit'[q].saw.version <= wvOps' /\ wvEdit'[q].new.version <= wvOps'
                           /\ wvEdit'[q].saw.hook <= wvHooks' /\ wvEdit'[q].new.hook <= wvHooks'
    BY <1>1, <1>3, VersionShapes DEF VersionInv, RequestsPaid
  <2> QED
    BY <2>1, <2>2 DEF RequestsPaid
<1>7. VersionsNumbered'
  <2>1. \A w \in wvPublished' : w \in wvPublished /\ w[1] \in WvFlows \ {f} /\ wvFlow'[w[1]] = wvFlow[w[1]]
    BY <1>1, <1>2, VersionShapes
  <2>2. \A w \in wvPublished' : FlowExists(w[1])' /\ w[2] <= wvFlow'[w[1]].version
    BY <1>4, <2>1 DEF VersionInv, VersionsNumbered
  <2>3. \A v, w \in wvPublished' : v[1] = w[1] /\ v[2] = w[2] => v = w
    BY <2>1 DEF VersionInv, VersionsNumbered
  <2>4. ASSUME NEW g \in WvFlows, FlowExists(g)', NEW n \in 1..wvFlow'[g].version PROVE \E w \in wvPublished' : w[1] = g /\ w[2] = n
    <3>1. g # f
      BY <1>2, <2>4, FlowsAre DEF FlowExists
    <3> QED
      BY <1>1, <1>2, <1>4, <2>4, <3>1 DEF VersionInv, VersionsNumbered
  <2>5. wvRows' \subseteq wvPublished' /\ \A w \in wvPublished' : wvFlow'[w[1]].version < w[2] + WvKeep => w \in wvRows'
    BY <1>1, <2>1 DEF VersionInv, VersionsNumbered
  <2> QED
    BY <2>2, <2>3, <2>4, <2>5 DEF VersionsNumbered
<1>8. CutIsNewest'
  <2> SUFFICES ASSUME NEW g \in WvFlows, wvFlow'[g].cut # NoCut
               PROVE  FlowExists(g)' /\ <<g, wvFlow'[g].version, wvFlow'[g].cut>> \in wvPublished'
    BY DEF CutIsNewest
  <2>1. g # f
    BY <1>2, FlowsAre
  <2> QED
    BY <1>1, <1>2, <1>4, <2>1 DEF VersionInv, CutIsNewest
<1>9. RoutesSound'
  <2> SUFFICES ASSUME NEW q \in WvEdits PROVE RouteFits(wvEdit'[q], wvFlow'[wvEdit'[q].flow])
    BY RoutesFit
  <2> DEFINE d == wvEdit[q]
  <2>1. wvEdit'[q] = d /\ d.flow \in WvFlows /\ RouteFits(d, wvFlow[d.flow])
    BY <1>1, VersionShapes, RoutesFit DEF VersionInv
  <2> HIDE DEF d
  <2>2. CASE d.flow = f
    BY <1>2, <2>1, <2>2, FlowsAre DEF RouteFits
  <2>3. CASE d.flow # f
    BY <1>2, <2>1, <2>3
  <2> QED
    BY <2>2, <2>3
<1>10. \A x \in WvRuns : wvRun'[x] = NoRun \/ (wvRun'[x] = wvRun[x] /\ wvRun[x].flow \in WvFlows \ {f})
  BY <1>1, VersionShapes
<1>11. RunsSound'
  <2> SUFFICES ASSUME NEW x \in WvRuns
               PROVE  /\ wvRun'[x].version = -1 => wvRun'[x] = NoRun
                      /\ wvRun'[x].version >= 0 => /\ wvFlow'[wvRun'[x].flow].status \notin {"none", "gone"}
                                                   /\ wvRun'[x].version <= wvFlow'[wvRun'[x].flow].version
    BY DEF RunsSound, FlowExists
  <2>1. CASE wvRun'[x] = NoRun
    BY <2>1, FlowsAre
  <2>2. CASE wvRun'[x] = wvRun[x] /\ wvRun[x].flow \in WvFlows \ {f}
    BY <1>2, <2>2 DEF VersionInv, RunsSound, FlowExists
  <2> QED
    BY <1>10, <2>1, <2>2
<1>12. DraftsStayIn'
  <2> SUFFICES ASSUME NEW x \in WvRuns, wvRun'[x].version > 0, wvRun'[x].ran # NoCut
               PROVE  \E w \in wvPublished' : w[1] = wvRun'[x].flow /\ w[2] >= wvRun'[x].version /\ w[3] = wvRun'[x].ran
    BY DEF DraftsStayIn
  <2>1. wvRun'[x] = wvRun[x] /\ wvRun[x].flow # f
    BY <1>10, FlowsAre
  <2> QED
    BY <1>1, <2>1 DEF VersionInv, DraftsStayIn
<1> QED
  BY <1>5, <1>6, <1>7, <1>8, <1>9, <1>11, <1>12 DEF VersionInv

\* An execution changes: what it pins and what it has run are sound.
LEMMA RunStep ==
  ASSUME VersionInv, NEW x \in WvRuns, NEW run \in RunRows, wvRun' = [wvRun EXCEPT ![x] = run],
         run.version >= 0, FlowExists(run.flow), run.version <= wvFlow[run.flow].version,
         run.version > 0 /\ run.ran # NoCut =>
           \E w \in wvPublished : w[1] = run.flow /\ w[2] >= run.version /\ w[3] = run.ran,
         wvOps' \in 0..WvMaxOps, wvOps <= wvOps',
         UNCHANGED <<wvFlow, wvRows, wvPublished, wvEdit, wvTemplates, wvHooks>>
  PROVE  VersionInv'
<1>1. wvRun'[x] = run /\ \A y \in WvRuns \ {x} : wvRun'[y] = wvRun[y]
  BY DEF VersionInv, VersionShape
<1>2. VersionShape'
  BY DEF VersionInv, VersionShape
<1>3. RequestsPaid'
  BY VersionShapes DEF VersionInv, RequestsPaid
<1>4. VersionsNumbered' /\ CutIsNewest' /\ RoutesSound'
  BY DEF VersionInv, VersionsNumbered, CutIsNewest, RoutesSound, FlowExists, UnusedId
<1>5. run.version # -1
  BY DEF RunRows
<1>6. RunsSound'
  BY <1>1, <1>5 DEF VersionInv, RunsSound, FlowExists
<1>7. DraftsStayIn'
  BY <1>1 DEF VersionInv, DraftsStayIn
<1> QED
  BY <1>2, <1>3, <1>4, <1>6, <1>7 DEF VersionInv

\* Starting a run, by hand, by webhook or by an alert, keeps VersionInv.
LEMMA CreateExecutionStep ==
  ASSUME VersionInv, NEW x \in WvRuns, NEW f \in WvFlows,
         RunWorkflow(x, f) \/ TriggerWebhook(x, f) \/ GovernanceAlert(x, f)
  PROVE  VersionInv'
<1>1. PICK draft \in BOOLEAN : CreateExecution(x, f, draft)
  BY DEF RunWorkflow, TriggerWebhook, GovernanceAlert
<1> DEFINE version == IF draft THEN 0 ELSE wvFlow[f].version
           run == [flow |-> f, version |-> version, ran |-> NoCut]
<1>2. /\ wvFlow[f].version \in 0..WvMaxOps /\ WvMaxOps \in Nat
  BY VersionShapes, VersionsAssumption DEF FlowRows
<1>3. version \in -1..WvMaxOps /\ version >= 0 /\ version <= wvFlow[f].version
  BY <1>2
<1>4. /\ wvRun' = [wvRun EXCEPT ![x] = run] /\ FlowExists(f) /\ wvOps < WvMaxOps /\ wvOps' = wvOps + 1
      /\ UNCHANGED <<wvFlow, wvRows, wvPublished, wvEdit, wvTemplates, wvHooks>>
  BY <1>1 DEF CreateExecution, Request
<1> HIDE DEF version
<1>5. run \in RunRows /\ run.flow = f /\ run.version = version /\ run.ran = NoCut
  BY <1>3 DEF RunRows
<1>6. wvOps' \in 0..WvMaxOps /\ wvOps <= wvOps'
  BY <1>2, <1>4, VersionShapes
<1> HIDE DEF run
<1> QED
  BY <1>3, <1>4, <1>5, <1>6, RunStep

\* An execution that names a version runs the graph of the newest one.
LEMMA StartDriverStep ==
  ASSUME VersionInv, NEW x \in WvRuns, StartDriver(x)
  PROVE  VersionInv'
<1> DEFINE f == wvRun[x].flow
           version == wvRun[x].version
           graph == GraphSource(f, version)
           run == [wvRun[x] EXCEPT !.ran = graph]
<1>1. /\ wvRun[x] # NoRun /\ wvRun' = [wvRun EXCEPT ![x] = run]
      /\ UNCHANGED <<wvFlow, wvRows, wvPublished, wvEdit, wvTemplates, wvHooks, wvOps>>
  BY DEF StartDriver
<1>2. /\ wvRun[x] \in RunRows /\ f \in WvFlows /\ wvFlow[f] \in FlowRows /\ version \in -1..WvMaxOps
  BY VersionShapes DEF RunRows
<1>3. version >= 0 /\ FlowExists(f) /\ version <= wvFlow[f].version
  BY <1>1, <1>2, VersionsAssumption DEF VersionInv, RunsSound
<1>4. graph \in WvGraphs_ \cup {NoCut}
  BY <1>2 DEF GraphSource, FlowRows
<1>5. version > 0 /\ graph # NoCut => \E w \in wvPublished : w[1] = f /\ w[2] >= version /\ w[3] = graph
  <2> SUFFICES ASSUME version > 0, graph # NoCut PROVE \E w \in wvPublished : w[1] = f /\ w[2] >= version /\ w[3] = graph
    OBVIOUS
  <2>1. graph = wvFlow[f].cut
    BY <1>2 DEF GraphSource
  <2> DEFINE w == <<f, wvFlow[f].version, wvFlow[f].cut>>
  <2>2. w \in wvPublished
    BY <1>2, <2>1 DEF VersionInv, CutIsNewest
  <2>3. wvFlow[f].version >= version
    BY <1>2, <1>3, VersionShapes
  <2> QED
    BY <2>1, <2>2, <2>3
<1> HIDE DEF graph
<1>6. run \in RunRows /\ run.flow = f /\ run.version = version /\ run.ran = graph
  BY <1>2, <1>4 DEF RunRows
<1>7. wvOps' \in 0..WvMaxOps /\ wvOps <= wvOps'
  BY <1>1, VersionShapes DEF VersionInv, VersionShape
<1> HIDE DEF run
<1> QED
  BY <1>1, <1>3, <1>5, <1>6, <1>7, RunStep

\* VersionInv holds at the start.
LEMMA VersionStart ==
  ASSUME VersionInit
  PROVE  VersionInv
<1>1. /\ \A f \in WvFlows : wvFlow[f] = NoFlow
      /\ \A r \in WvEdits : wvEdit[r] = NoRoute
      /\ \A x \in WvRuns : wvRun[x] = NoRun
      /\ wvRows = {} /\ wvPublished = {} /\ wvTemplates = {} /\ wvHooks = 0 /\ wvOps = 0
  BY DEF VersionInit
<1>2. VersionShape
  BY <1>1, FlowsAre, VersionsAssumption DEF VersionInit, VersionShape
<1>3. RequestsPaid
  BY <1>1, FlowsAre DEF RequestsPaid
<1>4. VersionsNumbered /\ CutIsNewest
  BY <1>1, FlowsAre DEF VersionsNumbered, CutIsNewest, FlowExists
<1>5. RoutesSound /\ RunsSound /\ DraftsStayIn
  BY <1>1, FlowsAre DEF RoutesSound, RunsSound, DraftsStayIn
<1> QED
  BY <1>2, <1>3, <1>4, <1>5 DEF VersionInv

\* Every step keeps VersionInv.
LEMMA VersionStep ==
  ASSUME VersionInv, [VersionNext]_versionVars
  PROVE  VersionInv'
<1>1. CASE UNCHANGED versionVars
  BY <1>1, VersionShapes, RequestStep DEF VersionInv, VersionShape, versionVars
<1>2. CASE VersionNext
  BY <1>2, CreateStep, TemplateStep, DeleteWorkflowStep, RouteOpens, CreateExecutionStep, CommitRouteStep,
     PublishVersionStep, RouteFailsStep, StartDriverStep DEF VersionNext
<1> QED
  BY <1>1, <1>2

\* Types of the drafts, versions, routes and executions, for every instance.
LEMMA VersionTypes ==
  ASSUME VersionInv
  PROVE  VersionTypeOK
<1>1. \A x \in WvRuns : wvRun[x].version \in -1..WvMaxOps
  BY VersionShapes DEF RunRows
<1>2. wvHooks \in 0..WvMaxOps
  BY VersionShapes, VersionsAssumption DEF VersionInv, VersionShape
<1> QED
  BY <1>1, <1>2, VersionShapes DEF VersionTypeOK, VersionInv, VersionShape, VersionsNumbered

\* What VersionsSound asks is part of VersionInv.
LEMMA VersionsAreSound ==
  ASSUME VersionInv
  PROVE  VersionsSound
<1>1. ASSUME NEW f \in WvFlows, wvFlow[f].cut # NoCut
      PROVE  <<f, wvFlow[f].version, wvFlow[f].cut>> \in wvRows
  <2> DEFINE w == <<f, wvFlow[f].version, wvFlow[f].cut>>
  <2>1. w \in wvPublished /\ w[1] = f /\ w[2] = wvFlow[f].version
    BY <1>1 DEF VersionInv, CutIsNewest
  <2>2. wvFlow[f].version < wvFlow[f].version + WvKeep
    BY VersionShapes, VersionsAssumption
  <2> HIDE DEF w
  <2>3. w \in wvRows
    BY <2>1, <2>2 DEF VersionInv, VersionsNumbered
  <2> QED
    BY <2>3 DEF w
<1> QED
  BY <1>1 DEF VersionsSound, PublishedIsRecorded, VersionInv, VersionsNumbered

\* Whatever publishes, saves, rollbacks and deletions overlap, the published graph of a workflow
\* is the one its newest version row records, a version has one row, and an execution that is
\* not a debug run has run a graph some publish recorded.
THEOREM PublishedGraphsRun == VersionSpec => []VersionsSound
<1>1. VersionInit => VersionInv
  BY VersionStart
<1>2. VersionInv /\ [VersionNext]_versionVars => VersionInv'
  BY VersionStep
<1>3. VersionInv => VersionsSound
  BY VersionsAreSound
<1> QED
  BY <1>1, <1>2, <1>3, PTL DEF VersionSpec

-----------------------------------------------------------------------------
(****************************************************************************
 Passes: the graph is run as it is drawn, and ends.
 ****************************************************************************)

\* The nodes that can be reached, and those of this superstep, returned or not.
ReachedNodes == ReachFrom(wgGraph, Triggers(wgGraph))
Active  == wgTasks \cup {n \in NodesOf(wgGraph) : wgWrites[n].is # "none"}
UnderWay == wgPhase \in {"running", "waiting"}

\* A path of k nodes that can be reached.
Paths(g, R, k) == {p \in [1..k -> R] : \A i \in 1..(k - 1) : \E e \in EdgesOf(g) : e.src = p[i] /\ e.dst = p[i + 1]}

PassShape ==
  /\ wgGraph \in WgGraphs
  /\ wgPhase \in {"draft", "refused", "running", "waiting", "succeeded", "failed"}
  /\ wgStep \in Nat /\ wgTasks \subseteq NodesOf(wgGraph)
  /\ wgWrites = [n \in NodesOf(wgGraph) |-> wgWrites[n]]
  /\ wgOut = [n \in NodesOf(wgGraph) |-> [value |-> wgOut[n].value, step |-> wgOut[n].step]]
  /\ wgBranch = [n \in NodesOf(wgGraph) |-> wgBranch[n]]
  /\ \A n \in NodesOf(wgGraph) : wgOut[n].step \in 0..wgStep
  /\ wgPhase = "draft" => Active = {} /\ wgStep = 0

\* While a pass is under way its graph is valid, none of its nodes has raised, and what has
\* been written is of earlier supersteps.
PassRuns == UnderWay =>
  /\ ValidStructure(wgGraph) /\ Compiles(wgGraph) /\ wgStep >= 1
  /\ \A n \in NodesOf(wgGraph) : wgWrites[n].is \in {"none", "ok", "interrupt"} /\ wgOut[n].step < wgStep
  /\ wgPhase = "waiting" => wgTasks = {}

\* A node of the k-th superstep ends a path of k nodes.
PathsGrow ==
  /\ wgStep <= Cardinality(ReachedNodes) /\ wgTasks \subseteq ReachedNodes
  /\ UnderWay => \A n \in Active : \E p \in Paths(wgGraph, ReachedNodes, wgStep) : p[wgStep] = n

\* What a branch has selected has run since, or is about to.
SelectedFollow == wgPhase \in {"running", "waiting", "succeeded"} =>
  \A n \in NodesOf(wgGraph) : wgOut[n].step # 0 /\ Unambiguous(wgGraph, n) =>
    \A e \in Drawn(wgGraph, n) :
      \/ wgOut[e.dst].step > wgOut[n].step
      \/ UnderWay /\ wgOut[n].step = wgStep - 1 /\ e.dst \in Active

PassInv == PassShape /\ PassRuns /\ PathsGrow /\ SelectedFollow

-----------------------------------------------------------------------------
\* The nodes that can be reached are nodes, among them the trigger and what an edge leads
\* to from one of them.
LEMMA ReachedCloses ==
  ASSUME NEW g \in WgGraphs, ValidStructure(g)
  PROVE  LET R == ReachFrom(g, Triggers(g)) IN
         /\ R \subseteq NodesOf(g) /\ IsFiniteSet(R) /\ Triggers(g) \subseteq R /\ Cardinality(Triggers(g)) = 1
         /\ \A e \in EdgesOf(g) : e.src \in R => e.dst \in R
<1> DEFINE R == ReachFrom(g, Triggers(g))
<1>1. R \subseteq NodesOf(g) /\ Triggers(g) \subseteq R
  BY DEF ReachFrom, Triggers
<1>2. IsFiniteSet(R)
  BY <1>1, FS_Subset, GraphsAssumption
<1>3. Cardinality(Triggers(g)) = 1
  BY DEF ValidStructure, Triggers
<1>4. \A e \in EdgesOf(g) : e.src \in R => e.dst \in R
  BY DEF ValidStructure, ReachFrom
<1> QED
  BY <1>1, <1>2, <1>3, <1>4

\* A path in a valid graph meets no node twice: of a piece from a node back to it every
\* node would have an edge from within the piece.
LEMMA PathsAreSimple ==
  ASSUME NEW g \in WgGraphs, ValidStructure(g), NEW R, R \subseteq NodesOf(g), NEW k \in Nat, NEW p \in Paths(g, R, k),
         NEW i \in 1..k, NEW j \in 1..k, i < j
  PROVE  p[i] # p[j]
<1> SUFFICES ASSUME p[i] = p[j] PROVE FALSE
  OBVIOUS
<1> DEFINE S == {p[m] : m \in i..(j - 1)}
<1>1. p \in [1..k -> R] /\ \A m \in 1..(k - 1) : \E e \in EdgesOf(g) : e.src = p[m] /\ e.dst = p[m + 1]
  BY DEF Paths
<1>2. S \in SUBSET NodesOf(g) /\ p[i] \in S
  BY <1>1
<1>3. PICK n \in S : \A e \in EdgesOf(g) : ~(e.dst = n /\ e.src \in S)
  BY <1>2 DEF ValidStructure, Acyclic
<1>4. PICK m \in i..(j - 1) : n = p[m]
  OBVIOUS
<1>5. CASE m > i
  <2>1. m - 1 \in i..(j - 1) /\ m - 1 \in 1..(k - 1) /\ (m - 1) + 1 = m
    BY <1>5
  <2> QED
    BY <2>1, <1>1, <1>3, <1>4
<1>6. CASE m = i
  <2>1. j - 1 \in i..(j - 1) /\ j - 1 \in 1..(k - 1) /\ (j - 1) + 1 = j
    OBVIOUS
  <2> QED
    BY <2>1, <1>1, <1>3, <1>4, <1>6
<1> QED
  BY <1>5, <1>6

\* So no path is longer than the number of nodes that can be reached.
LEMMA PathsAreShort ==
  ASSUME NEW g \in WgGraphs, ValidStructure(g), NEW R, R \subseteq NodesOf(g), IsFiniteSet(R), NEW k \in Nat, NEW p \in Paths(g, R, k)
  PROVE  k <= Cardinality(R)
<1>1. p \in Injection(1..k, R)
  <2>1. p \in [1..k -> R]
    BY DEF Paths
  <2>2. \A i, j \in 1..k : p[i] = p[j] => i = j
    <3> TAKE i, j \in 1..k
    <3>1. i < j => p[i] # p[j]
      BY PathsAreSimple
    <3>2. j < i => p[j] # p[i]
      BY PathsAreSimple
    <3> QED
      BY <3>1, <3>2
  <2> QED
    BY <2>1, <2>2 DEF Injection, IsInjective
<1>2. IsFiniteSet(1..k) /\ Cardinality(1..k) = k
  BY FS_Interval
<1> QED
  BY <1>1, <1>2, FS_Injection

\* A set of indexes of edges has a last one.
LEMMA LastEdge ==
  ASSUME NEW g \in WgGraphs, NEW I, I \subseteq DOMAIN g.edges, I # {}
  PROVE  \E i \in I : \A j \in I : j <= i
<1> DEFINE k == Len(g.edges)
           S == {k - i : i \in I}
<1>1. k \in Nat /\ DOMAIN g.edges = 1..k
  BY GraphsAssumption
<1>2. S \subseteq Nat /\ S # {}
  BY <1>1
<1>3. PICK m \in S : \A s \in S : ~(<<s, m>> \in OpToRel(<, Nat))
  BY <1>2, WFMin, NatLessThanWellFounded, Zenon
<1>4. \A s \in S : ~(s < m)
  BY <1>2, <1>3 DEF OpToRel
<1>5. PICK i \in I : m = k - i
  OBVIOUS
<1>6. \A j \in I : j <= i
  <2> TAKE j \in I
  <2>1. k - j \in S
    OBVIOUS
  <2>2. ~(k - j < k - i) /\ i \in 1..k /\ j \in 1..k
    BY <2>1, <1>1, <1>4, <1>5
  <2> HIDE DEF k
  <2> QED
    BY <1>1, <2>2
<1> QED
  BY <1>6

\* A node is followed by targets of its edges only.
LEMMA SuccessorsAreTargets ==
  ASSUME NEW g \in WgGraphs, NEW n, NEW b, NEW m \in Successors(g, n, b)
  PROVE  \E e \in EdgesOf(g) : e.src = n /\ e.dst = m
<1>1. CASE HandlesOf(g, n) = {}
  BY <1>1 DEF Successors, Out
<1>2. CASE HandlesOf(g, n) # {}
  <2> DEFINE key == Route(g, n, b)
             I == {i \in DOMAIN g.edges : g.edges[i].src = n /\ g.edges[i].handle = key}
             last == CHOOSE i \in I : \A j \in I : j <= i
  <2>1. m \in PathMap(g, n, key)
    BY <1>2 DEF Successors
  <2>2. I # {} /\ m = g.edges[last].dst
    BY <2>1 DEF PathMap
  <2>3. last \in I
    BY <2>2, LastEdge
  <2> QED
    BY <2>2, <2>3 DEF EdgesOf
<1> QED
  BY <1>1, <1>2

\* What the author drew for a branch is where the compiled graph goes.
LEMMA SelectedAreSuccessors ==
  ASSUME NEW g \in WgGraphs, NEW n, Unambiguous(g, n), NEW b, NEW e \in Out(g, n),
         \/ e.handle = b
         \/ e.handle = None_ /\ \A f \in Out(g, n) : f.handle # b
  PROVE  e.dst \in Successors(g, n, b)
<1>1. CASE HandlesOf(g, n) = {}
  BY <1>1 DEF Successors
<1>2. CASE HandlesOf(g, n) # {}
  <2> DEFINE key == Route(g, n, b)
             I == {i \in DOMAIN g.edges : g.edges[i].src = n /\ g.edges[i].handle = key}
  <2>1. e.handle = key
    BY DEF Route, HandlesOf
  <2>2. PICK x \in DOMAIN g.edges : e = g.edges[x] /\ e.src = n
    BY DEF Out, EdgesOf
  <2>3. I = {x}
    BY <1>2, <2>1, <2>2 DEF Unambiguous
  <2>4. PathMap(g, n, key) = {e.dst}
    <3>1. \A j \in I : j <= x
      BY <2>2, <2>3, GraphsAssumption
    <3>2. (CHOOSE i \in I : \A j \in I : j <= i) = x
      BY <2>3, <3>1
    <3> QED
      BY <2>2, <2>3, <3>2 DEF PathMap
  <2> QED
    BY <1>2, <2>4 DEF Successors
<1> QED
  BY <1>1, <1>2

\* A node of a graph that compiles returns, pauses or raises.
LEMMA ResultsAre ==
  ASSUME NEW g, NEW n, g.type[n] \in NodeTypes, NEW r \in Results(g, n)
  PROVE  r.is \in {"ok", "interrupt"} \/ r = Raised
<1>1. \A v, b : Returned(v, b).is = "ok"
  BY DEF Returned
<1>2. Paused.is = "interrupt"
  BY DEF Paused
<1>3. CASE g.type[n] = "question-classifier"
  BY <1>1, <1>3 DEF Results, Classified
<1>4. CASE g.type[n] = "if-else"
  BY <1>1, <1>4 DEF Results, Branched
<1>5. CASE g.type[n] \notin {"question-classifier", "if-else"}
  BY <1>1, <1>2, <1>5 DEF NodeTypes, Results, Started, Extracted, Aggregated, Split, Iterated, AgentReact,
     Decided, Answered, Generated, Retrieved, Ran, Requested, Rendered, Archived, Combined, Notified, Echoed
<1> QED
  BY <1>3, <1>4, <1>5
-----------------------------------------------------------------------------
\* A pass that has not begun.
LEMMA PassStart == GraphInit => PassInv
<1> SUFFICES ASSUME GraphInit PROVE PassInv
  OBVIOUS
<1>1. PassShape
  BY DEF GraphInit, PassShape, Active, NoResult
<1>2. Cardinality(ReachedNodes) \in Nat
  BY FS_CardinalityType, FS_Subset, GraphsAssumption DEF ReachedNodes, ReachFrom, GraphInit
<1>3. PassRuns /\ SelectedFollow
  BY DEF GraphInit, PassRuns, SelectedFollow, UnderWay
<1>4. PathsGrow
  BY <1>2 DEF GraphInit, PathsGrow, UnderWay
<1> QED
  BY <1>1, <1>3, <1>4 DEF PassInv

\* The trigger alone is a path of one node.
LEMMA LaunchStep == PassInv /\ Launch => PassInv'
<1> SUFFICES ASSUME PassInv, Launch PROVE PassInv'
  OBVIOUS
<1> USE DEF PassInv, PassShape
<1>0. ReachedNodes' = ReachedNodes /\ wgGraph' = wgGraph /\ wgGraph \in WgGraphs
  BY DEF Launch, ReachedNodes
<1>1. CASE ValidStructure(wgGraph) /\ Compiles(wgGraph)
  <2>1. wgPhase' = "running" /\ wgTasks' = Triggers(wgGraph) /\ wgStep = 0 /\ wgStep' = 1
        /\ UNCHANGED <<wgGraph, wgWrites, wgOut, wgBranch>> /\ Active = {}
    BY <1>1 DEF Launch
  <2>2. /\ ReachedNodes \subseteq NodesOf(wgGraph) /\ IsFiniteSet(ReachedNodes) /\ Triggers(wgGraph) \subseteq ReachedNodes
        /\ Cardinality(Triggers(wgGraph)) = 1
    BY <1>1, ReachedCloses DEF ReachedNodes
  <2>3. Cardinality(Triggers(wgGraph)) <= Cardinality(ReachedNodes)
    BY <2>2, FS_Subset
  <2>4. \A n \in NodesOf(wgGraph) : wgWrites[n].is = "none" /\ wgOut[n].step = 0
    <3>1. \A n \in NodesOf(wgGraph) : wgOut[n].step \in 0..0
      BY <2>1
    <3>2. \A n \in NodesOf(wgGraph) : wgWrites[n].is = "none"
      BY <2>1 DEF Active
    <3> QED
      BY <3>1, <3>2
  <2>5. Active' = Triggers(wgGraph)
    BY <2>1, <2>4 DEF Active
  <2>6. PassShape'
    BY <2>1, <2>2
  <2>7. PassRuns'
    BY <1>1, <2>1, <2>4 DEF PassRuns, UnderWay
  <2>8. PathsGrow'
    <3>1. \A n \in Active' : \E p \in Paths(wgGraph, ReachedNodes, 1) : p[1] = n
      <4> TAKE n \in Active'
      <4>1. [i \in 1..1 |-> n] \in Paths(wgGraph, ReachedNodes, 1)
        BY <2>2, <2>5 DEF Paths
      <4> QED
        BY <4>1
    <3> QED
      BY <1>0, <2>1, <2>2, <2>3, <3>1 DEF PathsGrow
  <2>9. SelectedFollow'
    BY <2>1, <2>4 DEF SelectedFollow
  <2> QED
    BY <2>6, <2>7, <2>8, <2>9
<1>2. CASE ~(ValidStructure(wgGraph) /\ Compiles(wgGraph))
  <2>1. wgPhase' = "refused" /\ UNCHANGED <<wgGraph, wgTasks, wgStep, wgWrites, wgOut, wgBranch>>
    BY <1>2 DEF Launch
  <2>2. PassShape'
    BY <2>1
  <2>3. PassRuns' /\ SelectedFollow'
    BY <2>1 DEF PassRuns, SelectedFollow, UnderWay
  <2>4. PathsGrow'
    BY <1>0, <2>1 DEF PathsGrow, UnderWay
  <2> QED
    BY <2>2, <2>3, <2>4
<1> QED
  BY <1>1, <1>2

\* A step that leaves the active nodes, and what they came to before it, as they are.
LEMMA SameActive ==
  ASSUME PassInv, UNCHANGED <<wgGraph, wgOut, wgBranch, wgStep>>, Active' = Active, UnderWay, UnderWay'
  PROVE  SelectedFollow' /\ (wgTasks' \subseteq Active => PathsGrow')
<1>1. ReachedNodes' = ReachedNodes
  BY DEF ReachedNodes
<1>2. SelectedFollow'
  <2> SUFFICES ASSUME NEW n \in NodesOf(wgGraph), wgOut[n].step # 0, Unambiguous(wgGraph, n), NEW e \in Drawn(wgGraph, n)'
               PROVE  \/ wgOut[e.dst].step > wgOut[n].step
                      \/ wgOut[n].step = wgStep - 1 /\ e.dst \in Active
    BY DEF SelectedFollow
  <2>1. e \in Drawn(wgGraph, n)
    BY DEF Drawn
  <2> QED
    BY <2>1 DEF PassInv, SelectedFollow, UnderWay
<1>3. ASSUME wgTasks' \subseteq Active PROVE PathsGrow'
  <2>1. Active \subseteq ReachedNodes
    <3> SUFFICES ASSUME NEW n \in Active PROVE n \in ReachedNodes
      OBVIOUS
    <3>1. PICK p \in Paths(wgGraph, ReachedNodes, wgStep) : p[wgStep] = n
      BY DEF PassInv, PathsGrow
    <3>2. wgStep \in 1..wgStep /\ p \in [1..wgStep -> ReachedNodes]
      BY DEF PassInv, PassShape, PassRuns, Paths
    <3> QED
      BY <3>1, <3>2
  <2> QED
    BY <1>1, <1>3, <2>1 DEF PassInv, PathsGrow
<1> QED
  BY <1>2, <1>3

\* A node that returns or pauses stays active; one that raises ends the pass.
LEMMA ReturnStep == ASSUME NEW n \in NodesOf(wgGraph), PassInv, ReturnNode(n) PROVE PassInv'
<1> USE DEF PassInv, PassShape
<1>1. PICK r \in Results(wgGraph, n) :
        /\ wgWrites' = [wgWrites EXCEPT ![n] = r]
        /\ IF r = Raised THEN wgPhase' = "failed" /\ wgTasks' = {}
                         ELSE wgPhase' = wgPhase  /\ wgTasks' = wgTasks \ {n}
  BY DEF ReturnNode
<1>2. wgPhase = "running" /\ n \in wgTasks /\ UNCHANGED <<wgGraph, wgOut, wgBranch, wgStep, wgTold>>
  BY DEF ReturnNode
<1>3. wgGraph.type[n] \in NodeTypes
  <2>1. n \in ReachedNodes
    BY <1>2 DEF PathsGrow
  <2> QED
    BY <1>2, <2>1 DEF PassRuns, UnderWay, Compiles, ReachedNodes
<1>4. r.is \in {"ok", "interrupt"} \/ r = Raised
  BY <1>3, ResultsAre
<1>5. wgWrites' = [m \in NodesOf(wgGraph) |-> IF m = n THEN r ELSE wgWrites[m]]
  BY <1>1
<1>6. wgWrites'[n] = r /\ \A m \in NodesOf(wgGraph) \ {n} : wgWrites'[m] = wgWrites[m]
  BY <1>5
<1>7. ReachedNodes' = ReachedNodes
  BY <1>2 DEF ReachedNodes
<1>8. wgPhase' \in {"running", "failed"} /\ wgTasks' \subseteq wgTasks
  BY <1>1, <1>2
<1>9. PassShape'
  BY <1>2, <1>5, <1>8
<1>10. CASE r = Raised
  <2>1. wgPhase' = "failed" /\ wgTasks' = {}
    BY <1>1, <1>10
  <2>2. PassRuns' /\ SelectedFollow'
    BY <2>1 DEF PassRuns, SelectedFollow, UnderWay
  <2>3. PathsGrow'
    BY <1>2, <1>7, <2>1 DEF PathsGrow, UnderWay
  <2> QED
    BY <1>9, <2>2, <2>3
<1>11. CASE r # Raised
  <2>1. wgPhase' = "running" /\ wgTasks' = wgTasks \ {n} /\ UnderWay /\ UnderWay'
    BY <1>1, <1>2, <1>11 DEF UnderWay
  <2>2. Active' = Active
    BY <1>2, <1>4, <1>6, <1>11, <2>1 DEF Active
  <2>3. PassRuns'
    <3>1. \A m \in NodesOf(wgGraph) : wgWrites'[m].is \in {"none", "ok", "interrupt"}
      BY <1>4, <1>6, <1>11, <2>1 DEF PassRuns
    <3> QED
      BY <1>2, <2>1, <3>1 DEF PassRuns
  <2>4. SelectedFollow' /\ PathsGrow'
    BY <1>2, <2>1, <2>2, SameActive DEF Active
  <2> QED
    BY <1>9, <2>3, <2>4
<1> QED
  BY <1>10, <1>11

\* A pause keeps what was written, and a decision runs the nodes that had paused again.
LEMMA PauseSteps == PassInv /\ (PauseStep \/ ResumePass) => PassInv'
<1> SUFFICES ASSUME PassInv, PauseStep \/ ResumePass PROVE PassInv'
  OBVIOUS
<1> USE DEF PassInv, PassShape
<1>1. UnderWay /\ UnderWay' /\ wgTasks = {} /\ UNCHANGED <<wgGraph, wgOut, wgBranch, wgStep>>
  BY DEF PauseStep, ResumePass, UnderWay, PassRuns
<1>2. CASE PauseStep
  <2>1. wgPhase' = "waiting" /\ UNCHANGED <<wgTasks, wgWrites>> /\ Active' = Active
    BY <1>2 DEF PauseStep, Active
  <2>2. PassShape'
    BY <1>1, <2>1
  <2>3. PassRuns'
    BY <1>1, <2>1 DEF PassRuns
  <2> QED
    BY <1>1, <2>1, <2>2, <2>3, SameActive DEF Active
<1>3. CASE ResumePass
  <2>1. /\ wgPhase' = "running" /\ wgTasks' = Halted
        /\ wgWrites' = [n \in NodesOf(wgGraph) |-> IF n \in Halted THEN NoResult ELSE wgWrites[n]]
    BY <1>3 DEF ResumePass
  <2>2. Halted \subseteq NodesOf(wgGraph) /\ Halted \subseteq Active
    BY DEF Halted, Active
  <2>3. Active' = Active
    BY <1>1, <2>1, <2>2 DEF Active, NoResult
  <2>4. PassShape'
    BY <1>1, <2>1, <2>2
  <2>5. PassRuns'
    <3>1. \A n \in NodesOf(wgGraph) : wgWrites'[n].is \in {"none", "ok", "interrupt"}
      BY <1>1, <2>1 DEF PassRuns, NoResult
    <3> QED
      BY <1>1, <2>1, <3>1 DEF PassRuns
  <2> QED
    BY <1>1, <2>1, <2>2, <2>3, <2>4, <2>5, SameActive
<1> QED
  BY <1>2, <1>3

\* A superstep that ends has run all its nodes; their successors are a step further on, and
\* what their branches select is among them.
LEMMA ApplyingStep == PassInv /\ ApplyStep => PassInv'
<1> SUFFICES ASSUME PassInv, ApplyStep PROVE PassInv'
  OBVIOUS
<1> USE DEF PassInv, PassShape
<1> DEFINE next == UNION {Successors(wgGraph, n, wgWrites[n].branch) : n \in DoneNodes}
<1>1. /\ wgPhase = "running" /\ UnderWay /\ wgTasks = {} /\ Halted = {} /\ wgGraph' = wgGraph /\ wgTasks' = next
      /\ wgWrites' = [n \in NodesOf(wgGraph) |-> NoResult]
  BY DEF ApplyStep, UnderWay
<1>2. \A n \in NodesOf(wgGraph) :
        /\ wgOut'[n] = IF n \in DoneNodes THEN [value |-> wgWrites[n].value, step |-> wgStep] ELSE wgOut[n]
        /\ wgBranch'[n] = IF n \in DoneNodes THEN wgWrites[n].branch ELSE wgBranch[n]
  BY DEF ApplyStep, Merged
<1> HIDE DEF PassInv, PassShape
<1>3. \A n \in DoneNodes : wgOut'[n].step = wgStep /\ wgBranch'[n] = wgWrites[n].branch
  <2> TAKE n \in DoneNodes
  <2>1. n \in NodesOf(wgGraph)
    BY DEF DoneNodes
  <2>2. wgOut'[n] = [value |-> wgWrites[n].value, step |-> wgStep] /\ wgBranch'[n] = wgWrites[n].branch
    BY <1>2, <2>1
  <2> QED
    BY <2>2
<1>4. /\ wgOut' = [n \in NodesOf(wgGraph) |-> wgOut'[n]]
      /\ wgBranch' = [n \in NodesOf(wgGraph) |-> wgBranch'[n]]
  BY DEF ApplyStep, Merged
<1>5. \/ next = {} /\ wgPhase' = "succeeded" /\ wgStep' = wgStep
      \/ next # {} /\ wgPhase' = "running" /\ wgStep' = wgStep + 1
  BY <1>1 DEF ApplyStep
<1> HIDE DEF next
<1>6. /\ wgGraph \in WgGraphs /\ ValidStructure(wgGraph) /\ Compiles(wgGraph) /\ wgStep \in Nat /\ wgStep >= 1
      /\ \A n \in NodesOf(wgGraph) : wgOut[n].step \in 0..(wgStep - 1)
  BY <1>1 DEF PassInv, PassShape, PassRuns
<1>7. Active = DoneNodes /\ DoneNodes \subseteq NodesOf(wgGraph)
  BY <1>1 DEF PassInv, PassShape, PassRuns, Active, DoneNodes, Halted
<1>8. ReachedNodes' = ReachedNodes /\ ReachedNodes \subseteq NodesOf(wgGraph) /\ IsFiniteSet(ReachedNodes)
  BY <1>1, <1>6, ReachedCloses DEF ReachedNodes
<1>9. \A n \in DoneNodes : \E p \in Paths(wgGraph, ReachedNodes, wgStep) : p[wgStep] = n
  BY <1>1, <1>7 DEF PassInv, PathsGrow
<1>10. \A m \in next : \E p \in Paths(wgGraph, ReachedNodes, wgStep + 1) : p[wgStep + 1] = m
  <2> TAKE m \in next
  <2>1. PICK n \in DoneNodes : m \in Successors(wgGraph, n, wgWrites[n].branch)
    BY DEF next
  <2>2. PICK e \in EdgesOf(wgGraph) : e.src = n /\ e.dst = m
    BY <1>6, <2>1, SuccessorsAreTargets
  <2>3. PICK p \in Paths(wgGraph, ReachedNodes, wgStep) : p[wgStep] = n
    BY <1>9
  <2>4. p \in [1..wgStep -> ReachedNodes] /\ \A i \in 1..(wgStep - 1) : \E f \in EdgesOf(wgGraph) : f.src = p[i] /\ f.dst = p[i + 1]
    BY DEF Paths
  <2>5. m \in ReachedNodes
    <3>1. n \in ReachedNodes
      BY <1>6, <2>3, <2>4
    <3> QED
      BY <1>6, <2>2, <3>1, ReachedCloses DEF ReachedNodes
  <2> DEFINE q == [i \in 1..(wgStep + 1) |-> IF i = wgStep + 1 THEN m ELSE p[i]]
  <2>6. q \in [1..(wgStep + 1) -> ReachedNodes]
    BY <1>6, <2>4, <2>5
  <2>7. \A i \in 1..wgStep : \E f \in EdgesOf(wgGraph) : f.src = q[i] /\ f.dst = q[i + 1]
    <3> TAKE i \in 1..wgStep
    <3>1. CASE i = wgStep
      <4>1. q[i] = n /\ q[i + 1] = m
        BY <1>6, <2>3, <3>1
      <4> QED
        BY <2>2, <4>1
    <3>2. CASE i # wgStep
      <4>1. i \in 1..(wgStep - 1) /\ q[i] = p[i] /\ q[i + 1] = p[i + 1]
        BY <1>6, <3>2
      <4> QED
        BY <2>4, <4>1
    <3> QED
      BY <3>1, <3>2
  <2>8. q[wgStep + 1] = m /\ (wgStep + 1) - 1 = wgStep
    <3>1. wgStep + 1 \in 1..(wgStep + 1) /\ (wgStep + 1) - 1 = wgStep
      BY <1>6
    <3> QED
      BY <3>1
  <2>9. q \in Paths(wgGraph, ReachedNodes, wgStep + 1)
    BY <2>6, <2>7, <2>8 DEF Paths
  <2> QED
    BY <2>8, <2>9
<1>11. next \subseteq ReachedNodes
  <2> SUFFICES ASSUME NEW m \in next PROVE m \in ReachedNodes
    OBVIOUS
  <2>1. PICK p \in Paths(wgGraph, ReachedNodes, wgStep + 1) : p[wgStep + 1] = m
    BY <1>10
  <2>2. wgStep + 1 \in 1..(wgStep + 1) /\ p \in [1..(wgStep + 1) -> ReachedNodes]
    BY <1>6 DEF Paths
  <2> QED
    BY <2>1, <2>2
<1>12. wgStep' <= Cardinality(ReachedNodes) /\ wgStep' \in Nat /\ wgStep' >= wgStep
  <2>1. CASE next = {}
    BY <1>5, <1>6, <2>1 DEF PassInv, PathsGrow
  <2>2. CASE next # {}
    <3>1. PICK m \in next : TRUE
      BY <2>2
    <3>2. PICK p \in Paths(wgGraph, ReachedNodes, wgStep + 1) : p[wgStep + 1] = m
      BY <1>10
    <3>3. wgStep + 1 <= Cardinality(ReachedNodes)
      BY <1>6, <1>8, <3>2, PathsAreShort
    <3> QED
      BY <1>5, <1>6, <2>2, <3>3
  <2> QED
    BY <2>1, <2>2
<1>13. Active' = next
  BY <1>1 DEF Active, NoResult
<1>14. \A n \in NodesOf(wgGraph) : wgOut'[n].step \in 0..wgStep
  <2> TAKE n \in NodesOf(wgGraph)
  <2>1. CASE n \in DoneNodes
    BY <1>3, <1>6, <2>1
  <2>2. CASE n \notin DoneNodes
    <3>1. wgOut'[n] = wgOut[n]
      BY <1>2, <2>2
    <3> QED
      BY <1>6, <3>1
  <2> QED
    BY <2>1, <2>2
<1>15. PassShape'
  <2>1. \A n \in NodesOf(wgGraph) : wgOut'[n] = [value |-> wgOut'[n].value, step |-> wgOut'[n].step]
    <3> TAKE n \in NodesOf(wgGraph)
    <3> DEFINE new == [value |-> wgWrites[n].value, step |-> wgStep]
    <3>1. wgOut[n] = [value |-> wgOut[n].value, step |-> wgOut[n].step]
      BY DEF PassInv, PassShape
    <3>2. new = [value |-> new.value, step |-> new.step]
      OBVIOUS
    <3>3. wgOut'[n] = new \/ wgOut'[n] = wgOut[n]
      BY <1>2
    <3> HIDE DEF new
    <3> QED
      BY <3>1, <3>2, <3>3
  <2>2. wgOut' = [n \in NodesOf(wgGraph) |-> [value |-> wgOut'[n].value, step |-> wgOut'[n].step]]
    BY <1>4, <2>1
  <2>3. \A n \in NodesOf(wgGraph) : wgOut'[n].step \in 0..wgStep'
    BY <1>6, <1>12, <1>14
  <2>4. wgTasks' \subseteq NodesOf(wgGraph) /\ wgPhase' \in {"running", "succeeded"}
    BY <1>1, <1>5, <1>8, <1>11
  <2>5. wgWrites' = [n \in NodesOf(wgGraph) |-> wgWrites'[n]]
    BY <1>1
  <2> QED
    BY <1>1, <1>4, <1>6, <1>12, <2>2, <2>3, <2>4, <2>5 DEF PassShape
<1>16. PassRuns'
  <2>1. CASE next = {}
    BY <1>5, <2>1 DEF PassRuns, UnderWay
  <2>2. CASE next # {}
    <3>1. wgPhase' = "running" /\ wgStep' = wgStep + 1
      BY <1>5, <2>2
    <3>2. \A n \in NodesOf(wgGraph) : wgWrites'[n].is = "none" /\ wgOut'[n].step < wgStep'
      BY <1>1, <1>6, <1>14, <3>1 DEF NoResult
    <3> QED
      BY <1>1, <1>6, <3>1, <3>2 DEF PassRuns
  <2> QED
    BY <2>1, <2>2
<1>17. PathsGrow'
  <2>1. CASE next = {}
    BY <1>1, <1>5, <1>8, <1>11, <1>12, <2>1 DEF PathsGrow, UnderWay
  <2>2. CASE next # {}
    <3>1. wgStep' = wgStep + 1
      BY <1>5, <2>2
    <3> QED
      BY <1>1, <1>8, <1>10, <1>11, <1>12, <1>13, <3>1 DEF PathsGrow
  <2> QED
    BY <2>1, <2>2
<1>18. SelectedFollow'
  <2> SUFFICES ASSUME NEW n \in NodesOf(wgGraph), wgOut'[n].step # 0, Unambiguous(wgGraph, n), NEW e \in Drawn(wgGraph, n)'
               PROVE  \/ wgOut'[e.dst].step > wgOut'[n].step
                      \/ UnderWay' /\ wgOut'[n].step = wgStep' - 1 /\ e.dst \in Active'
    BY <1>1 DEF SelectedFollow
  <2>1. /\ e \in Out(wgGraph, n)
        /\ e.handle = wgBranch'[n] \/ (e.handle = None_ /\ \A f \in Out(wgGraph, n) : f.handle # wgBranch'[n])
    <3> DEFINE b == wgBranch'[n]
               exact == {f \in Out(wgGraph, n) : f.handle = b}
    <3>1. e \in (IF exact # {} THEN exact ELSE {f \in Out(wgGraph, n) : f.handle = None_})
      BY <1>1 DEF Drawn
    <3>2. CASE exact # {}
      <4>1. e \in exact
        BY <3>1, <3>2
      <4> HIDE DEF b
      <4>2. e \in Out(wgGraph, n) /\ e.handle = b
        BY <4>1
      <4> QED
        BY <4>2 DEF b
    <3>3. CASE exact = {}
      BY <3>1, <3>3
    <3> QED
      BY <3>2, <3>3
  <2>2. e.dst \in NodesOf(wgGraph)
    BY <1>6, <2>1 DEF Out, ValidStructure
  <2>3. CASE n \in DoneNodes
    <3>1. wgOut'[n].step = wgStep /\ wgBranch'[n] = wgWrites[n].branch
      BY <1>3, <2>3
    <3>2. e.dst \in Successors(wgGraph, n, wgBranch'[n])
      BY <1>6, <2>1, SelectedAreSuccessors
    <3>3. e.dst \in next
      BY <2>3, <3>1, <3>2 DEF next
    <3> QED
      BY <1>5, <1>6, <1>13, <3>1, <3>3 DEF UnderWay
  <2>4. CASE n \notin DoneNodes
    <3>1. wgOut'[n] = wgOut[n] /\ wgBranch'[n] = wgBranch[n]
      BY <1>2, <2>4
    <3>2. e \in Drawn(wgGraph, n)
      BY <2>1, <3>1 DEF Drawn
    <3>3. \/ wgOut[e.dst].step > wgOut[n].step
          \/ wgOut[n].step = wgStep - 1 /\ e.dst \in Active
      BY <1>1, <3>1, <3>2 DEF PassInv, SelectedFollow
    <3>4. CASE e.dst \in DoneNodes
      <4>1. wgOut'[e.dst].step = wgStep
        BY <1>3, <3>4
      <4> QED
        BY <1>6, <3>1, <4>1
    <3>5. CASE e.dst \notin DoneNodes
      BY <1>2, <1>7, <2>2, <3>1, <3>3, <3>5
    <3> QED
      BY <3>4, <3>5
  <2> QED
    BY <2>3, <2>4
<1> QED
  BY <1>15, <1>16, <1>17, <1>18 DEF PassInv

\* Every step keeps the invariant.
LEMMA PassStep == PassInv /\ [GraphNext]_graphVars => PassInv'
<1> SUFFICES ASSUME PassInv, [GraphNext]_graphVars PROVE PassInv'
  OBVIOUS
<1>1. CASE UNCHANGED graphVars
  <2>1. UNCHANGED <<wgGraph, wgPhase, wgTasks, wgWrites, wgOut, wgBranch, wgStep>>
    BY <1>1 DEF graphVars
  <2>2. Active' = Active /\ ReachedNodes' = ReachedNodes /\ (UnderWay' <=> UnderWay)
    BY <2>1 DEF Active, ReachedNodes, UnderWay
  <2>3. PassShape' /\ PassRuns' /\ PathsGrow'
    BY <2>1, <2>2 DEF PassInv, PassShape, PassRuns, PathsGrow
  <2>4. \A n \in NodesOf(wgGraph) : Drawn(wgGraph, n)' = Drawn(wgGraph, n)
    BY <2>1 DEF Drawn
  <2>5. SelectedFollow'
    BY <2>1, <2>2, <2>4 DEF PassInv, SelectedFollow
  <2> QED
    BY <2>3, <2>5 DEF PassInv
<1>2. CASE GraphNext
  BY <1>2, LaunchStep, ReturnStep, ApplyingStep, PauseSteps DEF GraphNext
<1> QED
  BY <1>1, <1>2

\* For any graphs, and any results of their nodes: when a pass has succeeded, every edge that
\* a branch selects has led to a run of its target after that, and no pass has more supersteps
\* than its graph has nodes that can be reached.
THEOREM PassesRunTheGraph == GraphSpec => []PassSound
<1>1. PassInv => PassSound
  <2> SUFFICES ASSUME PassInv PROVE DrawnEdgesRun /\ StepsBounded
    BY DEF PassSound
  <2>1. DrawnEdgesRun
    BY DEF PassInv, SelectedFollow, DrawnEdgesRun, UnderWay
  <2>2. StepsBounded
    BY DEF PassInv, PathsGrow, StepsBounded, ReachedNodes
  <2> QED
    BY <2>1, <2>2
<1> QED
  BY <1>1, PassStart, PassStep, PTL DEF GraphSpec

\* What a pass keeps: documents, and the notifications of a node, which are no more than
\* the supersteps that ran it.
NotesInSteps ==
  /\ wgKept \in [wgGraph.docs -> BOOLEAN] /\ wgTold \in BOOLEAN
  /\ wgNotes = [n \in NodesOf(wgGraph) |-> wgNotes[n]]
  /\ \A n \in NodesOf(wgGraph) :
       /\ wgNotes[n] \in 0..wgStep
       /\ n \in wgTasks => wgNotes[n] < wgStep
       /\ wgWrites[n].is \in {"ok", "interrupt", "none", "error"} /\ wgWrites[n].value \in Values
       /\ wgWrites[n].is = "interrupt" => wgNotes[n] < wgStep
       /\ wgOut[n].value \in Values

\* A result has a value, and only a node that waits for a decision pauses.
LEMMA ResultValues ==
  ASSUME NEW g, NEW n, g.type[n] \in NodeTypes, NEW r \in Results(g, n)
  PROVE  /\ r.value \in Values /\ r.is \in {"ok", "interrupt", "error"}
         /\ r.is = "interrupt" => g.type[n] = "human_approval"
<1>1. \A v, b : Returned(v, b).is = "ok" /\ Returned(v, b).value = v
  BY DEF Returned
<1>2. Paused.is = "interrupt" /\ Paused.value \in Values /\ Raised.is = "error" /\ Raised.value \in Values
  BY DEF Paused, Raised, Values
<1>3. {"full", "null"} \subseteq Values
  BY DEF Values
<1>4. CASE g.type[n] = "question-classifier"
  BY <1>1, <1>2, <1>3, <1>4 DEF Results, Classified
<1>5. CASE g.type[n] = "if-else"
  BY <1>1, <1>2, <1>3, <1>5 DEF Results, Branched
<1>6. CASE g.type[n] \notin {"question-classifier", "if-else"}
  BY <1>1, <1>2, <1>3, <1>6 DEF NodeTypes, Results, Started, Extracted, Aggregated, Split, Iterated, AgentReact,
     Decided, Answered, Generated, Retrieved, Ran, Requested, Rendered, Archived, Combined, Notified, Echoed
<1> QED
  BY <1>4, <1>5, <1>6

\* Every step keeps every variable of a pass in its type.
LEMMA GraphTypes == GraphSpec => []GraphTypeOK
<1>1. GraphInit => NotesInSteps
  <2> SUFFICES ASSUME GraphInit PROVE NotesInSteps
    OBVIOUS
  <2>1. wgKept \in [wgGraph.docs -> BOOLEAN] /\ wgTold \in BOOLEAN
    BY DEF GraphInit
  <2>2. wgNotes = [n \in NodesOf(wgGraph) |-> 0] /\ wgStep = 0 /\ wgTasks = {}
    BY DEF GraphInit
  <2>3. \A n \in NodesOf(wgGraph) : wgWrites[n] = NoResult /\ wgOut[n].value = "null"
    BY DEF GraphInit
  <2>4. NoResult.is = "none" /\ NoResult.value \in Values /\ "null" \in Values
    BY DEF NoResult, Values
  <2> QED
    BY <2>1, <2>2, <2>3, <2>4 DEF NotesInSteps
<1>2. PassInv /\ NotesInSteps /\ [GraphNext]_graphVars => NotesInSteps'
  <2> SUFFICES ASSUME PassInv, NotesInSteps, [GraphNext]_graphVars PROVE NotesInSteps'
    OBVIOUS
  <2>0. PassShape /\ PassRuns /\ PathsGrow
    BY DEF PassInv
  <2>1. CASE Launch
    <3>1. /\ wgTasks' \subseteq NodesOf(wgGraph) /\ UNCHANGED <<wgGraph, wgWrites, wgOut, wgBranch, wgKept, wgNotes, wgTold>>
          /\ \/ wgStep' = 1 /\ wgStep = 0
             \/ wgStep' = wgStep /\ wgTasks' = wgTasks
      BY <2>0, <2>1 DEF Launch, PassShape, Triggers
    <3>2. \A n \in NodesOf(wgGraph) : wgNotes[n] \in 0..wgStep'  /\ (n \in wgTasks' => wgNotes[n] < wgStep')
      BY <3>1 DEF NotesInSteps
    <3>3. \A n \in NodesOf(wgGraph) : wgWrites[n].is = "interrupt" => wgNotes[n] < wgStep'
      BY <3>1 DEF NotesInSteps
    <3> QED
      BY <3>1, <3>2, <3>3 DEF NotesInSteps
  <2>2. ASSUME NEW n \in NodesOf(wgGraph), ReturnNode(n) PROVE NotesInSteps'
    <3>1. PICK r \in Results(wgGraph, n) :
            /\ wgWrites' = [wgWrites EXCEPT ![n] = r] /\ wgTasks' \subseteq wgTasks \ {n}
            /\ IF r.is = "ok" THEN Effect(wgGraph, n) ELSE UNCHANGED <<wgKept, wgNotes>>
      BY <2>2 DEF ReturnNode
    <3>2. wgPhase = "running" /\ n \in wgTasks /\ UNCHANGED <<wgGraph, wgOut, wgBranch, wgStep, wgTold>>
      BY <2>2 DEF ReturnNode
    <3>3. wgGraph.type[n] \in NodeTypes
      BY <2>0, <3>2 DEF PassRuns, UnderWay, Compiles, ReachedNodes, PathsGrow
    <3>4. /\ r.value \in Values /\ r.is \in {"ok", "interrupt", "error"}
          /\ r.is = "interrupt" => wgGraph.type[n] = "human_approval"
      BY <3>3, ResultValues
    <3>5. wgWrites' = [m \in NodesOf(wgGraph) |-> IF m = n THEN r ELSE wgWrites[m]]
      BY <2>0, <3>1 DEF PassShape
    <3>6. wgKept' \in [wgGraph.docs -> BOOLEAN]
      <4>1. wgGraph \in WgGraphs /\ wgGraph.kb[n].flag \in BOOLEAN
        BY <2>0, GraphsAssumption DEF PassShape
      <4>2. \A b \in BOOLEAN : (~b) \in BOOLEAN
        OBVIOUS
      <4>3. CASE wgKept' = wgKept
        BY <4>3 DEF NotesInSteps
      <4>4. CASE wgKept' = [wgKept EXCEPT ![wgGraph.kb[n].docs[1]] = ~wgGraph.kb[n].flag]
        BY <4>1, <4>2, <4>4 DEF NotesInSteps
      <4>5. CASE wgKept' = [d \in DOMAIN wgKept |-> wgKept[d] /\ d \notin Dropped(wgGraph.kb[n])]
        BY <4>5 DEF NotesInSteps
      <4> QED
        BY <3>1, <4>3, <4>4, <4>5 DEF Effect
    <3>7. /\ wgNotes' = [m \in NodesOf(wgGraph) |-> IF m = n /\ wgGraph.type[n] = "kb_notify_owner" /\ r.is = "ok" THEN wgNotes[n] + 1 ELSE wgNotes[m]]
      <4>1. CASE r.is = "ok" /\ wgGraph.type[n] = "kb_notify_owner"
        <5>1. wgNotes' = [wgNotes EXCEPT ![n] = @ + 1]
          BY <3>1, <4>1 DEF Effect
        <5> QED
          BY <4>1, <5>1 DEF NotesInSteps
      <4>2. CASE ~(r.is = "ok" /\ wgGraph.type[n] = "kb_notify_owner")
        <5>1. wgNotes' = wgNotes
          BY <3>1, <4>2 DEF Effect
        <5> QED
          BY <4>2, <5>1 DEF NotesInSteps
      <4> QED
        BY <4>1, <4>2
    <3>8. ASSUME NEW m \in NodesOf(wgGraph)
          PROVE  /\ wgNotes'[m] \in 0..wgStep /\ (m \in wgTasks' => wgNotes'[m] < wgStep)
                 /\ wgWrites'[m].is \in {"ok", "interrupt", "none", "error"} /\ wgWrites'[m].value \in Values
                 /\ wgWrites'[m].is = "interrupt" => wgNotes'[m] < wgStep
      <4>1. wgStep \in Nat
        BY <2>0 DEF PassShape
      <4>2. CASE m = n
        <5>1. wgNotes[n] \in 0..wgStep /\ wgNotes[n] < wgStep /\ wgWrites'[m] = r /\ m \notin wgTasks'
          BY <3>1, <3>2, <3>5, <4>2 DEF NotesInSteps
        <5>2. wgNotes'[m] \in 0..wgStep /\ (r.is = "interrupt" => wgNotes'[m] = wgNotes[n])
          BY <3>7, <4>1, <4>2, <5>1
        <5> QED
          BY <3>4, <5>1, <5>2
      <4>3. CASE m # n
        <5>1. wgNotes'[m] = wgNotes[m] /\ wgWrites'[m] = wgWrites[m] /\ (m \in wgTasks' => m \in wgTasks)
          BY <3>1, <3>5, <3>7, <4>3
        <5> QED
          BY <5>1 DEF NotesInSteps
      <4> QED
        BY <4>2, <4>3
    <3>9. wgNotes' = [m \in NodesOf(wgGraph) |-> wgNotes'[m]]
      BY <3>7
    <3> QED
      BY <3>2, <3>6, <3>8, <3>9 DEF NotesInSteps
  <2>3. CASE ApplyStep
    <3>1. /\ wgTasks = {} /\ wgStep' \in {wgStep, wgStep + 1} /\ (wgTasks' # {} => wgStep' = wgStep + 1)
          /\ wgWrites' = [n \in NodesOf(wgGraph) |-> NoResult]
          /\ UNCHANGED <<wgGraph, wgKept, wgNotes, wgTold>>
      BY <2>3 DEF ApplyStep
    <3>2. \A n \in NodesOf(wgGraph) : wgOut'[n].value \in Values
      BY <2>3 DEF ApplyStep, Merged, NotesInSteps
    <3>3. \A n \in NodesOf(wgGraph) : wgNotes[n] \in 0..wgStep' /\ (n \in wgTasks' => wgNotes[n] < wgStep')
      BY <2>0, <3>1 DEF NotesInSteps, PassShape
    <3>4. \A n \in NodesOf(wgGraph) : wgWrites'[n].is = "none" /\ wgWrites'[n].value \in Values
      BY <3>1 DEF NoResult, Values
    <3> QED
      BY <3>1, <3>2, <3>3, <3>4 DEF NotesInSteps
  <2>4. CASE PauseStep
    BY <2>4 DEF PauseStep, NotesInSteps
  <2>5. CASE ResumePass
    <3>1. /\ wgTasks' = Halted /\ wgTold' = TRUE
          /\ wgWrites' = [n \in NodesOf(wgGraph) |-> IF n \in Halted THEN NoResult ELSE wgWrites[n]]
          /\ UNCHANGED <<wgGraph, wgOut, wgBranch, wgStep, wgKept, wgNotes>>
      BY <2>5 DEF ResumePass
    <3>2. \A n \in Halted : n \in NodesOf(wgGraph) /\ wgWrites[n].is = "interrupt"
      BY DEF Halted
    <3>3. ASSUME NEW n \in NodesOf(wgGraph)
          PROVE  /\ wgWrites'[n].is \in {"ok", "interrupt", "none", "error"} /\ wgWrites'[n].value \in Values
                 /\ wgWrites'[n].is = "interrupt" => wgWrites[n].is = "interrupt"
      BY <3>1 DEF NotesInSteps, NoResult, Values
    <3> QED
      BY <3>1, <3>2, <3>3 DEF NotesInSteps
  <2>6. CASE UNCHANGED graphVars
    BY <2>6 DEF graphVars, NotesInSteps
  <2> QED
    BY <2>1, <2>2, <2>3, <2>4, <2>5, <2>6 DEF GraphNext
<1>3. PassInv /\ NotesInSteps => GraphTypeOK
  BY DEF PassInv, PassShape, NotesInSteps, GraphTypeOK
<1> QED
  BY <1>1, <1>2, <1>3, PassStart, PassStep, PTL DEF GraphSpec

-----------------------------------------------------------------------------
(****************************************************************************
 Events: state changes arrive once and in order.
 ****************************************************************************)

EventRecord == [n : Nat, kind : Kinds \cup {"sentinel"}]
Got(s) == evSeen[s] \o evSub[s].queue

\* Events in the order of their numbers; a sentinel may stand anywhere.
InOrder(q) == \A i, j \in 1..Len(q) : i < j /\ q[j] # Sentinel => q[i].n < q[j].n
\* Nothing beyond the number n.
UpTo(q, n) == \A i \in 1..Len(q) : q[i].n <= n
HoldsEvents(q, e) == \E j \in 1..Len(q) : q[j] = e
\* The state changes among the first k events of a history.
HoldsCritical(q, h, k) == \A i \in 1..k : h[i].kind \in Critical => HoldsEvents(q, h[i])

EventShape ==
  /\ evChat \in BOOLEAN /\ evRun \in 0..EvMaxRuns /\ evPc \in {"off", "run", "put", "ended", "waiting"}
  /\ evTargets \subseteq EvSubs /\ evClosed \subseteq Buses /\ evLive \in 0..evRun /\ evPops \in 0..evRun
  /\ evHistory \in [Buses -> Seq(EventRecord)]
  /\ evSub \in [EvSubs -> [bus : -1..evRun, queue : Seq(EventRecord)]]
  /\ evSeen \in [EvSubs -> Seq(EventRecord)] /\ evLate \subseteq EvSubs

\* The driver: how far it is, how many timers it started.
DriverState ==
  /\ evPc = "off" <=> evRun = 0
  /\ evPc \in {"run", "put"} => evPops < evRun
  /\ evTargets # {} => evPc = "put"
  /\ evPc = "put" => evHistory[evRun] # <<>>
  /\ ~evChat => evClosed = {}
  /\ evChat => evRun \in {0, 1} /\ evLive = 0
  /\ \A b \in Buses : b > evRun => evHistory[b] = <<>>
  /\ evRun = 0 => \A s \in EvSubs : evSub[s].bus = 0

\* A history is in order and bounded, and ends with the end.
HistoryOrdered ==
  \A b \in Buses : LET h == evHistory[b] IN
    /\ Len(h) <= EvQueue /\ InOrder(h)
    /\ \A i \in 1..Len(h) : /\ h[i].n > 0 /\ h[i].kind \in Kinds
                            /\ h[i].n <= EvOutputs + (IF h[i].kind = "workflow_end" THEN 2 ELSE 1)

\* A queue is bounded and holds events of the run.
QueueBounded(s) == Len(evSub[s].queue) <= EvQueue /\ UpTo(evSub[s].queue, EvOutputs + 2)

\* What a subscriber got is in order, and nothing beyond the last event of its bus; one who
\* waits for a critical event got none beyond the one before.
GotOrdered(s) ==
  /\ InOrder(Got(s))
  /\ evSub[s].bus = 0 => evSeen[s] = <<>> /\ evSub[s].queue = <<>>
  /\ evSub[s].bus > 0 => UpTo(Got(s), LastEvent(evHistory[evSub[s].bus]).n)
  /\ s \in evTargets => /\ evSub[s].bus \in {-1, evRun}
                        /\ evSub[s].bus = evRun => UpTo(Got(s), LastEvent(evHistory[evRun]).n - 1)

\* Who is not late got every state change of the history of its bus, or all but the last
\* when it is being put.
GotCritical(s) ==
  evSub[s].bus > 0 /\ s \notin evLate =>
    LET h == evHistory[evSub[s].bus] IN
    IF evSub[s].bus = evRun /\ s \in evTargets THEN HoldsCritical(Got(s), h, Len(h) - 1) ELSE HoldsCritical(Got(s), h, Len(h))

SubscribersSound == \A s \in EvSubs : QueueBounded(s) /\ GotOrdered(s) /\ GotCritical(s)

EventInv == EventShape /\ DriverState /\ HistoryOrdered /\ SubscribersSound

-----------------------------------------------------------------------------
\* The events of a queue.
LEMMA EventElements ==
  ASSUME NEW q \in Seq(EventRecord)
  PROVE  Len(q) \in Nat /\ \A i \in 1..Len(q) : q[i] \in EventRecord /\ q[i].n \in Nat
<1>1. Len(q) \in Nat /\ \A i \in 1..Len(q) : q[i] \in EventRecord
  OBVIOUS
<1> QED
  BY <1>1 DEF EventRecord

\* The last event of a history is the largest, and no sentinel.
LEMMA HistoryEnd ==
  ASSUME EventShape, HistoryOrdered, NEW b \in Buses
  PROVE  LET h == evHistory[b]
             last == LastEvent(h) IN
         /\ h \in Seq(EventRecord) /\ Len(h) \in Nat /\ last \in EventRecord /\ last.n \in 0..(EvOutputs + 2)
         /\ h # <<>> => last = h[Len(h)] /\ last.n > 0 /\ last # Sentinel /\ Len(h) > 0
         /\ \A i \in 1..Len(h) : h[i].n <= last.n /\ (i < Len(h) => h[i].n <= last.n - 1) /\ h[i] # Sentinel /\ h[i] \in EventRecord
<1> DEFINE h == evHistory[b]
           last == LastEvent(h)
<1>0. h \in Seq(EventRecord)
  BY DEF EventShape
<1>1. h \in Seq(EventRecord) /\ Len(h) \in Nat /\ \A i \in 1..Len(h) : h[i] \in EventRecord /\ h[i].n \in Nat
  BY <1>0, EventElements
<1>2. /\ InOrder(h)
      /\ \A i \in 1..Len(h) : h[i].n > 0 /\ h[i].kind \in Kinds /\ h[i].n <= EvOutputs + 2 /\ h[i] # Sentinel
  BY <1>1, EventsAssumption DEF HistoryOrdered, Kinds, Sentinel
<1>3. CASE h = <<>>
  BY <1>1, <1>3, EventsAssumption DEF LastEvent, Sentinel, EventRecord
<1>4. CASE h # <<>>
  <2>1. last = h[Len(h)] /\ Len(h) \in 1..Len(h)
    BY <1>1, <1>4 DEF LastEvent
  <2>2. \A i \in 1..Len(h) : i < Len(h) => h[i].n < h[Len(h)].n
    BY <1>1, <1>2, <2>1 DEF InOrder
  <2>3. \A i \in 1..Len(h) : i < Len(h) \/ i = Len(h)
    BY <1>1
  <2> HIDE DEF h, last
  <2>4. last.n \in 0..(EvOutputs + 2) /\ last # Sentinel /\ last.n > 0 /\ Len(h) > 0
    BY <1>1, <1>2, <2>1, EventsAssumption
  <2>5. \A i \in 1..Len(h) : h[i].n <= last.n /\ (i < Len(h) => h[i].n <= last.n - 1)
    BY <1>1, <2>1, <2>2, <2>3
  <2> QED
    BY <1>1, <1>2, <1>4, <2>1, <2>4, <2>5 DEF h, last
<1> QED
  BY <1>3, <1>4

\* One more event behind a sequence of them.
LEMMA AppendOrder ==
  ASSUME NEW q \in Seq(EventRecord), NEW e \in EventRecord
  PROVE  LET r == Append(q, e) IN
         /\ r \in Seq(EventRecord) /\ Len(r) = Len(q) + 1 /\ HoldsEvents(r, e)
         /\ InOrder(q) /\ (e = Sentinel \/ UpTo(q, e.n - 1)) => InOrder(r)
         /\ \A n \in Int : UpTo(q, n) /\ e.n <= n => UpTo(r, n)
         /\ \A x : HoldsEvents(q, x) => HoldsEvents(r, x)
<1> DEFINE r == Append(q, e)
<1>1. /\ r \in Seq(EventRecord) /\ Len(q) \in Nat /\ Len(r) = Len(q) + 1 /\ r[Len(q) + 1] = e
      /\ \A i \in 1..Len(q) : r[i] = q[i] /\ q[i].n \in Nat
  BY EventElements
<1>2. e.n \in Nat /\ \A i \in 1..Len(r) : i \in 1..Len(q) \/ i = Len(q) + 1
  BY <1>1 DEF EventRecord
<1> HIDE DEF r
<1>3. ASSUME InOrder(q), e = Sentinel \/ UpTo(q, e.n - 1) PROVE InOrder(r)
  BY <1>1, <1>2, <1>3 DEF InOrder, UpTo
<1>4. ASSUME NEW n \in Int, UpTo(q, n), e.n <= n PROVE UpTo(r, n)
  BY <1>1, <1>2, <1>4 DEF UpTo
<1>5. ASSUME NEW x, HoldsEvents(q, x) PROVE HoldsEvents(r, x)
  BY <1>1, <1>5 DEF HoldsEvents
<1>6. HoldsEvents(r, e)
  BY <1>1 DEF HoldsEvents
<1> QED
  BY <1>1, <1>3, <1>4, <1>5, <1>6 DEF r

\* An event put behind a queue comes behind all its subscriber got.
LEMMA AppendGot ==
  ASSUME NEW seen \in Seq(EventRecord), NEW q \in Seq(EventRecord), NEW e \in EventRecord
  PROVE  seen \o q \in Seq(EventRecord) /\ seen \o Append(q, e) = Append(seen \o q, e)
OBVIOUS

\* What put_nowait makes of what a subscriber got.
LEMMA OfferOrder ==
  ASSUME NEW seen \in Seq(EventRecord), NEW q \in Seq(EventRecord), NEW e \in EventRecord
  PROVE  LET g == seen \o q
             r == seen \o Offer(q, e) IN
         /\ g \in Seq(EventRecord) /\ Offer(q, e) \in Seq(EventRecord)
         /\ Len(q) <= EvQueue => Len(Offer(q, e)) <= EvQueue
         /\ InOrder(g) /\ (e = Sentinel \/ UpTo(g, e.n - 1)) => InOrder(r)
         /\ \A n \in Int : e.n <= n => /\ UpTo(g, n) => UpTo(r, n)
                                       /\ UpTo(q, n) => UpTo(Offer(q, e), n)
         /\ \A x : HoldsEvents(g, x) => HoldsEvents(r, x)
<1>1. Len(q) \in Nat /\ EvQueue \in Nat
  BY EventsAssumption
<1>2. CASE Len(q) < EvQueue
  <2> DEFINE g == seen \o q
  <2>1. Offer(q, e) = Append(q, e) /\ g \in Seq(EventRecord) /\ seen \o Offer(q, e) = Append(g, e)
    BY <1>2, AppendGot DEF Offer
  <2>2. Append(q, e) \in Seq(EventRecord) /\ Len(Append(q, e)) = Len(q) + 1
        /\ \A n \in Int : UpTo(q, n) /\ e.n <= n => UpTo(Append(q, e), n)
    BY AppendOrder
  <2> HIDE DEF g
  <2>3. /\ InOrder(g) /\ (e = Sentinel \/ UpTo(g, e.n - 1)) => InOrder(Append(g, e))
        /\ \A n \in Int : UpTo(g, n) /\ e.n <= n => UpTo(Append(g, e), n)
        /\ \A x : HoldsEvents(g, x) => HoldsEvents(Append(g, e), x)
    BY <2>1, AppendOrder
  <2> QED
    BY <1>1, <1>2, <2>1, <2>2, <2>3 DEF g
<1>3. CASE ~(Len(q) < EvQueue)
  BY <1>1, <1>3, AppendGot DEF Offer
<1> QED
  BY <1>2, <1>3

\* The history with an event more: the last events, of which the new one is the last.
LEMMA RecordedOrder ==
  ASSUME NEW h \in Seq(EventRecord), NEW e \in EventRecord, Len(h) <= EvQueue
  PROVE  LET r == Recorded(h, e) IN
         /\ r \in Seq(EventRecord) /\ Len(r) <= EvQueue /\ r # <<>> /\ LastEvent(r) = e /\ Len(r) > 0
         /\ r[Len(r)] = e /\ \A i \in 1..Len(r) : i < Len(r) => \E k \in 1..Len(h) : r[i] = h[k]
         /\ InOrder(h) /\ UpTo(h, e.n - 1) => InOrder(r)
<1> DEFINE all == Append(h, e)
           r == Recorded(h, e)
<1>1. /\ Len(h) \in Nat /\ EvQueue \in Nat \ {0} /\ all \in Seq(EventRecord) /\ Len(all) = Len(h) + 1 /\ all[Len(h) + 1] = e
      /\ \A i \in 1..Len(h) : all[i] = h[i]
  BY EventsAssumption
<1>2. PICK d \in 0..Len(h) : /\ r \in Seq(EventRecord) /\ Len(r) = Len(h) + 1 - d /\ Len(r) <= EvQueue
                             /\ \A i \in 1..Len(r) : r[i] = all[i + d]
  <2>1. CASE Len(all) > EvQueue
    <3> DEFINE d == Len(h) + 1 - EvQueue
    <3>1. r = SubSeq(all, d + 1, Len(all)) /\ d \in 0..Len(h)
      BY <1>1, <2>1 DEF Recorded
    <3> HIDE DEF d, all, r
    <3>2. \A i \in (d + 1)..Len(all) : all[i] \in EventRecord
      BY <1>1, <3>1
    <3>3. r \in Seq(EventRecord) /\ Len(r) = Len(h) + 1 - d /\ \A i \in 1..Len(r) : r[i] = all[i + d]
      BY <1>1, <3>1, <3>2, SubSeqProperties
    <3>4. Len(r) = EvQueue
      BY <1>1, <3>3 DEF d
    <3> QED
      BY <1>1, <3>1, <3>3, <3>4
  <2>2. CASE ~(Len(all) > EvQueue)
    <3>1. r = all
      BY <2>2 DEF Recorded
    <3> QED
      BY <1>1, <2>2, <3>1
  <2> QED
    BY <2>1, <2>2
<1> HIDE DEF r, all
<1>3. Len(r) > 0 /\ r[Len(r)] = e /\ r # <<>> /\ LastEvent(r) = e
  <2>1. Len(r) \in 1..Len(r) /\ Len(r) + d = Len(h) + 1
    BY <1>1, <1>2
  <2> QED
    BY <1>1, <1>2, <2>1 DEF LastEvent
<1>4. \A i \in 1..Len(r) : i < Len(r) => i + d \in 1..Len(h) /\ r[i] = h[i + d]
  BY <1>1, <1>2
<1>5. ASSUME InOrder(h), UpTo(h, e.n - 1) PROVE InOrder(r)
  <2>1. /\ \A i \in 1..Len(h) : h[i].n \in Nat /\ h[i].n < e.n
        /\ e.n \in Nat
    <3>1. e.n \in Nat
      BY DEF EventRecord
    <3> QED
      BY <1>5, <3>1, EventElements DEF UpTo
  <2> SUFFICES ASSUME NEW i \in 1..Len(r), NEW j \in 1..Len(r), i < j, r[j] # Sentinel PROVE r[i].n < r[j].n
    BY DEF InOrder
  <2>2. i < Len(r) /\ (j < Len(r) \/ j = Len(r))
    <3>1. Len(r) \in Nat
      BY <1>2
    <3> QED
      BY <3>1
  <2>3. CASE j = Len(r)
    BY <1>3, <1>4, <2>1, <2>2, <2>3
  <2>4. CASE j < Len(r)
    <3>1. i + d < j + d
      BY <1>1, <1>2
    <3> QED
      BY <1>4, <1>5, <2>2, <2>4, <3>1 DEF InOrder
  <2> QED
    BY <2>2, <2>3, <2>4
<1> QED
  BY <1>2, <1>3, <1>4, <1>5 DEF r

\* What holds of one subscriber.
SubscriberSound(s) == QueueBounded(s) /\ GotOrdered(s) /\ GotCritical(s)

\* A subscriber that a step does not reach.
LEMMA SubscriberKept ==
  ASSUME EventInv, NEW s \in EvSubs, evSub'[s] = evSub[s], evSeen'[s] = evSeen[s],
         evSub[s].bus > 0 => evHistory'[evSub[s].bus] = evHistory[evSub[s].bus],
         s \in evLate => s \in evLate',
         s \in evTargets' => s \in evTargets /\ evRun' = evRun /\ evHistory' = evHistory,
         s \in evTargets /\ s \notin evTargets' => s \in evLate'
  PROVE  SubscriberSound(s)'
BY DEF EventInv, SubscribersSound, SubscriberSound, QueueBounded, GotOrdered, GotCritical, Got

\* What a subscriber is.
LEMMA SubscriberShape ==
  ASSUME EventShape, NEW s \in EvSubs
  PROVE  /\ evSub[s] \in [bus : -1..evRun, queue : Seq(EventRecord)] /\ evSub[s].bus \in -1..evRun
         /\ evSub[s].queue \in Seq(EventRecord) /\ evSeen[s] \in Seq(EventRecord) /\ Got(s) \in Seq(EventRecord)
         /\ evRun \in Nat /\ (evSub[s].bus > 0 => evSub[s].bus \in Buses)
<1>1. /\ evSub[s] \in [bus : -1..evRun, queue : Seq(EventRecord)] /\ evSub[s].bus \in -1..evRun
      /\ evSub[s].queue \in Seq(EventRecord) /\ evSeen[s] \in Seq(EventRecord) /\ evRun \in Nat
  BY EventsAssumption DEF EventShape
<1>2. evSub[s].bus > 0 => evSub[s].bus \in Buses
  BY <1>1, EventsAssumption DEF EventShape, Buses
<1> QED
  BY <1>1, <1>2 DEF Got

\* At first there is no bus.
LEMMA EventStart == EventInit => EventInv
<1> SUFFICES ASSUME EventInit PROVE EventInv
  OBVIOUS
<1>1. EventShape
  BY EventsAssumption DEF EventInit, EventShape, Buses
<1>2. DriverState /\ HistoryOrdered
  BY EventsAssumption DEF EventInit, DriverState, HistoryOrdered, InOrder, Buses
<1>3. ASSUME NEW s \in EvSubs PROVE SubscriberSound(s)
  <2>1. evSub[s].bus = 0 /\ evSub[s].queue = <<>> /\ evSeen[s] = <<>> /\ evTargets = {}
    BY DEF EventInit
  <2>2. Got(s) = <<>>
    BY <2>1 DEF Got
  <2> QED
    BY <2>1, <2>2, EventsAssumption DEF SubscriberSound, QueueBounded, GotOrdered, GotCritical, InOrder, UpTo
<1> QED
  BY <1>1, <1>2, <1>3 DEF EventInv, SubscribersSound, SubscriberSound

\* A run begins on a bus of its own.
LEMMA StartStep == EventInv /\ (StartRun \/ StartChat) => EventInv'
<1> SUFFICES ASSUME EventInv, StartRun \/ StartChat PROVE EventInv'
  OBVIOUS
<1>0. evTargets = {} /\ evRun \in Nat /\ evRun \in 0..EvMaxRuns /\ evPops \in 0..evRun /\ EvMaxRuns \in Nat \ {0}
  BY EventsAssumption DEF EventInv, EventShape, DriverState, StartRun, StartChat
<1>1. CASE StartRun
  <2>1. /\ ~evChat /\ evRun < EvMaxRuns /\ evRun' = evRun + 1 /\ evPc' = "run" /\ evLive' = evRun + 1
        /\ UNCHANGED <<evChat, evTargets, evHistory, evClosed, evPops, evSub, evSeen, evLate>>
    BY <1>1 DEF StartRun
  <2>2. EventShape'
    <3>1. evSub \in [EvSubs -> [bus : -1..(evRun + 1), queue : Seq(EventRecord)]]
      <4>1. \A s \in EvSubs : evSub[s] \in [bus : -1..(evRun + 1), queue : Seq(EventRecord)]
        BY <1>0, SubscriberShape DEF EventInv
      <4> QED
        BY <4>1 DEF EventInv, EventShape
    <3>2. evLive' \in 0..evRun' /\ evPops' \in 0..evRun' /\ evRun' \in 0..EvMaxRuns
      BY <1>0, <2>1
    <3> QED
      BY <2>1, <3>1, <3>2 DEF EventInv, EventShape
  <2>3. DriverState' /\ HistoryOrdered'
    BY <1>0, <2>1 DEF EventInv, DriverState, HistoryOrdered, Buses
  <2>4. \A s \in EvSubs : SubscriberSound(s)'
    BY <1>0, <2>1, SubscriberKept
  <2> QED
    BY <2>2, <2>3, <2>4 DEF EventInv, SubscribersSound, SubscriberSound
<1>2. CASE StartChat
  <2>1. /\ evChat /\ evPc = "off" /\ evRun' = 1 /\ evPc' = "run" /\ evRun = 0
        /\ evSub' = [s \in EvSubs |-> [bus |-> 1, queue |-> <<>>]]
        /\ UNCHANGED <<evChat, evTargets, evHistory, evClosed, evLive, evPops, evSeen, evLate>>
    BY <1>2 DEF StartChat, EventInv, DriverState
  <2>2. EventShape'
    BY <1>0, <2>1 DEF EventInv, EventShape
  <2>3. DriverState' /\ HistoryOrdered'
    BY <1>0, <2>1 DEF EventInv, DriverState, HistoryOrdered, Buses
  <2>4. ASSUME NEW s \in EvSubs PROVE SubscriberSound(s)'
    <3>1. evSeen'[s] = <<>> /\ evSub'[s] = [bus |-> 1, queue |-> <<>>]
      BY <2>1 DEF EventInv, SubscribersSound, GotOrdered, DriverState
    <3>2. Got(s)' = <<>> /\ evHistory'[1] = <<>>
      BY <1>0, <2>1, <3>1 DEF Got, EventInv, DriverState, Buses
    <3> QED
      BY <1>0, <2>1, <3>1, <3>2, EventsAssumption
         DEF SubscriberSound, QueueBounded, GotOrdered, GotCritical, InOrder, UpTo, HoldsCritical
  <2> QED
    BY <2>2, <2>3, <2>4 DEF EventInv, SubscribersSound, SubscriberSound
<1> QED
  BY <1>1, <1>2

\* An event is published: the history has it at once, and every queue with room, or those
\* of a critical event wait for it.
LEMMA PublishStep ==
  ASSUME EventInv, NEW kind \in Kinds, Publish(kind)
  PROVE  EventInv'
<1> DEFINE h == evHistory[evRun]
           e == [n |-> LastEvent(h).n + 1, kind |-> kind]
           r == Recorded(h, e)
<1>1. /\ evPc = "run" /\ evTargets = {} /\ evRun \in Buses /\ evRun \in Nat /\ NextKind(h, kind) /\ evHistory' = [evHistory EXCEPT ![evRun] = r]
      /\ UNCHANGED <<evChat, evRun, evClosed, evLive, evPops, evSeen, evLate>>
  BY EventsAssumption DEF Publish, EventInv, EventShape, DriverState, Buses
<1>2. /\ h \in Seq(EventRecord) /\ Len(h) \in Nat /\ Len(h) <= EvQueue /\ LastEvent(h).n \in 0..(EvOutputs + 2)
      /\ UpTo(h, LastEvent(h).n) /\ InOrder(h)
  BY <1>1, HistoryEnd DEF EventInv, HistoryOrdered, UpTo
<1>3. e.n = LastEvent(h).n + 1 /\ e.kind = kind /\ e \in EventRecord /\ e.n > 0 /\ e # Sentinel
  BY <1>2, EventsAssumption DEF EventRecord, Kinds, Sentinel
<1>4. e.n <= EvOutputs + (IF e.kind = "workflow_end" THEN 2 ELSE 1)
  <2>1. h # <<>> => /\ LastEvent(h).n <= EvOutputs + (IF LastEvent(h).kind = "workflow_end" THEN 2 ELSE 1)
                    /\ LastEvent(h).kind # "workflow_end" => LastEvent(h).n <= EvOutputs + 1
    <3>1. h # <<>> => LastEvent(h) = h[Len(h)] /\ Len(h) \in 1..Len(h)
      BY <1>1, <1>2, HistoryEnd DEF EventInv
    <3>2. \A i \in 1..Len(h) : h[i].n <= EvOutputs + (IF h[i].kind = "workflow_end" THEN 2 ELSE 1)
      BY <1>1 DEF EventInv, HistoryOrdered
    <3> QED
      BY <3>1, <3>2
  <2>2. h = <<>> => LastEvent(h).n = 0
    BY DEF LastEvent, Sentinel
  <2>3. CASE kind = "workflow_start"
    BY <1>1, <1>3, <2>2, <2>3, EventsAssumption DEF NextKind
  <2>4. CASE kind = "workflow_end"
    BY <1>1, <1>2, <1>3, <2>1, <2>4, EventsAssumption DEF NextKind
  <2>5. CASE kind \notin {"workflow_start", "workflow_end"}
    BY <1>1, <1>2, <1>3, <2>5, EventsAssumption DEF NextKind
  <2> QED
    BY <2>3, <2>4, <2>5
<1> HIDE DEF e
<1>41. UpTo(h, e.n - 1)
  BY <1>2, <1>3 DEF UpTo
<1>5. /\ r \in Seq(EventRecord) /\ Len(r) <= EvQueue /\ r # <<>> /\ LastEvent(r) = e /\ Len(r) > 0 /\ InOrder(r)
      /\ r[Len(r)] = e /\ \A i \in 1..Len(r) : i < Len(r) => \E k \in 1..Len(h) : r[i] = h[k]
  BY <1>2, <1>3, <1>41, RecordedOrder
<1>6. /\ evHistory'[evRun] = r /\ \A b \in Buses \ {evRun} : evHistory'[b] = evHistory[b]
      /\ evHistory' \in [Buses -> Seq(EventRecord)]
  BY <1>1, <1>5 DEF EventInv, EventShape
<1> HIDE DEF r
<1>7. \A i \in 1..Len(r) : i < Len(r) \/ i = Len(r)
  BY <1>5
<1>8. HistoryOrdered'
  <2>1. \A i \in 1..Len(r) : /\ r[i].n > 0 /\ r[i].kind \in Kinds
                             /\ r[i].n <= EvOutputs + (IF r[i].kind = "workflow_end" THEN 2 ELSE 1)
    BY <1>1, <1>3, <1>4, <1>5, <1>7 DEF EventInv, HistoryOrdered
  <2> QED
    BY <1>5, <1>6, <2>1 DEF EventInv, HistoryOrdered
<1>9. \A q \in Seq(EventRecord) : HoldsCritical(q, h, Len(h)) => HoldsCritical(q, r, Len(r) - 1)
  <2>1. \A i \in 1..(Len(r) - 1) : i \in 1..Len(r) /\ i < Len(r)
    BY <1>5
  <2> QED
    BY <1>5, <2>1 DEF HoldsCritical
<1>10. CASE kind \in Critical
  <2>1. evPc' = "put" /\ evTargets' = Subscribed /\ evSub' = evSub
    BY <1>10 DEF Publish
  <2>2. EventShape' /\ DriverState'
    BY <1>1, <1>5, <1>6, <2>1 DEF EventInv, EventShape, DriverState, Subscribed
  <2>3. ASSUME NEW s \in EvSubs PROVE SubscriberSound(s)'
    <3>1. CASE evSub[s].bus = evRun
      <4>1. Got(s)' = Got(s) /\ evSub'[s].bus = evRun /\ s \in evTargets' /\ Got(s) \in Seq(EventRecord)
        BY <1>1, <2>1, <3>1, SubscriberShape DEF EventInv, Got, Subscribed
      <4>2. QueueBounded(s) /\ InOrder(Got(s)) /\ UpTo(Got(s), e.n - 1) /\ UpTo(Got(s), e.n)
        <5>1. UpTo(Got(s), LastEvent(h).n) /\ LastEvent(h).n \in Nat
          BY <1>1, <1>2, <3>1, EventsAssumption DEF EventInv, SubscribersSound, GotOrdered, Buses
        <5>2. UpTo(Got(s), e.n - 1)
          BY <1>3, <5>1
        <5>3. \A i \in 1..Len(Got(s)) : Got(s)[i].n \in Nat
          BY <4>1, EventElements
        <5> QED
          BY <1>3, <3>1, <5>1, <5>2, <5>3 DEF EventInv, SubscribersSound, GotOrdered, UpTo
      <4>3. s \notin evLate => HoldsCritical(Got(s), r, Len(r) - 1)
        BY <1>1, <1>9, <3>1, <4>1, EventsAssumption DEF EventInv, SubscribersSound, GotCritical, Buses
      <4> QED
        BY <1>1, <1>5, <1>6, <2>1, <3>1, <4>1, <4>2, <4>3, EventsAssumption DEF SubscriberSound, QueueBounded, GotOrdered, GotCritical, Buses
    <3>2. CASE evSub[s].bus # evRun
      <4>1. evSub[s].bus > 0 => evSub[s].bus \in Buses
        BY SubscriberShape DEF EventInv
      <4> QED
        BY <1>1, <1>6, <2>1, <3>2, <4>1, SubscriberKept DEF Subscribed
    <3> QED
      BY <3>1, <3>2
  <2> QED
    BY <1>8, <2>2, <2>3 DEF EventInv, SubscribersSound, SubscriberSound
<1>11. CASE kind \notin Critical
  <2>1. /\ evSub' = [s \in EvSubs |-> IF s \in Subscribed THEN [evSub[s] EXCEPT !.queue = Offer(evSub[s].queue, e)] ELSE evSub[s]]
        /\ evPc' = evPc /\ evTargets' = evTargets
    BY <1>11 DEF Publish, e
  <2>2. ASSUME NEW s \in EvSubs, evSub[s].bus = evRun
        PROVE  /\ evSub'[s].bus = evRun /\ evSub'[s].queue = Offer(evSub[s].queue, e)
               /\ evSub'[s] \in [bus : -1..evRun, queue : Seq(EventRecord)]
    <3>1. evSub'[s] = [evSub[s] EXCEPT !.queue = Offer(evSub[s].queue, e)]
      BY <2>1, <2>2 DEF Subscribed
    <3>2. Offer(evSub[s].queue, e) \in Seq(EventRecord)
      BY <1>3, SubscriberShape, OfferOrder DEF EventInv
    <3> QED
      BY <2>2, <3>1, <3>2, SubscriberShape DEF EventInv
  <2>3. \A s \in EvSubs : evSub[s].bus # evRun => evSub'[s] = evSub[s]
    BY <2>1 DEF Subscribed
  <2>4. EventShape' /\ DriverState'
    <3>1. evSub' \in [EvSubs -> [bus : -1..evRun, queue : Seq(EventRecord)]]
      <4>1. \A s \in EvSubs : evSub'[s] \in [bus : -1..evRun, queue : Seq(EventRecord)]
        BY <2>2, <2>3, SubscriberShape DEF EventInv
      <4> QED
        BY <2>1, <4>1
    <3> QED
      BY <1>1, <1>6, <2>1, <3>1 DEF EventInv, EventShape, DriverState, Buses
  <2>5. ASSUME NEW s \in EvSubs PROVE SubscriberSound(s)'
    <3>1. CASE evSub[s].bus = evRun
      <4> DEFINE q == evSub[s].queue
      <4>1. /\ Got(s) = evSeen[s] \o q /\ Got(s)' = evSeen[s] \o Offer(q, e) /\ evSeen[s] \in Seq(EventRecord)
            /\ q \in Seq(EventRecord) /\ evSub'[s].bus = evRun /\ evSub'[s].queue = Offer(q, e)
        BY <1>1, <2>2, <3>1, SubscriberShape DEF EventInv, Got
      <4>2. /\ Len(q) <= EvQueue /\ UpTo(q, EvOutputs + 2) /\ InOrder(Got(s)) /\ UpTo(Got(s), e.n - 1)
            /\ s \notin evLate => HoldsCritical(Got(s), h, Len(h))
        BY <1>1, <1>2, <1>3, <3>1, EventsAssumption DEF EventInv, SubscribersSound, QueueBounded, GotOrdered, GotCritical, Buses
      <4> HIDE DEF q
      <4>3. /\ Got(s) \in Seq(EventRecord) /\ Len(Offer(q, e)) <= EvQueue /\ InOrder(Got(s)')
            /\ \A n \in Int : e.n <= n => /\ UpTo(Got(s), n) => UpTo(Got(s)', n)
                                          /\ UpTo(q, n) => UpTo(Offer(q, e), n)
            /\ \A x : HoldsEvents(Got(s), x) => HoldsEvents(Got(s)', x)
        BY <1>3, <4>1, <4>2, OfferOrder
      <4>4. UpTo(Got(s), e.n) /\ e.n \in Int
        <5>1. \A i \in 1..Len(Got(s)) : Got(s)[i].n \in Nat
          BY <4>3, EventElements
        <5> QED
          BY <1>2, <1>3, <4>2, <5>1 DEF UpTo
      <4>5. UpTo(Got(s)', e.n) /\ UpTo(Offer(q, e), EvOutputs + 2)
        <5>1. e.n <= EvOutputs + 2 /\ EvOutputs + 2 \in Int
          BY <1>2, <1>3, <1>4, EventsAssumption
        <5>2. UpTo(Got(s)', e.n)
          <6>1. e.n <= e.n
            BY <4>4
          <6> QED
            BY <4>3, <4>4, <6>1, Zenon
        <5> QED
          BY <4>2, <4>3, <5>1, <5>2, Zenon
      <4>6. s \notin evLate => HoldsCritical(Got(s)', r, Len(r))
        <5>1. ASSUME s \notin evLate, NEW i \in 1..Len(r), r[i].kind \in Critical PROVE HoldsEvents(Got(s)', r[i])
          <6>1. i < Len(r)
            BY <1>3, <1>5, <1>7, <1>11, <5>1
          <6>2. PICK k \in 1..Len(h) : r[i] = h[k]
            BY <1>5, <6>1
          <6> QED
            BY <4>2, <4>3, <5>1, <6>2 DEF HoldsCritical
        <5> QED
          BY <5>1 DEF HoldsCritical
      <4> QED
        BY <1>1, <1>5, <1>6, <2>1, <4>1, <4>3, <4>5, <4>6, EventsAssumption
           DEF SubscriberSound, QueueBounded, GotOrdered, GotCritical, Buses
    <3>2. CASE evSub[s].bus # evRun
      <4>1. evSub[s].bus > 0 => evSub[s].bus \in Buses
        BY SubscriberShape DEF EventInv
      <4> QED
        BY <1>1, <1>6, <2>1, <2>3, <3>2, <4>1, SubscriberKept
    <3> QED
      BY <3>1, <3>2
  <2> QED
    BY <1>8, <2>4, <2>5 DEF EventInv, SubscribersSound, SubscriberSound
<1> QED
  BY <1>10, <1>11

\* A critical event reaches one of those that wait for it, or is dropped for it.
LEMMA PutStep ==
  ASSUME EventInv, NEW t \in EvSubs, PutCritical(t)
  PROVE  EventInv'
<1> DEFINE h == evHistory[evRun]
           e == LastEvent(h)
           q == evSub[t].queue
<1>1. /\ evPc = "put" /\ t \in evTargets /\ evTargets' = evTargets \ {t} /\ evRun \in Buses /\ evRun \in Nat
      /\ UNCHANGED <<evChat, evRun, evPc, evHistory, evClosed, evLive, evPops, evSeen>>
  BY EventsAssumption DEF PutCritical, EventInv, EventShape, DriverState, Buses
<1>2. /\ h \in Seq(EventRecord) /\ Len(h) \in Nat /\ Len(h) > 0 /\ e \in EventRecord /\ e.n \in 0..(EvOutputs + 2) /\ e = h[Len(h)]
  BY <1>1, HistoryEnd DEF EventInv, DriverState
<1>3. ASSUME NEW s \in EvSubs, evSub'[s] = evSub[s], s # t \/ s \in evLate', evLate \subseteq evLate' PROVE SubscriberSound(s)'
  BY <1>1, <1>3, SubscriberKept
<1>4. DriverState' /\ HistoryOrdered'
  <2>1. \A s \in EvSubs : evSub'[s].bus = evSub[s].bus
    BY DEF PutCritical, EventInv, EventShape
  <2> QED
    BY <1>1, <2>1 DEF EventInv, DriverState, HistoryOrdered
<1>5. CASE evSub[t].bus = evRun /\ Fits(t)
  <2>1. evSub' = [evSub EXCEPT ![t].queue = Append(q, e)] /\ evLate' = evLate /\ Len(q) < EvQueue
    BY <1>5 DEF PutCritical, Fits
  <2> HIDE DEF e
  <2>2. /\ evSub[t] \in [bus : -1..evRun, queue : Seq(EventRecord)] /\ q \in Seq(EventRecord) /\ evSeen[t] \in Seq(EventRecord)
        /\ Got(t) = evSeen[t] \o q
    BY SubscriberShape DEF EventInv, Got
  <2> HIDE DEF q
  <2>3. /\ Append(q, e) \in Seq(EventRecord) /\ Len(Append(q, e)) = Len(q) + 1
        /\ Got(t) \in Seq(EventRecord) /\ evSeen[t] \o Append(q, e) = Append(Got(t), e)
        /\ \A n \in Int : UpTo(q, n) /\ e.n <= n => UpTo(Append(q, e), n)
    <3>1. Got(t) \in Seq(EventRecord) /\ evSeen[t] \o Append(q, e) = Append(Got(t), e)
      <4>1. e \in EventRecord
        BY <1>2
      <4>2. evSeen[t] \o q \in Seq(EventRecord) /\ evSeen[t] \o Append(q, e) = Append(evSeen[t] \o q, e)
        BY <2>2, <4>1, AppendGot
      <4> QED
        BY <2>2, <4>2
    <3> QED
      BY <1>2, <2>2, <3>1, AppendOrder, Zenon
  <2>4. /\ evSub'[t].bus = evRun /\ evSub'[t].queue = Append(q, e) /\ \A s \in EvSubs \ {t} : evSub'[s] = evSub[s]
        /\ evSub' \in [EvSubs -> [bus : -1..evRun, queue : Seq(EventRecord)]]
    <3>1. evSub'[t] = [evSub[t] EXCEPT !.queue = Append(q, e)]
      BY <2>1 DEF EventInv, EventShape
    <3>2. evSub'[t] \in [bus : -1..evRun, queue : Seq(EventRecord)]
      BY <2>2, <2>3, <3>1
    <3> QED
      BY <1>5, <2>1, <2>2, <3>1, <3>2 DEF EventInv, EventShape
  <2>5. EventShape'
    BY <1>1, <2>1, <2>4 DEF EventInv, EventShape
  <2>6. SubscriberSound(t)'
    <3>1. Got(t)' = Append(Got(t), e)
      BY <1>1, <2>3, <2>4 DEF Got
    <3>2. /\ InOrder(Got(t)) /\ UpTo(Got(t), e.n - 1) /\ UpTo(q, EvOutputs + 2)
          /\ t \notin evLate => HoldsCritical(Got(t), h, Len(h) - 1)
      BY <1>1, <1>5, EventsAssumption DEF EventInv, SubscribersSound, QueueBounded, GotOrdered, GotCritical, Buses, e, q
    <3> DEFINE g == Got(t)
    <3>3. g \in Seq(EventRecord)
      BY <2>3
    <3> HIDE DEF g
    <3>4. /\ HoldsEvents(Append(g, e), e) /\ (InOrder(g) /\ UpTo(g, e.n - 1) => InOrder(Append(g, e)))
          /\ \A n \in Int : UpTo(g, n) /\ e.n <= n => UpTo(Append(g, e), n)
          /\ \A x : HoldsEvents(g, x) => HoldsEvents(Append(g, e), x)
      BY <1>2, <3>3, AppendOrder
    <3>5. UpTo(g, e.n) /\ e.n \in Int /\ e.n <= e.n
      <4>1. \A i \in 1..Len(g) : g[i].n \in Nat
        BY <3>3, EventElements
      <4> QED
        BY <1>2, <3>2, <4>1 DEF UpTo, g
    <3>6. InOrder(Append(g, e)) /\ UpTo(Append(g, e), e.n)
      BY <3>2, <3>4, <3>5 DEF g
    <3>7. t \notin evLate => HoldsCritical(Append(g, e), h, Len(h))
      <4>1. \A i \in 1..Len(h) : i \in 1..(Len(h) - 1) \/ i = Len(h)
        BY <1>2
      <4> QED
        BY <1>2, <3>2, <3>4, <4>1 DEF HoldsCritical, g
    <3>8. UpTo(Append(q, e), EvOutputs + 2) /\ Len(Append(q, e)) <= EvQueue
      <4>1. EvOutputs + 2 \in Int /\ e.n <= EvOutputs + 2 /\ Len(q) \in Nat
        BY <1>2, <2>2, EventsAssumption
      <4> QED
        BY <2>1, <2>3, <3>2, <4>1, EventsAssumption
    <3> HIDE DEF h
    <3>9. QueueBounded(t)'
      BY <2>4, <3>8 DEF QueueBounded
    <3>10. GotOrdered(t)'
      BY <1>1, <2>4, <3>1, <3>6, EventsAssumption DEF GotOrdered, g, e, h, Buses
    <3>11. GotCritical(t)'
      BY <1>1, <2>1, <2>4, <3>1, <3>7, EventsAssumption DEF GotCritical, g, h, Buses
    <3> QED
      BY <3>9, <3>10, <3>11 DEF SubscriberSound
  <2> QED
    BY <1>3, <1>4, <2>1, <2>4, <2>5, <2>6 DEF EventInv, SubscribersSound, SubscriberSound
<1>6. CASE ~(evSub[t].bus = evRun /\ Fits(t))
  <2>1. evLate' = evLate \cup {t} /\ evSub' = evSub
    BY <1>6 DEF PutCritical
  <2>2. EventShape'
    BY <1>1, <2>1 DEF EventInv, EventShape
  <2> QED
    BY <1>3, <1>4, <2>1, <2>2 DEF EventInv, SubscribersSound, SubscriberSound
<1> QED
  BY <1>5, <1>6

\* The end of a run: a chat closes its bus, which puts a sentinel; a route starts a timer.
LEMMA EndRunStep ==
  ASSUME EventInv, NEW next \in {"ended", "waiting"}, EndRun(next), evPc \in {"run", "put"}, evTargets' = {},
         evLate' = evLate \cup evTargets, UNCHANGED <<evChat, evRun, evHistory, evLive, evSeen>>
  PROVE  EventInv'
<1>1. evRun \in Buses /\ evRun \in Nat /\ evRun > 0 /\ evPc' = next
  BY EventsAssumption DEF EndRun, EventInv, EventShape, DriverState, Buses
<1>2. Sentinel \in EventRecord /\ Sentinel.n = 0
  BY DEF Sentinel, EventRecord
<1>3. CASE evChat
  <2>1. /\ evClosed' = evClosed \cup {evRun} /\ evPops' = evPops
        /\ evSub' = [s \in EvSubs |-> IF s \in Subscribed THEN [evSub[s] EXCEPT !.queue = Offer(evSub[s].queue, Sentinel)] ELSE evSub[s]]
    BY <1>3 DEF EndRun
  <2>2. ASSUME NEW s \in EvSubs, evSub[s].bus = evRun
        PROVE  /\ evSub'[s].bus = evRun /\ evSub'[s].queue = Offer(evSub[s].queue, Sentinel)
               /\ evSub'[s] \in [bus : -1..evRun, queue : Seq(EventRecord)]
    <3>1. evSub'[s] = [evSub[s] EXCEPT !.queue = Offer(evSub[s].queue, Sentinel)]
      BY <2>1, <2>2 DEF Subscribed
    <3>2. Offer(evSub[s].queue, Sentinel) \in Seq(EventRecord)
      BY <1>2, SubscriberShape, OfferOrder DEF EventInv
    <3> QED
      BY <2>2, <3>1, <3>2, SubscriberShape DEF EventInv
  <2>3. \A s \in EvSubs : evSub[s].bus # evRun => evSub'[s] = evSub[s]
    BY <2>1 DEF Subscribed
  <2>4. EventShape' /\ DriverState' /\ HistoryOrdered'
    <3>1. evSub' \in [EvSubs -> [bus : -1..evRun, queue : Seq(EventRecord)]]
      <4>1. \A s \in EvSubs : evSub'[s] \in [bus : -1..evRun, queue : Seq(EventRecord)]
        BY <2>2, <2>3, SubscriberShape DEF EventInv
      <4> QED
        BY <2>1, <4>1
    <3>2. EventShape'
      BY <1>1, <2>1, <3>1 DEF EventInv, EventShape
    <3>3. DriverState' /\ HistoryOrdered'
      BY <1>1, <1>3, <2>1 DEF EventInv, DriverState, HistoryOrdered
    <3> QED
      BY <3>2, <3>3
  <2>5. ASSUME NEW s \in EvSubs PROVE SubscriberSound(s)'
    <3>1. CASE evSub[s].bus = evRun
      <4> DEFINE q == evSub[s].queue
                 h == evHistory[evRun]
      <4>1. /\ Got(s) = evSeen[s] \o q /\ Got(s)' = evSeen[s] \o Offer(q, Sentinel) /\ evSeen[s] \in Seq(EventRecord)
            /\ q \in Seq(EventRecord) /\ evSub'[s].bus = evRun /\ evSub'[s].queue = Offer(q, Sentinel)
        BY <2>2, <3>1, SubscriberShape DEF EventInv, Got
      <4>2. LastEvent(h).n \in Nat /\ Len(h) \in Nat /\ LastEvent(h).n \in Int /\ EvOutputs + 2 \in Int /\ 0 <= EvOutputs + 2 /\ 0 <= LastEvent(h).n
        BY <1>1, HistoryEnd, EventsAssumption DEF EventInv
      <4>3. /\ Len(q) <= EvQueue /\ UpTo(q, EvOutputs + 2) /\ InOrder(Got(s)) /\ UpTo(Got(s), LastEvent(h).n)
            /\ s \notin evLate /\ s \notin evTargets => HoldsCritical(Got(s), h, Len(h))
        BY <1>1, <3>1 DEF EventInv, SubscribersSound, QueueBounded, GotOrdered, GotCritical
      <4> HIDE DEF q, h
      <4>4. /\ Got(s) \in Seq(EventRecord) /\ Len(Offer(q, Sentinel)) <= EvQueue /\ InOrder(Got(s)')
            /\ \A n \in Int : 0 <= n => /\ UpTo(Got(s), n) => UpTo(Got(s)', n)
                                        /\ UpTo(q, n) => UpTo(Offer(q, Sentinel), n)
            /\ \A x : HoldsEvents(Got(s), x) => HoldsEvents(Got(s)', x)
        <5> DEFINE seen == evSeen[s]
                   more == Offer(q, Sentinel)
        <5>1. seen \in Seq(EventRecord) /\ q \in Seq(EventRecord) /\ Got(s) = seen \o q /\ Got(s)' = seen \o more
          BY <4>1
        <5>2. /\ Got(s) \in Seq(EventRecord) /\ Len(more) <= EvQueue /\ InOrder(Got(s)')
              /\ \A x : HoldsEvents(Got(s), x) => HoldsEvents(Got(s)', x)
          BY <1>2, <4>3, <5>1, OfferOrder
        <5>3. ASSUME NEW n \in Int, 0 <= n
              PROVE  (UpTo(seen \o q, n) => UpTo(seen \o more, n)) /\ (UpTo(q, n) => UpTo(more, n))
          <6>1. Sentinel.n <= n
            BY <1>2, <5>3
          <6> QED
            BY <1>2, <5>1, <6>1, OfferOrder
        <5>4. \A n \in Int : 0 <= n => /\ UpTo(Got(s), n) => UpTo(Got(s)', n)
                                       /\ UpTo(q, n) => UpTo(more, n)
          BY <5>1, <5>3
        <5> QED
          BY <5>2, <5>4
      <4>5. QueueBounded(s)'
        <5>1. UpTo(Offer(q, Sentinel), EvOutputs + 2)
          BY <4>2, <4>3, <4>4, Zenon
        <5> QED
          BY <4>1, <4>4, <5>1 DEF QueueBounded
      <4>6. UpTo(Got(s)', LastEvent(h).n)
        BY <4>2, <4>3, <4>4, Zenon
      <4>7. GotOrdered(s)'
        BY <1>1, <4>1, <4>4, <4>6 DEF GotOrdered, h
      <4>8. s \notin evLate' => HoldsCritical(Got(s)', h, Len(h))
        BY <4>3, <4>4 DEF HoldsCritical
      <4>9. GotCritical(s)'
        BY <4>1, <4>8 DEF GotCritical, h
      <4> QED
        BY <4>5, <4>7, <4>9 DEF SubscriberSound
    <3>2. CASE evSub[s].bus # evRun
      BY <2>3, <3>2, SubscriberKept
    <3> QED
      BY <3>1, <3>2
  <2> QED
    BY <2>4, <2>5 DEF EventInv, SubscribersSound, SubscriberSound
<1>4. CASE ~evChat
  <2>1. evPops' = evPops + 1 /\ UNCHANGED <<evClosed, evSub>> /\ evPops < evRun /\ evPops \in Nat
    BY <1>4, EventsAssumption DEF EndRun, EventInv, EventShape, DriverState
  <2>2. EventShape'
    BY <1>1, <1>4, <2>1 DEF EventInv, EventShape
  <2>3. DriverState'
    BY <1>1, <1>4, <2>1 DEF EventInv, DriverState
  <2>4. HistoryOrdered'
    BY DEF EventInv, HistoryOrdered
  <2>5. \A s \in EvSubs : SubscriberSound(s)'
    BY <2>1, SubscriberKept
  <2> QED
    BY <2>2, <2>3, <2>4, <2>5 DEF EventInv, SubscribersSound, SubscriberSound
<1> QED
  BY <1>3, <1>4

\* A timer takes a bus off the table.
LEMMA PopStep == EventInv /\ PopBus => EventInv'
<1> SUFFICES ASSUME EventInv, PopBus PROVE EventInv'
  OBVIOUS
<1>1. /\ evPops' = evPops - 1 /\ evPops > 0 /\ evPops \in Nat /\ evRun \in Nat /\ evLive' = 0
      /\ UNCHANGED <<evChat, evRun, evPc, evTargets, evHistory, evClosed, evSub, evSeen, evLate>>
  BY EventsAssumption DEF PopBus, EventInv, EventShape
<1>2. EventShape' /\ DriverState' /\ HistoryOrdered'
  BY <1>1 DEF EventInv, EventShape, DriverState, HistoryOrdered
<1>3. \A s \in EvSubs : SubscriberSound(s)'
  BY <1>1, SubscriberKept
<1> QED
  BY <1>2, <1>3 DEF EventInv, SubscribersSound, SubscriberSound

\* A subscriber connects: it is given the history of the bus in the table.
LEMMA ConnectStep ==
  ASSUME EventInv, NEW t \in EvSubs, Connect(t)
  PROVE  EventInv'
<1>1. /\ ~evChat /\ evRun > 0 /\ evRun \in Nat /\ evSub[t].bus = 0 /\ evClosed = {} /\ evLive \in 0..evRun
      /\ evRun \in 0..EvMaxRuns /\ EvMaxRuns \in Nat /\ t \notin evTargets /\ evSeen[t] = <<>>
      /\ UNCHANGED <<evChat, evRun, evPc, evTargets, evHistory, evClosed, evLive, evPops, evSeen, evLate>>
  BY EventsAssumption DEF Connect, EventInv, EventShape, DriverState, SubscribersSound, GotOrdered
<1>2. DriverState' /\ HistoryOrdered'
  BY <1>1 DEF EventInv, DriverState, HistoryOrdered
<1>3. ASSUME NEW s \in EvSubs \ {t}, evSub'[s] = evSub[s] PROVE SubscriberSound(s)'
  BY <1>1, <1>3, SubscriberKept
<1>4. CASE evLive = 0
  <2>1. evSub' = [evSub EXCEPT ![t] = [bus |-> -1, queue |-> <<>>]]
    BY <1>4 DEF Connect
  <2>2. [bus |-> -1, queue |-> <<>>] \in [bus : -1..evRun, queue : Seq(EventRecord)]
    BY <1>1
  <2>3. EventShape' /\ evSub'[t] = [bus |-> -1, queue |-> <<>>] /\ \A s \in EvSubs \ {t} : evSub'[s] = evSub[s]
    BY <1>1, <2>1, <2>2 DEF EventInv, EventShape
  <2>4. Got(t)' = <<>>
    BY <1>1, <2>3 DEF Got
  <2>5. SubscriberSound(t)'
    BY <1>1, <2>3, <2>4, EventsAssumption DEF SubscriberSound, QueueBounded, GotOrdered, GotCritical, InOrder, UpTo
  <2> QED
    BY <1>2, <1>3, <2>3, <2>5 DEF EventInv, SubscribersSound, SubscriberSound
<1>5. CASE evLive # 0
  <2> DEFINE h == evHistory[evLive]
  <2>1. evSub' = [evSub EXCEPT ![t] = [bus |-> evLive, queue |-> h]] /\ evLive \in Buses /\ evLive > 0
    BY <1>1, <1>5 DEF Connect, Replay, Buses
  <2>2. /\ h \in Seq(EventRecord) /\ Len(h) \in Nat /\ Len(h) <= EvQueue /\ InOrder(h) /\ UpTo(h, LastEvent(h).n)
        /\ UpTo(h, EvOutputs + 2)
    <3>1. LastEvent(h).n \in 0..(EvOutputs + 2) /\ \A i \in 1..Len(h) : h[i].n <= LastEvent(h).n /\ h[i].n \in Nat
      BY <2>1, HistoryEnd DEF EventInv, EventRecord
    <3>2. \A i \in 1..Len(h) : h[i].n <= EvOutputs + 2
      BY <3>1, EventsAssumption
    <3> QED
      BY <2>1, <3>1, <3>2, HistoryEnd DEF EventInv, HistoryOrdered, UpTo
  <2> HIDE DEF h
  <2>3. [bus |-> evLive, queue |-> h] \in [bus : -1..evRun, queue : Seq(EventRecord)]
    BY <1>1, <2>2
  <2>4. EventShape' /\ evSub'[t] = [bus |-> evLive, queue |-> h] /\ \A s \in EvSubs \ {t} : evSub'[s] = evSub[s]
    BY <1>1, <2>1, <2>3 DEF EventInv, EventShape
  <2>5. Got(t)' = h
    BY <1>1, <2>2, <2>4 DEF Got
  <2>6. HoldsCritical(h, h, Len(h))
    BY DEF HoldsCritical, HoldsEvents
  <2>7. SubscriberSound(t)'
    BY <1>1, <2>1, <2>2, <2>4, <2>5, <2>6 DEF SubscriberSound, QueueBounded, GotOrdered, GotCritical, h
  <2> QED
    BY <1>2, <1>3, <2>4, <2>7 DEF EventInv, SubscribersSound, SubscriberSound
<1> QED
  BY <1>4, <1>5

\* What was read and what waits are what was got; the sentinel alone is left out.
LEMMA ReadGot ==
  ASSUME NEW seen \in Seq(EventRecord), NEW q \in Seq(EventRecord), q # <<>>
  PROVE  /\ Head(q) \in EventRecord /\ Tail(q) \in Seq(EventRecord) /\ Len(Tail(q)) = Len(q) - 1
         /\ Append(seen, Head(q)) \o Tail(q) = seen \o q
         /\ InOrder(seen \o q) => InOrder(seen \o Tail(q))
         /\ \A n \in Int : UpTo(q, n) => UpTo(Tail(q), n)
<1>1. /\ Head(q) \in EventRecord /\ Tail(q) \in Seq(EventRecord) /\ Len(Tail(q)) = Len(q) - 1 /\ Len(q) \in Nat /\ Len(seen) \in Nat
      /\ \A i \in 1..Len(Tail(q)) : Tail(q)[i] = q[i + 1]
      /\ Head(q) = q[1]
  BY HeadTailProperties
<1>2. Append(seen, Head(q)) \o Tail(q) = seen \o q
  <2>1. /\ Append(seen, Head(q)) \in Seq(EventRecord) /\ Len(Append(seen, Head(q))) = Len(seen) + 1
        /\ \A i \in 1..Len(seen) : Append(seen, Head(q))[i] = seen[i]
        /\ Append(seen, Head(q))[Len(seen) + 1] = q[1]
    BY <1>1
  <2> DEFINE a == Append(seen, Head(q))
  <2> HIDE DEF a
  <2>2. /\ a \o Tail(q) \in Seq(EventRecord) /\ Len(a \o Tail(q)) = Len(seen) + Len(q)
        /\ \A i \in 1..(Len(seen) + Len(q)) : (a \o Tail(q))[i] = IF i <= Len(seen) + 1 THEN a[i] ELSE Tail(q)[i - (Len(seen) + 1)]
    BY <1>1, <2>1, ConcatProperties DEF a
  <2>3. /\ seen \o q \in Seq(EventRecord) /\ Len(seen \o q) = Len(seen) + Len(q)
        /\ \A i \in 1..(Len(seen) + Len(q)) : (seen \o q)[i] = IF i <= Len(seen) THEN seen[i] ELSE q[i - Len(seen)]
    BY ConcatProperties
  <2>4. ASSUME NEW i \in 1..(Len(seen) + Len(q)) PROVE (a \o Tail(q))[i] = (seen \o q)[i]
    <3>1. CASE i <= Len(seen)
      BY <1>1, <2>1, <2>2, <2>3, <3>1 DEF a
    <3>2. CASE i = Len(seen) + 1
      BY <1>1, <2>1, <2>2, <2>3, <3>2 DEF a
    <3>3. CASE i > Len(seen) + 1
      BY <1>1, <2>2, <2>3, <3>3
    <3>4. i \in Int /\ Len(seen) \in Int
      BY <1>1
    <3>5. i <= Len(seen) \/ i = Len(seen) + 1 \/ i > Len(seen) + 1
      BY <3>4
    <3> QED
      BY <3>5, <3>1, <3>2, <3>3
  <2> QED
    BY <2>2, <2>3, <2>4, SeqEqual DEF a
<1>3. ASSUME InOrder(seen \o q) PROVE InOrder(seen \o Tail(q))
  <2> DEFINE g == seen \o q
             r == seen \o Tail(q)
             at(i) == IF i <= Len(seen) THEN i ELSE i + 1
  <2>1. Len(g) = Len(seen) + Len(q) /\ Len(r) = Len(seen) + Len(q) - 1
        /\ \A i \in 1..Len(r) : r[i] = g[at(i)] /\ at(i) \in 1..Len(g)
    BY <1>1
  <2>2. \A i, j \in 1..Len(r) : i < j => at(i) < at(j)
    BY <1>1, <2>1
  <2> HIDE DEF g, r, at
  <2> QED
    BY <1>3, <2>1, <2>2 DEF InOrder, g, r
<1>4. ASSUME NEW n \in Int, UpTo(q, n) PROVE UpTo(Tail(q), n)
  BY <1>1, <1>4 DEF UpTo
<1> QED
  BY <1>1, <1>2, <1>3, <1>4

\* A subscriber takes an event; a sentinel ends its reading.
LEMMA ReadStep ==
  ASSUME EventInv, NEW t \in EvSubs, ReadEvent(t)
  PROVE  EventInv'
<1> DEFINE q == evSub[t].queue
           e == Head(q)
           bus == IF e = Sentinel THEN -1 ELSE evSub[t].bus
           seen == IF e = Sentinel THEN evSeen[t] ELSE Append(evSeen[t], e)
<1>1. /\ evSub[t].bus > 0 /\ q # <<>> /\ q \in Seq(EventRecord) /\ evSeen[t] \in Seq(EventRecord) /\ evSub[t].bus \in -1..evRun
      /\ evSub' = [evSub EXCEPT ![t] = [bus |-> bus, queue |-> Tail(q)]] /\ evSeen' = [evSeen EXCEPT ![t] = seen]
      /\ UNCHANGED <<evChat, evRun, evPc, evTargets, evHistory, evClosed, evLive, evPops, evLate>>
  BY SubscriberShape DEF ReadEvent, EventInv
<1>2. /\ e \in EventRecord /\ Tail(q) \in Seq(EventRecord) /\ Len(Tail(q)) = Len(q) - 1 /\ Len(q) \in Nat
      /\ Append(evSeen[t], e) \o Tail(q) = evSeen[t] \o q
      /\ InOrder(evSeen[t] \o q) => InOrder(evSeen[t] \o Tail(q))
      /\ \A n \in Int : UpTo(q, n) => UpTo(Tail(q), n)
  <2> HIDE DEF q
  <2>1. \A n \in Int : UpTo(q, n) => UpTo(Tail(q), n)
    BY <1>1, ReadGot, Zenon
  <2>2. Len(q) \in Nat
    BY <1>1
  <2> QED
    BY <1>1, <2>1, <2>2, ReadGot, Zenon DEF e
<1>3. Got(t) = evSeen[t] \o q
  BY DEF Got
<1> HIDE DEF q, e
<1>4. seen \in Seq(EventRecord) /\ bus \in -1..evRun /\ evRun \in Nat
  BY <1>1, <1>2, EventsAssumption DEF EventInv, EventShape
<1>5. /\ evSub'[t].bus = bus /\ evSub'[t].queue = Tail(q) /\ evSeen'[t] = seen
      /\ \A s \in EvSubs \ {t} : evSub'[s] = evSub[s] /\ evSeen'[s] = evSeen[s]
      /\ EventShape'
  BY <1>1, <1>2, <1>4 DEF EventInv, EventShape
<1>6. DriverState' /\ HistoryOrdered'
  BY <1>1, <1>4, <1>5 DEF EventInv, DriverState, HistoryOrdered
<1>7. QueueBounded(t)'
  <2>1. UpTo(q, EvOutputs + 2) /\ Len(q) <= EvQueue
    BY DEF EventInv, SubscribersSound, QueueBounded, q
  <2>2. UpTo(Tail(q), EvOutputs + 2)
    BY <1>2, <2>1, EventsAssumption
  <2> QED
    BY <1>2, <1>5, <2>1, <2>2, EventsAssumption DEF QueueBounded
<1>8. CASE e = Sentinel
  <2>1. Got(t)' = evSeen[t] \o Tail(q) /\ evSub'[t].bus = -1
    BY <1>5, <1>8 DEF Got
  <2>2. InOrder(Got(t)')
    BY <1>2, <1>3, <2>1 DEF EventInv, SubscribersSound, GotOrdered
  <2>3. ~(evSub'[t].bus > 0)
    BY <2>1
  <2>4. GotCritical(t)'
    BY <2>1, <2>3, <1>1, <1>4 DEF GotCritical
  <2>5. GotOrdered(t)'
    BY <1>1, <1>5, <2>1, <2>2, <2>3 DEF EventInv, SubscribersSound, GotOrdered
  <2> QED
    BY <1>1, <2>4, <2>5, <1>5, <1>6, <1>7, SubscriberKept
       DEF EventInv, SubscribersSound, SubscriberSound
<1>9. CASE e # Sentinel
  <2>1. Got(t)' = Got(t) /\ evSub'[t].bus = evSub[t].bus
    BY <1>2, <1>3, <1>5, <1>9 DEF Got
  <2>2. GotOrdered(t)' /\ GotCritical(t)'
    BY <1>1, <2>1 DEF EventInv, SubscribersSound, GotOrdered, GotCritical
  <2> QED
    BY <1>1, <2>2, <1>5, <1>6, <1>7, SubscriberKept DEF EventInv, SubscribersSound, SubscriberSound
<1> QED
  BY <1>8, <1>9

\* Every step keeps EventInv.
LEMMA EventStep == EventInv /\ [EventNext]_eventVars => EventInv'
<1> SUFFICES ASSUME EventInv, [EventNext]_eventVars PROVE EventInv'
  OBVIOUS
<1>1. CASE UNCHANGED eventVars
  <2>1. EventShape' /\ DriverState' /\ HistoryOrdered'
    BY <1>1 DEF eventVars, EventInv, EventShape, DriverState, HistoryOrdered
  <2>2. \A s \in EvSubs : SubscriberSound(s)'
    BY <1>1, SubscriberKept DEF eventVars
  <2> QED
    BY <2>1, <2>2 DEF EventInv, SubscribersSound, SubscriberSound
<1>2. CASE DonePut
  <2> DEFINE h == evHistory[evRun]
             next == IF Len(h) > 1 /\ h[Len(h) - 1].kind = "waiting_input" THEN "waiting" ELSE "ended"
  <2>1. CASE LastEvent(h).kind = "workflow_end"
    <3>1. EndRun(next) /\ next \in {"ended", "waiting"} /\ evTargets = {} /\ evPc = "put"
      BY <1>2, <2>1 DEF DonePut
    <3>2. evTargets' = {} /\ evLate' = evLate \cup evTargets /\ UNCHANGED <<evChat, evRun, evHistory, evLive, evSeen>>
      BY <1>2, <3>1 DEF DonePut
    <3> HIDE DEF next
    <3> QED
      BY <3>1, <3>2, EndRunStep
  <2>2. CASE LastEvent(h).kind # "workflow_end"
    <3>1. /\ evPc = "put" /\ evPc' = "run" /\ evTargets = {}
          /\ UNCHANGED <<evChat, evRun, evTargets, evHistory, evClosed, evLive, evPops, evSub, evSeen, evLate>>
      BY <1>2, <2>2 DEF DonePut
    <3>2. EventShape' /\ DriverState' /\ HistoryOrdered'
      BY <3>1 DEF EventInv, EventShape, DriverState, HistoryOrdered
    <3>3. \A s \in EvSubs : SubscriberSound(s)'
      BY <3>1, SubscriberKept
    <3> QED
      BY <3>2, <3>3 DEF EventInv, SubscribersSound, SubscriberSound
  <2> QED
    BY <2>1, <2>2
<1>3. CASE AbortRun
  BY <1>3, EndRunStep DEF AbortRun
<1>4. CASE EventNext
  BY <1>2, <1>3, <1>4, StartStep, PublishStep, PutStep, PopStep, ConnectStep, ReadStep DEF EventNext
<1> QED
  BY <1>1, <1>4

\* For any subscribers, queue size and number of runs: what a subscriber is given is in the
\* order of publication and nothing twice, and no state change is kept from one whose queue
\* did not overflow for as long as publish waits, whenever it connected.
THEOREM EventsOnceInOrder == EventSpec => []CriticalOnce
<1>1. ASSUME EventInv PROVE CriticalOnce
  <2> SUFFICES ASSUME NEW s \in EvSubs
               PROVE  /\ InOrder(Got(s))
                      /\ evSub[s].bus > 0 /\ s \notin evLate /\ ~(evSub[s].bus = evRun /\ s \in evTargets)
                           => HoldsCritical(Got(s), evHistory[evSub[s].bus], Len(evHistory[evSub[s].bus]))
    BY DEF CriticalOnce, Got, InOrder, HoldsCritical, HoldsEvents
  <2> QED
    BY <1>1 DEF EventInv, SubscribersSound, GotOrdered, GotCritical
<1> QED
  BY <1>1, EventStart, EventStep, PTL DEF EventSpec

\* The type invariant is part of EventInv.
LEMMA EventTypes == EventInv => EventTypeOK
<1> SUFFICES ASSUME EventInv PROVE EventTypeOK
  OBVIOUS
<1>1. /\ evRun \in 0..EvMaxRuns /\ evLive \in 0..EvMaxRuns /\ evPops \in 0..EvMaxRuns /\ EvOutputs \in Nat
      /\ \A s \in EvSubs : evSub[s].bus \in -1..EvMaxRuns
  BY SubscriberShape, EventsAssumption DEF EventInv, EventShape
<1>2. ASSUME NEW s \in EvSubs, NEW i \in 1..Len(evSub[s].queue) PROVE evSub[s].queue[i] \in EventsOf(EvOutputs + 3)
  <2>1. evSub[s].queue[i] \in EventRecord /\ evSub[s].queue[i].n <= EvOutputs + 2
    BY SubscriberShape DEF EventInv, SubscribersSound, QueueBounded, UpTo
  <2> QED
    BY <1>1, <2>1 DEF EventsOf, EventRecord
<1> QED
  BY <1>1, <1>2 DEF EventInv, EventShape, HistoryOrdered, SubscribersSound, QueueBounded, EventTypeOK

=============================================================================
