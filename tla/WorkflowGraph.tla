----------------------------- MODULE WorkflowGraph -----------------------------
(***************************************************************************)
(* One pass over the graph of a workflow: the checks of the DSL,           *)
(* compile_dsl, the adapters that resolve the inputs of a node, and the    *)
(* supersteps in which LangGraph runs the compiled graph.  What surrounds  *)
(* a pass, rows and drivers and cancellation, is WorkflowExecution.        *)
(*                                                                         *)
(* A graph is a record: type and reads are functions on its nodes (reads:  *)
(* the nodes whose outputs data.inputs selects), edges is a sequence of    *)
(* [src, handle, dst], conds the conditions of its if-else nodes, kb what  *)
(* a governance node acts on: [docs, keep] or [docs, flag].                *)
(* An output is what a value came to, "full" or "null", and the superstep  *)
(* that wrote it.                                                          *)
(***************************************************************************)
EXTENDS Integers, Sequences, FiniteSets

CONSTANT WgGraphs   \* graphs a publish or a debug run is asked for

VARIABLES
  wgGraph,   \* the graph of the pass
  wgPhase,   \* "draft", then "running", "waiting", or how the pass ended
  wgTasks,   \* nodes of this superstep that have not returned
  wgWrites,  \* what the others have returned: node -> result
  wgOut,     \* state.outputs: node -> [value, step]; step 0: none yet
  wgBranch,  \* state.branches
  wgStep,    \* supersteps begun
  wgKept,    \* documents: archived or not, as the governance nodes leave them
  wgNotes,   \* notifications written by runs of kb_notify_owner: node -> runs
  wgTold     \* a decision was given by resume

graphVars == <<wgGraph, wgPhase, wgTasks, wgWrites, wgOut, wgBranch, wgStep, wgKept, wgNotes, wgTold>>

None_   == "no branch"
Values  == {"full", "null"}
NodesOf(g) == DOMAIN g.type
EdgesOf(g) == {g.edges[i] : i \in DOMAIN g.edges}
Out(g, n)  == {e \in EdgesOf(g) : e.src = n}

\* What the registry of node types knows.
NodeTypes == {"start", "if-else", "question-classifier", "parameter-extractor", "variable-aggregator",
              "variable-splitter", "iteration", "agent_react", "human_approval", "answer", "llm",
              "knowledge-retrieval", "code", "http-request", "template", "kb_archive_document",
              "kb_merge_chunks", "kb_notify_owner", "builtin.echo"}

ASSUME GraphsAssumption == \A g \in WgGraphs :
  /\ IsFiniteSet(NodesOf(g)) /\ g.edges \in Seq(EdgesOf(g))
  /\ \A n \in NodesOf(g) : g.kb[n].flag \in BOOLEAN

-----------------------------------------------------------------------------
(***************************************************************************)
(* The DSL and its compilation.                                            *)
(***************************************************************************)

\* Kahn's algorithm visits every node exactly when each set of nodes has one
\* that no edge enters from within the set.
Acyclic(nodes, edges) ==
  \A S \in SUBSET nodes \ {{}} : \E n \in S : \A e \in edges : ~(e.dst = n /\ e.src \in S)

ReferencesOk(g) ==   \* mutant: the check for cycles is gone
  /\ \A e \in EdgesOf(g) : e.src \in NodesOf(g) /\ e.dst \in NodesOf(g)
  /\ Cardinality({n \in NodesOf(g) : g.type[n] = "start"}) = 1
ValidStructure(g) ==
  /\ \A e \in EdgesOf(g) : e.src \in NodesOf(g) /\ e.dst \in NodesOf(g)
  /\ Cardinality({n \in NodesOf(g) : g.type[n] = "start"}) = 1
  /\ Acyclic(NodesOf(g), EdgesOf(g))
  /\ \A n \in NodesOf(g) :
       /\ \A e \in g.blockEdges[n] : e.src \in g.blocks[n] /\ e.dst \in g.blocks[n]
       /\ Acyclic(g.blocks[n], g.blockEdges[n])

\* Triggers of a workflow; the blocks of an iteration start at the nodes no edge enters.
Triggers(g) == {n \in NodesOf(g) : g.type[n] = "start"}
BlockEntries(blocks, edges) == {n \in blocks : \A e \in edges : e.dst # n}

\* The nodes that are reached from starts: those in every set that holds the starts and
\* that no edge leaves.
ReachFrom(g, starts) ==
  {n \in NodesOf(g) : \A S \in SUBSET NodesOf(g) :
     starts \subseteq S /\ (\A e \in EdgesOf(g) : e.src \in S => e.dst \in S) => n \in S}

\* build_node_adapter finds the class of every node that is reached, or raises.
Compiles(g) == \A n \in ReachFrom(g, Triggers(g)) : g.type[n] \in NodeTypes

\* route: the branch itself when an edge carries it as its handle, else the edge
\* without a handle, else the end.
HandlesOf(g, n) == {e.handle : e \in Out(g, n)} \ {None_}
RouteExact(g, n, branch) == branch   \* mutant: no default
Route(g, n, branch) ==
  IF branch \in HandlesOf(g, n) THEN branch ELSE None_

\* path_map is keyed by the handle: of two edges with one handle the later is kept.
PathMap(g, n, key) ==
  LET I == {i \in DOMAIN g.edges : g.edges[i].src = n /\ g.edges[i].handle = key} IN
  IF I = {} THEN {} ELSE {g.edges[CHOOSE i \in I : \A j \in I : j <= i].dst}

\* Where LangGraph goes when n has returned.
Successors(g, n, branch) ==
  IF HandlesOf(g, n) = {} THEN {e.dst : e \in Out(g, n)}
  ELSE PathMap(g, n, Route(g, n, branch))

-----------------------------------------------------------------------------
(***************************************************************************)
(* Nodes.                                                                  *)
(***************************************************************************)

Returned(v, b) == [is |-> "ok", value |-> v, branch |-> b]
Raised    == [is |-> "error", value |-> "null", branch |-> None_]
Paused    == [is |-> "interrupt", value |-> "null", branch |-> None_]
NoResult  == [is |-> "none", value |-> "null", branch |-> None_]

\* NodeIO.inputs: only declared names are resolved.  The other types find ctx.inputs
\* empty whatever data.inputs binds.
DeclaresInputs == {"llm", "question-classifier", "parameter-extractor", "iteration",
                   "knowledge-retrieval", "human_approval", "answer", "variable-splitter",
                   "kb_archive_document", "kb_merge_chunks", "kb_notify_owner", "builtin.echo"}

\* A selector of a node without an output raises SelectorError.
Unresolved(g, n) == g.type[n] \in DeclaresInputs /\ \E m \in g.reads[n] : wgOut[m].step = 0

\* _eval_rule: a selector that fails yields None.
Holds(rule) ==
  LET lhs == IF wgOut[rule.of].step = 0 THEN "null" ELSE wgOut[rule.of].value IN
  CASE rule.op = "is_empty"  -> lhs = "null"
    [] rule.op = "not_empty" -> lhs # "null"
Satisfied(c) ==
  /\ c.rules # {}
  /\ IF c.logic = "and" THEN \A r \in c.rules : Holds(r) ELSE \E r \in c.rules : Holds(r)
IfElse(conds) ==
  LET I == {i \in DOMAIN conds : Satisfied(conds[i])} IN
  IF I = {} THEN "else" ELSE conds[CHOOSE i \in I : \A j \in I : i <= j].id

\* _parse_category_id: a valid id of the JSON answer, else the first of the categories the
\* answer mentions; json is None_ when the answer does not parse.
Category(ids, json, mentioned) ==
  IF json \in {ids[i] : i \in DOMAIN ids} THEN json
  ELSE LET I == {i \in DOMAIN ids : ids[i] \in mentioned} IN
       IF I = {} THEN None_ ELSE ids[CHOOSE i \in I : \A j \in I : i <= j]
Classified(ids) ==
  LET names == {ids[i] : i \in DOMAIN ids} IN
  {LET c == Category(ids, p[1], p[2]) IN IF c = None_ THEN Raised ELSE Returned("full", c) :
     p \in (names \cup {None_}) \X SUBSET names}

\* The model answers with JSON that has the required fields, or the node raises.
Extracted == {Returned("full", None_), Raised}

\* first_non_null over ctx.inputs, which is empty: None.
Aggregated == {Returned("null", None_)}

\* One subgraph for all items: compiled first, so blocks without a single entry fail even
\* for no items; an item that fails fails the node.
Iterated(g, n) ==
  IF Cardinality(BlockEntries(g.blocks[n], g.blockEdges[n])) # 1 THEN {Raised}
  ELSE {Returned("full", None_), Raised}

\* "query" is never bound: every run of the node raises.
AgentReact == {Raised}

\* The trigger lacks a required variable, or what it carries is passed on.
Started == {Returned("full", None_), Raised}
\* validate wants a condition.
Branched(conds) == IF conds = <<>> THEN {Raised} ELSE {Returned("null", IfElse(conds))}

\* Calls that answer or raise; chunks may be none, a body or outputs empty.
Generated == {Returned("full", None_), Raised}
Retrieved == {Returned("full", None_), Returned("null", None_), Raised}
Ran       == {Returned("full", None_), Returned("null", None_), Raised}
Requested == {Returned("full", None_), Returned("null", None_), Raised}
Split     == {Returned("full", None_), Returned("null", None_), Raised}
\* StrictUndefined, and ctx.inputs is empty: a template that uses a variable raises.
Rendered(g, n) == IF g.reads[n] = {} THEN {Returned("full", None_)} ELSE {Raised}
Answered  == {Returned("full", None_)}
Echoed    == {Returned("full", None_)}
Decided   == IF wgTold THEN {Returned("full", None_)} ELSE {Paused}

\* Governance nodes fail when a row is missing, before they write.
Archived == {Returned("full", None_), Raised}
Combined == {Returned("full", None_), Raised}
Notified == {Returned("full", None_), Returned("null", None_)}

Results(g, n) ==
  IF Unresolved(g, n) THEN {Raised}
  ELSE CASE g.type[n] = "start"               -> Started
         [] g.type[n] = "if-else"             -> Branched(g.conds[n])
         [] g.type[n] = "question-classifier" -> Classified(g.ids[n])
         [] g.type[n] = "parameter-extractor" -> Extracted
         [] g.type[n] = "variable-aggregator" -> Aggregated
         [] g.type[n] = "variable-splitter"   -> Split
         [] g.type[n] = "iteration"           -> Iterated(g, n)
         [] g.type[n] = "agent_react"         -> AgentReact
         [] g.type[n] = "human_approval"      -> Decided
         [] g.type[n] = "answer"              -> Answered
         [] g.type[n] = "llm"                 -> Generated
         [] g.type[n] = "knowledge-retrieval" -> Retrieved
         [] g.type[n] = "code"                -> Ran
         [] g.type[n] = "http-request"        -> Requested
         [] g.type[n] = "template"            -> Rendered(g, n)
         [] g.type[n] = "kb_archive_document" -> Archived
         [] g.type[n] = "kb_merge_chunks"     -> Combined
         [] g.type[n] = "kb_notify_owner"     -> Notified
         [] g.type[n] = "builtin.echo"        -> Echoed

\* Of two chunks the document of the one that is not kept is archived, unless they share it.
Dropped(kb) ==
  IF kb.docs[1] = kb.docs[2] \/ kb.keep = "both" THEN {}
  ELSE IF kb.keep = "a" THEN {kb.docs[2]} ELSE {kb.docs[1]}

\* A node commits what it writes in a session of its own, whatever becomes of the pass.
Effect(g, n) ==
  /\ wgKept' = CASE g.type[n] = "kb_archive_document" -> [wgKept EXCEPT ![g.kb[n].docs[1]] = ~g.kb[n].flag]
                 [] g.type[n] = "kb_merge_chunks" ->
                      [d \in DOMAIN wgKept |-> wgKept[d] /\ d \notin Dropped(g.kb[n])]
                 [] OTHER -> wgKept
  /\ wgNotes' = IF g.type[n] = "kb_notify_owner" THEN [wgNotes EXCEPT ![n] = @ + 1] ELSE wgNotes

-----------------------------------------------------------------------------
(***************************************************************************)
(* A pass.                                                                 *)
(***************************************************************************)

GraphInit ==
  /\ wgGraph \in WgGraphs /\ wgPhase = "draft"
  /\ wgTasks = {} /\ wgWrites = [n \in NodesOf(wgGraph) |-> NoResult]
  /\ wgOut = [n \in NodesOf(wgGraph) |-> [value |-> "null", step |-> 0]]
  /\ wgBranch = [n \in NodesOf(wgGraph) |-> None_] /\ wgStep = 0 /\ wgTold = FALSE
  /\ wgKept = [d \in wgGraph.docs |-> TRUE] /\ wgNotes = [n \in NodesOf(wgGraph) |-> 0]

\* parse_dsl and compile_dsl at the start of a run; a graph that is not valid raises.
Launch ==
  /\ wgPhase = "draft"
  /\ IF ValidStructure(wgGraph) /\ Compiles(wgGraph)
       THEN wgPhase' = "running" /\ wgTasks' = Triggers(wgGraph) /\ wgStep' = 1
       ELSE wgPhase' = "refused" /\ UNCHANGED <<wgTasks, wgStep>>
  /\ UNCHANGED <<wgGraph, wgWrites, wgOut, wgBranch, wgKept, wgNotes, wgTold>>

\* The tasks of a superstep read the state as it was at its start.  An exception stops
\* the others and ends the pass; what the step had written is not applied.
ReturnNode(n) ==
  /\ wgPhase = "running" /\ n \in wgTasks
  /\ \E r \in Results(wgGraph, n) :
       /\ wgWrites' = [wgWrites EXCEPT ![n] = r]
       /\ IF r = Raised THEN wgPhase' = "failed" /\ wgTasks' = {}
                        ELSE wgPhase' = wgPhase  /\ wgTasks' = wgTasks \ {n}
       /\ IF r.is = "ok" THEN Effect(wgGraph, n) ELSE UNCHANGED <<wgKept, wgNotes>>
  /\ UNCHANGED <<wgGraph, wgOut, wgBranch, wgStep, wgTold>>

DoneNodes == {n \in NodesOf(wgGraph) : wgWrites[n].is = "ok"}
Halted    == {n \in NodesOf(wgGraph) : wgWrites[n].is = "interrupt"}

\* merge_by_node: each node writes its own bucket.
Merged(old, new) == [n \in NodesOf(wgGraph) |-> IF n \in DoneNodes THEN new[n] ELSE old[n]]

ApplyStep ==
  /\ wgPhase = "running" /\ wgTasks = {} /\ Halted = {}
  /\ wgOut' = Merged(wgOut, [n \in NodesOf(wgGraph) |-> [value |-> wgWrites[n].value, step |-> wgStep]])
  /\ wgBranch' = Merged(wgBranch, [n \in NodesOf(wgGraph) |-> wgWrites[n].branch])
  /\ wgTasks' = UNION {Successors(wgGraph, n, wgWrites[n].branch) : n \in DoneNodes}
  /\ wgWrites' = [n \in NodesOf(wgGraph) |-> NoResult]
  /\ IF wgTasks' = {} THEN wgPhase' = "succeeded" /\ wgStep' = wgStep
                      ELSE wgPhase' = wgPhase /\ wgStep' = wgStep + 1
  /\ UNCHANGED <<wgGraph, wgKept, wgNotes, wgTold>>

\* An interrupt lets the other tasks of its step return; their writes are kept.
PauseStep ==
  /\ wgPhase = "running" /\ wgTasks = {} /\ Halted # {}
  /\ wgPhase' = "waiting"
  /\ UNCHANGED <<wgGraph, wgTasks, wgWrites, wgOut, wgBranch, wgStep, wgKept, wgNotes, wgTold>>

\* Command(resume = value): only the nodes that had paused run again.
ResumePass ==
  /\ wgPhase = "waiting" /\ wgPhase' = "running" /\ wgTold' = TRUE
  /\ wgTasks' = Halted
  /\ wgWrites' = [n \in NodesOf(wgGraph) |-> IF n \in Halted THEN NoResult ELSE wgWrites[n]]
  /\ UNCHANGED <<wgGraph, wgOut, wgBranch, wgStep, wgKept, wgNotes>>

GraphNext == Launch \/ (\E n \in NodesOf(wgGraph) : ReturnNode(n)) \/ ApplyStep \/ PauseStep \/ ResumePass
GraphSpec == GraphInit /\ [][GraphNext]_graphVars

-----------------------------------------------------------------------------
GraphTypeOK ==
  /\ wgGraph \in WgGraphs
  /\ wgPhase \in {"draft", "refused", "running", "waiting", "succeeded", "failed"}
  /\ wgKept \in [wgGraph.docs -> BOOLEAN]
  /\ wgTasks \subseteq NodesOf(wgGraph) /\ wgStep \in Nat /\ wgTold \in BOOLEAN
  /\ \A n \in NodesOf(wgGraph) : /\ wgWrites[n].is \in {"ok", "interrupt", "none", "error"}
                                 /\ wgNotes[n] \in 0..wgStep
                                 /\ wgOut[n].value \in Values /\ wgOut[n].step \in 0..wgStep

\* A node without two edges of one handle.
Unambiguous(g, n) == \A i, j \in DOMAIN g.edges :
  g.edges[i].src = n /\ g.edges[j].src = n /\ g.edges[i].handle = g.edges[j].handle
    => HandlesOf(g, n) = {} \/ i = j

\* The edges the author drew for what n emitted last.
Drawn(g, n) ==
  LET exact == {e \in Out(g, n) : e.handle = wgBranch[n]} IN
  IF exact # {} THEN exact ELSE {e \in Out(g, n) : e.handle = None_}

\* When a pass succeeds, every edge that a node's last branch selects has led to a run of
\* its target after that: a join whose branches differ in length has run again on the
\* last of them, and no branch was dropped.
DrawnEdgesRun ==
  wgPhase = "succeeded" =>
    \A n \in NodesOf(wgGraph) : wgOut[n].step # 0 /\ Unambiguous(wgGraph, n) =>
      \A e \in Drawn(wgGraph, n) : wgOut[e.dst].step > wgOut[n].step

\* A pass has no more supersteps than its graph has nodes that can be reached, and runs
\* no other node.
StepsBounded ==
  LET R == ReachFrom(wgGraph, Triggers(wgGraph)) IN
  wgPhase # "refused" => wgStep <= Cardinality(R) /\ wgTasks \subseteq R

\* A pass runs the graph as it is drawn and ends.
PassSound == DrawnEdgesRun /\ StepsBounded
=============================================================================
