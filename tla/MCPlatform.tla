------------------------------ MODULE MCPlatform ------------------------------
(***************************************************************************)
(* Instances of the components around the knowledge bases for TLC: chat,   *)
(* workflow events, the orchestrator, models, settings, accounts and       *)
(* departments.  They share no variable; a behaviour is one of the         *)
(* component that section names.                                           *)
(***************************************************************************)
EXTENDS Chat, RuntimeConfig, Accounts, Departments, WorkflowEvents, Orchestrator, ModelRouting,
        WorkflowGraph, WorkflowVersions, McpServers

VARIABLE section

Components == {"chat", "settings", "accounts", "departments", "events", "orchestrator", "models",
               "graphs", "versions", "servers"}

FirstRule == <<"r1">>

\* Graphs: a join of unequal branches, conditions, classes, a cycle, two edges of one
\* handle, a type that is not registered, blocks without a single entry, and the governance nodes.
Edge(a, h, b) == [src |-> a, handle |-> h, dst |-> b]
Line(a, b) == Edge(a, "no branch", b)
Rule(n, op) == [of |-> n, op |-> op]
NoConds(type) == [n \in DOMAIN type |-> <<>>]
Graph(type, edges) == [type |-> type, edges |-> edges, reads |-> [n \in DOMAIN type |-> {}],
  conds |-> NoConds(type), ids |-> NoConds(type), blocks |-> [n \in DOMAIN type |-> {}], blockEdges |-> [n \in DOMAIN type |-> {}], docs |-> {},
  kb |-> [n \in DOMAIN type |-> [docs |-> <<>>, keep |-> "both", flag |-> FALSE]]]
Join == [Graph([s |-> "start", a |-> "code", b |-> "llm", j |-> "variable-aggregator"],
               <<Line("s", "a"), Line("a", "b"), Line("b", "j"), Line("s", "j")>>) EXCEPT !.reads["b"] = {"a"}, !.reads["j"] = {"b"}]
Branches == [Graph([s |-> "start", k |-> "knowledge-retrieval", i |-> "if-else", a |-> "llm", h |-> "human_approval", j |-> "answer"],
  <<Line("s", "k"), Line("k", "i"), Edge("i", "hit", "a"), Edge("i", "else", "h"), Line("a", "j"), Line("h", "j"), Line("s", "h")>>)
  EXCEPT !.conds["i"] = <<[id |-> "hit", logic |-> "and", rules |-> {Rule("k", "not_empty")}], [id |-> "hit", logic |-> "or", rules |-> {Rule("a", "not_empty"), Rule("s", "is_empty")}]>>, !.reads["j"] = {"h"}]
Classes == [Graph([s |-> "start", c |-> "question-classifier", a |-> "parameter-extractor", b |-> "iteration", h |-> "human_approval", j |-> "answer"],
  <<Line("s", "c"), Edge("c", "x", "a"), Line("c", "b"), Line("s", "h"), Line("a", "j"), Line("b", "j"), Line("h", "j")>>)
  EXCEPT !.ids["c"] = <<"x", "y">>, !.blocks["b"] = {"p", "q"}, !.blockEdges["b"] = {Line("p", "q")}]
Cycle == Graph([s |-> "start", a |-> "code", b |-> "llm"], <<Line("s", "a"), Line("a", "b"), Line("b", "a")>>)
Twice == [Graph([s |-> "start", i |-> "if-else", a |-> "agent_react", b |-> "answer", x |-> "answer"],
  <<Line("s", "i"), Edge("i", "else", "a"), Edge("i", "else", "b")>>) EXCEPT !.conds["i"] = <<[id |-> "hit", logic |-> "and", rules |-> {}]>>]
Blocks == [Graph([s |-> "start", t |-> "iteration", r |-> "agent_react", i |-> "if-else"], <<Line("s", "t"), Line("s", "i"), Edge("i", "lone", "r")>>)
  EXCEPT !.blocks["t"] = {"p", "q"}, !.conds["i"] = <<[id |-> "lone", logic |-> "or", rules |-> {Rule("r", "is_empty")}]>>]
Govern == [Graph([s |-> "start", h |-> "human_approval", m |-> "kb_merge_chunks", e |-> "builtin.echo", a |-> "kb_archive_document", n |-> "kb_notify_owner", x |-> "http-request", t |-> "template", v |-> "variable-splitter"],
  <<Line("s", "h"), Line("s", "n"), Line("h", "m"), Line("h", "x"), Line("m", "a"), Line("m", "n"), Line("x", "t"), Line("x", "v"), Line("a", "e")>>) EXCEPT !.docs = {1, 2}, !.reads["m"] = {"h"}, !.reads["e"] = {"x"},
  !.kb["m"] = [docs |-> <<1, 2>>, keep |-> "a", flag |-> FALSE], !.kb["a"] = [docs |-> <<2>>, keep |-> "both", flag |-> FALSE]]
Unknown == Graph([s |-> "start", a |-> "example", b |-> "code"], <<Line("s", "a"), Line("a", "b")>>)
Graphs == {Join, Branches, Classes, Cycle, Twice, Blocks, Govern, Unknown}


Only(c) ==
  /\ section = c /\ section' = section
  /\ IF c = "chat"         THEN TRUE ELSE UNCHANGED chatVars
  /\ IF c = "settings"     THEN TRUE ELSE UNCHANGED configVars
  /\ IF c = "accounts"     THEN TRUE ELSE UNCHANGED accountVars
  /\ IF c = "departments"  THEN TRUE ELSE UNCHANGED deptVars
  /\ IF c = "events"       THEN TRUE ELSE UNCHANGED eventVars
  /\ IF c = "orchestrator" THEN TRUE ELSE UNCHANGED orchVars
  /\ IF c = "models"       THEN TRUE ELSE UNCHANGED modelVars
  /\ IF c = "graphs"       THEN TRUE ELSE UNCHANGED graphVars
  /\ IF c = "versions"     THEN TRUE ELSE UNCHANGED versionVars
  /\ IF c = "servers"      THEN TRUE ELSE UNCHANGED mcpVars

\* A component that rests is in one of its initial states.
Init == /\ section \in Components
        /\ ChatInit /\ ConfigInit /\ AccountInit
        /\ DeptInit   /\ (section # "departments"  => \A d \in DpDepts : dpParent[d] = Absent)
        /\ EventInit  /\ (section # "events"       => ~evChat)
        /\ OrchInit   /\ (section # "orchestrator" => \A r \in OcRules : ocRow[r].match # "llm")
        /\ ModelInit  /\ (section # "models"       => mrProvider[CHOOSE p \in MrProviders : TRUE] = "active")
        /\ GraphInit  /\ (section # "graphs"       => wgGraph = Join)
        /\ VersionInit /\ McpInit

Next == \/ Only("chat")         /\ ChatNext
        \/ Only("settings")     /\ ConfigNext
        \/ Only("accounts")     /\ AccountNext
        \/ Only("departments")  /\ DeptNext
        \/ Only("events")       /\ EventNext
        \/ Only("orchestrator") /\ OrchNext
        \/ Only("models")       /\ ModelNext
        \/ Only("graphs")       /\ GraphNext
        \/ Only("versions")     /\ VersionNext
        \/ Only("servers")      /\ McpNext

Spec == Init /\ [][Next]_<<section, chatVars, configVars, accountVars, deptVars, eventVars, orchVars, modelVars,
                           graphVars, versionVars, mcpVars>>

PlatformTypesOK ==
  CASE section = "chat"         -> ChatTypeOK
    [] section = "settings"     -> ConfigTypeOK
    [] section = "accounts"     -> AccountTypeOK
    [] section = "departments"  -> DeptTypeOK
    [] section = "events"       -> EventTypeOK
    [] section = "orchestrator" -> OrchTypeOK
    [] section = "models"       -> ModelTypeOK
    [] section = "graphs"       -> GraphTypeOK
    [] section = "versions"     -> VersionTypeOK
    [] section = "servers"      -> McpTypeOK
=============================================================================
