------------------------------ MODULE McpServers ------------------------------
(***************************************************************************)
(* The registry of MCP servers: its edits, the connection tests and tool    *)
(* discoveries of administrators, the sweep that checks the health of every *)
(* active server and tells when one fails, and calls of tools.  A check     *)
(* talks to its server for seconds between reading the row and writing it.  *)
(***************************************************************************)
EXTENDS Integers, FiniteSets, Sequences

CONSTANTS
  McServers,        \* ids of servers
  McChecks,         \* requests to test, discover, list tools
  McTools,          \* names of tools
  McMaxAttempts,    \* MAX_CONNECT_ATTEMPTS, 3 in the code
  McMaxOps          \* bound: edits, requests, sweeps and calls

ASSUME McpAssumption == McServers # {} /\ McMaxAttempts \in Nat \ {0} /\ McMaxOps \in Nat

VARIABLES
  mcRow,            \* rows of mcp_servers, by id
  mcCheck,          \* requests that talk to a server
  mcSweep,          \* the run of mcp_health_check
  mcCall,           \* a call of a tool
  mcLog,            \* for each server when its row turned ok, and when a sweep found it fallen
  mcLast,           \* the last result committed for a server: [is, alone]
  mcFound,          \* tools its discoveries have returned
  mcOps

mcpVars == <<mcRow, mcCheck, mcSweep, mcCall, mcLog, mcLast, mcFound, mcOps>>
mcSeen == <<mcLog, mcLast, mcFound>>

Transports == {"http", "sse", "stdio"}
Reached    == {"ok", "degraded", "unreachable"}
Exposes    == {[all |-> TRUE, names |-> {}]} \cup {[all |-> FALSE, names |-> N] : N \in SUBSET McTools}
FreshServer(kind, exposed) ==
  [is |-> "live", active |-> TRUE, transport |-> kind, config |-> kind, health |-> "unknown",
   tools |-> {}, enabled |-> exposed]
NoServer  == [FreshServer("http", [all |-> TRUE, names |-> {}]) EXCEPT !.is = "none", !.active = FALSE]
RestCheck == [pc |-> "idle", kind |-> "test", of |-> CHOOSE s \in McServers : TRUE, saw |-> NoServer,
              tries |-> 0, result |-> "none", tools |-> {}, alone |-> TRUE]
RestSweep == [pc |-> "idle", todo |-> {}, saw |-> [s \in McServers |-> NoServer],
              result |-> [s \in McServers |-> "none"], alone |-> {}]
RestCall  == [pc |-> "idle", runs |-> 0, tries |-> 0, turn |-> {}]

McpInit ==
  /\ mcRow = [s \in McServers |-> NoServer]
  /\ mcCheck = [c \in McChecks |-> RestCheck] /\ mcSweep = RestSweep /\ mcCall = RestCall
  /\ mcLog = [s \in McServers |-> <<>>] /\ mcLast = [s \in McServers |-> [is |-> "unknown", alone |-> TRUE]]
  /\ mcFound = [s \in McServers |-> {}] /\ mcOps = 0

Registered(s) == mcRow[s].is = "live"
SpendServer == mcOps < McMaxOps /\ mcOps' = mcOps + 1

(***************************************************************************)
(* Edits.  An update of the configuration leaves the health and the tools   *)
(* of the old one; a new configuration without a transport is not checked   *)
(* against the transport the row has.                                       *)
(***************************************************************************)
CreateServer(s) ==
  /\ SpendServer /\ mcRow[s].is = "none"
  /\ \E kind \in {"http", "stdio"} :   \* bound: a transport and a whitelist come by updates
       mcRow' = [mcRow EXCEPT ![s] = FreshServer(kind, [all |-> TRUE, names |-> {}])]
  /\ UNCHANGED <<mcCheck, mcSweep, mcCall, mcSeen>>

SameShape(a, b) == (a = "stdio") = (b = "stdio")   \* http and sse take a url, stdio a command
ServerUpdates(row) ==
     {[row EXCEPT !.active = ~row.active]} \cup {[row EXCEPT !.enabled = e] : e \in Exposes}
  \cup {[row EXCEPT !.transport = k, !.config = k] : k \in Transports}
  \cup {[row EXCEPT !.config = k] : k \in {"http", "stdio"}}
UpdateServer(s) ==
  /\ SpendServer /\ Registered(s)
  /\ \E row \in ServerUpdates(mcRow[s]) \ {mcRow[s]} : mcRow' = [mcRow EXCEPT ![s] = row]
  /\ UNCHANGED <<mcCheck, mcSweep, mcCall, mcSeen>>

DeleteServer(s) ==
  /\ SpendServer /\ Registered(s)
  /\ mcRow' = [mcRow EXCEPT ![s] = [NoServer EXCEPT !.is = "gone"]]
  /\ UNCHANGED <<mcCheck, mcSweep, mcCall, mcSeen>>

(***************************************************************************)
(* What an attempt to open a session can meet, for a transport and the      *)
(* configuration the row has.                                               *)
(***************************************************************************)
UrlSession     == {"ok", "timeout", "transient", "permanent"}
EventSession   == {"ok", "timeout", "transient", "permanent"}
ProcessSession == {"ok", "timeout", "transient", "permanent"}
Session(row) ==
  CASE ~SameShape(row.transport, row.config) -> {"permanent"}   \* a KeyError on url or command
    [] row.transport = "http"  -> UrlSession
    [] row.transport = "sse"   -> EventSession
    [] row.transport = "stdio" -> ProcessSession

Transient(met) == met \in {"timeout", "transient"}
HealthFrom(met) == CASE met = "ok" -> "ok" [] met = "timeout" -> "unreachable" [] OTHER -> "degraded"

OpenCheck(c, s, kind) ==
  /\ SpendServer /\ mcCheck[c].pc = "idle" /\ Registered(s)
  /\ kind = "tools" => mcRow[s].tools = {}      \* otherwise answered from the row
  /\ mcCheck' = [mcCheck EXCEPT ![c] = [RestCheck EXCEPT !.pc = "open", !.kind = kind, !.of = s, !.saw = mcRow[s]]]
  /\ UNCHANGED <<mcRow, mcSweep, mcCall, mcSeen>>

\* _open_with_retry: a transient failure is tried again, with a pause.
GivesUp(met, tries) == ~Transient(met) \/ tries + 1 = McMaxAttempts
TryOpen(c) ==
  /\ mcCheck[c].pc = "open"
  /\ \E met \in Session(mcCheck[c].saw), N \in SUBSET McTools :
       /\ met # "ok" \/ mcCheck[c].kind = "test" => N = {}
       /\ mcCheck' = [mcCheck EXCEPT ![c] =
            IF GivesUp(met, mcCheck[c].tries)
            THEN [mcCheck[c] EXCEPT !.pc = "ended", !.result = HealthFrom(met), !.tools = N, !.tries = 0]
            ELSE [mcCheck[c] EXCEPT !.tries = @ + 1]]
       /\ mcFound' = IF met = "ok" THEN [mcFound EXCEPT ![mcCheck[c].of] = @ \cup N] ELSE mcFound
  /\ UNCHANGED <<mcRow, mcSweep, mcCall, mcLog, mcLast, mcOps>>

\* The ORM writes what differs from the row it has read.
MarkWritten(now, read, new) == IF new = read THEN now ELSE new
WellLog(s, health) == IF health = "ok" /\ mcRow[s].health # "ok" THEN Append(mcLog[s], "ok") ELSE mcLog[s]
Intrudes(S) ==   \* a commit for the servers of S: checks that are open are no longer alone
  /\ mcCheck' = [d \in McChecks |-> [mcCheck[d] EXCEPT !.alone = @ /\ mcCheck[d].of \notin S]]

\* A test stores what it met; a discovery that failed raises after it marked the row,
\* so that its transaction, mark included, is rolled back.
KeepsMark(k) == k.kind = "test" \/ k.result = "ok"
CommitCheck(c) ==
  LET k == mcCheck[c] s == k.of
      health == MarkWritten(mcRow[s].health, k.saw.health, k.result)
      tools  == IF k.kind = "test" THEN mcRow[s].tools ELSE MarkWritten(mcRow[s].tools, k.saw.tools, k.tools) IN
  /\ k.pc = "ended" /\ Registered(s) /\ KeepsMark(k)
  /\ mcRow' = [mcRow EXCEPT ![s].health = health, ![s].tools = tools]
  /\ mcLog' = [mcLog EXCEPT ![s] = WellLog(s, health)]
  /\ mcLast' = [mcLast EXCEPT ![s] = [is |-> k.result, alone |-> k.alone]]
  /\ mcCheck' = [d \in McChecks |-> IF d = c THEN RestCheck
                                    ELSE [mcCheck[d] EXCEPT !.alone = @ /\ mcCheck[d].of # s]]
  /\ mcSweep' = [mcSweep EXCEPT !.alone = @ \ {s}]
  /\ UNCHANGED <<mcCall, mcFound, mcOps>>

\* The answer is an error, or the row is gone and its update matches nothing.
FailCheck(c) ==
  /\ mcCheck[c].pc = "ended" /\ (~KeepsMark(mcCheck[c]) \/ ~Registered(mcCheck[c].of))
  /\ mcCheck' = [mcCheck EXCEPT ![c] = RestCheck]
  /\ UNCHANGED <<mcRow, mcSweep, mcCall, mcSeen, mcOps>>

\* get_tools: the whitelist is applied to what is stored or was just discovered.
Exposed(tools, enabled) == IF enabled.all THEN tools ELSE tools \cap enabled.names

(***************************************************************************)
(* The sweep: one transaction over all active servers, then notifications   *)
(* in a second one.                                                         *)
(***************************************************************************)
StartSweep ==
  /\ SpendServer /\ mcSweep.pc = "idle"
  /\ LET S == {s \in McServers : Registered(s) /\ mcRow[s].active} IN
     mcSweep' = [RestSweep EXCEPT !.pc = "probing", !.todo = S, !.saw = mcRow, !.alone = S]
  /\ UNCHANGED <<mcRow, mcCheck, mcCall, mcSeen>>

Probe(s) ==   \* one attempt
  /\ mcSweep.pc = "probing" /\ s \in mcSweep.todo
  /\ \E met \in Session(mcSweep.saw[s]) :
       mcSweep' = [mcSweep EXCEPT !.todo = @ \ {s}, !.result[s] = HealthFrom(met)]
  /\ UNCHANGED <<mcRow, mcCheck, mcCall, mcSeen, mcOps>>

Swept == {s \in McServers : mcSweep.result[s] # "none"}
FallenAny(sweep) == {s \in McServers : sweep.result[s] \in Reached \ {"ok"}}   \* mutant
Fallen(sweep) == {s \in McServers : sweep.result[s] \in Reached \ {"ok"} /\ sweep.saw[s].health = "ok"}
CommitSweep ==
  /\ mcSweep.pc = "probing" /\ mcSweep.todo = {}
  /\ LET W == {s \in Swept : Registered(s)}
         health == [s \in McServers |-> IF s \in W THEN MarkWritten(mcRow[s].health, mcSweep.saw[s].health, mcSweep.result[s])
                                                   ELSE mcRow[s].health] IN
     /\ mcRow' = [s \in McServers |-> [mcRow[s] EXCEPT !.health = health[s]]]
     /\ mcLog' = [s \in McServers |-> (IF s \in W THEN WellLog(s, health[s]) ELSE mcLog[s])
                                    \o IF s \in Fallen(mcSweep) THEN <<"fell">> ELSE <<>>]
     /\ mcLast' = [s \in McServers |-> IF s \in W THEN [is |-> mcSweep.result[s], alone |-> s \in mcSweep.alone]
                                                  ELSE mcLast[s]]
     /\ Intrudes(W)
  /\ mcSweep' = [mcSweep EXCEPT !.pc = "notify"]
  /\ UNCHANGED <<mcCall, mcFound, mcOps>>

Notify ==   \* the notifications are committed
  /\ mcSweep.pc = "notify" /\ mcSweep' = RestSweep
  /\ UNCHANGED <<mcRow, mcCheck, mcCall, mcSeen, mcOps>>

\* The update of a deleted server may be noticed, which fails the whole sweep (whether the
\* driver counts the rows of a batch of updates is not the program's), or the worker dies.
SweepDies ==
  /\ mcSweep.pc # "idle" /\ mcSweep' = RestSweep
  /\ UNCHANGED <<mcRow, mcCheck, mcCall, mcSeen, mcOps>>

(***************************************************************************)
(* A turn of an agent opens its active servers, each under a key of its     *)
(* own; a configuration of the wrong shape fails the turn.  call_tool tries *)
(* a transient failure once more; the row record_call adds is flushed in a  *)
(* session that closes without a commit, so that no call is recorded.       *)
(***************************************************************************)
ClientEntry(row) == SameShape(row.transport, row.config)
OpenTurn ==   \* bound: a turn shares nothing with checks, so a behaviour ends with it
  /\ mcOps < McMaxOps /\ mcOps' = McMaxOps /\ mcCall.pc = "idle"
  /\ mcSweep.pc = "idle" /\ \A c \in McChecks : mcCheck[c].pc = "idle"
  /\ LET S == {s \in McServers : Registered(s) /\ mcRow[s].active} IN
     /\ S # {} /\ \A s \in S : ClientEntry(mcRow[s])
     /\ mcCall' = [RestCall EXCEPT !.pc = "called", !.turn = S]
  /\ UNCHANGED <<mcRow, mcCheck, mcSweep, mcSeen>>

MaxRuns == 2
CallTool ==
  /\ mcCall.pc = "called"
  /\ \E met \in {"ok", "timeout", "transient", "permanent"}, ran \in BOOLEAN :
       /\ met = "ok" => ran
       /\ mcCall' = [mcCall EXCEPT !.runs = @ + (IF ran THEN 1 ELSE 0), !.tries = @ + 1,
                                   !.pc = IF Transient(met) /\ mcCall.tries = 0 THEN "called"
                                          ELSE IF met = "ok" THEN "ok" ELSE "error"]
  /\ UNCHANGED <<mcRow, mcCheck, mcSweep, mcSeen, mcOps>>

EndToolCall ==
  /\ mcCall.pc \in {"ok", "error"} /\ mcCall' = RestCall
  /\ UNCHANGED <<mcRow, mcCheck, mcSweep, mcSeen, mcOps>>

McpNext ==
  \/ \E s \in McServers : \/ CreateServer(s) \/ UpdateServer(s) \/ DeleteServer(s) \/ Probe(s)
                          \/ \E c \in McChecks, kind \in {"test", "discover", "tools"} : OpenCheck(c, s, kind)
  \/ \E c \in McChecks : TryOpen(c) \/ CommitCheck(c) \/ FailCheck(c)
  \/ StartSweep \/ CommitSweep \/ Notify \/ SweepDies \/ OpenTurn \/ CallTool \/ EndToolCall
McpSpec == McpInit /\ [][McpNext]_mcpVars

-----------------------------------------------------------------------------
\* Every variable holds values of its kind.
McpTypeOK ==
  /\ \A s \in McServers : /\ mcRow[s].health \in Reached \cup {"unknown"} /\ mcRow[s].tools \subseteq McTools
                          /\ mcRow[s].transport \in Transports /\ mcRow[s].enabled \in Exposes
                          /\ mcLog[s] \in Seq({"ok", "fell"}) /\ mcLast[s].is \in Reached \cup {"unknown"}
  /\ \A c \in McChecks : mcCheck[c].tries \in 0..(McMaxAttempts - 1) /\ mcCheck[c].of \in McServers
  /\ mcSweep.pc \in {"idle", "probing", "notify"} /\ mcCall.runs \in 0..MaxRuns

\* A failure is notified at most once: between two falls that sweeps report of a server its
\* row has shown that it was well, whatever tests and sweeps run meanwhile (mcp/tasks.py:68).
ToldOnce == \A s \in McServers : \A i \in 1..Len(mcLog[s]) :
              mcLog[s][i] = "fell" => i > 1 /\ mcLog[s][i - 1] = "ok"

\* What a row says of its server is the result of the check that wrote it last, unless another
\* check was committed while that one talked to the server; then it is the result of either.
HealthIsLast == \A s \in McServers : Registered(s) /\ mcLast[s].alone => mcRow[s].health = mcLast[s].is

\* The tools a row offers to agents are some a discovery of this server returned, and allowed.
ToolsDiscovered == \A s \in McServers :
  LET T == Exposed(mcRow[s].tools, mcRow[s].enabled) IN
  T \subseteq mcFound[s] /\ (~mcRow[s].enabled.all => T \subseteq mcRow[s].enabled.names)

\* The registry, its checks and its notifications go together (mcp/service.py, mcp/tasks.py).
McpSound == ToldOnce /\ HealthIsLast /\ ToolsDiscovered
=============================================================================
