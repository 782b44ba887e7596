----------------------------- MODULE Orchestrator -----------------------------
(***************************************************************************)
(* An orchestrator agent: its rules, their versions, the cache of active   *)
(* rules, and one route of a message through them.  A request that edits   *)
(* a rule loads it, flushes (evicting the cache) and commits when its      *)
(* response is out; two may overlap.  WorkflowAdapter calls a method that  *)
(* ExecutionService does not have (run_stream), so every handler fails.    *)
(***************************************************************************)
EXTENDS Integers, Sequences, FiniteSets

CONSTANTS
  OcRules,       \* rules, by their ids
  OcFirst,       \* the rules an earlier create_rule made: a sequence, in the order of creation
  OcEdits,       \* requests that may overlap
  OcStep,        \* PRIORITY_STEP, in units of the smallest gap
  OcMaxAttempts, \* MAX_ATTEMPTS, 5
  OcMaxOps       \* bound: edits

ASSUME OrchestratorAssumption ==
  /\ OcStep \in Nat \ {0} /\ OcMaxAttempts \in Nat \ {0} /\ OcMaxOps \in Nat
  /\ IsFiniteSet(OcRules) /\ OcRules # {} /\ OcFirst \in Seq(OcRules)

VARIABLES
  ocRow,      \* agent_rules
  ocSnap,     \* agent_rule_versions: of each rule, pairs of version and row
  ocEdit,     \* the transactions: what each has loaded and will write
  ocCache,    \* the cached list of active rules; NoList: no entry
  ocRoute,    \* the route: its rules, the rules whose handlers it ran
  ocKnown,    \* history: of each rule, the settings a version recorded
  ocOps

orchVars == <<ocRow, ocSnap, ocEdit, ocCache, ocRoute, ocKnown, ocOps>>

Policies == {"use_default", "fallback_next", "return_error"}
Matches  == {"hit", "miss", "llm"}   \* condition, keyword and regex match the message or not
NoRow    == [ver |-> 0, prio |-> 0, active |-> FALSE, match |-> "miss", policy |-> "use_default"]
DeadRow  == [NoRow EXCEPT !.ver = -1]
NoList   == <<[rule |-> CHOOSE r \in OcRules : TRUE, row |-> DeadRow]>>
Live     == {r \in OcRules : ocRow[r].ver > 0}
Setting(row) == <<row.active, row.match, row.policy>>
IdleEdit == [pc |-> "idle", rule |-> CHOOSE r \in OcRules : TRUE, loaded |-> NoRow, new |-> NoRow]

OrchTypeOK ==
  /\ \A r \in OcRules : /\ ocRow[r].ver \in -1..(OcMaxOps + 1) /\ ocRow[r].prio \in Nat
                        /\ ocRow[r].match \in Matches /\ ocRow[r].policy \in Policies
                        /\ \A s \in ocSnap[r] : s.ver > 0
  /\ \A e \in OcEdits : ocEdit[e].pc \in {"idle", "loaded", "flushed"} /\ ocEdit[e].rule \in OcRules
  /\ ocRoute.pc \in {"idle", "selected", "trying", "default", "done"} /\ Len(ocRoute.tried) <= OcMaxAttempts
  /\ ocOps \in 0..OcMaxOps

Created(prio, match, policy) == [ver |-> 1, prio |-> prio, active |-> TRUE, match |-> match, policy |-> policy]
OrchInit ==
  /\ \E match \in {"hit", "llm"} :
       ocRow = [r \in OcRules |-> IF \E i \in 1..Len(OcFirst) : OcFirst[i] = r
                                  THEN Created(OcStep * CHOOSE i \in 1..Len(OcFirst) : OcFirst[i] = r, match, "fallback_next")
                                  ELSE NoRow]
  /\ ocSnap = [r \in OcRules |-> IF ocRow[r] = NoRow THEN {} ELSE {ocRow[r]}]
  /\ ocEdit = [e \in OcEdits |-> IdleEdit] /\ ocCache = NoList
  /\ ocRoute = [pc |-> "idle", list |-> <<>>, tried |-> <<>>, skip |-> {}]
  /\ ocKnown = [r \in OcRules |-> {Setting(s) : s \in ocSnap[r]}] /\ ocOps = 0

-----------------------------------------------------------------------------
(***************************************************************************)
(* Rules.                                                                  *)
(***************************************************************************)
OcOp == ocOps < OcMaxOps /\ ocOps' = ocOps + 1

Lowest(S)  == CHOOSE r \in S : \A q \in S : ocRow[r].prio <= ocRow[q].prio
Highest(S) == CHOOSE r \in S : \A q \in S : ocRow[r].prio >= ocRow[q].prio

\* create_rule: at the end of the list, unless the body names a priority; version 1 is
\* recorded with the row.
CreateRule(r, match, policy) ==
  LET row == Created((IF Live = {} THEN 0 ELSE ocRow[Highest(Live)].prio) + OcStep, match, policy)
  IN  /\ OcOp /\ ocRow[r] = NoRow
      /\ ocRow' = [ocRow EXCEPT ![r] = row] /\ ocSnap' = [ocSnap EXCEPT ![r] = {row}]
      /\ ocKnown' = [ocKnown EXCEPT ![r] = {Setting(row)}]
      /\ ocCache' = NoList /\ UNCHANGED <<ocEdit, ocRoute>>

\* _get_rule, and what the request will write of what it has read.
Load(e, r, new) ==
  /\ OcOp /\ ocEdit[e].pc = "idle" /\ r \in Live
  /\ ocEdit' = [ocEdit EXCEPT ![e] = [pc |-> "loaded", rule |-> r, loaded |-> ocRow[r], new |-> new]]
  /\ UNCHANGED <<ocRow, ocSnap, ocCache, ocRoute, ocKnown>>

UpdateRule(e, r) ==
  \/ \E active \in BOOLEAN  : Load(e, r, [ocRow[r] EXCEPT !.active = active, !.ver = @ + 1])
  \/ \E match \in Matches   : Load(e, r, [ocRow[r] EXCEPT !.match = match,   !.ver = @ + 1])
  \/ \E policy \in Policies : Load(e, r, [ocRow[r] EXCEPT !.policy = policy, !.ver = @ + 1])

RollbackRule(e, r) == \E target \in ocSnap[r] : Load(e, r, [target EXCEPT !.ver = ocRow[r].ver + 1])

\* move_rule: half the lowest priority, or the midpoint between the rule it goes behind and
\* the next in the list, where rules of one priority come in any order; no version is
\* written.  A midpoint below the smallest gap is left out.
TopPriority(others) == IF others = {} THEN 2 * OcStep ELSE ocRow[Lowest(others)].prio
PriorityBehind(others, after) ==
  LET higher == {q \in others : ocRow[q].prio > ocRow[after].prio}
      equal  == {q \in others \ {after} : ocRow[q].prio = ocRow[after].prio}
      last   == IF higher = {} THEN 2 * (ocRow[after].prio + OcStep) ELSE ocRow[after].prio + ocRow[Lowest(higher)].prio
  IN  {last} \cup {2 * ocRow[q].prio : q \in equal}
MoveRule(e, r, after) ==
  \E twice \in IF after = r THEN {TopPriority(Live \ {r})} ELSE PriorityBehind(Live \ {r}, after) :
    /\ after \in Live /\ twice % 2 = 0 /\ Load(e, r, [ocRow[r] EXCEPT !.prio = twice \div 2])

\* The flush waits for the row while another transaction has written it.
RowFree(e) == \A o \in OcEdits \ {e} : ocEdit[o].pc = "flushed" => ocEdit[o].rule # ocEdit[e].rule
\* uq_agent_rule_version refuses a second version of one number; a row that is gone is not
\* updated.
VersionUnchecked(e) == FALSE   \* mutant: no unique constraint
VersionUsed(e)  == \E s \in ocSnap[ocEdit[e].rule] : s.ver = ocEdit[e].new.ver

FlushEdit(e) ==
  /\ ocEdit[e].pc = "loaded" /\ RowFree(e)
  /\ IF ocRow[ocEdit[e].rule].ver < 1 \/ (ocEdit[e].new.ver # ocEdit[e].loaded.ver /\ VersionUsed(e))
       THEN ocEdit' = [ocEdit EXCEPT ![e] = IdleEdit] /\ UNCHANGED ocCache
       ELSE ocEdit' = [ocEdit EXCEPT ![e].pc = "flushed"] /\ ocCache' = NoList
  /\ UNCHANGED <<ocRow, ocSnap, ocRoute, ocKnown, ocOps>>

\* Only the columns that the request changed are written.
Written(cur, t) == [f \in DOMAIN cur |-> IF t.new[f] # t.loaded[f] THEN t.new[f] ELSE cur[f]]
CommitEdit(e) ==
  LET t == ocEdit[e]
      r == t.rule
      versioned == t.new.ver # t.loaded.ver
  IN  /\ t.pc = "flushed" /\ ocEdit' = [ocEdit EXCEPT ![e] = IdleEdit]
      /\ ocRow'   = [ocRow   EXCEPT ![r] = Written(@, t)]
      /\ ocSnap'  = [ocSnap  EXCEPT ![r] = IF versioned THEN @ \cup {t.new} ELSE @]
      /\ ocKnown' = [ocKnown EXCEPT ![r] = IF versioned THEN @ \cup {Setting(t.new)} ELSE @]
      /\ UNCHANGED <<ocCache, ocRoute, ocOps>>

\* delete_rule: its versions go with it.
DeleteRule(r) ==
  /\ OcOp /\ r \in Live /\ \A e \in OcEdits : ~(ocEdit[e].pc = "flushed" /\ ocEdit[e].rule = r)
  /\ ocRow' = [ocRow EXCEPT ![r] = DeadRow] /\ ocSnap' = [ocSnap EXCEPT ![r] = {}]
  /\ ocCache' = NoList /\ UNCHANGED <<ocEdit, ocRoute, ocKnown>>

\* update_config moves the agent's updated_at, the key of the cache.
UpdateConfig == /\ ocCache # NoList /\ ocCache' = NoList
                /\ UNCHANGED <<ocRow, ocSnap, ocEdit, ocRoute, ocKnown, ocOps>>

\* priority_rebalance runs in a worker, whose cache is not the one of the routes.  Rules of
\* one priority are renumbered in any order; no version is written.
Position(r) == {n \in 1..Cardinality(Live) : /\ Cardinality({q \in Live : ocRow[q].prio < ocRow[r].prio}) < n
                                            /\ n <= Cardinality({q \in Live : ocRow[q].prio <= ocRow[r].prio})}
Rebalance ==
  /\ \E q, r \in Live : q # r /\ ocRow[r].prio - ocRow[q].prio \in 0..1
  /\ \A e \in OcEdits : ocEdit[e].pc # "flushed"
  /\ \E pos \in [Live -> 1..Cardinality(Live)] :
       /\ \A r \in Live : pos[r] \in Position(r) /\ \A q \in Live \ {r} : pos[q] # pos[r]
       /\ ocRow' = [r \in OcRules |-> IF r \in Live THEN [ocRow[r] EXCEPT !.prio = pos[r] * OcStep] ELSE ocRow[r]]
  /\ UNCHANGED <<ocSnap, ocEdit, ocCache, ocRoute, ocKnown, ocOps>>

-----------------------------------------------------------------------------
(***************************************************************************)
(* A route.                                                                *)
(***************************************************************************)

\* The active rules in the order of their priorities, ties in any order.
IsListing(list) ==
  LET active == {r \in Live : ocRow[r].active} IN
  /\ {list[i].rule : i \in 1..Len(list)} = active /\ Len(list) = Cardinality(active)
  /\ \A i \in 1..Len(list) : list[i].row = ocRow[list[i].rule]
  /\ \A i, j \in 1..Len(list) : i < j => list[i].row.prio <= list[j].row.prio
Listings == {list \in UNION {[1..n -> {[rule |-> r, row |-> ocRow[r]] : r \in Live}] : n \in 0..Cardinality(Live)} :
               IsListing(list)}

SelectRules ==
  /\ ocRoute.pc = "idle"
  /\ IF ocCache # NoList
       THEN ocRoute' = [ocRoute EXCEPT !.pc = "trying", !.list = ocCache]
       ELSE \E list \in Listings : ocRoute' = [ocRoute EXCEPT !.pc = "selected", !.list = list]
  /\ UNCHANGED <<ocRow, ocSnap, ocEdit, ocCache, ocKnown, ocOps>>

\* The list is cached under the agent's updated_at, whatever was evicted since the query.
StoreRules ==
  /\ ocRoute.pc = "selected" /\ ocRoute' = [ocRoute EXCEPT !.pc = "trying"] /\ ocCache' = ocRoute.list
  /\ UNCHANGED <<ocRow, ocSnap, ocEdit, ocKnown, ocOps>>

\* evaluate: the first rule that is not skipped and matches; the classifier says which of
\* the llm_intent rules do, anew in every attempt.
FirstMatch(list, skip, said) ==
  LET ok == {i \in 1..Len(list) : /\ list[i].rule \notin skip
                                  /\ list[i].row.match = "hit" \/ (list[i].row.match = "llm" /\ said)}
  IN  IF ok = {} THEN 0 ELSE CHOOSE i \in ok : \A j \in ok : i <= j

\* The handler fails; on_handler_error says what is next.
NextAfter(policy, attempts) ==
  CASE policy = "return_error" -> "done"
    [] policy = "fallback_next" /\ attempts < OcMaxAttempts -> "trying"
    [] OTHER -> "default"
TryRule(said) ==
  LET i == FirstMatch(ocRoute.list, ocRoute.skip, said) IN
  /\ ocRoute.pc = "trying"
  /\ ocRoute' = IF i = 0 THEN [ocRoute EXCEPT !.pc = "default"]
                ELSE [ocRoute EXCEPT !.pc    = NextAfter(ocRoute.list[i].row.policy, Len(ocRoute.tried) + 1),
                                     !.tried = Append(@, ocRoute.list[i]),
                                     !.skip  = @ \cup {ocRoute.list[i].rule}]
  /\ UNCHANGED <<ocRow, ocSnap, ocEdit, ocCache, ocKnown, ocOps>>

\* dispatch_default; the next message finds the route idle.
RunDefault ==
  /\ ocRoute.pc = "default" /\ ocRoute' = [ocRoute EXCEPT !.pc = "done"]
  /\ UNCHANGED <<ocRow, ocSnap, ocEdit, ocCache, ocKnown, ocOps>>
NextMessage ==
  /\ ocRoute.pc = "done" /\ ocRoute' = [pc |-> "idle", list |-> <<>>, tried |-> <<>>, skip |-> {}]
  /\ UNCHANGED <<ocRow, ocSnap, ocEdit, ocCache, ocKnown, ocOps>>

OrchNext ==
  \/ \E r \in OcRules : \/ \E match \in Matches, policy \in Policies : CreateRule(r, match, policy)
                        \/ DeleteRule(r)
                        \/ \E e \in OcEdits : \/ UpdateRule(e, r) \/ RollbackRule(e, r)
                                              \/ \E after \in OcRules : MoveRule(e, r, after)
  \/ \E e \in OcEdits : FlushEdit(e) \/ CommitEdit(e)
  \/ UpdateConfig \/ Rebalance \/ SelectRules \/ StoreRules \/ RunDefault \/ NextMessage
  \/ \E said \in BOOLEAN : TryRule(said)
OrchSpec == OrchInit /\ [][OrchNext]_orchVars

-----------------------------------------------------------------------------
\* What a route did can be read from the record: every rule it went by, from the table or
\* from a stale cache, has settings that some version of the rule recorded, though edits
\* overlap; it ran the handlers of different rules, each after one that hands on.
RouteIsRecorded ==
  LET tried == ocRoute.tried IN
  /\ \A i \in 1..Len(ocRoute.list) : Setting(ocRoute.list[i].row) \in ocKnown[ocRoute.list[i].rule]
  /\ \A i, j \in 1..Len(tried) : i < j => /\ tried[i].rule # tried[j].rule
                                          /\ tried[i].row.policy = "fallback_next"
=============================================================================
