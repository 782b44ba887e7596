----------------------------- MODULE ModelRouting -----------------------------
(***************************************************************************)
(* Model providers, the registry of their models, and the calls that go    *)
(* through them: what a call resolves, the cached vector of a query, and   *)
(* the cost row that a call leaves in the transaction of its caller.       *)
(***************************************************************************)
EXTENDS Integers, FiniteSets

CONSTANTS
  MrProviders,  \* model providers
  MrModels,     \* names of models
  MrEntries,    \* ids of registry entries
  MrCalls,      \* calls
  MrMaxOps      \* bound: administration requests

ASSUME ModelAssumption == MrMaxOps \in Nat

VARIABLES
  mrProvider,   \* model_providers: none, active, inactive, gone
  mrEntry,      \* model_registry: the provider, model and switch of each entry; NoEntry: no row
  mrAgent,      \* an agent's binding: its entry, and the older pair of provider and model
  mrCache,      \* the cached vector of the query under each model name: the provider it is from
  mrCall,       \* the calls
  mrCost,       \* cost_records: pairs of a call and whether its transaction has committed
  mrOps

modelVars == <<mrProvider, mrEntry, mrAgent, mrCache, mrCall, mrCost, mrOps>>

Nobody  == "nobody"
NoEntry == [prov |-> Nobody, model |-> Nobody, enabled |-> FALSE]
CallKinds == {"chat", "embed", "rerank"}   \* chat_stream is a chat whose reader may leave: it fails
NoCall  == [pc |-> "idle", kind |-> "chat", entry |-> FALSE, asked |-> NoEntry, from |-> NoEntry]

ModelTypeOK ==
  /\ mrProvider \in [MrProviders -> {"none", "active", "inactive", "gone"}]
  /\ \A e \in MrEntries : mrEntry[e] = NoEntry \/ (mrEntry[e].prov \in MrProviders /\ mrEntry[e].model \in MrModels)
  /\ mrAgent.entry \in MrEntries \cup {Nobody} /\ mrAgent.prov \in MrProviders \cup {Nobody}
  /\ mrCache \in [MrModels -> [prov : MrProviders \cup {Nobody}, model : MrModels \cup {Nobody}, enabled : BOOLEAN]]
  /\ \A c \in MrCalls : mrCall[c].pc \in {"idle", "sent", "answered", "counted", "done", "failed"} /\ mrCall[c].kind \in CallKinds
  /\ mrCost \subseteq MrCalls \X BOOLEAN /\ mrOps \in 0..MrMaxOps

\* One provider was made before; the others can be.
ModelInit ==
  /\ \E p \in MrProviders : mrProvider = [q \in MrProviders |-> IF q = p THEN "active" ELSE "none"]
  /\ mrEntry = [e \in MrEntries |-> NoEntry]
  /\ mrAgent = [entry |-> Nobody, prov |-> Nobody, model |-> Nobody]
  /\ mrCache = [m \in MrModels |-> NoEntry]
  /\ mrCall = [c \in MrCalls |-> NoCall] /\ mrCost = {} /\ mrOps = 0

MrOp == mrOps < MrMaxOps /\ mrOps' = mrOps + 1
Exists(p) == p \in MrProviders /\ mrProvider[p] \in {"active", "inactive"}

-----------------------------------------------------------------------------
(***************************************************************************)
(* Administration.                                                         *)
(***************************************************************************)
CreateProvider(p) ==
  /\ MrOp /\ mrProvider[p] = "none" /\ mrProvider' = [mrProvider EXCEPT ![p] = "active"]
  /\ UNCHANGED <<mrEntry, mrAgent, mrCache, mrCall, mrCost>>

\* update_provider; the vectors its models made stay cached.
SwitchProvider(p) ==
  /\ MrOp /\ Exists(p)
  /\ mrProvider' = [mrProvider EXCEPT ![p] = IF @ = "active" THEN "inactive" ELSE "active"]
  /\ UNCHANGED <<mrEntry, mrAgent, mrCache, mrCall, mrCost>>

\* The foreign keys of cost rows and of agents' older pairs keep a provider; the delete
\* waits for a transaction that has added such a row.  Its registry entries go with it,
\* and agents lose their binding to those.
Referenced(p) == mrAgent.prov = p \/ \E x \in mrCost : mrCall[x[1]].from.prov = p
DropEntries(gone) ==
  /\ mrEntry' = [e \in MrEntries |-> IF e \in gone THEN NoEntry ELSE mrEntry[e]]
  /\ mrAgent' = [mrAgent EXCEPT !.entry = IF @ \in gone THEN Nobody ELSE @]
DeleteProvider(p) ==
  /\ MrOp /\ Exists(p) /\ ~Referenced(p)
  /\ mrProvider' = [mrProvider EXCEPT ![p] = "gone"]
  /\ DropEntries({e \in MrEntries : mrEntry[e].prov = p})
  /\ UNCHANGED <<mrCache, mrCall, mrCost>>

Free(p, m) == \A e \in MrEntries : ~(mrEntry[e].prov = p /\ mrEntry[e].model = m)   \* uq_provider_model
CreateEntry(e, p, m) ==
  /\ MrOp /\ mrEntry[e] = NoEntry /\ Exists(p) /\ Free(p, m)
  /\ mrEntry' = [mrEntry EXCEPT ![e] = [prov |-> p, model |-> m, enabled |-> TRUE]]
  /\ UNCHANGED <<mrProvider, mrAgent, mrCache, mrCall, mrCost>>

\* sync_registry adds the discovered models that have no entry, and removes none.
SyncRegistry(p, found) ==
  LET new == {m \in found : Free(p, m)} IN
  /\ MrOp /\ Exists(p) /\ new # {}
  /\ \E put \in [new -> {e \in MrEntries : mrEntry[e] = NoEntry}] :
       /\ \A m, n \in new : m # n => put[m] # put[n]
       /\ mrEntry' = [e \in MrEntries |-> IF \E m \in new : put[m] = e
                                            THEN [prov |-> p, model |-> CHOOSE m \in new : put[m] = e, enabled |-> TRUE]
                                            ELSE mrEntry[e]]
  /\ UNCHANGED <<mrProvider, mrAgent, mrCache, mrCall, mrCost>>

SwitchEntry(e) ==
  /\ MrOp /\ mrEntry[e] # NoEntry /\ mrEntry' = [mrEntry EXCEPT ![e].enabled = ~@]
  /\ UNCHANGED <<mrProvider, mrAgent, mrCache, mrCall, mrCost>>
DeleteEntry(e) ==
  /\ MrOp /\ mrEntry[e] # NoEntry /\ DropEntries({e})
  /\ UNCHANGED <<mrProvider, mrCache, mrCall, mrCost>>

\* create_agent takes the pair and drops the entry; update_agent sets either.
BindAgent(e, p, m) ==
  /\ MrOp /\ (IF e = Nobody THEN TRUE ELSE mrEntry[e] # NoEntry) /\ (IF p = Nobody THEN m = Nobody ELSE Exists(p) /\ m # Nobody)
  /\ mrAgent' = [entry |-> e, prov |-> p, model |-> m]
  /\ UNCHANGED <<mrProvider, mrEntry, mrCache, mrCall, mrCost>>

-----------------------------------------------------------------------------
(***************************************************************************)
(* Calls.                                                                  *)
(***************************************************************************)

\* resolve_model.
Resolves(e) == mrEntry[e] # NoEntry /\ mrEntry[e].enabled /\ mrProvider[mrEntry[e].prov] = "active"

Begin(c, kind, byEntry, target) ==
  mrCall' = [mrCall EXCEPT ![c] = [pc |-> "sent", kind |-> kind, entry |-> byEntry, asked |-> target, from |-> target]]
Refuse(c) == mrCall' = [mrCall EXCEPT ![c].pc = "failed"]

CallByEntry(c, kind, e) ==
  /\ mrCall[c].pc = "idle" /\ kind # "rerank"
  /\ IF Resolves(e) THEN Begin(c, kind, TRUE, mrEntry[e]) ELSE Refuse(c)
  /\ UNCHANGED <<mrProvider, mrEntry, mrAgent, mrCache, mrCost, mrOps>>

\* chat and chat_stream, rerank, and embed by provider ask for its row, not whether it is
\* active.
ByProvider(c, kind, p, m) ==
  /\ mrCall[c].pc = "idle"
  /\ IF Exists(p) THEN Begin(c, kind, FALSE, [prov |-> p, model |-> m, enabled |-> TRUE]) ELSE Refuse(c)
  /\ UNCHANGED <<mrProvider, mrEntry, mrAgent, mrCache, mrCost, mrOps>>
ChatByProvider(c, p, m)   == ByProvider(c, "chat", p, m)
RerankByProvider(c, p, m) == ByProvider(c, "rerank", p, m)

\* The vector of a single text may be cached, whichever provider made it.
EmbedCached(c, p, m) ==
  /\ mrCall[c].pc = "idle" /\ Exists(p) /\ mrCache[m] # NoEntry
  /\ mrCall' = [mrCall EXCEPT ![c] = [pc |-> "done", kind |-> "embed", entry |-> FALSE, from |-> mrCache[m],
                                      asked |-> [prov |-> p, model |-> m, enabled |-> TRUE]]]
  /\ UNCHANGED <<mrProvider, mrEntry, mrAgent, mrCache, mrCost, mrOps>>
EmbedByProvider(c, p, m) ==
  \/ EmbedCached(c, p, m)
  \/ ~(Exists(p) /\ mrCache[m] # NoEntry) /\ ByProvider(c, "embed", p, m)

\* chat_by_agent: the entry before the pair, and neither is an error.
CallByAgent(c) ==
  /\ mrCall[c].pc = "idle"
  /\ CASE mrAgent.entry # Nobody -> CallByEntry(c, "chat", mrAgent.entry)
       [] mrAgent.entry = Nobody /\ mrAgent.prov # Nobody -> ChatByProvider(c, mrAgent.prov, mrAgent.model)
       [] OTHER -> Refuse(c) /\ UNCHANGED <<mrProvider, mrEntry, mrAgent, mrCache, mrCost, mrOps>>

\* The service answers or fails; a stream may be left by its reader.
Finish(c) ==
  /\ mrCall[c].pc = "sent" /\ \E pc \in {"answered", "failed"} : mrCall' = [mrCall EXCEPT ![c].pc = pc]
  /\ UNCHANGED <<mrProvider, mrEntry, mrAgent, mrCache, mrCost, mrOps>>

\* _record_cost: a row in a savepoint, whose failure is swallowed.  embed_by_registry has
\* none and caches nothing.
KeyOfText(m) == MrModels    \* mutant: the key is the text alone
KeyOf(m)     == {m}
Priced(c) == ~(mrCall[c].kind = "embed" /\ mrCall[c].entry)
RecordCost(c) ==
  /\ mrCall[c].pc = "answered" /\ mrCall' = [mrCall EXCEPT ![c].pc = "counted"]
  /\ mrCost' = IF Priced(c) /\ Exists(mrCall[c].from.prov) THEN mrCost \cup {<<c, FALSE>>} ELSE mrCost
  /\ mrCache' = [m \in MrModels |-> IF mrCall[c].kind = "embed" /\ Priced(c) /\ m \in KeyOf(mrCall[c].from.model)
                                      THEN mrCall[c].from ELSE mrCache[m]]
  /\ UNCHANGED <<mrProvider, mrEntry, mrAgent, mrOps>>

\* The caller commits, or rolls back and with it the row.
EndCall(c, ok) ==
  /\ mrCall[c].pc = "counted"
  /\ mrCost' = (mrCost \ {<<c, FALSE>>}) \cup (IF ok /\ <<c, FALSE>> \in mrCost THEN {<<c, TRUE>>} ELSE {})
  /\ mrCall' = [mrCall EXCEPT ![c].pc = IF ok THEN "done" ELSE "failed"]
  /\ UNCHANGED <<mrProvider, mrEntry, mrAgent, mrCache, mrOps>>

\* A vector is cached for an hour.
ExpireVector(m) ==
  /\ mrCache[m] # NoEntry /\ mrCache' = [mrCache EXCEPT ![m] = NoEntry]
  /\ UNCHANGED <<mrProvider, mrEntry, mrAgent, mrCall, mrCost, mrOps>>

ModelNext ==
  \/ \E p \in MrProviders : \/ CreateProvider(p) \/ SwitchProvider(p) \/ DeleteProvider(p)
                            \/ \E found \in SUBSET MrModels : SyncRegistry(p, found)
                            \/ \E e \in MrEntries, m \in MrModels : CreateEntry(e, p, m)
  \/ \E e \in MrEntries : SwitchEntry(e) \/ DeleteEntry(e)
  \/ \E e \in MrEntries \cup {Nobody}, p \in MrProviders \cup {Nobody}, m \in MrModels \cup {Nobody} : BindAgent(e, p, m)
  \/ \E c \in MrCalls : \/ Finish(c) \/ RecordCost(c) \/ CallByAgent(c)
                        \/ \E ok \in BOOLEAN : EndCall(c, ok)
                        \/ \E kind \in CallKinds, e \in MrEntries : CallByEntry(c, kind, e)
                        \/ \E p \in MrProviders, m \in MrModels :
                             ChatByProvider(c, p, m) \/ RerankByProvider(c, p, m) \/ EmbedByProvider(c, p, m)
  \/ \E m \in MrModels : ExpireVector(m)
ModelSpec == ModelInit /\ [][ModelNext]_modelVars

-----------------------------------------------------------------------------
\* What a call hands back, its own answer or a cached one, is of the model it was asked
\* for, whatever became of the entry meanwhile; and every cost row is of a call that had
\* its answer, and still has its provider.
AnswersOfTheirModel ==
  /\ \A c \in MrCalls : mrCall[c].from.model = mrCall[c].asked.model
  /\ \A x \in mrCost : Exists(mrCall[x[1]].from.prov) /\ mrCall[x[1]].pc \in {"counted", "done"}
=============================================================================
