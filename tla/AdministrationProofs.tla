-------------------------- MODULE AdministrationProofs --------------------------
(***************************************************************************)
(* Theorems about what administrators set: the runtime configuration, the  *)
(* models and providers, the accounts and departments, the MCP servers.    *)
(* Each holds for every size of the constants and for runs of any length.  *)
(***************************************************************************)
EXTENDS RuntimeConfig, ModelRouting, Accounts, Departments, McpServers,
        FiniteSetTheorems, SequenceTheorems, NaturalsInduction, TLAPS

-----------------------------------------------------------------------------
(****************************************************************************
 Runtime configuration: how stale a setting may be.
 ****************************************************************************)

\* The clock, and the former contents of the row with the times they were replaced.
RowHistory ==
  /\ rcNow \in 0..RcLastTime
  /\ rcEnd \in Seq(Nat) /\ rcRow.number = Len(rcEnd) + 1

\* A content read at the time ts or later was committed then or later.
ReadSince(row, ts) ==
  /\ ts \in Nat /\ ts <= rcNow
  /\ row \in {Failed} \cup 1..rcRow.number
  /\ row \in 1..Len(rcEnd) => ts <= rcEnd[row]

\* A cache and a read are dated to a time before the row was read.
ConfigInv ==
  /\ RowHistory
  /\ rcCache \in [RcProcs -> [on : BOOLEAN, row : Int, ts : Int]]
  /\ rcReader \in [RcProcs -> [pc : {"idle", "read", "store"}, row : Int, ts : Int]]
  /\ \A p \in RcProcs : rcCache[p].on => ReadSince(rcCache[p].row, rcCache[p].ts)
  /\ \A p \in RcProcs : rcReader[p].pc = "read" => rcReader[p].ts \in Nat /\ rcReader[p].ts <= rcNow
  /\ \A p \in RcProcs : rcReader[p].pc = "store" => ReadSince(rcReader[p].row, rcReader[p].ts)

\* Initially nothing is cached.
LEMMA ConfigStart == ConfigInit => ConfigInv
  BY RuntimeAssumption DEF ConfigInit, ConfigInv, RowHistory, NoCache, NoReader

\* A step that leaves the row and the clock alone keeps what is known of a read.
LEMMA SameRow ==
  ASSUME UNCHANGED <<rcNow, rcRow, rcEnd>>, NEW row, NEW ts, ReadSince(row, ts)
  PROVE  ReadSince(row, ts)'
  BY DEF ReadSince

\* The clock goes on and former contents are only added to: what was read stays dated.
LEMMA LaterRow ==
  ASSUME RowHistory, NEW row, NEW ts, ReadSince(row, ts),
         \/ rcNow' = rcNow + 1 /\ UNCHANGED <<rcRow, rcEnd>>
         \/ rcNow' = rcNow /\ rcEnd' = Append(rcEnd, rcNow) /\ rcRow'.number = rcRow.number + 1
  PROVE  ReadSince(row, ts)'
<1>1. CASE rcNow' = rcNow + 1 /\ UNCHANGED <<rcRow, rcEnd>>
  BY <1>1, RuntimeAssumption DEF ReadSince, RowHistory
<1>2. CASE rcNow' = rcNow /\ rcEnd' = Append(rcEnd, rcNow) /\ rcRow'.number = rcRow.number + 1
  <2>1. rcEnd \in Seq(Nat) /\ rcNow \in Nat /\ rcRow.number = Len(rcEnd) + 1 /\ Len(rcEnd) \in Nat
    BY RuntimeAssumption DEF RowHistory
  <2>2. /\ Len(rcEnd') = Len(rcEnd) + 1 /\ rcEnd'[Len(rcEnd) + 1] = rcNow
        /\ \A i \in 1..Len(rcEnd) : rcEnd'[i] = rcEnd[i]
    BY <1>2, <2>1
  <2>3. row \in {Failed} \cup 1..rcRow'.number
    BY <1>2, <2>1 DEF ReadSince
  <2>4. ASSUME row \in 1..(Len(rcEnd) + 1) PROVE ts <= rcEnd'[row]
    <3>1. CASE row = Len(rcEnd) + 1
      BY <1>2, <2>2, <3>1 DEF ReadSince
    <3>2. CASE row \in 1..Len(rcEnd)
      BY <2>2, <3>2 DEF ReadSince
    <3> QED
      BY <2>1, <2>4, <3>1, <3>2
  <2> QED
    BY <1>2, <2>2, <2>3, <2>4 DEF ReadSince
<1> QED
  BY <1>1, <1>2

\* Every step keeps the dates.
LEMMA ConfigStep == ConfigInv /\ [ConfigNext]_configVars => ConfigInv'
<1> SUFFICES ASSUME ConfigInv, [ConfigNext]_configVars PROVE ConfigInv'
  OBVIOUS
<1> USE RuntimeAssumption DEF ConfigInv
<1>1. ASSUME NEW p \in RcProcs, OpenConfigRead(p) PROVE ConfigInv'
  BY <1>1 DEF OpenConfigRead, RowHistory, ReadSince
<1>2. ASSUME NEW p \in RcProcs, ReadSettings(p) PROVE ConfigInv'
  <2>1. PICK row \in {rcRow.number, Failed} :
          rcReader' = [rcReader EXCEPT ![p].pc = "store", ![p].row = row]
    BY <1>2 DEF ReadSettings
  <2>2. /\ rcReader[p].pc = "read"
        /\ UNCHANGED <<rcNow, rcRow, rcEnd, rcCache>>
    BY <1>2 DEF ReadSettings
  <2>3. ReadSince(row, rcReader[p].ts) /\ row \in Int
    BY <2>2 DEF ReadSince, RowHistory, Failed
  <2> QED
    BY <2>1, <2>2, <2>3 DEF RowHistory, ReadSince
<1>3. ASSUME NEW p \in RcProcs, StoreConfigRead(p) PROVE ConfigInv'
  BY <1>3 DEF StoreConfigRead, CacheDate, NoReader, RowHistory, ReadSince
<1>4. ASSUME NEW u \in RcUpdates, ReadForUpdate(u) PROVE ConfigInv'
  BY <1>4 DEF ReadForUpdate, RowHistory, ReadSince
<1>5. ASSUME NEW u \in RcUpdates, NEW p \in RcProcs, FlushUpdate(u, p) PROVE ConfigInv'
  BY <1>5 DEF FlushUpdate, NoCache, RowHistory, ReadSince
<1>6. ASSUME NEW u \in RcUpdates, CommitUpdate(u) PROVE ConfigInv'
  <2>1. /\ rcNow' = rcNow /\ rcEnd' = Append(rcEnd, rcNow) /\ rcRow'.number = rcRow.number + 1
        /\ rcCache' = rcCache /\ rcReader' = rcReader
    BY <1>6 DEF CommitUpdate
  <2>2. RowHistory'
    BY <2>1 DEF RowHistory
  <2> QED
    BY <2>1, <2>2, LaterRow
<1>7. ASSUME NEW u \in RcUpdates, RollbackUpdate(u) PROVE ConfigInv'
  BY <1>7 DEF RollbackUpdate, RowHistory, ReadSince
<1>8. ASSUME NEW p \in RcProcs, TakeMessage(p) PROVE ConfigInv'
  BY <1>8 DEF TakeMessage, NoCache, RowHistory, ReadSince
<1>9. ASSUME NEW p \in RcProcs, Disconnect(p) \/ Reconnect(p) PROVE ConfigInv'
  BY <1>9 DEF Disconnect, Reconnect, RowHistory, ReadSince
<1>10. CASE ConfigTick
  <2>1. /\ rcNow' = rcNow + 1 /\ rcNow < RcLastTime
        /\ UNCHANGED <<rcRow, rcEnd, rcCache, rcReader>>
    BY <1>10 DEF ConfigTick
  <2>2. RowHistory'
    BY <2>1 DEF RowHistory
  <2> QED
    BY <2>1, <2>2, LaterRow DEF RowHistory
<1>11. CASE UNCHANGED configVars
  BY <1>11 DEF configVars, RowHistory, ReadSince
<1>12. CASE ConfigNext
  BY <1>1, <1>2, <1>3, <1>4, <1>5, <1>6, <1>7, <1>8, <1>9, <1>10, <1>12 DEF ConfigNext
<1> QED
  BY <1>11, <1>12

\* However messages are lost and reads overlap updates, what a process serves was in the
\* row less than RcTTL ago.
THEOREM SettingsServedWithinTTL == ConfigSpec => []ServedWithinTTL
<1>1. ConfigInv => ServedWithinTTL
  <2> SUFFICES ASSUME ConfigInv, NEW p \in RcProcs, Fresh(p),
                      rcCache[p].row \notin {Failed, rcRow.number}
               PROVE  rcNow - rcEnd[rcCache[p].row] < RcTTL
    BY DEF ServedWithinTTL
  <2>1. ReadSince(rcCache[p].row, rcCache[p].ts) /\ rcNow - rcCache[p].ts < RcTTL
    BY DEF Fresh, ConfigInv
  <2>2. rcCache[p].row \in 1..Len(rcEnd)
    BY <2>1 DEF ReadSince, ConfigInv, RowHistory
  <2>3. /\ rcCache[p].ts <= rcEnd[rcCache[p].row] /\ rcCache[p].ts \in Nat
        /\ rcEnd[rcCache[p].row] \in Nat /\ rcNow \in Nat
    BY <2>1, <2>2, RuntimeAssumption DEF ReadSince, ConfigInv, RowHistory
  <2> QED
    BY <2>1, <2>3, RuntimeAssumption
<1> QED
  BY <1>1, ConfigStart, ConfigStep, PTL DEF ConfigSpec

\* Every step keeps every variable of the runtime configuration in its type.
LEMMA ConfigTypes == ConfigSpec => []ConfigTypeOK
<1>1. ConfigInit => ConfigTypeOK
  BY RuntimeAssumption DEF ConfigInit, ConfigTypeOK, NoCache, NoReader, NoUpdate, Writers, Settings, Failed
<1>2. ConfigTypeOK /\ [ConfigNext]_configVars => ConfigTypeOK'
  <2> SUFFICES ASSUME ConfigTypeOK, [ConfigNext]_configVars PROVE ConfigTypeOK'
    OBVIOUS
  <2> USE RuntimeAssumption DEF ConfigTypeOK
  <2>0. rcNow \in 0..rcNow /\ 0 \in 0..rcNow /\ rcRow.number \in Nat /\ {0, Failed, rcRow.number} \subseteq Failed..rcRow.number
    BY DEF Failed
  <2>1. ASSUME NEW p \in RcProcs, OpenConfigRead(p) PROVE ConfigTypeOK'
    BY <2>0, <2>1 DEF OpenConfigRead
  <2>2. ASSUME NEW p \in RcProcs, ReadSettings(p) PROVE ConfigTypeOK'
    <3>1. PICK row \in {rcRow.number, Failed} : rcReader' = [rcReader EXCEPT ![p].pc = "store", ![p].row = row]
      BY <2>2 DEF ReadSettings
    <3>2. UNCHANGED <<rcNow, rcRow, rcEnd, rcCache, rcSub, rcMsg, rcUpd>>
      BY <2>2 DEF ReadSettings
    <3>3. row \in Failed..rcRow.number
      BY <2>0, <3>1
    <3>4. rcReader' \in [RcProcs -> [pc : {"idle", "read", "store"}, row : Failed..rcRow.number, ts : 0..rcNow]]
      BY <3>1, <3>3
    <3> QED
      BY <3>2, <3>4
  <2>3. ASSUME NEW p \in RcProcs, StoreConfigRead(p) PROVE ConfigTypeOK'
    BY <2>0, <2>3 DEF StoreConfigRead, CacheDate, NoReader
  <2>4. ASSUME NEW u \in RcUpdates, ReadForUpdate(u) PROVE ConfigTypeOK'
    BY <2>4 DEF ReadForUpdate
  <2>5. ASSUME NEW u \in RcUpdates, NEW p \in RcProcs, FlushUpdate(u, p) PROVE ConfigTypeOK'
    BY <2>0, <2>5 DEF FlushUpdate, NoCache
  <2>6. ASSUME NEW u \in RcUpdates, CommitUpdate(u) PROVE ConfigTypeOK'
    <3>1. MergedWith(u) \in Settings
      BY DEF MergedWith, Settings, Writers
    <3>2. /\ rcRow' = [number |-> rcRow.number + 1, of |-> MergedWith(u)] /\ rcEnd' = Append(rcEnd, rcNow)
          /\ rcUpd' = [rcUpd EXCEPT ![u].pc = "done"] /\ UNCHANGED <<rcNow, rcCache, rcReader, rcSub, rcMsg>>
      BY <2>6 DEF CommitUpdate
    <3>3. rcEnd' \in Seq(0..rcNow) /\ Len(rcEnd') = Len(rcEnd) + 1
      BY <3>2
    <3>4. /\ rcRow' \in [number : Nat, of : Settings] /\ rcRow'.number = rcRow.number + 1
          /\ Failed..rcRow.number \subseteq Failed..rcRow'.number
      BY <3>1, <3>2 DEF Failed
    <3>5. rcCache' \in [RcProcs -> [on : BOOLEAN, row : Failed..rcRow'.number, ts : 0..rcNow]]
      BY <3>2, <3>4
    <3>6. rcReader' \in [RcProcs -> [pc : {"idle", "read", "store"}, row : Failed..rcRow'.number, ts : 0..rcNow]]
      BY <3>2, <3>4
    <3>7. rcUpd' \in [RcUpdates -> [pc : {"idle", "read", "flushed", "done"}, section : RcSections, base : Settings]]
      BY <3>2
    <3>8. rcEnd' \in Seq(0..rcNow') /\ Len(rcEnd') = rcRow'.number - 1
      BY <3>2, <3>3, <3>4
    <3> QED
      BY <3>2, <3>4, <3>5, <3>6, <3>7, <3>8
  <2>7. ASSUME NEW u \in RcUpdates, RollbackUpdate(u) PROVE ConfigTypeOK'
    BY <2>7 DEF RollbackUpdate
  <2>8. ASSUME NEW p \in RcProcs, TakeMessage(p) PROVE ConfigTypeOK'
    BY <2>0, <2>8 DEF TakeMessage, NoCache
  <2>9. ASSUME NEW p \in RcProcs, Disconnect(p) \/ Reconnect(p) PROVE ConfigTypeOK'
    BY <2>9 DEF Disconnect, Reconnect
  <2>10. CASE ConfigTick
    <3>1. rcNow' = rcNow + 1 /\ rcNow < RcLastTime /\ UNCHANGED <<rcRow, rcEnd, rcCache, rcReader, rcSub, rcMsg, rcUpd>>
      BY <2>10 DEF ConfigTick
    <3>2. 0..rcNow \subseteq 0..(rcNow + 1) /\ rcNow + 1 \in 0..RcLastTime
      BY <3>1
    <3> QED
      BY <3>1, <3>2
  <2>11. CASE UNCHANGED configVars
    BY <2>11 DEF configVars
  <2> QED
    BY <2>1, <2>2, <2>3, <2>4, <2>5, <2>6, <2>7, <2>8, <2>9, <2>10, <2>11 DEF ConfigNext
<1> QED
  BY <1>1, <1>2, PTL DEF ConfigSpec

-----------------------------------------------------------------------------
(****************************************************************************
 Models: whose answer a call hands back, and which cost rows stand.
 ****************************************************************************)

\* What a call is sent to.
Target == [prov : MrProviders \cup {Nobody}, model : MrModels \cup {Nobody}, enabled : BOOLEAN]
CallSteps == {"idle", "sent", "answered", "counted", "done", "failed"}

RoutingTypes ==
  /\ mrEntry \in [MrEntries -> Target]
  /\ mrAgent \in [entry : MrEntries \cup {Nobody}, prov : MrProviders \cup {Nobody}, model : MrModels \cup {Nobody}]
  /\ mrProvider \in [MrProviders -> {"none", "active", "inactive", "gone"}]
  /\ mrCache \in [MrModels -> Target]
  /\ mrCall \in [MrCalls -> [pc : CallSteps, kind : CallKinds, entry : BOOLEAN, asked : Target, from : Target]]
  /\ mrCost \subseteq MrCalls \X BOOLEAN

\* A cached vector is of the model it is cached under.
CacheOfModel == \A m \in MrModels : mrCache[m] # NoEntry => mrCache[m].model = m

CallsOfModel == \A c \in MrCalls : mrCall[c].from.model = mrCall[c].asked.model

\* A cost row that has not committed is of a call that has not ended.
CostOfCall == \A x \in mrCost : mrCall[x[1]].pc = (IF x[2] THEN "done" ELSE "counted")
CostHasProvider == \A x \in mrCost : Exists(mrCall[x[1]].from.prov)

RoutingInv == RoutingTypes /\ CacheOfModel /\ CallsOfModel /\ CostOfCall /\ CostHasProvider

\* Nothing is cached or called at first.
LEMMA RoutingStart == ModelInit => RoutingInv
<1> SUFFICES ASSUME ModelInit PROVE RoutingInv
  OBVIOUS
<1>1. NoEntry \in Target
  BY DEF NoEntry, Target
<1>2. NoCall \in [pc : CallSteps, kind : CallKinds, entry : BOOLEAN, asked : Target, from : Target]
  BY <1>1 DEF NoCall, CallSteps, CallKinds
<1>3. RoutingTypes
  BY <1>1, <1>2 DEF ModelInit, RoutingTypes
<1>4. CacheOfModel /\ CallsOfModel /\ CostOfCall /\ CostHasProvider
  BY DEF ModelInit, CacheOfModel, CallsOfModel, CostOfCall, CostHasProvider, NoCall
<1> QED
  BY <1>3, <1>4 DEF RoutingInv

\* A step of the administration touches no call: what remains to be seen is that no
\* provider of a cost row goes.
LEMMA AdminStep ==
  ASSUME RoutingInv, UNCHANGED <<mrCache, mrCall, mrCost>>,
         mrEntry' \in [MrEntries -> Target],
         mrAgent' \in [entry : MrEntries \cup {Nobody}, prov : MrProviders \cup {Nobody}, model : MrModels \cup {Nobody}],
         mrProvider' \in [MrProviders -> {"none", "active", "inactive", "gone"}],
         \A p \in MrProviders : Exists(p) => Exists(p)' \/ ~Referenced(p)
  PROVE  RoutingInv'
<1>1. RoutingTypes'
  BY DEF RoutingInv, RoutingTypes
<1>2. CacheOfModel' /\ CallsOfModel' /\ CostOfCall'
  BY DEF RoutingInv, CacheOfModel, CallsOfModel, CostOfCall
<1>3. CostHasProvider'
  <2> SUFFICES ASSUME NEW x \in mrCost PROVE Exists(mrCall[x[1]].from.prov)'
    BY DEF CostHasProvider
  <2>1. Exists(mrCall[x[1]].from.prov) /\ Referenced(mrCall[x[1]].from.prov)
    BY DEF RoutingInv, CostHasProvider, Referenced
  <2>2. Exists(mrCall[x[1]].from.prov) => mrCall[x[1]].from.prov \in MrProviders
    BY DEF Exists
  <2>3. \A p \in MrProviders : Exists(p) /\ Referenced(p) => p \in MrProviders /\ mrProvider'[p] \in {"active", "inactive"}
    BY DEF Exists
  <2> QED
    BY <2>1, <2>2, <2>3 DEF Exists
<1> QED
  BY <1>1, <1>2, <1>3 DEF RoutingInv

\* A call with a cost row keeps its step and its provider, so every other call may move.
LEMMA CallStep ==
  ASSUME RoutingInv, NEW c \in MrCalls, NEW r,
         r \in [pc : CallSteps, kind : CallKinds, entry : BOOLEAN, asked : Target, from : Target],
         r.from.model = r.asked.model,
         mrCall[c].pc \notin {"counted", "done"},
         mrCall' = [mrCall EXCEPT ![c] = r],
         UNCHANGED <<mrProvider, mrEntry, mrAgent, mrCache, mrCost>>
  PROVE  RoutingInv'
<1>1. RoutingTypes'
  BY DEF RoutingInv, RoutingTypes
<1>2. CacheOfModel'
  BY DEF RoutingInv, CacheOfModel
<1>3. CallsOfModel'
  BY DEF RoutingInv, RoutingTypes, CallsOfModel
<1>4. \A x \in mrCost : x[1] \in MrCalls /\ x[1] # c
  BY DEF RoutingInv, RoutingTypes, CostOfCall
<1>5. \A x \in mrCost : mrCall'[x[1]] = mrCall[x[1]]
  BY <1>4 DEF RoutingInv, RoutingTypes
<1>6. CostOfCall'
  BY <1>5 DEF RoutingInv, CostOfCall
<1>7. CostHasProvider'
  BY <1>5 DEF RoutingInv, CostHasProvider, Exists
<1> QED
  BY <1>1, <1>2, <1>3, <1>6, <1>7 DEF RoutingInv

\* A call that is refused, or that begins with what it was asked for.
LEMMA BeginOrRefuse ==
  ASSUME RoutingInv, NEW c \in MrCalls, mrCall[c].pc = "idle",
         NEW kind \in CallKinds, NEW byEntry \in BOOLEAN, NEW target \in Target,
         Begin(c, kind, byEntry, target) \/ Refuse(c),
         UNCHANGED <<mrProvider, mrEntry, mrAgent, mrCache, mrCost>>
  PROVE  RoutingInv'
<1>1. CASE Begin(c, kind, byEntry, target)
  <2> DEFINE r == [pc |-> "sent", kind |-> kind, entry |-> byEntry, asked |-> target, from |-> target]
  <2>1. r \in [pc : CallSteps, kind : CallKinds, entry : BOOLEAN, asked : Target, from : Target]
    BY DEF CallSteps
  <2>2. r.from.model = r.asked.model /\ mrCall' = [mrCall EXCEPT ![c] = r]
    BY <1>1 DEF Begin
  <2> HIDE DEF r
  <2> QED
    BY <2>1, <2>2, CallStep
<1>2. CASE Refuse(c)
  <2> DEFINE r == [mrCall[c] EXCEPT !.pc = "failed"]
  <2>1. /\ r \in [pc : CallSteps, kind : CallKinds, entry : BOOLEAN, asked : Target, from : Target]
        /\ r.from.model = r.asked.model /\ mrCall' = [mrCall EXCEPT ![c] = r]
    BY <1>2 DEF Refuse, RoutingInv, RoutingTypes, CallsOfModel, CallSteps
  <2> HIDE DEF r
  <2> QED
    BY <2>1, CallStep
<1> QED
  BY <1>1, <1>2

\* A call by the name of an entry.
LEMMA EntryCalls ==
  ASSUME RoutingInv, NEW c \in MrCalls, NEW kind \in CallKinds, NEW e \in MrEntries, CallByEntry(c, kind, e)
  PROVE  RoutingInv'
<1>1. mrEntry[e] \in Target /\ TRUE \in BOOLEAN
  BY DEF RoutingInv, RoutingTypes
<1> QED
  BY <1>1, BeginOrRefuse DEF CallByEntry

\* A call by a provider and the name of a model.
LEMMA ProviderCalls ==
  ASSUME RoutingInv, NEW c \in MrCalls, NEW kind \in CallKinds, NEW p, NEW m \in MrModels \cup {Nobody},
         p \in MrProviders \cup {Nobody}, ByProvider(c, kind, p, m)
  PROVE  RoutingInv'
<1>1. [prov |-> p, model |-> m, enabled |-> TRUE] \in Target /\ FALSE \in BOOLEAN
  BY DEF Target
<1> QED
  BY <1>1, BeginOrRefuse DEF ByProvider

\* A cached vector answers for its model.
LEMMA CachedCalls ==
  ASSUME RoutingInv, NEW c \in MrCalls, NEW p \in MrProviders, NEW m \in MrModels, EmbedCached(c, p, m)
  PROVE  RoutingInv'
<1> DEFINE r == [pc |-> "done", kind |-> "embed", entry |-> FALSE, from |-> mrCache[m],
                 asked |-> [prov |-> p, model |-> m, enabled |-> TRUE]]
<1>1. r \in [pc : CallSteps, kind : CallKinds, entry : BOOLEAN, asked : Target, from : Target]
  BY DEF RoutingInv, RoutingTypes, Target, CallSteps, CallKinds
<1>2. r.from.model = r.asked.model
  BY DEF RoutingInv, CacheOfModel, EmbedCached
<1>3. mrCall[c].pc = "idle" /\ mrCall' = [mrCall EXCEPT ![c] = r]
  BY DEF EmbedCached
<1>4. UNCHANGED <<mrProvider, mrEntry, mrAgent, mrCache, mrCost>>
  BY DEF EmbedCached
<1> HIDE DEF r
<1> QED
  BY <1>1, <1>2, <1>3, <1>4, CallStep

\* The agent's binding decides between the two.
LEMMA AgentCalls ==
  ASSUME RoutingInv, NEW c \in MrCalls, CallByAgent(c)
  PROVE  RoutingInv'
<1>1. mrCall[c].pc = "idle" /\ "chat" \in CallKinds
  BY DEF CallByAgent, CallKinds
<1>2. /\ mrAgent.entry \in MrEntries \cup {Nobody}
      /\ mrAgent.prov \in MrProviders \cup {Nobody} /\ mrAgent.model \in MrModels \cup {Nobody}
  BY DEF RoutingInv, RoutingTypes
<1>3. CASE mrAgent.entry # Nobody
  <2>1. CallByEntry(c, "chat", mrAgent.entry) /\ mrAgent.entry \in MrEntries
    BY <1>2, <1>3 DEF CallByAgent
  <2> QED
    BY <1>1, <2>1, EntryCalls
<1>4. CASE mrAgent.entry = Nobody /\ mrAgent.prov # Nobody
  <2>1. ByProvider(c, "chat", mrAgent.prov, mrAgent.model)
    BY <1>4 DEF CallByAgent, ChatByProvider
  <2> QED
    BY <1>1, <1>2, <2>1, ProviderCalls
<1>5. CASE mrAgent.entry = Nobody /\ mrAgent.prov = Nobody
  <2>1. Refuse(c) /\ UNCHANGED <<mrProvider, mrEntry, mrAgent, mrCache, mrCost>>
    BY <1>5 DEF CallByAgent
  <2>2. NoEntry \in Target /\ TRUE \in BOOLEAN
    BY DEF NoEntry, Target
  <2> QED
    BY <1>1, <2>1, <2>2, BeginOrRefuse
<1> QED
  BY <1>3, <1>4, <1>5

\* The service answers or fails.
LEMMA FinishedCalls ==
  ASSUME RoutingInv, NEW c \in MrCalls, Finish(c)
  PROVE  RoutingInv'
<1>1. PICK pc \in {"answered", "failed"} : mrCall' = [mrCall EXCEPT ![c].pc = pc]
  BY DEF Finish
<1> DEFINE r == [mrCall[c] EXCEPT !.pc = pc]
<1>2. /\ r \in [pc : CallSteps, kind : CallKinds, entry : BOOLEAN, asked : Target, from : Target]
      /\ r.from.model = r.asked.model /\ mrCall' = [mrCall EXCEPT ![c] = r]
  BY <1>1 DEF RoutingInv, RoutingTypes, CallsOfModel, CallSteps
<1>3. /\ mrCall[c].pc \notin {"counted", "done"}
      /\ UNCHANGED <<mrProvider, mrEntry, mrAgent, mrCache, mrCost>>
  BY DEF Finish
<1> HIDE DEF r
<1> QED
  BY <1>2, <1>3, CallStep

\* What a step of one call leaves alone.
LEMMA OneCall ==
  ASSUME RoutingInv, NEW c \in MrCalls, NEW pc \in CallSteps, mrCall' = [mrCall EXCEPT ![c].pc = pc]
  PROVE  /\ mrCall' \in [MrCalls -> [pc : CallSteps, kind : CallKinds, entry : BOOLEAN, asked : Target, from : Target]]
         /\ CallsOfModel' /\ mrCall'[c].pc = pc
         /\ \A d \in MrCalls : mrCall'[d].from = mrCall[d].from /\ (d # c => mrCall'[d] = mrCall[d])
  BY DEF RoutingInv, RoutingTypes, CallsOfModel

\* The row of the cost and the vector in the cache are those of the call that answered.
LEMMA RecordedCalls ==
  ASSUME RoutingInv, NEW c \in MrCalls, RecordCost(c)
  PROVE  RoutingInv'
<1>1. /\ mrCall[c].pc = "answered" /\ mrCall' = [mrCall EXCEPT ![c].pc = "counted"]
      /\ mrCost' = mrCost \/ (mrCost' = mrCost \cup {<<c, FALSE>>} /\ Exists(mrCall[c].from.prov))
      /\ UNCHANGED <<mrProvider, mrEntry, mrAgent, mrOps>>
  BY DEF RecordCost
<1>2. \A m \in MrModels : mrCache'[m] = mrCache[m] \/ (m = mrCall[c].from.model /\ mrCache'[m] = mrCall[c].from)
  BY DEF RecordCost, KeyOf
<1>3. "counted" \in CallSteps
  BY DEF CallSteps
<1>4. /\ mrCall' \in [MrCalls -> [pc : CallSteps, kind : CallKinds, entry : BOOLEAN, asked : Target, from : Target]]
      /\ CallsOfModel' /\ mrCall'[c].pc = "counted"
      /\ \A d \in MrCalls : mrCall'[d].from = mrCall[d].from /\ (d # c => mrCall'[d] = mrCall[d])
  BY <1>1, <1>3, OneCall
<1>5. mrCache' \in [MrModels -> Target]
  <2>1. mrCall[c].from \in Target /\ \A m \in MrModels : mrCache[m] \in Target
    BY DEF RoutingInv, RoutingTypes
  <2> QED
    BY <2>1 DEF RecordCost
<1>6. mrCost' \subseteq MrCalls \X BOOLEAN /\ \A x \in mrCost' : x \in mrCost \/ x = <<c, FALSE>>
  <2>1. <<c, FALSE>> \in MrCalls \X BOOLEAN /\ mrCost \subseteq MrCalls \X BOOLEAN
    BY DEF RoutingInv, RoutingTypes
  <2> QED
    BY <1>1, <2>1
<1>7. RoutingTypes'
  BY <1>1, <1>4, <1>5, <1>6 DEF RoutingInv, RoutingTypes
<1>8. CacheOfModel'
  BY <1>2 DEF RoutingInv, CacheOfModel
<1>9. \A x \in mrCost : x[1] \in MrCalls /\ x[1] # c
  BY <1>1 DEF RoutingInv, RoutingTypes, CostOfCall
<1>10. CostOfCall'
  <2> SUFFICES ASSUME NEW x \in mrCost' PROVE mrCall'[x[1]].pc = (IF x[2] THEN "done" ELSE "counted")
    BY DEF CostOfCall
  <2>1. CASE x \in mrCost
    BY <1>4, <1>9, <2>1 DEF RoutingInv, CostOfCall
  <2>2. CASE x = <<c, FALSE>>
    BY <1>4, <2>2
  <2> QED
    BY <1>6, <2>1, <2>2
<1>11. CostHasProvider'
  <2> SUFFICES ASSUME NEW x \in mrCost' PROVE Exists(mrCall[x[1]].from.prov)'
    BY DEF CostHasProvider
  <2>1. Exists(mrCall[x[1]].from.prov) /\ x[1] \in MrCalls
    <3>1. CASE x \in mrCost
      BY <1>9, <3>1 DEF RoutingInv, CostHasProvider
    <3>2. CASE x = <<c, FALSE>> /\ x \notin mrCost
      <4>1. Exists(mrCall[c].from.prov)
        BY <1>1, <3>2
      <4>2. x[1] = c
        BY <3>2
      <4> QED
        BY <4>1, <4>2
    <3> QED
      BY <1>6, <3>1, <3>2
  <2> QED
    BY <1>1, <1>4, <2>1 DEF Exists
<1> QED
  BY <1>4, <1>7, <1>8, <1>10, <1>11 DEF RoutingInv

\* A commit keeps the row of the call, a rollback takes it along.
LEMMA EndedCalls ==
  ASSUME RoutingInv, NEW c \in MrCalls, NEW ok \in BOOLEAN, EndCall(c, ok)
  PROVE  RoutingInv'
<1> DEFINE pc == IF ok THEN "done" ELSE "failed"
<1>1. /\ mrCall[c].pc = "counted" /\ mrCall' = [mrCall EXCEPT ![c].pc = pc]
      /\ UNCHANGED <<mrProvider, mrEntry, mrAgent, mrCache, mrOps>>
  BY DEF EndCall
<1>2. pc \in CallSteps
  BY DEF CallSteps
<1>3. /\ mrCall' \in [MrCalls -> [pc : CallSteps, kind : CallKinds, entry : BOOLEAN, asked : Target, from : Target]]
      /\ CallsOfModel' /\ mrCall'[c].pc = pc
      /\ \A d \in MrCalls : mrCall'[d].from = mrCall[d].from /\ (d # c => mrCall'[d] = mrCall[d])
  <2> HIDE DEF pc
  <2> QED
    BY <1>1, <1>2, OneCall
<1>4. \A x \in mrCost : x \in MrCalls \X BOOLEAN /\ (x[1] = c => x = <<c, FALSE>>)
  <2> SUFFICES ASSUME NEW x \in mrCost PROVE x \in MrCalls \X BOOLEAN /\ (x[1] = c => x = <<c, FALSE>>)
    OBVIOUS
  <2>1. x \in MrCalls \X BOOLEAN
    BY DEF RoutingInv, RoutingTypes
  <2>2. PICK d \in MrCalls, b \in BOOLEAN : x = <<d, b>>
    BY <2>1
  <2>3. mrCall[d].pc = (IF b THEN "done" ELSE "counted")
    BY <2>2 DEF RoutingInv, CostOfCall
  <2>4. d = c => b = FALSE
    BY <1>1, <2>3
  <2> QED
    BY <2>1, <2>2, <2>4
<1>5. \A x \in mrCost' : (x \in mrCost /\ x[1] # c) \/ (ok /\ x = <<c, TRUE>> /\ <<c, FALSE>> \in mrCost)
  BY <1>4 DEF EndCall
<1>6. RoutingTypes'
  <2>1. mrCost' \subseteq MrCalls \X BOOLEAN
    <3>1. <<c, TRUE>> \in MrCalls \X BOOLEAN
      OBVIOUS
    <3> QED
      BY <1>4, <1>5, <3>1
  <2> QED
    BY <1>1, <1>3, <2>1 DEF RoutingInv, RoutingTypes
<1>7. CacheOfModel'
  BY <1>1 DEF RoutingInv, CacheOfModel
<1>8. \A x \in mrCost : x[1] \in MrCalls
  BY <1>4
<1>9. CostOfCall'
  <2> SUFFICES ASSUME NEW x \in mrCost' PROVE mrCall'[x[1]].pc = (IF x[2] THEN "done" ELSE "counted")
    BY DEF CostOfCall
  <2>1. CASE x \in mrCost /\ x[1] # c
    BY <1>3, <1>8, <2>1 DEF RoutingInv, CostOfCall
  <2>2. CASE ok /\ x = <<c, TRUE>>
    BY <1>3, <2>2
  <2> QED
    BY <1>5, <2>1, <2>2
<1>10. CostHasProvider'
  <2> SUFFICES ASSUME NEW x \in mrCost' PROVE Exists(mrCall[x[1]].from.prov)'
    BY DEF CostHasProvider
  <2>1. Exists(mrCall[x[1]].from.prov)
    <3>1. CASE x \in mrCost
      BY <3>1 DEF RoutingInv, CostHasProvider
    <3>2. CASE x = <<c, TRUE>> /\ <<c, FALSE>> \in mrCost
      <4>1. Exists(mrCall[<<c, FALSE>>[1]].from.prov)
        BY <3>2 DEF RoutingInv, CostHasProvider
      <4> QED
        BY <3>2, <4>1
    <3> QED
      BY <1>5, <3>1, <3>2
  <2>2. x[1] \in MrCalls
    <3>1. CASE x \in mrCost
      BY <1>8, <3>1
    <3>2. CASE x = <<c, TRUE>>
      BY <3>2
    <3> QED
      BY <1>5, <3>1, <3>2
  <2> QED
    BY <1>1, <1>3, <2>1, <2>2 DEF Exists
<1> QED
  BY <1>3, <1>6, <1>7, <1>9, <1>10 DEF RoutingInv

\* An hour has passed.
LEMMA ExpiredVectors ==
  ASSUME RoutingInv, NEW m \in MrModels, ExpireVector(m)
  PROVE  RoutingInv'
<1>1. NoEntry \in Target
  BY DEF NoEntry, Target
<1>2. RoutingTypes'
  BY <1>1 DEF RoutingInv, RoutingTypes, ExpireVector
<1>3. CacheOfModel'
  BY DEF RoutingInv, RoutingTypes, CacheOfModel, ExpireVector
<1>4. CallsOfModel' /\ CostOfCall' /\ CostHasProvider'
  BY DEF RoutingInv, CallsOfModel, CostOfCall, CostHasProvider, Exists, ExpireVector
<1> QED
  BY <1>2, <1>3, <1>4 DEF RoutingInv

\* Entries that go leave the agents without them.
LEMMA DroppedEntries ==
  ASSUME RoutingInv, NEW gone, DropEntries(gone)
  PROVE  /\ mrEntry' \in [MrEntries -> Target]
         /\ mrAgent' \in [entry : MrEntries \cup {Nobody}, prov : MrProviders \cup {Nobody}, model : MrModels \cup {Nobody}]
<1>1. NoEntry \in Target
  BY DEF NoEntry, Target
<1> QED
  BY <1>1 DEF RoutingInv, RoutingTypes, DropEntries

\* The administration of providers.
LEMMA ProviderSteps ==
  ASSUME RoutingInv, NEW p \in MrProviders, CreateProvider(p) \/ SwitchProvider(p) \/ DeleteProvider(p)
  PROVE  RoutingInv'
<1>1. UNCHANGED <<mrCache, mrCall, mrCost>>
  BY DEF CreateProvider, SwitchProvider, DeleteProvider
<1>2. mrProvider' \in [MrProviders -> {"none", "active", "inactive", "gone"}]
  BY DEF RoutingInv, RoutingTypes, CreateProvider, SwitchProvider, DeleteProvider
<1>3. \A q \in MrProviders : Exists(q) => Exists(q)' \/ ~Referenced(q)
  BY DEF RoutingInv, RoutingTypes, CreateProvider, SwitchProvider, DeleteProvider, Exists
<1>4. /\ mrEntry' \in [MrEntries -> Target]
      /\ mrAgent' \in [entry : MrEntries \cup {Nobody}, prov : MrProviders \cup {Nobody}, model : MrModels \cup {Nobody}]
  <2>1. CASE DeleteProvider(p)
    BY <2>1, DroppedEntries DEF DeleteProvider
  <2>2. CASE CreateProvider(p) \/ SwitchProvider(p)
    BY <2>2 DEF RoutingInv, RoutingTypes, CreateProvider, SwitchProvider
  <2> QED
    BY <2>1, <2>2
<1> QED
  BY <1>1, <1>2, <1>3, <1>4, AdminStep

\* The administration of the registry and the binding of the agent.
LEMMA RegistrySteps ==
  ASSUME RoutingInv,
         \/ \E p \in MrProviders, found \in SUBSET MrModels : SyncRegistry(p, found)
         \/ \E e \in MrEntries, p \in MrProviders, m \in MrModels : CreateEntry(e, p, m)
         \/ \E e \in MrEntries : SwitchEntry(e) \/ DeleteEntry(e)
         \/ \E e \in MrEntries \cup {Nobody}, p \in MrProviders \cup {Nobody}, m \in MrModels \cup {Nobody} : BindAgent(e, p, m)
  PROVE  RoutingInv'
<1>1. ASSUME NEW p \in MrProviders, NEW found \in SUBSET MrModels, SyncRegistry(p, found)
      PROVE  UNCHANGED <<mrProvider, mrAgent, mrCache, mrCall, mrCost>> /\ mrEntry' \in [MrEntries -> Target]
  <2> DEFINE new == {m \in found : Free(p, m)}
  <2>1. PICK put \in [new -> {e \in MrEntries : mrEntry[e] = NoEntry}] :
          mrEntry' = [e \in MrEntries |-> IF \E m \in new : put[m] = e
                                            THEN [prov |-> p, model |-> CHOOSE m \in new : put[m] = e, enabled |-> TRUE]
                                            ELSE mrEntry[e]]
    BY <1>1 DEF SyncRegistry
  <2>2. new \subseteq MrModels
    OBVIOUS
  <2> HIDE DEF new
  <2>3. ASSUME NEW e \in MrEntries, \E m \in new : put[m] = e
        PROVE  [prov |-> p, model |-> CHOOSE m \in new : put[m] = e, enabled |-> TRUE] \in Target
    <3>1. (CHOOSE m \in new : put[m] = e) \in new
      BY <2>3
    <3> QED
      BY <2>2, <3>1 DEF Target
  <2>4. \A e \in MrEntries : mrEntry'[e] \in Target
    BY <2>1, <2>3 DEF RoutingInv, RoutingTypes
  <2>5. mrEntry' = [e \in MrEntries |-> mrEntry'[e]]
    BY <2>1
  <2> QED
    BY <1>1, <2>4, <2>5 DEF SyncRegistry
<1>2. ASSUME NEW e \in MrEntries, NEW p \in MrProviders, NEW m \in MrModels, CreateEntry(e, p, m)
      PROVE  UNCHANGED <<mrProvider, mrAgent, mrCache, mrCall, mrCost>> /\ mrEntry' \in [MrEntries -> Target]
  BY <1>2 DEF CreateEntry, RoutingInv, RoutingTypes, Target
<1>3. ASSUME NEW e \in MrEntries, SwitchEntry(e)
      PROVE  UNCHANGED <<mrProvider, mrAgent, mrCache, mrCall, mrCost>> /\ mrEntry' \in [MrEntries -> Target]
  <2>1. mrEntry[e] \in Target /\ mrEntry \in [MrEntries -> Target]
    BY DEF RoutingInv, RoutingTypes
  <2>2. [mrEntry[e] EXCEPT !.enabled = ~mrEntry[e].enabled] \in Target
    BY <2>1 DEF Target
  <2> QED
    BY <1>3, <2>1, <2>2 DEF SwitchEntry
<1>4. ASSUME NEW e \in MrEntries, DeleteEntry(e) PROVE RoutingInv'
  <2>1. UNCHANGED <<mrProvider, mrCache, mrCall, mrCost>> /\ DropEntries({e})
    BY <1>4 DEF DeleteEntry
  <2>2. /\ mrProvider' \in [MrProviders -> {"none", "active", "inactive", "gone"}]
        /\ \A p \in MrProviders : Exists(p) => Exists(p)'
    BY <2>1 DEF RoutingInv, RoutingTypes, Exists
  <2> QED
    BY <2>1, <2>2, DroppedEntries, AdminStep
<1>5. ASSUME NEW e \in MrEntries \cup {Nobody}, NEW p \in MrProviders \cup {Nobody}, NEW m \in MrModels \cup {Nobody},
             BindAgent(e, p, m)
      PROVE  /\ UNCHANGED <<mrProvider, mrEntry, mrCache, mrCall, mrCost>>
             /\ mrAgent' \in [entry : MrEntries \cup {Nobody}, prov : MrProviders \cup {Nobody}, model : MrModels \cup {Nobody}]
  BY <1>5 DEF BindAgent
<1>6. CASE UNCHANGED <<mrProvider, mrAgent, mrCache, mrCall, mrCost>> /\ mrEntry' \in [MrEntries -> Target]
  <2>1. /\ mrAgent' \in [entry : MrEntries \cup {Nobody}, prov : MrProviders \cup {Nobody}, model : MrModels \cup {Nobody}]
        /\ mrProvider' \in [MrProviders -> {"none", "active", "inactive", "gone"}]
        /\ \A p \in MrProviders : Exists(p) => Exists(p)'
    BY <1>6 DEF RoutingInv, RoutingTypes, Exists
  <2> QED
    BY <1>6, <2>1, AdminStep
<1>7. CASE /\ UNCHANGED <<mrProvider, mrEntry, mrCache, mrCall, mrCost>>
           /\ mrAgent' \in [entry : MrEntries \cup {Nobody}, prov : MrProviders \cup {Nobody}, model : MrModels \cup {Nobody}]
  <2>1. /\ mrEntry' \in [MrEntries -> Target]
        /\ mrProvider' \in [MrProviders -> {"none", "active", "inactive", "gone"}]
        /\ \A p \in MrProviders : Exists(p) => Exists(p)'
    BY <1>7 DEF RoutingInv, RoutingTypes, Exists
  <2> QED
    BY <1>7, <2>1, AdminStep
<1> QED
  BY <1>1, <1>2, <1>3, <1>4, <1>5, <1>6, <1>7

\* One case per action.
LEMMA RoutingStep == RoutingInv /\ [ModelNext]_modelVars => RoutingInv'
<1> SUFFICES ASSUME RoutingInv, [ModelNext]_modelVars PROVE RoutingInv'
  OBVIOUS
<1>1. CASE UNCHANGED modelVars
  BY <1>1 DEF modelVars, RoutingInv, RoutingTypes, CacheOfModel, CallsOfModel, CostOfCall, CostHasProvider, Exists
<1>2. ASSUME NEW p \in MrProviders, CreateProvider(p) \/ SwitchProvider(p) \/ DeleteProvider(p) PROVE RoutingInv'
  BY <1>2, ProviderSteps
<1>3. CASE \/ \E p \in MrProviders, found \in SUBSET MrModels : SyncRegistry(p, found)
           \/ \E e \in MrEntries, p \in MrProviders, m \in MrModels : CreateEntry(e, p, m)
           \/ \E e \in MrEntries : SwitchEntry(e) \/ DeleteEntry(e)
           \/ \E e \in MrEntries \cup {Nobody}, p \in MrProviders \cup {Nobody}, m \in MrModels \cup {Nobody} : BindAgent(e, p, m)
  BY <1>3, RegistrySteps
<1>4. ASSUME NEW c \in MrCalls, Finish(c) \/ RecordCost(c) \/ CallByAgent(c) PROVE RoutingInv'
  BY <1>4, FinishedCalls, RecordedCalls, AgentCalls
<1>5. ASSUME NEW c \in MrCalls, NEW ok \in BOOLEAN, EndCall(c, ok) PROVE RoutingInv'
  BY <1>5, EndedCalls
<1>6. ASSUME NEW c \in MrCalls, NEW kind \in CallKinds, NEW e \in MrEntries, CallByEntry(c, kind, e) PROVE RoutingInv'
  BY <1>6, EntryCalls
<1>7. ASSUME NEW c \in MrCalls, NEW p \in MrProviders, NEW m \in MrModels,
             ChatByProvider(c, p, m) \/ RerankByProvider(c, p, m) \/ EmbedByProvider(c, p, m)
      PROVE  RoutingInv'
  <2>1. EmbedCached(c, p, m) \/ \E kind \in CallKinds : ByProvider(c, kind, p, m)
    BY <1>7 DEF ChatByProvider, RerankByProvider, EmbedByProvider, CallKinds
  <2> QED
    BY <2>1, CachedCalls, ProviderCalls
<1>8. ASSUME NEW m \in MrModels, ExpireVector(m) PROVE RoutingInv'
  BY <1>8, ExpiredVectors
<1> QED
  BY <1>1, <1>2, <1>3, <1>4, <1>5, <1>6, <1>7, <1>8 DEF ModelNext

\* Whatever the administration changes in the middle of a call, what a call hands back is
\* of the model it was asked for, and every cost row that stands is of an answered call
\* and of a provider that is still there: a delete waits for the rows that name it, and a
\* rollback of the caller takes its row along.
THEOREM AnswersStayWithTheirModel == ModelSpec => []AnswersOfTheirModel
<1>1. RoutingInv => AnswersOfTheirModel
  BY DEF RoutingInv, CallsOfModel, CostOfCall, CostHasProvider, AnswersOfTheirModel
<1> QED
  BY <1>1, RoutingStart, RoutingStep, PTL DEF ModelSpec

\* The entries of the registry name a provider and a model; requests are counted.
EntriesNamed ==
  /\ \A e \in MrEntries : mrEntry[e] = NoEntry \/ (mrEntry[e].prov \in MrProviders /\ mrEntry[e].model \in MrModels)
  /\ mrOps \in 0..MrMaxOps

\* Every step keeps every variable of the models in its type.
LEMMA ModelTypes == ModelSpec => []ModelTypeOK
<1>1. ModelInit => EntriesNamed
  BY ModelAssumption DEF ModelInit, EntriesNamed
<1>2. RoutingInv /\ EntriesNamed /\ [ModelNext]_modelVars => EntriesNamed'
  <2> SUFFICES ASSUME RoutingInv, EntriesNamed, [ModelNext]_modelVars PROVE EntriesNamed'
    OBVIOUS
  <2>0. mrEntry \in [MrEntries -> Target] /\ mrOps \in 0..MrMaxOps /\ mrEntry = [e \in MrEntries |-> mrEntry[e]]
    BY DEF RoutingInv, RoutingTypes, EntriesNamed
  <2>1. MrOp => mrOps' \in 0..MrMaxOps
    BY <2>0, ModelAssumption DEF MrOp
  <2>2. ASSUME NEW p \in MrProviders, CreateProvider(p) \/ SwitchProvider(p) PROVE EntriesNamed'
    BY <2>1, <2>2 DEF CreateProvider, SwitchProvider, EntriesNamed
  <2>3. ASSUME NEW gone, DropEntries(gone), MrOp PROVE EntriesNamed'
    BY <2>1, <2>3 DEF DropEntries, EntriesNamed
  <2>4. ASSUME NEW p \in MrProviders, NEW found \in SUBSET MrModels, SyncRegistry(p, found) PROVE EntriesNamed'
    <3> DEFINE new == {m \in found : Free(p, m)}
    <3>1. PICK put \in [new -> {e \in MrEntries : mrEntry[e] = NoEntry}] :
            mrEntry' = [e \in MrEntries |-> IF \E m \in new : put[m] = e
                                              THEN [prov |-> p, model |-> CHOOSE m \in new : put[m] = e, enabled |-> TRUE]
                                              ELSE mrEntry[e]]
      BY <2>4 DEF SyncRegistry
    <3>2. MrOp
      BY <2>4 DEF SyncRegistry
    <3>3. ASSUME NEW e \in MrEntries, \E m \in new : put[m] = e
          PROVE  mrEntry'[e].prov = p /\ mrEntry'[e].model \in MrModels
      <4>1. (CHOOSE m \in new : put[m] = e) \in new
        BY <3>3
      <4> QED
        BY <3>1, <3>3, <4>1
    <3>4. \A e \in MrEntries : ~(\E m \in new : put[m] = e) => mrEntry'[e] = mrEntry[e]
      BY <3>1
    <3> HIDE DEF new
    <3> QED
      BY <2>1, <3>2, <3>3, <3>4 DEF EntriesNamed
  <2>5. ASSUME NEW e \in MrEntries, NEW p \in MrProviders, NEW m \in MrModels, CreateEntry(e, p, m) PROVE EntriesNamed'
    BY <2>0, <2>1, <2>5 DEF CreateEntry, EntriesNamed
  <2>6. ASSUME NEW e \in MrEntries, SwitchEntry(e) PROVE EntriesNamed'
    <3>1. mrEntry[e] # NoEntry /\ mrEntry' = [mrEntry EXCEPT ![e].enabled = ~@] /\ MrOp
      BY <2>6 DEF SwitchEntry
    <3>2. mrEntry'[e].prov = mrEntry[e].prov /\ mrEntry'[e].model = mrEntry[e].model
      BY <2>0, <3>1 DEF Target
    <3>3. \A f \in MrEntries \ {e} : mrEntry'[f] = mrEntry[f]
      BY <2>0, <3>1
    <3> QED
      BY <2>1, <3>1, <3>2, <3>3 DEF EntriesNamed
  <2>7. ASSUME NEW e, NEW p, NEW m, BindAgent(e, p, m) PROVE EntriesNamed'
    BY <2>1, <2>7 DEF BindAgent, EntriesNamed
  <2>8. ASSUME UNCHANGED <<mrEntry, mrOps>> PROVE EntriesNamed'
    BY <2>8 DEF EntriesNamed
  <2>9. ASSUME NEW c \in MrCalls, NEW kind, NEW p, NEW m, ByProvider(c, kind, p, m) PROVE EntriesNamed'
    BY <2>8, <2>9 DEF ByProvider
  <2>10. ASSUME NEW c \in MrCalls, NEW kind, NEW e, CallByEntry(c, kind, e) PROVE EntriesNamed'
    BY <2>8, <2>10 DEF CallByEntry
  <2>11. ASSUME NEW c \in MrCalls, CallByAgent(c) PROVE EntriesNamed'
    BY <2>8, <2>9, <2>10, <2>11 DEF CallByAgent, ChatByProvider
  <2>12. ASSUME NEW p \in MrProviders, DeleteProvider(p) PROVE EntriesNamed'
    BY <2>3, <2>12 DEF DeleteProvider
  <2>13. ASSUME NEW e \in MrEntries, DeleteEntry(e) PROVE EntriesNamed'
    BY <2>3, <2>13 DEF DeleteEntry
  <2>14. ASSUME NEW c \in MrCalls, Finish(c) \/ RecordCost(c) \/ \E ok \in BOOLEAN : EndCall(c, ok) PROVE EntriesNamed'
    BY <2>8, <2>14 DEF Finish, RecordCost, EndCall
  <2>15. ASSUME NEW c \in MrCalls, NEW p \in MrProviders, NEW m \in MrModels,
                ChatByProvider(c, p, m) \/ RerankByProvider(c, p, m) \/ EmbedByProvider(c, p, m)
         PROVE  EntriesNamed'
    BY <2>8, <2>9, <2>15 DEF ChatByProvider, RerankByProvider, EmbedByProvider, EmbedCached
  <2>16. ASSUME NEW m \in MrModels, ExpireVector(m) PROVE EntriesNamed'
    BY <2>8, <2>16 DEF ExpireVector
  <2>17. CASE UNCHANGED modelVars
    BY <2>8, <2>17 DEF modelVars
  <2> QED
    BY <2>2, <2>4, <2>5, <2>6, <2>7, <2>10, <2>11, <2>12, <2>13, <2>14, <2>15, <2>16, <2>17 DEF ModelNext
<1>3. RoutingInv /\ EntriesNamed => ModelTypeOK
  BY DEF RoutingInv, RoutingTypes, EntriesNamed, ModelTypeOK, Target, CallSteps
<1> QED
  BY <1>1, <1>2, <1>3, RoutingStart, RoutingStep, PTL DEF ModelSpec

-----------------------------------------------------------------------------
(****************************************************************************
 Accounts: an administrator remains.
 ****************************************************************************)

\* Only a request that found no settings row has initialised the system.
OneInitialisation ==
  /\ \A i \in AcInits : acInit[i] = "done" => acSettings
  /\ \A i, j \in AcInits : acInit[i] = "done" /\ acInit[j] = "done" => i = j

\* Unless something exposed the administrators: a user with that role is accompanied by
\* an active one, one deletion at a time is under way, and who asked for it stays one.
AdminsProtected ==
  ~acExposed =>
    /\ (\E u \in AcUsers : acRole[u] = "admin") => Admins # {}
    /\ \A d, e \in AcDeletes : acDelete[d].pc = "counted" /\ acDelete[e].pc = "counted" => d = e
    /\ \A d \in AcDeletes : acDelete[d].pc = "counted" =>
         acDelete[d].by \in Admins /\ acDelete[d].by # acDelete[d].target

AccountInv == AccountTypeOK /\ OneInitialisation /\ AdminsProtected

\* The administrators are some of the users.
LEMMA AdminsCounted ==
  ASSUME AccountTypeOK
  PROVE  Admins \subseteq AcUsers /\ Cardinality(Admins) \in 0..Cardinality(AcUsers)
<1>1. Admins \subseteq AcUsers
  BY DEF AccountTypeOK, Admins
<1>2. /\ Cardinality(Admins) \in Nat /\ Cardinality(AcUsers) \in Nat
      /\ Cardinality(Admins) <= Cardinality(AcUsers)
  BY <1>1, AccountsAssumption, FS_Subset, FS_CardinalityType
<1> QED
  BY <1>1, <1>2

\* A deletion that rests names some user.
LEMMA IdleDeletion ==
  Idle \in [pc : {"idle", "counted"}, by : AcUsers, target : AcUsers, admins : 0..Cardinality(AcUsers)]
<1>1. (CHOOSE u \in AcUsers : TRUE) \in AcUsers
  BY AccountsAssumption
<1>2. 0 \in 0..Cardinality(AcUsers)
  BY AccountsAssumption, FS_CardinalityType
<1> QED
  BY <1>1, <1>2 DEF Idle

\* At first there is nobody.
LEMMA AccountStart == AccountInit => AccountInv
<1> SUFFICES ASSUME AccountInit PROVE AccountInv
  OBVIOUS
<1>1. AccountTypeOK
  <2>1. acDelete \in [AcDeletes -> [pc : {"idle", "counted"}, by : AcUsers, target : AcUsers, admins : 0..Cardinality(AcUsers)]]
    BY IdleDeletion DEF AccountInit
  <2>2. acOps \in 0..AcMaxOps
    BY AccountsAssumption DEF AccountInit
  <2> QED
    BY <2>1, <2>2 DEF AccountInit, AccountTypeOK, NoRole
<1>2. OneInitialisation /\ AdminsProtected
  BY DEF AccountInit, OneInitialisation, AdminsProtected, NoRole, Idle
<1> QED
  BY <1>1, <1>2 DEF AccountInv

\* The requests that add an administrator or nobody.
LEMMA InitialisationStep ==
  ASSUME AccountInv, NEW i \in AcInits, CountUsers(i) \/ \E u \in AcUsers : Initialize(i, u)
  PROVE  AccountInv'
<1>1. CASE CountUsers(i)
  BY <1>1 DEF CountUsers, AccountInv, AccountTypeOK, OneInitialisation, AdminsProtected, Admins
<1>2. ASSUME NEW u \in AcUsers, Initialize(i, u) PROVE AccountInv'
  <2>1. AccountTypeOK'
    BY <1>2 DEF Initialize, AccountInv, AccountTypeOK, NoRole
  <2>2. OneInitialisation'
    BY <1>2 DEF Initialize, AccountInv, AccountTypeOK, OneInitialisation
  <2>3. Admins \subseteq Admins' /\ (\A v \in AcUsers : acRole'[v] = "admin" => acRole[v] = "admin" \/ v \in Admins')
    BY <1>2 DEF Initialize, AccountInv, AccountTypeOK, Admins, NoRole
  <2>4. AdminsProtected'
    BY <1>2, <2>3 DEF Initialize, AccountInv, AdminsProtected
  <2> QED
    BY <2>1, <2>2, <2>4 DEF AccountInv
<1> QED
  BY <1>1, <1>2

\* The requests that change one user; an update may take an administrator, which is noted.
LEMMA UserStep ==
  ASSUME AccountInv, NEW u \in AcUsers,
         \/ Register(u)
         \/ \E role \in {"user", "admin"} : CreateUser(u, role) \/ \E active \in BOOLEAN : UpdateUser(u, role, active)
  PROVE  AccountInv'
<1>1. CASE Register(u)
  <2>1. AccountTypeOK' /\ OneInitialisation'
    BY <1>1, AccountsAssumption DEF Register, AcOp, AccountInv, AccountTypeOK, OneInitialisation, NoRole
  <2>2. Admins' = Admins
    BY <1>1 DEF Register, AccountInv, AccountTypeOK, Admins, NoRole
  <2> QED
    BY <1>1, <2>1, <2>2 DEF Register, AccountInv, AccountTypeOK, AdminsProtected
<1>2. ASSUME NEW role \in {"user", "admin"}, CreateUser(u, role) PROVE AccountInv'
  <2>1. AccountTypeOK' /\ OneInitialisation'
    BY <1>2, AccountsAssumption DEF CreateUser, AcOp, AccountInv, AccountTypeOK, OneInitialisation, NoRole
  <2>2. Admins \subseteq Admins' /\ Admins # {}
    BY <1>2 DEF CreateUser, AccountInv, AccountTypeOK, Admins, NoRole
  <2> QED
    BY <1>2, <2>1, <2>2 DEF CreateUser, AccountInv, AdminsProtected
<1>3. ASSUME NEW role \in {"user", "admin"}, NEW active \in BOOLEAN, UpdateUser(u, role, active) PROVE AccountInv'
  <2>1. AccountTypeOK' /\ OneInitialisation'
    BY <1>3, AccountsAssumption DEF UpdateUser, AcOp, AccountInv, AccountTypeOK, OneInitialisation, NoRole
  <2>2. ~acExposed' => ~acExposed /\ Admins \subseteq Admins' /\ Admins # {}
    BY <1>3 DEF UpdateUser, AccountInv, AccountTypeOK, Admins
  <2> QED
    BY <1>3, <2>1, <2>2 DEF UpdateUser, AccountInv, AdminsProtected
<1> QED
  BY <1>1, <1>2, <1>3

\* A deletion counts the administrators first, and who asks for it is one of them and not
\* its target: so one is left in any case.
LEMMA DeletionStep ==
  ASSUME AccountInv, NEW d \in AcDeletes, DeleteUser(d) \/ \E by, u \in AcUsers : CountAdmins(d, by, u)
  PROVE  AccountInv'
<1>1. ASSUME NEW by \in AcUsers, NEW u \in AcUsers, CountAdmins(d, by, u) PROVE AccountInv'
  <2>1. AccountTypeOK' /\ OneInitialisation'
    BY <1>1, AccountsAssumption, AdminsCounted DEF CountAdmins, AcOp, AccountInv, AccountTypeOK, OneInitialisation
  <2>2. ~acExposed' => ~acExposed /\ \A e \in AcDeletes \ {d} : acDelete[e].pc # "counted"
    BY <1>1 DEF CountAdmins, AccountInv, AccountTypeOK
  <2>3. Admins' = Admins
    BY <1>1 DEF CountAdmins, Admins
  <2>4. /\ acDelete'[d].by = by /\ acDelete'[d].target = u
        /\ \A e \in AcDeletes \ {d} : acDelete'[e] = acDelete[e]
    BY <1>1 DEF CountAdmins, AccountInv, AccountTypeOK
  <2>5. AdminsProtected'
    BY <1>1, <2>2, <2>3, <2>4 DEF CountAdmins, AccountInv, AdminsProtected
  <2> QED
    BY <2>1, <2>5 DEF AccountInv
<1>2. CASE DeleteUser(d)
  <2>1. AccountTypeOK' /\ OneInitialisation'
    BY <1>2, IdleDeletion DEF DeleteUser, AccountInv, AccountTypeOK, OneInitialisation
  <2>2. /\ acDelete'[d].pc = "idle" /\ acRole' = acRole /\ acExposed' = acExposed
        /\ \A e \in AcDeletes \ {d} : acDelete'[e] = acDelete[e]
    BY <1>2 DEF DeleteUser, AccountInv, AccountTypeOK, Idle
  <2>3. Admins \ {acDelete[d].target} \subseteq Admins'
    BY <1>2 DEF DeleteUser, Admins
  <2>4. AdminsProtected'
    <3> SUFFICES ASSUME ~acExposed PROVE AdminsProtected'
      BY <2>2 DEF AdminsProtected
    <3>1. acDelete[d].by \in Admins'
      BY <1>2, <2>3 DEF DeleteUser, AccountInv, AdminsProtected
    <3>2. \A e \in AcDeletes : acDelete'[e].pc # "counted"
      BY <1>2, <2>2 DEF DeleteUser, AccountInv, AdminsProtected
    <3> QED
      BY <3>1, <3>2 DEF AdminsProtected
  <2> QED
    BY <2>1, <2>4 DEF AccountInv
<1> QED
  BY <1>1, <1>2

\* One case per action.
LEMMA AccountStep == AccountInv /\ [AccountNext]_accountVars => AccountInv'
<1> SUFFICES ASSUME AccountInv, [AccountNext]_accountVars PROVE AccountInv'
  OBVIOUS
<1>1. CASE UNCHANGED accountVars
  BY <1>1 DEF accountVars, AccountInv, AccountTypeOK, OneInitialisation, AdminsProtected, Admins
<1>2. CASE AccountNext
  BY <1>2, InitialisationStep, UserStep, DeletionStep DEF AccountNext
<1> QED
  BY <1>1, <1>2

\* For any number of users, initialisations and deletions that overlap: the system is
\* initialised once (the settings row has a fixed id), and as long as no update demoted one
\* and no two deletions overlapped, an administrator is left.
THEOREM AdministratorRemains == AccountSpec => []AdminKept
<1>1. ASSUME AccountInv PROVE AdminKept
  <2> DEFINE done == {i \in AcInits : acInit[i] = "done"}
  <2>1. done = {} \/ \E i \in AcInits : done = {i}
    BY <1>1 DEF AccountInv, OneInitialisation
  <2>2. Cardinality(done) <= 1
    <3> HIDE DEF done
    <3>1. CASE done = {}
      BY <3>1, FS_EmptySet
    <3>2. ASSUME NEW i \in AcInits, done = {i} PROVE Cardinality(done) <= 1
      BY <3>2, FS_Singleton
    <3> QED
      BY <2>1, <3>1, <3>2
  <2> QED
    BY <1>1, <2>2 DEF AccountInv, AdminsProtected, AdminKept
<1> QED
  BY <1>1, AccountStart, AccountStep, PTL DEF AccountSpec

-----------------------------------------------------------------------------
(****************************************************************************
 Departments: access follows the tree, whatever moves have made of it.
 ****************************************************************************)

Rounds == Cardinality(DpDepts)
ChildrenOf(S) == {c \in Depts : dpParent[c] \in S}

\* Some rounds make a number.
LEMMA RoundsNatural == Rounds \in Nat
BY FS_CardinalityType, DepartmentsAssumption DEF Rounds

\* A set of natural numbers has a least one.
LEMMA LeastNumber ==
  ASSUME NEW S \in SUBSET Nat, S # {}
  PROVE  \E m \in S : \A k \in S : m <= k
<1>1. PICK m \in S : \A k \in S : ~(<<k, m>> \in OpToRel(<, Nat))
  BY WFMin, NatLessThanWellFounded, Zenon
<1>2. \A k \in S : ~(k < m)
  BY <1>1 DEF OpToRel
<1> QED
  BY <1>2

-----------------------------------------------------------------------------
\* The sets that the cascade of a deletion goes through, one generation after another.
IsGenerations(r, k, d) ==
  r = [n \in 0..k |-> IF n = 0 THEN {d} ELSE r[n - 1] \cup {c \in Depts : dpParent[c] \in r[n - 1]}]

\* A recursion over the first k numbers has a result: by the least k for which it has none.
LEMMA GenerationsExist ==
  ASSUME NEW d, NEW k \in Nat
  PROVE  \E r : IsGenerations(r, k, d)
<1> DEFINE Bad == {m \in Nat : \A r : ~IsGenerations(r, m, d)}
<1>1. ASSUME Bad # {} PROVE FALSE
  <2>1. PICK m \in Bad : \A l \in Bad : m <= l
    BY <1>1, LeastNumber
  <2>2. m \in Nat /\ (m # 0 => m - 1 \in Nat /\ m - 1 \notin Bad)
    BY <2>1
  <2>3. CASE m = 0
    <3> DEFINE r == [n \in 0..0 |-> {d}]
    <3>1. IsGenerations(r, 0, d)
      BY DEF IsGenerations
    <3> QED
      BY <2>1, <2>3, <3>1
  <2>4. CASE m # 0
    <3>1. PICK r : IsGenerations(r, m - 1, d)
      BY <2>2, <2>4
    <3> DEFINE q == [n \in 0..m |-> IF n < m THEN r[n] ELSE r[m - 1] \cup {c \in Depts : dpParent[c] \in r[m - 1]}]
    <3>2. \A n \in 0..(m - 1) : q[n] = r[n]
      BY <2>2
    <3>3. \A n \in 0..(m - 1) : r[n] = IF n = 0 THEN {d} ELSE r[n - 1] \cup {c \in Depts : dpParent[c] \in r[n - 1]}
      BY <3>1 DEF IsGenerations
    <3>4. ASSUME NEW n \in 0..m
          PROVE  q[n] = IF n = 0 THEN {d} ELSE q[n - 1] \cup {c \in Depts : dpParent[c] \in q[n - 1]}
      <4>1. CASE n = m
        <5>1. n # 0 /\ n - 1 = m - 1 /\ m - 1 \in 0..(m - 1)
          BY <2>2, <2>4, <4>1
        <5>2. q[n] = r[m - 1] \cup {c \in Depts : dpParent[c] \in r[m - 1]}
          BY <2>2, <4>1
        <5> HIDE DEF q
        <5> QED
          BY <3>2, <5>1, <5>2
      <4>2. CASE n # m /\ n # 0
        <5>1. n \in 0..(m - 1) /\ n - 1 \in 0..(m - 1)
          BY <2>2, <4>2
        <5> HIDE DEF q
        <5> QED
          BY <3>2, <3>3, <4>2, <5>1
      <4>3. CASE n # m /\ n = 0
        <5>1. n \in 0..(m - 1)
          BY <2>2, <4>3
        <5> HIDE DEF q
        <5> QED
          BY <3>2, <3>3, <4>3, <5>1
      <4> QED
        BY <4>1, <4>2, <4>3
    <3>5. IsGenerations(q, m, d)
      <4>1. q = [n \in 0..m |-> q[n]]
        OBVIOUS
      <4> HIDE DEF q
      <4> QED
        BY <3>4, <4>1 DEF IsGenerations
    <3> QED
      BY <2>1, <3>5
  <2> QED
    BY <2>3, <2>4
<1> QED
  BY <1>1

\* The generations below a department, as the cascade takes them.
LEMMA BelowIs ==
  ASSUME NEW d
  PROVE  \E r : /\ DOMAIN r = 0..Rounds /\ r[0] = {d} /\ Below(d) = r[Rounds]
                /\ \A n \in 1..Rounds : r[n] = r[n - 1] \cup ChildrenOf(r[n - 1])
<1> DEFINE r == CHOOSE r : IsGenerations(r, Rounds, d)
<1>1. IsGenerations(r, Rounds, d)
  BY RoundsNatural, GenerationsExist
<1>2. Below(d) = r[Rounds]
  BY DEF Below, Rounds, IsGenerations
<1> HIDE DEF r
<1>3. r = [n \in 0..Rounds |-> IF n = 0 THEN {d} ELSE r[n - 1] \cup {c \in Depts : dpParent[c] \in r[n - 1]}]
  BY <1>1 DEF IsGenerations
<1>4. DOMAIN r = 0..Rounds
  BY <1>3
<1>5. \A n \in 0..Rounds : r[n] = IF n = 0 THEN {d} ELSE r[n - 1] \cup {c \in Depts : dpParent[c] \in r[n - 1]}
  BY <1>3
<1>6. r[0] = {d}
  <2>1. 0 \in 0..Rounds
    BY RoundsNatural
  <2> QED
    BY <1>5, <2>1
<1>7. ASSUME NEW n \in 1..Rounds PROVE r[n] = r[n - 1] \cup ChildrenOf(r[n - 1])
  <2>1. n \in 0..Rounds /\ n # 0
    BY RoundsNatural
  <2> QED
    BY <1>5, <2>1 DEF ChildrenOf
<1> QED
  BY <1>2, <1>4, <1>6, <1>7

\* What a user's departments and those below them are found by, round after round.
IsDescent(r, k, S) ==
  r = [n \in 0..k |->
         IF n = 0 THEN [all |-> S, pending |-> S]
         ELSE LET new == {c \in Depts : dpParent[c] \in r[n - 1].pending} \ r[n - 1].all
              IN  [all |-> r[n - 1].all \cup new, pending |-> new]]
Found(q) == LET new == ChildrenOf(q.pending) \ q.all IN [all |-> q.all \cup new, pending |-> new]

\* This recursion has a result as well.
LEMMA DescentExists ==
  ASSUME NEW S, NEW k \in Nat
  PROVE  \E r : IsDescent(r, k, S)
<1> DEFINE Bad == {m \in Nat : \A r : ~IsDescent(r, m, S)}
<1>1. ASSUME Bad # {} PROVE FALSE
  <2>1. PICK m \in Bad : \A l \in Bad : m <= l
    BY <1>1, LeastNumber
  <2>2. m \in Nat /\ (m # 0 => m - 1 \in Nat /\ m - 1 \notin Bad)
    BY <2>1
  <2>3. CASE m = 0
    <3> DEFINE r == [n \in 0..0 |-> [all |-> S, pending |-> S]]
    <3>1. IsDescent(r, 0, S)
      BY DEF IsDescent
    <3> QED
      BY <2>1, <2>3, <3>1
  <2>4. CASE m # 0
    <3>1. PICK r : IsDescent(r, m - 1, S)
      BY <2>2, <2>4
    <3> DEFINE q == [n \in 0..m |-> IF n < m THEN r[n] ELSE Found(r[m - 1])]
    <3>2. \A n \in 0..(m - 1) : q[n] = r[n]
      BY <2>2
    <3>3. \A n \in 0..(m - 1) : r[n] = IF n = 0 THEN [all |-> S, pending |-> S] ELSE Found(r[n - 1])
      BY <3>1 DEF IsDescent, Found, ChildrenOf
    <3>4. ASSUME NEW n \in 0..m
          PROVE  q[n] = IF n = 0 THEN [all |-> S, pending |-> S] ELSE Found(q[n - 1])
      <4>1. CASE n = m
        <5>1. n # 0 /\ n - 1 = m - 1 /\ m - 1 \in 0..(m - 1)
          BY <2>2, <2>4, <4>1
        <5>2. q[n] = Found(r[m - 1])
          BY <2>2, <4>1
        <5> HIDE DEF q
        <5> QED
          BY <3>2, <5>1, <5>2
      <4>2. CASE n # m /\ n # 0
        <5>1. n \in 0..(m - 1) /\ n - 1 \in 0..(m - 1)
          BY <2>2, <4>2
        <5> HIDE DEF q
        <5> QED
          BY <3>2, <3>3, <4>2, <5>1
      <4>3. CASE n # m /\ n = 0
        <5>1. n \in 0..(m - 1)
          BY <2>2, <4>3
        <5> HIDE DEF q
        <5> QED
          BY <3>2, <3>3, <4>3, <5>1
      <4> QED
        BY <4>1, <4>2, <4>3
    <3>5. IsDescent(q, m, S)
      <4>1. q = [n \in 0..m |-> q[n]]
        OBVIOUS
      <4> HIDE DEF q
      <4>2. q = [n \in 0..m |-> IF n = 0 THEN [all |-> S, pending |-> S] ELSE Found(q[n - 1])]
        BY <3>4, <4>1
      <4> QED
        BY <4>2 DEF IsDescent, Found, ChildrenOf
    <3> QED
      BY <2>1, <3>5
  <2> QED
    BY <2>3, <2>4
<1> QED
  BY <1>1

\* The rounds of Descend.
LEMMA DescendIs ==
  ASSUME NEW S
  PROVE  \E r : /\ r[0] = [all |-> S, pending |-> S] /\ Descend(S) = r[Rounds].all
                /\ \A n \in 1..Rounds : r[n] = Found(r[n - 1])
<1> DEFINE r == CHOOSE r : IsDescent(r, Rounds, S)
<1>1. IsDescent(r, Rounds, S)
  BY RoundsNatural, DescentExists
<1>2. Descend(S) = r[Rounds].all
  BY DEF Descend, Rounds, IsDescent
<1> HIDE DEF r
<1>3. r = [n \in 0..Rounds |-> IF n = 0 THEN [all |-> S, pending |-> S] ELSE Found(r[n - 1])]
  BY <1>1 DEF IsDescent, Found, ChildrenOf
<1>4. \A n \in 0..Rounds : r[n] = IF n = 0 THEN [all |-> S, pending |-> S] ELSE Found(r[n - 1])
  BY <1>3
<1>5. r[0] = [all |-> S, pending |-> S]
  <2>1. 0 \in 0..Rounds
    BY RoundsNatural
  <2> QED
    BY <1>4, <2>1
<1>6. ASSUME NEW n \in 1..Rounds PROVE r[n] = Found(r[n - 1])
  <2>1. n \in 0..Rounds /\ n # 0
    BY RoundsNatural
  <2> QED
    BY <1>4, <2>1
<1> QED
  BY <1>2, <1>5, <1>6

\* What holds at nought and is handed on from each number to the next holds throughout.
LEMMA Throughout ==
  ASSUME NEW G \in SUBSET Nat, 0 \in G, \A n \in 0..Rounds : n # 0 /\ n - 1 \in G => n \in G
  PROVE  \A n \in 0..Rounds : n \in G
<1> DEFINE Bad == {n \in 0..Rounds : n \notin G}
<1>1. ASSUME Bad # {} PROVE FALSE
  <2>1. Bad \in SUBSET Nat
    BY RoundsNatural
  <2>2. PICK m \in Bad : \A l \in Bad : m <= l
    BY <1>1, <2>1, LeastNumber
  <2>3. m \in 0..Rounds /\ m \notin G /\ m # 0
    BY <2>2
  <2>4. m - 1 \in 0..Rounds /\ m - 1 \notin G
    BY <2>3, RoundsNatural
  <2>5. m <= m - 1
    BY <2>2, <2>4
  <2> QED
    BY <2>3, <2>5, RoundsNatural
<1> QED
  BY <1>1

\* The children of those found last are all that a round can add: the children of the others
\* were found before.  So the rounds of Descend are generations below all of S.
LEMMA DescendGrows ==
  ASSUME NEW S, NEW r, r[0] = [all |-> S, pending |-> S], \A n \in 1..Rounds : r[n] = Found(r[n - 1])
  PROVE  \A n \in 1..Rounds : r[n].all = r[n - 1].all \cup ChildrenOf(r[n - 1].all)
<1> DEFINE NewDept(n) == ChildrenOf(r[n].all) \subseteq ChildrenOf(r[n].pending) \cup r[n].all
           G == {n \in Nat : NewDept(n)}
<1>1. ASSUME NEW n \in 1..Rounds
      PROVE  /\ r[n].pending = ChildrenOf(r[n - 1].pending) \ r[n - 1].all
             /\ r[n].all = r[n - 1].all \cup (ChildrenOf(r[n - 1].pending) \ r[n - 1].all)
  <2>1. r[n] = Found(r[n - 1])
    OBVIOUS
  <2> QED
    BY <2>1 DEF Found
<1>2. 0 \in G
  <2>1. r[0].all = S /\ r[0].pending = S
    OBVIOUS
  <2> QED
    BY <2>1
<1>3. ASSUME NEW n \in 0..Rounds, n # 0, n - 1 \in G PROVE n \in G
  <2>1. n \in 1..Rounds /\ n \in Nat
    BY <1>3, RoundsNatural
  <2>2. ChildrenOf(r[n - 1].all) \subseteq ChildrenOf(r[n - 1].pending) \cup r[n - 1].all
    BY <1>3
  <2>3. r[n].all = r[n - 1].all \cup r[n].pending /\ ChildrenOf(r[n - 1].pending) \subseteq r[n].all
    BY <1>1, <2>1
  <2>4. NewDept(n)
    BY <2>2, <2>3 DEF ChildrenOf
  <2> QED
    BY <2>1, <2>4
<1> HIDE DEF G
<1>4. G \in SUBSET Nat
  BY DEF G
<1>5. \A n \in 0..Rounds : n \in G
  BY <1>2, <1>3, <1>4, Throughout
<1> TAKE n \in 1..Rounds
<1>6. n - 1 \in 0..Rounds
  BY RoundsNatural
<1>7. NewDept(n - 1)
  BY <1>5, <1>6 DEF G
<1>8. ChildrenOf(r[n - 1].pending) \subseteq ChildrenOf(r[n - 1].all)
  <2> SUFFICES r[n - 1].pending \subseteq r[n - 1].all
    BY DEF ChildrenOf
  <2>1. CASE n = 1
    BY <2>1
  <2>2. CASE n # 1
    <3>1. n - 1 \in 1..Rounds
      BY <2>2, RoundsNatural
    <3> QED
      BY <1>1, <3>1
  <2> QED
    BY <2>1, <2>2
<1> QED
  BY <1>1, <1>7, <1>8

\* Walking down from all departments of a user at once finds what walking down from each finds,
\* whatever cycles the moves have left.
LEMMA DescendIsBelow ==
  ASSUME NEW S
  PROVE  Descend(S) = UNION {Below(m) : m \in S}
<1> DEFINE Gen(m) == CHOOSE r : /\ DOMAIN r = 0..Rounds /\ r[0] = {m} /\ Below(m) = r[Rounds]
                                /\ \A n \in 1..Rounds : r[n] = r[n - 1] \cup ChildrenOf(r[n - 1])
<1>1. ASSUME NEW m
      PROVE  /\ Gen(m)[0] = {m} /\ Below(m) = Gen(m)[Rounds]
             /\ \A n \in 1..Rounds : Gen(m)[n] = Gen(m)[n - 1] \cup ChildrenOf(Gen(m)[n - 1])
  BY BelowIs
<1> HIDE DEF Gen
<1>2. PICK r : /\ r[0] = [all |-> S, pending |-> S] /\ Descend(S) = r[Rounds].all
               /\ \A n \in 1..Rounds : r[n] = Found(r[n - 1])
  BY DescendIs
<1>3. \A n \in 1..Rounds : r[n].all = r[n - 1].all \cup ChildrenOf(r[n - 1].all)
  BY <1>2, DescendGrows
<1> DEFINE U(n) == UNION {Gen(m)[n] : m \in S}
           G == {n \in Nat : r[n].all = U(n)}
<1>4. 0 \in G
  <2>1. r[0].all = S
    BY <1>2
  <2>2. U(0) = S
    BY <1>1
  <2> QED
    BY <2>1, <2>2
<1>5. ASSUME NEW n \in 0..Rounds, n # 0, n - 1 \in G PROVE n \in G
  <2>1. n \in 1..Rounds /\ n \in Nat
    BY <1>5, RoundsNatural
  <2>2. r[n - 1].all = U(n - 1)
    BY <1>5
  <2>3. \A m \in S : Gen(m)[n] = Gen(m)[n - 1] \cup ChildrenOf(Gen(m)[n - 1])
    BY <1>1, <2>1
  <2>4. U(n) = U(n - 1) \cup ChildrenOf(U(n - 1))
    BY <2>3 DEF ChildrenOf
  <2>5. r[n].all = U(n)
    BY <1>3, <2>1, <2>2, <2>4
  <2> QED
    BY <2>1, <2>5
<1>6. \A n \in 0..Rounds : n \in G
  <2> HIDE DEF G
  <2>1. G \in SUBSET Nat
    BY DEF G
  <2> QED
    BY <1>4, <1>5, <2>1, Throughout
<1>7. r[Rounds].all = U(Rounds)
  BY <1>6, RoundsNatural
<1>8. U(Rounds) = UNION {Below(m) : m \in S}
  BY <1>1
<1> QED
  BY <1>2, <1>7, <1>8

-----------------------------------------------------------------------------
\* Type correctness.
LEMMA DeptStart == DeptInit => DeptTypeOK
BY DepartmentsAssumption DEF DeptInit, DeptTypeOK

\* Every step keeps the type invariant of the departments.
LEMMA DeptStep == DeptTypeOK /\ [DeptNext]_deptVars => DeptTypeOK'
<1> SUFFICES ASSUME DeptTypeOK, [DeptNext]_deptVars PROVE DeptTypeOK'
  OBVIOUS
<1> USE DEF DeptTypeOK
<1>1. ASSUME DeptOp PROVE dpOps' \in 0..DpMaxOps
  BY <1>1, DepartmentsAssumption DEF DeptOp
<1>2. ASSUME NEW d \in DpDepts, NEW p \in DpDepts \cup {Root}, CreateDepartment(d, p) \/ MoveDepartment(d, p) PROVE DeptTypeOK'
  <2>1. /\ dpParent' = [dpParent EXCEPT ![d] = p] /\ DeptOp /\ p \in Depts \cup {Root}
        /\ UNCHANGED <<dpDelete, dpMember, dpShare>>
    BY <1>2 DEF CreateDepartment, MoveDepartment
  <2>2. p # Absent
    BY <2>1, DepartmentsAssumption DEF Depts, Root, Absent
  <2>3. dpParent' \in [DpDepts -> DpDepts \cup {Root, Absent}] /\ \A c \in DpDepts : dpParent[c] # Absent => dpParent'[c] # Absent
    BY <2>1, <2>2
  <2> QED
    BY <1>1, <2>1, <2>3
<1>3. ASSUME NEW d \in DpDepts, FindNoChild(d) PROVE DeptTypeOK'
  BY <1>3 DEF FindNoChild
<1>4. ASSUME NEW d \in DpDepts, NEW u \in DpMembers, SetMember(u, d) PROVE DeptTypeOK'
  BY <1>1, <1>4 DEF SetMember, Depts
<1>5. ASSUME NEW d \in DpDepts, NEW level \in DpLevels \cup {0}, SetShare(d, level) PROVE DeptTypeOK'
  BY <1>1, <1>5 DEF SetShare
<1>6. ASSUME DeleteDepartment PROVE DeptTypeOK'
  BY <1>6 DEF DeleteDepartment
<1>7. CASE UNCHANGED deptVars
  BY <1>7 DEF deptVars
<1> QED
  BY <1>2, <1>3, <1>4, <1>5, <1>6, <1>7 DEF DeptNext

\* A set of levels has a highest one.
LEMMA HighestLevel ==
  ASSUME NEW L, L \subseteq 1..4, L # {}
  PROVE  \E x \in L : \A y \in L : x >= y
<1>1. CASE 4 \in L
  BY <1>1
<1>2. CASE 4 \notin L /\ 3 \in L
  BY <1>2
<1>3. CASE 4 \notin L /\ 3 \notin L /\ 2 \in L
  BY <1>3
<1>4. CASE 4 \notin L /\ 3 \notin L /\ 2 \notin L
  <2>1. PICK x \in L : TRUE
    OBVIOUS
  <2>2. \A y \in L : y = 1
    <3> TAKE y \in L
    <3>1. y \in 1..4 /\ y # 4 /\ y # 3 /\ y # 2
      BY <1>4
    <3> QED
      BY <3>1
  <2> QED
    BY <2>1, <2>2
<1> QED
  BY <1>1, <1>2, <1>3, <1>4

\* In any forest of departments, or graph with cycles that moves have made of it, with any
\* number of members: a member has the highest access that a department below theirs was
\* given, and none where none was given.
THEOREM AccessOfTheTree == DeptSpec => []AccessFollowsTree
<1>1. ASSUME DeptTypeOK PROVE AccessFollowsTree
  <2> SUFFICES ASSUME NEW u \in DpMembers
               PROVE  LET above(d) == {e \in Depts : d \in Below(e)}
                          given == {d \in Depts : dpShare[d] # 0 /\ \E e \in above(d) : <<u, e>> \in dpMember}
                      IN  /\ given = {} <=> Access(u) = 0
                          /\ \A d \in given : Access(u) >= dpShare[d]
    BY DEF AccessFollowsTree
  <2> DEFINE above(d) == {e \in Depts : d \in Below(e)}
             given == {d \in Depts : dpShare[d] # 0 /\ \E e \in above(d) : <<u, e>> \in dpMember}
             own == {m[2] : m \in {x \in dpMember : x[1] = u}}
             levels == {dpShare[d] : d \in Descend(own)} \ {0}
  <2>1. own = {e \in Depts : <<u, e>> \in dpMember}
    BY <1>1 DEF DeptTypeOK, Depts
  <2>2. Descend(own) = {d \in Descend(own) : \E e \in own : d \in Below(e)}
    BY DescendIsBelow
  <2>3. ASSUME NEW e \in Depts PROVE Below(e) \subseteq Depts
    <3>1. PICK r : /\ DOMAIN r = 0..Rounds /\ r[0] = {e} /\ Below(e) = r[Rounds]
                   /\ \A n \in 1..Rounds : r[n] = r[n - 1] \cup ChildrenOf(r[n - 1])
      BY BelowIs
    <3> DEFINE G == {n \in Nat : r[n] \subseteq Depts}
    <3>2. 0 \in G
      BY <3>1
    <3>3. ASSUME NEW n \in 0..Rounds, n # 0, n - 1 \in G PROVE n \in G
      <4>1. n \in 1..Rounds /\ n \in Nat
        BY <3>3, RoundsNatural
      <4>2. r[n] = r[n - 1] \cup ChildrenOf(r[n - 1])
        BY <3>1, <4>1
      <4> QED
        BY <3>3, <4>1, <4>2 DEF ChildrenOf
    <3>4. \A n \in 0..Rounds : n \in G
      <4> HIDE DEF G
      <4>1. G \in SUBSET Nat
        BY DEF G
      <4> QED
        BY <3>2, <3>3, <4>1, Throughout
    <3> QED
      BY <3>1, <3>4, RoundsNatural
  <2>4. given = {d \in Descend(own) : dpShare[d] # 0}
    <3>1. \A d : d \in Descend(own) <=> \E e \in own : d \in Below(e)
      BY DescendIsBelow
    <3> HIDE DEF own
    <3> QED
      BY <2>1, <2>3, <3>1
  <2>5. levels = {dpShare[d] : d \in given}
    BY <2>4
  <2>6. levels \subseteq 1..4 /\ 0 \notin levels
    BY <1>1, <2>5, DepartmentsAssumption DEF DeptTypeOK, Depts
  <2>7. Access(u) = IF levels = {} THEN 0 ELSE CHOOSE x \in levels : \A y \in levels : x >= y
    BY DEF Access
  <2> HIDE DEF levels, given
  <2>8. (given = {} <=> Access(u) = 0) /\ \A d \in given : Access(u) >= dpShare[d]
    <3>1. CASE given = {}
      <4>1. levels = {}
        BY <2>5, <3>1
      <4> QED
        BY <2>7, <3>1, <4>1
    <3>2. CASE given # {}
      <4>1. levels # {}
        BY <2>5, <3>2
      <4>2. Access(u) \in levels /\ \A y \in levels : Access(u) >= y
        BY <2>6, <2>7, <4>1, HighestLevel
      <4> QED
        BY <2>5, <2>6, <3>2, <4>2
    <3> QED
      BY <3>1, <3>2
  <2> QED
    BY <2>8 DEF given
<1> QED
  BY <1>1, DeptStart, DeptStep, PTL DEF DeptSpec

-----------------------------------------------------------------------------
(****************************************************************************
 MCP servers: their health, their tools, the calls of a turn.
 ****************************************************************************)

Healths == Reached \cup {"unknown"}
ServerRows == [is : {"none", "live", "gone"}, active : BOOLEAN, transport : Transports, config : Transports,
               health : Healths, tools : SUBSET McTools, enabled : Exposes]
CheckRows == [pc : {"idle", "open", "ended"}, kind : {"test", "discover", "tools"}, of : McServers, saw : ServerRows,
              tries : 0..(McMaxAttempts - 1), result : Reached \cup {"none"}, tools : SUBSET McTools, alone : BOOLEAN]
SweepRows == [pc : {"idle", "probing", "notify"}, todo : SUBSET McServers, saw : [McServers -> ServerRows],
              result : [McServers -> Reached \cup {"none"}], alone : SUBSET McServers]

McpShape ==
  /\ mcRow \in [McServers -> ServerRows] /\ mcCheck \in [McChecks -> CheckRows] /\ mcSweep \in SweepRows
  /\ mcLog \in [McServers -> Seq({"ok", "fell"})]
  /\ mcLast \in [McServers -> [is : Healths, alone : BOOLEAN]]
  /\ mcFound \in [McServers -> SUBSET McTools]

\* A turn runs a tool at most once for each try.
CallBounded ==
  /\ mcCall.runs \in Nat /\ mcCall.tries \in Nat /\ mcCall.runs <= mcCall.tries /\ mcCall.tries <= MaxRuns
  /\ mcCall.pc = "called" => mcCall.tries <= 1
  /\ DOMAIN mcCall = {"pc", "runs", "tries", "turn"}

\* Who ended has a result and the tools it has found.
ResultsFound ==
  /\ \A c \in McChecks : mcCheck[c].pc = "ended" =>
       mcCheck[c].result \in Reached /\ mcCheck[c].tools \subseteq mcFound[mcCheck[c].of]
  /\ \A s \in McServers : mcRow[s].tools \subseteq mcFound[s]

\* The last thing the history tells of a server is that it was well.
ToldWell(s) == Len(mcLog[s]) > 0 /\ mcLog[s][Len(mcLog[s])] = "ok"
\* What is told of a server whose row, or whose row as the sweep has read it, is well.
WellIsTold ==
  \A s \in McServers : /\ mcRow[s].health = "ok" => ToldWell(s)
                       /\ mcSweep.pc = "probing" /\ mcSweep.saw[s].health = "ok" => ToldWell(s)

\* A check, or a sweep, that is alone has read the health the row has.
AloneIsFresh ==
  /\ \A c \in McChecks : LET k == mcCheck[c] IN
       k.pc # "idle" => /\ mcRow[k.of].is # "none"
                        /\ k.alone /\ Registered(k.of) => mcRow[k.of].health = k.saw.health
  /\ mcSweep.pc = "probing" => \A s \in mcSweep.alone :
       mcRow[s].is # "none" /\ (Registered(s) => mcRow[s].health = mcSweep.saw[s].health)
  /\ \A s \in McServers : mcRow[s].is = "none" => mcLast[s].is = "unknown" /\ mcRow[s].health = "unknown"

\* Only a registered server is known to be well.
AliveIfKnown == \A s \in McServers : mcRow[s].is # "live" => mcRow[s].health = "unknown"

\* One pair of falls has a recovery between.
ToldOnceIn(log) == \A i \in 1..Len(log) : log[i] = "fell" => i > 1 /\ log[i - 1] = "ok"

McpInv ==
  /\ McpShape /\ CallBounded /\ ResultsFound /\ ToldOnce /\ WellIsTold /\ AloneIsFresh /\ AliveIfKnown
  /\ HealthIsLast

-----------------------------------------------------------------------------
Logs == Seq({"ok", "fell"})

\* The rows of a server, a check and a sweep, as they are made.
LEMMA RowsAre ==
  /\ NoServer \in ServerRows /\ NoServer.health = "unknown" /\ NoServer.is = "none" /\ NoServer.tools = {}
  /\ RestCheck \in CheckRows /\ RestCheck.pc = "idle" /\ RestSweep \in SweepRows /\ RestSweep.pc = "idle"
  /\ RestSweep.alone = {} /\ \A kind \in Transports, e \in Exposes : /\ FreshServer(kind, e) \in ServerRows
                                        /\ FreshServer(kind, e).health = "unknown" /\ FreshServer(kind, e).is = "live"
                                        /\ FreshServer(kind, e).tools = {}
<1>1. \A kind \in Transports, e \in Exposes :
        /\ FreshServer(kind, e) \in ServerRows /\ FreshServer(kind, e).health = "unknown" /\ FreshServer(kind, e).is = "live"
        /\ FreshServer(kind, e).tools = {}
  BY DEF FreshServer, ServerRows, Healths
<1>2. "http" \in Transports /\ [all |-> TRUE, names |-> {}] \in Exposes
  BY DEF Transports, Exposes
<1> DEFINE row == FreshServer("http", [all |-> TRUE, names |-> {}])
<1>3. row \in ServerRows /\ row.health = "unknown" /\ row.tools = {}
  BY <1>1, <1>2
<1>4. NoServer = [[row EXCEPT !.is = "none"] EXCEPT !.active = FALSE]
  BY <1>3 DEF NoServer, ServerRows, FreshServer
<1> HIDE DEF row
<1>5. NoServer \in ServerRows /\ NoServer.health = "unknown" /\ NoServer.is = "none" /\ NoServer.tools = {}
  BY <1>3, <1>4 DEF ServerRows
<1>6. (CHOOSE s \in McServers : TRUE) \in McServers
  BY McpAssumption
<1>7. RestCheck \in CheckRows /\ RestCheck.pc = "idle"
  BY <1>5, <1>6, McpAssumption DEF RestCheck, CheckRows
<1>8. RestSweep \in SweepRows /\ RestSweep.pc = "idle" /\ RestSweep.alone = {}
  BY <1>5 DEF RestSweep, SweepRows
<1> QED
  BY <1>1, <1>5, <1>7, <1>8

\* A call that succeeds ends the run of failures in the log of a server.
LEMMA LogEndsWell ==
  ASSUME NEW log \in Logs, ToldOnceIn(log)
  PROVE  LET new == Append(log, "ok") IN
         new \in Logs /\ ToldOnceIn(new) /\ Len(new) > 0 /\ new[Len(new)] = "ok"
<1> DEFINE new == Append(log, "ok")
<1>1. Len(log) \in Nat /\ new \in Logs /\ Len(new) = Len(log) + 1 /\ new[Len(log) + 1] = "ok"
      /\ \A i \in 1..Len(log) : new[i] = log[i]
  BY DEF Logs
<1> HIDE DEF new
<1>2. ASSUME NEW i \in 1..Len(new), new[i] = "fell" PROVE i > 1 /\ new[i - 1] = "ok"
  <2>1. i \in 1..Len(log) /\ log[i] = "fell"
    BY <1>1, <1>2
  <2>2. i > 1 /\ log[i - 1] = "ok"
    BY <2>1 DEF ToldOnceIn
  <2> QED
    BY <1>1, <2>1, <2>2
<1> QED
  BY <1>1, <1>2 DEF ToldOnceIn, new

\* A first failure after a success is one more fall in the log.
LEMMA LogFalls ==
  ASSUME NEW log \in Logs, ToldOnceIn(log), Len(log) > 0, log[Len(log)] = "ok"
  PROVE  log \o <<"fell">> \in Logs /\ ToldOnceIn(log \o <<"fell">>)
<1> DEFINE new == log \o <<"fell">>
<1>1. new = Append(log, "fell")
  BY DEF Logs
<1>2. Len(log) \in Nat /\ new \in Logs /\ Len(new) = Len(log) + 1 /\ \A i \in 1..Len(log) : new[i] = log[i]
  BY <1>1 DEF Logs
<1> HIDE DEF new
<1>3. ASSUME NEW i \in 1..Len(new), new[i] = "fell" PROVE i > 1 /\ new[i - 1] = "ok"
  <2>1. CASE i \in 1..Len(log)
    <3>1. i > 1 /\ log[i - 1] = "ok"
      BY <1>2, <1>3, <2>1 DEF ToldOnceIn
    <3> QED
      BY <1>2, <2>1, <3>1
  <2>2. CASE i = Len(log) + 1
    BY <1>2, <2>2
  <2> QED
    BY <1>2, <2>1, <2>2
<1> QED
  BY <1>2, <1>3 DEF ToldOnceIn, new

\* What McpInv says of one server and of one check.
LEMMA McpShapes ==
  ASSUME McpInv
  PROVE  /\ \A s \in McServers : mcRow[s] \in ServerRows /\ mcLog[s] \in Logs /\ ToldOnceIn(mcLog[s])
         /\ \A c \in McChecks : mcCheck[c] \in CheckRows
BY DEF McpInv, McpShape, ToldOnce, ToldOnceIn, Logs

-----------------------------------------------------------------------------
\* Edits of one row.
LEMMA RowStep ==
  ASSUME McpInv, NEW s \in McServers, NEW row \in ServerRows,
         mcRow' = [mcRow EXCEPT ![s] = row],
         UNCHANGED <<mcCheck, mcSweep, mcSeen>>, CallBounded',
         row.tools \subseteq mcRow[s].tools, row.is # "none",
         row.health # "unknown" => row.health = mcRow[s].health,
         row.is = "live" => row.health = mcRow[s].health /\ mcRow[s].is # "gone",
         row.is # "live" => row.health = "unknown"
  PROVE  McpInv'
<1>1. mcRow'[s] = row /\ \A t \in McServers \ {s} : mcRow'[t] = mcRow[t]
  BY DEF McpInv, McpShape
<1>2. McpShape' /\ ResultsFound' /\ ToldOnce'
  BY <1>1 DEF McpInv, McpShape, ResultsFound, ToldOnce, mcSeen
<1>3. WellIsTold'
  BY <1>1 DEF McpInv, WellIsTold, ToldWell, mcSeen
<1>4. \A t \in McServers : Registered(t)' => Registered(t) \/ (t = s /\ mcRow[s].is = "none")
  BY <1>1, RowsAre, McpShapes DEF Registered, ServerRows
<1>5. HealthIsLast'
  BY <1>1, <1>4 DEF McpInv, HealthIsLast, AloneIsFresh, mcSeen, Registered
<1>6. AloneIsFresh'
  <2>1. ASSUME NEW c \in McChecks, mcCheck[c].pc # "idle"
        PROVE  LET k == mcCheck[c] IN
               mcRow'[k.of].is # "none" /\ (k.alone /\ Registered(k.of)' => mcRow'[k.of].health = k.saw.health)
    <3>1. mcCheck[c].of \in McServers
      BY McpShapes DEF CheckRows
    <3>2. mcRow[mcCheck[c].of].is # "none"
      BY <2>1 DEF McpInv, AloneIsFresh
    <3> QED
      BY <1>1, <1>4, <2>1, <3>1, <3>2 DEF McpInv, AloneIsFresh, Registered
  <2>2. ASSUME mcSweep.pc = "probing", NEW t \in mcSweep.alone
        PROVE  mcRow'[t].is # "none" /\ (Registered(t)' => mcRow'[t].health = mcSweep.saw[t].health)
    <3>1. t \in McServers
      BY DEF McpInv, McpShape, SweepRows
    <3>2. mcRow[t].is # "none"
      BY <2>2 DEF McpInv, AloneIsFresh
    <3> QED
      BY <1>1, <1>4, <2>2, <3>1, <3>2 DEF McpInv, AloneIsFresh, Registered
  <2>3. \A t \in McServers : mcRow'[t].is = "none" => mcLast[t].is = "unknown" /\ mcRow'[t].health = "unknown"
    BY <1>1 DEF McpInv, AloneIsFresh
  <2> QED
    BY <2>1, <2>2, <2>3 DEF AloneIsFresh, mcSeen, Registered
<1>7. AliveIfKnown'
  BY <1>1 DEF McpInv, AliveIfKnown
<1> QED
  BY <1>2, <1>3, <1>5, <1>6, <1>7 DEF McpInv

\* Creating, updating or deleting a server keeps McpInv.
LEMMA ServerEditStep ==
  ASSUME McpInv, NEW s \in McServers, CreateServer(s) \/ UpdateServer(s) \/ DeleteServer(s)
  PROVE  McpInv'
<1>1. mcRow[s] \in ServerRows
  BY McpShapes
<1>2. CASE CreateServer(s)
  <2>1. PICK kind \in {"http", "stdio"} : mcRow' = [mcRow EXCEPT ![s] = FreshServer(kind, [all |-> TRUE, names |-> {}])]
    BY <1>2 DEF CreateServer
  <2>2. kind \in Transports /\ [all |-> TRUE, names |-> {}] \in Exposes
    BY DEF Transports, Exposes
  <2>3. mcRow[s].is = "none" /\ mcRow[s].health = "unknown" /\ UNCHANGED <<mcCheck, mcSweep, mcCall, mcSeen>>
    BY <1>2 DEF CreateServer, McpInv, AloneIsFresh
  <2> DEFINE row == FreshServer(kind, [all |-> TRUE, names |-> {}])
  <2>4. row \in ServerRows /\ row.health = "unknown" /\ row.is = "live" /\ row.tools = {}
    BY <2>2, RowsAre
  <2> HIDE DEF row
  <2>5. CallBounded'
    BY <2>3 DEF McpInv, CallBounded
  <2> QED
    BY <2>1, <2>3, <2>4, <2>5, RowStep DEF row
<1>3. CASE UpdateServer(s)
  <2>1. PICK row \in ServerUpdates(mcRow[s]) : mcRow' = [mcRow EXCEPT ![s] = row]
    BY <1>3 DEF UpdateServer
  <2>2. mcRow[s].is = "live" /\ UNCHANGED <<mcCheck, mcSweep, mcCall, mcSeen>>
    BY <1>3 DEF UpdateServer, Registered
  <2>3. row \in ServerRows /\ row.health = mcRow[s].health /\ row.is = mcRow[s].is /\ row.tools = mcRow[s].tools
    <3>1. CASE row = [mcRow[s] EXCEPT !.active = ~mcRow[s].active]
      BY <1>1, <3>1 DEF ServerRows
    <3>2. CASE \E e \in Exposes : row = [mcRow[s] EXCEPT !.enabled = e]
      BY <1>1, <3>2 DEF ServerRows
    <3>3. ASSUME NEW kind \in Transports, row = [mcRow[s] EXCEPT !.transport = kind, !.config = kind]
          PROVE  row \in ServerRows /\ row.health = mcRow[s].health /\ row.is = mcRow[s].is /\ row.tools = mcRow[s].tools
      <4>1. row = [[mcRow[s] EXCEPT !.transport = kind] EXCEPT !.config = kind]
        BY <1>1, <3>3
      <4> QED
        BY <1>1, <4>1 DEF ServerRows
    <3>4. CASE \E kind \in {"http", "stdio"} : row = [mcRow[s] EXCEPT !.config = kind]
      BY <1>1, <3>4 DEF ServerRows, Transports
    <3> QED
      BY <2>1, <3>1, <3>2, <3>3, <3>4 DEF ServerUpdates
  <2>4. CallBounded'
    BY <2>2 DEF McpInv, CallBounded
  <2> QED
    BY <2>1, <2>2, <2>3, <2>4, RowStep
<1>4. CASE DeleteServer(s)
  <2> DEFINE row == [NoServer EXCEPT !.is = "gone"]
  <2>1. row \in ServerRows /\ row.health = "unknown" /\ row.is = "gone" /\ row.tools = {}
    BY RowsAre DEF ServerRows
  <2>2. mcRow' = [mcRow EXCEPT ![s] = row] /\ UNCHANGED <<mcCheck, mcSweep, mcCall, mcSeen>>
    BY <1>4 DEF DeleteServer
  <2> HIDE DEF row
  <2>3. CallBounded'
    BY <2>2 DEF McpInv, CallBounded
  <2> QED
    BY <2>1, <2>2, <2>3, RowStep
<1> QED
  BY <1>2, <1>3, <1>4

-----------------------------------------------------------------------------
\* A check changes, and no row or history.
LEMMA CheckStep ==
  ASSUME McpInv, NEW c \in McChecks, NEW k \in CheckRows,
         mcCheck' = [mcCheck EXCEPT ![c] = k], mcFound' \in [McServers -> SUBSET McTools],
         \A s \in McServers : mcFound[s] \subseteq mcFound'[s],
         UNCHANGED <<mcRow, mcSweep, mcCall, mcLog, mcLast>>,
         k.pc # "idle" => /\ mcRow[k.of].is # "none"
                          /\ k.alone /\ Registered(k.of) => mcRow[k.of].health = k.saw.health,
         k.pc = "ended" => k.result \in Reached /\ k.tools \subseteq mcFound'[k.of]
  PROVE  McpInv'
<1>1. mcCheck'[c] = k /\ \A d \in McChecks \ {c} : mcCheck'[d] = mcCheck[d]
  BY DEF McpInv, McpShape
<1>2. McpShape' /\ CallBounded' /\ ToldOnce' /\ WellIsTold' /\ HealthIsLast' /\ AliveIfKnown'
  BY DEF McpInv, McpShape, CallBounded, ToldOnce, WellIsTold, ToldWell, HealthIsLast, AliveIfKnown, Registered
<1>3. ResultsFound'
  <2>1. \A d \in McChecks : mcCheck[d].of \in McServers
    BY McpShapes DEF CheckRows
  <2> QED
    BY <1>1, <2>1 DEF McpInv, ResultsFound
<1>4. AloneIsFresh'
  BY <1>1 DEF McpInv, AloneIsFresh, Registered
<1> QED
  BY <1>2, <1>3, <1>4 DEF McpInv

\* Opening a check keeps McpInv.
LEMMA OpenCheckStep ==
  ASSUME McpInv, NEW c \in McChecks, NEW s \in McServers, NEW kind \in {"test", "discover", "tools"}, OpenCheck(c, s, kind)
  PROVE  McpInv'
<1> DEFINE k == [RestCheck EXCEPT !.pc = "open", !.kind = kind, !.of = s, !.saw = mcRow[s]]
<1>1. k = [[[[RestCheck EXCEPT !.pc = "open"] EXCEPT !.kind = kind] EXCEPT !.of = s] EXCEPT !.saw = mcRow[s]]
  BY RowsAre DEF CheckRows
<1>2. mcRow[s] \in ServerRows /\ mcRow[s].is = "live"
  BY McpShapes DEF OpenCheck, Registered
<1>3. k \in CheckRows /\ k.pc = "open" /\ k.of = s /\ k.saw = mcRow[s]
  BY <1>1, <1>2, RowsAre DEF CheckRows
<1>4. mcCheck' = [mcCheck EXCEPT ![c] = k] /\ UNCHANGED <<mcRow, mcSweep, mcCall, mcLog, mcLast, mcFound>>
  BY DEF OpenCheck, mcSeen
<1> HIDE DEF k
<1>5. mcFound' \in [McServers -> SUBSET McTools]
  BY <1>4 DEF McpInv, McpShape
<1> QED
  BY <1>2, <1>3, <1>4, <1>5, CheckStep

\* An attempt to connect keeps McpInv.
LEMMA TryOpenStep ==
  ASSUME McpInv, NEW c \in McChecks, TryOpen(c)
  PROVE  McpInv'
<1> DEFINE k == mcCheck[c]
<1>1. k \in CheckRows /\ k.pc = "open" /\ k.of \in McServers /\ k.saw \in ServerRows /\ k.tries \in 0..(McMaxAttempts - 1)
  BY McpShapes DEF TryOpen, CheckRows
<1>2. PICK met \in Session(k.saw), N \in SUBSET McTools :
        /\ met # "ok" \/ k.kind = "test" => N = {}
        /\ mcCheck' = [mcCheck EXCEPT ![c] =
             IF GivesUp(met, k.tries)
             THEN [k EXCEPT !.pc = "ended", !.result = HealthFrom(met), !.tools = N, !.tries = 0]
             ELSE [k EXCEPT !.tries = @ + 1]]
        /\ mcFound' = IF met = "ok" THEN [mcFound EXCEPT ![k.of] = @ \cup N] ELSE mcFound
  BY Zenon DEF TryOpen
<1>3. UNCHANGED <<mcRow, mcSweep, mcCall, mcLog, mcLast, mcOps>>
  BY DEF TryOpen
<1>4. HealthFrom(met) \in Reached
  BY DEF HealthFrom, Reached
<1>5. /\ mcFound' \in [McServers -> SUBSET McTools] /\ \A s \in McServers : mcFound[s] \subseteq mcFound'[s]
      /\ N \subseteq mcFound'[k.of]
  BY <1>1, <1>2 DEF McpInv, McpShape
<1>6. /\ mcRow[k.of].is # "none"
      /\ k.alone /\ Registered(k.of) => mcRow[k.of].health = k.saw.health
  BY <1>1 DEF McpInv, AloneIsFresh
<1>7. CASE GivesUp(met, k.tries)
  <2> DEFINE new == [k EXCEPT !.pc = "ended", !.result = HealthFrom(met), !.tools = N, !.tries = 0]
  <2>1. new = [[[[k EXCEPT !.pc = "ended"] EXCEPT !.result = HealthFrom(met)] EXCEPT !.tools = N] EXCEPT !.tries = 0]
    BY <1>1 DEF CheckRows
  <2>3. mcCheck' = [mcCheck EXCEPT ![c] = new]
    BY <1>2, <1>7
  <2> HIDE DEF k
  <2>4. 0 \in 0..(McMaxAttempts - 1)
    BY McpAssumption
  <2>2. /\ new \in CheckRows /\ new.of = k.of /\ new.alone = k.alone /\ new.saw = k.saw /\ new.result = HealthFrom(met)
        /\ new.tools = N
    BY <1>1, <1>4, <2>1, <2>4 DEF CheckRows
  <2> HIDE DEF new
  <2> QED
    BY <1>3, <1>4, <1>5, <1>6, <2>2, <2>3, CheckStep
<1>8. CASE ~GivesUp(met, k.tries)
  <2> DEFINE new == [k EXCEPT !.tries = @ + 1]
  <2>1. k.tries + 1 # McMaxAttempts
    BY <1>8 DEF GivesUp
  <2>4. mcCheck' = [mcCheck EXCEPT ![c] = new]
    BY <1>2, <1>8
  <2> HIDE DEF k
  <2>2. k.tries + 1 \in 0..(McMaxAttempts - 1)
    BY <1>1, <2>1, McpAssumption
  <2>3. new \in CheckRows /\ new.of = k.of /\ new.alone = k.alone /\ new.saw = k.saw /\ new.pc = "open"
    BY <1>1, <2>2 DEF CheckRows
  <2> HIDE DEF new
  <2> QED
    BY <1>3, <1>5, <1>6, <2>3, <2>4, CheckStep
<1> QED
  BY <1>7, <1>8

\* A check that gives up keeps McpInv.
LEMMA FailCheckStep ==
  ASSUME McpInv, NEW c \in McChecks, FailCheck(c)
  PROVE  McpInv'
<1>1. mcCheck' = [mcCheck EXCEPT ![c] = RestCheck] /\ UNCHANGED <<mcRow, mcSweep, mcCall, mcLog, mcLast, mcFound>>
  BY DEF FailCheck, mcSeen
<1>2. mcFound' \in [McServers -> SUBSET McTools]
  BY <1>1 DEF McpInv, McpShape
<1> QED
  BY <1>1, <1>2, RowsAre, CheckStep

\* What a commit leaves in the log of a server.
LEMMA LogOfCommit ==
  ASSUME McpInv, NEW s \in McServers, NEW health
  PROVE  LET log == WellLog(s, health) IN
         /\ log \in Logs /\ ToldOnceIn(log)
         /\ health = "ok" \/ ToldWell(s) => Len(log) > 0 /\ log[Len(log)] = "ok"
<1>1. mcLog[s] \in Logs /\ ToldOnceIn(mcLog[s]) /\ (mcRow[s].health = "ok" => ToldWell(s))
  BY McpShapes DEF McpInv, WellIsTold
<1>2. CASE health = "ok" /\ mcRow[s].health # "ok"
  BY <1>1, <1>2, LogEndsWell DEF WellLog
<1>3. CASE ~(health = "ok" /\ mcRow[s].health # "ok")
  BY <1>1, <1>3 DEF WellLog, ToldWell
<1> QED
  BY <1>2, <1>3

\* The commit of a check keeps McpInv.
LEMMA CommitCheckStep ==
  ASSUME McpInv, NEW c \in McChecks, CommitCheck(c)
  PROVE  McpInv'
<1> DEFINE k == mcCheck[c]
           s == k.of
           health == MarkWritten(mcRow[s].health, k.saw.health, k.result)
           tools == IF k.kind = "test" THEN mcRow[s].tools ELSE MarkWritten(mcRow[s].tools, k.saw.tools, k.tools)
           row == [[mcRow[s] EXCEPT !.health = health] EXCEPT !.tools = tools]
           log == WellLog(s, health)
<1>1. /\ k \in CheckRows /\ s \in McServers /\ k.saw \in ServerRows /\ k.pc = "ended" /\ k.result \in Reached
      /\ k.tools \subseteq mcFound[s] /\ Registered(s) /\ mcRow[s] \in ServerRows /\ mcRow[s].tools \subseteq mcFound[s]
  BY McpShapes DEF CommitCheck, CheckRows, McpInv, ResultsFound
<1>2. health \in Healths /\ tools \subseteq mcFound[s] /\ tools \subseteq McTools
  BY <1>1 DEF MarkWritten, ServerRows, CheckRows, Healths
<1>3. k.alone => health = k.result
  BY <1>1 DEF McpInv, AloneIsFresh, MarkWritten
<1>4. mcRow' = [mcRow EXCEPT ![s] = row]
  BY <1>1 DEF CommitCheck, McpInv, McpShape, ServerRows
<1>5. /\ mcLog' = [mcLog EXCEPT ![s] = log] /\ mcLast' = [mcLast EXCEPT ![s] = [is |-> k.result, alone |-> k.alone]]
      /\ mcCheck' = [d \in McChecks |-> IF d = c THEN RestCheck ELSE [mcCheck[d] EXCEPT !.alone = @ /\ mcCheck[d].of # s]]
      /\ mcSweep' = [mcSweep EXCEPT !.alone = @ \ {s}] /\ UNCHANGED <<mcCall, mcFound, mcOps>>
  BY DEF CommitCheck
<1>6. /\ log \in Logs /\ ToldOnceIn(log) /\ (health = "ok" \/ ToldWell(s) => Len(log) > 0 /\ log[Len(log)] = "ok")
  BY <1>1, LogOfCommit
<1> HIDE DEF health, tools, log
<1>7. row \in ServerRows /\ row.health = health /\ row.tools = tools /\ row.is = mcRow[s].is
  BY <1>1, <1>2 DEF ServerRows
<1> HIDE DEF row
<1>8. /\ mcRow' \in [McServers -> ServerRows] /\ mcRow'[s] = row /\ \A t \in McServers \ {s} : mcRow'[t] = mcRow[t]
      /\ mcLog'[s] = log /\ \A t \in McServers \ {s} : mcLog'[t] = mcLog[t]
      /\ mcLog' \in [McServers -> Seq({"ok", "fell"})]
      /\ mcLast'[s] = [is |-> k.result, alone |-> k.alone] /\ \A t \in McServers \ {s} : mcLast'[t] = mcLast[t]
      /\ mcLast' \in [McServers -> [is : Healths, alone : BOOLEAN]]
  <2>1. k.alone \in BOOLEAN /\ k.result \in Healths
    BY <1>1 DEF CheckRows, Healths
  <2> HIDE DEF k, s
  <2> QED
    BY <1>1, <1>4, <1>5, <1>6, <1>7, <2>1 DEF McpInv, McpShape, Logs
<1>9. /\ mcSweep' \in SweepRows /\ mcSweep'.pc = mcSweep.pc /\ mcSweep'.saw = mcSweep.saw /\ mcSweep'.alone = mcSweep.alone \ {s}
  BY <1>5 DEF McpInv, McpShape, SweepRows
<1>10. ASSUME NEW d \in McChecks
       PROVE  /\ mcCheck'[d] \in CheckRows
              /\ d = c => mcCheck'[d].pc = "idle"
              /\ d # c => /\ mcCheck'[d].pc = mcCheck[d].pc /\ mcCheck'[d].of = mcCheck[d].of /\ mcCheck'[d].saw = mcCheck[d].saw
                          /\ mcCheck'[d].result = mcCheck[d].result /\ mcCheck'[d].tools = mcCheck[d].tools
                          /\ mcCheck'[d].alone => mcCheck[d].alone /\ mcCheck[d].of # s
  <2>1. mcCheck[d] \in CheckRows
    BY McpShapes
  <2>2. CASE d = c
    BY <1>5, <2>2, RowsAre
  <2>3. CASE d # c
    <3>1. mcCheck'[d] = [mcCheck[d] EXCEPT !.alone = mcCheck[d].alone /\ mcCheck[d].of # s]
      BY <1>5, <2>3
    <3> HIDE DEF k, s
    <3>2. (mcCheck[d].alone /\ mcCheck[d].of # s) \in BOOLEAN
      OBVIOUS
    <3> QED
      BY <2>1, <2>3, <3>1, <3>2 DEF CheckRows
  <2> QED
    BY <2>2, <2>3
<1>11. mcCheck' \in [McChecks -> CheckRows]
  <2>1. mcCheck' = [d \in McChecks |-> mcCheck'[d]]
    BY <1>5
  <2> QED
    BY <1>10, <2>1
<1> HIDE DEF k, s
<1>12. McpShape' /\ CallBounded'
  BY <1>5, <1>8, <1>9, <1>11 DEF McpInv, McpShape, CallBounded
<1>13. ResultsFound'
  <2>1. ASSUME NEW d \in McChecks, mcCheck'[d].pc = "ended"
        PROVE  mcCheck'[d].result \in Reached /\ mcCheck'[d].tools \subseteq mcFound[mcCheck'[d].of]
    <3>1. d # c
      BY <1>10, <2>1
    <3> QED
      BY <1>10, <2>1, <3>1 DEF McpInv, ResultsFound
  <2>2. \A t \in McServers : mcRow'[t].tools \subseteq mcFound[t]
    BY <1>2, <1>7, <1>8 DEF McpInv, ResultsFound
  <2> QED
    BY <1>5, <2>1, <2>2 DEF ResultsFound
<1>14. ToldOnce'
  BY <1>6, <1>8 DEF McpInv, ToldOnce, ToldOnceIn
<1>15. WellIsTold'
  <2>1. ASSUME NEW t \in McServers PROVE ToldWell(t) => ToldWell(t)'
    BY <1>6, <1>8 DEF ToldWell
  <2>2. ASSUME NEW t \in McServers, mcRow'[t].health = "ok" PROVE ToldWell(t)'
    <3>1. CASE t = s
      BY <1>6, <1>7, <1>8, <2>2, <3>1 DEF ToldWell
    <3>2. CASE t # s
      BY <1>8, <2>1, <2>2, <3>2 DEF McpInv, WellIsTold
    <3> QED
      BY <3>1, <3>2
  <2>3. ASSUME NEW t \in McServers, mcSweep'.pc = "probing", mcSweep'.saw[t].health = "ok" PROVE ToldWell(t)'
    BY <1>9, <2>1, <2>3 DEF McpInv, WellIsTold
  <2> QED
    BY <2>2, <2>3 DEF WellIsTold
<1>16. \A t \in McServers : mcRow'[t].is = mcRow[t].is
  BY <1>7, <1>8
<1>17. HealthIsLast'
  BY <1>3, <1>7, <1>8, <1>16 DEF McpInv, HealthIsLast, Registered
<1>18. AloneIsFresh'
  <2>1. ASSUME NEW d \in McChecks, mcCheck'[d].pc # "idle"
        PROVE  LET q == mcCheck'[d] IN
               mcRow'[q.of].is # "none" /\ (q.alone /\ mcRow'[q.of].is = "live" => mcRow'[q.of].health = q.saw.health)
    <3>1. d # c /\ mcCheck[d].of \in McServers
      BY <1>10, <2>1, McpShapes DEF CheckRows
    <3>2. mcCheck'[d].of = mcCheck[d].of /\ mcCheck'[d].saw = mcCheck[d].saw /\ mcCheck[d].pc # "idle"
      BY <1>10, <2>1, <3>1
    <3>3. mcRow[mcCheck[d].of].is # "none"
      BY <3>2 DEF McpInv, AloneIsFresh
    <3>4. mcRow'[mcCheck'[d].of].is # "none"
      BY <1>16, <3>1, <3>2, <3>3
    <3>5. ASSUME mcCheck'[d].alone, mcRow'[mcCheck'[d].of].is = "live" PROVE mcRow'[mcCheck'[d].of].health = mcCheck'[d].saw.health
      <4>1. mcCheck[d].alone /\ mcCheck[d].of # s
        BY <1>10, <3>1, <3>5
      <4>2. mcRow'[mcCheck[d].of] = mcRow[mcCheck[d].of]
        BY <1>8, <3>1, <4>1
      <4>3. Registered(mcCheck[d].of)
        BY <3>2, <3>5, <4>2 DEF Registered
      <4> QED
        BY <3>2, <4>1, <4>2, <4>3 DEF McpInv, AloneIsFresh
    <3> QED
      BY <3>4, <3>5
  <2>2. ASSUME mcSweep'.pc = "probing", NEW t \in mcSweep'.alone
        PROVE  mcRow'[t].is # "none" /\ (Registered(t)' => mcRow'[t].health = mcSweep'.saw[t].health)
    <3>1. t \in McServers /\ t # s /\ t \in mcSweep.alone
      BY <1>9 DEF McpInv, McpShape, SweepRows
    <3> QED
      BY <1>8, <1>9, <1>16, <2>2, <3>1 DEF McpInv, AloneIsFresh, Registered
  <2>3. \A t \in McServers : mcRow'[t].is = "none" => mcLast'[t].is = "unknown" /\ mcRow'[t].health = "unknown"
    BY <1>1, <1>8, <1>16 DEF McpInv, AloneIsFresh, Registered
  <2> QED
    BY <2>1, <2>2, <2>3 DEF AloneIsFresh, Registered
<1>19. AliveIfKnown'
  BY <1>1, <1>8, <1>16 DEF McpInv, AliveIfKnown, Registered
<1> QED
  BY <1>12, <1>13, <1>14, <1>15, <1>17, <1>18, <1>19 DEF McpInv

-----------------------------------------------------------------------------
\* The sweep changes, and no row, check or history.
LEMMA SweepStep ==
  ASSUME McpInv, mcSweep' \in SweepRows,
         UNCHANGED <<mcRow, mcCheck, mcCall, mcSeen>>,
         \A s \in McServers : mcSweep'.pc = "probing" /\ mcSweep'.saw[s].health = "ok" => ToldWell(s),
         mcSweep'.pc = "probing" => \A s \in mcSweep'.alone :
           mcRow[s].is # "none" /\ (Registered(s) => mcRow[s].health = mcSweep'.saw[s].health)
  PROVE  McpInv'
<1>1. McpShape' /\ CallBounded' /\ ResultsFound' /\ ToldOnce' /\ HealthIsLast' /\ AliveIfKnown'
  BY DEF McpInv, AliveIfKnown, McpShape, CallBounded, ResultsFound, ToldOnce, HealthIsLast, Registered, mcSeen
<1>2. WellIsTold'
  BY DEF McpInv, WellIsTold, ToldWell, mcSeen
<1>3. AloneIsFresh'
  BY DEF McpInv, AloneIsFresh, Registered, mcSeen
<1> QED
  BY <1>1, <1>2, <1>3 DEF McpInv

\* The start of a health sweep keeps McpInv.
LEMMA StartSweepStep ==
  ASSUME McpInv, StartSweep
  PROVE  McpInv'
<1> DEFINE S == {s \in McServers : Registered(s) /\ mcRow[s].active}
           w == [RestSweep EXCEPT !.pc = "probing", !.todo = S, !.saw = mcRow, !.alone = S]
<1>1. w = [[[[RestSweep EXCEPT !.pc = "probing"] EXCEPT !.todo = S] EXCEPT !.saw = mcRow] EXCEPT !.alone = S]
  BY RowsAre DEF SweepRows
<1>2. mcRow \in [McServers -> ServerRows] /\ S \subseteq McServers
  BY DEF McpInv, McpShape
<1>3. w \in SweepRows /\ w.pc = "probing" /\ w.saw = mcRow /\ w.alone = S
  BY <1>1, <1>2, RowsAre DEF SweepRows
<1>4. mcSweep' = w /\ UNCHANGED <<mcRow, mcCheck, mcCall, mcSeen>>
  BY DEF StartSweep
<1>5. \A s \in S : s \in McServers /\ mcRow[s].is # "none"
  BY DEF Registered
<1> HIDE DEF w, S
<1>6. \A s \in McServers : mcRow[s].health = "ok" => ToldWell(s)
  BY DEF McpInv, WellIsTold
<1> QED
  BY <1>3, <1>4, <1>5, <1>6, SweepStep

\* A probe of one server keeps McpInv.
LEMMA ProbeStep ==
  ASSUME McpInv, NEW s \in McServers, Probe(s)
  PROVE  McpInv'
<1>1. PICK met \in Session(mcSweep.saw[s]) : mcSweep' = [mcSweep EXCEPT !.todo = @ \ {s}, !.result[s] = HealthFrom(met)]
  BY DEF Probe
<1>2. mcSweep \in SweepRows /\ mcSweep.pc = "probing" /\ UNCHANGED <<mcRow, mcCheck, mcCall, mcSeen>>
  BY DEF Probe, McpInv, McpShape
<1>3. HealthFrom(met) \in Reached
  BY DEF HealthFrom, Reached
<1> DEFINE result == [mcSweep.result EXCEPT ![s] = HealthFrom(met)]
<1>4. result \in [McServers -> Reached \cup {"none"}]
  BY <1>2, <1>3 DEF SweepRows
<1>5. mcSweep' = [[mcSweep EXCEPT !.todo = mcSweep.todo \ {s}] EXCEPT !.result = result]
  BY <1>1, <1>2 DEF SweepRows
<1> HIDE DEF result
<1>6. mcSweep' \in SweepRows /\ mcSweep'.pc = "probing" /\ mcSweep'.saw = mcSweep.saw /\ mcSweep'.alone = mcSweep.alone
  BY <1>2, <1>4, <1>5 DEF SweepRows
<1>7. \A t \in McServers : mcSweep.saw[t].health = "ok" => ToldWell(t)
  BY <1>2 DEF McpInv, WellIsTold
<1>8. \A t \in mcSweep.alone : mcRow[t].is # "none" /\ (Registered(t) => mcRow[t].health = mcSweep.saw[t].health)
  BY <1>2 DEF McpInv, AloneIsFresh
<1> QED
  BY <1>2, <1>6, <1>7, <1>8, SweepStep

\* The notices of a sweep, or its death, keep McpInv.
LEMMA EndSweepStep ==
  ASSUME McpInv, Notify \/ SweepDies
  PROVE  McpInv'
<1>1. mcSweep' = RestSweep /\ UNCHANGED <<mcRow, mcCheck, mcCall, mcSeen>>
  BY DEF Notify, SweepDies
<1> QED
  BY <1>1, RowsAre, SweepStep

\* A turn of an agent: no row, check, sweep or history changes.
LEMMA TurnCallStep ==
  ASSUME McpInv, CallBounded', UNCHANGED <<mcRow, mcCheck, mcSweep, mcSeen>>
  PROVE  McpInv'
<1>1. McpShape' /\ ResultsFound' /\ ToldOnce' /\ HealthIsLast' /\ WellIsTold' /\ AloneIsFresh' /\ AliveIfKnown'
  BY DEF McpInv, AliveIfKnown, McpShape, ResultsFound, ToldOnce, HealthIsLast, Registered, WellIsTold, ToldWell, AloneIsFresh, mcSeen
<1> QED
  BY <1>1 DEF McpInv

\* The tool calls of a turn keep McpInv.
LEMMA ToolStep ==
  ASSUME McpInv, OpenTurn \/ CallTool \/ EndToolCall
  PROVE  McpInv'
<1>1. UNCHANGED <<mcRow, mcCheck, mcSweep, mcSeen>>
  BY DEF OpenTurn, CallTool, EndToolCall
<1>2. CASE OpenTurn
  <2>1. mcCall'.runs = 0 /\ mcCall'.tries = 0 /\ DOMAIN mcCall' = {"pc", "runs", "tries", "turn"}
    BY <1>2 DEF OpenTurn, RestCall
  <2> QED
    BY <1>1, <2>1, TurnCallStep DEF CallBounded, MaxRuns
<1>3. CASE CallTool
  <2>1. PICK met \in {"ok", "timeout", "transient", "permanent"}, ran \in BOOLEAN :
          mcCall' = [mcCall EXCEPT !.runs = @ + (IF ran THEN 1 ELSE 0), !.tries = @ + 1,
                                   !.pc = IF Transient(met) /\ mcCall.tries = 0 THEN "called"
                                          ELSE IF met = "ok" THEN "ok" ELSE "error"]
    BY <1>3 DEF CallTool
  <2>2. mcCall.runs \in Nat /\ mcCall.tries \in Nat /\ mcCall.runs <= mcCall.tries /\ mcCall.tries <= 1
    BY <1>3 DEF CallTool, McpInv, CallBounded
  <2>3. /\ mcCall'.tries = mcCall.tries + 1 /\ (mcCall'.runs = mcCall.runs \/ mcCall'.runs = mcCall.runs + 1)
        /\ mcCall'.pc = "called" => mcCall.tries = 0
        /\ DOMAIN mcCall' = {"pc", "runs", "tries", "turn"}
    BY <2>1, <2>2 DEF McpInv, CallBounded, Transient
  <2> QED
    BY <1>1, <2>2, <2>3, TurnCallStep DEF CallBounded, MaxRuns
<1>4. CASE EndToolCall
  <2>1. mcCall'.runs = 0 /\ mcCall'.tries = 0 /\ DOMAIN mcCall' = {"pc", "runs", "tries", "turn"}
    BY <1>4 DEF EndToolCall, RestCall
  <2> QED
    BY <1>1, <2>1, TurnCallStep DEF CallBounded, MaxRuns
<1> QED
  BY <1>2, <1>3, <1>4

\* The commit of a sweep.
LEMMA CommitSweepStep ==
  ASSUME McpInv, CommitSweep
  PROVE  McpInv'
<1> DEFINE W == {s \in Swept : Registered(s)}
           health(s) == IF s \in W THEN MarkWritten(mcRow[s].health, mcSweep.saw[s].health, mcSweep.result[s])
                                   ELSE mcRow[s].health
           row(s) == [mcRow[s] EXCEPT !.health = health(s)]
           kept(s) == IF s \in W THEN WellLog(s, health(s)) ELSE mcLog[s]
           log(s) == kept(s) \o IF s \in Fallen(mcSweep) THEN <<"fell">> ELSE <<>>
           last(s) == IF s \in W THEN [is |-> mcSweep.result[s], alone |-> s \in mcSweep.alone] ELSE mcLast[s]
<1>1. /\ mcSweep \in SweepRows /\ mcSweep.pc = "probing" /\ W \subseteq McServers
      /\ \A s \in McServers : mcRow[s] \in ServerRows /\ mcSweep.saw[s] \in ServerRows /\ mcSweep.result[s] \in Reached \cup {"none"}
      /\ \A s \in W : mcSweep.result[s] \in Reached /\ Registered(s)
  BY McpShapes DEF CommitSweep, McpInv, McpShape, SweepRows, Swept
<1>2. /\ mcRow' = [s \in McServers |-> row(s)] /\ mcLog' = [s \in McServers |-> log(s)]
      /\ mcLast' = [s \in McServers |-> last(s)]
      /\ mcCheck' = [d \in McChecks |-> [mcCheck[d] EXCEPT !.alone = @ /\ mcCheck[d].of \notin W]]
      /\ mcSweep' = [mcSweep EXCEPT !.pc = "notify"] /\ UNCHANGED <<mcCall, mcFound, mcOps>>
  BY DEF CommitSweep, Intrudes
<1>3. \A s \in McServers : health(s) \in Healths
  BY <1>1 DEF MarkWritten, ServerRows, Healths
<1>4. ASSUME NEW s \in W, s \in mcSweep.alone PROVE health(s) = mcSweep.result[s]
  BY <1>1, <1>4 DEF McpInv, AloneIsFresh, MarkWritten
<1>5. ASSUME NEW s \in McServers
      PROVE  log(s) \in Logs /\ ToldOnceIn(log(s)) /\ (health(s) = "ok" /\ mcRow[s].is = "live" => Len(log(s)) > 0 /\ log(s)[Len(log(s))] = "ok")
  <2>1. /\ kept(s) \in Logs /\ ToldOnceIn(kept(s))
        /\ health(s) = "ok" \/ ToldWell(s) => Len(kept(s)) > 0 /\ kept(s)[Len(kept(s))] = "ok"
    <3>1. CASE s \in W
      BY <3>1, LogOfCommit
    <3>2. CASE s \notin W
      BY <3>2, McpShapes DEF McpInv, WellIsTold, ToldWell
    <3> QED
      BY <3>1, <3>2
  <2>2. CASE s \in Fallen(mcSweep)
    <3>1. mcSweep.saw[s].health = "ok" /\ mcSweep.result[s] # "ok" /\ mcSweep.result[s] # "none"
      BY <2>2 DEF Fallen, Reached
    <3>2. ToldWell(s)
      BY <1>1, <3>1 DEF McpInv, WellIsTold
    <3>3. mcRow[s].is = "live" => health(s) # "ok"
      BY <1>1, <3>1 DEF MarkWritten, Swept, Registered
    <3>4. log(s) = kept(s) \o <<"fell">>
      BY <2>2
    <3> HIDE DEF kept, log, health
    <3> QED
      BY <2>1, <3>2, <3>3, <3>4, LogFalls
  <2>3. CASE s \notin Fallen(mcSweep)
    <3>1. log(s) = kept(s) \o <<>>
      BY <2>3
    <3> HIDE DEF kept, log, health
    <3>2. log(s) = kept(s)
      BY <2>1, <3>1 DEF Logs
    <3> QED
      BY <2>1, <3>2
  <2> QED
    BY <2>2, <2>3
<1>6. ASSUME NEW s \in McServers
      PROVE  row(s) \in ServerRows /\ row(s).health = health(s) /\ row(s).is = mcRow[s].is /\ row(s).tools = mcRow[s].tools
  <2> HIDE DEF health
  <2> QED
    BY <1>1, <1>3 DEF ServerRows
<1>7. ASSUME NEW s \in McServers PROVE last(s) \in [is : Healths, alone : BOOLEAN]
  BY <1>1 DEF McpInv, McpShape, Healths
<1>8. ASSUME NEW d \in McChecks
      PROVE  /\ mcCheck'[d] \in CheckRows
             /\ mcCheck'[d].pc = mcCheck[d].pc /\ mcCheck'[d].of = mcCheck[d].of /\ mcCheck'[d].saw = mcCheck[d].saw
             /\ mcCheck'[d].result = mcCheck[d].result /\ mcCheck'[d].tools = mcCheck[d].tools
             /\ mcCheck'[d].alone => mcCheck[d].alone /\ mcCheck[d].of \notin W
  <2>1. mcCheck[d] \in CheckRows
    BY McpShapes
  <2>2. mcCheck'[d] = [mcCheck[d] EXCEPT !.alone = mcCheck[d].alone /\ mcCheck[d].of \notin W]
    BY <1>2
  <2> HIDE DEF W
  <2>3. (mcCheck[d].alone /\ mcCheck[d].of \notin W) \in BOOLEAN
    OBVIOUS
  <2> QED
    BY <2>1, <2>2, <2>3 DEF CheckRows
<1>9. mcCheck' \in [McChecks -> CheckRows]
  <2>1. mcCheck' = [d \in McChecks |-> mcCheck'[d]]
    BY <1>2
  <2> QED
    BY <1>8, <2>1
<1>10. mcSweep' \in SweepRows /\ mcSweep'.pc = "notify"
  BY <1>1, <1>2 DEF SweepRows
<1>11. \A s \in McServers \ W : health(s) = mcRow[s].health /\ last(s) = mcLast[s]
  OBVIOUS
<1>12. \A s \in W : last(s) = [is |-> mcSweep.result[s], alone |-> s \in mcSweep.alone]
  OBVIOUS
<1> HIDE DEF row, log, last, health, W, kept
<1>13. McpShape' /\ CallBounded'
  BY <1>2, <1>5, <1>6, <1>7, <1>9, <1>10 DEF McpInv, McpShape, CallBounded, Logs
<1>14. ResultsFound'
  BY <1>2, <1>6, <1>8 DEF McpInv, ResultsFound
<1>15. ToldOnce'
  BY <1>2, <1>5 DEF ToldOnce, ToldOnceIn
<1>16. WellIsTold'
  <2>1. ASSUME NEW s \in McServers, mcRow'[s].health = "ok" PROVE Len(mcLog'[s]) > 0 /\ mcLog'[s][Len(mcLog'[s])] = "ok"
    <3>1. health(s) = "ok" /\ mcLog'[s] = log(s)
      BY <1>2, <1>6, <2>1
    <3>2. mcRow[s].is = "live"
      BY <1>1, <1>11, <3>1 DEF McpInv, AliveIfKnown, Registered
    <3> QED
      BY <1>5, <3>1, <3>2
  <2> QED
    BY <1>10, <2>1 DEF WellIsTold, ToldWell
<1>17. HealthIsLast'
  <2> SUFFICES ASSUME NEW s \in McServers, mcRow'[s].is = "live", mcLast'[s].alone PROVE mcRow'[s].health = mcLast'[s].is
    BY DEF HealthIsLast, Registered
  <2>1. mcRow[s].is = "live" /\ mcRow'[s].health = health(s) /\ mcLast'[s] = last(s)
    BY <1>2, <1>6
  <2>2. CASE s \in W
    <3>1. last(s) = [is |-> mcSweep.result[s], alone |-> s \in mcSweep.alone]
      BY <1>12, <2>2
    <3>2. mcLast'[s].is = mcSweep.result[s] /\ s \in mcSweep.alone
      <4>1. last(s).is = mcSweep.result[s] /\ last(s).alone = (s \in mcSweep.alone)
        BY <3>1
      <4>2. mcLast'[s].is = mcSweep.result[s] /\ mcLast'[s].alone = (s \in mcSweep.alone)
        BY <2>1, <4>1, Zenon
      <4> QED
        BY <4>2
    <3> QED
      BY <1>4, <2>1, <2>2, <3>2
  <2>3. CASE s \notin W
    BY <1>11, <2>1, <2>3 DEF McpInv, HealthIsLast, Registered
  <2> QED
    BY <2>2, <2>3
<1>18. AloneIsFresh'
  <2>1. ASSUME NEW d \in McChecks, mcCheck'[d].pc # "idle"
        PROVE  LET q == mcCheck'[d] IN
               mcRow'[q.of].is # "none" /\ (q.alone /\ mcRow'[q.of].is = "live" => mcRow'[q.of].health = q.saw.health)
    <3>1. mcCheck[d].of \in McServers /\ mcCheck'[d].of = mcCheck[d].of /\ mcCheck[d].pc # "idle"
      BY <1>8, <2>1, McpShapes DEF CheckRows
    <3>2. mcRow[mcCheck[d].of].is # "none" /\ mcRow'[mcCheck[d].of].is = mcRow[mcCheck[d].of].is
      BY <1>2, <1>6, <3>1 DEF McpInv, AloneIsFresh
    <3>3. ASSUME mcCheck'[d].alone, mcRow'[mcCheck'[d].of].is = "live" PROVE mcRow'[mcCheck'[d].of].health = mcCheck'[d].saw.health
      <4>1. mcCheck[d].alone /\ mcCheck[d].of \notin W /\ mcCheck'[d].saw = mcCheck[d].saw
        BY <1>8, <3>3
      <4>2. mcRow'[mcCheck[d].of].health = mcRow[mcCheck[d].of].health
        BY <1>2, <1>6, <1>11, <3>1, <4>1
      <4>3. Registered(mcCheck[d].of)
        BY <3>1, <3>2, <3>3 DEF Registered
      <4> QED
        BY <3>1, <4>1, <4>2, <4>3 DEF McpInv, AloneIsFresh
    <3> QED
      BY <3>1, <3>2, <3>3
  <2>2. ASSUME NEW s \in McServers, mcRow'[s].is = "none" PROVE mcLast'[s].is = "unknown" /\ mcRow'[s].health = "unknown"
    <3>1. mcRow[s].is = "none" /\ s \notin W /\ mcRow'[s].health = health(s) /\ mcLast'[s] = last(s)
      BY <1>1, <1>2, <1>6, <2>2 DEF Registered
    <3> QED
      BY <1>11, <3>1 DEF McpInv, AloneIsFresh
  <2> QED
    BY <1>10, <2>1, <2>2 DEF AloneIsFresh, Registered
<1>19. AliveIfKnown'
  BY <1>1, <1>2, <1>6, <1>11 DEF McpInv, AliveIfKnown, Registered
<1> QED
  BY <1>13, <1>14, <1>15, <1>16, <1>17, <1>18, <1>19 DEF McpInv

\* Every step keeps McpInv.
LEMMA McpStep == McpInv /\ [McpNext]_mcpVars => McpInv'
<1> SUFFICES ASSUME McpInv, [McpNext]_mcpVars PROVE McpInv'
  OBVIOUS
<1>1. ASSUME NEW s \in McServers, CreateServer(s) \/ UpdateServer(s) \/ DeleteServer(s) PROVE McpInv'
  BY <1>1, ServerEditStep
<1>2. ASSUME NEW s \in McServers, Probe(s) PROVE McpInv'
  BY <1>2, ProbeStep
<1>3. ASSUME NEW s \in McServers, NEW c \in McChecks, NEW kind \in {"test", "discover", "tools"}, OpenCheck(c, s, kind)
      PROVE  McpInv'
  BY <1>3, OpenCheckStep
<1>4. ASSUME NEW c \in McChecks, TryOpen(c) \/ CommitCheck(c) \/ FailCheck(c) PROVE McpInv'
  BY <1>4, TryOpenStep, CommitCheckStep, FailCheckStep
<1>5. CASE StartSweep \/ CommitSweep \/ Notify \/ SweepDies
  BY <1>5, StartSweepStep, CommitSweepStep, EndSweepStep
<1>6. CASE OpenTurn \/ CallTool \/ EndToolCall
  BY <1>6, ToolStep
<1>7. CASE UNCHANGED mcpVars
  <2>1. CallBounded'
    BY <1>7 DEF mcpVars, McpInv, CallBounded
  <2> QED
    BY <1>7, <2>1, TurnCallStep DEF mcpVars, mcSeen
<1> QED
  BY <1>1, <1>2, <1>3, <1>4, <1>5, <1>6, <1>7 DEF McpNext

\* McpInv holds at the start.
LEMMA McpStart == McpInit => McpInv
<1> SUFFICES ASSUME McpInit PROVE McpInv
  OBVIOUS
<1>1. McpShape
  BY RowsAre DEF McpInit, McpShape, Healths
<1>2. CallBounded
  BY DEF McpInit, CallBounded, RestCall, MaxRuns
<1>3. ResultsFound /\ AloneIsFresh /\ AliveIfKnown /\ WellIsTold /\ HealthIsLast
  BY RowsAre DEF McpInit, ResultsFound, AloneIsFresh, AliveIfKnown, WellIsTold, HealthIsLast, Registered
<1>4. ToldOnce
  BY DEF McpInit, ToldOnce
<1> QED
  BY <1>1, <1>2, <1>3, <1>4 DEF McpInv

\* The type invariant is part of McpInv.
LEMMA McpTypes == McpInv => McpTypeOK
<1> SUFFICES ASSUME McpInv PROVE McpTypeOK
  OBVIOUS
<1>1. ASSUME NEW s \in McServers
      PROVE  /\ mcRow[s].health \in Reached \cup {"unknown"} /\ mcRow[s].tools \subseteq McTools
             /\ mcRow[s].transport \in Transports /\ mcRow[s].enabled \in Exposes
             /\ mcLog[s] \in Seq({"ok", "fell"}) /\ mcLast[s].is \in Reached \cup {"unknown"}
  BY McpShapes DEF McpInv, McpShape, ServerRows, Healths
<1>2. \A c \in McChecks : mcCheck[c].tries \in 0..(McMaxAttempts - 1) /\ mcCheck[c].of \in McServers
  BY McpShapes DEF CheckRows
<1>3. mcSweep.pc \in {"idle", "probing", "notify"} /\ mcCall.runs \in 0..MaxRuns
  BY DEF McpInv, McpShape, SweepRows, CallBounded, MaxRuns
<1> QED
  BY <1>1, <1>2, <1>3 DEF McpTypeOK

\* A failure of a server is told at most once for each time it was well, a row shows what its
\* last check met, and agents are offered only tools a discovery returned and an administrator
\* allowed: mcp/service.py and mcp_health_check, however tests, discoveries, sweeps and edits
\* of the registry overlap.
THEOREM RegistryIsSound == McpSpec => []McpSound
<1>1. McpInit => McpInv
  BY McpStart
<1>2. McpInv /\ [McpNext]_mcpVars => McpInv'
  BY McpStep
<1>3. McpInv => McpSound
  <2>1. McpInv => ToolsDiscovered
    BY DEF McpInv, ResultsFound, ToolsDiscovered, Exposed
  <2> QED
    BY <2>1 DEF McpInv, McpSound
<1> QED
  BY <1>1, <1>2, <1>3, PTL DEF McpSpec

=============================================================================
