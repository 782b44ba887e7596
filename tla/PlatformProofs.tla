---------------------------- MODULE PlatformProofs ----------------------------
(***************************************************************************)
(* The components around the knowledge bases together: each behaves as it  *)
(* does alone, so that what is proved of it alone holds beside the others. *)
(***************************************************************************)
EXTENDS MCPlatform, AdministrationProofs, ConversationProofs, PublishedWorkflowProofs

\* A behaviour of the platform is one of every component: the components share no
\* variable, and a step of one leaves the others alone.
LEMMA EachComponent ==
  Spec => /\ ChatSpec /\ ConfigSpec /\ AccountSpec /\ DeptSpec /\ EventSpec
          /\ OrchSpec /\ ModelSpec /\ GraphSpec /\ VersionSpec /\ McpSpec
<1>1. Init => /\ ChatInit /\ ConfigInit /\ AccountInit /\ DeptInit /\ EventInit
              /\ OrchInit /\ ModelInit /\ GraphInit /\ VersionInit /\ McpInit
  BY DEF Init
<1>2. ASSUME [Next]_<<section, chatVars, configVars, accountVars, deptVars, eventVars, orchVars, modelVars,
                      graphVars, versionVars, mcpVars>>
      PROVE  /\ [ChatNext]_chatVars /\ [ConfigNext]_configVars /\ [AccountNext]_accountVars
             /\ [DeptNext]_deptVars /\ [EventNext]_eventVars /\ [OrchNext]_orchVars
             /\ [ModelNext]_modelVars /\ [GraphNext]_graphVars /\ [VersionNext]_versionVars /\ [McpNext]_mcpVars
  BY <1>2 DEF Next, Only
<1> QED
  BY <1>1, <1>2, PTL
     DEF Spec, ChatSpec, ConfigSpec, AccountSpec, DeptSpec, EventSpec, OrchSpec, ModelSpec, GraphSpec, VersionSpec, McpSpec

\* Every variable of the component that runs holds values of its type, for every size of
\* the constants.
THEOREM PlatformTypeCorrect == Spec => []PlatformTypesOK
<1>1. ChatSpec => []ChatTypeOK
  BY ChatStart, ChatStep, PTL DEF ChatSpec, ChatInv
<1>2. AccountSpec => []AccountTypeOK
  BY AccountStart, AccountStep, PTL DEF AccountSpec, AccountInv
<1>3. DeptSpec => []DeptTypeOK
  BY DeptStart, DeptStep, PTL DEF DeptSpec
<1>4. EventSpec => []EventTypeOK
  BY EventStart, EventStep, EventTypes, PTL DEF EventSpec
<1>5. OrchSpec => []OrchTypeOK
  BY OrchStart, OrchStep, OrchTypes, PTL DEF OrchSpec
<1>6. VersionSpec => []VersionTypeOK
  BY VersionStart, VersionStep, VersionTypes, PTL DEF VersionSpec
<1>7. McpSpec => []McpTypeOK
  BY McpStart, McpStep, McpTypes, PTL DEF McpSpec
<1>8. section \in Components /\ ChatTypeOK /\ ConfigTypeOK /\ AccountTypeOK /\ DeptTypeOK /\ EventTypeOK /\ OrchTypeOK
      /\ ModelTypeOK /\ GraphTypeOK /\ VersionTypeOK /\ McpTypeOK => PlatformTypesOK
  BY DEF PlatformTypesOK, Components
<1>9. Init => section \in Components
  BY DEF Init
<1>10. section \in Components /\ [Next]_<<section, chatVars, configVars, accountVars, deptVars, eventVars, orchVars,
                                         modelVars, graphVars, versionVars, mcpVars>>
       => (section \in Components)'
  BY DEF Next, Only
<1> QED
  BY <1>1, <1>2, <1>3, <1>4, <1>5, <1>6, <1>7, <1>8, <1>9, <1>10, EachComponent, ConfigTypes, ModelTypes, GraphTypes, PTL DEF Spec
=============================================================================
