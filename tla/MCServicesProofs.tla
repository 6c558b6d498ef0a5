-------------------------- MODULE MCServicesProofs --------------------------
(***************************************************************************)
(* The components that MCServices puts side by side do not touch one       *)
(* another, so what is proved of each holds of them together.              *)
(***************************************************************************)
EXTENDS MCServices, GeminiChatProofs, ServicesProofs, ChatRecordingProofs, TLAPS

\* A step of one component leaves the variables of the others alone.
LEMMA StepsApart ==
    ASSUME [Next]_vars
    PROVE  /\ [ChatNext]_chatVars /\ [FallbackNext]_modelVars /\ [StreamNext]_streamVars
           /\ [BusNext]_busVars /\ [A2aNext]_taskVars /\ [McpNext]_toolListVars
           /\ [MemoryLockNext]_lockFileVars /\ [ExecutionNext]_execVars
           /\ [RecordingNext]_recordingVars /\ [AgentNext]_agentVars
<1>1. CASE Next
  BY <1>1 DEF Next
<1>2. CASE UNCHANGED vars
  BY <1>2 DEF vars
<1> QED BY <1>1, <1>2

\* Whatever the others do, each component does what its own specification says.
THEOREM ComponentsRun ==
    Spec => /\ ChatSpec /\ FallbackSpec /\ StreamSpec /\ BusSpec /\ A2aSpec
            /\ McpSpec /\ MemoryLockSpec /\ ExecutionSpec /\ RecordingSpec /\ AgentSpec
<1>1. Init => /\ ChatInit /\ FallbackInit /\ StreamInit /\ BusInit /\ A2aInit
              /\ McpInit /\ MemoryLockInit /\ ExecutionInit /\ RecordingInit /\ AgentInit
  BY DEF Init
<1>2. [Next]_vars => /\ [ChatNext]_chatVars /\ [FallbackNext]_modelVars /\ [StreamNext]_streamVars
                     /\ [BusNext]_busVars /\ [A2aNext]_taskVars /\ [McpNext]_toolListVars
                     /\ [MemoryLockNext]_lockFileVars /\ [ExecutionNext]_execVars
                     /\ [RecordingNext]_recordingVars /\ [AgentNext]_agentVars
  BY StepsApart
<1> QED BY <1>1, <1>2, PTL DEF Spec, ChatSpec, FallbackSpec, StreamSpec, BusSpec, A2aSpec,
           McpSpec, MemoryLockSpec, ExecutionSpec, RecordingSpec, AgentSpec

\* The variables of all components keep their types, when at most one send waits
\* and no step stops behind a response it has made up.
THEOREM ServicesTypes == ASSUME ~ManyWaiters, ~Misplaces PROVE Spec => []TypesOK
<1>1. ChatTypeOK /\ FallbackTypeOK /\ BusTypeOK /\ A2aTypeOK /\ McpTypeOK /\ LockTypeOK
      /\ ExecutionTypeOK /\ RecordingTypeOK /\ AgentTypeOK => TypesOK
  BY DEF TypesOK
<1> QED BY <1>1, ComponentsRun, ChatTypes, FallbackTypes, BusTypes, A2aTypes, McpTypes,
           LockTypes, ExecutionTypes, RecordingTypes, AgentTypes, PTL
=============================================================================
