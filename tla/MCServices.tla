----------------------------- MODULE MCServices -----------------------------
(***************************************************************************)
(* The components that share no state with one another, for TLC: one of    *)
(* them moves in each behaviour, and the others stay as they began.        *)
(***************************************************************************)
EXTENDS GeminiChat, ModelFallback, AgentStream, ConfirmationBus, A2aTasks,
        McpRefresh, MemoryLock, ExecutionLifecycle, ChatRecording,
        LocalAgent, TLC

CONSTANTS Parts,   \* the components that are checked
          p1, p2, u1, u2, a1, a2, a3, pro, flash, lite, solo, q1, q2, q3

VARIABLE part

vars == <<part, chatVars, modelVars, streamVars, busVars, taskVars, toolListVars,
          lockFileVars, execVars, recordingVars, agentVars>>

\* Two prompts; each of them leads to calls, the first one to two rounds.
ChatPromptOf == [s \in Sends |-> (u1 :> p1 @@ a1 :> p1 @@ a3 :> p1 @@ u2 :> p2 @@ a2 :> p2)[s]]
ChatAnswerTo == [a \in Answers |-> (a1 :> u1 @@ a3 :> a1 @@ a2 :> u2)[a]]

\* A family of two models, each one's chain with the other; a light model with
\* one to fall back to, which is alone
ModelChains == (pro :> <<pro, flash>> @@ flash :> <<flash, pro>> @@ lite :> <<lite, solo>> @@ solo :> <<solo>>)
LastOfChain == (pro :> flash @@ flash :> flash @@ lite :> solo @@ solo :> solo)

\* A trusted and an untrusted caller that force a decision, one that does not
AskForced == (q1 :> "allow" @@ q2 :> NotForced @@ q3 :> "allow")

Init ==
    /\ part \in Parts
    /\ ChatInit /\ StreamInit /\ BusInit /\ A2aInit /\ McpInit /\ MemoryLockInit /\ ExecutionInit
    /\ RecordingInit /\ AgentInit
    /\ FallbackInit /\ (part # "models" => configured = AutoModel)

Moves(p) == part = p /\ UNCHANGED part

Next ==
    \/ Moves("chat") /\ ChatNext
       /\ UNCHANGED <<modelVars, streamVars, busVars, taskVars, toolListVars, lockFileVars, execVars, recordingVars, agentVars>>
    \/ Moves("models") /\ FallbackNext
       /\ UNCHANGED <<chatVars, streamVars, busVars, taskVars, toolListVars, lockFileVars, execVars, recordingVars, agentVars>>
    \/ Moves("stream") /\ StreamNext
       /\ UNCHANGED <<chatVars, modelVars, busVars, taskVars, toolListVars, lockFileVars, execVars, recordingVars, agentVars>>
    \/ Moves("bus") /\ BusNext
       /\ UNCHANGED <<chatVars, modelVars, streamVars, taskVars, toolListVars, lockFileVars, execVars, recordingVars, agentVars>>
    \/ Moves("a2a") /\ A2aNext
       /\ UNCHANGED <<chatVars, modelVars, streamVars, busVars, toolListVars, lockFileVars, execVars, recordingVars, agentVars>>
    \/ Moves("mcp") /\ McpNext
       /\ UNCHANGED <<chatVars, modelVars, streamVars, busVars, taskVars, lockFileVars, execVars, recordingVars, agentVars>>
    \/ Moves("lock") /\ MemoryLockNext
       /\ UNCHANGED <<chatVars, modelVars, streamVars, busVars, taskVars, toolListVars, execVars, recordingVars, agentVars>>
    \/ Moves("exec") /\ ExecutionNext
       /\ UNCHANGED <<chatVars, modelVars, streamVars, busVars, taskVars, toolListVars, lockFileVars, recordingVars, agentVars>>
    \/ Moves("agent") /\ AgentNext
       /\ UNCHANGED <<chatVars, modelVars, streamVars, busVars, taskVars, toolListVars, lockFileVars, execVars, recordingVars>>
    \/ Moves("record") /\ RecordingNext
       /\ UNCHANGED <<chatVars, modelVars, streamVars, busVars, taskVars, toolListVars, lockFileVars, execVars, agentVars>>

Spec == Init /\ [][Next]_vars

\* The event loop runs what is ready; what a send, a request or a refresh waits
\* for answers or fails (it has a timeout or can be aborted). Nobody has to
\* send, cancel, attach or ask. An agent's model and tools need not even answer,
\* but they heed their signal.
Fairness ==
    /\ \A s \in Sends : WF_chatVars(part = "chat" /\ Resume(s)) /\ WF_chatVars(part = "chat" /\ Go(s))
    /\ WF_modelVars(part = "models" /\ RequestStep)
    /\ \A s \in Streams : WF_streamVars(part = "stream" /\ LoopStep(s))
    /\ \A c \in Consumers : WF_streamVars(part = "stream" /\ ConsumerStep(c))
    /\ \A a \in Asks : WF_busVars(part = "bus" /\ Expires(a))
    /\ \A e \in Requests : WF_taskVars(part = "a2a" /\ RequestProgress(e))
    /\ \A w \in Objects : WF_taskVars(part = "a2a" /\ BatchProgress(w))
    /\ WF_toolListVars(part = "mcp" /\ McpStep)
    /\ WF_agentVars(part = "agent" /\ AgentStep)
    /\ WF_agentVars(part = "agent" /\ Interrupted /\ (ModelReplies \/ ModelThrows))
    /\ WF_agentVars(part = "agent" /\ DeadlinePasses) /\ WF_agentVars(part = "agent" /\ GracePasses)

FairSpec == Spec /\ Fairness

\* The types of the components' variables
TypesOK ==
    /\ ChatTypeOK /\ FallbackTypeOK /\ BusTypeOK /\ A2aTypeOK /\ McpTypeOK /\ LockTypeOK
    /\ ExecutionTypeOK /\ RecordingTypeOK /\ AgentTypeOK
=============================================================================
