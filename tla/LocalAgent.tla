------------------------------ MODULE LocalAgent ------------------------------
(***************************************************************************)
(* A run of a local agent (LocalAgentExecutor): turns of the model and of  *)
(* its tool calls under a deadline that is paused while the user is asked, *)
(* and one turn of grace when the run stops for a reason it may recover    *)
(* from. The calls of a turn go through a scheduler of their own, which is *)
(* reduced here to what it reports; Scheduler models it in full.           *)
(***************************************************************************)
EXTENDS Integers, FiniteSets

CONSTANTS AgentCalls,     \* the calls the model may make in a turn
          CompletesTask,  \* those of them that call complete_task
          MaxTurns

ASSUME AgentConstants == CompletesTask \subseteq AgentCalls /\ MaxTurns \in Nat

VARIABLES agentPhase,   \* what the run waits for
          turnCounter,
          deadline,     \* the DeadlineTimer: "running", "paused", "aborted"
          grace,        \* the timer of the turn of grace: "off", "running", "aborted"
          userAborted,  \* the external signal is aborted
          recovering,   \* the reason the run recovers from
          agentCalls,   \* the calls of this turn and what became of them
          terminateReason

agentVars == <<agentPhase, turnCounter, deadline, grace, userAborted, recovering,
               agentCalls, terminateReason>>

NotYet == "none"
Recoverable == {"TIMEOUT", "MAX_TURNS", "ERROR_NO_COMPLETE_TASK_CALL"}
Reasons == Recoverable \cup {"GOAL", "ABORTED", "thrown"}

Active == {"deciding", "asking", "ready", "running"}
Results == {"success", "error", "rejected", "cancelled"}
CallsIn(states) == {c \in AgentCalls : agentCalls[c] \in states}
NoCalls == [c \in AgentCalls |-> "none"]

InGrace == recovering # NotYet

\* The signals that a turn combines, and the one of its time limit
TimedOut == IF InGrace THEN grace = "aborted" ELSE deadline = "aborted"
Interrupted == userAborted \/ TimedOut

AgentInit ==
    /\ agentPhase = "creating" /\ turnCounter = 0
    /\ deadline = "running" /\ grace = "off" /\ userAborted = FALSE
    /\ recovering = NotYet /\ agentCalls = NoCalls /\ terminateReason = NotYet

\* The end of runInternal: both timers are cleared.
Returns(reason) ==
    /\ agentPhase' = "ended" /\ terminateReason' = reason
    /\ deadline' = "aborted" /\ grace' = "off"
    /\ agentCalls' = NoCalls
    /\ UNCHANGED <<turnCounter, userAborted, recovering>>

\* A turn stops the run. The turn of grace completes the task or leaves the
\* reason it was made for.
Stops(reason) ==
    IF InGrace THEN Returns(IF reason = "GOAL" THEN reason ELSE recovering)
    ELSE IF reason \in Recoverable
    THEN /\ recovering' = reason /\ grace' = "running"
         /\ agentPhase' = "model" /\ agentCalls' = NoCalls
         /\ UNCHANGED <<turnCounter, deadline, userAborted, terminateReason>>
    ELSE Returns(reason)

\* The head of the loop
NextAgentTurn ==
    IF turnCounter >= MaxTurns THEN Stops("MAX_TURNS")
    ELSE IF Interrupted THEN Stops(IF deadline = "aborted" THEN "TIMEOUT" ELSE "ABORTED")
    ELSE /\ turnCounter' = turnCounter + 1
         /\ agentPhase' = "model" /\ agentCalls' = NoCalls
         /\ UNCHANGED <<deadline, grace, userAborted, recovering, terminateReason>>

CreateAgentChat ==
    /\ agentPhase = "creating"
    /\ NextAgentTurn \/ Returns("thrown")

\* callModel returns, and the calls that are unknown to the agent or have no
\* arguments that can be read are answered at once.
ModelReplies ==
    /\ agentPhase = "model"
    /\ \/ Interrupted /\ Stops(IF TimedOut THEN "TIMEOUT" ELSE "ABORTED")
       \/ ~Interrupted /\ Stops("ERROR_NO_COMPLETE_TASK_CALL")
       \/ /\ ~Interrupted
          /\ \E requested \in SUBSET AgentCalls \ {{}} : \E blocked \in SUBSET requested :
                agentCalls' = [c \in AgentCalls |->
                                 IF c \in blocked THEN "error"
                                 ELSE IF c \in requested THEN "queued" ELSE "none"]
          /\ agentPhase' = "tools"
          /\ UNCHANGED <<turnCounter, deadline, grace, userAborted, recovering, terminateReason>>

\* callModel throws. Only an AbortError of the deadline can be recovered from.
ModelThrows ==
    /\ agentPhase = "model"
    /\ \/ InGrace /\ Returns(recovering)
       \/ ~InGrace /\ Returns("thrown")
       \/ ~InGrace /\ deadline = "aborted" /\ ~userAborted /\ Stops("TIMEOUT")

-----------------------------------------------------------------------------
(* The scheduler of the turn                                               *)

TimersKept == UNCHANGED <<agentPhase, turnCounter, grace, userAborted, recovering, terminateReason>>

\* The next calls of the queue, one or several that may run side by side
StartWave ==
    /\ agentPhase = "tools" /\ ~Interrupted
    /\ CallsIn(Active) = {}
    /\ \E wave \in SUBSET CallsIn({"queued"}) \ {{}} :
          agentCalls' = [c \in AgentCalls |-> IF c \in wave THEN "deciding" ELSE agentCalls[c]]
    /\ TimersKept /\ UNCHANGED deadline

\* The policy decides; waitForConfirmation pauses the deadline.
Paused == IF deadline = "running" THEN "paused" ELSE deadline
DecideCall(c) ==
    /\ agentCalls[c] = "deciding" /\ ~Interrupted
    /\ \/ \E s \in {"ready", "error"} : agentCalls' = [agentCalls EXCEPT ![c] = s]
          /\ UNCHANGED deadline
       \/ agentCalls' = [agentCalls EXCEPT ![c] = "asking"] /\ deadline' = Paused
    /\ TimersKept

\* The user approves, changes the call and is asked again, or denies it, which
\* cancels what is queued behind it. An answer resumes the deadline, even when
\* another question is still open.
NotResumed == deadline
Resumed == IF deadline = "paused" THEN "running" ELSE deadline
AnswerCall(c) ==
    /\ agentCalls[c] = "asking" /\ ~Interrupted
    /\ deadline' = Resumed
    /\ \/ \E s \in {"ready", "deciding"} : agentCalls' = [agentCalls EXCEPT ![c] = s]
       \/ agentCalls' = [d \in AgentCalls |->
                           IF d = c THEN "rejected"
                           ELSE IF agentCalls[d] = "queued" THEN "cancelled" ELSE agentCalls[d]]
    /\ TimersKept

\* The calls of the wave are launched when each of them is decided.
LaunchCalls ==
    /\ CallsIn({"ready"}) # {} /\ CallsIn(Active) = CallsIn({"ready"})
    /\ ~Interrupted
    /\ agentCalls' = [c \in AgentCalls |-> IF agentCalls[c] = "ready" THEN "running" ELSE agentCalls[c]]
    /\ TimersKept /\ UNCHANGED deadline

FinishCall(c) ==
    /\ agentCalls[c] = "running" /\ ~Interrupted
    /\ \E s \in {"success", "error"} : agentCalls' = [agentCalls EXCEPT ![c] = s]
    /\ TimersKept /\ UNCHANGED deadline

\* A signal cancels the calls that have no result; who waits for an answer
\* throws, and the deadline is not resumed.
CancelCalls ==
    /\ Interrupted
    /\ CallsIn(Active \cup {"queued"}) # {}
    /\ agentCalls' = [c \in AgentCalls |->
                        IF agentCalls[c] \in Active \cup {"queued"} THEN "cancelled" ELSE agentCalls[c]]
    /\ TimersKept /\ UNCHANGED deadline

\* The end of processFunctionCalls and of the turn
ToolsEnd ==
    /\ agentPhase = "tools"
    /\ CallsIn(Active \cup {"queued"}) = {}
    /\ IF CallsIn({"cancelled"}) # {} THEN Stops("ABORTED")
       ELSE IF CallsIn({"success"}) \cap CompletesTask # {} THEN Stops("GOAL")
       ELSE IF InGrace THEN Returns(recovering)
       ELSE NextAgentTurn

-----------------------------------------------------------------------------
(* The timers and the user                                                 *)

DeadlinePasses ==
    /\ agentPhase # "ended" /\ deadline = "running"
    /\ deadline' = "aborted"
    /\ UNCHANGED agentCalls /\ TimersKept

GracePasses ==
    /\ grace = "running"
    /\ grace' = "aborted"
    /\ UNCHANGED <<agentPhase, turnCounter, deadline, userAborted, recovering, agentCalls, terminateReason>>

AbortRun ==
    /\ agentPhase # "ended" /\ ~userAborted
    /\ userAborted' = TRUE
    /\ UNCHANGED <<agentPhase, turnCounter, deadline, grace, recovering, agentCalls, terminateReason>>

\* What the event loop brings about by itself
AgentStep ==
    \/ StartWave \/ LaunchCalls \/ CancelCalls \/ ToolsEnd
    \/ \E c \in AgentCalls : DecideCall(c)

\* The model and the tools, which need not answer as long as no signal is aborted
AgentReply ==
    \/ CreateAgentChat \/ ModelReplies \/ ModelThrows
    \/ \E c \in AgentCalls : FinishCall(c) \/ AnswerCall(c)

AgentNext == AgentStep \/ AgentReply \/ DeadlinePasses \/ GracePasses \/ AbortRun

AgentSpec == AgentInit /\ [][AgentNext]_agentVars

-----------------------------------------------------------------------------
(* Properties                                                              *)

AgentTypeOK ==
    /\ agentPhase \in {"creating", "model", "tools", "ended"}
    /\ turnCounter \in 0 .. MaxTurns
    /\ deadline \in {"running", "paused", "aborted"} /\ grace \in {"off", "running", "aborted"}
    /\ userAborted \in BOOLEAN /\ recovering \in Recoverable \cup {NotYet}
    /\ agentCalls \in [AgentCalls -> {"none", "queued"} \cup Active \cup Results]
    /\ (agentPhase = "ended" <=> terminateReason \in Reasons)

\* A run comes to its end unless the user is asked for something, although the
\* model and the tools may never answer and only heed their signal: the time
\* spent on questions is never taken for the rest of the run, and the turn of
\* grace has a limit of its own.
AgentEnds ==
    agentPhase \in {"model", "tools"} ~> (agentPhase = "ended" \/ CallsIn({"asking"}) # {})

\* "should terminate with TIMEOUT if a tool call takes too long",
\* local-executor.test.ts:2609: only a run that its caller aborted is reported as
\* aborted, "ABORTED (user cancelled)", local-executor.ts:760.
AbortedByUser == terminateReason = "ABORTED" => userAborted
=============================================================================
