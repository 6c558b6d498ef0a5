----------------------------- MODULE Scheduler -----------------------------
(***************************************************************************)
(* The event-driven tool scheduler of packages/core/src/scheduler:         *)
(* Scheduler (scheduler.ts), SchedulerStateManager (state-manager.ts) and  *)
(* the confirmation loop (confirmation.ts).                                *)
(*                                                                         *)
(* Each action is the code that runs between two awaits, so interleavings  *)
(* of the processing loop, of the coroutines of the calls of a wave, of    *)
(* the user and of the tools are those of the JavaScript event loop.       *)
(* A call is named by its callId; what the model keeps of its record is    *)
(* its status, and for its coroutine the await it is suspended at.         *)
(***************************************************************************)
EXTENDS Naturals, Sequences, FiniteSets, SequencesExt

CONSTANTS
    Calls,            \* callIds of the tool calls the model may request
    Batches,          \* one per call of schedule()
    Signals,          \* the AbortSignals the batches are scheduled with
    NoBatch,          \* model value: nothing is being processed
    Requests,         \* [Batches -> Seq(Calls)], the requests as passed
    SignalOf,         \* [Batches -> Signals]
    Topics,           \* requests of the update_topic tool
    Parallelizable,   \* requests for which isParallelizable() holds
    Unbuildable,      \* unknown tool, or tool.build() throws
    Modifiable,       \* edit tools: their arguments can be edited at a prompt
    Sandboxed,        \* may fail with sandbox_expansion_required
    Backgroundable,   \* may report live output after their result
    MaxTails,         \* bound: tail calls per callId
    MaxEdits,         \* bound: edits and sandbox expansions per callId
    BareCancel,       \* cancelAll() is called without aborting first
    CancelQueuedOnCancel  \* option cancelAllQueuedOnCancel

\* The order a batch is processed in: the comparator of _startBatch returns
\* -1 whenever its first argument is an update_topic request, which moves
\* these requests to the front and reverses them.
Ordered(b) ==
    Reverse(SelectSeq(Requests[b], LAMBDA c : c \in Topics))
      \o SelectSeq(Requests[b], LAMBDA c : c \notin Topics)

CallsOf(b) == ToSet(Ordered(b))

\* callIds are unique (turn.ts appends a counter to the ones it makes up);
\* update_topic and the edit tools are never parallelizable (tool-utils.ts).
ASSUME DistinctCallIds ==
    /\ \A b \in Batches : Ordered(b) \in Seq(Calls) /\ IsInjective(Ordered(b))
    /\ \A a, b \in Batches : a # b => CallsOf(a) \cap CallsOf(b) = {}
ASSUME SequentialTools ==
    Parallelizable \subseteq Calls /\ Parallelizable \cap (Topics \cup Modifiable) = {}
ASSUME ConstantTypes ==
    /\ NoBatch \notin Batches
    /\ SignalOf \in [Batches -> Signals]
    /\ BareCancel \in BOOLEAN /\ CancelQueuedOnCancel \in BOOLEAN
    /\ MaxTails \in [Calls -> Nat] /\ MaxEdits \in Nat

VARIABLES
    running,     \* the batch of the suspended _startBatch: isProcessing, and its signal
    isCancelling,
    batchState,  \* what has become of the promise of each schedule() call
    ticket,      \* position of a batch in requestQueue
    clock,       \* next ticket
    loop,        \* where _processQueue is suspended
    madeProgress,\* local of _processNextItem: a tail call was queued
    queue,       \* state.queue
    active,      \* keys of state.activeCalls
    completed,   \* callIds in state._completedBatch
    results,     \* the calls a resolved schedule() promise carries
    status,      \* status of each call record
    parallel,    \* calls whose current request is parallelizable
    pc,          \* await each call's coroutine is suspended at, "idle" when none
    aborted,     \* aborted signals
    tails, edits,\* counters of the bounds
    reported,    \* history: how often onTerminalCall saw the call
    consent,     \* history: who allowed the invocation as it stands
    stale,       \* history: calls whose arguments changed since a user saw them
    denied       \* history: a user denied a call of the running batch

loopVars == <<running, isCancelling, loop, madeProgress>>
batchVars == <<batchState, ticket, clock, results>>
callVars == <<queue, active, completed, status, parallel, reported>>
confVars == <<pc, consent, stale, edits, tails, denied>>
vars == <<loopVars, batchVars, callVars, confVars, aborted>>

Terminal == {"success", "error", "cancelled"}
Statuses == Terminal \cup {"validating", "scheduled", "awaiting_approval", "executing"}
PCs == {"idle", "deciding", "detailing", "prompted", "editing", "typing",
        "approved", "refused", "running"}

RequestQueue == {b \in Batches : batchState[b] = "queued"}
Aborted == running # NoBatch /\ SignalOf[running] \in aborted

\* wrong: a call that cancelAll finalized is not waited for
ActiveIdle == \A c \in active : pc[c] = "idle"

\* Promise.all over the calls of a wave
AllIdle == \A c \in Calls : pc[c] = "idle"

TerminalActive == {c \in active : status[c] \in Terminal}

\* wrong: a status is recorded for a call that was already finalized
UpdatedAlways(c, s) == [status EXCEPT ![c] = s]

\* updateStatus: ignored unless the call is in activeCalls
Updated(c, s) == IF c \in active THEN [status EXCEPT ![c] = s] ELSE status

\* cancelAllQueued on the statuses st: queued errors stay errors
QueueCancelled(st) ==
    [c \in Calls |-> IF c \in ToSet(queue) /\ st[c] # "error" THEN "cancelled" ELSE st[c]]

\* wrong: calls that failed to build are dropped without a result
FlushedValid == {c \in ToSet(queue) : status[c] # "error"}

\* The calls cancelAllQueued reports
Flushed == ToSet(queue)

\* completedBatch.push and onTerminalCall
Report(S) == /\ completed' = completed \cup S
             /\ reported' = [c \in Calls |-> IF c \in S THEN reported[c] + 1 ELSE reported[c]]

Init ==
    /\ running = NoBatch /\ isCancelling = FALSE
    /\ loop = "idle" /\ madeProgress = FALSE
    /\ batchState = [b \in Batches |-> "new"]
    /\ ticket = [b \in Batches |-> 0] /\ clock = 1
    /\ results = [b \in Batches |-> {}]
    /\ queue = <<>> /\ active = {} /\ completed = {}
    /\ status = [c \in Calls |-> "validating"]
    /\ parallel = Parallelizable
    /\ reported = [c \in Calls |-> 0]
    /\ pc = [c \in Calls |-> "idle"]
    /\ consent = [c \in Calls |-> "none"]
    /\ stale = {} /\ denied = FALSE
    /\ tails = [c \in Calls |-> 0] /\ edits = [c \in Calls |-> 0]
    /\ aborted = {}

-----------------------------------------------------------------------------
(* schedule(), cancelAll() and the AbortSignal.                             *)

\* _startBatch up to its first await, on the batch states bs
StartBatch(b, bs) ==
    /\ running' = b /\ isCancelling' = FALSE /\ loop' = "top"
    /\ batchState' = [bs EXCEPT ![b] = "running"]
    /\ completed' = {}
    /\ queue' = Ordered(b)
    /\ status' = [c \in Calls |->
                    IF c \in CallsOf(b)
                    THEN IF c \in Unbuildable THEN "error" ELSE "validating"
                    ELSE status[c]]
    /\ denied' = FALSE

Busy == running # NoBatch \/ active # {}

ScheduleNow(b) ==
    /\ batchState[b] = "new" /\ ~Busy
    /\ StartBatch(b, batchState)
    /\ UNCHANGED <<madeProgress, ticket, clock, results, active, parallel, reported,
                   pc, consent, stale, edits, tails, aborted>>

Enqueue(b) ==
    /\ batchState[b] = "new" /\ Busy /\ SignalOf[b] \notin aborted
    /\ batchState' = [batchState EXCEPT ![b] = "queued"]
    /\ ticket' = [ticket EXCEPT ![b] = clock]
    /\ clock' = clock + 1
    /\ UNCHANGED <<loopVars, results, callVars, confVars, aborted>>

EnqueueAborted(b) ==
    /\ batchState[b] = "new" /\ Busy /\ SignalOf[b] \in aborted
    /\ batchState' = [batchState EXCEPT ![b] = "rejected"]
    /\ UNCHANGED <<loopVars, ticket, clock, results, callVars, confVars, aborted>>

\* The abort listeners of the queued requests reject them.
AbortEffect(s) ==
    /\ s \notin aborted
    /\ aborted' = aborted \cup {s}

QueueRejected(S) ==
    batchState' = [b \in Batches |-> IF b \in S THEN "rejected" ELSE batchState[b]]

Abort(s) ==
    /\ AbortEffect(s)
    /\ QueueRejected({b \in RequestQueue : SignalOf[b] = s})
    /\ UNCHANGED <<loopVars, ticket, clock, results, callVars, confVars>>

CancelEffect ==
    LET live == active \ TerminalActive
        gone == live \cup Flushed
        forced == [c \in Calls |-> IF c \in live THEN "cancelled" ELSE status[c]]
    IN  /\ isCancelling' = TRUE
        /\ QueueRejected(RequestQueue)
        /\ status' = QueueCancelled(forced)
        /\ active' = active \ live
        /\ queue' = <<>>
        /\ Report(gone)
        /\ UNCHANGED <<running, loop, madeProgress, ticket, clock, results, parallel, confVars>>

CancelAll ==
    /\ BareCancel /\ ~isCancelling
    /\ CancelEffect
    /\ UNCHANGED aborted

\* cancelOngoingRequest of the TUI: abort the signal, then cancelAll(). When
\* a cancellation is already under way cancelAll() does nothing more. The
\* signal is the one of the current turn: the running batch's, unless that
\* batch is winding down after an earlier cancellation.
UserCancel(s) ==
    /\ AbortEffect(s)
    /\ running # NoBatch => s = SignalOf[running] \/ Aborted
    /\ IF isCancelling
       THEN /\ QueueRejected({b \in RequestQueue : SignalOf[b] = s})
            /\ UNCHANGED <<loopVars, ticket, clock, results, callVars, confVars>>
       ELSE CancelEffect

-----------------------------------------------------------------------------
(* The processing loop: _processQueue and _processNextItem.                 *)

\* Neither queued nor active calls: the while loop ends.
LoopEnds ==
    /\ loop = "top" /\ queue = <<>> /\ active = {}
    /\ loop' = "finishing"
    /\ UNCHANGED <<running, isCancelling, madeProgress, batchVars, callVars, confVars, aborted>>

\* signal.aborted || isCancelling
LoopBreaks ==
    /\ loop = "top" /\ (queue # <<>> \/ active # {})
    /\ Aborted \/ isCancelling
    /\ active' = active \ TerminalActive
    /\ status' = QueueCancelled(status)
    /\ queue' = <<>>
    /\ Report(TerminalActive \cup Flushed)
    /\ loop' = "finishing"
    /\ UNCHANGED <<running, isCancelling, madeProgress, batchVars, parallel, confVars, aborted>>

LoopGoesOn == loop = "top" /\ ~Aborted /\ ~isCancelling

DropErrored ==
    /\ LoopGoesOn /\ active = {} /\ queue # <<>>
    /\ status[Head(queue)] = "error"
    /\ queue' = Tail(queue)
    /\ Report({Head(queue)})
    /\ UNCHANGED <<loopVars, batchVars, active, status, parallel, confVars, aborted>>

\* wrong: a sequential call is joined by the parallelizable ones behind it
GreedyWave(n) ==
    /\ \A i \in 2..n : queue[i] \in parallel
    /\ n < Len(queue) => queue[n + 1] \notin parallel

\* The first n queued calls form a wave: one call, or every contiguous
\* parallelizable one.
IsWave(n) ==
    /\ n > 1 => \A i \in 1..n : queue[i] \in parallel
    /\ queue[1] \in parallel /\ n < Len(queue) => queue[n + 1] \notin parallel

StartWave ==
    /\ LoopGoesOn /\ active = {} /\ queue # <<>>
    /\ status[Head(queue)] # "error"
    /\ \E n \in 1..Len(queue) :
         LET wave == {queue[i] : i \in 1..n} IN
         /\ IsWave(n)
         /\ queue' = SubSeq(queue, n + 1, Len(queue))
         /\ active' = wave
         /\ pc' = [c \in Calls |-> IF c \in wave /\ status[c] = "validating"
                                   THEN "deciding" ELSE pc[c]]
    /\ madeProgress' = FALSE
    /\ loop' = "validating"
    /\ UNCHANGED <<running, isCancelling, batchVars, completed, status, parallel, reported,
                   consent, stale, edits, tails, denied, aborted>>

\* wrong: the signal is not looked at again before execution
LaunchAnyway == TRUE

\* The check at the top of _execute
MayLaunch == ~Aborted

\* Every validation has settled: _execute the scheduled calls, if all active
\* calls are ready. _execute cancels the call when the signal is aborted.
StartExecution ==
    LET ready == {c \in active : status[c] = "scheduled"}
        allReady == \A c \in active : status[c] \in Terminal \cup {"scheduled"}
        go == IF allReady THEN ready ELSE {}
    IN  /\ loop = "validating" /\ AllIdle
        /\ status' = [c \in Calls |-> IF c \notin go THEN status[c]
                                    ELSE IF MayLaunch THEN "executing" ELSE "cancelled"]
        /\ pc' = [c \in Calls |-> IF c \in go /\ MayLaunch THEN "running" ELSE pc[c]]
        /\ loop' = "executing"
        /\ UNCHANGED <<running, isCancelling, madeProgress, batchVars, queue, active, completed,
                       parallel, reported, consent, stale, edits, tails, denied, aborted>>

\* wrong: only a finalized call counts as progress, a tail call does not
AfterFinalized(progress, r) ==
    IF TerminalActive # {} THEN "top"
    ELSE IF \E c \in r : status[c] \in {"awaiting_approval", "executing"} THEN "polling"
    ELSE "finishing"

\* Where the loop goes once terminal calls are finalized, r being what is
\* left in activeCalls: again, to a 10 ms sleep, or out ("a stuck state").
After(progress, r) ==
    IF progress THEN "top"
    ELSE IF \E c \in r : status[c] \in {"awaiting_approval", "executing"} THEN "polling"
    ELSE "finishing"

FinalizeTerminal(progress) ==
    /\ active' = active \ TerminalActive
    /\ Report(TerminalActive)
    /\ loop' = After(progress \/ TerminalActive # {}, active')
    /\ UNCHANGED <<running, isCancelling, batchVars, queue, status, parallel, confVars, aborted>>

\* Every execution has returned.
EndWave == loop = "executing" /\ AllIdle /\ FinalizeTerminal(madeProgress) /\ UNCHANGED madeProgress

\* An iteration that starts with calls already active: none is left to
\* validate or to execute, only terminal ones are finalized.
Revisit ==
    /\ LoopGoesOn /\ active # {}
    /\ FinalizeTerminal(FALSE) /\ madeProgress' = FALSE

PollTimer ==
    /\ loop = "polling" /\ loop' = "top"
    /\ UNCHANGED <<running, isCancelling, madeProgress, batchVars, callVars, confVars, aborted>>

\* wrong: the queued requests are forgotten when a batch ends
NoBacklog == {}

\* What _processNextInRequestQueue finds
Backlog == RequestQueue

\* The head of requestQueue
IsNext(b) == \A a \in RequestQueue : ticket[b] <= ticket[a]

\* _startBatch returns and its finally block runs: the promise resolves with
\* completedBatch and the next request is scheduled; it goes back to the
\* queue if calls are still active.
FinishBatch ==
    LET settled == [batchState EXCEPT ![running] = "resolved"]
        stop == /\ running' = NoBatch /\ loop' = "idle" /\ batchState' = settled
                /\ completed' = {}
                /\ UNCHANGED <<isCancelling, queue, status, denied>>
    IN  /\ loop = "finishing"
        /\ results' = [results EXCEPT ![running] = completed]
        /\ \/ Backlog = {} /\ stop /\ UNCHANGED <<ticket, clock>>
           \/ \E b \in Backlog :
                /\ IsNext(b)
                /\ IF active = {}
                   THEN StartBatch(b, settled) /\ UNCHANGED <<ticket, clock>>
                   ELSE /\ stop
                        /\ ticket' = [ticket EXCEPT ![b] = clock] /\ clock' = clock + 1
        /\ UNCHANGED <<madeProgress, active, parallel, reported, pc, consent, stale,
                       edits, tails, aborted>>

-----------------------------------------------------------------------------
(* The coroutine of one call: _processValidatingCall, resolveConfirmation   *)
(* and _execute.                                                            *)

Resume(c, from, to) == pc[c] = from /\ pc' = [pc EXCEPT ![c] = to]

\* The coroutine ends with the call in status s.
Done(c, s) ==
    /\ pc' = [pc EXCEPT ![c] = "idle"]
    /\ status' = Updated(c, s)

\* BeforeTool hook and policy say ALLOW
Allow(c) ==
    /\ pc[c] = "deciding"
    /\ Done(c, "scheduled")
    /\ consent' = [consent EXCEPT ![c] = "policy"]
    /\ UNCHANGED <<loopVars, batchVars, queue, active, completed, parallel, reported,
                   stale, edits, tails, denied, aborted>>

\* wrong: not a status of a call record
ThrownAborted == {"aborted"}

\* The status an exception gives the call while it is being validated
Thrown == IF Aborted THEN {"cancelled"} ELSE {"error", "cancelled"}

\* Hook error, policy DENY, or an exception
Deny(c) ==
    /\ pc[c] = "deciding"
    /\ \E s \in {"error"} \cup Thrown : Done(c, s)
    /\ UNCHANGED <<loopVars, batchVars, queue, active, completed, parallel, reported,
                   consent, stale, edits, tails, denied, aborted>>

\* ASK_USER: the confirmation loop is entered
Ask(c) ==
    /\ Resume(c, "deciding", "detailing") /\ ~Aborted
    /\ UNCHANGED <<loopVars, batchVars, callVars, consent, stale, edits, tails,
                   denied, aborted>>

\* shouldConfirmExecute() wants no confirmation
NoPrompt(c) ==
    /\ Resume(c, "detailing", "approved")
    /\ consent' = [consent EXCEPT ![c] = "policy"]
    /\ UNCHANGED <<loopVars, batchVars, callVars, stale, edits, tails, denied, aborted>>

Prompt(c) ==
    /\ Resume(c, "detailing", "prompted")
    /\ status' = Updated(c, "awaiting_approval")
    /\ stale' = stale \ {c}
    /\ UNCHANGED <<loopVars, batchVars, queue, active, completed, parallel, reported,
                   consent, edits, tails, denied, aborted>>

\* The user answers the prompt on screen. A prompt of a call that cancelAll
\* finalized is no longer on screen, and an aborted wait takes no answer.
OnScreen(c) == pc[c] = "prompted" /\ c \in active /\ ~Aborted

Approve(c) ==
    /\ OnScreen(c) /\ Resume(c, "prompted", "approved")
    /\ consent' = [consent EXCEPT ![c] = "user"]
    /\ UNCHANGED <<loopVars, batchVars, callVars, stale, edits, tails, denied, aborted>>

Refuse(c) ==
    /\ OnScreen(c) /\ Resume(c, "prompted", "refused")
    /\ UNCHANGED <<loopVars, batchVars, callVars, consent, stale, edits, tails, denied, aborted>>

AskEdit(c) ==
    /\ OnScreen(c) /\ c \in Modifiable
    /\ \E p \in {"editing", "typing"} : Resume(c, "prompted", p)
    /\ edits[c] < MaxEdits /\ edits' = [edits EXCEPT ![c] = @ + 1]
    /\ UNCHANGED <<loopVars, batchVars, callVars, consent, stale, tails, denied, aborted>>

\* wrong: the edited arguments count as approved
ApprovedByEditor == "approved"

\* ModifyWithEditor stays in the confirmation loop
AfterEditor == "detailing"

\* The external editor closes: the new arguments are shown at a new prompt.
\* Without an editor nothing changes and the prompt comes back.
EditorCloses(c) ==
    /\ Resume(c, "editing", AfterEditor) /\ ~Aborted
    /\ stale' \in {stale} \cup (IF c \in active THEN {stale \cup {c}} ELSE {})
    /\ UNCHANGED <<loopVars, batchVars, callVars, consent, edits, tails, denied, aborted>>

\* Inline content becomes the arguments and is the approval.
InlineEdit(c) ==
    /\ Resume(c, "typing", "approved") /\ c \in active
    /\ consent' = [consent EXCEPT ![c] = "user"]
    /\ UNCHANGED <<loopVars, batchVars, callVars, stale, edits, tails, denied, aborted>>

\* The confirmation loop throws: the wait is aborted, or the tool, the
\* editor, a hook or the policy update fails. During execution the sandbox
\* error stands; during validation it is an exception of the call.
ConfirmationThrows(c) ==
    /\ \/ pc[c] \in {"detailing", "editing", "typing", "approved", "refused"}
       \/ pc[c] = "prompted" /\ Aborted
    /\ \E s \in (IF loop = "validating" THEN Thrown ELSE {"error"}) : Done(c, s)
    /\ UNCHANGED <<loopVars, batchVars, queue, active, completed, parallel, reported,
                   consent, stale, edits, tails, denied, aborted>>

\* _processToolCall after the confirmation
SettleProceed(c) ==
    /\ loop = "validating" /\ pc[c] = "approved"
    /\ Done(c, "scheduled")
    /\ UNCHANGED <<loopVars, batchVars, queue, active, completed, parallel, reported,
                   consent, stale, edits, tails, denied, aborted>>

\* wrong: the option is ignored
NeverCascades == FALSE

\* A denial cancels the queued calls, unless the option disables it.
Cascades == CancelQueuedOnCancel

SettleCancel(c) ==
    /\ loop = "validating" /\ pc[c] = "refused"
    /\ pc' = [pc EXCEPT ![c] = "idle"]
    /\ denied' = TRUE
    /\ IF Cascades
       THEN /\ status' = QueueCancelled(Updated(c, "cancelled"))
            /\ queue' = <<>>
            /\ Report(Flushed)
       ELSE status' = Updated(c, "cancelled") /\ UNCHANGED <<queue, completed, reported>>
    /\ UNCHANGED <<loopVars, batchVars, active, parallel, consent, stale, edits,
                   tails, aborted>>

ToolReturns(c) ==
    /\ pc[c] = "running"
    /\ \E s \in Terminal : Done(c, s)
    /\ UNCHANGED <<loopVars, batchVars, queue, active, completed, parallel, reported,
                   consent, stale, edits, tails, denied, aborted>>

\* wrong: the tail call is queued although cancelAll finalized the call
ReplaceAlways(c) == TRUE

Replaceable(c) == c \in active

\* wrong: the tail call waits for the calls queued behind the original
PushedTail(c) == queue \o <<c>>

UnshiftedTail(c) == <<c>> \o queue

\* A tail call replaces the call, under the same callId, at the head of the
\* queue; nothing replaces a call that cancelAll finalized.
ToolReturnsTail(c) ==
    /\ pc[c] = "running" /\ tails[c] < MaxTails[c]
    /\ pc' = [pc EXCEPT ![c] = "idle"]
    /\ madeProgress' = TRUE
    /\ tails' = [tails EXCEPT ![c] = @ + 1]
    /\ IF Replaceable(c)
       THEN /\ active' = active \ {c}
            /\ queue' = UnshiftedTail(c)
            /\ \E s \in {"validating", "error"} : status' = [status EXCEPT ![c] = s]
            /\ parallel' \in {parallel \ {c}} \cup
                             (IF c \in Modifiable THEN {} ELSE {parallel \cup {c}})
            /\ consent' = [consent EXCEPT ![c] = "none"]
            /\ stale' = stale \cup {c}
       ELSE UNCHANGED <<active, queue, status, parallel, consent, stale>>
    /\ UNCHANGED <<running, isCancelling, loop, batchVars, completed, reported,
                   edits, denied, aborted>>

\* sandbox_expansion_required: the arguments gain permissions and the user is
\* asked again.
ToolWantsSandbox(c) ==
    /\ pc[c] = "running" /\ c \in Sandboxed /\ edits[c] < MaxEdits
    /\ edits' = [edits EXCEPT ![c] = @ + 1]
    /\ IF Aborted
       THEN Done(c, "error") /\ UNCHANGED <<consent, stale>>
       ELSE /\ pc' = [pc EXCEPT ![c] = "detailing"]
            /\ status' = Updated(c, "awaiting_approval")
            /\ consent' = [consent EXCEPT ![c] = "none"]
            /\ stale' = stale \cup {c}
    /\ UNCHANGED <<loopVars, batchVars, queue, active, completed, parallel, reported,
                   tails, denied, aborted>>

\* The sandbox prompt is answered: _execute again, or keep the error.
Reexecute(c) ==
    /\ loop = "executing" /\ pc[c] = "approved"
    /\ IF Aborted THEN Done(c, "cancelled")
       ELSE pc' = [pc EXCEPT ![c] = "running"] /\ status' = Updated(c, "executing")
    /\ UNCHANGED <<loopVars, batchVars, queue, active, completed, parallel, reported,
                   consent, stale, edits, tails, denied, aborted>>

KeepSandboxError(c) ==
    /\ loop = "executing" /\ pc[c] = "refused"
    /\ Done(c, "error")
    /\ UNCHANGED <<loopVars, batchVars, queue, active, completed, parallel, reported,
                   consent, stale, edits, tails, denied, aborted>>

\* outputUpdateHandler of a command that was moved to the background: its
\* output keeps arriving after its result, while other calls of the wave run.
LateOutput(c) ==
    /\ c \in Backgroundable /\ c \in active /\ loop = "executing" /\ ~AllIdle
    /\ pc[c] = "idle" /\ status[c] = "success"
    /\ status' = Updated(c, "executing")
    /\ UNCHANGED <<loopVars, batchVars, queue, active, completed, parallel, reported,
                   confVars, aborted>>

-----------------------------------------------------------------------------
Loop ==
    LoopEnds \/ LoopBreaks \/ DropErrored \/ StartWave \/ StartExecution \/ EndWave
      \/ Revisit \/ PollTimer \/ FinishBatch

Answer(c) == Approve(c) \/ Refuse(c)

\* What the code, the hooks, the policy and the tools do for a call
Progress(c) ==
    \/ Allow(c) \/ Deny(c) \/ Ask(c) \/ NoPrompt(c) \/ Prompt(c)
    \/ EditorCloses(c) \/ InlineEdit(c) \/ ConfirmationThrows(c)
    \/ SettleProceed(c) \/ SettleCancel(c)
    \/ ToolReturns(c) \/ ToolReturnsTail(c) \/ ToolWantsSandbox(c)
    \/ Reexecute(c) \/ KeepSandboxError(c)

Client ==
    \/ \E b \in Batches : ScheduleNow(b) \/ Enqueue(b) \/ EnqueueAborted(b)
    \/ \E s \in Signals : Abort(s) \/ UserCancel(s)
    \/ CancelAll

Next ==
    \/ Client
    \/ Loop
    \/ \E c \in Calls : Answer(c) \/ AskEdit(c) \/ Progress(c) \/ LateOutput(c)

Spec == Init /\ [][Next]_vars

\* The event loop runs every continuation that is ready; hooks and tools
\* return; a user who is asked again and again eventually answers.
Fairness ==
    /\ WF_vars(Loop)
    /\ \A c \in Calls : WF_vars(Progress(c)) /\ SF_vars(Answer(c))

FairSpec == Spec /\ Fairness
=============================================================================
