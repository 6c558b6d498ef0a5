------------------------------ MODULE A2aTasks ------------------------------
(***************************************************************************)
(* The A2A server (a2a-server/src/agent/executor.ts, task.ts): requests    *)
(* for one task that is in the store. The first loads the task, later ones *)
(* wait for it; one runs the agent, the others hand it their message; a    *)
(* client may go away, and anyone may cancel the task. The scheduler of the *)
(* object runs the batches of calls, one after the other.                  *)
(***************************************************************************)
EXTENDS Integers, Sequences

CONSTANTS
    Requests, NoRequest,
    Loads,          \* bound: objects made for the task
    CancelsLoading  \* may the task be cancelled while it is loaded?

ASSUME A2aConstants ==
    NoRequest \notin Requests /\ Loads \in Nat \ {0} /\ CancelsLoading \in BOOLEAN

VARIABLES
    cached,         \* tasks: the object for the task, or NoTask
    loads,          \* objects made so far
    initializing,   \* the request whose initializationPromise is pending
    executing,      \* executingTasks: the controller of the main loop
    controllers,    \* activeAbortControllers
    aborted, explicitly,   \* controllers aborted; explicitlyCanceledTasks, those
                           \* that a cancel aborted before they had the task
    taskState, disposed,
    pendingTools,   \* of each object: requests with calls that it counts as pending
    batches,        \* of each object's scheduler: whose batch runs, and those queued
    asking,         \* does the batch that runs go on only when the user approves?
    cancelling,     \* was it cancelled by cancelAll?
    cancellationError,
    reqPc, reqTask

schedulerVars == <<batches, asking, cancelling>>
taskVars == <<cached, loads, initializing, executing, controllers, aborted, explicitly,
              taskState, disposed, pendingTools, schedulerVars, cancellationError, reqPc, reqTask>>

NoTask == 0
Objects == 1 .. Loads
Terminal == {"canceled", "failed"}
MainLoop == {"turn", "scheduling", "tools", "woken"}
Primary(e) == reqPc[e] \in MainLoop
UnderWay(e) == reqPc[e] \notin {"new", "done"}

A2aInit ==
    /\ cached = NoTask /\ loads = 0 /\ initializing = NoRequest /\ executing = NoRequest
    /\ controllers = {} /\ aborted = {} /\ explicitly = {}
    /\ taskState = [w \in Objects |-> "submitted"] /\ disposed = {}
    /\ pendingTools = [w \in Objects |-> {}]
    /\ batches = [w \in Objects |-> <<>>]
    /\ asking = [w \in Objects |-> FALSE] /\ cancelling = [w \in Objects |-> FALSE]
    /\ cancellationError = [w \in Objects |-> FALSE]
    /\ reqPc = [e \in Requests |-> "new"]
    /\ reqTask = [e \in Requests |-> NoTask]

-----------------------------------------------------------------------------
\* wrong: whatever object there is
EvictsAny(w) == cached # NoTask

\* cleanupAndEvictTask: the object that is expected, no newer one
Evicts(w) == w # NoTask /\ cached = w

Evict(w) == IF Evicts(w) THEN cached' = NoTask /\ disposed' = disposed \cup {w}
            ELSE UNCHANGED <<cached, disposed>>

\* cancelAll: the queue is emptied, once, and the calls of the batch that runs
\* end; it holds the scheduler until its tools return and its approval is given.
CancelAllBatches(w) ==
    IF batches[w] = <<>> \/ cancelling[w] THEN UNCHANGED <<batches, cancelling>>
    ELSE /\ batches' = [batches EXCEPT ![w] = <<Head(@)>>]
         /\ cancelling' = [cancelling EXCEPT ![w] = TRUE]

\* cancelPendingTools wakes the loops in waitForPendingTools.
CancelTools(w) ==
    /\ cancellationError' = [cancellationError EXCEPT ![w] = TRUE]
    /\ pendingTools' = [pendingTools EXCEPT ![w] = {}]
    /\ CancelAllBatches(w)

\* wrong: the waiting loops are not woken
WakeNone(w, pc) == pc

\* rejectCompletion, or the resolution of the promise they wait for
WakeOf(w, pc) == [f \in Requests |-> IF pc[f] = "tools" /\ reqTask[f] = w THEN "woken" ELSE pc[f]]

\* acceptUserMessage, to its first pause: it may bring the approval that the
\* tools wait for, unless they were cancelled.
Accept(e, w, pc) ==
    /\ \/ ~cancelling[w] /\ asking' = [asking EXCEPT ![w] = FALSE]
       \/ UNCHANGED asking
    /\ reqPc' = [reqPc EXCEPT ![e] = pc]
    /\ taskState' = [taskState EXCEPT ![w] = "working"]
    /\ cancellationError' = [cancellationError EXCEPT ![w] = FALSE]

IsExecuting == executing # NoRequest /\ executing \notin aborted

\* From the loaded task to the first pause. A task in a terminal state is
\* activated again; an aborted request publishes its end, is saved, and evicts
\* the task after that.
Enter(e, w, ctl) ==
    /\ explicitly' = explicitly \ {e}
    /\ reqTask' = [reqTask EXCEPT ![e] = w]
    /\ IF e \in aborted
       THEN /\ reqPc' = [reqPc EXCEPT ![e] = IF e \in explicitly THEN "evicting" ELSE "leaving"]
            /\ taskState' = [taskState EXCEPT ![w] =
                 IF e \in explicitly THEN "canceled" ELSE "input-required"]
            /\ controllers' = ctl /\ UNCHANGED <<executing, cancellationError, asking>>
       ELSE IF IsExecuting
       THEN /\ Accept(e, w, "secondary")
            /\ controllers' = ctl /\ UNCHANGED executing
       ELSE /\ Accept(e, w, "turn") /\ executing' = e /\ controllers' = ctl

\* execute: the task in memory is taken at once.
Execute(e) ==
    /\ reqPc[e] = "new"
    /\ IF initializing # NoRequest
       THEN /\ reqPc' = [reqPc EXCEPT ![e] = "waiting"]
            /\ controllers' = controllers \cup {e}
            /\ UNCHANGED <<initializing, executing, explicitly, taskState, asking, cancellationError, reqTask>>
       ELSE IF cached # NoTask
       THEN Enter(e, cached, controllers \cup {e}) /\ UNCHANGED initializing
       ELSE /\ loads < Loads
            /\ initializing' = e /\ controllers' = controllers \cup {e}
            /\ reqPc' = [reqPc EXCEPT ![e] = "loading"]
            /\ UNCHANGED <<executing, explicitly, taskState, asking, cancellationError, reqTask>>
    /\ UNCHANGED <<cached, loads, aborted, disposed, pendingTools, batches, cancelling>>

\* reconstruct; its state is the one that was saved.
Load(e) ==
    /\ reqPc[e] = "loading"
    /\ LET w == loads + 1
       IN  /\ loads' = w /\ cached' = w /\ initializing' = NoRequest
           /\ Enter(e, w, controllers)
    /\ UNCHANGED <<aborted, disposed, pendingTools, batches, cancelling>>

\* The load failed: this request ends, and those that waited for it.
LoadFails(e) ==
    /\ reqPc[e] = "loading"
    /\ LET all == {f \in Requests : reqPc[f] \in {"loading", "waiting"}}
       IN  /\ reqPc' = [f \in Requests |-> IF f \in all THEN "done" ELSE reqPc[f]]
           /\ controllers' = controllers \ all /\ explicitly' = explicitly \ all
    /\ initializing' = NoRequest
    /\ UNCHANGED <<cached, loads, executing, aborted, taskState, disposed,
                   pendingTools, schedulerVars, cancellationError, reqTask>>

\* Those that waited go on with the object it made.
Ready(e) == reqPc[e] = "waiting" /\ initializing = NoRequest

Awake(e) ==
    /\ Ready(e)
    /\ Enter(e, loads, controllers)
    /\ UNCHANGED <<cached, loads, initializing, aborted, disposed, pendingTools,
                   batches, cancelling>>

Leave(e) ==
    /\ reqPc' = [reqPc EXCEPT ![e] = "done"] /\ reqTask' = [reqTask EXCEPT ![e] = NoTask]
    /\ controllers' = controllers \ {e}

\* After the save of an aborted request; the end of a secondary one
Depart(e) ==
    /\ reqPc[e] \in {"evicting", "leaving", "secondary"}
    /\ IF reqPc[e] = "evicting" THEN Evict(reqTask[e]) ELSE UNCHANGED <<cached, disposed>>
    /\ Leave(e)
    /\ UNCHANGED <<loads, initializing, executing, aborted, explicitly, taskState,
                   pendingTools, schedulerVars, cancellationError>>

-----------------------------------------------------------------------------
\* isAwaitingApprovalOnly: the calls of a batch in the queue are not waited for
\* by the user.
ApprovalOnly(w) == asking[w] /\ pendingTools[w] = {Head(batches[w])}

\* waitForPendingTools
MustWait(w) == pendingTools[w] # {} /\ ~ApprovalOnly(w)
Waiting(w) == IF MustWait(w) /\ ~cancellationError[w] THEN "tools" ELSE "woken"

\* The main loop. The stream of a turn ends; scheduleToolCalls reads files.
AgentTurn(e) ==
    /\ reqPc[e] = "turn" /\ e \notin aborted
    /\ \E pc \in {"scheduling", Waiting(reqTask[e])} : reqPc' = [reqPc EXCEPT ![e] = pc]
    /\ UNCHANGED <<cached, loads, initializing, executing, controllers, aborted, explicitly,
                   taskState, disposed, pendingTools, schedulerVars, cancellationError, reqTask>>

\* The calls are pending before the scheduler has them. It runs them at once,
\* queues them, or rejects them when it is busy and their signal is aborted:
\* the task does not hear of that.
Register(e) ==
    /\ reqPc[e] = "scheduling"
    /\ LET w == reqTask[e]
       IN  /\ taskState' = [taskState EXCEPT ![w] = "working"]
           /\ pendingTools' = [pendingTools EXCEPT ![w] = @ \cup {e}]
           /\ batches' = IF batches[w] # <<>> /\ e \in aborted THEN batches
                         ELSE [batches EXCEPT ![w] = Append(@, e)]
           /\ reqPc' = [reqPc EXCEPT ![e] = IF cancellationError[w] THEN "woken" ELSE "tools"]
    /\ UNCHANGED <<cached, loads, initializing, executing, controllers, aborted, explicitly,
                   disposed, asking, cancelling, cancellationError, reqTask>>

\* The calls that have not ended ask for an approval, or wait behind one that
\* does. A task that was disposed of does not hear from its scheduler.
BatchAsks(w) ==
    /\ w \notin disposed /\ batches[w] # <<>> /\ ~asking[w] /\ ~cancelling[w] /\ Head(batches[w]) \notin aborted
    /\ asking' = [asking EXCEPT ![w] = TRUE]
    /\ reqPc' = IF pendingTools[w] = {Head(batches[w])} THEN WakeOf(w, reqPc)
                ELSE reqPc
    /\ UNCHANGED <<cached, loads, initializing, executing, controllers, aborted, explicitly,
                   taskState, disposed, pendingTools, batches, cancelling, cancellationError, reqTask>>

\* The batch that runs is done. The first one in the queue that was not rejected
\* is next: an abort rejects a batch as long as it is queued.
BatchEnds(w) ==
    /\ w \notin disposed /\ batches[w] # <<>> /\ ~asking[w]
    /\ \E k \in 2 .. Len(batches[w]) + 1 :
         LET next == SubSeq(batches[w], k, Len(batches[w]))
             told == (pendingTools[w] \ {Head(batches[w])}) \cup {f \in Requests : next # <<>> /\ f = Head(next)}
         IN  /\ \A j \in 2 .. k - 1 : batches[w][j] \in aborted
             /\ next # <<>> => Head(next) \notin aborted
             /\ batches' = [batches EXCEPT ![w] = next]
             /\ cancelling' = [cancelling EXCEPT ![w] = FALSE]
             /\ pendingTools' = [pendingTools EXCEPT ![w] = told]
             /\ reqPc' = IF told = {} THEN WakeOf(w, reqPc) ELSE reqPc
    /\ UNCHANGED <<cached, loads, initializing, executing, controllers, aborted, explicitly,
                   taskState, disposed, asking, cancellationError, reqTask>>

\* wrong: the controller of another loop is removed too
UnregisteredAny(e) == NoRequest

Unregistered(e) == IF executing = e THEN NoRequest ELSE executing

\* The finally block: only its own controller, only its own object
Close(e, state, pc) ==
    /\ reqPc' = [pc EXCEPT ![e] = "done"] /\ reqTask' = [reqTask EXCEPT ![e] = NoTask]
    /\ controllers' = controllers \ {e}
    /\ executing' = Unregistered(e)
    /\ taskState' = [taskState EXCEPT ![reqTask[e]] = state]
    /\ IF state \in Terminal THEN Evict(reqTask[e]) ELSE UNCHANGED <<cached, disposed>>
    /\ UNCHANGED <<loads, initializing, aborted, explicitly>>

\* The catch block: an aborted loop keeps a final state, else it is an error.
Unwind(e) ==
    LET w == reqTask[e]
    IN  /\ CancelTools(w) /\ UNCHANGED asking
        /\ Close(e, IF e \notin aborted THEN "failed"
                    ELSE IF taskState[w] \in Terminal THEN taskState[w] ELSE "input-required",
                 WakeOf(w, reqPc))

\* An abort, an error of the stream
TurnThrows(e) == reqPc[e] = "turn" /\ Unwind(e)

\* waitForPendingTools returns or throws the error that it finds. A loop with
\* calls that still wait for an approval yields to the user.
Wake(e) ==
    /\ reqPc[e] = "woken"
    /\ LET w == reqTask[e]
       IN  IF e \in aborted \/ cancellationError[w] THEN Unwind(e)
           ELSE /\ \/ /\ pendingTools[w] = {}
                      /\ reqPc' = [reqPc EXCEPT ![e] = "turn"]      \* results to the model
                      /\ UNCHANGED <<controllers, executing, taskState, cached, disposed,
                                     loads, initializing, aborted, explicitly, reqTask>>
                   \/ Close(e, "input-required", reqPc)
                /\ UNCHANGED <<pendingTools, schedulerVars, cancellationError>>

-----------------------------------------------------------------------------
\* The signals of requests: calls that wait for an approval end with theirs.
Abort(S) ==
    /\ aborted' = aborted \cup S
    /\ asking' = [w \in Objects |-> asking[w] /\ Head(batches[w]) \notin S]

\* The client's connection ends.
Disconnect(e) ==
    /\ UnderWay(e) /\ e \notin aborted /\ Abort({e})
    /\ UNCHANGED <<cached, loads, initializing, executing, controllers, explicitly, taskState,
                   disposed, pendingTools, batches, cancelling, cancellationError, reqPc, reqTask>>

\* cancelTask
CancelTask ==
    /\ CancelsLoading \/ initializing = NoRequest
    /\ controllers # {} \/ (cached # NoTask /\ taskState[cached] \notin Terminal)
    /\ Abort(controllers)
    /\ explicitly' = explicitly \cup {e \in controllers : reqPc[e] \in {"loading", "waiting"}}
    /\ IF cached = NoTask
       THEN UNCHANGED <<cached, disposed, taskState, pendingTools, batches, cancelling, cancellationError, reqPc>>
       ELSE /\ CancelTools(cached) /\ Evict(cached)
            /\ taskState' = [taskState EXCEPT ![cached] = "canceled"]
            /\ reqPc' = WakeOf(cached, reqPc)
    /\ UNCHANGED <<loads, initializing, executing, controllers, reqTask>>

Advance(e) ==
    \/ Load(e) \/ LoadFails(e) \/ Depart(e) \/ AgentTurn(e) \/ Register(e) \/ TurnThrows(e) \/ Wake(e)

\* Those that waited for a promise run before anything else does.
A2aNext ==
    \/ \E e \in Requests : Awake(e)
    \/ /\ \A e \in Requests : ~Ready(e)
       /\ \/ CancelTask \/ \E w \in Objects : BatchAsks(w) \/ BatchEnds(w)
          \/ \E e \in Requests : Execute(e) \/ Advance(e) \/ Disconnect(e)

RequestProgress(e) == Awake(e) \/ ((\A f \in Requests : ~Ready(f)) /\ Advance(e))
BatchProgress(w) == (\A f \in Requests : ~Ready(f)) /\ BatchEnds(w)

A2aSpec == A2aInit /\ [][A2aNext]_taskVars

-----------------------------------------------------------------------------
\* Every variable keeps its type.
A2aTypeOK ==
    /\ cached \in Objects \cup {NoTask} /\ loads \in 0 .. Loads
    /\ initializing \in Requests \cup {NoRequest} /\ executing \in Requests \cup {NoRequest}
    /\ controllers \cup aborted \cup explicitly \subseteq Requests /\ disposed \subseteq Objects
    /\ taskState \in [Objects -> Terminal \cup {"submitted", "working", "input-required"}]
    /\ pendingTools \in [Objects -> SUBSET Requests]
    /\ batches \in [Objects -> Seq(Requests)]
    /\ asking \in [Objects -> BOOLEAN] /\ cancelling \in [Objects -> BOOLEAN]
    /\ cancellationError \in [Objects -> BOOLEAN]
    /\ reqPc \in [Requests -> MainLoop \cup
         {"new", "loading", "waiting", "secondary", "leaving", "evicting", "done"}]
    /\ reqTask \in [Requests -> Objects \cup {NoTask}]

\* executor.ts: one main loop at a time works on a task, however its requests,
\* the ends of their connections and the cancels interleave.
OnePrimary == \A e, f \in Requests :
    Primary(e) /\ Primary(f) /\ e \notin aborted /\ f \notin aborted => e = f

\* executor.test.ts: a new request is not evicted when the one before it was
\* cancelled and winds down: the loop works on the object that later messages
\* are handed to, and that still hears from its scheduler.
NotEvicted == \A e \in Requests :
    Primary(e) /\ e \notin aborted => cached = reqTask[e] /\ cached \notin disposed

\* The calls of a batch that was rejected stay pending.
Rejected(w) == {f \in pendingTools[w] :
    \/ \A j \in 1 .. Len(batches[w]) : batches[w][j] # f
    \/ f \in aborted /\ f # Head(batches[w])}

\* The tools of an object end only when the user answers, or never.
Held(w) == asking[w] \/ Rejected(w) # {}

\* What a request that is aborted or waits for its tools comes to
RequestSettled(e) == IF e \in aborted THEN reqPc[e] = "done" ELSE reqPc[e] # "tools"

\* task.ts, executor.ts: a loop that waits for its tools goes on and an aborted
\* request ends, unless it waits for tools that were rejected or that the user
\* has to approve: no wake-up is lost, and no loop waits for calls that another
\* one cancelled.
RequestsSettle == \A e \in Requests :
    UnderWay(e) /\ (e \in aborted \/ reqPc[e] = "tools")
        ~> RequestSettled(e) \/ (reqPc[e] = "tools" /\ Held(reqTask[e]))
=============================================================================
