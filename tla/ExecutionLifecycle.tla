------------------------- MODULE ExecutionLifecycle -------------------------
(***************************************************************************)
(* core/services/executionLifecycleService.ts: shell commands and agents   *)
(* that can be moved to the background, killed, or watched for their exit. *)
(* The id of a process may be used again by a later one.                   *)
(***************************************************************************)
EXTENDS Integers

CONSTANTS
    Ids,        \* execution ids
    Watchers,   \* callers of onExit
    Runs        \* bound: executions under one id

ASSUME ExecutionConstants == Runs \in Nat

VARIABLES
    active,       \* ids in activeExecutions
    resolver,     \* ids in activeResolvers
    background,   \* active ids that were moved to the background
    exitInfo,     \* ids in exitedExecutionInfo
    timers,       \* of each id: pending removals of its exit info
    watch,        \* of each watcher: what it waits for or was told
    run,          \* of each id: how many executions were attached
    results,      \* history: results delivered, of each run of each id
    injections    \* history: completions reported, of each run of each id

execVars == <<active, resolver, background, exitInfo, timers, watch, run, results, injections>>

Idle == [state |-> "idle", id |-> 0, run |-> 0]
Counters == [Ids -> [1 .. Runs -> Nat]]

ExecutionInit ==
    /\ active = {} /\ resolver = {} /\ background = {} /\ exitInfo = {}
    /\ timers = [e \in Ids |-> 0] /\ run = [e \in Ids |-> 0]
    /\ watch = [w \in Watchers |-> Idle]
    /\ results = [e \in Ids |-> [r \in 1 .. Runs |-> 0]]
    /\ injections = [e \in Ids |-> [r \in 1 .. Runs |-> 0]]

\* wrong: an execution in the background is replaced
MayAttachAgain(e) == e \notin resolver

MayAttach(e) == e \notin active \cup resolver

\* wrong: what was in the background stays there
StaysBackground(e) == background

\* The state of a new execution begins in the foreground.
InForeground(e) == background \ {e}

\* attachExecution, createExecution
Attach(e) ==
    /\ MayAttach(e) /\ run[e] < Runs
    /\ active' = active \cup {e} /\ resolver' = resolver \cup {e}
    /\ background' = InForeground(e)
    /\ exitInfo' = exitInfo \ {e}
    /\ run' = [run EXCEPT ![e] = @ + 1]
    /\ UNCHANGED <<timers, watch, results, injections>>

Deliver(e) == results' = [results EXCEPT ![e][run[e]] = @ + 1]

\* background: the result is delivered now, the execution goes on.
Background(e) ==
    /\ e \in active \cap resolver
    /\ Deliver(e)
    /\ resolver' = resolver \ {e} /\ background' = background \cup {e}
    /\ UNCHANGED <<active, exitInfo, timers, watch, run, injections>>

\* wrong: the result is delivered again
AnswersAlways(e) == TRUE

\* resolvePending: does someone still wait for the result?
AnswersTo(e) == e \in resolver

\* settleExecution: the completion of a background execution is reported; the
\* result goes to whom still waits for it, the exit to those that watch.
SettleExecution(e, aborted) ==
    /\ e \in active
    /\ injections' = IF e \in background /\ ~aborted
                     THEN [injections EXCEPT ![e][run[e]] = @ + 1] ELSE injections
    /\ IF AnswersTo(e) THEN Deliver(e) ELSE UNCHANGED results
    /\ resolver' = resolver \ {e} /\ active' = active \ {e}
    /\ watch' = [w \in Watchers |->
         IF watch[w].state = "listening" /\ watch[w].id = e THEN [watch[w] EXCEPT !.state = "told"]
         ELSE watch[w]]
    /\ exitInfo' = exitInfo \cup {e}
    /\ timers' = [timers EXCEPT ![e] = @ + 1]
    /\ UNCHANGED <<background, run>>

\* completeExecution, completeWithResult; later calls find nothing to settle.
Complete(e) == \E aborted \in BOOLEAN : SettleExecution(e, aborted)

\* kill: settled as aborted, whatever the process does after the signal.
Kill(e) == SettleExecution(e, TRUE)

\* onExit: of an active execution, of one that exited a while ago, of none.
OnExit(w, e) ==
    /\ watch[w].state = "idle" /\ run[e] > 0
    /\ watch' = [watch EXCEPT ![w] =
         [state |-> IF e \in active THEN "listening" ELSE IF e \in exitInfo THEN "told" ELSE "ignored",
          id |-> e, run |-> run[e]]]
    /\ UNCHANGED <<active, resolver, background, exitInfo, timers, run, results, injections>>

Unwatch(w) ==
    /\ watch[w].state # "idle"
    /\ watch' = [watch EXCEPT ![w] = Idle]
    /\ UNCHANGED <<active, resolver, background, exitInfo, timers, run, results, injections>>

\* Five minutes after an exit; the timer of an earlier run is not cancelled.
ForgetExit(e) ==
    /\ timers[e] > 0
    /\ timers' = [timers EXCEPT ![e] = @ - 1]
    /\ exitInfo' = exitInfo \ {e}
    /\ UNCHANGED <<active, resolver, background, watch, run, results, injections>>

ExecutionNext ==
    \/ \E e \in Ids : Attach(e) \/ Background(e) \/ Complete(e) \/ Kill(e) \/ ForgetExit(e)
    \/ \E w \in Watchers : Unwatch(w) \/ \E e \in Ids : OnExit(w, e)

ExecutionSpec == ExecutionInit /\ [][ExecutionNext]_execVars

-----------------------------------------------------------------------------
\* Every variable keeps its type.
ExecutionTypeOK ==
    /\ {active, resolver, background, exitInfo} \subseteq SUBSET Ids
    /\ timers \in [Ids -> Nat] /\ run \in [Ids -> 0 .. Runs]
    /\ watch \in [Watchers -> [state : {"idle", "listening", "told", "ignored"},
                               id : Ids \cup {0}, run : 0 .. Runs]]
    /\ results \in Counters /\ injections \in Counters

Begun(e, r) == r <= run[e]
Over(e, r) == Begun(e, r) /\ (r < run[e] \/ e \notin active)

\* Whoever awaits an execution gets one result: when it is moved to the
\* background or when it ends, never both, never none.
OneResultEach == \A e \in Ids, r \in 1 .. Runs :
    results[e][r] = IF Over(e, r) \/ (Begun(e, r) /\ e \in background) THEN 1 ELSE 0

\* A completion is injected into the conversation once at most, and only when
\* the tool call that started the execution had been answered before.
InjectedAfterResult ==
    [][\A e \in Ids, r \in 1 .. Runs : injections'[e][r] # injections[e][r] =>
         injections[e][r] = 0 /\ results[e][r] = 1]_execVars

\* No watcher of an active execution misses its exit and waits for ever, or
\* takes the exit of a later process with the same id for it.
NoExitMissed == \A w \in Watchers :
    watch[w].state = "listening" => watch[w].id \in active /\ watch[w].run = run[watch[w].id]
=============================================================================
