------------------------ MODULE SchedulerProperties ------------------------
(* What the scheduler is correct for, stated over the model in Scheduler.  *)
EXTENDS Scheduler

\* Every variable keeps its type; statuses are those of CoreToolCallStatus.
TypeOK ==
    /\ running \in Batches \cup {NoBatch} /\ isCancelling \in BOOLEAN
    /\ loop \in {"idle", "top", "validating", "executing", "polling", "finishing"}
    /\ madeProgress \in BOOLEAN /\ denied \in BOOLEAN
    /\ batchState \in [Batches -> {"new", "queued", "running", "resolved", "rejected"}]
    /\ ticket \in [Batches -> Nat] /\ clock \in Nat
    /\ results \in [Batches -> SUBSET Calls]
    /\ queue \in Seq(Calls) /\ active \subseteq Calls /\ completed \subseteq Calls
    /\ status \in [Calls -> Statuses]
    /\ parallel \subseteq Calls /\ stale \subseteq Calls /\ aborted \subseteq Signals
    /\ reported \in [Calls -> Nat]
    /\ pc \in [Calls -> PCs]
    /\ consent \in [Calls -> {"none", "policy", "user"}]
    /\ tails \in [Calls -> Nat] /\ edits \in [Calls -> Nat]

\* While a batch is processed each of its calls is in exactly one of the
\* queue (once), the active calls and the completed batch: no path through
\* waves, tail calls, denials and cancellation loses or duplicates a call.
Conservation ==
    running # NoBatch =>
      /\ CallsOf(running) = ToSet(queue) \cup active \cup completed
      /\ IsInjective(queue)
      /\ ToSet(queue) \cap active = {}
      /\ (ToSet(queue) \cup active) \cap completed = {}

\* When the promise of schedule() resolves, its results hold every call of
\* the batch, each reported once with a terminal status; only a call moved to
\* the background may be missing.
CompleteResults ==
    \A b \in Batches : batchState[b] = "resolved" =>
      /\ results[b] \subseteq CallsOf(b)
      /\ CallsOf(b) \ results[b] \subseteq Backgroundable
      /\ \A c \in results[b] : status[c] \in Terminal /\ reported[c] = 1

\* The processing loop never leaves work behind: the "stuck state" exit of
\* _processNextItem and the cancellation exit are taken with nothing queued
\* and, calls in the background apart, nothing active.
NothingAbandoned ==
    loop \in {"finishing", "idle"} => queue = <<>> /\ active \subseteq Backgroundable

\* A sequential call (an edit, update_topic or wait_for_previous) never runs
\* next to another call.
Isolation ==
    \A c, d \in Calls :
      pc[c] = "running" /\ pc[d] # "idle" /\ c # d => {c, d} \subseteq parallel

\* What executes was let through as it stands: allowed by the policy, or
\* approved by a user who saw, or typed, the arguments it runs with. A tail
\* call, an edit or a sandbox expansion needs consent of its own.
InformedConsent ==
    \A c \in Calls : pc[c] = "running" =>
      /\ consent[c] # "none"
      /\ consent[c] = "user" => c \notin stale

Starts(c) == pc[c] # "running" /\ pc'[c] = "running"

\* Call c comes before call d in a batch.
Earlier(c, d) ==
    \E b \in Batches : \E i, j \in DOMAIN Ordered(b) :
      i < j /\ Ordered(b)[i] = c /\ Ordered(b)[j] = d

\* A requested call begins to execute only when each call before it in its
\* batch, and every tail call that one chained, has its result or belongs to
\* the same wave, as a call it may overlap with.
InOrder ==
    [][\A c, d \in Calls :
         Earlier(c, d) /\ Starts(d) /\ status[d] = "scheduled" /\ tails[d] = 0
           => c \in completed \/ {c, d} \subseteq active \cap parallel]_vars

\* No call begins to execute after the cancellation of the batch: neither
\* one that cancelAll finalized nor one whose signal is aborted.
CancelledNeverStarts ==
    [][\A c \in Calls : Starts(c) => c \in active /\ ~Aborted /\ ~isCancelling]_vars

\* After a user denied a call no call of the batch that was still queued is
\* processed, when the scheduler was built to cascade denials. (A tail call
\* of a call that was already active still is.)
DenialStopsQueue ==
    [][CancelQueuedOnCancel /\ denied =>
         \A c \in active' \ active : tails[c] > 0 \/ running' # running]_vars

\* A call is worked on - its hook runs, its prompt waits, its tool runs - only
\* while its batch is the one that runs. cancelAll records the end of calls
\* whose tools still run, and the next batch may be queued behind them: the
\* promise of their batch does not settle over a tool that goes on.
NoneRunsOn ==
    \A b \in Batches : \A c \in CallsOf(b) : pc[c] # "idle" => batchState[b] = "running"

\* Every promise of schedule() settles.
BatchesSettle ==
    \A b \in Batches :
      batchState[b] \in {"queued", "running"} ~> batchState[b] \in {"resolved", "rejected"}

\* What has become of each batch, and of each call, for those who schedule
Phase == [b \in Batches |->
            IF batchState[b] \in {"queued", "running"} THEN "open" ELSE batchState[b]]
Outcome == [c \in Calls |->
              IF c \in completed \/ \E b \in Batches : c \in results[b]
              THEN status[c] ELSE "none"]

\* The contract of schedule(): see ToolBatches.
Contract == INSTANCE ToolBatches WITH phase <- Phase, outcome <- Outcome

ImplementsContract == Contract!Spec

=============================================================================
