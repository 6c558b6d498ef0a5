------------------------- MODULE SchedulerInvariant ------------------------
(* The inductive invariant of Scheduler from which SchedulerProofs derives  *)
(* its safety properties.                                                   *)
EXTENDS SchedulerProperties

\* Which await the loop is suspended at, and the coroutines it waits for
Shape ==
    /\ running = NoBatch <=> loop = "idle"
    /\ \A b \in Batches : batchState[b] = "running" <=> b = running
    /\ loop \notin {"validating", "executing"} => AllIdle
    /\ loop = "validating" => \A c \in Calls : pc[c] # "running"
    /\ loop = "executing" => \A c \in Calls : pc[c] # "deciding"

\* Conservation; between batches nothing is queued, and what is still active
\* was left behind by a batch whose promise has resolved
Placement ==
    /\ Conservation
    /\ running = NoBatch => queue = <<>>
    /\ running = NoBatch =>
         \A c \in active : \E b \in Batches : batchState[b] = "resolved" /\ c \in CallsOf(b)
    /\ \A c \in ToSet(queue) : status[c] \in {"validating", "error"}

\* A coroutine works for a call of the running batch: an active one that is
\* not terminal, or one that cancelAll finalized under it.
Coroutines ==
    /\ \A c \in active : pc[c] # "idle" => status[c] \notin Terminal
    /\ \A c \in Calls : pc[c] # "idle" => c \in active \cup completed
    /\ isCancelling => queue = <<>> /\ \A c \in active : pc[c] = "idle"
    /\ isCancelling /\ loop = "validating" => active \subseteq TerminalActive

\* What the calls of a wave have reached when their coroutine is done
Waves ==
    /\ loop = "validating" =>
         \A c \in active : pc[c] = "idle" => status[c] \in Terminal \cup {"scheduled"}
    /\ loop = "executing" =>
         \A c \in active : pc[c] = "idle" =>
           status[c] \in Terminal \/ (c \in Backgroundable /\ status[c] = "executing")
    /\ loop \notin {"validating", "executing"} =>
         \A c \in active : c \in Backgroundable /\ status[c] = "executing"
    /\ loop \in {"validating", "executing"} => active # {} \/ madeProgress \/ isCancelling
    /\ loop = "finishing" => queue = <<>>

\* The members of a wave of several calls are parallelizable
Siblings ==
    loop \in {"validating", "executing"} =>
      \A c, d \in Calls :
        /\ c # d
        /\ c \in active \/ pc[c] # "idle"
        /\ d \in active \/ pc[d] # "idle"
        => c \in parallel

\* How often a call was reported, by where it is
Tally ==
    /\ \A c \in ToSet(queue) \cup active : reported[c] = 0
    /\ running # NoBatch => \A c \in completed : reported[c] = 1 /\ status[c] \in Terminal
    /\ \A b \in Batches : batchState[b] \in {"new", "queued", "rejected"} =>
         \A c \in CallsOf(b) : reported[c] = 0
    /\ \A b \in Batches : batchState[b] = "resolved" => results[b] \cap active = {}

\* InformedConsent from the moment consent is given
Consent ==
    \A c \in Calls :
      /\ \/ pc[c] \in {"approved", "running"}
         \/ c \in active /\ pc[c] = "idle" /\ status[c] = "scheduled"
         => consent[c] # "none" /\ (consent[c] = "user" => c \notin stale)
      /\ pc[c] \in {"prompted", "typing", "refused"} => c \notin stale

\* A cancellation that is under way has aborted the signal of the batch, and
\* only under it does a coroutine outlive the record of its call.
Cancelling ==
    /\ ~BareCancel /\ isCancelling /\ running # NoBatch => Aborted
    /\ ~isCancelling => \A c \in Calls : pc[c] # "idle" => c \in active

\* A requested call stands in the queue behind those before it in its batch,
\* tail calls of theirs included, and leaves it after them; only while it is
\* validated is it scheduled.
Line ==
    /\ \A p, q \in DOMAIN queue :
         Earlier(queue[p], queue[q]) /\ tails[queue[q]] = 0 => p < q
    /\ loop = "validating" =>
         \A c \in ToSet(queue), d \in active : Earlier(c, d) => tails[d] > 0
    /\ loop = "executing" => \A c \in Calls : pc[c] # "idle" => status[c] # "scheduled"

\* After a denial that cascades only tail calls are queued.
Denial == CancelQueuedOnCancel /\ denied => \A c \in ToSet(queue) : tails[c] > 0

\* Only a promise that has resolved carries results. What completes between
\* batches was in the background.
Promises ==
    /\ running = NoBatch => completed \subseteq Backgroundable
    /\ \A b \in Batches : batchState[b] # "resolved" => results[b] = {}

\* What is inductive relative to IInv: the order of the calls and the results
OrderInv == Line /\ Denial /\ Promises

IInv ==
    /\ TypeOK /\ Shape /\ Placement /\ Coroutines /\ Waves /\ Siblings
    /\ Tally /\ CompleteResults /\ Consent /\ Cancelling
=============================================================================
