------------------------ MODULE SchedulerOrderProofs ------------------------
(***************************************************************************)
(* The order in which the scheduler starts calls and batches, and that it  *)
(* implements the contract of schedule(), for every set of calls, batches  *)
(* and signals. Everything here rests on the invariant of SchedulerProofs. *)
(***************************************************************************)
EXTENDS SchedulerProofs

-----------------------------------------------------------------------------
(* The order within a batch                                                *)

\* A call belongs to one batch, where it has one position.
LEMMA EarlierInBatch ==
    ASSUME NEW b \in Batches, NEW p \in DOMAIN Ordered(b), NEW q \in DOMAIN Ordered(b),
           Earlier(Ordered(b)[p], Ordered(b)[q])
    PROVE  p < q
<1>a. PICK a \in Batches :
        \E i, j \in DOMAIN Ordered(a) : i < j /\ Ordered(a)[i] = Ordered(b)[p] /\ Ordered(a)[j] = Ordered(b)[q]
  BY DEF Earlier
<1>1. PICK i \in DOMAIN Ordered(a), j \in DOMAIN Ordered(a) :
        i < j /\ Ordered(a)[i] = Ordered(b)[p] /\ Ordered(a)[j] = Ordered(b)[q]
  BY <1>a
<1>2. Ordered(a)[i] \in CallsOf(a) /\ Ordered(b)[p] \in CallsOf(b)
  BY DEF CallsOf, ToSet
<1>3. a = b
  BY <1>1, <1>2, DistinctCallIds
<1>4. IsInjective(Ordered(b))
  BY DistinctCallIds
<1>5. i = p /\ j = q
  BY <1>1, <1>3, <1>4 DEF IsInjective
<1> QED BY <1>1, <1>5

\* The calls of an order belong to one batch.
LEMMA EarlierSameBatch ==
    ASSUME NEW b \in Batches, NEW c, NEW d, Earlier(c, d), d \in CallsOf(b)
    PROVE  c \in CallsOf(b) /\ c # d
<1>a. PICK a \in Batches :
        \E i, j \in DOMAIN Ordered(a) : i < j /\ Ordered(a)[i] = c /\ Ordered(a)[j] = d
  BY DEF Earlier
<1>1. PICK i \in DOMAIN Ordered(a), j \in DOMAIN Ordered(a) :
        i < j /\ Ordered(a)[i] = c /\ Ordered(a)[j] = d
  BY <1>a
<1>2. c \in CallsOf(a) /\ d \in CallsOf(a)
  BY <1>1 DEF CallsOf, ToSet
<1>3. a = b
  BY <1>2, DistinctCallIds
<1>4. i # j
  <2>1. Ordered(a) \in Seq(Calls)
    BY DistinctCallIds
  <2>2. i \in Nat /\ j \in Nat
    BY <2>1
  <2> QED BY <1>1, <2>2
<1>5. c # d
  BY <1>1, <1>4, DistinctCallIds DEF IsInjective
<1> QED BY <1>2, <1>3, <1>5

\* A batch that starts stands in its order.
LEMMA LineStarts ==
    ASSUME NEW b \in Batches, queue' = Ordered(b), loop' = "top"
    PROVE  Line'
<1>1. \A p, q \in DOMAIN queue' : Earlier(queue'[p], queue'[q]) => p < q
  BY EarlierInBatch
<1> QED BY <1>1 DEF Line

\* A queue that stays or is emptied stays in order, as long as no wave begins
\* and no tail call is made.
LEMMA LineKept ==
    ASSUME Line, UNCHANGED tails, queue' \in {queue, << >>},
           loop' = "validating" => loop = "validating" /\ active' \subseteq active,
           loop' = "executing" => \A c \in Calls : pc'[c] # "idle" => status'[c] # "scheduled"
    PROVE  Line'
<1>1. CASE queue' = queue
  BY <1>1 DEF Line
<1>2. CASE queue' = << >>
  <2>1. DOMAIN queue' = {} /\ ToSet(queue') = {}
    BY <1>2 DEF ToSet
  <2> QED BY <2>1 DEF Line
<1> QED BY <1>1, <1>2

\* The calls at the head of the queue leave it, to be a wave or reported.
LEMMA LineAdvances ==
    ASSUME TypeOK, Line, NEW n \in 1 .. Len(queue), UNCHANGED tails,
           queue' \in Seq(Calls), Len(queue') = Len(queue) - n,
           \A i \in 1 .. Len(queue') : queue'[i] = queue[n + i],
           \/ loop' = "top"
           \/ loop' = "validating" /\ active' = {queue[i] : i \in 1 .. n}
    PROVE  Line'
<1>1. /\ DOMAIN queue = 1 .. Len(queue) /\ DOMAIN queue' = 1 .. Len(queue')
      /\ Len(queue) \in Nat /\ n \in Nat
  BY DEF TypeOK
<1>2. ASSUME NEW p \in DOMAIN queue', NEW q \in DOMAIN queue',
             Earlier(queue[n + p], queue[n + q]), tails[queue[n + q]] = 0
      PROVE  p < q
  <2>1. n + p \in DOMAIN queue /\ n + q \in DOMAIN queue
    BY <1>1
  <2>2. n + p < n + q
    BY <2>1, <1>2 DEF Line
  <2> QED BY <2>2, <1>1
<1>3. \A p, q \in DOMAIN queue' :
        Earlier(queue[p], queue[q])' /\ tails'[queue'[q]] = 0 => p < q
  BY <1>1, <1>2
<1>4. ASSUME loop' = "validating", NEW c \in ToSet(queue'), NEW d \in active', Earlier(c, d)
      PROVE  tails[d] > 0
  <2>1. PICK p \in 1 .. Len(queue') : c = queue[n + p]
    BY ElementAt, <1>4
  <2>2. PICK q \in 1 .. n : d = queue[q]
    BY <1>4
  <2>3. n + p \in DOMAIN queue /\ q \in DOMAIN queue /\ ~(n + p < q)
    BY <1>1
  <2>4. tails[d] # 0
    BY <1>4, <2>1, <2>2, <2>3 DEF Line
  <2>5. d \in Calls
    BY <1>1, <2>2, <2>3 DEF TypeOK
  <2>6. tails[d] \in Nat
    BY <2>5 DEF TypeOK
  <2> QED BY <2>4, <2>6
<1>5. loop' # "executing"
  OBVIOUS
<1> QED BY <1>3, <1>4, <1>5 DEF Line

\* A tail call goes before the calls that are queued.
LEMMA LineTail ==
    ASSUME TypeOK, Core, Line, NEW c \in Calls, ToolReturnsTail(c)
    PROVE  Line'
<1>1. /\ loop' = loop /\ loop = "executing" /\ pc' = [pc EXCEPT ![c] = "idle"]
      /\ tails' = [tails EXCEPT ![c] = @ + 1]
  BY DEF ToolReturnsTail, Core, Shape, AllIdle
<1>2. tails'[c] > 0 /\ \A d \in Calls : d # c => tails'[d] = tails[d]
  BY <1>1 DEF TypeOK
<1>3. \A d \in Calls : pc'[d] # "idle" => status'[d] # "scheduled"
  <2>1. \A d \in Calls : d # c => status'[d] = status[d] /\ pc'[d] = pc[d]
    BY <1>1 DEF ToolReturnsTail, TypeOK
  <2>2. pc'[c] = "idle"
    BY <1>1 DEF TypeOK
  <2> QED BY <1>1, <2>1, <2>2 DEF Line
<1>4. \A p, q \in DOMAIN queue' :
        Earlier(queue[p], queue[q])' /\ tails'[queue'[q]] = 0 => p < q
  <2>1. CASE queue' = queue
    <3>1. \A q \in DOMAIN queue : queue[q] \in Calls
      BY DEF TypeOK
    <3>2. \A q \in DOMAIN queue : tails'[queue[q]] = 0 => tails[queue[q]] = 0
      BY <1>2, <3>1
    <3> QED BY <2>1, <3>2 DEF Line
  <2>2. CASE queue' = <<c>> \o queue
    <3>1. /\ DOMAIN queue' = 1 .. Len(queue) + 1 /\ queue'[1] = c /\ Len(queue) \in Nat
          /\ DOMAIN queue = 1 .. Len(queue)
          /\ \A i \in 2 .. Len(queue) + 1 : queue'[i] = queue[i - 1] /\ queue[i - 1] \in Calls
      BY <2>2 DEF TypeOK
    <3> SUFFICES ASSUME NEW p \in DOMAIN queue', NEW q \in DOMAIN queue',
                        Earlier(queue[p], queue[q])', tails'[queue'[q]] = 0
                 PROVE  p < q
      OBVIOUS
    <3>2. q # 1
      BY <3>1, <1>2
    <3>3. CASE p = 1
      BY <3>1, <3>2, <3>3
    <3>4. CASE p # 1
      <4>1. /\ p - 1 \in DOMAIN queue /\ q - 1 \in DOMAIN queue
            /\ queue'[p] = queue[p - 1] /\ queue'[q] = queue[q - 1] /\ queue[q - 1] \in Calls
        BY <3>1, <3>2, <3>4
      <4>2. tails[queue[q - 1]] = 0
        BY <4>1, <1>2
      <4>3. p - 1 < q - 1
        BY <4>1, <4>2 DEF Line
      <4> QED BY <4>3, <3>1
    <3> QED BY <3>3, <3>4
  <2> QED BY <2>1, <2>2 DEF ToolReturnsTail, UnshiftedTail
<1> QED BY <1>1, <1>3, <1>4 DEF Line

LEMMA LineClient ==
    ASSUME TypeOK, Core, Line, Client PROVE Line'
<1>1. ASSUME NEW b \in Batches, ScheduleNow(b) PROVE Line'
  BY <1>1, LineStarts DEF ScheduleNow, StartBatch
<1>2. ASSUME NEW b \in Batches, Enqueue(b) \/ EnqueueAborted(b) PROVE Line'
  BY <1>2, LineKept DEF Enqueue, EnqueueAborted, loopVars, callVars, confVars, Line
<1>3. CASE CancelEffect
  <2>1. /\ UNCHANGED <<tails, loop, pc>> /\ queue' = << >> /\ active' \subseteq active
        /\ \A c \in Calls : status'[c] \in {status[c], "cancelled"}
    BY <1>3 DEF CancelEffect, confVars, QueueCancelled
  <2>2. loop' = "executing" => \A c \in Calls : pc'[c] # "idle" => status'[c] # "scheduled"
    BY <2>1 DEF Line
  <2> QED BY <2>1, <2>2, LineKept
<1>4. ASSUME NEW s \in Signals, Abort(s) \/ UserCancel(s) PROVE Line'
  BY <1>3, <1>4, LineKept DEF Abort, UserCancel, loopVars, callVars, confVars, Line
<1>5. CASE CancelAll
  BY <1>3, <1>5 DEF CancelAll
<1> QED BY <1>1, <1>2, <1>4, <1>5 DEF Client

LEMMA LineLoop ==
    ASSUME TypeOK, Core, Line, Loop PROVE Line'
<1>1. CASE LoopEnds \/ PollTimer \/ LoopBreaks \/ EndWave \/ Revisit
  <2>1. /\ UNCHANGED tails /\ queue' \in {queue, << >>}
        /\ loop' \in {"top", "polling", "finishing"}
    BY <1>1 DEF LoopEnds, PollTimer, LoopBreaks, EndWave, Revisit, FinalizeTerminal, After,
       callVars, confVars
  <2> QED BY <2>1, LineKept
<1>2. CASE DropErrored
  <2>1. /\ queue' = Tail(queue) /\ queue # << >> /\ UNCHANGED tails /\ loop' = "top"
        /\ queue \in Seq(Calls)
    BY <1>2 DEF DropErrored, LoopGoesOn, loopVars, confVars, TypeOK
  <2>2. /\ 1 \in 1 .. Len(queue) /\ queue' \in Seq(Calls) /\ Len(queue') = Len(queue) - 1
        /\ \A i \in 1 .. Len(queue') : queue'[i] = queue[1 + i]
    BY <2>1
  <2> QED BY <2>1, <2>2, LineAdvances
<1>3. CASE StartWave
  <2>1. PICK n \in 1 .. Len(queue) :
          /\ queue' = SubSeq(queue, n + 1, Len(queue))
          /\ active' = {queue[i] : i \in 1 .. n}
    BY <1>3 DEF StartWave
  <2>2. UNCHANGED tails /\ loop' = "validating"
    BY <1>3 DEF StartWave
  <2>3. /\ queue' \in Seq(Calls) /\ Len(queue') = Len(queue) - n
        /\ \A i \in 1 .. Len(queue') : queue'[i] = queue[n + i]
    <3>1. queue \in Seq(Calls) /\ n \in Nat /\ n <= Len(queue) /\ Len(queue) \in Nat
      BY DEF TypeOK
    <3> QED BY <2>1, <3>1
  <2> QED BY <2>1, <2>2, <2>3, LineAdvances
<1>4. CASE StartExecution
  <2>1. /\ UNCHANGED <<tails, queue>> /\ loop' = "executing"
        /\ \A c \in Calls : pc'[c] # "idle" => status'[c] = "executing"
    BY <1>4 DEF StartExecution, AllIdle
  <2> QED BY <2>1, LineKept
<1>5. CASE FinishBatch
  <2>1. CASE loop' = "idle"
    BY <1>5, <2>1, LineKept DEF FinishBatch, StartBatch
  <2>2. ASSUME NEW b \in Batches, StartBatch(b, [batchState EXCEPT ![running] = "resolved"])
        PROVE  Line'
    BY <2>2, LineStarts DEF StartBatch
  <2>3. \/ UNCHANGED <<tails, queue>> /\ loop' = "idle"
        \/ \E b \in Batches : StartBatch(b, [batchState EXCEPT ![running] = "resolved"])
    BY <1>5 DEF FinishBatch, Backlog, RequestQueue
  <2> QED BY <2>1, <2>2, <2>3
<1> QED BY <1>1, <1>2, <1>3, <1>4, <1>5 DEF Loop

\* While calls execute, none that is at work is scheduled again.
LEMMA LineLocal ==
    ASSUME TypeOK, Core, Line, NEW c \in Calls, Local(c) PROVE Line'
<1>1. CallStep(c)
  BY LocalSteps DEF Core
<1>2. UNCHANGED <<queue, active, loop, tails>>
  BY <1>1 DEF CallStep, Frame, loopVars
<1>3. \A d \in Calls : d # c => pc'[d] = pc[d] /\ status'[d] = status[d]
  BY <1>1 DEF CallStep, Updated, TypeOK
<1>4. loop = "executing" => pc'[c] = "idle" \/ status'[c] # "scheduled"
  <2> USE DEF Resume, Done, Updated, TypeOK, Line, callVars
  <2>1. CASE Answer(c) \/ AskEdit(c) \/ Ask(c) \/ NoPrompt(c) \/ EditorCloses(c) \/ InlineEdit(c)
    BY <2>1 DEF Answer, Approve, Refuse, AskEdit, OnScreen, Ask, NoPrompt, EditorCloses, InlineEdit
  <2>2. CASE Allow(c) \/ Deny(c) \/ ConfirmationThrows(c) \/ SettleProceed(c) \/ ToolReturns(c)
             \/ KeepSandboxError(c)
    BY <2>2 DEF Allow, Deny, ConfirmationThrows, SettleProceed, ToolReturns, KeepSandboxError
  <2>3. CASE Prompt(c) \/ ToolWantsSandbox(c) \/ Reexecute(c)
    BY <2>3 DEF Prompt, ToolWantsSandbox, Reexecute
  <2> QED BY <2>1, <2>2, <2>3 DEF Local
<1>5. loop' = "executing" => \A d \in Calls : pc'[d] # "idle" => status'[d] # "scheduled"
  BY <1>2, <1>3, <1>4 DEF Line
<1> QED BY <1>2, <1>5, LineKept

\* Every step keeps the order of the queue.
LEMMA LineStep == ASSUME IInv, Line, [Next]_vars PROVE Line'
<1> USE DEF IInv, Core
<1>1. ASSUME NEW c \in Calls, SettleCancel(c) PROVE Line'
  <2>1. /\ UNCHANGED <<tails, active, loop>> /\ loop = "validating" /\ queue' \in {queue, << >>}
    BY <1>1 DEF SettleCancel, loopVars
  <2> QED BY <2>1, LineKept
<1>2. ASSUME NEW c \in Calls, LateOutput(c) PROVE Line'
  <2>1. /\ UNCHANGED <<tails, active, loop, queue, pc>>
        /\ \A d \in Calls : status'[d] \in {status[d], "executing"}
    BY <1>2 DEF LateOutput, loopVars, confVars, Updated, TypeOK
  <2> QED BY <2>1, LineKept DEF Line
<1>3. CASE UNCHANGED vars
  BY <1>3, LineKept DEF vars, loopVars, callVars, confVars, Line
<1> QED
  BY <1>1, <1>2, <1>3, StepKinds, LineClient, LineLoop, LineLocal, LineTail

-----------------------------------------------------------------------------
(* Denials, and the results of promises                                    *)

\* Every step keeps Denial: the queue only grows at the start of a batch,
\* which forgets the denial, and by tail calls.
LEMMA DenialStep == ASSUME IInv, Denial, [Next]_vars PROVE Denial'
<1> USE DEF IInv, Core
<1>1. ASSUME UNCHANGED <<denied, tails>>, ToSet(queue') \subseteq ToSet(queue) PROVE Denial'
  BY <1>1 DEF Denial
<1>2. ASSUME UNCHANGED <<denied, tails>>, queue' \in {queue, << >>} PROVE Denial'
  <2>1. ToSet(queue') \subseteq ToSet(queue)
    BY <1>2 DEF ToSet
  <2> QED BY <1>1, <1>2, <2>1
<1>3. ASSUME Client PROVE Denial'
  <2>1. CASE \E b \in Batches : ScheduleNow(b)
    BY <2>1 DEF ScheduleNow, StartBatch, Denial
  <2>2. CASE ~\E b \in Batches : ScheduleNow(b)
    <3>1. UNCHANGED <<denied, tails>> /\ queue' \in {queue, << >>}
      BY <1>3, <2>2 DEF Client, Enqueue, EnqueueAborted, Abort, UserCancel, CancelAll, CancelEffect,
         callVars, confVars
    <3> QED BY <3>1, <1>2
  <2> QED BY <2>1, <2>2
<1>4. ASSUME Loop PROVE Denial'
  <2>1. CASE LoopEnds \/ LoopBreaks \/ StartExecution \/ EndWave \/ Revisit \/ PollTimer
    <3>1. UNCHANGED <<denied, tails>> /\ queue' \in {queue, << >>}
      BY <2>1 DEF LoopEnds, LoopBreaks, StartExecution, EndWave, Revisit, PollTimer,
         FinalizeTerminal, callVars, confVars
    <3> QED BY <3>1, <1>2
  <2>2. CASE DropErrored
    <3>1. UNCHANGED <<denied, tails>> /\ queue # << >> /\ queue' = Tail(queue)
      BY <2>2 DEF DropErrored, confVars
    <3>2. ToSet(queue') \subseteq ToSet(queue)
      BY <3>1, TailSplits DEF TypeOK, Placement, Conservation, LoopGoesOn, DropErrored
    <3> QED BY <3>1, <3>2, <1>1
  <2>3. CASE StartWave
    <3>1. /\ UNCHANGED <<denied, tails>>
          /\ \E n \in 1 .. Len(queue) : queue' = SubSeq(queue, n + 1, Len(queue))
      BY <2>3 DEF StartWave
    <3>2. ToSet(queue') \subseteq ToSet(queue)
      <4>1. IsInjective(queue)
        BY <2>3, ConstantTypes DEF StartWave, LoopGoesOn, Shape, Placement, Conservation
      <4> QED BY <3>1, <4>1, PrefixSplits DEF TypeOK
    <3> QED BY <3>1, <3>2, <1>1
  <2>4. CASE FinishBatch
    BY <2>4, <1>2 DEF FinishBatch, StartBatch, Denial
  <2> QED BY <1>4, <2>1, <2>2, <2>3, <2>4 DEF Loop
<1>5. ASSUME NEW c \in Calls, Local(c) \/ LateOutput(c) PROVE Denial'
  <2>1. UNCHANGED <<denied, tails, queue>>
    BY <1>5, LocalSteps DEF CallStep, Frame, LateOutput, confVars
  <2> QED BY <2>1, <1>2
<1>6. ASSUME NEW c \in Calls, SettleCancel(c) PROVE Denial'
  <2>1. CASE CancelQueuedOnCancel
    <3>1. ToSet(queue') = {}
      BY <1>6, <2>1 DEF SettleCancel, Cascades, ToSet
    <3> QED BY <3>1 DEF Denial
  <2> QED BY <2>1 DEF Denial
<1>7. ASSUME NEW c \in Calls, ToolReturnsTail(c) PROVE Denial'
  <2>1. /\ UNCHANGED denied /\ queue' \in {queue, <<c>> \o queue}
        /\ tails' = [tails EXCEPT ![c] = @ + 1]
    BY <1>7 DEF ToolReturnsTail, UnshiftedTail
  <2>2. ToSet(queue') \subseteq {c} \cup ToSet(queue)
    <3>1. running # NoBatch
      BY <1>7 DEF ToolReturnsTail, Shape, AllIdle
    <3>2. CASE c \in active
      <4>1. IsInjective(queue) /\ c \notin ToSet(queue) /\ queue \in Seq(Calls)
        BY <3>1, <3>2 DEF TypeOK, Placement, Conservation
      <4> QED BY <2>1, <4>1, ConsAdds
    <3>3. CASE c \notin active
      <4>1. queue' = queue
        BY <1>7, <3>3 DEF ToolReturnsTail, Replaceable
      <4> QED BY <4>1
    <3> QED BY <3>2, <3>3
  <2>3. ToSet(queue) \subseteq Calls
    BY QueueCalls DEF TypeOK
  <2>4. \A d \in Calls : tails[d] > 0 \/ d = c => tails'[d] > 0
    BY <2>1 DEF TypeOK
  <2> QED BY <2>1, <2>2, <2>3, <2>4 DEF Denial
<1>8. CASE UNCHANGED vars
  BY <1>2, <1>8 DEF vars, callVars, confVars
<1> QED BY <1>3, <1>4, <1>5, <1>6, <1>7, <1>8, StepKinds

\* What a step reports between batches was in the background.
LEMMA ReportedIdle ==
    ASSUME IInv, Promises, NEW S, S \subseteq ToSet(queue) \cup active, Report(S), running = NoBatch
    PROVE  completed' \subseteq Backgroundable
<1>1. ToSet(queue) = {}
  BY QueueCalls DEF IInv, Placement, TypeOK
<1>2. active \subseteq Backgroundable
  BY DEF IInv, Shape, Waves
<1> QED BY <1>1, <1>2 DEF Report, Promises

\* Every step keeps Promises: results are handed over when a batch ends.
LEMMA PromisesStep == ASSUME IInv, Promises, [Next]_vars PROVE Promises'
<1> USE DEF IInv, Core
<1>1. ASSUME UNCHANGED <<running, results>>,
             \A b \in Batches : batchState'[b] # "resolved" => batchState[b] # "resolved",
             running = NoBatch => completed' \subseteq Backgroundable
      PROVE  Promises'
  BY <1>1 DEF Promises
<1>2. ASSUME UNCHANGED <<running, results, batchState, completed>> PROVE Promises'
  BY <1>2 DEF Promises
<1>3. ASSUME Client PROVE Promises'
  <2>1. CASE \E b \in Batches : ScheduleNow(b)
    <3>1. PICK b \in Batches : StartBatch(b, batchState) /\ results' = results /\ batchState[b] = "new"
      BY <2>1 DEF ScheduleNow
    <3> QED BY <3>1, ConstantTypes DEF StartBatch, Promises, TypeOK
  <2>2. CASE \E b \in Batches : Enqueue(b) \/ EnqueueAborted(b)
    BY <1>1, <2>2 DEF Enqueue, EnqueueAborted, loopVars, callVars, Promises, TypeOK
  <2>3. CASE CancelEffect
    <3>1. /\ UNCHANGED <<running, results>>
          /\ \A b \in Batches : batchState'[b] # "resolved" => batchState[b] # "resolved"
      BY <2>3 DEF CancelEffect, QueueRejected, RequestQueue
    <3>2. running = NoBatch => completed' \subseteq Backgroundable
      BY <2>3, ReportedIdle DEF CancelEffect, Flushed
    <3> QED BY <3>1, <3>2, <1>1
  <2>4. CASE \E s \in Signals : Abort(s) \/ UserCancel(s)
    <3>1. CASE CancelEffect
      BY <2>3, <3>1
    <3>2. CASE ~CancelEffect
      BY <1>1, <2>4, <3>2 DEF Abort, UserCancel, QueueRejected, RequestQueue, loopVars, callVars, Promises
    <3> QED BY <3>1, <3>2
  <2> QED BY <1>3, <2>1, <2>2, <2>3, <2>4 DEF Client, CancelAll
<1>4. ASSUME Loop PROVE Promises'
  <2>1. CASE FinishBatch
    <3>1. /\ results' = [results EXCEPT ![running] = completed]
          /\ running \in Batches
      BY <2>1, ConstantTypes DEF FinishBatch, Shape, TypeOK
    <3>2. /\ \A b \in Batches : batchState'[b] # "resolved" => b # running /\ batchState[b] # "resolved"
          /\ completed' = {}
      <4>1. CASE batchState' = [batchState EXCEPT ![running] = "resolved"] /\ completed' = {}
        BY <3>1, <4>1 DEF TypeOK
      <4>2. ASSUME NEW b \in Backlog, StartBatch(b, [batchState EXCEPT ![running] = "resolved"])
            PROVE  /\ \A a \in Batches :
                        batchState'[a] # "resolved" => a # running /\ batchState[a] # "resolved"
                   /\ completed' = {}
        BY <3>1, <4>2 DEF TypeOK, StartBatch, Backlog, RequestQueue, Shape
      <4> QED BY <2>1, <4>1, <4>2 DEF FinishBatch
    <3> QED BY <3>1, <3>2 DEF Promises, TypeOK
  <2>2. CASE ~FinishBatch
    <3>1. /\ UNCHANGED <<running, results, batchState>>
          /\ running # NoBatch
      BY <1>4, <2>2 DEF Loop, LoopEnds, LoopBreaks, DropErrored, StartWave, StartExecution, EndWave,
         Revisit, PollTimer, FinalizeTerminal, LoopGoesOn, loopVars, batchVars, Shape
    <3> QED BY <3>1, <1>1
  <2> QED BY <2>1, <2>2
<1>5. ASSUME NEW c \in Calls, Local(c) \/ LateOutput(c) \/ ToolReturnsTail(c) PROVE Promises'
  <2>1. UNCHANGED <<running, results, batchState, completed>>
    BY <1>5, LocalSteps DEF CallStep, Frame, LateOutput, ToolReturnsTail, loopVars, batchVars
  <2> QED BY <2>1, <1>2
<1>6. ASSUME NEW c \in Calls, SettleCancel(c) PROVE Promises'
  <2>1. UNCHANGED <<running, results, batchState>> /\ running # NoBatch
    BY <1>6 DEF SettleCancel, loopVars, batchVars, Shape
  <2> QED BY <2>1, <1>1
<1>7. CASE UNCHANGED vars
  BY <1>2, <1>7 DEF vars, loopVars, callVars, batchVars
<1> QED BY <1>3, <1>4, <1>5, <1>6, <1>7, StepKinds

\* The order and the promises are invariant.
LEMMA OrderInvariance == Spec => []OrderInv
<1>1. Init => OrderInv
  BY DEF Init, OrderInv, Line, Denial, Promises, ToSet
<1>2. IInv /\ OrderInv /\ [Next]_vars => OrderInv'
  BY LineStep, DenialStep, PromisesStep DEF OrderInv
<1> QED BY <1>1, <1>2, Invariance, PTL DEF Spec

-----------------------------------------------------------------------------
(* The order in which calls and batches start                              *)

\* A call begins to execute with its wave, or again with wider permissions.
LEMMA StartKinds ==
    ASSUME TypeOK, [Next]_vars, NEW c \in Calls, Starts(c)
    PROVE  StartExecution \/ Reexecute(c)
<1>1. ASSUME NEW d \in Calls, Reexecute(d) PROVE Reexecute(c)
  BY <1>1 DEF Reexecute, Starts, Done, TypeOK
<1>2. ASSUME NEW d \in Calls, Local(d), ~Reexecute(d) PROVE FALSE
  BY <1>2 DEF Local, Starts, TypeOK, Answer, Approve, Refuse, AskEdit, Allow, Deny, Ask,
     NoPrompt, Prompt, EditorCloses, AfterEditor, InlineEdit, ConfirmationThrows,
     SettleProceed, ToolReturns, ToolWantsSandbox, KeepSandboxError, Resume, Done
<1>3. ASSUME NEW d \in Calls, SettleCancel(d) \/ ToolReturnsTail(d) \/ LateOutput(d)
      PROVE  FALSE
  BY <1>3 DEF Starts, SettleCancel, ToolReturnsTail, LateOutput, confVars, TypeOK
<1>4. CASE Client
  BY <1>4 DEF Client, Starts, ScheduleNow, Enqueue, EnqueueAborted, Abort, UserCancel,
     CancelAll, CancelEffect, confVars
<1>5. CASE Loop /\ ~StartExecution
  BY <1>5 DEF Loop, Starts, LoopEnds, LoopBreaks, DropErrored, StartWave, EndWave, Revisit,
     PollTimer, FinishBatch, FinalizeTerminal, confVars
<1>6. CASE UNCHANGED vars
  BY <1>6 DEF vars, confVars, Starts
<1> QED BY <1>1, <1>2, <1>3, <1>4, <1>5, <1>6, StepKinds

\* _processNextItem: a call is not started before an earlier one of its batch
\* has its result, tail calls included, unless both may run in one wave.
THEOREM CallsInOrder == Spec => InOrder
<1> DEFINE A == \A c, d \in Calls :
                  Earlier(c, d) /\ Starts(d) /\ status[d] = "scheduled" /\ tails[d] = 0
                    => c \in completed \/ {c, d} \subseteq active \cap parallel
<1>1. ASSUME IInv, OrderInv, [Next]_vars PROVE A
  <2> USE <1>1 DEF IInv, OrderInv
  <2> SUFFICES ASSUME NEW c \in Calls, NEW d \in Calls, Earlier(c, d), Starts(d),
                      status[d] = "scheduled", tails[d] = 0, c \notin completed
               PROVE  {c, d} \subseteq active \cap parallel
    OBVIOUS
  <2>1. ~Reexecute(d)
    BY DEF Line, Reexecute
  <2>2. loop = "validating" /\ d \in active
    BY <2>1, StartKinds DEF StartExecution, Starts
  <2>3. running \in Batches /\ running # NoBatch
    BY <2>2 DEF Shape, TypeOK
  <2>4. CallsOf(running) = ToSet(queue) \cup active \cup completed
    BY <2>3 DEF Placement, Conservation
  <2>5. c \in CallsOf(running) /\ c # d
    BY <2>2, <2>3, <2>4, EarlierSameBatch
  <2>6. c \notin ToSet(queue)
    BY <2>2 DEF Line
  <2>7. c \in active
    BY <2>4, <2>5, <2>6
  <2> QED BY <2>2, <2>5, <2>7 DEF Siblings
<1>2. IInv /\ OrderInv /\ [Next]_vars => [A]_vars
  BY <1>1
<1> QED BY <1>2, Invariance, OrderInvariance, PTL DEF Spec, InOrder

\* confirmation.ts and state-manager.ts: after a denial that cascades, no call
\* that was still queued is taken up.
THEOREM DenialCascades == Spec => DenialStopsQueue
<1> DEFINE A == CancelQueuedOnCancel /\ denied =>
                  \A c \in active' \ active : tails[c] > 0 \/ running' # running
<1>1. ASSUME IInv, OrderInv, [Next]_vars PROVE A
  <2> USE <1>1 DEF IInv
  <2>1. CASE StartWave
    <3>1. active' \subseteq ToSet(queue)
      BY <2>1, ElementAt DEF StartWave, TypeOK
    <3> QED BY <3>1 DEF OrderInv, Denial
  <2>2. CASE Client
    BY <2>2 DEF Client, ScheduleNow, StartBatch, Enqueue, EnqueueAborted, Abort, UserCancel, CancelAll,
       CancelEffect, callVars
  <2>3. CASE Loop /\ ~StartWave
    BY <2>3 DEF Loop, LoopEnds, LoopBreaks, DropErrored, StartExecution, EndWave, Revisit,
       PollTimer, FinishBatch, FinalizeTerminal, callVars
  <2>4. ASSUME NEW c \in Calls, Local(c) \/ SettleCancel(c) \/ ToolReturnsTail(c) \/ LateOutput(c)
        PROVE  active' \subseteq active
    BY <2>4, LocalSteps DEF CallStep, Frame, SettleCancel, ToolReturnsTail, LateOutput
  <2>5. CASE UNCHANGED vars
    BY <2>5 DEF vars, callVars
  <2> QED BY <2>1, <2>2, <2>3, <2>4, <2>5, StepKinds
<1>2. IInv /\ OrderInv /\ [Next]_vars => [A]_vars
  BY <1>1
<1> QED BY <1>2, Invariance, OrderInvariance, PTL DEF Spec, DenialStopsQueue

\* scheduler.ts, cancelAll and _processNextItem: no call is worked on before its
\* batch has started or after its promise has settled.
THEOREM BatchesOutlastCalls == Spec => []NoneRunsOn
<1>1. IInv => NoneRunsOn
  <2> SUFFICES ASSUME IInv, NEW b \in Batches, NEW c \in CallsOf(b), pc[c] # "idle"
               PROVE  batchState[b] = "running"
    BY DEF NoneRunsOn
  <2> USE DEF IInv
  <2>1. c \in Calls
    BY BatchCalls
  <2>2. running \in Batches /\ running # NoBatch
    BY <2>1 DEF TypeOK, Shape, AllIdle
  <2>3. c \in CallsOf(running)
    BY <2>1, <2>2 DEF Coroutines, Placement, Conservation
  <2>4. b = running
    BY <2>2, <2>3, DistinctCallIds
  <2> QED BY <2>4 DEF Shape
<1> QED BY <1>1, Invariance, PTL

-----------------------------------------------------------------------------
(* The contract of schedule(), when nothing runs in the background         *)

\* The calls that have an outcome
Settled == completed \cup UNION {results[b] : b \in Batches}

\* Outcomes are those of the batch that runs or of promises that resolved.
SettledInv ==
    /\ \A c \in Settled : c \in Calls /\ status[c] \in Terminal
    /\ Settled \cap (ToSet(queue) \cup active) = {}
    /\ \A b \in Batches : batchState[b] \in {"new", "queued", "rejected"} => CallsOf(b) \cap Settled = {}
    /\ completed # {} => running \in Batches /\ completed \subseteq CallsOf(running)
    /\ running = NoBatch => queue = << >> /\ active = {} /\ completed = {}

LEMMA SettledCalls == ASSUME IInv, Promises, Backgroundable = {} PROVE SettledInv
<1> USE DEF IInv
<1>1. completed # {} => running \in Batches /\ running # NoBatch /\ completed \subseteq CallsOf(running)
  BY DEF Promises, Placement, Conservation, TypeOK
<1>2. \A b \in Batches : results[b] # {} => batchState[b] = "resolved" /\ results[b] \subseteq CallsOf(b)
  BY DEF Promises, CompleteResults
<1>3. ASSUME NEW c \in Settled
      PROVE  /\ c \in Calls /\ status[c] \in Terminal
             /\ c \notin ToSet(queue) \cup active
             /\ \A b \in Batches : c \in CallsOf(b) => batchState[b] \notin {"new", "queued", "rejected"}
  <2>1. CASE c \in completed
    <3>1. status[c] \in Terminal /\ c \notin ToSet(queue) \cup active
      BY <1>1, <2>1 DEF Tally, Placement, Conservation
    <3>2. c \in CallsOf(running) /\ batchState[running] = "running"
      BY <1>1, <2>1 DEF Shape
    <3> QED BY <2>1, <3>1, <3>2, <1>1, DistinctCallIds DEF TypeOK
  <2>2. CASE c \notin completed
    <3>1. PICK b \in Batches : c \in results[b]
      BY <2>2 DEF Settled
    <3>2. batchState[b] = "resolved" /\ c \in CallsOf(b) /\ c \in Calls
      BY <1>2, <3>1, BatchCalls
    <3>3. status[c] \in Terminal /\ c \notin active
      BY <3>1, <3>2 DEF CompleteResults, Tally
    <3>4. c \notin ToSet(queue)
      <4>1. CASE running = NoBatch
        BY <4>1, QueueCalls DEF Placement, TypeOK
      <4>2. CASE running # NoBatch
        BY <4>2, <3>2, DistinctCallIds DEF Placement, Conservation, Shape, TypeOK
      <4> QED BY <4>1, <4>2
    <3> QED BY <3>2, <3>3, <3>4, DistinctCallIds
  <2> QED BY <2>1, <2>2
<1>4. running = NoBatch => queue = << >> /\ active = {} /\ completed = {}
  BY DEF Placement, Shape, Waves, Promises
<1> QED BY <1>1, <1>2, <1>3, <1>4 DEF SettledInv

\* What a step may do to the promises and the outcomes
Moves(b) ==
    \/ batchState'[b] = batchState[b]
    \/ batchState[b] = "new" /\ batchState'[b] \in {"queued", "running", "rejected"}
    \/ batchState[b] = "queued" /\ batchState'[b] \in {"running", "rejected"}
    \/ batchState[b] = "running" /\ batchState'[b] = "resolved" /\ CallsOf(b) \subseteq Settled
       /\ Settled' = Settled

Final ==
    /\ Settled \subseteq Settled' /\ \A c \in Settled : status'[c] = status[c]
    /\ \A c \in Settled' \ Settled : running \in Batches /\ c \in CallsOf(running)

\* Such a step is one of the contract.
LEMMA ContractStep ==
    ASSUME IInv, IInv', SettledInv, SettledInv', Final, \A b \in Batches : Moves(b)
    PROVE  Contract!Next
<1>1. \A c \in Calls : /\ Outcome[c] = IF c \in Settled THEN status[c] ELSE "none"
                       /\ Outcome'[c] = IF c \in Settled' THEN status'[c] ELSE "none"
  BY DEF Outcome, Settled
<1>2. /\ \A c \in Settled : c \in Calls /\ status[c] \in Terminal
      /\ \A b \in Batches : batchState[b] \in {"new", "queued", "rejected"} => CallsOf(b) \cap Settled = {}
  BY DEF SettledInv
<1>3. \A c \in Settled' : c \in Calls /\ status'[c] \in Terminal
  BY DEF SettledInv
<1>4. Phase' \in [Batches -> Contract!Phases]
  BY DEF IInv, TypeOK, Phase, Contract!Phases
<1>5. Outcome' \in [Calls -> Contract!Outcomes \cup {"none"}]
  <2>1. Outcome' \in [Calls -> {Outcome'[c] : c \in Calls}]
    BY DEF Outcome
  <2> QED BY <2>1, <1>1, <1>3 DEF Contract!Outcomes, Terminal
<1>6. \A b \in Batches : CallsOf(b) \subseteq Calls
  BY BatchCalls
<1>7. \A c \in Settled : Outcome'[c] = Outcome[c] /\ Outcome[c] \in Contract!Outcomes
  BY <1>1, <1>2 DEF Final, Contract!Outcomes, Terminal
<1>8. \A c \in Calls : Outcome[c] # "none" => c \in Settled
  BY <1>1
<1>9. ASSUME NEW b \in Batches, b # running \/ Settled' = Settled PROVE Contract!Keeps(b)
  <2> SUFFICES ASSUME NEW c \in CallsOf(b) PROVE Outcome'[c] = Outcome[c]
    BY DEF Contract!Keeps
  <2>1. CASE c \in Settled
    BY <2>1, <1>7
  <2>2. CASE c \notin Settled
    <3>1. c \notin Settled'
      BY <1>9, <2>2, DistinctCallIds DEF Final
    <3> QED BY <2>2, <3>1, <1>1, <1>6
  <2> QED BY <2>1, <2>2
<1>10. ASSUME NEW b \in Batches
       PROVE  \/ Contract!Accept(b) \/ Contract!Settle(b) \/ Contract!Resolve(b)
              \/ Contract!Reject(b) \/ Contract!Same(b)
  <2>1. /\ Phase[b] = IF batchState[b] \in {"queued", "running"} THEN "open" ELSE batchState[b]
        /\ Phase'[b] = IF batchState'[b] \in {"queued", "running"} THEN "open" ELSE batchState'[b]
    BY DEF Phase
  <2>2. batchState[b] = "running" <=> b = running
    BY DEF IInv, Shape
  <2>3. CASE Phase[b] = "open" /\ Phase'[b] = "open"
    <3>1. Contract!Settle(b)
      BY <2>3, <1>6, <1>7, <1>8 DEF Contract!Settle, Contract!Moves
    <3> QED BY <3>1
  <2>4. CASE batchState'[b] = batchState[b] /\ Phase[b] # "open"
    <3>1. Contract!Same(b)
      BY <2>1, <2>2, <2>4, <1>9 DEF Contract!Same
    <3> QED BY <3>1
  <2>5. CASE batchState[b] = "new" /\ batchState'[b] \in {"queued", "running"}
    <3>1. Contract!Accept(b)
      BY <2>1, <2>2, <2>5, <1>9 DEF Contract!Accept, Contract!Moves
    <3> QED BY <3>1
  <2>6. CASE batchState[b] \in {"new", "queued"} /\ batchState'[b] = "rejected"
    <3>1. Contract!Blank(b)
      BY <2>6, <1>2, <1>6, <1>8 DEF Contract!Blank
    <3>2. Contract!Reject(b)
      BY <2>1, <2>2, <2>6, <3>1, <1>9 DEF Contract!Reject, Contract!Moves
    <3> QED BY <3>2
  <2>7. CASE batchState[b] = "running" /\ batchState'[b] = "resolved"
    <3>1. Contract!Resolve(b)
      BY <2>1, <2>7, <1>7, <1>9 DEF Contract!Resolve, Contract!Moves, Moves
    <3> QED BY <3>1
  <2> QED BY <2>1, <2>3, <2>4, <2>5, <2>6, <2>7 DEF Moves
<1> QED BY <1>4, <1>5, <1>10 DEF Contract!Next

Plays == Final /\ \A b \in Batches : Moves(b)

\* Calls that are queued or active get their outcome, or nothing does.
LEMMA ReportPlays ==
    ASSUME IInv, SettledInv, NEW S, S \subseteq ToSet(queue) \cup active,
           completed' = completed \cup S, results' = results,
           \A c \in Calls : c \notin ToSet(queue) \cup active => status'[c] = status[c],
           \A b \in Batches : batchState'[b] = batchState[b] \/
                (batchState[b] = "new" /\ batchState'[b] \in {"queued", "rejected"}) \/
                (batchState[b] = "queued" /\ batchState'[b] = "rejected")
    PROVE  Plays
<1>1. Settled' = Settled \cup S
  BY DEF Settled
<1>2. ASSUME NEW c \in S PROVE running \in Batches /\ c \in CallsOf(running)
  <2>1. running # NoBatch
    BY <1>2 DEF SettledInv, ToSet
  <2>2. running \in Batches
    BY <2>1 DEF IInv, TypeOK
  <2> QED BY <1>2, <2>1, <2>2 DEF IInv, Placement, Conservation
<1>3. \A c \in Settled : status'[c] = status[c]
  BY DEF SettledInv
<1> QED BY <1>1, <1>2, <1>3 DEF Plays, Final, Moves

\* A batch that starts leaves the outcomes of the others alone.
LEMMA StartPlays ==
    ASSUME IInv, SettledInv, NEW b \in Batches, NEW bs, StartBatch(b, bs),
           batchState[b] \in {"new", "queued"}, Settled' = Settled
    PROVE  Final
<1>1. CallsOf(b) \cap Settled = {}
  BY DEF SettledInv
<1>2. \A c \in Settled : status'[c] = status[c]
  BY <1>1 DEF StartBatch, SettledInv
<1> QED BY <1>2 DEF Final

\* A batch resolves when each of its calls has its outcome.
LEMMA FinishPlays ==
    ASSUME IInv, SettledInv, Promises, Backgroundable = {}, FinishBatch
    PROVE  Plays
<1> USE DEF IInv
<1>1. /\ loop = "finishing" /\ running \in Batches /\ running # NoBatch /\ batchState[running] = "running"
      /\ results' = [results EXCEPT ![running] = completed] /\ UNCHANGED active
  BY ConstantTypes DEF FinishBatch, Shape, TypeOK
<1>2. results[running] = {}
  BY <1>1 DEF Promises
<1>3. Settled' = Settled
  <2>1. completed' = {}
    BY DEF FinishBatch, StartBatch
  <2>2. \A b \in Batches : results'[b] = IF b = running THEN completed ELSE results[b]
    BY <1>1 DEF TypeOK
  <2> QED BY <1>1, <1>2, <2>1, <2>2 DEF Settled
<1>4. active = {} => CallsOf(running) \subseteq Settled
  <2>1. ToSet(queue) = {}
    BY <1>1 DEF Waves, ToSet
  <2> QED BY <1>1, <2>1 DEF Placement, Conservation, Settled
<1> DEFINE settled == [batchState EXCEPT ![running] = "resolved"]
<1>5. CASE batchState' = settled /\ status' = status /\ active = {}
  BY <1>1, <1>3, <1>4, <1>5 DEF Plays, Final, Moves, TypeOK
<1>6. ASSUME NEW b \in Backlog, StartBatch(b, settled), active = {} PROVE Plays
  <2>1. b \in Batches /\ batchState[b] = "queued" /\ b # running
    BY <1>1, <1>6 DEF Backlog, RequestQueue
  <2>2. batchState' = [settled EXCEPT ![b] = "running"]
    BY <1>6 DEF StartBatch
  <2>3. \A a \in Batches : Moves(a)
    BY <1>1, <1>3, <1>4, <1>6, <2>1, <2>2 DEF Moves, TypeOK
  <2> QED BY <1>3, <1>6, <2>1, <2>3, StartPlays DEF Plays
<1>7. active = {}
  BY <1>1 DEF Waves
<1> QED BY <1>5, <1>6, <1>7 DEF FinishBatch

LEMMA ClientPlays ==
    ASSUME IInv, SettledInv, Client
    PROVE  Plays
<1>1. ASSUME NEW b \in Batches, ScheduleNow(b) PROVE Plays
  <2>1. StartBatch(b, batchState) /\ batchState[b] = "new" /\ results' = results /\ running = NoBatch
    BY <1>1 DEF ScheduleNow, Busy
  <2>2. Settled' = Settled
    BY <2>1 DEF StartBatch, SettledInv, Settled
  <2>3. \A a \in Batches : Moves(a)
    BY <2>1 DEF StartBatch, Moves, IInv, TypeOK
  <2> QED BY <2>1, <2>2, <2>3, StartPlays DEF Plays
<1>2. CASE CancelEffect
  <2> DEFINE S == (active \ TerminalActive) \cup ToSet(queue)
  <2>1. S \subseteq ToSet(queue) \cup active /\ completed' = completed \cup S /\ results' = results
    BY <1>2 DEF CancelEffect, Report, Flushed
  <2>2. \A c \in Calls : c \notin ToSet(queue) \cup active => status'[c] = status[c]
    BY <1>2 DEF CancelEffect, QueueCancelled
  <2>3. \A b \in Batches : batchState'[b] = batchState[b] \/
          (batchState[b] = "queued" /\ batchState'[b] = "rejected")
    BY <1>2 DEF CancelEffect, QueueRejected, RequestQueue
  <2> QED BY <2>1, <2>2, <2>3, ReportPlays
<1>3. CASE Client /\ ~CancelEffect /\ ~\E b \in Batches : ScheduleNow(b)
  <2>1. UNCHANGED <<completed, results, status>>
    BY <1>3 DEF Client, Enqueue, EnqueueAborted, Abort, UserCancel, CancelAll, callVars
  <2>2. \A b \in Batches : batchState'[b] = batchState[b] \/
                (batchState[b] = "new" /\ batchState'[b] \in {"queued", "rejected"}) \/
                (batchState[b] = "queued" /\ batchState'[b] = "rejected")
    BY <1>3 DEF Client, Enqueue, EnqueueAborted, Abort, UserCancel, CancelAll, QueueRejected,
       RequestQueue, IInv, TypeOK
  <2>3. {} \subseteq ToSet(queue) \cup active /\ completed' = completed \cup {}
    BY <2>1
  <2> QED BY <2>1, <2>2, <2>3, ReportPlays
<1> QED BY <1>1, <1>2, <1>3 DEF Client, CancelAll

LEMMA LoopPlays ==
    ASSUME IInv, SettledInv, Loop, ~FinishBatch
    PROVE  Plays
<1> USE DEF IInv
<1>1. UNCHANGED <<results, batchState>>
  BY DEF Loop, LoopEnds, LoopBreaks, DropErrored, StartWave, StartExecution, EndWave, Revisit,
     PollTimer, FinalizeTerminal, batchVars
<1>2. \A c \in Calls : c \notin ToSet(queue) \cup active => status'[c] = status[c]
  BY DEF Loop, LoopEnds, LoopBreaks, DropErrored, StartWave, StartExecution, EndWave, Revisit,
     PollTimer, FinalizeTerminal, QueueCancelled, callVars
<1>3. \E S : S \subseteq ToSet(queue) \cup active /\ completed' = completed \cup S
  <2>1. CASE LoopBreaks
    BY <2>1 DEF LoopBreaks, Report, Flushed, TerminalActive
  <2>2. CASE DropErrored
    <3>1. Head(queue) \in ToSet(queue) /\ completed' = completed \cup {Head(queue)}
      BY <2>2, ElementAt DEF DropErrored, Report, TypeOK
    <3> QED BY <3>1
  <2>3. CASE EndWave \/ Revisit
    BY <2>3 DEF EndWave, Revisit, FinalizeTerminal, Report, TerminalActive
  <2>4. CASE LoopEnds \/ StartWave \/ StartExecution \/ PollTimer
    <3>1. completed' = completed \cup {}
      BY <2>4 DEF LoopEnds, StartWave, StartExecution, PollTimer, callVars
    <3> QED BY <3>1
  <2> QED BY <2>1, <2>2, <2>3, <2>4 DEF Loop
<1> QED BY <1>1, <1>2, <1>3, ReportPlays

LEMMA CallPlays ==
    ASSUME IInv, SettledInv, NEW c \in Calls,
           Local(c) \/ SettleCancel(c) \/ ToolReturnsTail(c) \/ LateOutput(c)
    PROVE  Plays
<1> USE DEF IInv
<1>1. UNCHANGED <<results, batchState>>
  BY LocalSteps DEF CallStep, Frame, SettleCancel, ToolReturnsTail, LateOutput, batchVars
<1>2. \A d \in Calls : d \notin ToSet(queue) \cup active => status'[d] = status[d]
  <2> SUFFICES ASSUME NEW d \in Calls, d \notin ToSet(queue) \cup active
               PROVE  status'[d] = status[d]
    OBVIOUS
  <2>1. CASE Local(c)
    <3>1. PICK s \in Statuses : status' = Updated(c, s)
      BY <2>1, LocalSteps DEF CallStep
    <3> QED BY <3>1 DEF Updated, TypeOK
  <2>2. CASE SettleCancel(c)
    BY <2>2 DEF SettleCancel, QueueCancelled, Updated, TypeOK
  <2>3. CASE ToolReturnsTail(c)
    BY <2>3 DEF ToolReturnsTail, Replaceable, TypeOK
  <2>4. CASE LateOutput(c)
    BY <2>4 DEF LateOutput, Updated, TypeOK
  <2> QED BY <2>1, <2>2, <2>3, <2>4
<1>3. \E S : S \subseteq ToSet(queue) \cup active /\ completed' = completed \cup S
  <2>1. CASE SettleCancel(c) /\ Cascades
    BY <2>1 DEF SettleCancel, Report, Flushed
  <2>2. CASE ~(SettleCancel(c) /\ Cascades)
    <3>1. completed' = completed \cup {}
      BY <2>2, LocalSteps DEF CallStep, Frame, SettleCancel, ToolReturnsTail, LateOutput
    <3> QED BY <3>1
  <2> QED BY <2>1, <2>2
<1> QED BY <1>1, <1>2, <1>3, ReportPlays

\* schedule() keeps its contract: a batch that is accepted resolves with one
\* final outcome for each of its calls, and one that is rejected ran nothing.
\* (A call that moved to the background may be missing from the results.)
THEOREM ContractKept == ASSUME Backgroundable = {} PROVE Spec => ImplementsContract
<1>1. IInv /\ OrderInv => SettledInv
  BY SettledCalls DEF OrderInv
<1>2. Init => Contract!Init
  BY DEF Init, Contract!Init, Phase, Outcome
<1>3. IInv /\ IInv' /\ SettledInv /\ SettledInv' /\ OrderInv /\ [Next]_vars
        => [Contract!Next]_<<Phase, Outcome>>
  <2> SUFFICES ASSUME IInv, IInv', SettledInv, SettledInv', OrderInv, [Next]_vars
               PROVE  [Contract!Next]_<<Phase, Outcome>>
    OBVIOUS
  <2>1. CASE Next
    <3>1. Plays
      BY <2>1, ClientPlays, LoopPlays, FinishPlays, CallPlays, StepKinds DEF OrderInv
    <3> QED BY <3>1, ContractStep DEF Plays
  <2>2. CASE UNCHANGED vars
    BY <2>2 DEF vars, batchVars, callVars, Phase, Outcome
  <2> QED BY <2>1, <2>2
<1> QED BY <1>1, <1>2, <1>3, Invariance, OrderInvariance, PTL DEF Spec, ImplementsContract, Contract!Spec

\* What a client may rely on: the outcome of a call is final, whether the other
\* calls of its batch still run, and so is how its promise settled.
SettledForGood ==
    [][\A b \in Batches :
         /\ \A c \in CallsOf(b) : Outcome[c] # "none" => Outcome'[c] = Outcome[c]
         /\ Phase[b] \in {"resolved", "rejected"} => Phase'[b] = Phase[b]]_vars

\* No outcome of schedule() is changed later, by a cancellation, a denial or the
\* batches that follow, when no call can be moved to the background.
THEOREM OutcomesFinal == ASSUME Backgroundable = {} PROVE Spec => SettledForGood
<1> DEFINE StaysSettled(b) ==
      /\ \A c \in CallsOf(b) : Outcome[c] # "none" => Outcome'[c] = Outcome[c]
      /\ Phase[b] \in {"resolved", "rejected"} => Phase'[b] = Phase[b]
<1>1. [Contract!Next]_<<Phase, Outcome>> => \A b \in Batches : StaysSettled(b)
  <2> SUFFICES ASSUME [Contract!Next]_<<Phase, Outcome>>, NEW b \in Batches PROVE StaysSettled(b)
    OBVIOUS
  <2>1. CASE Contract!Accept(b)
    BY <2>1 DEF Contract!Accept, Contract!Moves, Contract!Keeps
  <2>2. CASE Contract!Settle(b)
    BY <2>2 DEF Contract!Settle, Contract!Moves
  <2>3. CASE Contract!Resolve(b)
    BY <2>3 DEF Contract!Resolve, Contract!Moves, Contract!Keeps
  <2>4. CASE Contract!Reject(b)
    BY <2>4 DEF Contract!Reject, Contract!Moves, Contract!Keeps
  <2>5. CASE Contract!Same(b) \/ UNCHANGED <<Phase, Outcome>>
    BY <2>5 DEF Contract!Same, Contract!Keeps
  <2> QED BY <2>1, <2>2, <2>3, <2>4, <2>5 DEF Contract!Next
<1>2. [Contract!Next]_<<Phase, Outcome>> => [\A b \in Batches : StaysSettled(b)]_vars
  BY <1>1
<1> QED BY <1>2, ContractKept, PTL DEF SettledForGood, ImplementsContract, Contract!Spec
=============================================================================
