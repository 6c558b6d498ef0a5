-------------------------- MODULE SchedulerProofs --------------------------
(* Safety of the tool scheduler for every set of calls, batches and signals. *)
EXTENDS SchedulerInvariant, TLAPS

-----------------------------------------------------------------------------
(* Sequences without repetition, as the call queue is.                      *)

\* The elements of a sequence are the values at its positions.
LEMMA ElementAt ==
    ASSUME NEW S, NEW q \in Seq(S)
    PROVE  /\ \A i \in 1..Len(q) : q[i] \in ToSet(q)
           /\ \A x \in ToSet(q) : \E i \in 1..Len(q) : x = q[i]
  <1>1. DOMAIN q = 1..Len(q)
    OBVIOUS
  <1>2. QED BY <1>1 DEF ToSet

LEMMA PrefixSplits ==
    ASSUME NEW q \in Seq(Calls), IsInjective(q), NEW n \in 1..Len(q)
    PROVE  LET front == {q[i] : i \in 1..n}
               rest == SubSeq(q, n + 1, Len(q))
           IN  /\ rest \in Seq(Calls) /\ IsInjective(rest)
               /\ ToSet(q) = front \cup ToSet(rest)
               /\ front \cap ToSet(rest) = {}
  <1> DEFINE front == {q[i] : i \in 1..n}
             rest == SubSeq(q, n + 1, Len(q))
  <1>1. /\ rest \in Seq(Calls) /\ Len(rest) = Len(q) - n
        /\ \A i \in 1..Len(rest) : rest[i] = q[n + i]
        /\ DOMAIN q = 1..Len(q) /\ DOMAIN rest = 1..Len(rest)
        /\ Len(q) \in Nat /\ n \in Nat /\ n <= Len(q)
    OBVIOUS
  <1> HIDE DEF rest
  <1>2. IsInjective(rest)
    <2>1. SUFFICES ASSUME NEW i \in 1..Len(rest), NEW j \in 1..Len(rest), rest[i] = rest[j]
                   PROVE  i = j
      BY <1>1 DEF IsInjective
    <2>2. n + i \in DOMAIN q /\ n + j \in DOMAIN q /\ q[n + i] = q[n + j]
      BY <2>1, <1>1
    <2>3. n + i = n + j
      BY <2>2 DEF IsInjective
    <2>4. QED BY <2>3, <1>1
  <1>3. \A x \in ToSet(rest) : x \in ToSet(q) /\ x \notin front
    <2>1. SUFFICES ASSUME NEW i \in 1..Len(rest) PROVE rest[i] \in ToSet(q) /\ rest[i] \notin front
      BY <1>1, ElementAt
    <2>2. n + i \in 1..Len(q) /\ rest[i] = q[n + i]
      BY <1>1
    <2>3. \A j \in 1..n : j \in DOMAIN q /\ n + i \in DOMAIN q /\ j # n + i
      BY <2>2, <1>1
    <2>4. \A j \in 1..n : q[j] # q[n + i]
      BY <2>3 DEF IsInjective
    <2>5. QED BY <2>2, <2>4, ElementAt
  <1>4. front \subseteq ToSet(q)
    <2>1. \A i \in 1..n : i \in 1..Len(q)
      BY <1>1
    <2>2. QED BY <2>1, ElementAt
  <1>5. \A x \in ToSet(q) : x \in front \cup ToSet(rest)
    <2>1. SUFFICES ASSUME NEW j \in 1..Len(q) PROVE q[j] \in front \cup ToSet(rest)
      BY ElementAt
    <2>2. CASE j <= n
      BY <2>2, <1>1
    <2>3. CASE ~(j <= n)
      <3>1. j - n \in 1..Len(rest) /\ n + (j - n) = j
        BY <2>3, <1>1
      <3>2. rest[j - n] = q[j]
        BY <3>1, <1>1
      <3>3. QED BY <3>1, <3>2, <1>1, ElementAt
    <2>4. QED BY <2>2, <2>3
  <1>6. QED BY <1>1, <1>2, <1>3, <1>4, <1>5 DEF rest

LEMMA TailSplits ==
    ASSUME NEW q \in Seq(Calls), IsInjective(q), q # <<>>
    PROVE  /\ Head(q) \in Calls /\ Tail(q) \in Seq(Calls) /\ IsInjective(Tail(q))
           /\ ToSet(q) = {Head(q)} \cup ToSet(Tail(q))
           /\ Head(q) \notin ToSet(Tail(q))
  <1>1. Len(q) \in Nat /\ Len(q) >= 1 /\ 1 \in 1..Len(q)
    OBVIOUS
  <1>2. Tail(q) = SubSeq(q, 2, Len(q)) /\ Head(q) = q[1] /\ Head(q) \in Calls
    BY <1>1
  <1>3. {q[i] : i \in 1..1} = {Head(q)}
    BY <1>2
  <1>4. /\ SubSeq(q, 1 + 1, Len(q)) \in Seq(Calls) /\ IsInjective(SubSeq(q, 1 + 1, Len(q)))
        /\ ToSet(q) = {q[i] : i \in 1..1} \cup ToSet(SubSeq(q, 1 + 1, Len(q)))
        /\ {q[i] : i \in 1..1} \cap ToSet(SubSeq(q, 1 + 1, Len(q))) = {}
    BY <1>1, PrefixSplits
  <1>5. 1 + 1 = 2
    OBVIOUS
  <1>6. QED BY <1>2, <1>3, <1>4, <1>5

LEMMA ConsAdds ==
    ASSUME NEW q \in Seq(Calls), IsInjective(q), NEW c \in Calls, c \notin ToSet(q)
    PROVE  /\ <<c>> \o q \in Seq(Calls) /\ IsInjective(<<c>> \o q)
           /\ ToSet(<<c>> \o q) = {c} \cup ToSet(q)
  <1> DEFINE r == <<c>> \o q
  <1>1. /\ r \in Seq(Calls) /\ Len(r) = Len(q) + 1 /\ r[1] = c
        /\ \A i \in 2..Len(r) : r[i] = q[i - 1]
        /\ DOMAIN q = 1..Len(q) /\ DOMAIN r = 1..Len(r)
    OBVIOUS
  <1> HIDE DEF r
  <1>2. \A i \in 2..Len(r) : i - 1 \in 1..Len(q) /\ r[i] \in ToSet(q)
    BY <1>1 DEF ToSet
  <1>3. IsInjective(r)
    <2>1. SUFFICES ASSUME NEW i \in 1..Len(r), NEW j \in 1..Len(r), r[i] = r[j]
                   PROVE  i = j
      BY <1>1 DEF IsInjective
    <2>2. CASE i = 1 \/ j = 1
      BY <2>1, <2>2, <1>1, <1>2
    <2>3. CASE i # 1 /\ j # 1
      <3>1. q[i - 1] = q[j - 1] /\ i - 1 \in 1..Len(q) /\ j - 1 \in 1..Len(q)
        BY <2>1, <2>3, <1>1, <1>2
      <3>2. i - 1 = j - 1
        BY <3>1, <1>1 DEF IsInjective
      <3>3. QED BY <3>2
    <2>4. QED BY <2>2, <2>3
  <1>4. ToSet(r) = {c} \cup ToSet(q)
    <2>1. \A x \in ToSet(r) : x \in {c} \cup ToSet(q)
      <3>1. SUFFICES ASSUME NEW i \in 1..Len(r) PROVE r[i] \in {c} \cup ToSet(q)
        BY <1>1, ElementAt
      <3>2. QED BY <1>1, <1>2
    <2>2. \A x \in ToSet(q) : x \in ToSet(r)
      <3>1. SUFFICES ASSUME NEW j \in 1..Len(q) PROVE q[j] \in ToSet(r)
        BY ElementAt
      <3>2. j + 1 \in 2..Len(r) /\ (j + 1) - 1 = j /\ j + 1 \in 1..Len(r)
        BY <1>1
      <3>3. r[j + 1] = q[j]
        BY <3>2, <1>1
      <3>4. QED BY <3>2, <3>3, <1>1, ElementAt
    <2>3. 1 \in 1..Len(r)
      BY <1>1
    <2>4. c \in ToSet(r)
      BY <2>3, <1>1, ElementAt
    <2>5. QED BY <2>1, <2>2, <2>4
  <1>5. QED BY <1>1, <1>3, <1>4 DEF r

\* The calls of the queue are calls, and an empty queue holds none.
LEMMA QueueCalls ==
    ASSUME NEW q \in Seq(Calls)
    PROVE  ToSet(q) \subseteq Calls /\ (q = <<>> <=> ToSet(q) = {})
  BY DEF ToSet

-----------------------------------------------------------------------------
(* The type invariant.                                                      *)

LEMMA TypeInit == Init => TypeOK
  <1> SUFFICES ASSUME Init PROVE TypeOK
    OBVIOUS
  <1> USE DEF Init
  <1>1. /\ queue \in Seq(Calls) /\ active \subseteq Calls /\ completed \subseteq Calls
        /\ parallel \subseteq Calls /\ stale \subseteq Calls /\ aborted \subseteq Signals
    BY SequentialTools
  <1>2. /\ status \in [Calls -> Statuses] /\ pc \in [Calls -> PCs]
        /\ consent \in [Calls -> {"none", "policy", "user"}]
    BY DEF Statuses, PCs
  <1>3. /\ reported \in [Calls -> Nat] /\ tails \in [Calls -> Nat] /\ edits \in [Calls -> Nat]
        /\ ticket \in [Batches -> Nat] /\ clock \in Nat
        /\ results \in [Batches -> SUBSET Calls]
    OBVIOUS
  <1>4. QED BY <1>1, <1>2, <1>3 DEF TypeOK

LEMMA TypeClient == TypeOK /\ Client => TypeOK'
  <1> SUFFICES ASSUME TypeOK, Client PROVE TypeOK'
    OBVIOUS
  <1>1. ASSUME NEW b \in Batches, ScheduleNow(b) PROVE TypeOK'
    BY <1>1, DistinctCallIds DEF TypeOK, ScheduleNow, StartBatch, Statuses, Terminal
  <1>2. ASSUME NEW b \in Batches, Enqueue(b) PROVE TypeOK'
    BY <1>2 DEF TypeOK, Enqueue, loopVars, callVars, confVars
  <1>3. ASSUME NEW b \in Batches, EnqueueAborted(b) PROVE TypeOK'
    BY <1>3 DEF TypeOK, EnqueueAborted, loopVars, callVars, confVars
  <1>4. ASSUME NEW s \in Signals, Abort(s) PROVE TypeOK'
    BY <1>4 DEF TypeOK, Abort, AbortEffect, QueueRejected, loopVars, callVars, confVars
  <1>5. ASSUME CancelEffect, aborted' \subseteq Signals PROVE TypeOK'
    <2>1. Flushed \subseteq Calls
      BY QueueCalls DEF TypeOK, Flushed
    <2>2. QED
      BY <1>5, <2>1 DEF TypeOK, CancelEffect, QueueRejected, QueueCancelled, Report,
         TerminalActive, confVars, Statuses, Terminal
  <1>6. ASSUME NEW s \in Signals, UserCancel(s) PROVE TypeOK'
    <2>1. aborted' \subseteq Signals
      BY <1>6 DEF UserCancel, AbortEffect, TypeOK
    <2>2. CASE isCancelling
      BY <1>6, <2>1, <2>2 DEF TypeOK, UserCancel, QueueRejected, loopVars, callVars, confVars
    <2>3. CASE ~isCancelling
      BY <1>6, <2>1, <2>3, <1>5 DEF UserCancel
    <2>4. QED BY <2>2, <2>3
  <1>7. ASSUME CancelAll PROVE TypeOK'
    BY <1>7, <1>5 DEF CancelAll, TypeOK
  <1>8. QED BY <1>1, <1>2, <1>3, <1>4, <1>6, <1>7 DEF Client

LEMMA TypeLoop == TypeOK /\ Loop => TypeOK'
  <1> SUFFICES ASSUME TypeOK, Loop PROVE TypeOK'
    OBVIOUS
  <1> USE DEF TypeOK, batchVars, callVars, confVars
  <1>1. ASSUME LoopEnds \/ PollTimer PROVE TypeOK'
    BY <1>1 DEF LoopEnds, PollTimer
  <1>2. ASSUME LoopBreaks PROVE TypeOK'
    <2>1. Flushed \subseteq Calls
      BY QueueCalls DEF Flushed
    <2>2. QED
      BY <1>2, <2>1 DEF LoopBreaks, QueueCancelled, Report, TerminalActive, Statuses, Terminal
  <1>3. ASSUME DropErrored PROVE TypeOK'
    BY <1>3 DEF DropErrored, Report, loopVars
  <1>4. ASSUME StartWave PROVE TypeOK'
    <2>1. PICK n \in 1..Len(queue) :
            /\ queue' = SubSeq(queue, n + 1, Len(queue))
            /\ active' = {queue[i] : i \in 1..n}
            /\ pc' = [c \in Calls |-> IF c \in {queue[i] : i \in 1..n} /\ status[c] = "validating"
                                      THEN "deciding" ELSE pc[c]]
      BY <1>4 DEF StartWave
    <2>2. queue' \in Seq(Calls) /\ \A i \in 1..n : queue[i] \in Calls
      BY <2>1
    <2>3. pc' \in [Calls -> PCs]
      BY <2>1 DEF PCs
    <2>4. active' \subseteq Calls
      BY <2>1, <2>2
    <2>5. loop' \in {"validating"} /\ madeProgress' \in BOOLEAN
      BY <1>4 DEF StartWave
    <2>6. UNCHANGED <<running, isCancelling, batchVars, completed, status, parallel, reported,
                      consent, stale, edits, tails, denied, aborted>>
      BY <1>4 DEF StartWave
    <2>7. QED BY <2>2, <2>3, <2>4, <2>5, <2>6
  <1>5. ASSUME StartExecution PROVE TypeOK'
    BY <1>5 DEF StartExecution, Statuses, PCs, Terminal
  <1>6. ASSUME EndWave \/ Revisit PROVE TypeOK'
    <2>1. After(madeProgress \/ TerminalActive # {}, active') \in {"top", "polling", "finishing"}
      BY DEF After
    <2>2. After(FALSE \/ TerminalActive # {}, active') \in {"top", "polling", "finishing"}
      BY DEF After
    <2>3. FinalizeTerminal(madeProgress) \/ FinalizeTerminal(FALSE)
      BY <1>6 DEF EndWave, Revisit
    <2>4. madeProgress' \in BOOLEAN
      BY <1>6 DEF EndWave, Revisit
    <2>5. loop' \in {"top", "polling", "finishing"}
      BY <2>1, <2>2, <2>3 DEF FinalizeTerminal
    <2>6. /\ active' = active \ TerminalActive /\ Report(TerminalActive)
          /\ UNCHANGED <<running, isCancelling, batchVars, queue, status, parallel, confVars, aborted>>
      BY <2>3 DEF FinalizeTerminal
    <2>7. QED BY <2>4, <2>5, <2>6 DEF Report, TerminalActive
  <1>7. ASSUME FinishBatch PROVE TypeOK'
    <2>1. \A b \in Backlog : b \in Batches
      BY DEF Backlog, RequestQueue
    <2> DEFINE settled == [batchState EXCEPT ![running] = "resolved"]
    <2>2. settled \in [Batches -> {"new", "queued", "running", "resolved", "rejected"}]
      OBVIOUS
    <2>3. results' \in [Batches -> SUBSET Calls]
      BY <1>7 DEF FinishBatch
    <2>4. /\ UNCHANGED <<madeProgress, active, parallel, reported, pc, consent, stale,
                         edits, tails, aborted>>
          /\ ticket' \in [Batches -> Nat] /\ clock' \in Nat
      BY <1>7 DEF FinishBatch
    <2>5. CASE /\ running' = NoBatch /\ loop' = "idle" /\ batchState' = settled
               /\ completed' = {} /\ UNCHANGED <<isCancelling, queue, status, denied>>
      BY <2>2, <2>3, <2>4, <2>5
    <2>6. ASSUME NEW b \in Backlog, StartBatch(b, settled) PROVE TypeOK'
      BY <2>1, <2>2, <2>3, <2>4, <2>6, DistinctCallIds DEF StartBatch, Statuses, Terminal
    <2>7. QED BY <1>7, <2>5, <2>6 DEF FinishBatch
  <1>8. QED BY <1>1, <1>2, <1>3, <1>4, <1>5, <1>6, <1>7 DEF Loop

-----------------------------------------------------------------------------
(* Most steps of a coroutine move its call to another await, or to its end, *)
(* and at most update the status of the call. They are all a CallStep.      *)

History ==
    /\ consent' \in [Calls -> {"none", "policy", "user"}]
    /\ stale' \subseteq Calls /\ edits' \in [Calls -> Nat]

Frame == UNCHANGED <<loopVars, batchVars, queue, active, completed, parallel, reported,
                     tails, denied, aborted>>

\* The status s a coroutine may leave its call in when it goes to await p
Legal(p, s) ==
    /\ p = "idle" => s \in Terminal \/ (loop = "validating" /\ s = "scheduled")
    /\ p # "idle" => s \notin Terminal
    /\ p = "running" => loop = "executing"
    /\ p # "deciding"

CallStep(c) ==
    /\ pc[c] # "idle"
    /\ \E p \in PCs, s \in Statuses :
         Legal(p, s) /\ pc' = [pc EXCEPT ![c] = p] /\ status' = Updated(c, s)
    /\ History /\ Frame

LEMMA StepTo ==
    ASSUME TypeOK, Coroutines, NEW c \in Calls, NEW p \in PCs \ {"idle", "deciding"},
           pc[c] # "idle", pc' = [pc EXCEPT ![c] = p],
           p = "running" => loop = "executing",
           status' = status \/ \E s \in Statuses \ Terminal : status' = Updated(c, s),
           History, Frame
    PROVE  CallStep(c)
  <1>1. \E s \in Statuses \ Terminal : status = Updated(c, s)
    <2>1. CASE c \in active
      <3>1. status[c] \in Statuses \ Terminal
        BY <2>1 DEF TypeOK, Coroutines
      <3>2. status = [status EXCEPT ![c] = status[c]]
        BY DEF TypeOK
      <3>3. QED BY <2>1, <3>1, <3>2 DEF Updated
    <2>2. CASE c \notin active
      BY <2>2 DEF Updated, Statuses, Terminal
    <2>3. QED BY <2>1, <2>2
  <1>2. PICK s \in Statuses \ Terminal : status' = Updated(c, s)
    BY <1>1
  <1>3. Legal(p, s)
    BY DEF Legal
  <1>4. QED BY <1>2, <1>3 DEF CallStep

LEMMA StepDone ==
    ASSUME TypeOK, NEW c \in Calls, pc[c] # "idle",
           NEW s, s \in Terminal \/ (loop = "validating" /\ s = "scheduled"), Done(c, s),
           History, Frame
    PROVE  CallStep(c)
  <1>1. s \in Statuses /\ "idle" \in PCs
    BY DEF Statuses, PCs
  <1>2. Legal("idle", s)
    BY DEF Legal
  <1>3. QED BY <1>1, <1>2 DEF CallStep, Done

\* The steps that are no CallStep: the queue changes too, or the coroutine
\* of the call has already ended.
Local(c) ==
    \/ Answer(c) \/ AskEdit(c)
    \/ Allow(c) \/ Deny(c) \/ Ask(c) \/ NoPrompt(c) \/ Prompt(c)
    \/ EditorCloses(c) \/ InlineEdit(c) \/ ConfirmationThrows(c) \/ SettleProceed(c)
    \/ ToolReturns(c) \/ ToolWantsSandbox(c) \/ Reexecute(c) \/ KeepSandboxError(c)

LEMMA LocalSteps ==
    ASSUME TypeOK, Shape, Coroutines, NEW c \in Calls, Local(c)
    PROVE  CallStep(c)
  <1> USE DEF loopVars, batchVars, callVars, confVars, Frame
  <1>1. /\ pc \in [Calls -> PCs] /\ edits \in [Calls -> Nat]
        /\ consent \in [Calls -> {"none", "policy", "user"}] /\ stale \subseteq Calls
    BY DEF TypeOK
  <1>2. /\ pc[c] = "deciding" => loop = "validating"
        /\ pc[c] = "running" => loop = "executing"
        /\ pc[c] # "idle" => loop \in {"validating", "executing"}
    BY DEF Shape, AllIdle
  <1>3. {"detailing", "prompted", "editing", "typing", "approved", "refused", "running"}
          \subseteq PCs \ {"idle", "deciding"}
    BY DEF PCs
  <1>4. {"awaiting_approval", "executing"} \subseteq Statuses \ Terminal
    BY DEF Statuses, Terminal
  <1>5. Thrown \subseteq Terminal /\ {"error", "cancelled"} \subseteq Terminal
    BY DEF Thrown, Terminal
  <1>6. CASE Answer(c)
    <2>1. PICK p \in {"approved", "refused"} : pc' = [pc EXCEPT ![c] = p]
      BY <1>6 DEF Answer, Approve, Refuse, Resume
    <2>2. History /\ Frame /\ status' = status /\ pc[c] # "idle"
      BY <1>1, <1>6 DEF Answer, Approve, Refuse, Resume, History
    <2>3. QED BY <2>1, <2>2, <1>3, StepTo
  <1>7. CASE AskEdit(c)
    <2>1. PICK p \in {"editing", "typing"} : pc' = [pc EXCEPT ![c] = p]
      BY <1>7 DEF AskEdit, Resume
    <2>2. History /\ Frame /\ status' = status /\ pc[c] # "idle"
      BY <1>1, <1>7 DEF AskEdit, Resume, History
    <2>3. QED BY <2>1, <2>2, <1>3, StepTo
  <1>8. CASE Allow(c)
    <2>1. History /\ Frame /\ Done(c, "scheduled") /\ pc[c] # "idle"
      BY <1>1, <1>8 DEF Allow, History
    <2>2. loop = "validating"
      BY <1>2, <1>8 DEF Allow
    <2>3. QED BY <2>1, <2>2, StepDone
  <1>9. CASE Deny(c)
    <2>1. PICK s \in Terminal : Done(c, s)
      BY <1>5, <1>9 DEF Deny
    <2>2. History /\ Frame /\ pc[c] # "idle"
      BY <1>1, <1>9 DEF Deny, History
    <2>3. QED BY <2>1, <2>2, StepDone
  <1>10. CASE Ask(c) \/ NoPrompt(c) \/ Prompt(c)
    <2>1. PICK p \in {"detailing", "prompted", "approved"} : pc' = [pc EXCEPT ![c] = p]
      BY <1>10 DEF Ask, NoPrompt, Prompt, Resume
    <2>2. History /\ Frame /\ pc[c] # "idle"
      BY <1>1, <1>10 DEF Ask, NoPrompt, Prompt, Resume, History
    <2>3. status' = status \/ status' = Updated(c, "awaiting_approval")
      BY <1>10 DEF Ask, NoPrompt, Prompt
    <2>4. QED BY <2>1, <2>2, <2>3, <1>3, <1>4, StepTo
  <1>11. CASE EditorCloses(c) \/ InlineEdit(c)
    <2>1. PICK p \in {"detailing", "approved"} : pc' = [pc EXCEPT ![c] = p]
      BY <1>11 DEF EditorCloses, InlineEdit, Resume, AfterEditor
    <2>2. History /\ Frame /\ status' = status /\ pc[c] # "idle"
      BY <1>1, <1>11 DEF EditorCloses, InlineEdit, Resume, History
    <2>3. QED BY <2>1, <2>2, <1>3, StepTo
  <1>12. CASE ConfirmationThrows(c)
    <2>1. PICK s \in Terminal : Done(c, s)
      BY <1>5, <1>12 DEF ConfirmationThrows
    <2>2. History /\ Frame /\ pc[c] # "idle"
      BY <1>1, <1>12 DEF ConfirmationThrows, History
    <2>3. QED BY <2>1, <2>2, StepDone
  <1>13. CASE SettleProceed(c)
    <2>1. History /\ Frame /\ Done(c, "scheduled") /\ pc[c] # "idle" /\ loop = "validating"
      BY <1>1, <1>13 DEF SettleProceed, History
    <2>2. QED BY <2>1, StepDone
  <1>14. CASE ToolReturns(c)
    <2>1. PICK s \in Terminal : Done(c, s)
      BY <1>14 DEF ToolReturns
    <2>2. History /\ Frame /\ pc[c] # "idle"
      BY <1>1, <1>14 DEF ToolReturns, History
    <2>3. QED BY <2>1, <2>2, StepDone
  <1>15. CASE ToolWantsSandbox(c)
    <2>1. History /\ Frame /\ pc[c] # "idle"
      BY <1>1, <1>15 DEF ToolWantsSandbox, History
    <2>2. CASE Aborted
      BY <1>15, <2>1, <2>2, <1>5, StepDone DEF ToolWantsSandbox
    <2>3. CASE ~Aborted
      <3>1. pc' = [pc EXCEPT ![c] = "detailing"] /\ status' = Updated(c, "awaiting_approval")
        BY <1>15, <2>3 DEF ToolWantsSandbox
      <3>2. QED BY <3>1, <2>1, <1>3, <1>4, StepTo
    <2>4. QED BY <2>2, <2>3
  <1>16. CASE Reexecute(c)
    <2>1. History /\ Frame /\ pc[c] # "idle" /\ loop = "executing"
      BY <1>1, <1>16 DEF Reexecute, History
    <2>2. CASE Aborted
      BY <1>16, <2>1, <2>2, <1>5, StepDone DEF Reexecute
    <2>3. CASE ~Aborted
      <3>1. pc' = [pc EXCEPT ![c] = "running"] /\ status' = Updated(c, "executing")
        BY <1>16, <2>3 DEF Reexecute
      <3>2. QED BY <3>1, <2>1, <1>3, <1>4, StepTo
    <2>4. QED BY <2>2, <2>3
  <1>17. CASE KeepSandboxError(c)
    <2>1. History /\ Frame /\ Done(c, "error") /\ pc[c] # "idle"
      BY <1>1, <1>17 DEF KeepSandboxError, History
    <2>2. QED BY <2>1, <1>5, StepDone
  <1>18. QED
    BY <1>6, <1>7, <1>8, <1>9, <1>10, <1>11, <1>12, <1>13, <1>14, <1>15, <1>16, <1>17 DEF Local

LEMMA TypeCall ==
    ASSUME TypeOK, NEW c \in Calls,
           CallStep(c) \/ SettleCancel(c) \/ ToolReturnsTail(c) \/ LateOutput(c)
    PROVE  TypeOK'
  <1> USE DEF TypeOK, loopVars, batchVars, callVars, confVars
  <1>1. \A s \in Statuses : Updated(c, s) \in [Calls -> Statuses]
    BY DEF Updated
  <1>2. CASE CallStep(c)
    <2>1. PICK p \in PCs, s \in Statuses : pc' = [pc EXCEPT ![c] = p] /\ status' = Updated(c, s)
      BY <1>2 DEF CallStep
    <2>2. pc' \in [Calls -> PCs] /\ status' \in [Calls -> Statuses]
      BY <2>1, <1>1
    <2>3. QED BY <1>2, <2>2 DEF CallStep, History, Frame
  <1>3. "idle" \in PCs /\ "cancelled" \in Statuses /\ "executing" \in Statuses
    BY DEF PCs, Statuses, Terminal
  <1>4. CASE SettleCancel(c)
    <2>1. Flushed \subseteq Calls
      BY QueueCalls DEF Flushed
    <2>2. QueueCancelled(Updated(c, "cancelled")) \in [Calls -> Statuses]
      BY <1>1, <1>3 DEF QueueCancelled
    <2>3. status' \in [Calls -> Statuses] /\ pc' \in [Calls -> PCs]
      BY <1>1, <1>3, <1>4, <2>2 DEF SettleCancel
    <2>4. queue' \in Seq(Calls) /\ completed' \subseteq Calls /\ reported' \in [Calls -> Nat]
      <3>1. CASE Cascades
        BY <1>4, <2>1, <3>1 DEF SettleCancel, Report
      <3>2. CASE ~Cascades
        BY <1>4, <3>2 DEF SettleCancel
      <3>3. QED BY <3>1, <3>2
    <2>5. denied' = TRUE /\ UNCHANGED <<loopVars, batchVars, active, parallel, consent, stale,
                                        edits, tails, aborted>>
      BY <1>4 DEF SettleCancel
    <2>6. QED BY <2>3, <2>4, <2>5
  <1>5. CASE ToolReturnsTail(c)
    <2>1. <<c>> \o queue \in Seq(Calls)
      OBVIOUS
    <2>2. queue' \in Seq(Calls) /\ active' \subseteq Calls /\ status' \in [Calls -> Statuses]
      <3>1. CASE Replaceable(c)
        <4>1. queue' = <<c>> \o queue /\ active' = active \ {c}
          BY <1>5, <3>1 DEF ToolReturnsTail, UnshiftedTail
        <4>2. PICK s \in {"validating", "error"} : status' = [status EXCEPT ![c] = s]
          BY <1>5, <3>1 DEF ToolReturnsTail
        <4>3. s \in Statuses
          BY DEF Statuses, Terminal
        <4>4. QED BY <4>1, <4>2, <4>3, <2>1
      <3>2. CASE ~Replaceable(c)
        BY <1>5, <3>2 DEF ToolReturnsTail
      <3>3. QED BY <3>1, <3>2
    <2>3. parallel' \subseteq Calls /\ stale' \subseteq Calls
          /\ consent' \in [Calls -> {"none", "policy", "user"}]
      BY <1>5 DEF ToolReturnsTail
    <2>4. pc' \in [Calls -> PCs] /\ tails' \in [Calls -> Nat] /\ madeProgress' = TRUE
      BY <1>5, <1>3 DEF ToolReturnsTail
    <2>5. UNCHANGED <<running, isCancelling, loop, batchVars, completed, reported,
                      edits, denied, aborted>>
      BY <1>5 DEF ToolReturnsTail
    <2>6. QED BY <2>2, <2>3, <2>4, <2>5
  <1>6. CASE LateOutput(c)
    BY <1>1, <1>3, <1>6 DEF LateOutput
  <1>7. QED BY <1>2, <1>4, <1>5, <1>6

-----------------------------------------------------------------------------
(* The inductive invariant, Consent apart: Core.                            *)

Core == Shape /\ Placement /\ Coroutines /\ Waves /\ Siblings /\ Tally /\ CompleteResults

LEMMA BatchCalls == \A b \in Batches : CallsOf(b) \subseteq Calls
  BY DistinctCallIds, QueueCalls DEF CallsOf

LEMMA CoreInit == Init => Core
  <1> SUFFICES ASSUME Init PROVE Core
    OBVIOUS
  <1> USE DEF Init
  <1>1. ToSet(queue) = {}
    BY DEF ToSet
  <1>2. Shape
    BY ConstantTypes DEF Shape, AllIdle
  <1>3. Placement
    BY <1>1 DEF Placement, Conservation
  <1>4. Coroutines /\ Waves /\ Siblings
    BY DEF Coroutines, Waves, Siblings
  <1>5. Tally /\ CompleteResults
    BY <1>1, BatchCalls DEF Tally, CompleteResults
  <1>6. QED BY <1>2, <1>3, <1>4, <1>5 DEF Core

LEMMA CoreCallStep ==
    ASSUME TypeOK, Core, NEW c \in Calls, CallStep(c)
    PROVE  Core'
  <1> USE DEF Core
  <1>1. PICK p \in PCs, s \in Statuses :
          Legal(p, s) /\ pc' = [pc EXCEPT ![c] = p] /\ status' = Updated(c, s)
    BY DEF CallStep
  <1>2. /\ UNCHANGED <<running, isCancelling, loop, madeProgress, batchState, results, queue,
                       active, completed, parallel, reported>>
        /\ pc[c] # "idle"
    BY DEF CallStep, Frame, loopVars, batchVars
  <1>3. /\ pc'[c] = p /\ \A d \in Calls : d # c => pc'[d] = pc[d]
        /\ c \in active => status'[c] = s
        /\ c \notin active => status' = status
        /\ \A d \in Calls : d # c => status'[d] = status[d]
    BY <1>1 DEF Updated, TypeOK
  <1>4. loop \in {"validating", "executing"} /\ running # NoBatch /\ active \subseteq Calls
        /\ ToSet(queue) \subseteq Calls /\ completed \subseteq Calls
    BY <1>2, QueueCalls DEF Shape, AllIdle, TypeOK
  <1>5. /\ c \notin ToSet(queue) \/ status' = status
        /\ c \notin completed \/ status' = status
    BY <1>3, <1>4 DEF Placement, Conservation
  <1>6. Shape'
    BY <1>1, <1>2, <1>3, <1>4 DEF Shape, AllIdle, Legal
  <1>7. Placement'
    BY <1>2, <1>3, <1>4, <1>5 DEF Placement, Conservation
  <1>8. Coroutines'
    BY <1>1, <1>2, <1>3, <1>4 DEF Coroutines, Legal, TerminalActive
  <1>9. Waves'
    BY <1>1, <1>2, <1>3, <1>4 DEF Waves, Legal
  <1>10. Siblings'
    BY <1>2, <1>3, <1>4 DEF Siblings
  <1>11. Tally'
    BY <1>2, <1>3, <1>4, <1>5 DEF Tally
  <1>12. CompleteResults'
    <2>1. ASSUME NEW b \in Batches, batchState[b] = "resolved" PROVE status' = status \/ c \notin results[b]
      BY <2>1, <1>3 DEF Tally
    <2>2. QED BY <2>1, <1>2, <1>3 DEF CompleteResults, TypeOK
  <1>13. QED BY <1>6, <1>7, <1>8, <1>9, <1>10, <1>11, <1>12

LEMMA CoreSettleCancel ==
    ASSUME TypeOK, Core, NEW c \in Calls, SettleCancel(c)
    PROVE  Core'
  <1> USE DEF Core
  <1>1. /\ UNCHANGED <<running, isCancelling, loop, madeProgress, batchState, results,
                       active, parallel>>
        /\ pc[c] = "refused" /\ loop = "validating" /\ running \in Batches /\ running # NoBatch
        /\ active \subseteq Calls /\ ToSet(queue) \subseteq Calls /\ completed \subseteq Calls
    BY QueueCalls, ConstantTypes DEF SettleCancel, loopVars, batchVars, Shape, TypeOK
  <1>2. pc' = [pc EXCEPT ![c] = "idle"]
    BY DEF SettleCancel
  <1>3. pc'[c] = "idle" /\ \A d \in Calls : d # c => pc'[d] = pc[d]
    BY <1>2 DEF TypeOK
  <1>4. CASE Cascades
    <2>1. /\ queue' = <<>> /\ ToSet(queue') = {}
          /\ completed' = completed \cup ToSet(queue)
          /\ \A d \in Calls : reported'[d] = IF d \in ToSet(queue) THEN reported[d] + 1 ELSE reported[d]
      BY <1>4 DEF SettleCancel, Report, Flushed, ToSet
    <2>2. /\ c \in active => status'[c] = "cancelled"
          /\ \A d \in ToSet(queue) : status'[d] \in {"error", "cancelled"}
          /\ \A d \in Calls : d \notin ToSet(queue) /\ (d # c \/ c \notin active) => status'[d] = status[d]
      BY <1>1, <1>4 DEF SettleCancel, QueueCancelled, Updated, TypeOK, Placement, Conservation
    <2>3. Shape'
      BY <1>1, <1>3 DEF Shape, AllIdle
    <2>4. Placement'
      BY <1>1, <2>1, <2>2 DEF Placement, Conservation, IsInjective
    <2>5. Coroutines'
      BY <1>1, <1>3, <2>1, <2>2 DEF Coroutines, Terminal, TerminalActive, Placement, Conservation
    <2>6. Waves' /\ Siblings'
      BY <1>1, <1>3, <2>1, <2>2 DEF Waves, Siblings, Terminal, Placement, Conservation
    <2>7. Tally'
      <3>1. \A d \in ToSet(queue) : reported[d] = 0 /\ reported'[d] = 1 /\ status'[d] \in Terminal
        BY <1>1, <2>1, <2>2 DEF Tally, Terminal
      <3>2. ASSUME NEW b \in Batches, batchState[b] \in {"new", "queued", "rejected"},
                   NEW d \in CallsOf(b)
            PROVE  d \notin ToSet(queue) /\ d \in Calls
        BY <1>1, <3>2, DistinctCallIds, BatchCalls DEF Placement, Conservation, Shape
      <3>3. ASSUME NEW d \in completed PROVE reported'[d] = 1 /\ status'[d] \in Terminal
        BY <1>1, <2>1, <2>2, <3>3 DEF Tally, Placement, Conservation
      <3>4. \A d \in active : reported'[d] = 0
        BY <1>1, <2>1 DEF Tally, Placement, Conservation
      <3>5. QED BY <1>1, <2>1, <3>1, <3>2, <3>3, <3>4 DEF Tally
    <2>8. CompleteResults'
      <3>1. ASSUME NEW b \in Batches, batchState[b] = "resolved", NEW d \in results[b]
            PROVE  status'[d] = status[d] /\ reported'[d] = reported[d]
        <4>1. d \in CallsOf(b) /\ b # running /\ d \in Calls
          BY <1>1, <3>1, BatchCalls DEF CompleteResults, Shape
        <4>2. d \notin CallsOf(running)
          BY <1>1, <4>1, DistinctCallIds
        <4>3. d \notin active /\ d \notin ToSet(queue)
          BY <1>1, <4>2 DEF Placement, Conservation
        <4>4. QED BY <4>1, <4>3, <2>1, <2>2
      <3>2. QED BY <1>1, <3>1 DEF CompleteResults
    <2>9. QED BY <2>3, <2>4, <2>5, <2>6, <2>7, <2>8
  <1>5. CASE ~Cascades
    <2>1. /\ UNCHANGED <<queue, completed, reported>>
          /\ c \in active => status'[c] = "cancelled"
          /\ c \notin active => status' = status
          /\ \A d \in Calls : d # c => status'[d] = status[d]
      BY <1>5 DEF SettleCancel, Updated, TypeOK
    <2>2. /\ c \notin ToSet(queue) \/ status' = status
          /\ c \notin completed \/ status' = status
      BY <1>1, <2>1 DEF Placement, Conservation
    <2>3. Shape'
      BY <1>1, <1>3 DEF Shape, AllIdle
    <2>4. Placement'
      BY <1>1, <2>1, <2>2 DEF Placement, Conservation
    <2>5. Coroutines'
      BY <1>1, <1>3, <2>1, <2>2 DEF Coroutines, TerminalActive
    <2>6. Waves' /\ Siblings'
      BY <1>1, <1>3, <2>1, <2>2 DEF Waves, Siblings, Terminal
    <2>7. Tally'
      BY <1>1, <2>1, <2>2 DEF Tally, Terminal
    <2>8. CompleteResults'
      <3>1. ASSUME NEW b \in Batches, batchState[b] = "resolved"
            PROVE  status' = status \/ c \notin results[b]
        BY <3>1, <2>1 DEF Tally
      <3>2. QED BY <3>1, <1>1, <2>1 DEF CompleteResults, TypeOK
    <2>9. QED BY <2>3, <2>4, <2>5, <2>6, <2>7, <2>8
  <1>6. QED BY <1>4, <1>5

LEMMA CoreTail ==
    ASSUME TypeOK, Core, NEW c \in Calls, ToolReturnsTail(c)
    PROVE  Core'
  <1> USE DEF Core
  <1>1. /\ UNCHANGED <<running, isCancelling, loop, batchState, results, completed, reported>>
        /\ madeProgress' = TRUE
        /\ pc[c] = "running" /\ loop = "executing" /\ running \in Batches /\ running # NoBatch
        /\ active \subseteq Calls /\ ToSet(queue) \subseteq Calls /\ completed \subseteq Calls
    BY QueueCalls, ConstantTypes DEF ToolReturnsTail, batchVars, Shape, AllIdle, TypeOK
  <1>2. pc' = [pc EXCEPT ![c] = "idle"]
    BY DEF ToolReturnsTail
  <1>3. pc'[c] = "idle" /\ \A d \in Calls : d # c => pc'[d] = pc[d]
    BY <1>2 DEF TypeOK
  <1>4. Shape'
    BY <1>1, <1>3 DEF Shape, AllIdle
  <1>5. CASE c \in active
    <2>1. PICK s \in {"validating", "error"} : status' = [status EXCEPT ![c] = s]
      BY <1>5 DEF ToolReturnsTail, Replaceable
    <2>2. /\ active' = active \ {c} /\ queue' = <<c>> \o queue
          /\ parallel' \ {c} = parallel \ {c}
          /\ status'[c] \in {"validating", "error"}
          /\ \A d \in Calls : d # c => status'[d] = status[d]
      BY <1>5, <2>1 DEF ToolReturnsTail, Replaceable, UnshiftedTail, TypeOK
    <2>3. c \notin ToSet(queue) /\ c \notin completed /\ IsInjective(queue)
      BY <1>1, <1>5 DEF Placement, Conservation
    <2>4. ToSet(queue') = {c} \cup ToSet(queue) /\ IsInjective(queue')
      BY <2>2, <2>3, ConsAdds DEF TypeOK
    <2>5. Placement'
      BY <1>1, <1>5, <2>2, <2>3, <2>4 DEF Placement, Conservation
    <2>6. ~isCancelling
      BY <1>1, <1>5 DEF Coroutines, TerminalActive
    <2>7. Coroutines'
      BY <1>1, <1>3, <2>2, <2>6 DEF Coroutines, TerminalActive
    <2>8. Waves'
      BY <1>1, <1>3, <2>2 DEF Waves
    <2>9. Siblings'
      BY <1>1, <1>3, <2>2 DEF Siblings
    <2>10. Tally'
      BY <1>1, <1>5, <2>2, <2>3, <2>4 DEF Tally
    <2>11. CompleteResults'
      <3>1. ASSUME NEW b \in Batches, batchState[b] = "resolved" PROVE c \notin results[b]
        BY <3>1, <1>5 DEF Tally
      <3>2. QED BY <3>1, <1>1, <2>2 DEF CompleteResults, TypeOK
    <2>12. QED BY <1>4, <2>5, <2>7, <2>8, <2>9, <2>10, <2>11
  <1>6. CASE c \notin active
    <2>1. UNCHANGED <<active, queue, status, parallel>>
      BY <1>6 DEF ToolReturnsTail, Replaceable
    <2>2. Placement' /\ Coroutines' /\ Waves' /\ Siblings' /\ Tally' /\ CompleteResults'
      BY <1>1, <1>3, <1>6, <2>1
         DEF Placement, Conservation, Coroutines, Waves, Siblings, Tally, CompleteResults
    <2>3. QED BY <1>4, <2>2
  <1>7. QED BY <1>5, <1>6

LEMMA CoreLateOutput ==
    ASSUME TypeOK, Core, NEW c \in Calls, LateOutput(c)
    PROVE  Core'
  <1> USE DEF Core
  <1>1. /\ UNCHANGED <<running, isCancelling, loop, madeProgress, batchState, results, queue,
                       active, completed, parallel, reported, pc>>
        /\ c \in Backgroundable /\ c \in active /\ loop = "executing" /\ pc[c] = "idle"
        /\ running \in Batches /\ running # NoBatch
        /\ active \subseteq Calls /\ ToSet(queue) \subseteq Calls /\ completed \subseteq Calls
    BY QueueCalls, ConstantTypes DEF LateOutput, loopVars, batchVars, confVars, Shape, TypeOK
  <1>2. status'[c] = "executing" /\ \A d \in Calls : d # c => status'[d] = status[d]
    BY <1>1 DEF LateOutput, Updated, TypeOK
  <1>3. c \notin ToSet(queue) /\ c \notin completed
    BY <1>1 DEF Placement, Conservation
  <1>4. Shape' /\ Placement'
    BY <1>1, <1>2, <1>3 DEF Shape, AllIdle, Placement, Conservation
  <1>5. Coroutines' /\ Waves' /\ Siblings'
    BY <1>1, <1>2 DEF Coroutines, Waves, Siblings, Terminal
  <1>6. Tally'
    BY <1>1, <1>2, <1>3 DEF Tally
  <1>7. CompleteResults'
    <2>1. ASSUME NEW b \in Batches, batchState[b] = "resolved" PROVE c \notin results[b]
      BY <2>1, <1>1 DEF Tally
    <2>2. QED BY <2>1, <1>1, <1>2 DEF CompleteResults, TypeOK
  <1>8. QED BY <1>4, <1>5, <1>6, <1>7

-----------------------------------------------------------------------------
(* Core and the steps of clients and of the loop.                           *)

\* Calls that are queued or active become part of the completed batch.
LEMMA CoreMoves ==
    ASSUME TypeOK, Core, NEW S, S \subseteq ToSet(queue) \cup active, Report(S),
           running' = running, results' = results,
           \A b \in Batches : \/ batchState'[b] = batchState[b]
                              \/ batchState[b] = "queued" /\ batchState'[b] = "rejected",
           IsInjective(queue'), ToSet(queue') \subseteq ToSet(queue), active' \subseteq active,
           ToSet(queue') \cup active' = (ToSet(queue) \cup active) \ S,
           running = NoBatch => queue' = <<>>,
           \A c \in S : status'[c] \in Terminal,
           \A c \in Calls \ S : status'[c] = status[c]
    PROVE  Placement' /\ Tally' /\ CompleteResults'
  <1> USE DEF Core
  <1>1. /\ active \subseteq Calls /\ ToSet(queue) \subseteq Calls /\ completed \subseteq Calls
        /\ S \subseteq Calls
    BY QueueCalls DEF TypeOK
  <1>2. /\ completed' = completed \cup S
        /\ \A c \in Calls : reported'[c] = IF c \in S THEN reported[c] + 1 ELSE reported[c]
    BY DEF Report
  <1>3. \A c \in S : reported'[c] = 1
    BY <1>1, <1>2 DEF Tally
  <1>4. ASSUME NEW c \in S, NEW b \in Batches, c \in CallsOf(b)
        PROVE  b = running \/ (running = NoBatch /\ batchState[b] = "resolved" /\ c \in active)
    <2>1. CASE running = NoBatch
      <3>1. c \in active
        BY <2>1, QueueCalls DEF Placement, TypeOK
      <3>2. PICK a \in Batches : batchState[a] = "resolved" /\ c \in CallsOf(a)
        BY <2>1, <3>1 DEF Placement
      <3>3. QED BY <1>4, <2>1, <3>1, <3>2, DistinctCallIds
    <2>2. CASE running # NoBatch
      <3>1. c \in CallsOf(running) /\ running \in Batches
        BY <2>2 DEF Placement, Conservation, TypeOK
      <3>2. QED BY <1>4, <3>1, DistinctCallIds
    <2>3. QED BY <2>1, <2>2
  <1>5. Placement'
    <2>1. Conservation'
      <3>1. SUFFICES ASSUME running # NoBatch PROVE Conservation'
        BY DEF Conservation
      <3>2. S \cap completed = {}
        BY <3>1 DEF Placement, Conservation
      <3>3. QED BY <3>1, <3>2, <1>2 DEF Placement, Conservation
    <2>2. \A c \in ToSet(queue') : status'[c] \in {"validating", "error"}
      BY <1>1 DEF Placement
    <2>3. ASSUME running = NoBatch, NEW c \in active'
          PROVE  \E b \in Batches : batchState'[b] = "resolved" /\ c \in CallsOf(b)
      BY <2>3 DEF Placement
    <2>4. QED BY <2>1, <2>2, <2>3 DEF Placement
  <1>6. Tally'
    <2>1. \A c \in ToSet(queue') \cup active' : reported'[c] = 0
      BY <1>1, <1>2 DEF Tally
    <2>2. ASSUME running # NoBatch, NEW c \in completed'
          PROVE  reported'[c] = 1 /\ status'[c] \in Terminal
      BY <1>1, <1>2, <1>3, <2>2 DEF Tally
    <2>3. ASSUME NEW b \in Batches, batchState'[b] \in {"new", "queued", "rejected"},
                 NEW c \in CallsOf(b)
          PROVE  reported'[c] = 0
      <3>1. batchState[b] \in {"new", "queued", "rejected"} /\ c \in Calls
        BY <2>3, BatchCalls
      <3>2. c \notin S
        BY <3>1, <1>4 DEF Shape
      <3>3. QED BY <3>1, <3>2, <1>2 DEF Tally
    <2>4. \A b \in Batches : batchState'[b] = "resolved" => results'[b] \cap active' = {}
      BY DEF Tally
    <2>5. QED BY <2>1, <2>2, <2>3, <2>4 DEF Tally
  <1>7. CompleteResults'
    <2>1. ASSUME NEW b \in Batches, batchState'[b] = "resolved", NEW c \in results[b]
          PROVE  c \in Calls \ S
      <3>1. c \in CallsOf(b) /\ c \in Calls /\ batchState[b] = "resolved"
        BY <2>1, BatchCalls DEF CompleteResults
      <3>2. c \notin active /\ b # running
        BY <2>1, <3>1 DEF Tally, Shape
      <3>3. QED BY <3>1, <3>2, <1>4
    <2>2. ASSUME NEW b \in Batches, batchState'[b] = "resolved" PROVE batchState[b] = "resolved"
      BY <2>2
    <2>3. QED BY <2>1, <2>2, <1>2 DEF CompleteResults
  <1>8. QED BY <1>5, <1>6, <1>7

\* Requests are queued or rejected while nothing else changes.
LEMMA CoreRequests ==
    ASSUME TypeOK, Core, UNCHANGED <<loopVars, results, callVars, pc>>,
           \A b \in Batches : \/ batchState'[b] = batchState[b]
                              \/ /\ batchState[b] \in {"new", "queued"}
                                 /\ batchState'[b] \in {"queued", "rejected"}
    PROVE  Core'
  <1> USE DEF Core, loopVars, callVars
  <1>1. Shape'
    BY DEF Shape, AllIdle
  <1>2. Placement'
    BY DEF Placement, Conservation
  <1>3. Coroutines' /\ Waves' /\ Siblings'
    BY DEF Coroutines, Waves, Siblings, TerminalActive
  <1>4. Tally' /\ CompleteResults'
    BY DEF Tally, CompleteResults
  <1>5. QED BY <1>1, <1>2, <1>3, <1>4

LEMMA CoreCancelEffect ==
    ASSUME TypeOK, Core, CancelEffect
    PROVE  Core'
  <1> USE DEF Core
  <1> DEFINE live == active \ TerminalActive
  <1>1. /\ isCancelling' = TRUE /\ queue' = <<>> /\ ToSet(queue') = {}
        /\ active' = active \ live /\ Report(live \cup ToSet(queue))
        /\ UNCHANGED <<running, loop, madeProgress, results, parallel, pc>>
        /\ completed' = completed \cup live \cup ToSet(queue)
    BY DEF CancelEffect, Flushed, Report, confVars, ToSet
  <1>2. \A b \in Batches : \/ batchState'[b] = batchState[b]
                           \/ batchState[b] = "queued" /\ batchState'[b] = "rejected"
    BY DEF CancelEffect, QueueRejected, RequestQueue
  <1>3. active \subseteq Calls /\ ToSet(queue) \subseteq Calls /\ IsInjective(queue')
    BY <1>1, QueueCalls DEF TypeOK, IsInjective
  <1>4. /\ \A c \in live \cup ToSet(queue) : status'[c] \in Terminal
        /\ \A c \in Calls \ (live \cup ToSet(queue)) : status'[c] = status[c]
    BY <1>3 DEF CancelEffect, QueueCancelled, Terminal
  <1>5. active' \subseteq TerminalActive /\ \A c \in active' : status'[c] \in Terminal
    BY <1>1, <1>3, <1>4 DEF TerminalActive
  <1>6. Placement' /\ Tally' /\ CompleteResults'
    <2> HIDE DEF live
    <2>1. ToSet(queue) \cap active = {}
      <3>1. CASE running = NoBatch
        BY <3>1, QueueCalls DEF Placement, TypeOK
      <3>2. CASE running # NoBatch
        BY <3>2 DEF Placement, Conservation
      <3>3. QED BY <3>1, <3>2
    <2>2. live \cup ToSet(queue) \subseteq ToSet(queue) \cup active
      BY DEF live
    <2>3. ToSet(queue') \cup active' = (ToSet(queue) \cup active) \ (live \cup ToSet(queue))
      BY <1>1, <2>1
    <2>4. QED BY <1>1, <1>2, <1>3, <1>4, <2>2, <2>3, CoreMoves
  <1>7. Shape'
    <2>1. \A b \in Batches : batchState'[b] = "running" <=> batchState[b] = "running"
      BY <1>2
    <2>2. QED BY <1>1, <2>1 DEF Shape, AllIdle
  <1>8. Coroutines'
    <2>1. \A c \in active' : pc[c] = "idle"
      BY <1>5 DEF Coroutines, TerminalActive
    <2>2. \A c \in Calls : pc[c] # "idle" => c \in active' \cup completed'
      BY <1>1 DEF Coroutines, TerminalActive
    <2>3. QED BY <1>1, <1>5, <2>1, <2>2 DEF Coroutines, TerminalActive
  <1>9. Waves'
    <2>1. loop \notin {"validating", "executing"} => active' = {}
      BY <1>5 DEF Waves, TerminalActive, Terminal
    <2>2. QED BY <1>1, <1>5, <2>1 DEF Waves
  <1>10. Siblings'
    <2>1. active' \subseteq active
      BY <1>1
    <2>2. QED BY <1>1, <2>1 DEF Siblings
  <1>11. QED BY <1>6, <1>7, <1>8, <1>9, <1>10

\* A batch starts when no call is active.
LEMMA CoreStartBatch ==
    ASSUME TypeOK, AllIdle, active = {}, NEW b \in Batches,
           NEW bs \in [Batches -> {"new", "queued", "running", "resolved", "rejected"}],
           StartBatch(b, bs), UNCHANGED <<active, parallel, reported, pc>>,
           \A c \in CallsOf(b) : reported[c] = 0,
           \A a \in Batches : bs[a] # "running",
           bs[b] # "resolved",
           \A a \in Batches : bs[a] \in {"new", "queued", "rejected"} =>
              \A c \in CallsOf(a) : reported[c] = 0,
           \A a \in Batches : bs[a] = "resolved" =>
              /\ results'[a] \subseteq CallsOf(a)
              /\ CallsOf(a) \ results'[a] \subseteq Backgroundable
              /\ \A c \in results'[a] : status[c] \in Terminal /\ reported[c] = 1
    PROVE  Core'
  <1> USE DEF Core
  <1>1. /\ running' = b /\ isCancelling' = FALSE /\ loop' = "top" /\ completed' = {}
        /\ queue' = Ordered(b) /\ ToSet(queue') = CallsOf(b) /\ b # NoBatch
        /\ queue' # <<>> \/ queue' = <<>>
    BY ConstantTypes DEF StartBatch, CallsOf
  <1>2. /\ batchState'[b] = "running"
        /\ \A a \in Batches : a # b => batchState'[a] = bs[a]
    BY DEF StartBatch
  <1>3. /\ \A c \in CallsOf(b) : status'[c] \in {"validating", "error"}
        /\ \A c \in Calls : c \notin CallsOf(b) => status'[c] = status[c]
    BY BatchCalls DEF StartBatch
  <1>4. Shape'
    BY <1>1, <1>2 DEF Shape, AllIdle
  <1>5. Placement'
    BY <1>1, <1>3, DistinctCallIds DEF Placement, Conservation
  <1>6. Coroutines' /\ Waves' /\ Siblings'
    BY <1>1 DEF Coroutines, Waves, Siblings, AllIdle
  <1>7. Tally'
    BY <1>1, <1>2, BatchCalls DEF Tally
  <1>8. CompleteResults'
    <2>1. ASSUME NEW a \in Batches, batchState'[a] = "resolved", NEW c \in results'[a]
          PROVE  status'[c] = status[c] /\ bs[a] = "resolved"
      <3>1. a # b /\ bs[a] = "resolved"
        BY <2>1, <1>2
      <3>2. c \in CallsOf(a) /\ c \in Calls
        BY <2>1, <3>1, BatchCalls
      <3>3. c \notin CallsOf(b)
        BY <3>1, <3>2, DistinctCallIds
      <3>4. QED BY <3>1, <3>2, <3>3, <1>3
    <2>2. \A a \in Batches : batchState'[a] = "resolved" => bs[a] = "resolved"
      BY <1>2
    <2>3. QED BY <2>1, <2>2 DEF CompleteResults
  <1>9. QED BY <1>4, <1>5, <1>6, <1>7, <1>8

LEMMA CoreClient == TypeOK /\ Core /\ Client => Core'
  <1> SUFFICES ASSUME TypeOK, Core, Client PROVE Core'
    OBVIOUS
  <1> USE DEF Core
  <1>1. ASSUME NEW b \in Batches, ScheduleNow(b) PROVE Core'
    <2>1. /\ running = NoBatch /\ active = {} /\ batchState[b] = "new"
          /\ StartBatch(b, batchState)
          /\ UNCHANGED <<results, active, parallel, reported, pc>>
      BY <1>1 DEF ScheduleNow, Busy
    <2>2. AllIdle /\ \A a \in Batches : batchState[a] # "running"
      BY <2>1, ConstantTypes DEF Shape
    <2>3. /\ \A a \in Batches : batchState[a] \in {"new", "queued", "rejected"} =>
               \A c \in CallsOf(a) : reported[c] = 0
          /\ \A c \in CallsOf(b) : reported[c] = 0
      BY <2>1 DEF Tally
    <2>4. \A a \in Batches : batchState[a] = "resolved" =>
              /\ results'[a] \subseteq CallsOf(a)
              /\ CallsOf(a) \ results'[a] \subseteq Backgroundable
              /\ \A c \in results'[a] : status[c] \in Terminal /\ reported[c] = 1
      BY <2>1 DEF CompleteResults
    <2>5. batchState \in [Batches -> {"new", "queued", "running", "resolved", "rejected"}]
      BY DEF TypeOK
    <2>6. QED BY <2>1, <2>2, <2>3, <2>4, <2>5, CoreStartBatch
  <1>2. ASSUME NEW b \in Batches, Enqueue(b) \/ EnqueueAborted(b) PROVE Core'
    <2>1. UNCHANGED <<loopVars, results, callVars, pc>>
      BY <1>2 DEF Enqueue, EnqueueAborted, confVars
    <2>2. \A a \in Batches : \/ batchState'[a] = batchState[a]
                             \/ /\ batchState[a] \in {"new", "queued"}
                                /\ batchState'[a] \in {"queued", "rejected"}
      BY <1>2 DEF Enqueue, EnqueueAborted, TypeOK
    <2>3. QED BY <2>1, <2>2, CoreRequests
  <1>3. ASSUME NEW S, QueueRejected({b \in RequestQueue : b \in S}),
               UNCHANGED <<loopVars, results, callVars, confVars>>
        PROVE  Core'
    <2>1. \A a \in Batches : \/ batchState'[a] = batchState[a]
                             \/ /\ batchState[a] \in {"new", "queued"}
                                /\ batchState'[a] \in {"queued", "rejected"}
      BY <1>3 DEF QueueRejected, RequestQueue
    <2>2. UNCHANGED <<loopVars, results, callVars, pc>>
      BY <1>3 DEF confVars
    <2>3. QED BY <2>1, <2>2, CoreRequests
  <1>4. ASSUME NEW s \in Signals, Abort(s) \/ UserCancel(s) PROVE Core'
    <2>1. CASE CancelEffect
      BY <2>1, CoreCancelEffect
    <2>2. CASE ~CancelEffect
      <3>1. /\ QueueRejected({b \in RequestQueue : SignalOf[b] = s})
            /\ UNCHANGED <<loopVars, results, callVars, confVars>>
        BY <1>4, <2>2 DEF Abort, UserCancel
      <3>2. {b \in RequestQueue : SignalOf[b] = s}
              = {b \in RequestQueue : b \in {a \in Batches : SignalOf[a] = s}}
        BY DEF RequestQueue
      <3>3. QED BY <3>1, <3>2, <1>3
    <2>3. QED BY <2>1, <2>2
  <1>5. ASSUME CancelAll PROVE Core'
    BY <1>5, CoreCancelEffect DEF CancelAll
  <1>6. QED BY <1>1, <1>2, <1>4, <1>5 DEF Client

\* Terminal calls leave activeCalls for the completed batch.
LEMMA CoreFinalize ==
    ASSUME TypeOK, Core, NEW progress \in BOOLEAN, FinalizeTerminal(progress),
           AllIdle, running # NoBatch, loop \in {"executing", "top"},
           loop = "executing" => progress = madeProgress,
           loop = "top" => active # {}
    PROVE  Core'
  <1> USE DEF Core
  <1>1. /\ active' = active \ TerminalActive /\ Report(TerminalActive)
        /\ loop' = After(progress \/ TerminalActive # {}, active')
        /\ UNCHANGED <<running, isCancelling, results, batchState, queue, status, parallel, pc>>
        /\ completed' = completed \cup TerminalActive
    BY DEF FinalizeTerminal, batchVars, confVars, Report
  <1>2. active \subseteq Calls /\ queue \in Seq(Calls) /\ TerminalActive \subseteq active
    BY DEF TypeOK, TerminalActive
  <1>3. \A c \in active' : c \in Backgroundable /\ status[c] = "executing" /\ pc[c] = "idle"
    BY <1>1, <1>2 DEF Waves, TerminalActive, AllIdle
  <1>4. ToSet(queue) \cap active = {} /\ IsInjective(queue)
    BY DEF Placement, Conservation
  <1>5. Placement' /\ Tally' /\ CompleteResults'
    <2>1. /\ TerminalActive \subseteq ToSet(queue) \cup active
          /\ \A c \in TerminalActive : status'[c] \in Terminal
      BY <1>1, <1>2 DEF TerminalActive
    <2>2. ToSet(queue') \cup active' = (ToSet(queue) \cup active) \ TerminalActive
      BY <1>1, <1>2, <1>4
    <2>3. QED BY <1>1, <1>2, <1>4, <2>1, <2>2, CoreMoves
  <1>6. loop' \in {"top", "polling", "finishing"}
    BY <1>1 DEF After
  <1>7. Shape'
    BY <1>1, <1>6 DEF Shape, AllIdle
  <1>8. Coroutines'
    BY <1>1, <1>2, <1>6 DEF Coroutines, TerminalActive
  <1>9. Waves'
    <2>1. loop' = "finishing" => queue = <<>>
      <3>1. SUFFICES ASSUME loop' = "finishing" PROVE queue = <<>>
        OBVIOUS
      <3>2. ~progress /\ TerminalActive = {} /\ active' = {}
        BY <3>1, <1>1, <1>3 DEF After
      <3>3. active = {}
        BY <3>2, <1>1
      <3>4. loop = "executing" /\ ~madeProgress
        BY <3>2, <3>3
      <3>5. isCancelling
        BY <3>3, <3>4 DEF Waves
      <3>6. QED BY <3>5 DEF Coroutines
    <2>2. QED BY <1>1, <1>3, <1>6, <2>1 DEF Waves
  <1>10. Siblings'
    BY <1>6 DEF Siblings
  <1>11. QED BY <1>5, <1>7, <1>8, <1>9, <1>10

LEMMA CoreStartWave ==
    ASSUME TypeOK, Core, StartWave
    PROVE  Core'
  <1> USE DEF Core
  <1>1. PICK n \in 1..Len(queue) :
          /\ IsWave(n) /\ queue' = SubSeq(queue, n + 1, Len(queue))
          /\ active' = {queue[i] : i \in 1..n}
          /\ pc' = [c \in Calls |-> IF c \in {queue[i] : i \in 1..n} /\ status[c] = "validating"
                                    THEN "deciding" ELSE pc[c]]
    BY DEF StartWave
  <1>2. /\ UNCHANGED <<running, isCancelling, batchState, results, completed, status, parallel,
                       reported>>
        /\ loop = "top" /\ loop' = "validating" /\ active = {} /\ ~isCancelling
        /\ running # NoBatch /\ AllIdle
    BY ConstantTypes DEF StartWave, LoopGoesOn, batchVars, Shape, TypeOK
  <1>3. /\ queue \in Seq(Calls) /\ IsInjective(queue) /\ ToSet(queue) \cap completed = {}
        /\ ToSet(queue) \subseteq Calls /\ CallsOf(running) = ToSet(queue) \cup completed
    BY <1>2, QueueCalls DEF TypeOK, Placement, Conservation
  <1>4. /\ IsInjective(queue') /\ ToSet(queue) = active' \cup ToSet(queue')
        /\ active' \cap ToSet(queue') = {}
    BY <1>1, <1>3, PrefixSplits
  <1>5. /\ \A c \in active' : status[c] \in {"validating", "error"}
        /\ \A c \in active' : pc'[c] = IF status[c] = "validating" THEN "deciding" ELSE "idle"
        /\ \A c \in Calls \ active' : pc'[c] = "idle"
    BY <1>1, <1>2, <1>3, <1>4 DEF Placement, AllIdle
  <1>6. Shape'
    <2>1. \A c \in Calls : pc'[c] \in {"idle", "deciding"}
      BY <1>3, <1>4, <1>5
    <2>2. QED BY <1>2, <2>1 DEF Shape
  <1>7. Placement'
    BY <1>2, <1>3, <1>4 DEF Placement, Conservation
  <1>8. Coroutines'
    BY <1>2, <1>3, <1>4, <1>5 DEF Coroutines, Terminal
  <1>9. Waves'
    <2>1. queue[1] \in active'
      BY <1>1
    <2>2. QED BY <1>2, <1>5, <2>1 DEF Waves, Terminal
  <1>10. Siblings'
    <2>1. ASSUME NEW c \in active', NEW d \in active', c # d PROVE c \in parallel
      <3>1. PICK i \in 1..n, j \in 1..n : c = queue[i] /\ d = queue[j]
        BY <1>1, <2>1
      <3>2. n > 1
        BY <2>1, <3>1
      <3>3. QED BY <1>1, <3>1, <3>2 DEF IsWave
    <2>2. \A c \in Calls : pc'[c] # "idle" => c \in active'
      BY <1>5
    <2>3. QED BY <2>1, <2>2, <1>2 DEF Siblings
  <1>11. Tally'
    <2>1. ASSUME NEW b \in Batches, batchState[b] = "resolved" PROVE results[b] \cap active' = {}
      <3>1. b # running /\ results[b] \subseteq CallsOf(b) /\ running \in Batches
        BY <2>1, <1>2 DEF Shape, CompleteResults, TypeOK
      <3>2. CallsOf(b) \cap CallsOf(running) = {}
        BY <3>1, DistinctCallIds
      <3>3. QED BY <3>1, <3>2, <1>3, <1>4
    <2>2. QED BY <2>1, <1>2, <1>4 DEF Tally
  <1>12. CompleteResults'
    BY <1>2 DEF CompleteResults
  <1>13. QED BY <1>6, <1>7, <1>8, <1>9, <1>10, <1>11, <1>12

LEMMA CoreStartExecution ==
    ASSUME TypeOK, Core, StartExecution
    PROVE  Core'
  <1> USE DEF Core
  <1>1. /\ UNCHANGED <<running, isCancelling, madeProgress, batchState, results, queue, active,
                       completed, parallel, reported>>
        /\ loop = "validating" /\ loop' = "executing" /\ AllIdle /\ running # NoBatch
        /\ active \subseteq Calls /\ ToSet(queue) \subseteq Calls /\ running \in Batches
        /\ completed \subseteq Calls
    BY QueueCalls, ConstantTypes DEF StartExecution, batchVars, Shape, TypeOK
  <1>2. \A c \in active : status[c] \in Terminal \cup {"scheduled"}
    BY <1>1 DEF Waves, AllIdle
  <1>3. \A c \in Calls :
          IF c \in active /\ status[c] = "scheduled"
          THEN \/ status'[c] = "executing" /\ pc'[c] = "running"
               \/ status'[c] = "cancelled" /\ pc'[c] = "idle"
          ELSE status'[c] = status[c] /\ pc'[c] = "idle"
    BY <1>1, <1>2 DEF StartExecution, AllIdle
  <1>4. isCancelling => \A c \in active : status[c] # "scheduled"
    BY <1>1 DEF Coroutines, TerminalActive, Terminal
  <1>5. Shape'
    BY <1>1, <1>3 DEF Shape
  <1>6. ToSet(queue) \cap active = {} /\ completed \cap active = {}
    BY <1>1 DEF Placement, Conservation
  <1>7. Placement'
    BY <1>1, <1>3, <1>6 DEF Placement, Conservation
  <1>8. Coroutines'
    BY <1>1, <1>2, <1>3, <1>4 DEF Coroutines, Terminal
  <1>9. Waves'
    BY <1>1, <1>2, <1>3 DEF Waves, Terminal
  <1>10. Siblings'
    BY <1>1, <1>3 DEF Siblings
  <1>11. Tally'
    <2>1. \A c \in completed : status'[c] = status[c]
      BY <1>1, <1>3, <1>6
    <2>2. QED BY <1>1, <2>1 DEF Tally
  <1>12. CompleteResults'
    <2>1. ASSUME NEW b \in Batches, batchState[b] = "resolved", NEW c \in results[b]
          PROVE  c \in Calls /\ c \notin active
      BY <2>1, BatchCalls DEF CompleteResults, Tally
    <2>2. QED BY <2>1, <1>1, <1>3 DEF CompleteResults
  <1>13. QED BY <1>5, <1>7, <1>8, <1>9, <1>10, <1>11, <1>12

LEMMA CoreFinishBatch ==
    ASSUME TypeOK, Core, FinishBatch
    PROVE  Core'
  <1> USE DEF Core
  <1> DEFINE settled == [batchState EXCEPT ![running] = "resolved"]
  <1>1. /\ loop = "finishing" /\ running \in Batches /\ running # NoBatch /\ AllIdle
        /\ results' = [results EXCEPT ![running] = completed]
        /\ UNCHANGED <<active, parallel, reported, pc>>
        /\ active \subseteq Calls /\ completed \subseteq Calls
    BY ConstantTypes DEF FinishBatch, Shape, TypeOK
  <1>2. queue = <<>> /\ ToSet(queue) = {}
    BY <1>1, QueueCalls DEF Waves, TypeOK
  <1>3. /\ CallsOf(running) = active \cup completed /\ active \cap completed = {}
        /\ \A c \in active : c \in Backgroundable /\ status[c] = "executing"
    BY <1>1, <1>2 DEF Placement, Conservation, Waves
  <1>4. /\ settled \in [Batches -> {"new", "queued", "running", "resolved", "rejected"}]
        /\ settled[running] = "resolved"
        /\ \A a \in Batches : a # running => settled[a] = batchState[a] /\ settled[a] # "running"
    BY <1>1 DEF TypeOK, Shape
  <1>5. /\ results'[running] = completed
        /\ \A a \in Batches : a # running => results'[a] = results[a]
    BY <1>1 DEF TypeOK
  <1> HIDE DEF settled
  <1>6. \A a \in Batches : settled[a] = "resolved" =>
              /\ results'[a] \subseteq CallsOf(a)
              /\ CallsOf(a) \ results'[a] \subseteq Backgroundable
              /\ \A c \in results'[a] : status[c] \in Terminal /\ reported[c] = 1
    <2>1. ASSUME NEW a \in Batches, settled[a] = "resolved", a # running
          PROVE  /\ results'[a] \subseteq CallsOf(a)
                 /\ CallsOf(a) \ results'[a] \subseteq Backgroundable
                 /\ \A c \in results'[a] : status[c] \in Terminal /\ reported[c] = 1
      <3>1. batchState[a] = "resolved" /\ results'[a] = results[a]
        BY <2>1, <1>4, <1>5
      <3>2. QED BY <3>1 DEF CompleteResults
    <2>2. /\ completed \subseteq CallsOf(running)
          /\ CallsOf(running) \ completed \subseteq Backgroundable
          /\ \A c \in completed : status[c] \in Terminal /\ reported[c] = 1
      BY <1>1, <1>3 DEF Tally
    <2>3. QED BY <2>1, <2>2, <1>5
  <1>7. \A a \in Batches : settled[a] \in {"new", "queued", "rejected"} =>
              \A c \in CallsOf(a) : reported[c] = 0
    BY <1>4 DEF Tally
  <1>8. CASE /\ running' = NoBatch /\ loop' = "idle" /\ batchState' = settled
             /\ completed' = {} /\ UNCHANGED <<isCancelling, queue, status, denied>>
    <2>1. Shape'
      BY <1>1, <1>4, <1>8, ConstantTypes DEF Shape, AllIdle
    <2>2. Placement'
      BY <1>1, <1>2, <1>3, <1>4, <1>8 DEF Placement, Conservation
    <2>3. Coroutines' /\ Waves' /\ Siblings'
      BY <1>1, <1>2, <1>3, <1>8 DEF Coroutines, Waves, Siblings, AllIdle
    <2>4. Tally'
      <3>1. ASSUME NEW b \in Batches, settled[b] = "resolved" PROVE results'[b] \cap active = {}
        <4>1. CASE b = running
          BY <4>1, <1>3, <1>5
        <4>2. CASE b # running
          BY <3>1, <4>2, <1>4, <1>5 DEF Tally
        <4>3. QED BY <4>1, <4>2
      <3>2. QED BY <1>1, <1>2, <1>7, <1>8, <3>1 DEF Tally
    <2>5. CompleteResults'
      BY <1>1, <1>6, <1>8 DEF CompleteResults
    <2>6. QED BY <2>1, <2>2, <2>3, <2>4, <2>5
  <1>9. ASSUME NEW b \in Backlog, active = {}, StartBatch(b, settled) PROVE Core'
    <2>1. b \in Batches /\ batchState[b] = "queued" /\ b # running
      BY <1>1, <1>9 DEF Backlog, RequestQueue, Shape
    <2>2. settled[b] = "queued" /\ \A a \in Batches : settled[a] # "running"
      BY <2>1, <1>4
    <2>3. QED BY <1>1, <1>4, <1>6, <1>7, <1>9, <2>1, <2>2, CoreStartBatch
  <1>10. QED BY <1>8, <1>9 DEF FinishBatch, settled

LEMMA CoreLoop == TypeOK /\ Core /\ Loop => Core'
  <1> SUFFICES ASSUME TypeOK, Core, Loop PROVE Core'
    OBVIOUS
  <1> USE DEF Core
  <1>1. CASE LoopEnds \/ PollTimer
    <2>1. /\ UNCHANGED <<running, isCancelling, madeProgress, batchState, results, queue, active,
                         completed, status, parallel, reported, pc>>
          /\ loop \in {"top", "polling"} /\ loop' \in {"top", "finishing"}
          /\ loop' = "finishing" => queue = <<>>
      BY <1>1 DEF LoopEnds, PollTimer, batchVars, callVars, confVars
    <2>2. Shape' /\ Placement'
      BY <2>1 DEF Shape, AllIdle, Placement, Conservation
    <2>3. Coroutines' /\ Waves' /\ Siblings'
      BY <2>1 DEF Coroutines, Waves, Siblings, TerminalActive
    <2>4. Tally' /\ CompleteResults'
      BY <2>1 DEF Tally, CompleteResults
    <2>5. QED BY <2>2, <2>3, <2>4
  <1>2. CASE LoopBreaks
    <2> DEFINE gone == TerminalActive \cup ToSet(queue)
    <2>1. /\ UNCHANGED <<running, isCancelling, madeProgress, batchState, results, parallel, pc>>
          /\ active' = active \ TerminalActive /\ queue' = <<>> /\ ToSet(queue') = {}
          /\ loop = "top" /\ loop' = "finishing" /\ AllIdle /\ running # NoBatch
          /\ status' = QueueCancelled(status) /\ Report(gone)
          /\ completed' = completed \cup gone
      BY <1>2, ConstantTypes DEF LoopBreaks, Shape, TypeOK, batchVars, confVars, Flushed, Report, ToSet
    <2>2. /\ TerminalActive \subseteq active /\ active \cap ToSet(queue) = {}
          /\ active \subseteq Calls /\ ToSet(queue) \subseteq Calls /\ IsInjective(queue')
      BY <2>1, QueueCalls DEF TerminalActive, Placement, Conservation, TypeOK, IsInjective
    <2>3. /\ \A c \in gone : status'[c] \in Terminal
          /\ \A c \in Calls \ ToSet(queue) : status'[c] = status[c]
      BY <2>1, <2>2 DEF QueueCancelled, TerminalActive, Terminal
    <2>4. gone \subseteq ToSet(queue) \cup active
      BY <2>2
    <2>5. ToSet(queue') \cup active' = (ToSet(queue) \cup active) \ gone
      BY <2>1, <2>2
    <2>6. Placement' /\ Tally' /\ CompleteResults'
      BY <2>1, <2>2, <2>3, <2>4, <2>5, CoreMoves
    <2>7. Shape'
      BY <2>1 DEF Shape, AllIdle
    <2>8. Coroutines' /\ Waves' /\ Siblings'
      BY <2>1, <2>2, <2>3 DEF Coroutines, Waves, Siblings, AllIdle
    <2>9. QED BY <2>6, <2>7, <2>8
  <1>3. CASE DropErrored
    <2> DEFINE c == Head(queue)
    <2>1. /\ UNCHANGED <<running, isCancelling, loop, madeProgress, batchState, results, active,
                         status, parallel, pc>>
          /\ queue' = Tail(queue) /\ active = {} /\ status[c] = "error" /\ queue # <<>>
          /\ Report({c}) /\ completed' = completed \cup {c}
          /\ loop = "top" /\ running # NoBatch /\ AllIdle /\ ~isCancelling
      BY <1>3, ConstantTypes
         DEF DropErrored, LoopGoesOn, loopVars, batchVars, confVars, Report, Shape, TypeOK
    <2>2. /\ IsInjective(queue') /\ ToSet(queue) = {c} \cup ToSet(queue')
          /\ c \notin ToSet(queue')
      BY <2>1, TailSplits DEF Placement, Conservation, TypeOK
    <2>3. Placement' /\ Tally' /\ CompleteResults'
      <3>1. ToSet(queue') \cup active' = (ToSet(queue) \cup active) \ {c}
        BY <2>1, <2>2
      <3>2. /\ \A d \in {c} : status'[d] \in Terminal
            /\ \A d \in Calls \ {c} : status'[d] = status[d]
        BY <2>1 DEF Terminal
      <3> HIDE DEF c
      <3>3. QED BY <2>1, <2>2, <3>1, <3>2, CoreMoves
    <2>4. Shape'
      BY <2>1 DEF Shape, AllIdle
    <2>5. Coroutines' /\ Waves' /\ Siblings'
      BY <2>1 DEF Coroutines, Waves, Siblings, AllIdle
    <2>6. QED BY <2>3, <2>4, <2>5
  <1>4. CASE EndWave
    <2>1. /\ AllIdle /\ loop = "executing" /\ FinalizeTerminal(madeProgress) /\ running # NoBatch
          /\ madeProgress \in BOOLEAN
      BY <1>4, ConstantTypes DEF EndWave, Shape, TypeOK
    <2>2. QED BY <2>1, CoreFinalize
  <1>5. CASE Revisit
    <2>1. /\ AllIdle /\ loop = "top" /\ FinalizeTerminal(FALSE) /\ running # NoBatch
          /\ active # {} /\ FALSE \in BOOLEAN
      BY <1>5, ConstantTypes DEF Revisit, LoopGoesOn, Shape, TypeOK
    <2>2. QED BY <2>1, CoreFinalize
  <1>6. QED
    BY <1>1, <1>2, <1>3, <1>4, <1>5, CoreStartWave, CoreStartExecution, CoreFinishBatch DEF Loop

-----------------------------------------------------------------------------
(* Consent: nobody but the policy or a user lets an invocation through.     *)

LEMMA ConsentInit == Init => Consent
  BY DEF Init, Consent

\* A step that lets no further call through keeps Consent.
LEMMA ConsentKept ==
    ASSUME TypeOK, Consent, UNCHANGED <<pc, consent, stale>>,
           \A c \in Calls : c \in active' /\ pc[c] = "idle" /\ status'[c] = "scheduled"
                              => c \in active /\ status[c] = "scheduled"
    PROVE  Consent'
  BY DEF Consent

LEMMA ConsentClient == TypeOK /\ Consent /\ Client => Consent'
  <1> SUFFICES ASSUME TypeOK, Consent, Client PROVE Consent'
    OBVIOUS
  <1>1. ASSUME NEW b \in Batches, ScheduleNow(b) PROVE Consent'
    BY <1>1, ConsentKept DEF ScheduleNow, Busy
  <1>2. ASSUME NEW b \in Batches, Enqueue(b) \/ EnqueueAborted(b) PROVE Consent'
    BY <1>2, ConsentKept DEF Enqueue, EnqueueAborted, callVars, confVars
  <1>3. CASE CancelEffect
    <2>1. UNCHANGED <<pc, consent, stale>> /\ active' \subseteq active
      BY <1>3 DEF CancelEffect, confVars
    <2>2. \A c \in Calls : status'[c] \in {status[c], "cancelled"}
      BY <1>3 DEF CancelEffect, QueueCancelled
    <2>3. QED BY <2>1, <2>2, ConsentKept
  <1>4. ASSUME NEW s \in Signals, Abort(s) \/ UserCancel(s) PROVE Consent'
    BY <1>3, <1>4, ConsentKept DEF Abort, UserCancel, callVars, confVars
  <1>5. CASE CancelAll
    BY <1>3, <1>5 DEF CancelAll
  <1>6. QED BY <1>1, <1>2, <1>4, <1>5 DEF Client

LEMMA ConsentLoop == TypeOK /\ Core /\ Consent /\ Loop => Consent'
  <1> SUFFICES ASSUME TypeOK, Core, Consent, Loop PROVE Consent'
    OBVIOUS
  <1>1. CASE LoopEnds \/ PollTimer
    BY <1>1, ConsentKept DEF LoopEnds, PollTimer, callVars, confVars
  <1>2. CASE LoopBreaks
    <2>1. \A c \in Calls : status'[c] \in {status[c], "cancelled"}
      BY <1>2 DEF LoopBreaks, QueueCancelled
    <2>2. UNCHANGED <<pc, consent, stale>> /\ active' \subseteq active
      BY <1>2 DEF LoopBreaks, confVars
    <2>3. QED BY <2>1, <2>2, ConsentKept
  <1>3. CASE DropErrored
    BY <1>3, ConsentKept DEF DropErrored, confVars
  <1>4. CASE StartWave
    <2>1. PICK n \in 1..Len(queue) :
            /\ active' = {queue[i] : i \in 1..n}
            /\ pc' = [c \in Calls |-> IF c \in {queue[i] : i \in 1..n} /\ status[c] = "validating"
                                      THEN "deciding" ELSE pc[c]]
      BY <1>4 DEF StartWave
    <2>2. UNCHANGED <<status, consent, stale>>
      BY <1>4 DEF StartWave
    <2>3. \A c \in active' : status[c] \in {"validating", "error"}
      BY <2>1, ElementAt DEF Core, Placement, TypeOK
    <2>4. \A c \in Calls : pc'[c] \in {pc[c], "deciding"}
      BY <2>1
    <2>5. QED BY <2>2, <2>3, <2>4 DEF Consent
  <1>5. CASE StartExecution
    <2>1. /\ AllIdle /\ UNCHANGED <<consent, stale, active>>
          /\ \A c \in Calls : pc'[c] = "running" => c \in active /\ status[c] = "scheduled"
          /\ \A c \in Calls : pc'[c] \in {"idle", "running"}
          /\ \A c \in Calls : status'[c] \in {status[c], "executing", "cancelled"}
      BY <1>5 DEF StartExecution, AllIdle
    <2>2. QED BY <2>1 DEF Consent, AllIdle
  <1>6. CASE EndWave \/ Revisit
    <2>1. UNCHANGED <<pc, consent, stale, status>> /\ active' \subseteq active
      BY <1>6 DEF EndWave, Revisit, FinalizeTerminal, confVars
    <2>2. QED BY <2>1, ConsentKept
  <1>7. CASE FinishBatch
    <2>1. UNCHANGED <<pc, consent, stale, active>> /\ (active = {} \/ status' = status)
      BY <1>7 DEF FinishBatch
    <2>2. QED BY <2>1, ConsentKept
  <1>8. QED BY <1>1, <1>2, <1>3, <1>4, <1>5, <1>6, <1>7 DEF Loop

LEMMA ConsentLocal ==
    ASSUME TypeOK, Consent, NEW c \in Calls, Local(c)
    PROVE  Consent'
  <1> USE DEF Consent, callVars, Resume, Done, Updated, TypeOK
  <1>1. CASE Answer(c) \/ AskEdit(c)
    BY <1>1 DEF Answer, Approve, Refuse, AskEdit, OnScreen
  <1>2. CASE Allow(c)
    BY <1>2 DEF Allow
  <1>3. CASE Deny(c)
    BY <1>3 DEF Deny, Thrown
  <1>4. CASE Ask(c) \/ NoPrompt(c)
    BY <1>4 DEF Ask, NoPrompt
  <1>5. CASE Prompt(c)
    BY <1>5 DEF Prompt
  <1>6. CASE EditorCloses(c)
    BY <1>6 DEF EditorCloses, AfterEditor
  <1>7. CASE InlineEdit(c)
    BY <1>7 DEF InlineEdit
  <1>8. CASE ConfirmationThrows(c)
    BY <1>8 DEF ConfirmationThrows, Thrown
  <1>9. CASE SettleProceed(c)
    BY <1>9 DEF SettleProceed
  <1>10. CASE ToolReturns(c) \/ KeepSandboxError(c)
    BY <1>10 DEF ToolReturns, KeepSandboxError, Terminal
  <1>11. CASE ToolWantsSandbox(c)
    BY <1>11 DEF ToolWantsSandbox
  <1>12. CASE Reexecute(c)
    BY <1>12 DEF Reexecute
  <1>13. QED
    BY <1>1, <1>2, <1>3, <1>4, <1>5, <1>6, <1>7, <1>8, <1>9, <1>10, <1>11, <1>12 DEF Local

LEMMA ConsentRest ==
    ASSUME TypeOK, Consent, NEW c \in Calls,
           SettleCancel(c) \/ ToolReturnsTail(c) \/ LateOutput(c)
    PROVE  Consent'
  <1> USE DEF TypeOK
  <1>1. CASE SettleCancel(c)
    <2>1. /\ UNCHANGED <<active, consent, stale>> /\ pc' = [pc EXCEPT ![c] = "idle"]
          /\ \A d \in Calls : status'[d] \in {status[d], "cancelled"}
          /\ c \in active => status'[c] # "scheduled"
      BY <1>1 DEF SettleCancel, QueueCancelled, Updated
    <2>2. QED BY <2>1 DEF Consent
  <1>2. CASE ToolReturnsTail(c)
    <2>1. /\ pc' = [pc EXCEPT ![c] = "idle"] /\ c \notin active' /\ active' \subseteq active
          /\ \A d \in Calls : d # c =>
               status'[d] = status[d] /\ consent'[d] = consent[d] /\ (d \in stale' <=> d \in stale)
      BY <1>2 DEF ToolReturnsTail, Replaceable
    <2>2. QED BY <2>1 DEF Consent
  <1>3. CASE LateOutput(c)
    <2>1. UNCHANGED <<active, pc, consent, stale>>
          /\ \A d \in Calls : status'[d] \in {status[d], "executing"}
      BY <1>3 DEF LateOutput, Updated, confVars
    <2>2. QED BY <2>1, ConsentKept
  <1>4. QED BY <1>1, <1>2, <1>3

-----------------------------------------------------------------------------
(* Cancellation.                                                            *)

LEMMA CancellingInit == Init => Cancelling
  BY DEF Init, Cancelling

LEMMA CancellingClient == TypeOK /\ Core /\ Cancelling /\ Client => Cancelling'
  <1> SUFFICES ASSUME TypeOK, Core, Cancelling, Client PROVE Cancelling'
    OBVIOUS
  <1>1. ASSUME NEW b \in Batches, ScheduleNow(b) PROVE Cancelling'
    BY <1>1, ConstantTypes
       DEF ScheduleNow, Busy, StartBatch, Cancelling, Core, Shape, AllIdle
  <1>2. ASSUME NEW b \in Batches, Enqueue(b) \/ EnqueueAborted(b) PROVE Cancelling'
    BY <1>2 DEF Enqueue, EnqueueAborted, loopVars, callVars, confVars, Cancelling, Aborted
  <1>3. ASSUME NEW s \in Signals, Abort(s) PROVE Cancelling'
    BY <1>3 DEF Abort, AbortEffect, loopVars, callVars, confVars, Cancelling, Aborted
  <1>4. ASSUME NEW s \in Signals, UserCancel(s) PROVE Cancelling'
    <2>1. running' = running /\ (running # NoBatch => Aborted')
      BY <1>4 DEF UserCancel, AbortEffect, CancelEffect, loopVars, Aborted
    <2>2. CASE isCancelling
      BY <1>4, <2>1, <2>2 DEF UserCancel, loopVars, Cancelling
    <2>3. CASE ~isCancelling
      BY <1>4, <2>1, <2>3 DEF UserCancel, CancelEffect, Cancelling
    <2>4. QED BY <2>2, <2>3
  <1>5. ASSUME CancelAll PROVE Cancelling'
    BY <1>5 DEF CancelAll, CancelEffect, Cancelling
  <1>6. QED BY <1>1, <1>2, <1>3, <1>4, <1>5 DEF Client

LEMMA CancellingLoop == TypeOK /\ Core /\ Cancelling /\ Loop => Cancelling'
  <1> SUFFICES ASSUME TypeOK, Core, Cancelling, Loop PROVE Cancelling'
    OBVIOUS
  <1>1. CASE FinishBatch
    BY <1>1, ConstantTypes DEF FinishBatch, StartBatch, Cancelling, Core, Shape, AllIdle
  <1>2. CASE ~FinishBatch
    <2>1. UNCHANGED <<running, isCancelling, aborted>>
      BY <1>2 DEF Loop, LoopEnds, LoopBreaks, DropErrored, StartWave, StartExecution, EndWave,
         Revisit, PollTimer, FinalizeTerminal, loopVars
    <2>2. ASSUME NEW c \in Calls, pc'[c] # "idle", ~isCancelling PROVE c \in active'
      <3>1. CASE StartWave
        BY <2>2, <3>1 DEF StartWave, Core, Shape, LoopGoesOn, AllIdle
      <3>2. CASE StartExecution
        BY <2>2, <3>2 DEF StartExecution, AllIdle
      <3>3. CASE ~StartWave /\ ~StartExecution
        <4>1. pc' = pc /\ (AllIdle \/ active' = active)
          BY <1>2, <3>3 DEF Loop, LoopEnds, LoopBreaks, DropErrored, EndWave, Revisit, PollTimer,
             FinalizeTerminal, confVars, callVars, LoopGoesOn, Core, Shape
        <4>2. QED BY <2>2, <4>1 DEF Cancelling, AllIdle
      <3>4. QED BY <3>1, <3>2, <3>3
    <2>3. QED BY <2>1, <2>2 DEF Cancelling, Aborted
  <1>3. QED BY <1>1, <1>2

LEMMA CancellingCall ==
    ASSUME TypeOK, Core, Cancelling, NEW c \in Calls,
           CallStep(c) \/ SettleCancel(c) \/ ToolReturnsTail(c) \/ LateOutput(c)
    PROVE  Cancelling'
  <1>1. UNCHANGED <<running, isCancelling, aborted>>
    BY DEF CallStep, Frame, SettleCancel, ToolReturnsTail, LateOutput, loopVars
  <1>2. ASSUME NEW d \in Calls, pc'[d] # "idle" PROVE pc[d] # "idle" /\ (d \in active => d \in active')
    <2>1. CASE CallStep(c)
      BY <1>2, <2>1 DEF CallStep, Frame, TypeOK
    <2>2. CASE SettleCancel(c) \/ LateOutput(c)
      BY <1>2, <2>2 DEF SettleCancel, LateOutput, confVars, TypeOK
    <2>3. CASE ToolReturnsTail(c)
      BY <1>2, <2>3 DEF ToolReturnsTail, TypeOK
    <2>4. QED BY <2>1, <2>2, <2>3
  <1>3. QED BY <1>1, <1>2 DEF Cancelling, Aborted

-----------------------------------------------------------------------------
(* The inductive invariant and what follows from it.                        *)

LEMMA StepKinds ==
    ASSUME Next
    PROVE  \/ Client \/ Loop
           \/ \E c \in Calls :
                Local(c) \/ SettleCancel(c) \/ ToolReturnsTail(c) \/ LateOutput(c)
  BY DEF Next, Progress, Local

LEMMA Invariance == Spec => []IInv
  <1>1. Init => IInv
    BY TypeInit, CoreInit, ConsentInit, CancellingInit DEF IInv, Core
  <1>2. IInv /\ [Next]_vars => IInv'
    <2> DEFINE All == TypeOK /\ Core /\ Consent /\ Cancelling
    <2> SUFFICES ASSUME All, [Next]_vars PROVE All'
      BY DEF IInv, Core
    <2>1. CASE Client
      BY <2>1, TypeClient, CoreClient, ConsentClient, CancellingClient
    <2>2. CASE Loop
      BY <2>2, TypeLoop, CoreLoop, ConsentLoop, CancellingLoop
    <2>3. ASSUME NEW c \in Calls, Local(c) PROVE All'
      <3>1. CallStep(c)
        BY <2>3, LocalSteps DEF Core
      <3>2. QED BY <2>3, <3>1, TypeCall, CoreCallStep, ConsentLocal, CancellingCall
    <2>4. ASSUME NEW c \in Calls, SettleCancel(c) \/ ToolReturnsTail(c) \/ LateOutput(c)
          PROVE  All'
      BY <2>4, TypeCall, CoreSettleCancel, CoreTail, CoreLateOutput, ConsentRest, CancellingCall
    <2>5. CASE UNCHANGED vars
      <3>1. UNCHANGED <<loopVars, batchVars, callVars, confVars, aborted>>
        BY <2>5 DEF vars
      <3>2. TypeOK'
        BY <3>1 DEF TypeOK, loopVars, batchVars, callVars, confVars
      <3>3. Core'
        <4>1. UNCHANGED <<loopVars, results, callVars, pc, batchState>>
          BY <3>1 DEF batchVars, confVars
        <4>2. QED BY <4>1, CoreRequests
      <3>4. Consent'
        BY <3>1, ConsentKept DEF callVars, confVars
      <3>5. Cancelling'
        BY <3>1 DEF Cancelling, Aborted, loopVars, callVars, confVars
      <3>6. QED BY <3>2, <3>3, <3>4, <3>5
    <2>6. QED BY <2>1, <2>2, <2>3, <2>4, <2>5, StepKinds
  <1>3. QED BY <1>1, <1>2, PTL DEF Spec

\* Every variable keeps its type: state-manager.ts only records the statuses
\* of CoreToolCallStatus, and only for callIds it was given.
THEOREM TypeCorrect == Spec => []TypeOK
  <1>1. IInv => TypeOK
    BY DEF IInv
  <1>2. QED BY <1>1, Invariance, PTL

\* No call of the batch being processed is lost or duplicated between the
\* queue, the active calls and the completed batch of state-manager.ts.
THEOREM CallsConserved == Spec => []Conservation
  <1>1. IInv => Conservation
    BY DEF IInv, Placement
  <1>2. QED BY <1>1, Invariance, PTL

\* The promise of schedule() resolves with one terminal result for every call
\* of the batch, calls moved to the background apart.
THEOREM ResultsComplete == Spec => []CompleteResults
  <1>1. IInv => CompleteResults
    BY DEF IInv
  <1>2. QED BY <1>1, Invariance, PTL

\* _processQueue returns with nothing queued and nothing active: its "stuck
\* state" exit abandons no call, calls in the background apart.
THEOREM NoneAbandoned == Spec => []NothingAbandoned
  <1>1. IInv => NothingAbandoned
    BY DEF IInv, Shape, Placement, Waves, NothingAbandoned
  <1>2. QED BY <1>1, Invariance, PTL

\* A call that is not parallelizable runs while no other call of its wave is
\* validated, confirmed or executed (_processNextItem's batching).
THEOREM SequentialIsolated == Spec => []Isolation
  <1>1. IInv => Isolation
    BY DEF IInv, Shape, AllIdle, Siblings, Isolation
  <1>2. QED BY <1>1, Invariance, PTL

\* Nothing executes that neither the policy nor a user who had seen the
\* arguments let through: tail calls, edits and sandbox expansions included.
THEOREM ConsentInformed == Spec => []InformedConsent
  <1>1. IInv => InformedConsent
    BY DEF IInv, Consent, InformedConsent
  <1>2. QED BY <1>1, Invariance, PTL

\* Nothing starts to execute after a cancellation, provided that whoever
\* calls cancelAll() aborts the signal first, as the TUI does.
THEOREM CancelledStaysStopped == ~BareCancel => (Spec => CancelledNeverStarts)
  <1> SUFFICES ASSUME ~BareCancel PROVE Spec => CancelledNeverStarts
    OBVIOUS
  <1> DEFINE A == \A c \in Calls : Starts(c) => c \in active /\ ~Aborted /\ ~isCancelling
  <1>1. ASSUME IInv, [Next]_vars PROVE A
    <2> USE <1>1 DEF IInv
    <2> SUFFICES ASSUME NEW c \in Calls, Starts(c) PROVE c \in active /\ ~Aborted /\ ~isCancelling
      OBVIOUS
    <2>1. CASE StartExecution
      <3>1. c \in active /\ status[c] = "scheduled" /\ ~Aborted /\ loop = "validating"
        BY <2>1 DEF StartExecution, Starts, MayLaunch
      <3>2. QED BY <3>1 DEF Coroutines, TerminalActive, Terminal
    <2>2. ASSUME NEW d \in Calls, Reexecute(d) PROVE c \in active /\ ~Aborted /\ ~isCancelling
      <3>1. c = d /\ pc[c] = "approved" /\ ~Aborted /\ loop = "executing"
        BY <2>2 DEF Reexecute, Starts, Done, TypeOK
      <3>2. ~isCancelling
        BY <3>1 DEF Cancelling, Shape
      <3>3. QED BY <3>1, <3>2 DEF Cancelling
    <2>3. ASSUME NEW d \in Calls, Local(d), ~Reexecute(d) PROVE FALSE
      BY <2>3 DEF Local, Starts, TypeOK, Answer, Approve, Refuse, AskEdit, Allow, Deny, Ask,
         NoPrompt, Prompt, EditorCloses, AfterEditor, InlineEdit, ConfirmationThrows,
         SettleProceed, ToolReturns, ToolWantsSandbox, KeepSandboxError, Resume, Done
    <2>4. ASSUME NEW d \in Calls, SettleCancel(d) \/ ToolReturnsTail(d) \/ LateOutput(d)
          PROVE  FALSE
      BY <2>4 DEF Starts, SettleCancel, ToolReturnsTail, LateOutput, confVars, TypeOK
    <2>5. CASE Client
      BY <2>5 DEF Client, Starts, ScheduleNow, Enqueue, EnqueueAborted, Abort, UserCancel,
         CancelAll, CancelEffect, confVars
    <2>6. CASE Loop /\ ~StartExecution
      BY <2>6 DEF Loop, Starts, LoopEnds, LoopBreaks, DropErrored, StartWave, EndWave, Revisit,
         PollTimer, FinishBatch, FinalizeTerminal, confVars
    <2>7. CASE UNCHANGED vars
      BY <2>7 DEF vars, confVars, Starts
    <2>8. QED BY <2>1, <2>2, <2>3, <2>4, <2>5, <2>6, <2>7, StepKinds
  <1>2. IInv /\ [Next]_vars => [A]_vars
    BY <1>1
  <1>3. QED BY <1>2, Invariance, PTL DEF Spec, CancelledNeverStarts
=============================================================================
