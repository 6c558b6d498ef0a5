# Gemini CLI in TLA+

A formal model of the concurrent core of Gemini CLI (`packages/`), checked with
TLC on small instances and, for its safety properties, proved with TLAPS for
every value of the constants. Twelve parts are modelled: the tool scheduler,
which all others feed; the tools that write files and their lock; and ten
smaller ones around them, from the history of a conversation to the lock file
that several processes share.

## 1. The system

Gemini CLI is an agent loop in one Node.js process. A client (terminal UI,
headless CLI, ACP, SDK, A2A server) sends a prompt; `GeminiClient` streams the
model's answer through `GeminiChat`; a `Turn` turns function calls into tool
call requests; the `Scheduler` validates, confirms and executes them; their
responses become the next message. JavaScript runs one continuation at a time,
so every race is a race between awaits: promises, event emitters, abort
signals, timers and, in a few places, other processes that share files.

| component (source under `packages/`) | state it keeps | operations | what is hard | what makes it correct | module |
|---|---|---|---|---|---|
| Tool scheduler (`core/src/scheduler`) | request queue, call queue, active calls, completed batch, status of each call | schedule, cancelAll, the processing loop, a coroutine per call | waves of parallel calls, prompts, tail calls, cancellation at every await | no call lost or reported twice, sequential calls isolated, consent for what executes, cancelled calls never start, every promise settles | `Scheduler` |
| Chat session (`core/src/core/geminiChat.ts`, `agentChatHistory.ts`) | send promise, history, length at the start of the prompt | sendMessageStream, commit, rollback, retry | two senders, streams abandoned half way, aborts between retries | turns alternate, a failed prompt leaves no trace, senders take turns | `GeminiChat` |
| Agent turn loop (`core/src/core/client.ts`, `turn.ts`) | prompt id, turn count, hook state per prompt | sendMessageStream, processTurn, compression | recursion, hooks before and after, loops detected midway | bounded turns, hooks fired once per prompt | - |
| Retry, availability, fallback, routing (`core/src/utils/retry.ts`, `availability`, `fallback`, `routing`) | attempt counters, health of each model, active model | retryWithBackoff, markTerminal, resetTurn, handleFallback | counters that start over, health that expires, wrap-around chains | a request ends; a model known to be exhausted is not chosen | `ModelFallback` |
| Execution lifecycle and shell (`core/src/services/executionLifecycleService.ts`, `shellExecutionService.ts`) | active executions, resolvers, listeners, exit information | attach, background, complete, kill, subscribe | backgrounding against completion, output after a result | one result per execution, one exit per listener | `ExecutionLifecycle`; the shell is not modelled |
| Confirmation bus (`core/src/confirmation-bus`) | listeners, correlation ids | publish, request | time-out against late answer | each request ends once, with its own answer | `ConfirmationBus` |
| Per-path mutex (`core/src/utils/pathMutex.ts`) | chain of promises per path | withPathLock | waiters that abort | exclusion, first come first served, no entry left | `PathLock` |
| File editing tools (`core/src/tools/edit.ts`, `write-file.ts`, `core/src/services/fileSystemService.ts`) | the files | replace, write_file, atomic write | edits of several agents, failing writes, aborts | no reported change is discarded | `FileEdits` |
| Hooks (`core/src/hooks`) | registry, child processes | plan, run, aggregate | time-outs, several hooks per event | a block decision is never lost | - |
| Policy and safety (`core/src/policy`, `core/src/safety`) | rules, approval mode | check, addRule | priorities, compound shell commands | the most restrictive applicable answer | - |
| Local agents (`core/src/agents/local-*.ts`) | turn counter, deadline, its own scheduler | run, recovery turn | deadline, abort and turn limit at once | terminates with exactly one outcome | `LocalAgent` |
| Agent session (`core/src/agent`) | event log, subscribers | send, stream | replay while events arrive | each subscriber sees each event once, in order | `AgentStream` |
| Context pipeline (`core/src/context`) | node graph, inbox, scheduled pipelines | triggers, background pipelines | snapshots of a shared inbox | each message is consumed once | - |
| MCP clients (`core/src/tools/mcp-client-manager.ts`, `core/src/mcp`) | clients, discovery and refresh promises | discover, restart, refresh, stop | coalesced refreshes, chained discoveries | the last change is always followed by a refresh | `McpRefresh` |
| Recording, memory (`core/src/services/chatRecordingService.ts`, `memoryService.ts`) | append-only log; lock file | append, rewind, reload; lock, unlock | crash between writes; two processes | a reload sees what was recorded; one owner of the lock | `ChatRecording`, `MemoryLock` |
| A2A server (`a2a-server/src/agent`) | tasks, abort controllers, pending calls | execute, cancel, evict | requests during initialization and cancellation | one execution per task, cancellation reaches it | `A2aTasks` |
| Clients (`cli/src`, `sdk`, `vscode-ide-companion`, `devtools`) | UI state, abort controllers | input, cancel, render | cancel while anything runs | they abort before they cancel | the scheduler's and the chat's callers only |

Components interact with the scheduler through calls (`schedule`, `cancelAll`),
an abort signal per turn, events on the message bus (a status update per
change, a prompt per confirmation, an answer that names the prompt), and the
callbacks a tool gets for live output. `PROJECT.json` lists every part with its
sources, and the hazards of each at their lines.

## 2. Modules

| module | contents |
|---|---|
| `Scheduler` | the state machine: `Scheduler`, `SchedulerStateManager`, the confirmation loop, and as environment the user, the tools, the hooks, the policy and two of the scheduler's clients |
| `ToolBatches` | the abstract contract of `schedule()` |
| `SchedulerProperties`, `SchedulerInvariant` | the properties and the refinement mapping to `ToolBatches`; the inductive invariants `IInv` and `OrderInv` |
| `SchedulerProofs`, `SchedulerOrderProofs` | the proofs of the invariants; those about order, denial and the contract |
| `PathLock` | the promise chain of `withPathLock`, and the refinement mapping to `FairMutex` |
| `FairMutex` | what `withPathLock` promises: a first-come first-served mutex per key |
| `FileEdits`, `FileEditsInvariant`, `FileEditsProofs` | extends `PathLock`: the read-modify-write of `replace` and `write_file` inside the lock, and their properties; the invariant; the proofs |
| `GeminiChat`, `GeminiChatProofs` | a conversation: its history, sends, retries, rollback |
| `ModelFallback` | one request at a time: retry loop, health of the models, fallback |
| `AgentStream`, `AgentStreamProofs` | the event log of an agent session, its streams and their consumers |
| `ConfirmationBus` | invocations that ask over the message bus whether they may run |
| `A2aTasks` | the requests of one task of the A2A server |
| `McpRefresh` | one MCP server's tools: discovery, refresh, what the model is told |
| `MemoryLock` | the lock file of the background memory service, shared by processes |
| `ExecutionLifecycle` | executions that go to the background, are killed, watched, and reuse ids |
| `ChatRecording`, `ChatRecordingProofs` | the recorded session: log, index and window, and what the chat, its clients, crashes and resuming do to them |
| `LocalAgent` | the run of a local agent: turns, deadline, turn of grace |
| `ServicesProofs` | the proofs of `ConfirmationBus`, `McpRefresh`, `MemoryLock`, `ModelFallback`, `LocalAgent`, `ExecutionLifecycle` and `A2aTasks`, one section each |
| `MCScheduler`, `MCFileEdits`, `MCServices` | instances for TLC |
| `MCServicesProofs` | that the components in `MCServices` run as they do alone |

Properties stand at the end of their module, except those of the scheduler.

`MCServices` holds the ten components from `GeminiChat` on. They share no state,
so a variable `part` names the one that moves in a behaviour while the others
stay in their initial state: the run checks ten instances side by side, not
their product. The components interact through calls, which each module models
from its own side: what `GeminiChat` calls `Connect` is what `ModelFallback`
calls a request; the calls of a turn are a batch of `Scheduler`; `LocalAgent`
sees of its scheduler what `ToolBatches` promises, and how the calls of a batch
are cancelled.

### How the models correspond to the code

An action is the code between two awaits. `loop` is the await at which
`_processQueue` is suspended, `pc[c]` the one at which the coroutine of call `c`
is: the hook and the policy (`deciding`), `shouldConfirmExecute` (`detailing`),
the prompt (`prompted`), the editor (`editing`), the inline edit (`typing`), the
policy update (`approved`, `refused`), the tool (`running`).

| `Scheduler` | code |
|---|---|
| `running`, `isCancelling` | `isProcessing` and the signal of the suspended `_startBatch`; `isCancelling` |
| `batchState`, `ticket`, `results` | the promise of a `schedule()` call, its place in `requestQueue`, what it resolved with |
| `queue`, `active`, `completed`, `status` | `queue`, `activeCalls`, `_completedBatch` and the status of the record in them |
| `parallel` | `isParallelizable(request)` of the call's current request |
| `ScheduleNow`, `Enqueue`, `EnqueueAborted`, `FinishBatch` | `schedule`, `_enqueueRequest`, `_startBatch` with its `finally` block and `_processNextInRequestQueue` |
| `Abort`, `CancelAll`, `UserCancel` | the abort listeners of queued requests, `cancelAll`, and the terminal UI's `cancelOngoingRequest`, which does both |
| `LoopEnds` ... `PollTimer` | `_processQueue` and `_processNextItem`, one action per way through an iteration |
| `Allow`, `Deny`, `Ask`, `NoPrompt`, `Prompt`, `Approve`, `Refuse`, `AskEdit`, `EditorCloses`, `InlineEdit`, `ConfirmationThrows`, `SettleProceed`, `SettleCancel` | `_processToolCall`, `_processValidatingCall`, `resolveConfirmation` |
| `ToolReturns`, `ToolReturnsTail`, `ToolWantsSandbox`, `Reexecute`, `KeepSandboxError` | `_execute` |
| `LateOutput` | the `outputUpdateHandler` of a command that was moved to the background |

Arguments, responses and messages are abstracted: what the properties need of
them is whether the arguments changed since a user saw them (`stale`) and who
allowed the invocation (`consent`). `reported`, `consent`, `stale` and `denied`
are history variables that no guard reads.

In `PathLock` a promise is named by the caller that resolves it: `chain` is the
map `chains`, `previous[c]` the promise `c` waits for, `pc[c]` its await.
`waiting` and `running` are a caller that is `active`; `leaving` is one whose
promise was rejected by an abort while its link of the chain is still
unresolved. `FileEdits` composes this with the critical section: `Begin` is the
entry, `stage[c]` the await inside `applyEdit` or `applyWrite` at which `c` is
suspended, `End` the way out.

| `PathLock`, `FileEdits` | code |
|---|---|
| `Lock`, `LockRejected`, `Abort`, `Pass`, `Enter`, `Leave`, `Cleaned` | the parts of `withPathLock` between its awaits: up to the promise, the early rejection, `onAbort`, its `previous.then`, the other `previous.then`, its `finally` block, `cleanup` |
| `Compute`, `GiveUp` | `calculateEdit` with `attemptSelfCorrection`, `getCorrectedFileContent` |
| `StartWrite`, `WriteFails`, `FinishWrite` | `writeTextFile`, and what the tools do after it |
| `state`, `marks` | of each inode, whether it exists and which calls' changes it holds |

The content of a file is the set of the calls whose change it holds: a
`replace` adds its own to what it has read, a `write_file` starts over. Whether
`old_string` is found, at once or after correction by the model, is a free
choice; a call that corrects may read the file twice, and `Compute` stands for
the read its result is based on. Two concurrent writes in place, possible for a
hard-linked file only, are ordered by their ends. `arrival`, `clock` and
`overwritten` are history.

| module | state and code | actions and code |
|---|---|---|
| `GeminiChat` | `turns`: `agentHistory`, each turn by its kind and the send it is of; `sendPromise`, `promptStart`, `lastPromptId`: the fields of the chat; `before`, `attempt`: locals of the send; `stray`: sends whose calls were handed to the tools although no turn holds them | `CallAtOnce`, `CallAndWait`, `Resume`: `sendMessageStream` before and after its await; `Connect`, `Finish`, `Backoff`, `Retry`, `Fail`: `streamWithRetries`, `Undo` its `finally` block; `Blocked`: a hook blocks the request or a chunk of the stream; `MayStray`: `Turn.run` hands on the calls of a chunk; `Settle`: the terminal UI's `handleCompletedTools`; `Cancel`: an abort |
| `ModelFallback` | `configured`, `activeModel`: of `Config`; `ChainFrom`: the chains of `resolvePolicyChain`; `health`: the availability service; `tries`, `capacityTries`, `validations`: counters of `retryWithBackoff` | `Begin`, `Attempt`: choice of a model; `RetrySame`, `Throw`, `VerifyAccount`, `Persist`: the `catch` of the loop; `RetryAlways`, `RetryOnce`, `Decline`: the answers of the fallback dialog; `Expire`: a health mark that times out; `NewTurn`: `resetTurn`; `Resort`: `handleFallback`, `SwitchesUnasked`: the silent action of a policy |
| `AgentStream` | `log`: `_events`; `activeStream`, `current`, `endEmitted`: of the legacy protocol; `reader[c]`: the locals of `stream()` | `Send` ... `CloseLoop`: the loop of a stream; `FollowStream`, `FollowActive`, `FollowAfter`, `Yield`, `EndStream`: a consumer |
| `ConfirmationBus` | `askPc`: an invocation in `getMessageBusDecision`; `publishPc`, `consulted`: its question at the policy and at ACP sessions | `Ask`, `Decide`, `PolicyFails`: `publish`; `SessionAnswers`, `Expires`, `Signal` |
| `A2aTasks` | `cached`, `initializing`, `executing`, `controllers`: maps of the executor; `pendingTools`, `taskState`: of each task object; `batches`, `asking`, `cancelling`: of its scheduler | `Execute`, `Load`, `Awake`, `AgentTurn`, `Register`, `Wake`, `Unwind`, `Depart`: `execute` between its awaits; `BatchAsks`, `BatchEnds`: the scheduler's updates; `Abort` rejects queued batches; `CancelTask`; `Disconnect`: the socket's end |
| `McpRefresh` | `registry`, `listed`, `context`: versions of the server's list; `refreshPc`, `pendingTool`; `contextPc`, `pendingContext`: the two coalescing loops | `Notify`, `List`, `VerifyList`, `Replace`, `Told`: `refreshTools`; `DiscoverList`, `DiscoverRegister`: `discoverInto`; `ReadContext` ... `ContextFails`: `scheduleMcpContextRefresh` |
| `MemoryLock` | `lockFile`, `lockWritten`, `lockOld`: the file and its age; `lockTaken`: another process has the pid in it; `lockPc`: a process in `tryAcquireLock` | `Create`, `Exists`, `Write`, `ReadLock`, `Steal`, `ReleaseLock`, one per system call, which may fail; `Die`; `PidTaken`: a pid is given to another process; `Ages` |
| `ExecutionLifecycle` | `active`, `resolver`, `background`, `exitInfo`: the maps of the service | `Attach`, `Background`, `Complete`, `Kill`, `OnExit`, `ForgetExit` |
| `ChatRecording` | `disk`: the log (as what its replay yields, the `Map` of `loadConversationRecord`) and whether it ends in half a record; `recorder`: the window (`cachedConversation`), the index (`messageOrder`), the fingerprints (`messageMetaMap`, `toolCallMetaMap`) and the records of the step; `history`: the chat's turns | `SendMessage` ... `Compress`: every caller of the recorder, with `recordMessage`, `recordToolCalls`, `updateMessagesFromHistory` and `rewindTo` as operators; `ResumeSession`, `Initialized`: `doInitialize` of a new process |
| `LocalAgent` | `deadline`: the `DeadlineTimer`; `grace`: the timer of `executeFinalWarningTurn`; `recovering`: why it was called; `agentCalls`: the calls of the turn | `NextAgentTurn`, `ModelReplies`, `ModelThrows`, `ToolsEnd`: `runInternal` and `executeTurn`; `StartWave` ... `CancelCalls`: its scheduler, reduced; `DecideCall` and `AnswerCall` pause and resume the deadline |

`owned`, `unremoved`, `granted`, `spared`, `lost`, `results` and `injections` are history.

In `ChatRecording` a step that appends several records may stop short of any of
them, with half a record at the end (`StopsShort`): the disk is full, or the
process dies. The session is then resumed from the log by another process. Ids
are numbers in the order in which they are given; the response that is made up
for the call of message `id` (`${id}_response`) has the id `-id`.

Assumptions about the constants are named. `LockConstants` and `FileConstants`
say that calls have one path and one file each and that only a hard-linked file
has two resolved paths: both tools resolve symbolic links before they lock. In
`Scheduler`: the callIds of a batch are distinct and no two batches share one
(`turn.ts` counts the ones it makes up), and `update_topic` and the edit tools are not parallelizable
(`tool-utils.ts`). A user answers only prompts that are on screen: of an active
call, with the signal not aborted. The terminal UI aborts the signal of the
batch that runs; a batch that is already winding down after an earlier
cancellation may have another.

Six constants switch off a case in which the code does not keep a property
(section 3 says what happens then): `ManyWaiters` and `Resends` in `GeminiChat`,
`PromptSend` in `AgentStream`, `CancelsLoading` in `A2aTasks`, `ChangesEarly` in
`McpRefresh`, `Misplaces` in `ChatRecording`.
`SilentFrom` in `ModelFallback` holds the models whose chain is followed unasked:
flash-lite, and all of them in plan mode; `AutoModel` there is the name `auto`,
which is no model of its own. `Torn` in `GeminiChat` holds the sends that may
hand on calls and still come to nothing, to bound the instance; the proofs allow
any.

## 3. Properties and runs

Every run of the scheduler and the edits allows aborts and user cancellation at
every await.

| run | instance | checks |
|---|---|---|
| `wave` | one batch: two parallelizable calls and an edit; one tail call, one edit or sandbox expansion per call | `TypeOK`, `Conservation`, `NothingAbandoned`, `Isolation`, `InOrder`, `InformedConsent`, `CancelledNeverStarts`, `DenialStopsQueue` |
| `queue` | three batches on two signals, one with an `update_topic` and a call that does not build; `cancelAll` with or without an abort | `CompleteResults`, `NoneRunsOn`, `ImplementsContract` |
| `fair` | two batches of one call, with fairness | `BatchesSettle` |
| `edits` | four calls for one file: two that create it, a `write_file` and an edit | `EditsKept`, `AbortedChangeNothing`, `NoLeak`, `ImplementsFairMutex` |
| `served` | three calls for one file under two names, with fairness | `AllServed` |
| `services` | the ten components, each on its own | `TypesOK` and the 22 properties listed below |
| `lateoutput` | two parallel calls, one backgrounded | `BatchesSettle` is violated |
| `rejected` | a local agent with two calls a turn | `AbortedByUser` is violated |
| `pingpong` | two models in plan mode | `RequestsEnd` is violated |
| `windingdown` | a task cancelled while it is loaded | `NotEvicted` is violated |
| `startup` | a list that changes while it is discovered | `ToldOfLast` is violated |
| `twoowners` | two sessions and a stale lock | `OneOwner` is violated |

The scheduler:

- `Conservation`: queue, active calls and completed batch partition the batch.
- `CompleteResults`: a resolved promise carries every call once, with a
  terminal status; only a call moved to the background may be missing.
- `NothingAbandoned`: neither the "stuck state" exit nor the cancellation exit
  of the loop leaves work behind.
- `Isolation`, `InOrder`: an edit, `update_topic` or `wait_for_previous` call
  overlaps with nothing. No call starts before those requested before it, and
  the tail calls they chained, have results, unless the two share a wave as
  calls that may overlap.
- `InformedConsent`: no path through editors, inline edits, sandbox expansions
  and tail calls executes arguments that nobody allowed as they stand.
- `CancelledNeverStarts`, `DenialStopsQueue`: what a cancellation and a denial
  stop, given that both may arrive while siblings are at any of their awaits.
- `ImplementsContract`: the scheduler refines `ToolBatches`: outcomes never
  change once given, a promise resolves when all of them are there, and a
  rejected batch has run nothing.
- `NoneRunsOn`: `cancelAll` reports the end of calls whose hooks, prompts and
  tools still run; nevertheless no promise settles, and no batch begins, over
  them, since the loop waits for its coroutines and not for the calls' states.
- `BatchesSettle`: every promise settles, of a batch that queues behind others,
  is aborted or cancelled too. That queued batches start in their order needs no
  property: the only step that starts one takes the head of the queue.

The edits:

- `ImplementsFairMutex`: an aborted waiter hands its place on only when its
  predecessor has left, so the one behind it neither overtakes the holder nor
  waits forever, and `NoLeak`: the map is cleaned by the last in line only,
  whether it ran or was aborted.
- `EditsKept`: what the lock is for. `NoLostEdit`: a `replace` writes what it
  read some awaits ago; `CreatedOnce`: a creation rests on a check made some
  awaits ago.
- `AbortedChangeNothing`: a call that was told its wait is over never edits.
- `AllServed`: progress along the line.

The services:

- `OneSender`: two sends never stream over one history. `PairedRequests`: no
  failed, aborted, blocked, settled or interrupted send leaves calls without
  responses to the next request, nor responses without calls, except those to
  the calls of an attempt that failed, was blocked or was tried again
  (`stray`, see below). `FailureIsOwn`: a failing send takes back the last turns,
  all of its own prompt, and all of its own unless they are responses that the
  model is still owed. `SendsEnd`: every send comes to its turn.
- `SparedForTheTurn`: a model given up for a turn is not chosen again in it,
  unless every model of its chain was. `RequestsEnd`: a request ends, although
  every fallback starts the attempts again, or comes to the retry of a model that
  is alone in its chain (see below).
- `OneActiveStream`, `EachEventOnce`, `ConsumersEnd`: one loop at a time; a
  consumer gets each event once, in order, wherever it starts; and the end.
- `AllowedItself`: no invocation runs unasked on the answer to another one, a
  late answer or a decision that a subagent forced. `AsksEnd`.
- `OnePrimary`, `NotEvicted`, `RequestsSettle`: one main loop per task, on the
  object that later messages reach. None waits for ever for tools that end, that
  were cancelled, or that another loop waits for too, unless the user has to
  approve a call of that object or a batch of it was rejected (see below).
- `ToldOfLast`: no notification is lost to the coalescing. `RefreshEnds`.
- `RefusedByOwner`: a session is refused the lock only if another one owned it
  while it tried, if its own unlink of a stale file failed, or if the pid in the
  file is alive. Nothing else that a dead process left stops the extraction.
- `OneResultEach`, `NoExitMissed`, `InjectedAfterResult`: of executions that
  end, are killed, go to the background or reuse an id in any order.
- `RecordingFaithful`: replayed, the log yields what the index, the window and
  the fingerprints say, and it holds the turns of the chat in their order,
  after any mixture of rollbacks, rewinds, masking, compression, lost records
  and resumed sessions.
- `AgentEnds`: a run ends unless the user is being asked, although models and
  tools may hang: the deadline goes on after every question.

Deadlock checking is off in all of them: when all batches have settled, all
edits have ended, or the bounds are reached, the system stops.

**Bounds.** `MaxTails` and `MaxEdits` bound the loops through tail calls,
editors and sandbox expansions. A wave has two members and a third call queued
behind it, so that siblings interleave, a wave ends before the queue does, and
a tail call finds something to overtake. Of three batches one runs, one is
queued and one is scheduled by then, or rejected. Three callers
of one path are a holder, a waiter that aborts and one behind it, the fewest for
which handing on a place can go wrong, and a fourth lets two creations, a
`write_file` and an edit meet; each calls once.

In `MCServices`: two prompts, one of which makes two rounds of calls and the
other one with binary content, so that a send of each can be rolled back while
turns of the other are in the history; two attempts per send, and one send that
may hand on calls and come to nothing (`Torn`). Of four models two
are a family, each with the other one to fall back to, the fewest that can switch
back and forth; one is followed unasked by its fallback, and that one is alone
in its chain. Two turns, because health marks
differ in what outlives a turn; `Patience` bounds how often a user consents.
Three streams let one begin while the one before closes and one after that.
Three invocations: two that force a decision, one trusted and one not. Three
requests for a task are one that is cancelled, one that follows and one that
finds either; two objects let one be evicted for the other; their
batches ask, queue behind one another, and are rejected. Three versions of
the server's list: known, being read, and newer. Three sessions: a dead one
and two that find its lock. Two runs of each id. A window of two messages, so
that messages leave it, and six ids, enough for a prompt, a call, its response,
an answer and a rewind. Two turns of two calls, one of which completes the
task. The theorems need none of these bounds.

**Fairness.** In the scheduler, `FairSpec` is used for `BatchesSettle` only. The event loop runs
every continuation that is ready (`WF` of `Loop` and of each call's
`Progress`; for a running tool, hook or editor this says that it returns), and
a user who is asked again and again eventually answers (`SF` of `Answer`: an
answer is enabled only while the prompt is on screen). Aborts, cancellations and
new batches are never forced. In `FileEdits`, `FairSpec` forces a caller whose
turn it is to enter, a critical section to go on (reads, writes and the
correction by the model end, with a result or an error), and an aborted waiter
to hand on its place; it forces neither calls nor aborts. In `MCServices` it is
weak fairness of what the event loop resumes and of what answers, fails or times
out: a send, a request, a loop, a consumer, a question's timeout, a request of a
task, a refresh, and of the batch that runs in the scheduler of a task, whose
tools return (`BatchProgress`; a call that asks is never forced to be answered).
Nobody has to send, cancel, attach or ask. For `LocalAgent` the
model and the tools need not even answer; they only heed their signal, and the
timers fire.

### Where the code departs from its comments and tests

1. *A finished call comes back to life* (`lateoutput`). `updateStatus` accepts
   `executing` for a call that has its result but is not finalized yet. A shell
   command that was moved to the background returns and goes on reporting
   output; if a sibling of its wave still runs, the call is `executing` again,
   no tool is left to finish it, and the loop polls every 10 ms forever. The
   promise that `schedule()` documents never resolves.
2. *A timeout that is reported as the user's abort* (`rejected`). When the
   deadline of a local agent passes while a tool runs, its scheduler cancels the
   call, and the executor takes every cancelled call without an outcome for an
   abort: no turn of grace, "Operation cancelled by user". The test of this
   case mocks a scheduler that ignores the signal. A denied call whose cascade
   cancels the calls queued behind it ends the run in the same way.
3. *Fallback without end* (`pingpong`). `setModel` forgets the health of all
   models, and a switch sets the attempts back to 0. In plan mode nobody is
   asked: two models that fail are followed back and forth for ever.
4. *Evicted by the request before* (`windingdown`). A request cancelled while
   its task is loaded evicts the task after an await; the next request may work
   on it by then.
5. *Old tools are added to new ones* (`startup`). Discovery reads the list,
   awaits the resources and registers what it read; a refresh in between is
   overtaken.
6. *Two owners of the memory lock* (`twoowners`). A session unlinks whatever
   file is at the path once it has read a stale one.

Further cases that the models hold and no run claims:

- Cancelling without aborting (`BareCancel`): `cancelAll()` finalizes the calls
  but does not wake a confirmation loop; the A2A task's `cancelPendingTools`
  calls it without an abort. The batch waits for an answer to a prompt that is
  gone. `BatchesSettle` is checked without it.
- A denial cancels queued calls only; the other calls of its wave execute.
- A session that is resumed makes up a response for a call that has none in the
  log, appends it as the last message, and then writes the `$patch` that puts it
  behind its call. If the process ends between the two and the call is not the
  last message of the model, the next session does not find the response where
  it looks for it and makes it up again, under the same id: the chat has the
  response twice, the log once (`Misplaces = TRUE` violates `RecordingFaithful`;
  six ids are enough: a prompt, a call whose tool completes, a compression that
  dies before its `$patch`, a resumed session that dies before its own, and
  another one). `sessionUtils.ts:113` says that calls covered by a later turn
  are not synthesized again; what is cleared at every turn of the model
  (`seenFunctionResponseIds`) lets them through.
- Locks are per path: two edits of a hard-linked file through its two names can
  both read the original, and one change is lost (`HardLinked`).
- Of three messages sent to one chat, the second and third may both wait for
  the first and then stream at once (`ManyWaiters = TRUE` violates `OneSender`).
- When a loop was detected the terminal UI offers to send the message again,
  under the same prompt id (`useGeminiStream.ts`). The chat then still knows
  the length that the history had at the first try. If responses to the calls
  of an older, aborted prompt were recorded since, an abort of the second try
  takes them back too (`Resends = TRUE` violates `FailureIsOwn`); the next
  message closes the calls again.
- A message sent while the loop of the stream before closes its response may be
  joined by a second loop (`PromptSend = TRUE` violates `OneActiveStream`).
- `Turn.run` hands on the calls of each chunk before the stream has its outcome
  (`turn.ts:381`). When the attempt then fails, is blocked by an AfterModel hook
  or is tried again, the history holds no turn with them. The clients differ in
  what they do: the terminal UI runs the calls it has collected after
  `Error`, `InvalidStream`, `Blocked`, `Stopped` and `LoopDetected`, unless the
  prompt was aborted (`useGeminiStream.ts:1771`); ACP throws on `Error` and runs
  them after the others; the headless CLI drops them on an invalid stream, throws
  on `Error` and runs them after `Blocked`; the legacy agent session fails on both;
  the SDK always runs them; and all keep calls over a retry. Their responses are
  then sent, or recorded, with no call before them: turns of the kind `stray`,
  which `PairedRequests` excepts. It does claim that they spoil nothing else:
  all other calls and responses pair around them.
- A model that is alone in its chain (any that belongs to no family) is its own
  fallback (`handler.ts:57`). With `ui.errorVerbosity` low, the default, a
  transient or unknown failure is answered `retry_once` without asking
  (`useQuotaAndFallback.ts:220`), and `retry.ts:406` starts the attempts again:
  the request goes on until the model answers or the user aborts. `RequestsEnd`
  excepts requests that come to such a retry (`RetriesAlone`); the instance has
  such a model, both configured and as the fallback of another one.
- `releaseLock` reports no failure (`memoryService.ts:497`). A session that
  could not unlink a stale file finds it again, has no retry left, and is
  refused although nobody owns the lock. And a lock is alive as long as any
  process has its pid (`memoryService.ts:472`): a session that ended without
  removing the file, or a later process with the pid of a dead one, refuses
  others until the file is 35 minutes old. `RefusedByOwner` names these cases.
- In an A2A task, a batch that is scheduled while another one runs is queued. If
  its request is aborted by then or later, or `cancelAll` empties the queue, it
  is rejected (`scheduler.ts:272`) and nobody is told: the calls that
  `scheduleToolCalls` has registered (`task.ts:848`) stay pending, and unless
  `cancelPendingTools` clears them each `waitForPendingTools` on that task waits
  for ever. (The rejected promise is not handled either, which ends the
  standalone server, `http/server.ts:25`; the model is of a host that goes on.)
  A call whose prompt is open when `cancelPendingTools` runs can no longer be
  answered, because its correlation id is forgotten; it holds the scheduler, and
  the batches behind it. And a loop also waits for the calls of other requests
  (`task.ts:218`): an open prompt of one of them holds it as long as calls of its
  own are pending too. `RequestsSettle` excepts loops of an object that is held
  in one of these ways (`Held`).
- The first answer to one of several questions resumes a local agent's deadline
  while the others are still open, and the output of a completed task is dropped
  when another call of the same turn was cancelled.

## 4. Proofs

`SchedulerProofs` proves, for all sets of calls, batches and signals, all
requests and both values of every option:

| theorem | property |
|---|---|
| `TypeCorrect` | `TypeOK` |
| `CallsConserved` | `Conservation` |
| `ResultsComplete` | `CompleteResults` |
| `NoneAbandoned` | `NothingAbandoned` |
| `SequentialIsolated` | `Isolation` |
| `ConsentInformed` | `InformedConsent` |
| `CancelledStaysStopped` | `CancelledNeverStarts`, when `BareCancel` is false |

from the assumptions `DistinctCallIds`, `SequentialTools` and `ConstantTypes`.

None of these is inductive. `Conservation` speaks of places only; that a place
is left with the right status follows from where the loop and the coroutines
are. `IInv` adds: which awaits can be pending together (`Shape`), what is left
between batches (`Placement`), that a coroutine works for a live call or for one
that `cancelAll` finalized under it (`Coroutines`), which statuses a wave has
reached when its coroutines are done (`Waves`), that a wave of several calls is
parallelizable throughout (`Siblings`), how often a call in each place was
reported (`Tally`), consent from the moment it is given (`Consent`), and that a
cancellation under way has aborted the signal (`Cancelling`).

`SchedulerOrderProofs` proves, from the same assumptions and on top of `IInv`:

| theorem | property | if |
|---|---|---|
| `CallsInOrder` | `InOrder` | |
| `DenialCascades` | `DenialStopsQueue` | |
| `BatchesOutlastCalls` | `NoneRunsOn` | |
| `ContractKept` | `ImplementsContract` | `Backgroundable = {}` |
| `OutcomesFinal` | `SettledForGood`: outcomes and settled promises do not change | `Backgroundable = {}` |

`OrderInv` is what they need: calls stand in the queue in the order of their
batch, tail calls in the place of the call that chained them, and leave it in
that order (`Line`); after a denial that cascades, only tail calls are queued
(`Denial`); and only a promise that has resolved carries results (`Promises`).
`InOrder` compares a start with what precedes it and is a property of steps. The
refinement has one lemma per kind of step: each of the loop and of a coroutine
gives outcomes, each of the clients schedules or aborts, and a batch that
finishes resolves or rejects. A call that was moved to the background has no
outcome when its promise resolves, which is more than the contract allows: hence
the hypothesis, under which the run checks it too.

The proof of `IInv` has one lemma per conjunct group and per kind of step. Most
steps of a call's coroutine change only its own `pc` and status; `LocalSteps`
reduces them to one formula, so that they are proved once. `CoreMoves` does the same
for the four steps that move calls to the completed batch. The lemmas at the
top are about the queue as a sequence without repetition: what a prefix, the
tail, and a new head do to its elements.

`FileEditsProofs` proves, for all sets of callers, paths and files, from
`LockConstants` and `FileConstants`:

| theorem | property |
|---|---|
| `EditsInvariant` | `IInv` of `FileEditsInvariant` |
| `LockExclusive` | `Exclusion` |
| `MapClean` | `NoLeak` |
| `NoEditLost`, `CreatedAtMostOnce`, `AllEditsKept` | `NoLostEdit`, `CreatedOnce`, and both: `EditsKept` |
| `AbortedInert` | `AbortedChangeNothing` |
| `LockIsFairMutex` | `ImplementsFairMutex` |
| `LockInOrder` | `FirstComeFirstServed`: whoever gets a lock arrived before all others in line |

Exclusion is not visible in the chain itself: a caller only knows whose promise
it waits for. `LockInv` relates the chain to the order of arrival: a caller
whose predecessor is still in line waits for the one that arrived just before
it (`Predecessor`), a caller whose turn it is arrived first (`FirstServed`), and
the map names the last in line (`LastInMap`). Whoever leaves, by its end or
after an abort, had its turn, so it was the first and only the next one gains
the turn (`DepartStep`). Two callers with a turn are then the same (`OneTurn`),
which gives exclusion; exclusion keeps what a call has read up to date
(`FreshBase`), which gives the rest. For the refinement, the line of `FairMutex`
is the order of arrival among the callers that are not aborted.

Of the services, for any number of sends, models, streams, consumers,
invocations, requests, changes, sessions, executions, watchers and calls:

| theorem | property | if | what the invariant adds |
|---|---|---|---|
| `SendsAreSerial` | `OneSender` | `~ManyWaiters` | the send under way is the one whose promise is noted (`PromiseIsLast`), and the one that waits, waits for that promise (`OneWaiter`) |
| `ChatTypes`, `RequestsPaired` | `PairedRequests` | `~ManyWaiters` | `ChatInv`, see below |
| `FailureTakesItsOwn` | `FailureIsOwn` | `~ManyWaiters`, `~Resends` | `NoteInv`, see below |
| `FallbackTypes`, `SparedStaysSpared` | `SparedForTheTurn` | | a spared model is unavailable and no timer changes that (`SparedConsumed`), a model fails for good only if its chain has no other (`OnlyLonersFail`), and a request calls the active model or has just switched to it (`RequestModel`) |
| `OneStreamAtATime` | `OneActiveStream` | `~PromptSend` | a loop that works keeps its stream active, one that closes does not (`LoopKeepsActive`) |
| `EventsOnce` | `EachEventOnce` | `~PromptSend` | `LogInv` and `ReaderInv`, see below |
| `BusTypes`, `OnlyAllowedRun` | `AllowedItself` | | inductive with the types; `AnswerIsOwn` says whom an answer changes |
| `LockTypes`, `OnlyOwnersRefuse` | `RefusedByOwner` | | the file at the path is of a session that wrote or was to write it (`FileHeld`); whoever tries has noted every owner, and after its first attempt it has noted the maker of the file at the path or failed to unlink (`StaleNoted`) |
| `ExecutionTypes`, `OneResult`, `ExitsHeard`, `InjectionFollows` | `OneResultEach`, `NoExitMissed`, `InjectedAfterResult` | | an active execution awaits its result or is in the background (`Attached`); only what is over was injected (`InjectedAtEnd`) |
| `A2aTypes`, `OneMainLoop` | `OnePrimary` | | a main loop that is not aborted is registered (`Registered`) |
| `LoopsKeepTask` | `NotEvicted` | `~CancelsLoading` | who works, waits or enters has the object in the cache; who evicts was cancelled when it left (`CacheInv`) |
| `McpTypes`, `LastListTold` | `ToldOfLast` | `~ChangesEarly` | a change that is not yet listed, registered or told is due: a notification, a pending flag or a running step will deal with it (`ListDue`, `ToolsDue`, `ContextDue`) |
| `RecordingTypes`, `RecordingIsFaithful` | `RecordingFaithful` | `~Misplaces` | `SessionOK`, see below |
| `AgentTypes` | `AgentTypeOK` | | inductive: a run has a reason when and only when it has ended, and counts no turn above its limit |

**The history of a conversation.** That calls and responses pair is not
inductive: it fails in between, while calls wait for their tools and while a
failed send still has its turns in the history. `ChatInv` says of every history
that calls other than the last turn are answered (`WellFormed`), and who may
change it: of the prompts that send, wait, or wait for their tools all but one
are aborted (`OneBusy`, `OthersAborted`), the calls of the one that is not are
the last turn or stray (`CallIsLast`), and so is what a send under way added
(`OwnIsLast`). For `FailureIsOwn` `NoteInv` adds that the two lengths which a
send notes, of the history at the start of the prompt and at its own, divide
the history into what is older, of the prompt, and its own (`Noted`), that a
start that is still noted is where the turns of its prompt begin
(`PromptUnderWay`), unless that prompt is over, aborted or with a message that
has failed (`PromptOver`), and that the prompt noted is that of the last send
(`LastNoted`).
A prompt may have several messages (`client.ts` adds
"Please continue."), but none may follow a failed one (`~Resends`). The run has
one per prompt: with a second one the instance is too large.

**The events of a session.** What a consumer was given is defined by counting
events in the log (`EventsOf`), what it does by following. `Reads` relates the
two: after any prefix of the log a consumer either waits for the start of its
stream, or is within it, or is past its end, and in each case what it was given
together with what it has queued is what `EventsOf` counts in that prefix. A new
event moves every consumer one place on (`LogInv` says that no stream starts
twice or goes on after its end), and attaching in mid-stream is the same
argument, from the start of the log to its present end.

**The log of a session.** `RecordingFaithful` compares what several operators
make of sequences of ids: the replay of the records, the index, the window, the
turns of the chat. A sequence without repetition is its set of elements and the
order in which they stand (`Precedes`), and two that agree in both are equal
(`OrderUnique`). Each operator of the model gets one lemma that says what set
and what order it yields (`OnlyOrder`, `UntilOrder`, `DistinctOrder`,
`ConcatOrder`, `EndingOrder`), and everything above argues with those. The
recursive functions beneath (`Selected`, `Written`, `AllRecorded`) are unfolded
place by place; the induction theorems of the library cannot be used for that,
but a set of numbers has a least one (`LeastOne`), hence what holds of 0 and
passes on from each number holds up to any (`UpTo`). Of a log, `Sound` says
that its messages have the ids given so far and the contents of their types,
that no two messages hold results of the same tool call, and that a response that
was made up stands behind the call it answers, with notices between the two at
most. `Knows` says what the memory of the service knows of the log, and
`Safe` that each record a step appends leaves a sound log, except where no step
stops: this is what makes a crash at any record harmless. `pushMessage`,
`rewindTo`, `updateMessagesFromHistory` and `rebuildIndexAndWindow` preserve the
three together (`Stands`), whatever memory and log they start from, so steps
that call several of them, such as sending after a call that was left open, or
masking, which records every turn before it removes the old ones, compose their
lemmas. `Follows` is what a history must satisfy to be followed: the index knows
those of its turns that are in the log, a turn that calls is unchanged, and a
response that was made up answers a call whose result is in the log. `SessionOK`
says all of this of a session that is live, being reopened, restarted or down;
its proof has one lemma per action. The prover, not
TLC, found what `~Misplaces` excludes (section 3): `Sound` is not preserved by a
made-up response that is not yet in its place. `MaxIds` and `Window` are any
numbers; in the run they are 6 and 2.

**The instance that TLC checks.** `MCServicesProofs` proves of `MCServices` that
a step of one component leaves the others alone (`StepsApart`), so that a
behaviour of the ten together is a behaviour of each one's own specification
(`ComponentsRun`). Each theorem above therefore holds of what the run checks,
and `TypesOK` follows from the types of the components (`ServicesTypes`, if
`~ManyWaiters` and `~Misplaces`).

The hypotheses in the third column switch off the cases in which the code does
not keep a property: section 2 names the switches, section 3 says what happens
in them.

`InOrder` and `SparedForTheTurn` are properties of steps, because what they
promise is decided in the step that starts the call or chooses the model; the
state after it may change again, by a denial or by a health mark that expires.

**Only model-checked.** Liveness (`BatchesSettle`, `AllServed`, `SendsEnd`,
`RequestsEnd`, `ConsumersEnd`, `AsksEnd`, `RequestsSettle`, `RefreshEnds`,
`AgentEnds`), which TLAPS cannot treat under fairness. Every safety property
that a passing run checks is proved, some of them under the hypotheses named
above. `IInv` of both invariants, `OrderInv` and `Exclusion` are proved and in
no configuration; `SettledForGood` and `FirstComeFirstServed` are consequences of
what is checked, stated for those who call `schedule()` and `withPathLock`.

## 5. Plan

1. `TurnLoop`: `GeminiClient` with hook state per prompt and bounded recursion,
   composed with `GeminiChat`.
2. `ContextPipeline`, `HookRunner`, the remote agents' streams.
3. Loop detection as a pure algorithm against a reference definition.

## 6. Not modelled

The content of prompts, arguments, results and events; telemetry and rendering;
external programs (model, IDE, MCP servers, sandboxes, git) beyond the outcomes
they can produce. Most of the repository is of this kind: the terminal UI,
settings, prompts, tools that do one thing, tests. The models cover the parts
that keep state across awaits; they cannot cover a large share of its lines.

- Scheduler: the race between the IDE's answer and the bus, whose winner is the
  answer of the model's user; MCP progress messages, which change no status;
  correlation ids.
- File tools: the diff that is shown for confirmation, computed before the lock
  is taken; other programs that write the same files; a process that dies during
  a write; `withPathLock` as used by the git snapshot service, whose key is no
  file.
- `GeminiChat`: compression, which makes a new chat; the context-management
  flag, the IDE context and the replacement of an empty trailing user turn; an
  abort between the client's check and its call. A hook that stops the agent
  abandons the generator at its yield and is part of `Fail`. An append to the log
  that fails for another reason than a full disk throws from `recordMessage`
  before the generator exists (`geminiChat.ts:563`), and the send promise, made
  before that, would never resolve; `SendsEnd` holds of a log that can be written
  or a disk that is full.
- `ModelFallback`: the router's classifiers and the overrides of utility calls.
- `AgentStream`: the translation of events; a response stream that throws when
  it is closed.
- `ConfirmationBus`: `MessageBus.request`, which nothing outside the tests calls.
- `A2aTasks`: artifacts, and what is written to the store.
- `McpRefresh`: connection, resources, prompts, OAuth; several servers.
- `ChatRecording`: a last record that lacks only its newline; two processes that
  resume one session; summaries, metadata, the migration of old files, deletion,
  the file that a subagent finds and reuses, positional ids of calls without an
  id; errors of an append other than a full disk, which the code throws. Its log is faithful to the code in what may look odd: masking by the
  client gives every turn a new id, so the records of its tools are removed, and
  a crash between the appended turns and the patch leaves both copies.
- `LocalAgent`: messages injected between turns, compression, definitions, the
  protocol of sessions. The order of the queue is any order.
- Not modelled at all: the turn loop, hooks, the policy engine and the safety
  checkers, whose decisions are free choices where they are asked; shell
  execution, loop detection, the context pipeline, remote agents, the browser
  agent.
