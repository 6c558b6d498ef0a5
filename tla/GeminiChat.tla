----------------------------- MODULE GeminiChat -----------------------------
(***************************************************************************)
(* One conversation (core/geminiChat.ts): the history of turns, the sends  *)
(* that add to it, and what a failed or aborted send takes back. A prompt  *)
(* is a chain of sends: the user's message, one send for each round of     *)
(* tool responses, and what the client itself has to say ("Please          *)
(* continue."). A prompt that arrives while another one is at work aborts  *)
(* it first (acp/acpSession.ts), and does not wait for its end.            *)
(***************************************************************************)
EXTENDS Integers, Sequences

CONSTANTS
    Sends, Prompts,
    PromptOf,     \* [Sends -> Prompts]
    Answers,      \* sends that carry the responses to the calls of a send
    AnswerTo,     \* [Answers -> Sends]
    Binary,       \* answers with binary content, sent as three turns
    Torn,         \* sends that may come to nothing after they have yielded calls
    MaxAttempts,  \* of one send: the smaller of maxAttempts and 4
    ManyWaiters,  \* may a second send wait for the same stream?
    Resends,      \* may a message follow one of its prompt that failed?
    NoSend, NoPrompt

ASSUME ChatConstants ==
    /\ PromptOf \in [Sends -> Prompts]
    /\ Answers \subseteq Sends /\ Binary \subseteq Answers /\ Torn \subseteq Sends
    /\ AnswerTo \in [Answers -> Sends]
    /\ \A a \in Answers : PromptOf[AnswerTo[a]] = PromptOf[a]
    /\ MaxAttempts \in Nat \ {0} /\ ManyWaiters \in BOOLEAN /\ Resends \in BOOLEAN
    /\ NoSend \notin Sends /\ NoPrompt \notin Prompts

VARIABLES
    turns,        \* agentHistory: what each turn holds, and the send it is of
    sendPromise,  \* the send whose end the next one waits for
    promptStart,  \* promptOriginalHistoryLength, or Undefined
    lastPromptId,
    sendPc, awaited, before, attempt, result,
    stray,        \* sends whose consumer has calls that no turn of theirs holds
    cancelled     \* prompts whose signal is aborted

chatVars == <<turns, sendPromise, promptStart, lastPromptId, sendPc, awaited,
              before, attempt, result, stray, cancelled>>

Undefined == -1
Turn(kind, s) == [kind |-> kind, of |-> s]
Responses == {"response", "stray", "interrupted"}
ModelTurns == {"text", "call", "empty", "placeholder", "ack"}
TurnKinds == Responses \cup ModelTurns \cup {"prompt", "binary"}

Streaming == {"connecting", "streaming", "backoff"}
Sending(s) == sendPc[s] \in Streaming
Aborted(s) == PromptOf[s] \in cancelled

\* wrong: the stream before is not waited for
ResolvedAtOnce(p) == TRUE

\* wrong: a stream that failed leaves the promise unresolved
ResolvedByResult(p) == p # NoSend => sendPc[p] = "done" /\ result[p] # "failed"

\* The promise of a send resolves in the finally block of its generator.
Resolved(p) == p # NoSend => sendPc[p] = "done"

ChatInit ==
    /\ turns = << >> /\ sendPromise = NoSend
    /\ promptStart = Undefined /\ lastPromptId = NoPrompt
    /\ sendPc = [s \in Sends |-> "new"]
    /\ awaited = [s \in Sends |-> NoSend]
    /\ before = [s \in Sends |-> 0]
    /\ attempt = [s \in Sends |-> 0]
    /\ result = [s \in Sends |-> "none"]
    /\ stray = {} /\ cancelled = {}

-----------------------------------------------------------------------------
\* closeUnansweredToolCallsTurn
AnswerCalls(h, s) ==
    IF h # << >> /\ h[Len(h)].kind = "call" THEN Append(h, Turn("interrupted", s)) ELSE h

Ends(h, n, kinds) == Len(h) >= n /\ h[Len(h) - n + 1].kind \in kinds

\* wrong: responses without an answer stay the end of the history
KeepResponses(h, s) == h

\* closeUnansweredToolResponseTurn: an empty model turn after the responses is
\* filled, otherwise a model turn is added.
CloseResponses(h, s) ==
    IF Ends(h, 1, {"empty"}) /\ Ends(h, 2, Responses)
      THEN [h EXCEPT ![Len(h)].kind = "placeholder"]
    ELSE IF Ends(h, 1, Responses) THEN Append(h, Turn("placeholder", s))
    ELSE h

\* The turn with the responses of a: some are to calls that are in no turn if
\* the calls were those of an attempt that came to nothing.
ResponseTurn(a) == Turn(IF AnswerTo[a] \in stray THEN "stray" ELSE "response", a)

Own(s) ==
    IF s \in Binary THEN <<ResponseTurn(s), Turn("ack", s), Turn("binary", s)>>
    ELSE IF s \in Answers THEN <<ResponseTurn(s)>>
    ELSE <<Turn("prompt", s)>>

WithTurnsOf(h, s) ==
    (IF s \in Answers THEN h ELSE CloseResponses(AnswerCalls(h, s), s)) \o Own(s)

\* wrong: the start of another prompt is kept
StartKept(s) == promptStart

\* Where the prompt of a send began; a new prompt forgets the one before.
StartKnown(s) == IF lastPromptId = PromptOf[s] THEN promptStart ELSE Undefined

\* sendMessageStream from the awaited promise to the generator it returns
SetUp(s) ==
    /\ promptStart' = IF StartKnown(s) = Undefined THEN Len(turns) ELSE StartKnown(s)
    /\ lastPromptId' = PromptOf[s]
    /\ before' = [before EXCEPT ![s] = Len(turns)]
    /\ turns' = WithTurnsOf(turns, s)
    /\ sendPromise' = s
    /\ sendPc' = [sendPc EXCEPT ![s] = "connecting"]
    /\ stray' = stray \ {AnswerTo[a] : a \in Answers \cap {s}}
    /\ UNCHANGED <<attempt, result, cancelled>>

\* The calls of send t wait for their tools, those of a failed attempt too.
Pending(t) ==
    /\ sendPc[t] = "done" /\ (result[t] = "call" \/ t \in stray)
    /\ \A a \in Answers : AnswerTo[a] = t => sendPc[a] = "new"

\* A new prompt has aborted those before it; responses follow their calls. An
\* aborted prompt sends nothing more; another may send a further message, even
\* after one of its own that failed (if Resends).
MayCall(s) ==
    /\ sendPc[s] = "new" /\ ~Aborted(s)
    /\ IF s \in Answers THEN Pending(AnswerTo[s])
       ELSE /\ \A t \in Sends : Sending(t) \/ sendPc[t] = "waiting" \/ Pending(t) => Aborted(t)
            /\ Resends \/ ~\E t \in Sends \ Answers : PromptOf[t] = PromptOf[s] /\ result[t] = "failed"
    /\ \A t \in Sends : sendPc[t] = "waiting" => ~Resolved(awaited[t])
    /\ ManyWaiters \/ \A t \in Sends : sendPc[t] # "waiting"

\* A promise that is resolved is not waited for.
CallAtOnce(s) ==
    /\ MayCall(s) /\ Resolved(sendPromise)
    /\ SetUp(s) /\ UNCHANGED awaited

CallAndWait(s) ==
    /\ MayCall(s) /\ ~Resolved(sendPromise)
    /\ sendPc' = [sendPc EXCEPT ![s] = "waiting"]
    /\ awaited' = [awaited EXCEPT ![s] = sendPromise]
    /\ UNCHANGED <<turns, sendPromise, promptStart, lastPromptId, before, attempt, result, stray, cancelled>>

Resume(s) ==
    /\ sendPc[s] = "waiting" /\ Resolved(awaited[s])
    /\ SetUp(s) /\ UNCHANGED awaited

-----------------------------------------------------------------------------
\* The API call: an aborted one is never made.
Connect(s) ==
    /\ sendPc[s] = "connecting" /\ ~Aborted(s)
    /\ sendPc' = [sendPc EXCEPT ![s] = "streaming"]
    /\ UNCHANGED <<turns, sendPromise, promptStart, lastPromptId, awaited, before,
                   attempt, result, stray, cancelled>>

End(s, r) ==
    /\ sendPc' = [sendPc EXCEPT ![s] = "done"]
    /\ result' = [result EXCEPT ![s] = r]
    /\ attempt' = [attempt EXCEPT ![s] = 0] /\ before' = [before EXCEPT ![s] = 0]
    /\ UNCHANGED <<sendPromise, awaited, cancelled>>

\* Turn.run hands calls on chunk by chunk, before the stream has its outcome.
MayStray(s) == \/ UNCHANGED stray
               \/ s \in Torn /\ stray' = stray \cup {s}

\* A hook blocks the request (its reply may have calls) or a chunk of the
\* stream, after others: the send succeeds with no model turn.
Blocked(s) ==
    /\ sendPc[s] \in {"connecting", "streaming"} /\ End(s, "blocked")
    /\ MayStray(s)
    /\ UNCHANGED <<turns, promptStart, lastPromptId>>

\* processStreamResponse to its end: only the answer to tool responses may be
\* empty. An abort after the last chunk comes too late.
Finish(s) ==
    /\ sendPc[s] = "streaming"
    /\ \E kind \in {"text", "call", "empty"} :
         /\ kind = "call" => \E a \in Answers : AnswerTo[a] = s  \* bound of the instance
         /\ kind = "empty" => s \in Answers
         /\ turns' = Append(turns, Turn(kind, s))
         /\ End(s, kind)
    /\ UNCHANGED <<promptStart, lastPromptId, stray>>

\* wrong: off by one
OneMore(s) == attempt[s] < MaxAttempts

MayTryAgain(s) == attempt[s] + 1 < MaxAttempts

\* An invalid stream (aborted or not) or a lost connection is tried again,
\* after a pause that an abort does not cut short.
Backoff(s) ==
    /\ sendPc[s] = "streaming" /\ MayTryAgain(s)
    /\ sendPc' = [sendPc EXCEPT ![s] = "backoff"]
    /\ attempt' = [attempt EXCEPT ![s] = @ + 1]
    /\ MayStray(s)
    /\ UNCHANGED <<turns, sendPromise, promptStart, lastPromptId, awaited, before, result, cancelled>>

Retry(s) ==
    /\ sendPc[s] = "backoff" /\ ~Aborted(s)
    /\ sendPc' = [sendPc EXCEPT ![s] = "connecting"]
    /\ UNCHANGED <<turns, sendPromise, promptStart, lastPromptId, awaited, before,
                   attempt, result, stray, cancelled>>

Rollback(h, n) == IF n <= Len(h) THEN SubSeq(h, 1, n) ELSE h

\* The finally block of a send that did not succeed
Undo(s, aborted) ==
    IF aborted /\ promptStart # Undefined
    THEN /\ turns' = Rollback(turns, promptStart)
         /\ promptStart' = Undefined /\ lastPromptId' = NoPrompt
    ELSE /\ turns' = IF s \in Answers THEN turns ELSE Rollback(turns, before[s])
         /\ UNCHANGED <<promptStart, lastPromptId>>

\* An exhausted or fatal error, an abort, a hook's stop, a detected loop: the
\* generator throws, or its consumer leaves it at a yield. Only an abort is sure
\* to make the consumer drop the calls that it has.
Fail(s) ==
    /\ Sending(s) /\ (sendPc[s] = "backoff" => Aborted(s))
    /\ \E abortError \in BOOLEAN : Undo(s, Aborted(s) \/ abortError)
    /\ \/ stray' = stray \ {s}
       \/ ~Aborted(s) /\ sendPc[s] = "streaming" /\ MayStray(s)
       \/ ~Aborted(s) /\ UNCHANGED stray
    /\ End(s, "failed")

Go(s) == Connect(s) \/ Blocked(s) \/ Finish(s) \/ Backoff(s) \/ Retry(s) \/ Fail(s)

-----------------------------------------------------------------------------
Cancel(p) ==
    /\ p \notin cancelled /\ cancelled' = cancelled \cup {p}
    /\ UNCHANGED <<turns, sendPromise, promptStart, lastPromptId, sendPc, awaited,
                   before, attempt, result, stray>>

\* discardTrailingUnansweredToolCallTurn
Discard(h) == IF Ends(h, 1, {"call"}) THEN Rollback(h, Len(h) - 1) ELSE h

\* handleCompletedTools: responses of cancelled calls are recorded, not sent, or
\* the turn of declined calls is discarded. No query is accepted meanwhile, and
\* one was not while other calls were still to be settled.
Settle(a) ==
    /\ sendPc[a] = "new" /\ Pending(AnswerTo[a])
    /\ \A t \in Sends : ~Sending(t) /\ sendPc[t] # "waiting"
    /\ \A t \in Sends \ {AnswerTo[a]} : Pending(t) => Aborted(t)
    /\ \/ AnswerTo[a] \in stray /\ sendPromise = AnswerTo[a]
       \/ Ends(turns, 1, {"call"}) /\ turns[Len(turns)].of = AnswerTo[a]
    /\ \/ turns' = Append(turns, ResponseTurn(a))               \* addHistory
       \/ turns' = Discard(turns)
    /\ sendPc' = [sendPc EXCEPT ![a] = "settled"]
    /\ UNCHANGED <<sendPromise, promptStart, lastPromptId, awaited, before, attempt, result, stray, cancelled>>

ChatNext ==
    \/ \E s \in Sends : CallAtOnce(s) \/ CallAndWait(s) \/ Resume(s) \/ Go(s)
    \/ \E a \in Answers : Settle(a)
    \/ \E p \in Prompts : Cancel(p)

ChatSpec == ChatInit /\ [][ChatNext]_chatVars

-----------------------------------------------------------------------------
\* Every variable keeps its type.
ChatTypeOK ==
    /\ turns \in Seq([kind : TurnKinds, of : Sends])
    /\ sendPromise \in Sends \cup {NoSend}
    /\ promptStart \in Nat \cup {Undefined} /\ lastPromptId \in Prompts \cup {NoPrompt}
    /\ sendPc \in [Sends -> Streaming \cup {"new", "waiting", "done", "settled"}]
    /\ awaited \in [Sends -> Sends \cup {NoSend}]
    /\ before \in [Sends -> Nat] /\ attempt \in [Sends -> 0 .. MaxAttempts - 1]
    /\ result \in [Sends -> {"none", "failed", "blocked", "text", "call", "empty"}]
    /\ stray \subseteq Sends /\ cancelled \subseteq Prompts

\* geminiChat.ts: a send waits for the previous message to be processed. Two
\* are never under way, so none rolls back what the other one noted.
OneSender == \A s, t \in Sends : Sending(s) /\ Sending(t) => s = t

\* Every call in the history is followed by its responses, once, and the
\* responses by a model turn unless they are what is being sent. What breaks
\* the pairs is the responses to stray calls, and nothing else.
Paired(h) ==
    \A i \in 1 .. Len(h) :
      /\ h[i].kind = "call" => Len(h) > i /\ h[i + 1].kind \in Responses
      /\ h[i].kind \in Responses \ {"stray"} => i > 1 /\ h[i - 1].kind = "call"
      /\ h[i].kind \in Responses /\ i < Len(h) => h[i + 1].kind \in ModelTurns \cup {"stray"}

\* The API refuses a request whose calls and responses do not pair: no failed,
\* aborted, settled or interrupted send before may leave such a history to one
\* that is not itself aborted, unless the calls of an attempt that failed, was
\* blocked or was tried again were run and their responses sent.
PairedRequests == \A s \in Sends : Sending(s) /\ ~Aborted(s) => Paired(turns)

\* A send that fails takes back the last turns, of its own prompt only: all its
\* own, unless they are responses that are still owed to the model.
FailureIsOwn ==
    [][\A s \in Sends : Sending(s) /\ result'[s] = "failed" =>
         /\ \E n \in 0 .. Len(turns) :
              /\ turns' = SubSeq(turns, 1, n)
              /\ \A i \in n + 1 .. Len(turns) : PromptOf[turns[i].of] = PromptOf[s]
         /\ s \notin Answers \/ Aborted(s) => \A i \in 1 .. Len(turns') : turns'[i].of # s]_chatVars

\* Whatever ends the stream it waits for, a send comes to its turn and its end.
SendsEnd == \A s \in Sends : Sending(s) \/ sendPc[s] = "waiting" ~> sendPc[s] = "done"
=============================================================================
