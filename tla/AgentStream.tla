---------------------------- MODULE AgentStream ----------------------------
(***************************************************************************)
(* A session of the agent: streams of events, one for each message sent    *)
(* (agent/legacy-agent-session.ts), kept in a log, and consumers that      *)
(* follow a stream from now or replay it from the log, by its id or after  *)
(* an event that they know (agent/agent-session.ts).                       *)
(***************************************************************************)
EXTENDS Integers, Sequences

CONSTANTS
    NStreams,     \* bound: streams, numbered as they are sent
    Consumers,
    MaxMessages,  \* bound: messages of one stream
    PromptSend    \* is a message sent before the loop before it is closed?

ASSUME StreamConstants ==
    /\ NStreams \in Nat
    /\ MaxMessages \in Nat /\ PromptSend \in BOOLEAN

VARIABLES
    log,          \* _events
    current,      \* _translationState: the stream that events are made for
    activeStream, \* _activeStreamId
    endEmitted, startEmitted, streamAborted,   \* of the current stream
    loop,         \* of each stream: where its loop is
    reader        \* of each consumer: what stream() keeps

streamVars == <<log, current, activeStream, endEmitted, startEmitted, streamAborted, loop, reader>>

Streams == 1 .. NStreams
NoStream == 0
Event(type, s) == [type |-> type, stream |-> s]
Types == {"user", "agent_start", "message", "error", "agent_end"}
Detached == [state |-> "detached", tracked |-> NoStream, begun |-> FALSE,
             from |-> 0, queue |-> << >>, got |-> << >>]

StreamInit ==
    /\ log = << >> /\ current = NoStream /\ activeStream = NoStream
    /\ endEmitted = FALSE /\ startEmitted = FALSE /\ streamAborted = FALSE
    /\ loop = [s \in Streams |-> "new"]
    /\ reader = [c \in Consumers |-> Detached]

-----------------------------------------------------------------------------
\* wrong: what comes before the agent's start is queued too
QueuedEarly(r, event) ==
    IF r.state # "following" \/ (r.tracked # NoStream /\ event.stream # r.tracked) THEN r
    ELSE [r EXCEPT !.tracked = event.stream, !.begun = TRUE, !.queue = Append(@, event),
                   !.state = IF event.type = "agent_end" THEN "ending" ELSE @]

\* queueVisibleEvent: from agent_start to agent_end of one stream
Queued(r, event) ==
    IF r.state # "following" \/ (r.tracked # NoStream /\ event.stream # r.tracked)
       \/ (~r.begun /\ event.type # "agent_start")
    THEN r
    ELSE [r EXCEPT !.tracked = event.stream, !.begun = TRUE, !.queue = Append(@, event),
                   !.state = IF event.type = "agent_end" THEN "ending" ELSE @]

QueuedAll(r, events) ==
    LET after[n \in 0 .. Len(events)] == IF n = 0 THEN r ELSE Queued(after[n - 1], events[n])
    IN  after[Len(events)]

\* _emit: to the log, and at once to every consumer
Emit(events) ==
    /\ log' = log \o events
    /\ reader' = [c \in Consumers |-> QueuedAll(reader[c], events)]

Emits(types) == Emit([i \in 1 .. Len(types) |-> Event(types[i], current)])

\* wrong: a second stream is started
SendAlways == TRUE

MaySend == activeStream = NoStream

\* send: refused while a stream is active. The loop starts in a later task.
Send(s) ==
    /\ loop[s] = "new" /\ \A t \in Streams : t < s => loop[t] # "new"
    /\ PromptSend \/ \A t \in Streams : loop[t] # "closing"
    /\ MaySend
    /\ activeStream' = s /\ current' = s
    /\ endEmitted' = FALSE /\ startEmitted' = FALSE /\ streamAborted' = FALSE
    /\ loop' = [loop EXCEPT ![s] = "scheduled"]
    /\ Emit(<<Event("user", s)>>)

\* _ensureAgentStart
Start(s) ==
    /\ loop[s] = "scheduled" /\ loop' = [loop EXCEPT ![s] = "running"]
    /\ Emits(IF startEmitted THEN << >> ELSE <<"agent_start">>) /\ startEmitted' = TRUE
    /\ UNCHANGED <<current, activeStream, endEmitted, streamAborted>>

Message(s) ==
    /\ loop[s] = "running" /\ ~streamAborted
    /\ Len(SelectSeq(log, LAMBDA e : e.type = "message" /\ e.stream = s)) < MaxMessages
    /\ Emits(<<"message">>)
    /\ UNCHANGED <<current, activeStream, endEmitted, startEmitted, streamAborted, loop>>

\* wrong: the loop ends and does not say so
NeverNeedsEnd == FALSE

\* _ensureAgentEnd
NeedsEnd == ~endEmitted /\ startEmitted
LastEvents == IF NeedsEnd THEN <<"agent_end">> ELSE << >>

\* _finishStream: outside the response stream, or at one of its events, which
\* closes the response before the loop ends.
FinishStream(s) ==
    /\ loop[s] = "running"
    /\ Emits(LastEvents) /\ endEmitted' = (endEmitted \/ NeedsEnd)
    /\ activeStream' = NoStream
    /\ \E pc \in {"closing", "done"} : loop' = [loop EXCEPT ![s] = pc]
    /\ UNCHANGED <<current, startEmitted, streamAborted>>

\* The loop throws: an abort, or an error that is reported; _clearActiveStream.
RunThrows(s) ==
    /\ loop[s] = "running"
    /\ Emits((IF streamAborted THEN << >> ELSE <<"error">>) \o LastEvents)
    /\ endEmitted' = (endEmitted \/ NeedsEnd)
    /\ activeStream' = NoStream /\ loop' = [loop EXCEPT ![s] = "done"]
    /\ UNCHANGED <<current, startEmitted, streamAborted>>

\* The finally block of a loop that waited for its response to close
CloseLoop(s) ==
    /\ loop[s] = "closing" /\ loop' = [loop EXCEPT ![s] = "done"]
    /\ activeStream' = NoStream
    /\ UNCHANGED <<log, current, endEmitted, startEmitted, streamAborted, reader>>

AbortStream ==
    /\ ~streamAborted /\ current # NoStream /\ streamAborted' = TRUE
    /\ UNCHANGED <<log, current, activeStream, endEmitted, startEmitted, loop, reader>>

-----------------------------------------------------------------------------
StartsOf(s) == {i \in 1 .. Len(log) : log[i].type = "agent_start" /\ log[i].stream = s}
FirstStart(s) == IF StartsOf(s) = {} THEN 0 ELSE CHOOSE i \in StartsOf(s) : \A j \in StartsOf(s) : i <= j
HasEnded(s) == \E i \in 1 .. Len(log) : log[i].type = "agent_end" /\ log[i].stream = s

Attached(state, tracked, begun, from) ==
    [state |-> state, tracked |-> tracked, begun |-> begun, from |-> from,
     queue |-> << >>, got |-> << >>]

Replay(tracked, begun, from) ==
    IF from = 0 THEN Attached("following", tracked, begun, 0)
    ELSE QueuedAll(Attached("following", tracked, begun, from), SubSeq(log, from, Len(log)))

Follow(c, r) ==
    /\ reader[c].state = "detached"
    /\ reader' = [reader EXCEPT ![c] = r]
    /\ UNCHANGED <<log, current, activeStream, endEmitted, startEmitted, streamAborted, loop>>

\* stream({ streamId })
FollowStream(c, s) == loop[s] # "new" /\ Follow(c, Replay(s, FALSE, FirstStart(s)))

\* stream({}): the last stream that has not ended, or the next one
FollowActive(c) ==
    LET open == {s \in Streams : StartsOf(s) # {} /\ ~HasEnded(s)}
    IN  Follow(c, IF open = {} THEN Replay(NoStream, FALSE, 0)
                  ELSE LET s == CHOOSE s \in open : \A t \in open : FirstStart(t) <= FirstStart(s)
                       IN  Replay(s, FALSE, FirstStart(s)))

\* stream({ eventId }), the id of an event of the log; before the agent's start
\* it is refused.
FollowAfter(c, i) ==
    LET s == log[i].stream
    IN  /\ FirstStart(s) # 0
        /\ Follow(c, IF log[i].type = "agent_end"
                     THEN Attached("ending", s, TRUE, i + 1)
                     ELSE IF FirstStart(s) <= i THEN Replay(s, TRUE, i + 1)
                     ELSE Replay(s, FALSE, FirstStart(s)))

\* The consumer takes what is queued, event by event.
Yield(c) ==
    /\ reader[c].queue # << >>
    /\ reader' = [reader EXCEPT ![c].got = Append(@, Head(reader[c].queue)),
                                ![c].queue = Tail(@)]
    /\ UNCHANGED <<log, current, activeStream, endEmitted, startEmitted, streamAborted, loop>>

EndStream(c) ==
    /\ reader[c].state = "ending" /\ reader[c].queue = << >>
    /\ reader' = [reader EXCEPT ![c].state = "ended"]
    /\ UNCHANGED <<log, current, activeStream, endEmitted, startEmitted, streamAborted, loop>>

LoopStep(s) == Start(s) \/ Message(s) \/ FinishStream(s) \/ RunThrows(s) \/ CloseLoop(s)
ConsumerStep(c) == Yield(c) \/ EndStream(c)

StreamNext ==
    \/ \E s \in Streams : Send(s) \/ LoopStep(s)
    \/ AbortStream
    \/ \E c \in Consumers :
         \/ ConsumerStep(c) \/ FollowActive(c)
         \/ \E s \in Streams : FollowStream(c, s)
         \/ \E i \in 1 .. Len(log) : FollowAfter(c, i)

StreamSpec == StreamInit /\ [][StreamNext]_streamVars

-----------------------------------------------------------------------------
\* legacy-agent-session.ts: no message is sent while a stream is active.
OneActiveStream == \A s, t \in Streams :
    loop[s] \in {"scheduled", "running"} /\ loop[t] \in {"scheduled", "running"} => s = t

\* The events of a stream from one on, in each prefix of a log
EventsOf(h, s, from) ==
    LET of[n \in 0 .. Len(h)] == IF n = 0 \/ n < from THEN << >>
                                 ELSE IF h[n].stream = s THEN Append(of[n - 1], h[n])
                                 ELSE of[n - 1]
    IN  of

\* A consumer gets each event of its stream once, in order, from where it
\* attached to the agent's end, whatever was emitted while it attached.
InStream(r) == IF r.tracked = NoStream THEN << >> ELSE
    LET from == IF r.from = 0 THEN FirstStart(r.tracked) ELSE r.from
        ends == {i \in 1 .. Len(log) : i >= from /\ log[i].type = "agent_end" /\ log[i].stream = r.tracked}
        to == IF ends = {} THEN Len(log) ELSE CHOOSE i \in ends : \A j \in ends : i <= j
    IN  IF from = 0 THEN << >> ELSE EventsOf(log, r.tracked, from)[to]

EachEventOnce == \A c \in Consumers :
    reader[c].state # "detached" => reader[c].got \o reader[c].queue = InStream(reader[c])

\* A stream that has started ends for those that follow it.
ConsumersEnd == \A c \in Consumers :
    reader[c].state = "following" /\ reader[c].tracked # NoStream ~> reader[c].state = "ended"
=============================================================================
