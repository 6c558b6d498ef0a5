--------------------------- MODULE AgentStreamProofs ---------------------------
(***************************************************************************)
(* The session of an agent, for any number of streams, consumers and       *)
(* messages: one stream is active at a time, and each consumer gets each   *)
(* event of its stream once, in order, from where it attached.             *)
(***************************************************************************)
EXTENDS AgentStream, SequenceTheorems, WellFoundedInduction, TLAPS
-----------------------------------------------------------------------------
\* One stream at a time

\* The loop of a stream that was sent keeps it active until it is finished; one
\* that waits for its response to close no longer is.
LoopKeepsActive == \A s \in Streams :
    /\ loop[s] \in {"scheduled", "running"} => activeStream = s
    /\ loop[s] = "closing" => activeStream = NoStream

\* What every step preserves
StreamInv ==
    /\ loop \in [Streams -> {"new", "scheduled", "running", "closing", "done"}]
    /\ LoopKeepsActive

\* Every step keeps the invariant: a send finds no stream active and no loop
\* that still waits, and a loop that ends only clears its own stream.
LEMMA StreamInvStep == ASSUME ~PromptSend, StreamInv, [StreamNext]_streamVars PROVE StreamInv'
<1> USE StreamConstants DEF StreamInv, LoopKeepsActive, Streams, NoStream
<1>1. ASSUME NEW s \in Streams, Send(s) PROVE StreamInv'
  BY <1>1 DEF Send, MaySend
<1>2. ASSUME NEW s \in Streams, Start(s) PROVE StreamInv'
  BY <1>2 DEF Start
<1>3. ASSUME NEW s \in Streams, Message(s) PROVE StreamInv'
  BY <1>3 DEF Message
<1>4. ASSUME NEW s \in Streams, FinishStream(s) PROVE StreamInv'
  BY <1>4 DEF FinishStream
<1>5. ASSUME NEW s \in Streams, RunThrows(s) PROVE StreamInv'
  BY <1>5 DEF RunThrows
<1>6. ASSUME NEW s \in Streams, CloseLoop(s) PROVE StreamInv'
  BY <1>6 DEF CloseLoop
<1>7. CASE AbortStream
  BY <1>7 DEF AbortStream
<1>8. ASSUME NEW c \in Consumers,
             \/ ConsumerStep(c) \/ FollowActive(c)
             \/ \E s \in Streams : FollowStream(c, s)
             \/ \E i \in 1 .. Len(log) : FollowAfter(c, i)
      PROVE  StreamInv'
  <2>1. UNCHANGED <<loop, activeStream>>
    BY <1>8 DEF ConsumerStep, Yield, EndStream, FollowActive, FollowStream, FollowAfter, Follow
  <2> QED BY <2>1
<1>9. CASE UNCHANGED streamVars
  BY <1>9 DEF streamVars
<1> QED
  BY <1>1, <1>2, <1>3, <1>4, <1>5, <1>6, <1>7, <1>8, <1>9 DEF StreamNext, LoopStep

\* legacy-agent-session.ts: two messages never have their loops under way
\* together, if none is sent while a loop waits for its response to close.
THEOREM OneStreamAtATime == ASSUME ~PromptSend PROVE StreamSpec => []OneActiveStream
<1>1. StreamInit => StreamInv
  BY DEF StreamInit, StreamInv, LoopKeepsActive
<1>2. StreamInv /\ [StreamNext]_streamVars => StreamInv'
  BY StreamInvStep
<1>3. StreamInv => OneActiveStream
  BY DEF StreamInv, LoopKeepsActive, OneActiveStream
<1> QED BY <1>1, <1>2, <1>3, PTL DEF StreamSpec

-----------------------------------------------------------------------------
\* Folds over the log, as functions of how much of it is taken in

\* A set of numbers has a least one.
LEMMA LeastNumber ==
    ASSUME NEW S \in SUBSET Nat, S # {}
    PROVE  \E m \in S : \A k \in S : m <= k
<1>1. PICK m \in S : \A k \in S : ~ (<<k, m>> \in OpToRel(<, Nat))
  BY NatLessThanWellFounded, WFMin
<1>2. ASSUME NEW k \in S PROVE m <= k
  <2>1. <<k, m>> \in Nat \X Nat
    OBVIOUS
  <2>2. ~(<<k, m>>[1] < <<k, m>>[2])
    BY <1>1, <2>1, Zenon DEF OpToRel
  <2> QED BY <2>2
<1> QED BY <1>2

\* Induction between two numbers
LEMMA StepByStep ==
    ASSUME NEW m \in Nat, NEW n \in Nat, NEW S, m \in S, \A k \in m .. n - 1 : k \in S => k + 1 \in S
    PROVE  \A k \in m .. n : k \in S
<1> DEFINE T == {k \in m .. n : k \notin S}
<1> SUFFICES ASSUME T # {} PROVE FALSE
  OBVIOUS
<1>0. T \in SUBSET Nat
  OBVIOUS
<1>1. PICK l \in T : \A k \in T : l <= k
  BY <1>0, LeastNumber
<1>2. l # m /\ l \in m .. n
  OBVIOUS
<1>3. l - 1 \in m .. n - 1 /\ l - 1 \notin T
  BY <1>1, <1>2
<1>4. l - 1 \in S
  BY <1>3
<1>5. l \in S
  BY <1>2, <1>3, <1>4
<1> QED BY <1>5

LogEvents == [type : Types, stream : Streams]

\* What EventsOf computes, prefix by prefix
LEMMA EventsOfSteps ==
    ASSUME NEW h \in Seq(LogEvents), NEW s, NEW from
    PROVE  LET of == EventsOf(h, s, from)
           IN  \A n \in 0 .. Len(h) :
                 /\ of[n] \in Seq(LogEvents)
                 /\ of[n] = IF n = 0 \/ n < from THEN << >>
                            ELSE IF h[n].stream = s THEN Append(of[n - 1], h[n])
                            ELSE of[n - 1]
<1> DEFINE step(f, n) == IF n = 0 \/ n < from THEN << >>
                         ELSE IF h[n].stream = s THEN Append(f[n - 1], h[n])
                         ELSE f[n - 1]
           Is(f, k) == f = [n \in 0 .. k |-> step(f, n)]
           S == {k \in Nat : \E f : Is(f, k)}
<1>1. 0 \in S
  <2>1. Is([n \in 0 .. 0 |-> << >>], 0)
    OBVIOUS
  <2> QED BY <2>1
<1>2. ASSUME NEW k \in Nat, k \in S PROVE k + 1 \in S
  <2>1. PICK f : Is(f, k)
    BY <1>2
  <2> DEFINE g == [n \in 0 .. k + 1 |-> IF n <= k THEN f[n] ELSE step(f, n)]
  <2>2. ASSUME NEW n \in 0 .. k + 1 PROVE g[n] = step(g, n)
    <3>1. CASE n <= k
      <4>1. n \in 0 .. k /\ (n # 0 => n - 1 \in 0 .. k /\ n - 1 \in 0 .. k + 1 /\ n - 1 <= k)
        BY <3>1
      <4>2. g[n] = f[n] /\ f[n] = step(f, n) /\ (n # 0 => g[n - 1] = f[n - 1])
        BY <2>1, <3>1, <4>1
      <4> QED BY <4>2
    <3>2. CASE n = k + 1
      <4>1. n - 1 = k /\ k \in 0 .. k + 1 /\ k <= k /\ ~(n <= k)
        BY <3>2
      <4>2. g[n] = step(f, n) /\ g[n - 1] = f[n - 1]
        BY <4>1
      <4> QED BY <4>2
    <3> QED BY <3>1, <3>2
  <2>3. g = [n \in 0 .. k + 1 |-> g[n]]
    OBVIOUS
  <2> HIDE DEF g
  <2>4. Is(g, k + 1)
    BY <2>2, <2>3
  <2> QED BY <2>4
<1>3. Len(h) \in S
  <2>1. Len(h) \in Nat
    OBVIOUS
  <2> HIDE DEF S
  <2>2. \A k \in 0 .. Len(h) - 1 : k \in S => k + 1 \in S
    BY <1>2
  <2>3. \A k \in 0 .. Len(h) : k \in S
    BY <1>1, <2>1, <2>2, StepByStep
  <2> QED BY <2>1, <2>3
<1>4. PICK f : f = [n \in 0 .. Len(h) |-> step(f, n)]
  BY <1>3
<1> DEFINE of == EventsOf(h, s, from)
<1>5. of = [n \in 0 .. Len(h) |-> step(of, n)]
  BY <1>4, Zenon DEF EventsOf
<1> HIDE DEF of
<1>6. \A n \in 0 .. Len(h) : of[n] = step(of, n)
  BY <1>5
<1> DEFINE T == {n \in Nat : of[n] \in Seq(LogEvents)}
<1>7. 0 \in T
  <2>1. of[0] = << >>
    BY <1>6
  <2>2. << >> \in Seq(LogEvents)
    BY EmptySeq
  <2> QED BY <2>1, <2>2
<1>8. ASSUME NEW k \in 0 .. Len(h) - 1, k \in T PROVE k + 1 \in T
  <2>1. k + 1 \in 1 .. Len(h) /\ k + 1 \in 0 .. Len(h) /\ (k + 1) - 1 = k /\ h[k + 1] \in LogEvents
    OBVIOUS
  <2>2. of[k + 1] = step(of, k + 1)
    BY <1>6, <2>1
  <2>3. of[k] \in Seq(LogEvents)
    BY <1>8
  <2>4. of[k + 1] \in {<< >>, Append(of[k], h[k + 1]), of[k]}
    BY <2>1, <2>2
  <2>5. << >> \in Seq(LogEvents) /\ Append(of[k], h[k + 1]) \in Seq(LogEvents)
    BY <2>1, <2>3
  <2>6. of[k + 1] \in Seq(LogEvents)
    BY <2>3, <2>4, <2>5
  <2> QED BY <2>6
<1>9. \A n \in 0 .. Len(h) : n \in T
  <2>1. Len(h) \in Nat
    OBVIOUS
  <2> HIDE DEF T
  <2> QED BY <1>7, <1>8, <2>1, StepByStep
<1> QED BY <1>6, <1>9 DEF of

\* The log only grows: what its prefixes yield stays.
LEMMA EventsOfPrefix ==
    ASSUME NEW h \in Seq(LogEvents), NEW g \in Seq(LogEvents), NEW s, NEW from,
           Len(h) <= Len(g), \A i \in 1 .. Len(h) : g[i] = h[i]
    PROVE  \A n \in 0 .. Len(h) : EventsOf(g, s, from)[n] = EventsOf(h, s, from)[n]
<1> DEFINE S == {n \in Nat : EventsOf(g, s, from)[n] = EventsOf(h, s, from)[n]}
<1>1. 0 \in S
  <2>1. EventsOf(g, s, from)[0] = << >> /\ EventsOf(h, s, from)[0] = << >>
    BY EventsOfSteps
  <2> QED BY <2>1
<1>2. ASSUME NEW k \in 0 .. Len(h) - 1, k \in S PROVE k + 1 \in S
  <2>1. k + 1 \in 1 .. Len(h) /\ k + 1 \in 0 .. Len(h) /\ k + 1 \in 0 .. Len(g) /\ (k + 1) - 1 = k
    OBVIOUS
  <2>2. EventsOf(g, s, from)[k + 1] = IF k + 1 = 0 \/ k + 1 < from THEN << >>
                            ELSE IF g[k + 1].stream = s THEN Append(EventsOf(g, s, from)[k], g[k + 1])
                            ELSE EventsOf(g, s, from)[k]
    BY <2>1, EventsOfSteps
  <2>3. EventsOf(h, s, from)[k + 1] = IF k + 1 = 0 \/ k + 1 < from THEN << >>
                            ELSE IF h[k + 1].stream = s THEN Append(EventsOf(h, s, from)[k], h[k + 1])
                            ELSE EventsOf(h, s, from)[k]
    BY <2>1, EventsOfSteps
  <2>4. g[k + 1] = h[k + 1] /\ EventsOf(g, s, from)[k] = EventsOf(h, s, from)[k]
    BY <1>2, <2>1
  <2> QED BY <2>2, <2>3, <2>4
<1> HIDE DEF S
<1>3. \A n \in 0 .. Len(h) : n \in S
  <2>1. Len(h) \in Nat /\ \A k \in 0 .. Len(h) - 1 : k \in S => k + 1 \in S
    BY <1>2
  <2> QED BY <1>1, <2>1, StepByStep
<1> QED BY <1>3 DEF S

\* Without an event of the stream from one on, nothing is yielded.
LEMMA EventsOfNone ==
    ASSUME NEW h \in Seq(LogEvents), NEW s, NEW from \in Nat,
           \A i \in 1 .. Len(h) : i >= from => h[i].stream # s
    PROVE  \A n \in 0 .. Len(h) : EventsOf(h, s, from)[n] = << >>
<1> DEFINE S == {n \in Nat : EventsOf(h, s, from)[n] = << >>}
<1>1. 0 \in S
  <2>1. EventsOf(h, s, from)[0] = << >>
    BY EventsOfSteps
  <2> QED BY <2>1
<1>2. ASSUME NEW k \in 0 .. Len(h) - 1, k \in S PROVE k + 1 \in S
  <2>1. k + 1 \in 1 .. Len(h) /\ k + 1 \in 0 .. Len(h) /\ (k + 1) - 1 = k
    OBVIOUS
  <2>2. EventsOf(h, s, from)[k + 1] = IF k + 1 = 0 \/ k + 1 < from THEN << >>
                            ELSE IF h[k + 1].stream = s THEN Append(EventsOf(h, s, from)[k], h[k + 1])
                            ELSE EventsOf(h, s, from)[k]
    BY <2>1, EventsOfSteps
  <2>3. k + 1 < from \/ h[k + 1].stream # s
    BY <2>1
  <2> QED BY <1>2, <2>2, <2>3
<1> HIDE DEF S
<1>3. \A n \in 0 .. Len(h) : n \in S
  <2>1. Len(h) \in Nat /\ \A k \in 0 .. Len(h) - 1 : k \in S => k + 1 \in S
    BY <1>2
  <2> QED BY <1>1, <2>1, StepByStep
<1> QED BY <1>3 DEF S

\* A consumer that takes events in is changed by one after the other.
LEMMA QueuedAllSteps ==
    ASSUME NEW events \in Seq(LogEvents), NEW r
    PROVE  \E g : /\ g[0] = r /\ \A n \in 1 .. Len(events) : g[n] = Queued(g[n - 1], events[n])
                  /\ QueuedAll(r, events) = g[Len(events)]
<1> DEFINE step(f, n) == IF n = 0 THEN r ELSE Queued(f[n - 1], events[n])
           Is(f, k) == f = [n \in 0 .. k |-> step(f, n)]
           S == {k \in Nat : \E f : Is(f, k)}
<1>1. 0 \in S
  <2>1. Is([n \in 0 .. 0 |-> r], 0)
    OBVIOUS
  <2> QED BY <2>1
<1>2. ASSUME NEW k \in Nat, k \in S PROVE k + 1 \in S
  <2>1. PICK f : Is(f, k)
    BY <1>2
  <2> DEFINE g == [n \in 0 .. k + 1 |-> IF n <= k THEN f[n] ELSE step(f, n)]
  <2>2. ASSUME NEW n \in 0 .. k + 1 PROVE g[n] = step(g, n)
    <3>1. CASE n <= k
      <4>1. n \in 0 .. k /\ (n # 0 => n - 1 \in 0 .. k /\ n - 1 \in 0 .. k + 1 /\ n - 1 <= k)
        BY <3>1
      <4>2. g[n] = f[n] /\ f[n] = step(f, n) /\ (n # 0 => g[n - 1] = f[n - 1])
        BY <2>1, <3>1, <4>1
      <4> QED BY <4>2
    <3>2. CASE n = k + 1
      <4>1. n - 1 = k /\ k \in 0 .. k + 1 /\ k <= k /\ ~(n <= k)
        BY <3>2
      <4>2. g[n] = step(f, n) /\ g[n - 1] = f[n - 1]
        BY <4>1
      <4> QED BY <4>2
    <3> QED BY <3>1, <3>2
  <2>3. g = [n \in 0 .. k + 1 |-> g[n]]
    OBVIOUS
  <2> HIDE DEF g
  <2>4. Is(g, k + 1)
    BY <2>2, <2>3
  <2> QED BY <2>4
<1>3. \A k \in 0 .. Len(events) : k \in S
  <2> HIDE DEF S
  <2>1. Len(events) \in Nat /\ \A k \in 0 .. Len(events) - 1 : k \in S => k + 1 \in S
    BY <1>2
  <2> QED BY <1>1, <2>1, StepByStep
<1>4. PICK f : f = [n \in 0 .. Len(events) |-> step(f, n)]
  BY <1>3
<1> DEFINE after == CHOOSE g : g = [n \in 0 .. Len(events) |-> step(g, n)]
<1>5. after = [n \in 0 .. Len(events) |-> step(after, n)]
  BY <1>4, Zenon
<1>6. QueuedAll(r, events) = after[Len(events)]
  BY DEF QueuedAll
<1> HIDE DEF after
<1>7. \A n \in 0 .. Len(events) : after[n] = step(after, n)
  BY <1>5
<1> QED BY <1>6, <1>7

-----------------------------------------------------------------------------
At(h, i, type, s) == h[i].type = type /\ h[i].stream = s

\* After the end of a stream there is no event of it, and it starts once.
InSequence(h) ==
    \A j \in 1 .. Len(h) : \A i \in 1 .. j - 1 : h[i].stream = h[j].stream =>
      h[i].type # "agent_end" /\ ~(h[i].type = "agent_start" /\ h[j].type = "agent_start")

Readers == [state : {"detached", "following", "ending", "ended"}, tracked : Streams \cup {NoStream},
            begun : BOOLEAN, from : Nat, queue : Seq(LogEvents), got : Seq(LogEvents)]

\* The first event that is yielded to a consumer that has begun
Begins(h, n, r, first) ==
    IF r.from = 0 THEN first \in 1 .. n /\ At(h, first, "agent_start", r.tracked)
    ELSE first = r.from /\ first \in 1 .. n + 1

\* What a consumer knows when it has taken in the first n events of the log: it
\* waits for a start, is within its stream, or past the end of it.
NotBegun(h, n, r) ==
    /\ ~r.begun /\ r.from = 0 /\ r.got = << >> /\ r.queue = << >>
    /\ \A i \in 1 .. n : ~At(h, i, "agent_start", r.tracked)

Within(h, n, r) ==
    /\ r.begun /\ r.tracked \in Streams
    /\ \E first \in Nat :
         /\ Begins(h, n, r, first)
         /\ r.got \o r.queue = EventsOf(h, r.tracked, first)[n]
         /\ \A i \in first .. n : ~At(h, i, "agent_end", r.tracked)

Past(h, n, r) ==
    /\ r.tracked \in Streams
    /\ \E first \in Nat :
         /\ Begins(h, n, r, first)
         /\ \/ \E end \in first .. n : /\ At(h, end, "agent_end", r.tracked)
                                       /\ r.got \o r.queue = EventsOf(h, r.tracked, first)[end]
            \/ /\ \E end \in 1 .. first - 1 : At(h, end, "agent_end", r.tracked)
               /\ r.got \o r.queue = << >>

Reads(h, n, r) ==
    /\ r.state = "following" => NotBegun(h, n, r) \/ Within(h, n, r)
    /\ r.state \in {"ending", "ended"} => Past(h, n, r)

\* Nothing is an event of no stream.
LEMMA EventTypes ==
    ASSUME NEW h \in Seq(LogEvents), NEW i \in 1 .. Len(h)
    PROVE  h[i] \in LogEvents /\ h[i].stream \in Streams /\ h[i].type \in Types
<1>1. h[i] \in LogEvents
  OBVIOUS
<1> QED BY <1>1 DEF LogEvents

\* What is appended to what is concatenated
LEMMA AppendLast ==
    ASSUME NEW f \in Seq(LogEvents), NEW g \in Seq(LogEvents), NEW e \in LogEvents
    PROVE  f \o Append(g, e) = Append(f \o g, e)
<1> DEFINE x == f \o Append(g, e)
           y == Append(f \o g, e)
<1>1. Append(g, e) \in Seq(LogEvents) /\ Len(Append(g, e)) = Len(g) + 1 /\ f \o g \in Seq(LogEvents)
      /\ Len(f \o g) = Len(f) + Len(g) /\ Len(f) \in Nat /\ Len(g) \in Nat
  OBVIOUS
<1>2. x \in Seq(LogEvents) /\ y \in Seq(LogEvents) /\ Len(x) = Len(y) /\ Len(y) = Len(f) + Len(g) + 1
  BY <1>1
<1>3. ASSUME NEW i \in 1 .. Len(y) PROVE x[i] = y[i]
  <2>1. CASE i <= Len(f)
    BY <1>1, <1>2, <2>1
  <2>2. CASE i > Len(f) /\ i <= Len(f) + Len(g)
    BY <1>1, <1>2, <2>2
  <2>3. CASE i = Len(f) + Len(g) + 1
    BY <1>1, <1>2, <2>3
  <2> QED BY <1>2, <2>1, <2>2, <2>3
<1> HIDE DEF x, y
<1>4. x = y
  BY <1>2, <1>3, SeqEqual
<1> QED BY <1>4 DEF x, y

\* A consumer that has begun takes in an event of its stream.
LEMMA TakesIn ==
    ASSUME NEW h \in Seq(LogEvents), NEW n \in 0 .. Len(h) - 1, NEW r \in Readers, NEW q \in Readers,
           NEW first \in Nat, first <= n + 1, q.tracked \in Streams, q.begun,
           h[n + 1].stream = q.tracked, Begins(h, n + 1, q, first),
           q.got = r.got, q.queue = Append(r.queue, h[n + 1]),
           r.got \o r.queue = EventsOf(h, q.tracked, first)[n],
           \A i \in first .. n : ~At(h, i, "agent_end", q.tracked),
           q.state = IF h[n + 1].type = "agent_end" THEN "ending" ELSE "following"
    PROVE  Reads(h, n + 1, q)
<1>1. n + 1 \in 1 .. Len(h) /\ n + 1 \in 0 .. Len(h) /\ (n + 1) - 1 = n /\ n \in Nat
  OBVIOUS
<1>2. h[n + 1] \in LogEvents /\ r.got \in Seq(LogEvents) /\ r.queue \in Seq(LogEvents)
  BY <1>1, EventTypes DEF Readers
<1>3. q.got \o q.queue = Append(r.got \o r.queue, h[n + 1])
  <2>1. r.got \o Append(r.queue, h[n + 1]) = Append(r.got \o r.queue, h[n + 1])
    BY <1>2, AppendLast
  <2> QED BY <2>1, Zenon
<1>4. EventsOf(h, q.tracked, first)[n + 1] = Append(EventsOf(h, q.tracked, first)[n], h[n + 1])
  <2>1. ~(n + 1 = 0 \/ n + 1 < first)
    BY <1>1
  <2>2. EventsOf(h, q.tracked, first)[n + 1] = IF n + 1 = 0 \/ n + 1 < first THEN << >>
                            ELSE IF h[n + 1].stream = q.tracked THEN Append(EventsOf(h, q.tracked, first)[n], h[n + 1])
                            ELSE EventsOf(h, q.tracked, first)[n]
    BY <1>1, EventsOfSteps
  <2> QED BY <2>1, <2>2
<1>5. q.got \o q.queue = EventsOf(h, q.tracked, first)[n + 1]
  BY <1>3, <1>4
<1>6. CASE h[n + 1].type = "agent_end"
  <2>1. n + 1 \in first .. n + 1 /\ At(h, n + 1, "agent_end", q.tracked)
    BY <1>1, <1>6 DEF At
  <2>2. Past(h, n + 1, q)
    BY <1>5, <2>1 DEF Past
  <2> QED BY <1>6, <2>2 DEF Reads
<1>7. CASE h[n + 1].type # "agent_end"
  <2>1. \A i \in first .. n + 1 : ~At(h, i, "agent_end", q.tracked)
    BY <1>1, <1>7 DEF At
  <2>2. Within(h, n + 1, q)
    BY <1>5, <2>1 DEF Within
  <2> QED BY <1>7, <2>2 DEF Reads
<1> QED BY <1>6, <1>7

\* What Queued makes of a reader
LEMMA QueuedReader ==
    ASSUME NEW r \in Readers, NEW e \in LogEvents
    PROVE  /\ Queued(r, e) \in Readers
           /\ \/ Queued(r, e) = r
              \/ /\ Queued(r, e).got = r.got /\ Queued(r, e).queue = Append(r.queue, e)
                 /\ Queued(r, e).from = r.from /\ Queued(r, e).tracked = e.stream /\ Queued(r, e).begun
                 /\ Queued(r, e).state = IF e.type = "agent_end" THEN "ending" ELSE "following"
                 /\ r.state = "following"
                 /\ r.tracked = NoStream \/ r.tracked = e.stream
                 /\ r.begun \/ e.type = "agent_start"
           /\ Queued(r, e) = r =>
                \/ r.state # "following"
                \/ r.tracked # NoStream /\ r.tracked # e.stream
                \/ ~r.begun /\ e.type # "agent_start"
<1>1. e.stream \in Streams \cup {NoStream}
  BY DEF LogEvents
<1>2. CASE \/ r.state # "following" \/ (r.tracked # NoStream /\ e.stream # r.tracked)
           \/ (~r.begun /\ e.type # "agent_start")
  BY <1>2 DEF Queued
<1>3. CASE ~(\/ r.state # "following" \/ (r.tracked # NoStream /\ e.stream # r.tracked)
             \/ (~r.begun /\ e.type # "agent_start"))
  <2> DEFINE q == [state |-> IF e.type = "agent_end" THEN "ending" ELSE "following", tracked |-> e.stream,
                   begun |-> TRUE, from |-> r.from, queue |-> Append(r.queue, e), got |-> r.got]
  <2>1. Queued(r, e) = q
    BY <1>3 DEF Queued, Readers
  <2>2. Append(r.queue, e) \in Seq(LogEvents) /\ r.queue \in Seq(LogEvents) /\ Len(Append(r.queue, e)) = Len(r.queue) + 1
    BY DEF Readers
  <2>3. q \in Readers
    BY <1>1, <2>2 DEF Readers
  <2>4. q.queue # r.queue
    BY <2>2
  <2> QED BY <1>3, <2>1, <2>3, <2>4
<1> QED BY <1>2, <1>3

\* A consumer takes in one event after the other.
LEMMA ReadsNext ==
    ASSUME NEW h \in Seq(LogEvents), InSequence(h), NEW n \in 0 .. Len(h) - 1,
           NEW r \in Readers, r.state # "detached", Reads(h, n, r)
    PROVE  /\ Queued(r, h[n + 1]) \in Readers /\ Queued(r, h[n + 1]).state # "detached"
           /\ Reads(h, n + 1, Queued(r, h[n + 1]))
<1> DEFINE e == h[n + 1]
           q == Queued(r, e)
<1>1. n + 1 \in 1 .. Len(h) /\ n + 1 \in 0 .. Len(h) /\ n \in 0 .. Len(h) /\ (n + 1) - 1 = n /\ n \in Nat /\ n <= n + 1
  OBVIOUS
<1>2. e \in LogEvents /\ e.stream \in Streams /\ e.stream # NoStream
  BY <1>1, EventTypes, StreamConstants DEF Streams, NoStream
<1>3. \A i \in 1 .. n : h[i].stream = e.stream =>
        h[i].type # "agent_end" /\ ~(h[i].type = "agent_start" /\ e.type = "agent_start")
  BY <1>1 DEF InSequence
<1>4. q \in Readers /\ (r.state # "following" => q = r)
  BY <1>2, QueuedReader
<1> HIDE DEF e
<1>5. CASE q = r /\ r.state = "following" /\ NotBegun(h, n, r)
  <2>1. ~At(h, n + 1, "agent_start", r.tracked)
    <3>1. (r.tracked # NoStream /\ r.tracked # e.stream) \/ e.type # "agent_start"
      BY <1>2, <1>5, QueuedReader
    <3>2. e.stream # r.tracked \/ e.type # "agent_start"
      BY <3>1
    <3> QED BY <3>2 DEF At, e
  <2>2. NotBegun(h, n + 1, q)
    BY <1>1, <1>5, <2>1 DEF NotBegun
  <2> QED BY <1>4, <1>5, <2>2 DEF Reads, e
<1>6. CASE q = r /\ r.state = "following" /\ Within(h, n, r)
  <2>1. PICK first \in Nat : /\ Begins(h, n, r, first)
                             /\ r.got \o r.queue = EventsOf(h, r.tracked, first)[n]
                             /\ \A i \in first .. n : ~At(h, i, "agent_end", r.tracked)
    BY <1>6 DEF Within
  <2>2. e.stream # r.tracked /\ r.begun /\ r.tracked \in Streams
    BY <1>2, <1>6, QueuedReader DEF Within
  <2>3. EventsOf(h, r.tracked, first)[n + 1] = r.got \o r.queue
    <3>1. CASE n + 1 < first
      <4>1. n < first BY <1>1, <3>1
      <4>2. EventsOf(h, r.tracked, first)[n] = << >> /\ EventsOf(h, r.tracked, first)[n + 1] = << >>
        BY <1>1, <3>1, <4>1, EventsOfSteps
      <4> QED BY <2>1, <4>2
    <3>2. CASE ~(n + 1 < first)
      <4>1. EventsOf(h, r.tracked, first)[n + 1] = EventsOf(h, r.tracked, first)[n]
        BY <1>1, <2>2, <3>2, EventsOfSteps DEF e
      <4> QED BY <2>1, <4>1
    <3> QED BY <3>1, <3>2
  <2>4. Begins(h, n + 1, r, first)
    BY <1>1, <2>1 DEF Begins
  <2>5. \A i \in first .. n + 1 : ~At(h, i, "agent_end", r.tracked)
    BY <1>1, <2>1, <2>2 DEF At, e
  <2>6. Within(h, n + 1, q)
    BY <1>6, <2>2, <2>3, <2>4, <2>5 DEF Within
  <2> QED BY <1>4, <1>6, <2>6 DEF Reads, e
<1>7. CASE q = r /\ r.state \in {"ending", "ended"}
  <2>1. r.tracked \in Streams /\ \E first \in Nat :
             /\ Begins(h, n, r, first)
             /\ \/ \E end \in first .. n : /\ At(h, end, "agent_end", r.tracked)
                                           /\ r.got \o r.queue = EventsOf(h, r.tracked, first)[end]
                \/ /\ \E end \in 1 .. first - 1 : At(h, end, "agent_end", r.tracked)
                   /\ r.got \o r.queue = << >>
    BY <1>7 DEF Reads, Past
  <2>2. PICK first \in Nat :
             /\ Begins(h, n, r, first)
             /\ \/ \E end \in first .. n : /\ At(h, end, "agent_end", r.tracked)
                                           /\ r.got \o r.queue = EventsOf(h, r.tracked, first)[end]
                \/ /\ \E end \in 1 .. first - 1 : At(h, end, "agent_end", r.tracked)
                   /\ r.got \o r.queue = << >>
    BY <2>1
  <2>3. Begins(h, n + 1, r, first)
    BY <1>1, <2>2 DEF Begins
  <2>4. (\E end \in first .. n : /\ At(h, end, "agent_end", r.tracked)
                                 /\ r.got \o r.queue = EventsOf(h, r.tracked, first)[end])
        => \E end \in first .. n + 1 : /\ At(h, end, "agent_end", r.tracked)
                                       /\ r.got \o r.queue = EventsOf(h, r.tracked, first)[end]
    BY <1>1
  <2>5. Past(h, n + 1, q)
    BY <1>7, <2>1, <2>2, <2>3, <2>4 DEF Past
  <2> QED BY <1>4, <1>7, <2>5 DEF Reads, e
<1>8. CASE q # r
  <2>1. /\ q.got = r.got /\ q.queue = Append(r.queue, e) /\ q.from = r.from /\ q.tracked = e.stream /\ q.begun
        /\ q.state = IF e.type = "agent_end" THEN "ending" ELSE "following"
        /\ r.state = "following"
        /\ r.tracked = NoStream \/ r.tracked = e.stream
        /\ r.begun \/ e.type = "agent_start"
    BY <1>2, <1>8, QueuedReader
  <2>2. q.tracked \in Streams /\ h[n + 1].stream = q.tracked /\ q.queue = Append(r.queue, h[n + 1])
        /\ q.state = IF h[n + 1].type = "agent_end" THEN "ending" ELSE "following"
    BY <1>2, <2>1 DEF e
  <2>3. CASE NotBegun(h, n, r)
    <3>1. e.type = "agent_start" /\ q.from = 0 /\ r.got = << >> /\ r.queue = << >>
      BY <2>1, <2>3 DEF NotBegun
    <3>2. Begins(h, n + 1, q, n + 1)
      BY <1>1, <2>1, <3>1 DEF Begins, At, e
    <3>3. r.got \o r.queue = EventsOf(h, q.tracked, n + 1)[n]
      <4>1. n < n + 1 BY <1>1
      <4>2. EventsOf(h, q.tracked, n + 1)[n] = << >>
        BY <1>1, <4>1, EventsOfSteps
      <4> QED BY <3>1, <4>2
    <3>4. \A i \in n + 1 .. n : ~At(h, i, "agent_end", q.tracked)
      BY <1>1
    <3> HIDE DEF q
    <3>5. n + 1 \in Nat /\ n + 1 <= n + 1
      BY <1>1
    <3>6. Reads(h, n + 1, q)
      BY <1>4, <2>1, <2>2, <3>2, <3>3, <3>4, <3>5, TakesIn
    <3> QED BY <1>4, <2>1, <3>6 DEF q, e
  <2>4. CASE Within(h, n, r)
    <3>1. PICK first \in Nat : /\ Begins(h, n, r, first)
                               /\ r.got \o r.queue = EventsOf(h, r.tracked, first)[n]
                               /\ \A i \in first .. n : ~At(h, i, "agent_end", r.tracked)
      BY <2>4 DEF Within
    <3>2. r.tracked = q.tracked
      BY <1>2, <2>1, <2>4, StreamConstants DEF Within, Streams, NoStream
    <3>3. Begins(h, n + 1, q, first) /\ first <= n + 1
      BY <1>1, <2>1, <3>1, <3>2 DEF Begins
    <3> HIDE DEF q
    <3>4. Reads(h, n + 1, q)
      BY <1>4, <2>1, <2>2, <3>1, <3>2, <3>3, TakesIn
    <3> QED BY <1>4, <2>1, <3>4 DEF q, e
  <2> QED BY <2>1, <2>3, <2>4 DEF Reads
<1> QED
  <2>1. r.state \in {"following", "ending", "ended"}
    BY DEF Readers
  <2> QED BY <1>4, <1>5, <1>6, <1>7, <1>8, <2>1 DEF Reads

\* A consumer that has taken in all events but the last ones takes these in.
LEMMA CatchUp ==
    ASSUME NEW h \in Seq(LogEvents), InSequence(h), NEW m \in 0 .. Len(h), NEW events \in Seq(LogEvents),
           m + Len(events) = Len(h), \A k \in 1 .. Len(events) : events[k] = h[m + k],
           NEW g, \A k \in 1 .. Len(events) : g[k] = Queued(g[k - 1], events[k]),
           NEW b \in 0 .. Len(events),
           g[b] \in Readers, g[b].state # "detached", Reads(h, m + b, g[b])
    PROVE  LET r == g[Len(events)] IN r \in Readers /\ r.state # "detached" /\ Reads(h, Len(h), r)
<1> DEFINE S == {k \in Nat : g[k] \in Readers /\ g[k].state # "detached" /\ Reads(h, m + k, g[k])}
<1>1. b \in Nat /\ b \in S /\ Len(events) \in Nat /\ m \in Nat /\ Len(h) \in Nat
  OBVIOUS
<1>2. ASSUME NEW k \in b .. Len(events) - 1, k \in S PROVE k + 1 \in S
  <2>1. k + 1 \in 1 .. Len(events) /\ m + k \in 0 .. Len(h) - 1 /\ (k + 1) - 1 = k /\ (m + k) + 1 = m + (k + 1)
        /\ k + 1 \in Nat
    BY <1>1
  <2>2. g[k + 1] = Queued(g[k], h[(m + k) + 1])
    BY <2>1
  <2>3. g[k] \in Readers /\ g[k].state # "detached" /\ Reads(h, m + k, g[k])
    BY <1>2
  <2>4. /\ g[k + 1] \in Readers /\ g[k + 1].state # "detached"
        /\ Reads(h, (m + k) + 1, g[k + 1])
    BY <2>1, <2>2, <2>3, ReadsNext
  <2> QED BY <2>1, <2>4
<1> HIDE DEF S
<1>3. \A k \in b .. Len(events) : k \in S
  BY <1>1, <1>2, StepByStep
<1>4. Len(events) \in S
  BY <1>1, <1>3
<1> QED BY <1>1, <1>4 DEF S

\* Queueing all of the last events
LEMMA CatchUpAll ==
    ASSUME NEW h \in Seq(LogEvents), InSequence(h), NEW m \in 0 .. Len(h), NEW events \in Seq(LogEvents),
           m + Len(events) = Len(h), \A k \in 1 .. Len(events) : events[k] = h[m + k],
           NEW r \in Readers, r.state # "detached", Reads(h, m, r)
    PROVE  LET q == QueuedAll(r, events) IN q \in Readers /\ q.state # "detached" /\ Reads(h, Len(h), q)
<1>1. PICK g : /\ g[0] = r /\ \A n \in 1 .. Len(events) : g[n] = Queued(g[n - 1], events[n])
               /\ QueuedAll(r, events) = g[Len(events)]
  BY QueuedAllSteps
<1>2. 0 \in 0 .. Len(events) /\ m + 0 = m
  OBVIOUS
<1>3. g[0] \in Readers /\ g[0].state # "detached" /\ Reads(h, m + 0, g[0])
  BY <1>1, <1>2
<1>4. LET q == g[Len(events)] IN q \in Readers /\ q.state # "detached" /\ Reads(h, Len(h), q)
  BY <1>1, <1>2, <1>3, CatchUp
<1> QED BY <1>1, <1>4

\* Who does not follow takes nothing in.
LEMMA DetachedStays ==
    ASSUME NEW events \in Seq(LogEvents), NEW r, r.state = "detached"
    PROVE  QueuedAll(r, events) = r
<1>1. PICK g : /\ g[0] = r /\ \A n \in 1 .. Len(events) : g[n] = Queued(g[n - 1], events[n])
               /\ QueuedAll(r, events) = g[Len(events)]
  BY QueuedAllSteps
<1> DEFINE S == {k \in Nat : g[k] = r}
<1>2. 0 \in S /\ Len(events) \in Nat
  BY <1>1
<1>3. ASSUME NEW k \in 0 .. Len(events) - 1, k \in S PROVE k + 1 \in S
  <2>1. k + 1 \in 1 .. Len(events) /\ (k + 1) - 1 = k /\ k + 1 \in Nat /\ g[k] = r
    BY <1>3
  <2>2. g[k + 1] = Queued(r, events[k + 1])
    BY <1>1, <2>1
  <2>3. g[k + 1] = r
    BY <2>2 DEF Queued
  <2> QED BY <2>1, <2>3
<1> HIDE DEF S
<1>4. \A k \in 0 .. Len(events) : k \in S
  BY <1>2, <1>3, StepByStep
<1>5. Len(events) \in S
  BY <1>2, <1>4
<1> QED BY <1>1, <1>5 DEF S

\* What a consumer knows of the log does not change when the log grows.
LEMMA ReadsStays ==
    ASSUME NEW h \in Seq(LogEvents), NEW g \in Seq(LogEvents), Len(h) <= Len(g),
           \A i \in 1 .. Len(h) : g[i] = h[i], NEW r \in Readers, Reads(h, Len(h), r)
    PROVE  Reads(g, Len(h), r)
<1>1. Len(h) \in Nat /\ Len(g) \in Nat
  OBVIOUS
<1>2. \A i \in 1 .. Len(h) : \A t : \A s : At(g, i, t, s) <=> At(h, i, t, s)
  BY DEF At
<1>3. \A s : \A first : \A n \in 0 .. Len(h) : EventsOf(g, s, first)[n] = EventsOf(h, s, first)[n]
  BY EventsOfPrefix
<1>4. \A first : Begins(h, Len(h), r, first) => Begins(g, Len(h), r, first)
  BY <1>2 DEF Begins
<1>5. NotBegun(h, Len(h), r) => NotBegun(g, Len(h), r)
  BY <1>2 DEF NotBegun
<1>6. ASSUME Within(h, Len(h), r) PROVE Within(g, Len(h), r)
  <2>1. PICK first \in Nat :
         /\ Begins(h, Len(h), r, first)
         /\ r.got \o r.queue = EventsOf(h, r.tracked, first)[Len(h)]
         /\ \A i \in first .. Len(h) : ~At(h, i, "agent_end", r.tracked)
    BY <1>6 DEF Within
  <2>2. r.got \o r.queue = EventsOf(g, r.tracked, first)[Len(h)]
    BY <1>1, <1>3, <2>1
  <2>3. first >= 1
    BY <1>1, <2>1 DEF Begins
  <2>4. \A i \in first .. Len(h) : ~At(g, i, "agent_end", r.tracked)
    BY <1>1, <1>2, <2>1, <2>3
  <2> QED BY <1>4, <1>6, <2>1, <2>2, <2>4 DEF Within
<1>7. ASSUME Past(h, Len(h), r) PROVE Past(g, Len(h), r)
  <2>1. PICK first \in Nat :
         /\ Begins(h, Len(h), r, first)
         /\ \/ \E end \in first .. Len(h) : /\ At(h, end, "agent_end", r.tracked)
                                       /\ r.got \o r.queue = EventsOf(h, r.tracked, first)[end]
            \/ /\ \E end \in 1 .. first - 1 : At(h, end, "agent_end", r.tracked)
               /\ r.got \o r.queue = << >>
    BY <1>7 DEF Past
  <2>2. first >= 1 /\ first - 1 <= Len(h)
    BY <1>1, <2>1 DEF Begins
  <2>3. CASE \E end \in first .. Len(h) : /\ At(h, end, "agent_end", r.tracked)
                                       /\ r.got \o r.queue = EventsOf(h, r.tracked, first)[end]
    <3>1. PICK end \in first .. Len(h) : /\ At(h, end, "agent_end", r.tracked)
                                       /\ r.got \o r.queue = EventsOf(h, r.tracked, first)[end]
      BY <2>3
    <3>2. end \in 1 .. Len(h) /\ end \in 0 .. Len(h)
      BY <1>1, <2>2
    <3>3. At(g, end, "agent_end", r.tracked) /\ r.got \o r.queue = EventsOf(g, r.tracked, first)[end]
      BY <1>2, <1>3, <3>1, <3>2
    <3> QED BY <1>4, <1>7, <2>1, <3>3 DEF Past
  <2>4. CASE /\ \E end \in 1 .. first - 1 : At(h, end, "agent_end", r.tracked)
             /\ r.got \o r.queue = << >>
    <3>1. PICK end \in 1 .. first - 1 : At(h, end, "agent_end", r.tracked)
      BY <2>4
    <3>2. end \in 1 .. Len(h)
      BY <1>1, <2>2
    <3>3. At(g, end, "agent_end", r.tracked)
      BY <1>2, <3>1, <3>2
    <3> QED BY <1>4, <1>7, <2>1, <2>4, <3>3 DEF Past
  <2> QED BY <2>1, <2>3, <2>4
<1> QED BY <1>5, <1>6, <1>7 DEF Reads

\* Where a stream starts in the log
LEMMA FirstOfStarts ==
    ASSUME NEW s
    PROVE  /\ StartsOf(s) = {} => FirstStart(s) = 0
           /\ StartsOf(s) # {} => FirstStart(s) \in StartsOf(s) /\ \A j \in StartsOf(s) : FirstStart(s) <= j
           /\ FirstStart(s) \in Nat
<1>1. CASE StartsOf(s) = {}
  BY <1>1 DEF FirstStart
<1>2. CASE StartsOf(s) # {}
  <2>1. StartsOf(s) \in SUBSET Nat
    BY DEF StartsOf
  <2>2. \E i \in StartsOf(s) : \A j \in StartsOf(s) : i <= j
    BY <1>2, <2>1, LeastNumber
  <2>3. FirstStart(s) = CHOOSE i \in StartsOf(s) : \A j \in StartsOf(s) : i <= j
    BY <1>2 DEF FirstStart
  <2>4. FirstStart(s) \in StartsOf(s) /\ \A j \in StartsOf(s) : FirstStart(s) <= j
    BY <2>2, <2>3, Zenon
  <2> QED BY <1>2, <2>1, <2>4
<1> QED BY <1>1, <1>2

\* The events of the log from one on
LEMMA LastOfLog ==
    ASSUME log \in Seq(LogEvents), NEW from \in 1 .. Len(log) + 1
    PROVE  LET events == SubSeq(log, from, Len(log))
           IN  /\ events \in Seq(LogEvents) /\ Len(events) = Len(log) + 1 - from
               /\ \A k \in 1 .. Len(events) : events[k] = log[(from - 1) + k]
<1>1. Len(log) \in Nat /\ from \in Int /\ Len(log) \in Int /\ \A i \in from .. Len(log) : log[i] \in LogEvents
  OBVIOUS
<1> DEFINE events == SubSeq(log, from, Len(log))
<1>2. /\ events \in Seq(LogEvents)
      /\ Len(events) = IF from <= Len(log) THEN Len(log) - from + 1 ELSE 0
      /\ \A i \in 1 .. Len(log) - from + 1 : events[i] = log[from + i - 1]
  BY <1>1, SubSeqProperties
<1>3. Len(events) = Len(log) + 1 - from
  BY <1>1, <1>2
<1> HIDE DEF events
<1>4. ASSUME NEW k \in 1 .. Len(events) PROVE events[k] = log[(from - 1) + k]
  <2>1. k \in 1 .. Len(log) - from + 1 /\ from + k - 1 = (from - 1) + k
    BY <1>1, <1>3
  <2> QED BY <1>2, <2>1
<1> QED BY <1>2, <1>3, <1>4 DEF events

\* What a consumer begins with
LEMMA AttachedReader ==
    ASSUME NEW s \in Streams \cup {NoStream}, NEW begun \in BOOLEAN, NEW from \in Nat,
           NEW state \in {"following", "ending"}
    PROVE  Attached(state, s, begun, from) \in Readers
  BY EmptySeq DEF Attached, Readers

\* A consumer of a stream that has not started
LEMMA ReplayNothing ==
    ASSUME log \in Seq(LogEvents), NEW s \in Streams \cup {NoStream}, StartsOf(s) = {}
    PROVE  LET q == Replay(s, FALSE, 0)
           IN  q \in Readers /\ q.state # "detached" /\ Reads(log, Len(log), q)
<1> DEFINE q == Attached("following", s, FALSE, 0)
<1>1. q \in Readers /\ Replay(s, FALSE, 0) = q
  BY AttachedReader DEF Replay
<1>2. NotBegun(log, Len(log), q)
  BY DEF NotBegun, Attached, At, StartsOf
<1>3. Reads(log, Len(log), q) /\ q.state # "detached"
  BY <1>2 DEF Reads, Attached
<1> QED BY <1>1, <1>3

\* A consumer that replays a stream from its start
LEMMA ReplayStart ==
    ASSUME log \in Seq(LogEvents), InSequence(log), NEW s \in Streams, NEW from \in StartsOf(s)
    PROVE  LET q == Replay(s, FALSE, from)
           IN  q \in Readers /\ q.state # "detached" /\ Reads(log, Len(log), q)
<1> DEFINE r == Attached("following", s, FALSE, from)
           events == SubSeq(log, from, Len(log))
<1>1. from \in 1 .. Len(log) /\ from \in 1 .. Len(log) + 1 /\ from \in Nat /\ from # 0
      /\ At(log, from, "agent_start", s) /\ from - 1 \in 0 .. Len(log) - 1 /\ from - 1 \in 0 .. Len(log)
      /\ (from - 1) + 1 = from /\ Len(log) \in Nat
  BY DEF StartsOf, At
<1>2. r \in Readers /\ Replay(s, FALSE, from) = QueuedAll(r, events)
  BY <1>1, AttachedReader DEF Replay
<1>3. /\ events \in Seq(LogEvents) /\ Len(events) = Len(log) + 1 - from
      /\ \A k \in 1 .. Len(events) : events[k] = log[(from - 1) + k]
  BY <1>1, LastOfLog
<1> HIDE DEF events
<1>4. PICK g : /\ g[0] = r /\ \A n \in 1 .. Len(events) : g[n] = Queued(g[n - 1], events[n])
               /\ QueuedAll(r, events) = g[Len(events)]
  BY <1>3, QueuedAllSteps
<1>5. 1 \in 1 .. Len(events) /\ 1 \in 0 .. Len(events) /\ (from - 1) + Len(events) = Len(log) /\ Len(events) \in Nat
  BY <1>1, <1>3
<1>6. r.state = "following" /\ r.tracked = s /\ r.begun = FALSE /\ r.from = from /\ r.got = << >> /\ r.queue = << >>
  BY DEF Attached
<1> HIDE DEF r
<1> DEFINE q == Queued(r, log[from])
<1>7. g[1] = q
  <2>1. g[1] = Queued(g[1 - 1], events[1]) /\ 1 - 1 = 0 /\ (from - 1) + 1 = from
    BY <1>1, <1>4, <1>5
  <2>2. events[1] = log[(from - 1) + 1]
    BY <1>3, <1>5
  <2> QED BY <1>4, <2>1, <2>2
<1>8. log[from] \in LogEvents /\ log[from].type = "agent_start" /\ log[from].stream = s
  BY <1>1 DEF At
<1>9. /\ q \in Readers /\ q.got = r.got /\ q.queue = Append(r.queue, log[from]) /\ q.from = from
      /\ q.tracked = s /\ q.begun /\ q.state = "following"
  BY <1>2, <1>6, <1>8, QueuedReader
<1> HIDE DEF q
<1>10. Reads(log, (from - 1) + 1, q)
  <2>1. Begins(log, (from - 1) + 1, q, from)
    BY <1>1, <1>9 DEF Begins
  <2>2. r.got \o r.queue = EventsOf(log, s, from)[from - 1]
    <3>1. EventsOf(log, s, from)[from - 1] = << >>
      <4>1. from - 1 < from
        BY <1>1
      <4> QED BY <1>1, <4>1, EventsOfSteps
    <3>2. r.got \o r.queue = << >>
      BY <1>6, ConcatEmptySeq, EmptySeq
    <3> QED BY <3>1, <3>2
  <2>3. \A i \in from .. from - 1 : ~At(log, i, "agent_end", s)
    BY <1>1
  <2>4. q.tracked \in Streams /\ log[(from - 1) + 1].stream = q.tracked
        /\ q.queue = Append(r.queue, log[(from - 1) + 1]) /\ from <= (from - 1) + 1
        /\ q.state = IF log[(from - 1) + 1].type = "agent_end" THEN "ending" ELSE "following"
    BY <1>1, <1>8, <1>9
  <2> QED BY <1>1, <1>2, <1>9, <2>1, <2>2, <2>3, <2>4, TakesIn
<1>11. g[1] \in Readers /\ g[1].state # "detached" /\ Reads(log, (from - 1) + 1, g[1])
  BY <1>7, <1>9, <1>10
<1>12. LET p == g[Len(events)] IN p \in Readers /\ p.state # "detached" /\ Reads(log, Len(log), p)
  BY <1>1, <1>3, <1>4, <1>5, <1>11, CatchUp
<1> QED BY <1>2, <1>4, <1>12

\* A consumer that goes on after an event within its stream
LEMMA ReplayAfter ==
    ASSUME log \in Seq(LogEvents), InSequence(log), NEW s \in Streams, NEW i \in 1 .. Len(log)
    PROVE  LET q == Replay(s, TRUE, i + 1)
           IN  q \in Readers /\ q.state # "detached" /\ Reads(log, Len(log), q)
<1> DEFINE r == Attached("following", s, TRUE, i + 1)
           events == SubSeq(log, i + 1, Len(log))
<1>1. i + 1 \in 1 .. Len(log) + 1 /\ i \in Nat /\ i + 1 \in Nat /\ i + 1 # 0 /\ (i + 1) - 1 = i
      /\ i \in 0 .. Len(log) /\ Len(log) \in Nat /\ i < i + 1
  OBVIOUS
<1>2. r \in Readers /\ Replay(s, TRUE, i + 1) = QueuedAll(r, events)
  BY <1>1, AttachedReader DEF Replay
<1>3. /\ events \in Seq(LogEvents) /\ Len(events) = Len(log) + 1 - (i + 1)
      /\ \A k \in 1 .. Len(events) : events[k] = log[i + k]
  BY <1>1, LastOfLog
<1> HIDE DEF events
<1>4. Reads(log, i, r)
  <2>1. Begins(log, i, r, i + 1)
    BY <1>1 DEF Begins, Attached
  <2>2. r.got \o r.queue = EventsOf(log, s, i + 1)[i]
    <3>1. EventsOf(log, s, i + 1)[i] = << >>
      BY <1>1, EventsOfSteps
    <3>2. r.got \o r.queue = << >>
      BY ConcatEmptySeq, EmptySeq DEF Attached
    <3> QED BY <3>1, <3>2
  <2>3. \A j \in i + 1 .. i : ~At(log, j, "agent_end", s)
    BY <1>1
  <2>4. r.begun /\ r.tracked = s /\ r.state = "following"
    BY DEF Attached
  <2> HIDE DEF r
  <2>5. Within(log, i, r)
    BY <1>1, <2>1, <2>2, <2>3, <2>4 DEF Within
  <2> QED BY <2>4, <2>5 DEF Reads
<1>5. r.state # "detached" /\ i + Len(events) = Len(log)
  BY <1>1, <1>3 DEF Attached
<1> HIDE DEF r
<1> QED BY <1>1, <1>2, <1>3, <1>4, <1>5, CatchUpAll

\* A consumer that goes on after the end of its stream
LEMMA ReplayEnd ==
    ASSUME log \in Seq(LogEvents), NEW s \in Streams, NEW i \in 1 .. Len(log), At(log, i, "agent_end", s)
    PROVE  LET q == Attached("ending", s, TRUE, i + 1)
           IN  q \in Readers /\ q.state # "detached" /\ Reads(log, Len(log), q)
<1> DEFINE q == Attached("ending", s, TRUE, i + 1)
<1>1. i + 1 \in 1 .. Len(log) + 1 /\ i + 1 \in Nat /\ i + 1 # 0 /\ i \in 1 .. (i + 1) - 1
  OBVIOUS
<1>2. q.state = "ending" /\ q.tracked = s /\ q.from = i + 1 /\ q.got = << >> /\ q.queue = << >>
  BY DEF Attached
<1>3. q \in Readers
  BY <1>1, AttachedReader
<1> HIDE DEF q
<1>4. Past(log, Len(log), q)
  <2>1. Begins(log, Len(log), q, i + 1)
    BY <1>1, <1>2 DEF Begins
  <2>2. q.got \o q.queue = << >>
    BY <1>2, ConcatEmptySeq, EmptySeq
  <2> QED BY <1>1, <1>2, <2>1, <2>2 DEF Past
<1>5. Reads(log, Len(log), q) /\ q.state # "detached"
  BY <1>2, <1>4 DEF Reads
<1> QED BY <1>3, <1>5 DEF q

\* What a consumer knows says what it has got.
LEMMA ReadsInStream ==
    ASSUME log \in Seq(LogEvents), InSequence(log), NEW r \in Readers, r.state # "detached",
           Reads(log, Len(log), r)
    PROVE  r.got \o r.queue = InStream(r)
<1> DEFINE s == r.tracked
           from == IF r.from = 0 THEN FirstStart(s) ELSE r.from
           ends == {i \in 1 .. Len(log) : i >= from /\ log[i].type = "agent_end" /\ log[i].stream = s}
           to == IF ends = {} THEN Len(log) ELSE CHOOSE i \in ends : \A j \in ends : i <= j
<1>1. InStream(r) = IF s = NoStream THEN << >> ELSE IF from = 0 THEN << >> ELSE EventsOf(log, s, from)[to]
  BY DEF InStream
<1>2. Len(log) \in Nat /\ s \in Streams \cup {NoStream} /\ r.from \in Nat
  BY DEF Readers
<1>3. NoStream \notin Streams
  BY StreamConstants DEF Streams, NoStream
<1>4. ASSUME NEW first \in Nat, Begins(log, Len(log), r, first) PROVE from = first /\ from # 0
  <2>1. CASE r.from = 0
    <3>1. first \in StartsOf(s)
      BY <1>4, <2>1 DEF Begins, At, StartsOf
    <3>2. FirstStart(s) \in StartsOf(s) /\ FirstStart(s) <= first
      BY <3>1, FirstOfStarts
    <3>3. ~(FirstStart(s) < first)
      <4> SUFFICES ASSUME FirstStart(s) < first PROVE FALSE
        OBVIOUS
      <4>1. first \in 1 .. Len(log) /\ FirstStart(s) \in 1 .. first - 1
        BY <3>1, <3>2 DEF StartsOf
      <4> QED BY <3>1, <3>2, <4>1 DEF InSequence, StartsOf
    <3>4. FirstStart(s) = first /\ first \in 1 .. Len(log)
      BY <3>1, <3>2, <3>3 DEF StartsOf
    <3> QED BY <2>1, <3>4
  <2>2. CASE r.from # 0
    BY <1>4, <2>2 DEF Begins
  <2> QED BY <2>1, <2>2
<1>5. CASE NotBegun(log, Len(log), r)
  <2>1. r.got \o r.queue = << >> /\ r.from = 0
    BY <1>5, ConcatEmptySeq, EmptySeq DEF NotBegun
  <2>2. StartsOf(s) = {}
    BY <1>5 DEF NotBegun, StartsOf, At
  <2>3. from = 0
    BY <2>1, <2>2, FirstOfStarts
  <2> QED BY <1>1, <2>1, <2>3
<1>6. CASE Within(log, Len(log), r)
  <2>1. PICK first \in Nat :
         /\ Begins(log, Len(log), r, first)
         /\ r.got \o r.queue = EventsOf(log, s, first)[Len(log)]
         /\ \A i \in first .. Len(log) : ~At(log, i, "agent_end", s)
    BY <1>6 DEF Within
  <2>2. from = first /\ from # 0 /\ s # NoStream
    BY <1>3, <1>4, <1>6, <2>1 DEF Within
  <2>3. ends = {}
    BY <2>1, <2>2 DEF At
  <2> QED BY <1>1, <2>1, <2>2, <2>3
<1>7. CASE Past(log, Len(log), r)
  <2>1. PICK first \in Nat :
         /\ Begins(log, Len(log), r, first)
         /\ \/ \E end \in first .. Len(log) : /\ At(log, end, "agent_end", s)
                                       /\ r.got \o r.queue = EventsOf(log, s, first)[end]
            \/ /\ \E end \in 1 .. first - 1 : At(log, end, "agent_end", s)
               /\ r.got \o r.queue = << >>
    BY <1>7 DEF Past
  <2>2. from = first /\ from # 0 /\ s # NoStream /\ first <= Len(log) + 1
    BY <1>2, <1>3, <1>4, <1>7, <2>1 DEF Past, Begins
  <2> HIDE DEF from
  <2>3. CASE \E end \in first .. Len(log) : /\ At(log, end, "agent_end", s)
                                       /\ r.got \o r.queue = EventsOf(log, s, first)[end]
    <3>1. PICK end \in first .. Len(log) : /\ At(log, end, "agent_end", s)
                                       /\ r.got \o r.queue = EventsOf(log, s, first)[end]
      BY <2>3
    <3>2. end \in ends
      BY <1>2, <2>2, <3>1 DEF At
    <3>3. ASSUME NEW j \in ends PROVE j = end
      <4>1. ~(j < end) /\ ~(end < j)
        BY <3>2, <3>3 DEF InSequence
      <4> QED BY <3>2, <3>3, <4>1
    <3>4. ends = {end}
      BY <3>2, <3>3
    <3>5. to = end
      BY <3>4
    <3> QED BY <1>1, <2>2, <3>1, <3>5
  <2>4. CASE /\ \E end \in 1 .. first - 1 : At(log, end, "agent_end", s)
             /\ r.got \o r.queue = << >>
    <3>1. PICK end \in 1 .. first - 1 : At(log, end, "agent_end", s)
      BY <2>4
    <3>2. end \in 1 .. Len(log)
      BY <1>2, <2>2
    <3>3. \A i \in 1 .. Len(log) : i >= first => log[i].stream # s
      <4>1. SUFFICES ASSUME NEW i \in 1 .. Len(log), i >= first, log[i].stream = s PROVE FALSE
        OBVIOUS
      <4>2. end \in 1 .. i - 1
        BY <3>1, <4>1
      <4> QED BY <3>1, <4>1, <4>2 DEF InSequence, At
    <3>4. ends = {}
      BY <2>2, <3>3
    <3>5. EventsOf(log, s, first)[Len(log)] = << >>
      <4>1. Len(log) \in 0 .. Len(log)
        BY <1>2
      <4> QED BY <3>3, <4>1, EventsOfNone
    <3> QED BY <1>1, <2>2, <2>4, <3>4, <3>5
  <2> QED BY <2>1, <2>3, <2>4
<1> QED
  <2>1. r.state \in {"following", "ending", "ended"}
    BY DEF Readers
  <2> QED BY <1>5, <1>6, <1>7, <2>1 DEF Reads

-----------------------------------------------------------------------------
\* The log, and what each consumer knows of it

\* There is no event of this type of the stream in the log.
None(type, s) == \A i \in 1 .. Len(log) : ~At(log, i, type, s)

\* The log is in sequence, and goes on so: a stream that is not sent has no
\* events, the one whose loop is under way has not ended, and one whose loop is
\* to start has not started.
LogInv ==
    /\ log \in Seq(LogEvents) /\ InSequence(log)
    /\ \A s \in Streams :
         /\ loop[s] = "new" => \A i \in 1 .. Len(log) : log[i].stream # s
         /\ loop[s] \in {"scheduled", "running"} => current = s /\ None("agent_end", s)
         /\ loop[s] = "scheduled" => None("agent_start", s)

\* A consumer that follows knows the whole log.
ReaderInv ==
    /\ reader \in [Consumers -> Readers]
    /\ \A c \in Consumers : reader[c].state # "detached" => Reads(log, Len(log), reader[c])

\* Events of a stream that has not ended are added to the log.
LEMMA Appended ==
    ASSUME NEW h \in Seq(LogEvents), InSequence(h), NEW events \in Seq(LogEvents), NEW s,
           \A i \in 1 .. Len(h) : ~At(h, i, "agent_end", s),
           \A k \in 1 .. Len(events) : events[k].stream = s,
           \A k \in 1 .. Len(events) - 1 : events[k].type # "agent_end",
           \A k \in 1 .. Len(events) : events[k].type = "agent_start" =>
             Len(events) = 1 /\ \A i \in 1 .. Len(h) : ~At(h, i, "agent_start", s)
    PROVE  /\ h \o events \in Seq(LogEvents) /\ Len(h \o events) = Len(h) + Len(events)
           /\ \A i \in 1 .. Len(h) : (h \o events)[i] = h[i]
           /\ \A k \in 1 .. Len(events) : (h \o events)[Len(h) + k] = events[k]
           /\ InSequence(h \o events)
<1> DEFINE g == h \o events
<1>1. /\ g \in Seq(LogEvents) /\ Len(g) = Len(h) + Len(events)
      /\ \A i \in 1 .. Len(h) : g[i] = h[i]
      /\ \A k \in 1 .. Len(events) : g[Len(h) + k] = events[k]
      /\ Len(h) \in Nat /\ Len(events) \in Nat
  OBVIOUS
<1> HIDE DEF g
<1>2. ASSUME NEW j \in 1 .. Len(g), NEW i \in 1 .. j - 1, g[i].stream = g[j].stream
      PROVE  g[i].type # "agent_end" /\ ~(g[i].type = "agent_start" /\ g[j].type = "agent_start")
  <2>1. CASE j <= Len(h)
    <3>1. j \in 1 .. Len(h) /\ i \in 1 .. Len(h) /\ g[j] = h[j] /\ g[i] = h[i]
      BY <1>1, <2>1
    <3> QED BY <1>2, <3>1 DEF InSequence
  <2>2. CASE j > Len(h) /\ i <= Len(h)
    <3>1. PICK k \in 1 .. Len(events) : j = Len(h) + k
      <4>1. j - Len(h) \in 1 .. Len(events) /\ j = Len(h) + (j - Len(h))
        BY <1>1, <2>2
      <4> QED BY <4>1
    <3>2. i \in 1 .. Len(h) /\ g[i] = h[i] /\ g[j] = events[k]
      BY <1>1, <2>2, <3>1
    <3>3. h[i].stream = s
      BY <1>2, <3>2
    <3> QED BY <3>2, <3>3 DEF At
  <2>3. CASE i > Len(h)
    <3>1. PICK k \in 1 .. Len(events), l \in 1 .. Len(events) - 1 : j = Len(h) + k /\ i = Len(h) + l /\ l < k
      <4>1. j - Len(h) \in 1 .. Len(events) /\ j = Len(h) + (j - Len(h))
            /\ i - Len(h) \in 1 .. Len(events) - 1 /\ i = Len(h) + (i - Len(h)) /\ i - Len(h) < j - Len(h)
        BY <1>1, <2>3
      <4> QED BY <4>1
    <3>2. l \in 1 .. Len(events) /\ g[i] = events[l] /\ Len(events) # 1
      BY <1>1, <3>1
    <3> QED BY <3>1, <3>2
  <2> QED BY <1>1, <2>1, <2>2, <2>3
<1>3. InSequence(g)
  BY <1>2 DEF InSequence
<1> QED BY <1>1, <1>3 DEF g

\* What is emitted is added to the log, and taken in by each consumer at once.
LEMMA Emitted ==
    ASSUME LogInv, ReaderInv, NEW s \in Streams, None("agent_end", s),
           NEW events \in Seq(LogEvents), Emit(events),
           \A k \in 1 .. Len(events) : events[k].stream = s,
           \A k \in 1 .. Len(events) - 1 : events[k].type # "agent_end",
           \A k \in 1 .. Len(events) : events[k].type = "agent_start" =>
             Len(events) = 1 /\ None("agent_start", s)
    PROVE  /\ log' \in Seq(LogEvents) /\ InSequence(log') /\ ReaderInv'
           /\ \A i \in 1 .. Len(log') :
                \/ i \in 1 .. Len(log) /\ log'[i] = log[i]
                \/ \E k \in 1 .. Len(events) : log'[i] = events[k]
<1>1. log \in Seq(LogEvents) /\ InSequence(log) /\ log' = log \o events
  BY DEF LogInv, Emit
<1>2. /\ log' \in Seq(LogEvents) /\ Len(log') = Len(log) + Len(events)
      /\ \A i \in 1 .. Len(log) : log'[i] = log[i]
      /\ \A k \in 1 .. Len(events) : log'[Len(log) + k] = events[k]
      /\ InSequence(log')
  BY <1>1, Appended DEF None
<1>3. Len(log) \in Nat /\ Len(events) \in Nat /\ Len(log) \in 0 .. Len(log')
  BY <1>1, <1>2
<1>4. ASSUME NEW c \in Consumers
      PROVE  /\ reader'[c] \in Readers
             /\ reader'[c].state # "detached" => Reads(log', Len(log'), reader'[c])
  <2>1. reader[c] \in Readers /\ reader'[c] = QueuedAll(reader[c], events)
    BY DEF ReaderInv, Emit
  <2>2. CASE reader[c].state = "detached"
    <3>1. QueuedAll(reader[c], events) = reader[c]
      BY <2>2, DetachedStays
    <3> QED BY <2>1, <2>2, <3>1
  <2>3. CASE reader[c].state # "detached"
    <3>1. Reads(log', Len(log), reader[c])
      <4>1. Reads(log, Len(log), reader[c])
        BY <2>3 DEF ReaderInv
      <4>2. Len(log) <= Len(log')
        BY <1>2, <1>3
      <4> QED BY <1>1, <1>2, <2>1, <4>1, <4>2, ReadsStays
    <3>2. Len(log) + Len(events) = Len(log') /\ \A k \in 1 .. Len(events) : events[k] = log'[Len(log) + k]
      BY <1>2
    <3>3. LET q == QueuedAll(reader[c], events)
          IN  q \in Readers /\ q.state # "detached" /\ Reads(log', Len(log'), q)
      BY <1>2, <1>3, <2>1, <2>3, <3>1, <3>2, CatchUpAll
    <3> QED BY <2>1, <3>3
  <2> QED BY <2>2, <2>3
<1>5. ReaderInv'
  <2>1. reader' = [c \in Consumers |-> QueuedAll(reader[c], events)]
    BY DEF Emit
  <2>2. reader' \in [Consumers -> Readers]
    <3>1. reader' = [c \in Consumers |-> reader'[c]]
      BY <2>1
    <3> QED BY <1>4, <3>1
  <2> QED BY <1>4, <2>2 DEF ReaderInv
<1>6. ASSUME NEW i \in 1 .. Len(log')
      PROVE  \/ i \in 1 .. Len(log) /\ log'[i] = log[i]
             \/ \E k \in 1 .. Len(events) : log'[i] = events[k]
  <2>1. CASE i <= Len(log)
    BY <1>2, <1>3, <2>1
  <2>2. CASE i > Len(log)
    <3>1. i - Len(log) \in 1 .. Len(events) /\ i = Len(log) + (i - Len(log))
      BY <1>2, <1>3, <2>2
    <3>2. log'[Len(log) + (i - Len(log))] = events[i - Len(log)]
      BY <1>2, <3>1
    <3> QED BY <3>1, <3>2
  <2> QED BY <1>2, <1>3, <2>1, <2>2
<1> QED BY <1>2, <1>5, <1>6

\* The same, for what the loop that is under way emits
LEMMA EmittedNow ==
    ASSUME LogInv, ReaderInv, NEW s \in Streams, current = s, None("agent_end", s),
           NEW types \in Seq(Types), Emits(types),
           \A k \in 1 .. Len(types) - 1 : types[k] # "agent_end",
           \A k \in 1 .. Len(types) : types[k] = "agent_start" => Len(types) = 1 /\ None("agent_start", s)
    PROVE  /\ log' \in Seq(LogEvents) /\ InSequence(log') /\ ReaderInv'
           /\ \A i \in 1 .. Len(log') :
                \/ i \in 1 .. Len(log) /\ log'[i] = log[i]
                \/ log'[i].stream = s /\ \E k \in 1 .. Len(types) : log'[i].type = types[k]
<1> DEFINE events == [i \in 1 .. Len(types) |-> Event(types[i], current)]
<1>1. Len(types) \in Nat /\ \A k \in 1 .. Len(types) : types[k] \in Types
  OBVIOUS
<1>2. \A k \in 1 .. Len(types) : events[k] = Event(types[k], s) /\ Event(types[k], s) \in LogEvents
  BY <1>1 DEF Event, LogEvents
<1>3. events \in Seq(LogEvents) /\ Len(events) = Len(types)
  BY <1>1, <1>2
<1>4. Emit(events)
  BY DEF Emits
<1> HIDE DEF events
<1>5. \A k \in 1 .. Len(types) : events[k].stream = s /\ events[k].type = types[k]
  <2>1. ASSUME NEW k \in 1 .. Len(types) PROVE events[k].stream = s /\ events[k].type = types[k]
    <3>1. events[k] = Event(types[k], s)
      BY <1>2
    <3> QED BY <3>1 DEF Event
  <2> QED BY <2>1
<1>6. /\ \A k \in 1 .. Len(events) : events[k].stream = s
      /\ \A k \in 1 .. Len(events) - 1 : events[k].type # "agent_end"
      /\ \A k \in 1 .. Len(events) : events[k].type = "agent_start" => Len(events) = 1 /\ None("agent_start", s)
  BY <1>1, <1>3, <1>5
<1>7. /\ log' \in Seq(LogEvents) /\ InSequence(log') /\ ReaderInv'
      /\ \A i \in 1 .. Len(log') :
           \/ i \in 1 .. Len(log) /\ log'[i] = log[i]
           \/ \E k \in 1 .. Len(events) : log'[i] = events[k]
  BY <1>3, <1>4, <1>6, Emitted
<1> QED BY <1>3, <1>5, <1>7

\* A consumer is changed, and the log is not.
LEMMA ReaderStep ==
    ASSUME ReaderInv, UNCHANGED log, NEW c \in Consumers, NEW r \in Readers,
           r.state # "detached" => Reads(log, Len(log), r), reader' = [reader EXCEPT ![c] = r]
    PROVE  ReaderInv'
<1>1. \A d \in Consumers : reader'[d] = IF d = c THEN r ELSE reader[d]
  BY DEF ReaderInv
<1>2. reader' \in [Consumers -> Readers]
  BY DEF ReaderInv
<1>3. ASSUME NEW d \in Consumers, reader'[d].state # "detached" PROVE Reads(log', Len(log'), reader'[d])
  <2>1. CASE d = c
    BY <1>1, <1>3, <2>1
  <2>2. CASE d # c
    BY <1>1, <1>3, <2>2 DEF ReaderInv
  <2> QED BY <2>1, <2>2
<1> QED BY <1>2, <1>3 DEF ReaderInv

\* What the loop of one stream does keeps the invariant of the log: there is
\* none of a stream that is not sent, and no other loop is under way.
LEMMA LoopLog ==
    ASSUME StreamInv, LogInv, NEW s \in Streams, loop[s] \in {"scheduled", "running"},
           current' = current, NEW pc \in {"running", "closing", "done"}, loop' = [loop EXCEPT ![s] = pc],
           log' \in Seq(LogEvents), InSequence(log'),
           \A i \in 1 .. Len(log') : (i \in 1 .. Len(log) /\ log'[i] = log[i]) \/ log'[i].stream = s,
           pc = "running" => None("agent_end", s)'
    PROVE  LogInv'
<1>1. current = s /\ loop \in [Streams -> {"new", "scheduled", "running", "closing", "done"}]
  BY DEF LogInv, StreamInv
<1>2. ASSUME NEW t \in Streams, t # s
      PROVE  /\ loop'[t] = loop[t] /\ loop[t] \notin {"scheduled", "running"}
             /\ loop[t] = "new" => \A i \in 1 .. Len(log') : log'[i].stream # t
  BY <1>1, <1>2 DEF LogInv
<1>3. loop'[s] = pc
  BY <1>1
<1>4. \A t \in Streams :
         /\ loop'[t] = "new" => \A i \in 1 .. Len(log') : log'[i].stream # t
         /\ loop'[t] \in {"scheduled", "running"} => current' = t /\ None("agent_end", t)'
         /\ loop'[t] = "scheduled" => None("agent_start", t)'
  BY <1>1, <1>2, <1>3
<1> QED BY <1>4 DEF LogInv

\* A message that is sent: its stream has no events yet, and no loop is under way.
LEMMA SendStep == ASSUME StreamInv, LogInv, ReaderInv, NEW s \in Streams, Send(s) PROVE LogInv' /\ ReaderInv'
<1>1. /\ loop[s] = "new" /\ activeStream = NoStream /\ current' = s /\ loop' = [loop EXCEPT ![s] = "scheduled"]
      /\ Emit(<<Event("user", s)>>)
  BY DEF Send, MaySend
<1> DEFINE events == <<Event("user", s)>>
<1>2. Event("user", s) \in LogEvents /\ Event("user", s).type = "user" /\ Event("user", s).stream = s
  BY DEF Event, LogEvents, Types
<1>3. /\ events \in Seq(LogEvents) /\ Len(events) = 1 /\ \A k \in 1 .. Len(events) : events[k] = Event("user", s)
  BY <1>2
<1>4. \A i \in 1 .. Len(log) : log[i].stream # s
  BY <1>1 DEF LogInv
<1>5. None("agent_end", s) /\ None("agent_start", s)
  BY <1>4 DEF None, At
<1> HIDE DEF events
<1>6. /\ \A k \in 1 .. Len(events) : events[k].stream = s
      /\ \A k \in 1 .. Len(events) - 1 : events[k].type # "agent_end"
      /\ \A k \in 1 .. Len(events) : events[k].type = "agent_start" => Len(events) = 1 /\ None("agent_start", s)
  BY <1>2, <1>3
<1>7. Emit(events)
  BY <1>1 DEF events
<1>8. /\ log' \in Seq(LogEvents) /\ InSequence(log') /\ ReaderInv'
      /\ \A i \in 1 .. Len(log') :
           \/ i \in 1 .. Len(log) /\ log'[i] = log[i]
           \/ \E k \in 1 .. Len(events) : log'[i] = events[k]
  BY <1>3, <1>5, <1>6, <1>7, Emitted
<1>9. \A i \in 1 .. Len(log') : \/ i \in 1 .. Len(log) /\ log'[i] = log[i]
                                \/ log'[i].stream = s /\ log'[i].type = "user"
  BY <1>2, <1>3, <1>8
<1>10. ASSUME NEW t \in Streams
       PROVE  /\ loop'[t] = "new" => \A i \in 1 .. Len(log') : log'[i].stream # t
              /\ loop'[t] \in {"scheduled", "running"} => current' = t /\ None("agent_end", t)'
              /\ loop'[t] = "scheduled" => None("agent_start", t)'
  <2>1. loop \in [Streams -> {"new", "scheduled", "running", "closing", "done"}]
    BY DEF StreamInv
  <2>2. CASE t = s
    <3>1. None("agent_end", s)' /\ None("agent_start", s)'
      BY <1>5, <1>9 DEF None, At
    <3> QED BY <1>1, <2>1, <2>2, <3>1
  <2>3. CASE t # s
    <3>1. loop'[t] = loop[t] /\ loop[t] \notin {"scheduled", "running"}
      BY <1>1, <2>1, <2>3, StreamConstants DEF StreamInv, LoopKeepsActive, Streams, NoStream
    <3>2. loop[t] = "new" => \A i \in 1 .. Len(log') : log'[i].stream # t
      BY <1>9, <2>3 DEF LogInv
    <3> QED BY <3>1, <3>2
  <2> QED BY <2>2, <2>3
<1> QED BY <1>8, <1>10 DEF LogInv

\* At most one type
LEMMA OneType ==
    /\ << >> \in Seq(Types) /\ Len(<< >>) = 0
    /\ \A t \in Types : <<t>> \in Seq(Types) /\ Len(<<t>>) = 1 /\ <<t>>[1] = t
<1>1. << >> \in Seq(Types) /\ Len(<< >>) = 0
  BY EmptySeq
<1>2. ASSUME NEW t \in Types PROVE <<t>> \in Seq(Types) /\ Len(<<t>>) = 1 /\ <<t>>[1] = t
  OBVIOUS
<1> QED BY <1>1, <1>2

\* The loop starts, and so does the agent.
LEMMA StartStep == ASSUME StreamInv, LogInv, ReaderInv, NEW s \in Streams, Start(s) PROVE LogInv' /\ ReaderInv'
<1> DEFINE types == IF startEmitted THEN << >> ELSE <<"agent_start">>
<1>1. /\ loop[s] = "scheduled" /\ loop' = [loop EXCEPT ![s] = "running"] /\ Emits(types) /\ current' = current
  BY DEF Start
<1>2. current = s /\ None("agent_end", s) /\ None("agent_start", s)
  BY <1>1 DEF LogInv
<1>3. /\ types \in Seq(Types) /\ \A k \in 1 .. Len(types) - 1 : types[k] # "agent_end"
      /\ \A k \in 1 .. Len(types) : types[k] = "agent_start" /\ Len(types) = 1
  <2> HIDE DEF types
  <2>1. CASE types = << >>
    BY <2>1, OneType
  <2>2. CASE types = <<"agent_start">>
    <3>1. "agent_start" \in Types
      BY DEF Types
    <3> QED BY <2>2, <3>1, OneType
  <2> QED BY <2>1, <2>2 DEF types
<1> HIDE DEF types
<1>4. /\ log' \in Seq(LogEvents) /\ InSequence(log') /\ ReaderInv'
      /\ \A i \in 1 .. Len(log') :
           \/ i \in 1 .. Len(log) /\ log'[i] = log[i]
           \/ log'[i].stream = s /\ \E k \in 1 .. Len(types) : log'[i].type = types[k]
  BY <1>1, <1>2, <1>3, EmittedNow
<1>5. None("agent_end", s)'
  BY <1>2, <1>3, <1>4 DEF None, At
<1> QED BY <1>1, <1>4, <1>5, LoopLog

\* A message of the stream that is under way
LEMMA MessageStep == ASSUME StreamInv, LogInv, ReaderInv, NEW s \in Streams, Message(s) PROVE LogInv' /\ ReaderInv'
<1> DEFINE types == <<"message">>
<1>1. loop[s] = "running" /\ loop' = loop /\ Emits(types) /\ current' = current
  BY DEF Message
<1>2. current = s /\ None("agent_end", s)
  BY <1>1 DEF LogInv
<1>3. types \in Seq(Types) /\ Len(types) = 1 /\ \A k \in 1 .. Len(types) : types[k] = "message"
  BY DEF Types
<1> HIDE DEF types
<1>4. /\ log' \in Seq(LogEvents) /\ InSequence(log') /\ ReaderInv'
      /\ \A i \in 1 .. Len(log') :
           \/ i \in 1 .. Len(log) /\ log'[i] = log[i]
           \/ log'[i].stream = s /\ \E k \in 1 .. Len(types) : log'[i].type = types[k]
  BY <1>1, <1>2, <1>3, EmittedNow
<1>5. None("agent_end", s)'
  BY <1>2, <1>3, <1>4 DEF None, At
<1>6. loop' = [loop EXCEPT ![s] = "running"]
  BY <1>1 DEF StreamInv
<1> QED BY <1>1, <1>4, <1>5, <1>6, LoopLog

\* The agent's end is the last event of its stream.
LEMMA LoopEndStep ==
    ASSUME StreamInv, LogInv, ReaderInv, NEW s \in Streams, FinishStream(s) \/ RunThrows(s)
    PROVE  LogInv' /\ ReaderInv'
<1>1. PICK pc \in {"closing", "done"} : loop' = [loop EXCEPT ![s] = pc]
  BY DEF FinishStream, RunThrows
<1>2. loop[s] = "running" /\ current' = current
  BY DEF FinishStream, RunThrows
<1>3. current = s /\ None("agent_end", s)
  BY <1>2 DEF LogInv
<1>4. PICK first \in {<< >>, <<"error">>}, last \in {<< >>, <<"agent_end">>} : Emits(first \o last)
  <2>1. LastEvents \in {<< >>, <<"agent_end">>}
    BY DEF LastEvents
  <2>2. CASE FinishStream(s)
    <3>1. Emits(LastEvents) /\ << >> \o LastEvents = LastEvents
      <4>1. LastEvents \in Seq(Types)
        <5>1. "agent_end" \in Types
          BY DEF Types
        <5> QED BY <2>1, <5>1, OneType
      <4> QED BY <2>2, <4>1, ConcatEmptySeq DEF FinishStream
    <3>2. Emits(<< >> \o LastEvents)
      BY <3>1
    <3> QED BY <2>1, <3>2
  <2>3. CASE RunThrows(s)
    BY <2>1, <2>3 DEF RunThrows
  <2> QED BY <2>2, <2>3
<1> DEFINE types == first \o last
<1>5. /\ types \in Seq(Types) /\ \A k \in 1 .. Len(types) - 1 : types[k] # "agent_end"
      /\ \A k \in 1 .. Len(types) : types[k] # "agent_start"
  <2>0. "error" \in Types /\ "agent_end" \in Types
    BY DEF Types
  <2>1. first \in Seq(Types) /\ Len(first) \in {0, 1} /\ \A k \in 1 .. Len(first) : first[k] = "error"
    <3>1. CASE first = << >>
      BY <3>1, OneType
    <3>2. CASE first = <<"error">>
      BY <2>0, <3>2, OneType
    <3> QED BY <3>1, <3>2
  <2>2. last \in Seq(Types) /\ Len(last) \in {0, 1} /\ \A k \in 1 .. Len(last) : last[k] = "agent_end"
    <3>1. CASE last = << >>
      BY <3>1, OneType
    <3>2. CASE last = <<"agent_end">>
      BY <2>0, <3>2, OneType
    <3> QED BY <3>1, <3>2
  <2>3. types \in Seq(Types) /\ Len(types) = Len(first) + Len(last)
        /\ \A k \in 1 .. Len(types) : types[k] = IF k <= Len(first) THEN first[k] ELSE last[k - Len(first)]
    BY <2>1, <2>2, ConcatProperties
  <2> HIDE DEF types
  <2>4. \A k \in 1 .. Len(types) - 1 : types[k] # "agent_end"
    BY <2>1, <2>2, <2>3
  <2>5. \A k \in 1 .. Len(types) : types[k] # "agent_start"
    BY <2>1, <2>2, <2>3
  <2> QED BY <2>3, <2>4, <2>5
<1> HIDE DEF types
<1>6. /\ log' \in Seq(LogEvents) /\ InSequence(log') /\ ReaderInv'
      /\ \A i \in 1 .. Len(log') :
           \/ i \in 1 .. Len(log) /\ log'[i] = log[i]
           \/ log'[i].stream = s /\ \E k \in 1 .. Len(types) : log'[i].type = types[k]
  BY <1>3, <1>4, <1>5, EmittedNow DEF types
<1>7. LogInv'
  BY <1>1, <1>2, <1>6, LoopLog
<1> QED BY <1>6, <1>7

\* A step that emits nothing and leaves the stream that events are made for
LEMMA QuietLog ==
    ASSUME StreamInv, LogInv, log' = log, current' = current,
           loop' = loop \/ \E s \in Streams : loop' = [loop EXCEPT ![s] = "done"]
    PROVE  LogInv'
<1>1. \A t \in Streams : loop'[t] \in {"new", "scheduled", "running"} => loop'[t] = loop[t]
  BY DEF StreamInv
<1> QED BY <1>1 DEF LogInv, None

\* However a consumer attaches, it has what the log holds for it.
LEMMA FollowStep ==
    ASSUME LogInv, ReaderInv, NEW c \in Consumers,
           FollowActive(c) \/ (\E s \in Streams : FollowStream(c, s))
             \/ \E i \in 1 .. Len(log) : FollowAfter(c, i)
    PROVE  ReaderInv'
<1> DEFINE Ready(q) == q \in Readers /\ q.state # "detached" /\ Reads(log, Len(log), q)
<1>1. log \in Seq(LogEvents) /\ InSequence(log)
  BY DEF LogInv
<1>2. ASSUME NEW s \in Streams PROVE Ready(Replay(s, FALSE, FirstStart(s)))
  <2>1. CASE StartsOf(s) = {}
    <3>1. FirstStart(s) = 0
      BY <2>1, FirstOfStarts
    <3> QED BY <1>1, <2>1, <3>1, ReplayNothing
  <2>2. CASE StartsOf(s) # {}
    <3>1. FirstStart(s) \in StartsOf(s)
      BY <2>2, FirstOfStarts
    <3> QED BY <1>1, <3>1, ReplayStart
  <2> QED BY <2>1, <2>2
<1>3. ASSUME NEW s \in Streams, FollowStream(c, s) PROVE \E q : Ready(q) /\ Follow(c, q)
  BY <1>2, <1>3 DEF FollowStream
<1>4. ASSUME FollowActive(c) PROVE \E q : Ready(q) /\ Follow(c, q)
  <2> DEFINE open == {s \in Streams : StartsOf(s) # {} /\ ~HasEnded(s)}
             Last(s) == \A t \in open : FirstStart(t) <= FirstStart(s)
  <2>1. CASE open = {}
    <3>1. StartsOf(NoStream) = {}
      BY <1>1, EventTypes, StreamConstants DEF StartsOf, Streams, NoStream
    <3>2. Ready(Replay(NoStream, FALSE, 0))
      BY <1>1, <3>1, ReplayNothing
    <3>3. Follow(c, Replay(NoStream, FALSE, 0))
      BY <1>4, <2>1 DEF FollowActive
    <3> QED BY <3>2, <3>3
  <2>2. CASE open # {}
    <3> DEFINE Left == {Len(log) - FirstStart(s) : s \in open}
    <3>1. Left \in SUBSET Nat /\ Left # {}
      <4>1. \A s \in open : FirstStart(s) \in 1 .. Len(log)
        BY FirstOfStarts DEF StartsOf
      <4>2. Len(log) \in Nat
        BY <1>1
      <4> QED BY <2>2, <4>1, <4>2
    <3>2. PICK m \in Left : \A k \in Left : m <= k
      BY <3>1, LeastNumber
    <3>3. PICK s \in open : m = Len(log) - FirstStart(s)
      OBVIOUS
    <3>4. Last(s)
      <4>1. ASSUME NEW t \in open PROVE FirstStart(t) <= FirstStart(s)
        <5>1. Len(log) - FirstStart(s) <= Len(log) - FirstStart(t)
          BY <3>2, <3>3
        <5>2. FirstStart(t) \in Nat /\ FirstStart(s) \in Nat /\ Len(log) \in Nat
          BY <1>1, FirstOfStarts
        <5> QED BY <5>1, <5>2
      <4> QED BY <4>1
    <3> DEFINE l == CHOOSE x \in open : Last(x)
    <3>5. l \in open
      BY <3>4
    <3>6. Follow(c, Replay(l, FALSE, FirstStart(l)))
      BY <1>4, <2>2 DEF FollowActive
    <3> HIDE DEF l
    <3>7. Ready(Replay(l, FALSE, FirstStart(l)))
      BY <1>2, <3>5
    <3> QED BY <3>6, <3>7
  <2> QED BY <2>1, <2>2
<1>5. ASSUME NEW i \in 1 .. Len(log), FollowAfter(c, i) PROVE \E q : Ready(q) /\ Follow(c, q)
  <2> DEFINE s == log[i].stream
  <2>1. s \in Streams
    BY <1>1, EventTypes
  <2>2. FirstStart(s) # 0
    BY <1>5 DEF FollowAfter
  <2>3. Follow(c, IF log[i].type = "agent_end" THEN Attached("ending", s, TRUE, i + 1)
                  ELSE IF FirstStart(s) <= i THEN Replay(s, TRUE, i + 1)
                  ELSE Replay(s, FALSE, FirstStart(s)))
    BY <1>5 DEF FollowAfter
  <2>4. log[i].type = "agent_end" => At(log, i, "agent_end", s)
    BY DEF At
  <2> HIDE DEF s
  <2>5. CASE log[i].type = "agent_end"
    BY <1>1, <2>1, <2>3, <2>4, <2>5, ReplayEnd
  <2>6. CASE log[i].type # "agent_end" /\ FirstStart(s) <= i
    BY <1>1, <2>1, <2>3, <2>6, ReplayAfter
  <2>7. CASE log[i].type # "agent_end" /\ ~(FirstStart(s) <= i)
    BY <1>2, <2>1, <2>3, <2>7
  <2> QED BY <2>5, <2>6, <2>7
<1>6. PICK q : Ready(q) /\ Follow(c, q)
  BY <1>3, <1>4, <1>5
<1>7. UNCHANGED log /\ reader' = [reader EXCEPT ![c] = q]
  BY <1>6 DEF Follow
<1> QED BY <1>6, <1>7, ReaderStep

\* What is queued is got next.
LEMMA GotNext ==
    ASSUME NEW got \in Seq(LogEvents), NEW queue \in Seq(LogEvents), queue # << >>
    PROVE  /\ Append(got, Head(queue)) \in Seq(LogEvents) /\ Tail(queue) \in Seq(LogEvents)
           /\ Append(got, Head(queue)) \o Tail(queue) = got \o queue
<1>1. Head(queue) \in LogEvents /\ Tail(queue) \in Seq(LogEvents) /\ Len(Tail(queue)) = Len(queue) - 1
      /\ \A i \in 1 .. Len(Tail(queue)) : Tail(queue)[i] = queue[i + 1]
  BY HeadTailProperties
<1>2. Head(queue) = queue[1] /\ Len(queue) \in Nat /\ Len(got) \in Nat /\ Len(queue) # 0
  BY EmptySeq
<1> DEFINE a == Append(got, Head(queue))
           t == Tail(queue)
           x == a \o t
           y == got \o queue
<1>3. a \in Seq(LogEvents) /\ Len(a) = Len(got) + 1 /\ a[Len(got) + 1] = queue[1]
      /\ \A i \in 1 .. Len(got) : a[i] = got[i]
  BY <1>1, <1>2
<1> HIDE DEF a, t
<1>4. x \in Seq(LogEvents) /\ y \in Seq(LogEvents) /\ Len(x) = Len(y) /\ Len(y) = Len(got) + Len(queue)
  BY <1>1, <1>2, <1>3 DEF t
<1>5. ASSUME NEW i \in 1 .. Len(y) PROVE x[i] = y[i]
  <2>1. CASE i <= Len(got)
    BY <1>1, <1>2, <1>3, <1>4, <2>1 DEF t
  <2>2. CASE i = Len(got) + 1
    BY <1>1, <1>2, <1>3, <1>4, <2>2 DEF t
  <2>3. CASE i > Len(got) + 1
    <3>1. t \in Seq(LogEvents) /\ i > Len(a) /\ i <= Len(a) + Len(t) /\ i \in Nat
      BY <1>1, <1>2, <1>3, <1>4, <2>3 DEF t
    <3>3. x[i] = t[i - Len(a)]
      BY <1>3, <3>1, ConcatProperties
    <3>4. y[i] = queue[i - Len(got)]
      BY <1>2, <1>4, <2>3, ConcatProperties
    <3>2. i - (Len(got) + 1) \in 1 .. Len(t) /\ (i - (Len(got) + 1)) + 1 = i - Len(got)
      BY <1>1, <1>2, <1>4, <2>3 DEF t
    <3> QED BY <1>1, <1>3, <3>2, <3>3, <3>4 DEF t
  <2> QED BY <1>2, <1>4, <2>1, <2>2, <2>3
<1> HIDE DEF x, y
<1>6. x = y
  BY <1>4, <1>5, SeqEqual
<1> QED BY <1>1, <1>3, <1>6 DEF a, t, x, y

\* What a step of a consumer makes of it
LEMMA ReaderYields ==
    ASSUME NEW c \in Consumers, reader \in [Consumers -> Readers],
           NEW f, f = [reader EXCEPT ![c].got = Append(@, Head(reader[c].queue)), ![c].queue = Tail(@)]
    PROVE  f = [reader EXCEPT ![c] =
                  [state |-> reader[c].state, tracked |-> reader[c].tracked, begun |-> reader[c].begun,
                   from |-> reader[c].from, queue |-> Tail(reader[c].queue),
                   got |-> Append(reader[c].got, Head(reader[c].queue))]]
<1> DEFINE got == Append(reader[c].got, Head(reader[c].queue))
           queue == Tail(reader[c].queue)
<1>1. PICK q : q = [reader[c] EXCEPT !.got = got, !.queue = queue]
  OBVIOUS
<1>2. f = [reader EXCEPT ![c] = q]
  BY <1>1 DEF Readers
<1> HIDE DEF got, queue
<1>3. q = [state |-> reader[c].state, tracked |-> reader[c].tracked, begun |-> reader[c].begun,
           from |-> reader[c].from, queue |-> queue, got |-> got]
  BY <1>1 DEF Readers
<1> QED BY <1>2, <1>3 DEF got, queue

\* And what its end makes of it
LEMMA ReaderEnds ==
    ASSUME NEW c \in Consumers, reader \in [Consumers -> Readers], NEW f, f = [reader EXCEPT ![c].state = "ended"]
    PROVE  f = [reader EXCEPT ![c] =
                  [state |-> "ended", tracked |-> reader[c].tracked, begun |-> reader[c].begun,
                   from |-> reader[c].from, queue |-> reader[c].queue, got |-> reader[c].got]]
<1>1. PICK q : q = [reader[c] EXCEPT !.state = "ended"]
  OBVIOUS
<1>2. f = [reader EXCEPT ![c] = q]
  BY <1>1
<1>3. q = [state |-> "ended", tracked |-> reader[c].tracked, begun |-> reader[c].begun,
           from |-> reader[c].from, queue |-> reader[c].queue, got |-> reader[c].got]
  BY <1>1 DEF Readers
<1> QED BY <1>2, <1>3

\* What is taken from the queue was got in order.
LEMMA YieldStep == ASSUME LogInv, ReaderInv, NEW c \in Consumers, Yield(c) PROVE ReaderInv'
<1> DEFINE r == reader[c]
           q == [state |-> r.state, tracked |-> r.tracked, begun |-> r.begun, from |-> r.from,
                 queue |-> Tail(r.queue), got |-> Append(r.got, Head(r.queue))]
<1>1. r \in Readers /\ r.queue # << >> /\ log' = log
  BY DEF Yield, ReaderInv
<1>2. reader' = [reader EXCEPT ![c] = q]
  BY ReaderYields DEF Yield, ReaderInv
<1>3. r.got \in Seq(LogEvents) /\ r.queue \in Seq(LogEvents)
  BY <1>1 DEF Readers
<1>4. q.queue \in Seq(LogEvents) /\ q.got \in Seq(LogEvents) /\ q.got \o q.queue = r.got \o r.queue
  BY <1>1, <1>3, GotNext
<1>5. q \in Readers
  BY <1>1, <1>4 DEF Readers
<1>6. q.state = r.state /\ q.tracked = r.tracked /\ q.begun = r.begun /\ q.from = r.from
  OBVIOUS
<1>7. r.state # "detached" => Reads(log, Len(log), r)
  BY DEF ReaderInv
<1> HIDE DEF q
<1>8. \A first : Begins(log, Len(log), r, first) <=> Begins(log, Len(log), q, first)
  BY <1>6 DEF Begins
<1>9. ~NotBegun(log, Len(log), r)
  BY <1>1 DEF NotBegun
<1>10. q.state # "detached" => Reads(log, Len(log), q)
  BY <1>4, <1>6, <1>7, <1>8, <1>9 DEF Reads, Within, Past
<1> QED BY <1>1, <1>2, <1>5, <1>10, ReaderStep

\* A consumer that has ended keeps what it got.
LEMMA EndStep == ASSUME LogInv, ReaderInv, NEW c \in Consumers, EndStream(c) PROVE ReaderInv'
<1> DEFINE r == reader[c]
           q == [state |-> "ended", tracked |-> r.tracked, begun |-> r.begun, from |-> r.from,
                 queue |-> r.queue, got |-> r.got]
<1>1. r \in Readers /\ r.state = "ending" /\ log' = log
  BY DEF EndStream, ReaderInv
<1>2. reader' = [reader EXCEPT ![c] = q]
  BY ReaderEnds DEF EndStream, ReaderInv
<1>3. q \in Readers /\ q.state = "ended" /\ q.tracked = r.tracked /\ q.from = r.from /\ q.queue = r.queue /\ q.got = r.got
  BY <1>1 DEF Readers
<1>4. Past(log, Len(log), r)
  BY <1>1 DEF ReaderInv, Reads
<1> HIDE DEF q
<1>5. Past(log, Len(log), q)
  BY <1>3, <1>4 DEF Past, Begins
<1>6. Reads(log, Len(log), q)
  BY <1>3, <1>5 DEF Reads
<1> QED BY <1>1, <1>2, <1>3, <1>6, ReaderStep

\* Every step keeps the log and what the consumers know of it.
LEMMA EventsStep ==
    ASSUME ~PromptSend, StreamInv, LogInv, ReaderInv, [StreamNext]_streamVars
    PROVE  LogInv' /\ ReaderInv'
<1>1. ASSUME NEW s \in Streams, Send(s) PROVE LogInv' /\ ReaderInv'
  BY <1>1, SendStep
<1>2. ASSUME NEW s \in Streams, Start(s) PROVE LogInv' /\ ReaderInv'
  BY <1>2, StartStep
<1>3. ASSUME NEW s \in Streams, Message(s) PROVE LogInv' /\ ReaderInv'
  BY <1>3, MessageStep
<1>4. ASSUME NEW s \in Streams, FinishStream(s) \/ RunThrows(s) PROVE LogInv' /\ ReaderInv'
  BY <1>4, LoopEndStep
<1>5. ASSUME NEW s \in Streams, CloseLoop(s) PROVE LogInv' /\ ReaderInv'
  <2>1. LogInv'
    BY <1>5, QuietLog DEF CloseLoop
  <2> QED BY <1>5, <2>1 DEF CloseLoop, ReaderInv
<1>6. CASE AbortStream
  <2>1. LogInv'
    BY <1>6, QuietLog DEF AbortStream
  <2> QED BY <1>6, <2>1 DEF AbortStream, ReaderInv
<1>7. ASSUME NEW c \in Consumers,
             \/ ConsumerStep(c) \/ FollowActive(c)
             \/ \E s \in Streams : FollowStream(c, s)
             \/ \E i \in 1 .. Len(log) : FollowAfter(c, i)
      PROVE  LogInv' /\ ReaderInv'
  <2>1. LogInv'
    <3>1. UNCHANGED <<log, current, loop>>
      BY <1>7 DEF ConsumerStep, Yield, EndStream, FollowActive, FollowStream, FollowAfter, Follow
    <3> QED BY <3>1, QuietLog
  <2>2. ReaderInv'
    BY <1>7, YieldStep, EndStep, FollowStep DEF ConsumerStep
  <2> QED BY <2>1, <2>2
<1>8. CASE UNCHANGED streamVars
  <2>1. LogInv'
    BY <1>8, QuietLog DEF streamVars
  <2> QED BY <1>8, <2>1 DEF streamVars, ReaderInv
<1> QED
  BY <1>1, <1>2, <1>3, <1>4, <1>5, <1>6, <1>7, <1>8 DEF StreamNext, LoopStep

\* At the start the log is empty and nobody follows.
LEMMA EventsInit == StreamInit => LogInv /\ ReaderInv
<1> SUFFICES ASSUME StreamInit PROVE LogInv /\ ReaderInv
  OBVIOUS
<1>1. LogInv
  BY EmptySeq DEF StreamInit, LogInv, InSequence, None
<1>2. Detached \in Readers /\ Detached.state = "detached"
  BY EmptySeq DEF Detached, Readers
<1>3. ReaderInv
  BY <1>2 DEF StreamInit, ReaderInv
<1> QED BY <1>1, <1>3

\* agent-session.ts: a consumer gets each event of its stream once, in order, from
\* where it attached, if no message is sent while a loop waits for its response
\* to close.
THEOREM EventsOnce == ASSUME ~PromptSend PROVE StreamSpec => []EachEventOnce
<1>1. StreamInit => StreamInv /\ LogInv /\ ReaderInv
  <2>1. StreamInit => StreamInv
    BY DEF StreamInit, StreamInv, LoopKeepsActive
  <2> QED BY <2>1, EventsInit
<1>2. StreamInv /\ LogInv /\ ReaderInv /\ [StreamNext]_streamVars => StreamInv' /\ LogInv' /\ ReaderInv'
  BY StreamInvStep, EventsStep
<1>3. StreamInv /\ LogInv /\ ReaderInv => EachEventOnce
  BY ReadsInStream DEF LogInv, ReaderInv, EachEventOnce
<1> QED BY <1>1, <1>2, <1>3, PTL DEF StreamSpec
=============================================================================
