-------------------------- MODULE GeminiChatProofs --------------------------
(***************************************************************************)
(* One send at a time works on the history, no request is made of calls    *)
(* and responses that do not pair (but for the responses to stray calls),  *)
(* and a failure takes back what is its own: the proofs, for any           *)
(* conversation in which no second send waits for the same stream.         *)
(***************************************************************************)
EXTENDS GeminiChat, SequenceTheorems, TLAPS

\* The next send waits for the one that is under way.
PromiseIsLast == \A s \in Sends : Sending(s) => sendPromise = s

\* One send waits, for the promise of the last one.
OneWaiter == \A s, t \in Sends :
    sendPc[s] = "waiting" => awaited[s] = sendPromise /\ (sendPc[t] = "waiting" => s = t)

SendTypes ==
    /\ sendPc \in [Sends -> Streaming \cup {"new", "waiting", "done", "settled"}]
    /\ awaited \in [Sends -> Sends \cup {NoSend}]
    /\ sendPromise \in Sends \cup {NoSend}

\* What every step preserves
SendInv == SendTypes /\ PromiseIsLast /\ OneWaiter

\* At the start nothing was sent.
LEMMA SendInvInit == ChatInit => SendInv
  BY DEF ChatInit, SendInv, SendTypes, PromiseIsLast, OneWaiter, Sending, Streaming

\* When the promise of the last send is resolved, no send is under way.
LEMMA ResolvedMeansIdle ==
    ASSUME SendInv, Resolved(sendPromise) PROVE \A s \in Sends : ~Sending(s)
  BY ChatConstants DEF SendInv, PromiseIsLast, Resolved, Sending, Streaming, ChatConstants

\* A send begins when no other is under way and no other waits.
LEMMA SetUpKeeps ==
    ASSUME SendInv, NEW s \in Sends, Resolved(sendPromise),
           \A t \in Sends \ {s} : sendPc[t] # "waiting", SetUp(s), UNCHANGED awaited
    PROVE  SendInv'
<1>1. sendPc' = [sendPc EXCEPT ![s] = "connecting"] /\ sendPromise' = s
  BY DEF SetUp
<1>2. SendTypes'
  BY <1>1 DEF SendInv, SendTypes, Streaming
<1>3. PromiseIsLast'
  BY <1>1, ResolvedMeansIdle DEF SendInv, SendTypes, PromiseIsLast, Sending
<1>4. OneWaiter'
  BY <1>1 DEF SendInv, SendTypes, OneWaiter
<1> QED BY <1>2, <1>3, <1>4 DEF SendInv

\* A send that is under way, ends or is settled starts no other one.
LEMMA MoveKeeps ==
    ASSUME SendInv, NEW s \in Sends, NEW pc \in {"streaming", "connecting", "backoff", "done", "settled"},
           Sending(s) \/ pc = "settled", sendPc' = [sendPc EXCEPT ![s] = pc],
           UNCHANGED <<sendPromise, awaited>>
    PROVE  SendInv'
<1>1. SendTypes'
  BY DEF SendInv, SendTypes, Streaming
<1>2. PromiseIsLast'
  BY DEF SendInv, SendTypes, PromiseIsLast, Sending, Streaming
<1>3. OneWaiter'
  BY DEF SendInv, SendTypes, OneWaiter
<1> QED BY <1>1, <1>2, <1>3 DEF SendInv

\* Every step keeps the invariant.
LEMMA SendInvStep ==
    ASSUME ~ManyWaiters, SendInv, [ChatNext]_chatVars PROVE SendInv'
<1>1. ASSUME NEW s \in Sends, CallAtOnce(s) PROVE SendInv'
  <2>1. \A t \in Sends : sendPc[t] # "waiting" BY <1>1 DEF CallAtOnce, MayCall
  <2> QED BY <1>1, <2>1, SetUpKeeps DEF CallAtOnce
<1>2. ASSUME NEW s \in Sends, CallAndWait(s) PROVE SendInv'
  <2>1. \A t \in Sends : sendPc[t] # "waiting" BY <1>2 DEF CallAndWait, MayCall
  <2>2. /\ sendPc' = [sendPc EXCEPT ![s] = "waiting"] /\ awaited' = [awaited EXCEPT ![s] = sendPromise]
        /\ UNCHANGED sendPromise
    BY <1>2 DEF CallAndWait
  <2>3. SendTypes' BY <2>2 DEF SendInv, SendTypes, Streaming
  <2>4. PromiseIsLast' BY <2>2 DEF SendInv, SendTypes, PromiseIsLast, Sending, Streaming
  <2>5. OneWaiter' BY <2>1, <2>2 DEF SendInv, SendTypes, OneWaiter
  <2> QED BY <2>3, <2>4, <2>5 DEF SendInv
<1>3. ASSUME NEW s \in Sends, Resume(s) PROVE SendInv'
  <2>1. awaited[s] = sendPromise /\ \A t \in Sends \ {s} : sendPc[t] # "waiting"
    BY <1>3 DEF Resume, SendInv, OneWaiter
  <2> QED BY <1>3, <2>1, SetUpKeeps DEF Resume
<1>4. ASSUME NEW s \in Sends, Go(s) PROVE SendInv'
  <2>1. Sending(s) BY <1>4 DEF Go, Connect, Blocked, Finish, Backoff, Retry, Fail, Sending, Streaming
  <2>2. PICK pc \in {"streaming", "connecting", "backoff", "done"} :
          sendPc' = [sendPc EXCEPT ![s] = pc] /\ UNCHANGED <<sendPromise, awaited>>
    BY <1>4 DEF Go, Connect, Blocked, Finish, Backoff, Retry, Fail, End
  <2> QED BY <2>1, <2>2, MoveKeeps
<1>5. ASSUME NEW a \in Answers, Settle(a) PROVE SendInv'
  <2>1. a \in Sends BY ChatConstants DEF ChatConstants
  <2> QED BY <1>5, <2>1, MoveKeeps DEF Settle
<1>6. ASSUME NEW p \in Prompts, Cancel(p) PROVE SendInv'
  BY <1>6 DEF Cancel, SendInv, SendTypes, PromiseIsLast, OneWaiter, Sending
<1>7. CASE UNCHANGED chatVars
  BY <1>7 DEF chatVars, SendInv, SendTypes, PromiseIsLast, OneWaiter, Sending
<1> QED BY <1>1, <1>2, <1>3, <1>4, <1>5, <1>6, <1>7 DEF ChatNext

\* geminiChat.ts: a send waits for the one before, as long as no second one
\* waits for the same stream.
THEOREM SendsAreSerial == ASSUME ~ManyWaiters PROVE ChatSpec => []OneSender
<1>1. SendInv => OneSender
  BY DEF SendInv, PromiseIsLast, OneSender
<1>2. SendInv /\ [ChatNext]_chatVars => SendInv'
  BY SendInvStep
<1> QED BY <1>1, <1>2, SendInvInit, PTL DEF ChatSpec

-----------------------------------------------------------------------------
\* The history, turn by turn. Calls that are not the last turn have responses;
\* responses follow calls, unless these are stray, and are followed by a turn of
\* the model or by the responses to stray calls.
TurnSet == [kind : TurnKinds, of : Sends]

WellFormed(h) ==
    \A i \in 1 .. Len(h) :
      /\ h[i].kind = "call" /\ i < Len(h) => h[i + 1].kind \in Responses
      /\ h[i].kind \in Responses \ {"stray"} => i > 1 /\ h[i - 1].kind = "call"
      /\ h[i].kind \in Responses /\ i < Len(h) => h[i + 1].kind \in ModelTurns \cup {"stray"}

\* The last of the turns that a send adds for itself
OwnKinds == {"prompt", "response", "stray", "binary"}

LastIs(h, kinds) == Len(h) > 0 /\ h[Len(h)].kind \in kinds

\* What a send adds before its own turns ends neither with calls nor responses.
Settled(h) == ~LastIs(h, Responses \cup {"call"})

\* The turns after those of h are of a send; no calls come with either.
AddsOwn(h, g, s) ==
    /\ Len(h) <= Len(g)
    /\ \A i \in 1 .. Len(h) : g[i].of = h[i].of /\ (g[i].kind = "call" => h[i].kind = "call")
    /\ \A i \in Len(h) + 1 .. Len(g) : g[i].of = s /\ g[i].kind # "call"

\* A turn that may stand at the end keeps the history well-formed.
LEMMA AppendWellFormed ==
    ASSUME NEW h \in Seq(TurnSet), WellFormed(h), NEW t \in TurnSet,
           LastIs(h, {"call"}) => t.kind \in Responses,
           LastIs(h, Responses) => t.kind \in ModelTurns \cup {"stray"},
           t.kind \in Responses \ {"stray"} => LastIs(h, {"call"})
    PROVE  /\ Append(h, t) \in Seq(TurnSet) /\ WellFormed(Append(h, t))
           /\ Len(Append(h, t)) = Len(h) + 1 /\ Append(h, t)[Len(h) + 1] = t
           /\ \A i \in 1 .. Len(h) : Append(h, t)[i] = h[i]
<1> DEFINE g == Append(h, t)
<1>1. /\ g \in Seq(TurnSet) /\ Len(g) = Len(h) + 1 /\ g[Len(h) + 1] = t /\ Len(h) \in Nat
      /\ \A i \in 1 .. Len(h) : g[i] = h[i]
  BY AppendProperties
<1> HIDE DEF g
<1>2. ASSUME NEW i \in 1 .. Len(g)
      PROVE  /\ g[i].kind = "call" /\ i < Len(g) => g[i + 1].kind \in Responses
             /\ g[i].kind \in Responses \ {"stray"} => i > 1 /\ g[i - 1].kind = "call"
             /\ g[i].kind \in Responses /\ i < Len(g) => g[i + 1].kind \in ModelTurns \cup {"stray"}
  <2>1. CASE i = Len(h) + 1
    <3>1. g[i] = t /\ ~(i < Len(g))
      BY <1>1, <2>1
    <3>2. ASSUME t.kind \in Responses \ {"stray"} PROVE i > 1 /\ g[i - 1].kind = "call"
      <4>1. Len(h) > 0 /\ h[Len(h)].kind = "call"
        BY <3>2 DEF LastIs
      <4>2. i - 1 = Len(h) /\ i > 1
        BY <1>1, <2>1, <4>1
      <4> QED BY <1>1, <4>1, <4>2
    <3> QED BY <3>1, <3>2
  <2>2. CASE i = Len(h)
    <3>1. /\ Len(h) > 0 /\ i \in 1 .. Len(h) /\ g[i] = h[i] /\ g[i] = h[Len(h)] /\ g[i + 1] = t
          /\ i > 1 => g[i - 1] = h[i - 1]
      BY <1>1, <2>2
    <3>2. g[i].kind = "call" => g[i + 1].kind \in Responses
      BY <3>1 DEF LastIs
    <3>3. g[i].kind \in Responses \ {"stray"} => i > 1 /\ g[i - 1].kind = "call"
      BY <3>1 DEF WellFormed
    <3>4. g[i].kind \in Responses => g[i + 1].kind \in ModelTurns \cup {"stray"}
      BY <3>1 DEF LastIs
    <3> QED BY <3>2, <3>3, <3>4
  <2>3. CASE i < Len(h)
    <3>1. /\ i \in 1 .. Len(h) /\ g[i] = h[i] /\ g[i + 1] = h[i + 1]
          /\ i > 1 => g[i - 1] = h[i - 1]
      BY <1>1, <2>3
    <3>2. /\ h[i].kind = "call" => h[i + 1].kind \in Responses
          /\ h[i].kind \in Responses \ {"stray"} => i > 1 /\ h[i - 1].kind = "call"
          /\ h[i].kind \in Responses => h[i + 1].kind \in ModelTurns \cup {"stray"}
      BY <2>3, <3>1 DEF WellFormed
    <3> QED BY <3>1, <3>2
  <2> QED BY <1>1, <2>1, <2>2, <2>3
<1> QED BY <1>1, <1>2 DEF WellFormed, g

\* So does taking back the last turns.
LEMMA PrefixWellFormed ==
    ASSUME NEW h \in Seq(TurnSet), WellFormed(h), NEW n \in 0 .. Len(h)
    PROVE  /\ SubSeq(h, 1, n) \in Seq(TurnSet) /\ WellFormed(SubSeq(h, 1, n))
           /\ Len(SubSeq(h, 1, n)) = n /\ \A i \in 1 .. n : SubSeq(h, 1, n)[i] = h[i]
<1> DEFINE g == SubSeq(h, 1, n)
<1>1. /\ g \in Seq(TurnSet) /\ Len(g) = n /\ n <= Len(h) /\ Len(h) \in Nat /\ n \in Nat
      /\ \A i \in 1 .. n : g[i] = h[i]
  BY SubSeqProperties
<1> HIDE DEF g
<1>2. WellFormed(g)
  BY <1>1 DEF WellFormed
<1> QED BY <1>1, <1>2 DEF g

\* Turn by turn a history that only grows adds what it adds.
LEMMA AddsMore ==
    ASSUME NEW h \in Seq(TurnSet), NEW g \in Seq(TurnSet), NEW s \in Sends, AddsOwn(h, g, s),
           NEW kind \in TurnKinds \ {"call"}
    PROVE  AddsOwn(h, Append(g, Turn(kind, s)), s)
<1> DEFINE k == Append(g, Turn(kind, s))
<1>1. /\ Len(k) = Len(g) + 1 /\ k[Len(g) + 1] = Turn(kind, s) /\ Len(g) \in Nat /\ Len(h) \in Nat
      /\ \A i \in 1 .. Len(g) : k[i] = g[i]
  BY AppendProperties DEF TurnSet, Turn
<1> HIDE DEF k
<1>2. Len(h) <= Len(g)
  BY DEF AddsOwn
<1>3. \A i \in 1 .. Len(h) : k[i].of = h[i].of /\ (k[i].kind = "call" => h[i].kind = "call")
  BY <1>1, <1>2 DEF AddsOwn
<1>4. ASSUME NEW i \in Len(h) + 1 .. Len(k) PROVE k[i].of = s /\ k[i].kind # "call"
  <2>1. CASE i = Len(g) + 1
    BY <1>1, <2>1 DEF Turn
  <2>2. CASE i # Len(g) + 1
    <3>1. i \in Len(h) + 1 .. Len(g) /\ i \in 1 .. Len(g)
      BY <1>1, <2>2
    <3> QED BY <1>1, <3>1 DEF AddsOwn
  <2> QED BY <2>1, <2>2
<1>5. Len(h) <= Len(k)
  BY <1>1, <1>2
<1> QED BY <1>3, <1>4, <1>5 DEF AddsOwn, k

\* Calls that nobody answered are answered as interrupted.
LEMMA CallsClosed ==
    ASSUME NEW h \in Seq(TurnSet), WellFormed(h), NEW s \in Sends
    PROVE  LET g == AnswerCalls(h, s)
           IN  g \in Seq(TurnSet) /\ WellFormed(g) /\ AddsOwn(h, g, s) /\ ~LastIs(g, {"call"})
<1>1. CASE LastIs(h, {"call"})
  <2>1. h # << >>
    BY <1>1 DEF LastIs
  <2>2. AnswerCalls(h, s) = Append(h, Turn("interrupted", s))
    BY <1>1, <2>1 DEF AnswerCalls, LastIs
  <2>3. Turn("interrupted", s) \in TurnSet /\ Turn("interrupted", s).kind = "interrupted"
    BY DEF Turn, TurnSet, TurnKinds, Responses
  <2>4. /\ ~LastIs(h, Responses)
        /\ "interrupted" \in Responses /\ "interrupted" \in TurnKinds
    BY <1>1 DEF LastIs, Responses, TurnKinds
  <2>5. AddsOwn(h, h, s)
    BY DEF AddsOwn
  <2>6. AddsOwn(h, Append(h, Turn("interrupted", s)), s)
    BY <2>4, <2>5, AddsMore
  <2> QED BY <1>1, <2>2, <2>3, <2>4, <2>6, AppendWellFormed DEF LastIs
<1>2. CASE ~LastIs(h, {"call"})
  <2>1. AnswerCalls(h, s) = h
    BY <1>2, EmptySeq DEF AnswerCalls, LastIs
  <2> QED BY <1>2, <2>1 DEF AddsOwn
<1> QED BY <1>1, <1>2

\* Responses that the model did not answer are answered with a placeholder.
LEMMA ResponsesClosed ==
    ASSUME NEW h \in Seq(TurnSet), WellFormed(h), NEW s \in Sends, ~LastIs(h, {"call"})
    PROVE  LET g == CloseResponses(h, s)
           IN  g \in Seq(TurnSet) /\ WellFormed(g) /\ AddsOwn(h, g, s) /\ Settled(g)
<1>0. Len(h) \in Nat /\ "placeholder" \in ModelTurns /\ "placeholder" \in TurnKinds
  BY DEF ModelTurns, TurnKinds
<1>1. CASE Ends(h, 1, {"empty"}) /\ Ends(h, 2, Responses)
  <2> DEFINE g == [h EXCEPT ![Len(h)].kind = "placeholder"]
  <2>1. CloseResponses(h, s) = g
    BY <1>1 DEF CloseResponses
  <2>2. Len(h) > 0 /\ h[Len(h)].kind = "empty" /\ h[Len(h)] \in TurnSet
    BY <1>0, <1>1 DEF Ends
  <2>3. /\ g \in Seq(TurnSet) /\ Len(g) = Len(h)
        /\ g[Len(h)].kind = "placeholder" /\ g[Len(h)].of = h[Len(h)].of
        /\ \A i \in 1 .. Len(h) - 1 : g[i] = h[i]
    BY <1>0, <2>2, ExceptSeq DEF TurnSet
  <2> HIDE DEF g
  <2>4. AddsOwn(h, g, s)
    BY <1>0, <2>2, <2>3 DEF AddsOwn
  <2>5. Settled(g)
    BY <2>2, <2>3 DEF Settled, LastIs, Responses
  <2>6. WellFormed(g)
    <3>1. \A i \in 1 .. Len(h) : /\ g[i].kind = "call" <=> h[i].kind = "call"
                                 /\ g[i].kind \in Responses <=> h[i].kind \in Responses
                                 /\ g[i].kind = "stray" <=> h[i].kind = "stray"
                                 /\ g[i].kind \in ModelTurns <=> h[i].kind \in ModelTurns
      BY <1>0, <2>2, <2>3 DEF Responses, ModelTurns
    <3> QED BY <1>0, <2>3, <3>1 DEF WellFormed
  <2> QED BY <2>1, <2>3, <2>4, <2>5, <2>6
<1>2. CASE ~(Ends(h, 1, {"empty"}) /\ Ends(h, 2, Responses)) /\ LastIs(h, Responses)
  <2>1. CloseResponses(h, s) = Append(h, Turn("placeholder", s))
    BY <1>0, <1>2 DEF CloseResponses, LastIs, Ends
  <2>2. Turn("placeholder", s) \in TurnSet /\ Turn("placeholder", s).kind = "placeholder"
    BY <1>0 DEF Turn, TurnSet
  <2>3. AddsOwn(h, Append(h, Turn("placeholder", s)), s)
    <3>1. AddsOwn(h, h, s) BY DEF AddsOwn
    <3> QED BY <1>0, <3>1, AddsMore
  <2>4. "placeholder" \notin Responses BY DEF Responses
  <2>5. ~LastIs(h, {"call"}) BY <1>2 DEF LastIs, Responses
  <2>6. /\ Append(h, Turn("placeholder", s)) \in Seq(TurnSet)
        /\ WellFormed(Append(h, Turn("placeholder", s)))
        /\ Len(Append(h, Turn("placeholder", s))) = Len(h) + 1
        /\ Append(h, Turn("placeholder", s))[Len(h) + 1] = Turn("placeholder", s)
    BY <1>0, <2>2, <2>4, <2>5, AppendWellFormed
  <2> QED BY <1>0, <2>1, <2>2, <2>3, <2>4, <2>6 DEF Settled, LastIs
<1>3. CASE ~(Ends(h, 1, {"empty"}) /\ Ends(h, 2, Responses)) /\ ~LastIs(h, Responses)
  <2>1. CloseResponses(h, s) = h
    BY <1>0, <1>3 DEF CloseResponses, LastIs, Ends
  <2> QED BY <1>3, <2>1 DEF AddsOwn, Settled, LastIs
<1> QED BY <1>1, <1>2, <1>3

\* A turn of the send itself goes after a settled history; so does a response
\* after its calls, and one to stray calls after anything.
LEMMA OwnTurnAdded ==
    ASSUME NEW h \in Seq(TurnSet), NEW g \in Seq(TurnSet), WellFormed(g), NEW s \in Sends, AddsOwn(h, g, s),
           NEW kind \in {"prompt", "response", "stray", "ack", "binary"},
           kind = "response" => LastIs(g, {"call"}),
           kind = "ack" => LastIs(g, {"response", "stray"}),
           kind \in {"prompt", "binary"} => Settled(g)
    PROVE  LET k == Append(g, Turn(kind, s))
           IN  /\ k \in Seq(TurnSet) /\ WellFormed(k) /\ AddsOwn(h, k, s)
               /\ LastIs(k, {kind}) /\ Len(k) > Len(h)
<1>1. kind \in TurnKinds /\ Turn(kind, s) \in TurnSet /\ Turn(kind, s).kind = kind
  BY DEF TurnKinds, TurnSet, Turn, Responses, ModelTurns
<1>2. LastIs(g, {"call"}) => kind \in Responses
  BY DEF LastIs, Settled, Responses
<1>3. LastIs(g, Responses) => kind \in ModelTurns \cup {"stray"}
  BY DEF LastIs, Settled, Responses, ModelTurns
<1>4. kind \in Responses \ {"stray"} => LastIs(g, {"call"})
  BY DEF Responses
<1>5. /\ Append(g, Turn(kind, s)) \in Seq(TurnSet) /\ WellFormed(Append(g, Turn(kind, s)))
      /\ Len(Append(g, Turn(kind, s))) = Len(g) + 1 /\ Append(g, Turn(kind, s))[Len(g) + 1] = Turn(kind, s)
      /\ Len(g) \in Nat /\ Len(h) \in Nat
  BY <1>1, <1>2, <1>3, <1>4, AppendWellFormed
<1>6. AddsOwn(h, Append(g, Turn(kind, s)), s)
  BY <1>1, AddsMore
<1>7. Len(g) >= Len(h)
  BY <1>5 DEF AddsOwn
<1> QED BY <1>1, <1>5, <1>6, <1>7 DEF LastIs

\* What a send adds to the history
LEMMA TurnsAdded ==
    ASSUME NEW h \in Seq(TurnSet), WellFormed(h), NEW s \in Sends,
           s \in Answers => LastIs(h, {"call"}) \/ AnswerTo[s] \in stray
    PROVE  LET g == WithTurnsOf(h, s)
           IN  /\ g \in Seq(TurnSet) /\ WellFormed(g) /\ AddsOwn(h, g, s)
               /\ LastIs(g, OwnKinds) /\ Len(g) > Len(h)
<1>1. CASE s \notin Answers
  <2> DEFINE c == AnswerCalls(h, s)
             d == CloseResponses(c, s)
  <2>1. c \in Seq(TurnSet) /\ WellFormed(c) /\ AddsOwn(h, c, s) /\ ~LastIs(c, {"call"})
    BY CallsClosed
  <2> HIDE DEF c
  <2>2. d \in Seq(TurnSet) /\ WellFormed(d) /\ AddsOwn(c, d, s) /\ Settled(d)
    BY <2>1, ResponsesClosed
  <2> HIDE DEF d
  <2>3. AddsOwn(h, d, s)
    <3>1. Len(h) \in Nat /\ Len(c) \in Nat /\ Len(d) \in Nat /\ Len(h) <= Len(c) /\ Len(c) <= Len(d)
      BY <2>1, <2>2 DEF AddsOwn
    <3>2. \A i \in 1 .. Len(h) : d[i].of = h[i].of /\ (d[i].kind = "call" => h[i].kind = "call")
      BY <2>1, <2>2, <3>1 DEF AddsOwn
    <3>3. ASSUME NEW i \in Len(h) + 1 .. Len(d) PROVE d[i].of = s /\ d[i].kind # "call"
      <4>1. CASE i \in 1 .. Len(c)
        BY <2>1, <2>2, <3>1, <4>1, SMTT(30) DEF AddsOwn
      <4>2. CASE i \in Len(c) + 1 .. Len(d)
        BY <2>2, <4>2 DEF AddsOwn
      <4> QED BY <3>1, <4>1, <4>2
    <3> QED BY <3>1, <3>2, <3>3 DEF AddsOwn
  <2>4. s \notin Binary
    BY <1>1, ChatConstants DEF ChatConstants
  <2>5. WithTurnsOf(h, s) = d \o <<Turn("prompt", s)>>
    BY <1>1, <2>4 DEF WithTurnsOf, Own, c, d
  <2>6. d \o <<Turn("prompt", s)>> = Append(d, Turn("prompt", s))
    BY <2>2 DEF TurnSet
  <2> DEFINE g == Append(d, Turn("prompt", s))
  <2>7. g \in Seq(TurnSet) /\ WellFormed(g) /\ AddsOwn(h, g, s) /\ LastIs(g, {"prompt"}) /\ Len(g) > Len(h)
    BY <2>2, <2>3, OwnTurnAdded
  <2> HIDE DEF g
  <2>8. WithTurnsOf(h, s) = g
    BY <2>5, <2>6 DEF g
  <2> QED BY <2>7, <2>8 DEF LastIs, OwnKinds
<1>2. CASE s \in Answers
  <2> DEFINE kind == IF AnswerTo[s] \in stray THEN "stray" ELSE "response"
             r == Append(h, Turn(kind, s))
             a == Append(r, Turn("ack", s))
             b == Append(a, Turn("binary", s))
  <2>0. kind \in {"response", "stray"} /\ (kind = "response" => LastIs(h, {"call"})) /\ ResponseTurn(s) = Turn(kind, s)
    BY <1>2 DEF ResponseTurn
  <2> HIDE DEF kind
  <2>1. /\ r \in Seq(TurnSet) /\ WellFormed(r) /\ AddsOwn(h, r, s) /\ LastIs(r, {"response", "stray"})
        /\ Len(r) > Len(h)
    <3>1. AddsOwn(h, h, s) BY DEF AddsOwn
    <3>2. r \in Seq(TurnSet) /\ WellFormed(r) /\ AddsOwn(h, r, s) /\ LastIs(r, {kind}) /\ Len(r) > Len(h)
      BY <2>0, <3>1, OwnTurnAdded
    <3> QED BY <2>0, <3>2 DEF LastIs
  <2>2. CASE s \notin Binary
    <3>1. WithTurnsOf(h, s) = h \o <<Turn(kind, s)>>
      BY <1>2, <2>0, <2>2 DEF WithTurnsOf, Own
    <3>2. h \o <<Turn(kind, s)>> = r
      OBVIOUS
    <3> HIDE DEF r
    <3> QED BY <2>1, <3>1, <3>2 DEF LastIs, OwnKinds
  <2>3. CASE s \in Binary
    <3>0. WithTurnsOf(h, s) = h \o <<Turn(kind, s), Turn("ack", s), Turn("binary", s)>>
      BY <1>2, <2>0, <2>3 DEF WithTurnsOf, Own
    <3>1. WithTurnsOf(h, s) = b
      BY <3>0
    <3> HIDE DEF r
    <3>2. a \in Seq(TurnSet) /\ WellFormed(a) /\ AddsOwn(h, a, s) /\ LastIs(a, {"ack"})
      BY <2>1, OwnTurnAdded
    <3> HIDE DEF a
    <3>3. Settled(a)
      BY <3>2 DEF Settled, LastIs, Responses
    <3>4. b \in Seq(TurnSet) /\ WellFormed(b) /\ AddsOwn(h, b, s) /\ LastIs(b, {"binary"}) /\ Len(b) > Len(h)
      BY <3>2, <3>3, OwnTurnAdded
    <3> HIDE DEF b
    <3> QED BY <3>1, <3>4 DEF LastIs, OwnKinds
  <2> QED BY <2>2, <2>3
<1> QED BY <1>1, <1>2

\* A rollback takes back the last turns, or none.
LEMMA RollbackIsPrefix ==
    ASSUME NEW h \in Seq(TurnSet), WellFormed(h), NEW n \in Nat
    PROVE  /\ Rollback(h, n) \in Seq(TurnSet) /\ WellFormed(Rollback(h, n))
           /\ n <= Len(h) => Rollback(h, n) = SubSeq(h, 1, n)
<1>1. CASE n <= Len(h)
  <2>1. n \in 0 .. Len(h) BY <1>1
  <2> QED BY <1>1, <2>1, PrefixWellFormed DEF Rollback
<1>2. CASE ~(n <= Len(h))
  BY <1>2 DEF Rollback
<1> QED BY <1>1, <1>2

-----------------------------------------------------------------------------
\* The prompts that are at work: sending, waiting, or waiting for their tools.
Busy(s) == Sending(s) \/ sendPc[s] = "waiting" \/ Pending(s)

\* All but one of them are aborted.
OneBusy == \A s, t \in Sends : Busy(s) /\ Busy(t) /\ ~Aborted(s) /\ ~Aborted(t) => s = t

\* Responses never wait, and a message has aborted the prompts that it waits for;
\* so has whatever is sent while calls still wait for their tools.
OthersAborted ==
    \A s, t \in Sends :
      /\ sendPc[s] = "waiting" => s \notin Answers /\ (t # s /\ (Sending(t) \/ Pending(t)) => Aborted(t))
      /\ Sending(s) /\ Pending(t) => Aborted(t)

\* Calls that wait for their tools are the last turn, unless they are aborted or
\* stray.
CallIsLast ==
    \A t \in Sends : Pending(t) /\ ~Aborted(t) =>
      /\ sendPromise = t
      /\ t \in stray \/ (LastIs(turns, {"call"}) /\ turns[Len(turns)].of = t)

\* While a send is under way the last turn is its own.
OwnIsLast == \A s \in Sends : Sending(s) => LastIs(turns, OwnKinds)

\* What every step preserves
ChatInv ==
    /\ SendInv /\ ChatTypeOK /\ OneBusy /\ OthersAborted
    /\ CallIsLast /\ OwnIsLast /\ WellFormed(turns)

\* The prompt of responses is the one of their calls.
LEMMA SamePrompt ==
    ASSUME NEW a \in Answers PROVE a \in Sends /\ AnswerTo[a] \in Sends /\ PromptOf[AnswerTo[a]] = PromptOf[a]
  BY ChatConstants DEF ChatConstants

\* A step of one send leaves at most the calls of others pending that were.
LEMMA PendingShrinks ==
    ASSUME SendTypes, NEW s \in Sends, NEW pc, pc # "new", sendPc' = [sendPc EXCEPT ![s] = pc],
           \A t \in Sends \ {s} : result'[t] = result[t] /\ (t \in stray' => t \in stray)
    PROVE  \A t \in Sends \ {s} : Pending(t)' => Pending(t) /\ (s \in Answers => AnswerTo[s] # t)
<1> SUFFICES ASSUME NEW t \in Sends \ {s}, Pending(t)'
             PROVE  Pending(t) /\ (s \in Answers => AnswerTo[s] # t)
  OBVIOUS
<1>1. sendPc'[s] = pc /\ \A r \in Sends \ {s} : sendPc'[r] = sendPc[r]
  BY DEF SendTypes
<1>2. \A a \in Answers : AnswerTo[a] = t => sendPc'[a] = "new"
  BY DEF Pending
<1>3. sendPc[t] = "done" /\ (result[t] = "call" \/ t \in stray)
  BY <1>1 DEF Pending
<1>4. \A a \in Answers : AnswerTo[a] = t => a # s /\ sendPc[a] = "new"
  BY <1>1, <1>2, SamePrompt
<1> QED BY <1>3, <1>4 DEF Pending

\* At the start the history is empty and nothing was sent.
LEMMA ChatInvInit == ChatInit => ChatInv
<1> SUFFICES ASSUME ChatInit PROVE ChatInv OBVIOUS
<1>1. ChatTypeOK
  BY ChatConstants DEF ChatInit, ChatTypeOK, ChatConstants, Undefined
<1>2. \A s \in Sends : ~Busy(s)
  BY DEF ChatInit, Busy, Sending, Streaming, Pending
<1>3. OneBusy /\ OthersAborted /\ CallIsLast /\ OwnIsLast
  BY <1>2 DEF OneBusy, OthersAborted, CallIsLast, OwnIsLast, Busy
<1>4. WellFormed(turns)
  BY DEF ChatInit, WellFormed
<1> QED BY <1>1, <1>3, <1>4, SendInvInit DEF ChatInv

-----------------------------------------------------------------------------
\* The history that a send finds is fit for its turns.
LEMMA StartFinds ==
    ASSUME ChatInv, NEW s \in Sends, CallAtOnce(s) \/ Resume(s)
    PROVE  s \in Answers => LastIs(turns, {"call"}) \/ AnswerTo[s] \in stray
<1>1. CASE CallAtOnce(s)
  <2> SUFFICES ASSUME s \in Answers PROVE LastIs(turns, {"call"}) \/ AnswerTo[s] \in stray OBVIOUS
  <2>1. Pending(AnswerTo[s]) /\ ~Aborted(AnswerTo[s]) /\ AnswerTo[s] \in Sends
    BY <1>1, SamePrompt DEF CallAtOnce, MayCall, Aborted
  <2> QED BY <2>1 DEF ChatInv, CallIsLast
<1>2. CASE Resume(s)
  BY <1>2 DEF Resume, ChatInv, OthersAborted
<1> QED BY <1>1, <1>2

LEMMA SetUpTypes ==
    ASSUME ChatInv, NEW s \in Sends, SetUp(s), UNCHANGED awaited,
           s \in Answers => LastIs(turns, {"call"}) \/ AnswerTo[s] \in stray
    PROVE  /\ ChatTypeOK' /\ WellFormed(turns') /\ OwnIsLast'
           /\ AddsOwn(turns, turns', s) /\ Len(turns') > Len(turns)
<1>1. turns \in Seq(TurnSet) /\ WellFormed(turns) /\ Len(turns) \in Nat
  BY DEF ChatInv, ChatTypeOK, TurnSet
<1>2. turns' = WithTurnsOf(turns, s)
  BY DEF SetUp
<1>3. /\ turns' \in Seq(TurnSet) /\ WellFormed(turns') /\ AddsOwn(turns, turns', s)
      /\ LastIs(turns', OwnKinds) /\ Len(turns') > Len(turns)
  BY <1>1, <1>2, TurnsAdded
<1>4. OwnIsLast'
  BY <1>3 DEF OwnIsLast
<1>5. promptStart' \in Nat \cup {Undefined} /\ lastPromptId' \in Prompts \cup {NoPrompt}
  BY <1>1, ChatConstants DEF SetUp, StartKnown, ChatInv, ChatTypeOK, ChatConstants
<1>6. before' \in [Sends -> Nat] /\ sendPc' \in [Sends -> Streaming \cup {"new", "waiting", "done", "settled"}]
  BY <1>1 DEF SetUp, ChatInv, ChatTypeOK, Streaming
<1>7. ChatTypeOK'
  BY <1>3, <1>5, <1>6 DEF SetUp, ChatInv, ChatTypeOK, TurnSet
<1> QED BY <1>3, <1>4, <1>7

\* A send begins: nothing else is at work but what is aborted.
LEMMA StartKeeps ==
    ASSUME ~ManyWaiters, ChatInv, NEW s \in Sends, CallAtOnce(s) \/ Resume(s)
    PROVE  ChatInv'
<1>1. SetUp(s) /\ UNCHANGED awaited
  BY DEF CallAtOnce, Resume
<1>2. SendInv'
  <2>1. [ChatNext]_chatVars BY DEF ChatNext
  <2> QED BY <2>1, SendInvStep DEF ChatInv
<1>3. ChatTypeOK' /\ WellFormed(turns') /\ OwnIsLast'
  BY <1>1, StartFinds, SetUpTypes
<1>4. /\ sendPc' = [sendPc EXCEPT ![s] = "connecting"] /\ UNCHANGED <<result, cancelled>>
      /\ stray' \subseteq stray /\ sendPc'[s] = "connecting" /\ \A t \in Sends \ {s} : sendPc'[t] = sendPc[t]
      /\ sendPc[s] \in {"new", "waiting"}
  BY <1>1 DEF SetUp, CallAtOnce, MayCall, Resume, ChatInv, ChatTypeOK
<1>5. \A t \in Sends \ {s} : Pending(t)' => Pending(t) /\ (s \in Answers => AnswerTo[s] # t)
  BY <1>4, PendingShrinks DEF ChatInv, SendInv
<1>6. \A t \in Sends : ~Sending(t)
  <2>1. Resolved(sendPromise)
    BY DEF CallAtOnce, Resume, ChatInv, SendInv, OneWaiter
  <2> QED BY <2>1, ResolvedMeansIdle DEF ChatInv
<1>7. \A t \in Sends \ {s} : sendPc[t] # "waiting"
  BY DEF CallAtOnce, MayCall, Resume, ChatInv, SendInv, OneWaiter
<1>8. ~Pending(s)'
  BY <1>4 DEF Pending
<1>9. \A t \in Sends \ {s} : Busy(t)' => Pending(t)' /\ Busy(t) /\ (s \in Answers => AnswerTo[s] # t)
  BY <1>4, <1>5, <1>6, <1>7 DEF Busy, Sending
<1>10. \A t \in Sends \ {s} : Pending(t)' => Aborted(t)
  <2>1. CASE Resume(s)
    BY <1>5, <2>1 DEF Resume, ChatInv, OthersAborted
  <2>2. CASE CallAtOnce(s) /\ s \notin Answers
    BY <1>5, <2>2 DEF CallAtOnce, MayCall
  <2>3. CASE CallAtOnce(s) /\ s \in Answers
    <3>1. Busy(AnswerTo[s]) /\ ~Aborted(AnswerTo[s]) /\ AnswerTo[s] \in Sends
      BY <2>3, SamePrompt DEF CallAtOnce, MayCall, Busy, Aborted
    <3> QED BY <1>5, <2>3, <3>1 DEF Busy, ChatInv, OneBusy
  <2> QED BY <2>1, <2>2, <2>3
<1>11. \A t \in Sends : Aborted(t)' <=> Aborted(t)
  BY <1>4 DEF Aborted
<1>12. OneBusy'
  BY <1>9, <1>10, <1>11 DEF OneBusy
<1>13. OthersAborted'
  BY <1>4, <1>6, <1>7, <1>8, <1>10, <1>11 DEF OthersAborted, Sending
<1>14. CallIsLast'
  BY <1>8, <1>10, <1>11 DEF CallIsLast
<1> QED BY <1>2, <1>3, <1>12, <1>13, <1>14 DEF ChatInv

\* Responses find the promise of their calls resolved, so only a message waits.
LEMMA WaitKeeps ==
    ASSUME ~ManyWaiters, ChatInv, NEW s \in Sends, CallAndWait(s)
    PROVE  ChatInv'
<1>1. SendInv'
  <2>1. [ChatNext]_chatVars BY DEF ChatNext
  <2> QED BY <2>1, SendInvStep DEF ChatInv
<1>2. /\ sendPc' = [sendPc EXCEPT ![s] = "waiting"]
      /\ UNCHANGED <<turns, sendPromise, promptStart, lastPromptId, before, attempt, result, stray, cancelled>>
      /\ sendPc'[s] = "waiting" /\ \A t \in Sends \ {s} : sendPc'[t] = sendPc[t]
      /\ sendPc[s] = "new"
  BY DEF CallAndWait, MayCall, ChatInv, ChatTypeOK
<1>3. s \notin Answers
  <2> SUFFICES ASSUME s \in Answers PROVE FALSE OBVIOUS
  <2>1. Pending(AnswerTo[s]) /\ ~Aborted(AnswerTo[s]) /\ AnswerTo[s] \in Sends
    BY SamePrompt DEF CallAndWait, MayCall, Aborted
  <2>2. sendPromise = AnswerTo[s] /\ sendPc[AnswerTo[s]] = "done"
    BY <2>1 DEF ChatInv, CallIsLast, Pending
  <2> QED BY <2>2 DEF CallAndWait, Resolved
<1>4. \A t \in Sends : (Sending(t) \/ Pending(t) => Aborted(t)) /\ sendPc[t] # "waiting"
  BY <1>3 DEF CallAndWait, MayCall
<1>5. \A t \in Sends \ {s} : Pending(t)' => Pending(t)
  BY <1>2, PendingShrinks DEF ChatInv, SendInv
<1>6. \A t \in Sends : (Sending(t)' => Sending(t)) /\ (Aborted(t)' <=> Aborted(t))
  BY <1>2 DEF Sending, Streaming, Aborted
<1>7. ~Pending(s)' /\ ~Sending(s)'
  BY <1>2 DEF Pending, Sending, Streaming
<1>8. \A t \in Sends \ {s} : Busy(t)' => Aborted(t)
  BY <1>2, <1>4, <1>5, <1>6 DEF Busy
<1>9. OneBusy'
  BY <1>6, <1>8 DEF OneBusy
<1>10. OthersAborted'
  BY <1>2, <1>3, <1>4, <1>5, <1>6, <1>7 DEF OthersAborted
<1>11. CallIsLast' /\ OwnIsLast' /\ WellFormed(turns')
  BY <1>2, <1>4, <1>5, <1>6, <1>7 DEF ChatInv, CallIsLast, OwnIsLast
<1>12. ChatTypeOK'
  <2>1. awaited' \in [Sends -> Sends \cup {NoSend}]
    BY <1>1 DEF SendInv, SendTypes
  <2> QED BY <1>2, <2>1 DEF ChatInv, ChatTypeOK
<1> QED BY <1>1, <1>9, <1>10, <1>11, <1>12 DEF ChatInv

\* What a step of a send under way does: it goes on without a change of the
\* history, or it ends.
LEMMA GoMoves ==
    ASSUME ChatInv, NEW s \in Sends, Go(s)
    PROVE  /\ Sending(s) /\ UNCHANGED <<sendPromise, awaited, cancelled>>
           /\ \E pc \in Streaming \cup {"done"} : sendPc' = [sendPc EXCEPT ![s] = pc]
           /\ \A t \in Sends \ {s} : result'[t] = result[t] /\ (t \in stray' => t \in stray)
           /\ before' \in [Sends -> Nat] /\ stray' \subseteq Sends
           /\ \/ sendPc'[s] \in Streaming /\ UNCHANGED <<turns, promptStart, lastPromptId, result, before>>
              \/ sendPc'[s] = "done" /\ Blocked(s) /\ UNCHANGED <<turns, promptStart, lastPromptId>>
              \/ sendPc'[s] = "done" /\ Finish(s)
              \/ sendPc'[s] = "done" /\ Fail(s)
<1>1. Sending(s) BY DEF Go, Connect, Blocked, Finish, Backoff, Retry, Fail, Sending, Streaming
<1>2. /\ result \in [Sends -> {"none", "failed", "blocked", "text", "call", "empty"}]
      /\ sendPc \in [Sends -> Streaming \cup {"new", "waiting", "done", "settled"}]
      /\ before \in [Sends -> Nat] /\ stray \subseteq Sends
  BY DEF ChatInv, ChatTypeOK
<1>3. CASE Connect(s) \/ Backoff(s) \/ Retry(s)
  BY <1>1, <1>2, <1>3 DEF Connect, Backoff, Retry, MayStray, Streaming
<1>4. CASE Blocked(s)
  BY <1>1, <1>2, <1>4 DEF Blocked, End, MayStray
<1>5. CASE Finish(s)
  <2>1. PICK kind \in {"text", "call", "empty"} : End(s, kind)
    BY <1>5 DEF Finish
  <2>2. UNCHANGED stray
    BY <1>5 DEF Finish
  <2>3. \A t \in Sends \ {s} : result'[t] = result[t]
    BY <1>2, <2>1 DEF End
  <2> QED BY <1>1, <1>2, <1>5, <2>1, <2>2, <2>3 DEF End
<1>6. CASE Fail(s)
  BY <1>1, <1>2, <1>6 DEF Fail, End, MayStray
<1> QED BY <1>3, <1>4, <1>5, <1>6 DEF Go

\* The last turn of a send under way is followed by the one of the model.
LEMMA FinishTurns ==
    ASSUME ChatInv, NEW s \in Sends, Finish(s)
    PROVE  /\ turns' \in Seq(TurnSet) /\ WellFormed(turns')
           /\ Len(turns') = Len(turns) + 1 /\ turns'[Len(turns')] = Turn(result'[s], s)
           /\ \A i \in 1 .. Len(turns) : turns'[i] = turns[i]
           /\ result' \in [Sends -> {"none", "failed", "blocked", "text", "call", "empty"}]
           /\ result'[s] \in {"text", "call", "empty"}
<1>1. /\ turns \in Seq(TurnSet) /\ WellFormed(turns) /\ LastIs(turns, OwnKinds)
      /\ result \in [Sends -> {"none", "failed", "blocked", "text", "call", "empty"}]
  BY DEF ChatInv, ChatTypeOK, TurnSet, OwnIsLast, Finish, Sending, Streaming
<1>2. PICK kind \in {"text", "call", "empty"} : turns' = Append(turns, Turn(kind, s)) /\ result' = [result EXCEPT ![s] = kind]
  BY DEF Finish, End
<1>3. Turn(kind, s) \in TurnSet /\ Turn(kind, s).kind = kind /\ kind \in ModelTurns /\ kind \notin Responses
  BY DEF TurnSet, Turn, TurnKinds, Responses, ModelTurns
<1>4. ~LastIs(turns, {"call"})
  BY <1>1 DEF LastIs, OwnKinds
<1> QED BY <1>1, <1>2, <1>3, <1>4, AppendWellFormed

\* A failure takes back the last turns, or none.
LEMMA FailTurns ==
    ASSUME ChatInv, NEW s \in Sends, Fail(s)
    PROVE  /\ turns' \in Seq(TurnSet) /\ WellFormed(turns')
           /\ promptStart' \in Nat \cup {Undefined} /\ lastPromptId' \in Prompts \cup {NoPrompt}
           /\ result' \in [Sends -> {"none", "failed", "blocked", "text", "call", "empty"}]
           /\ result'[s] = "failed"
<1>1. /\ turns \in Seq(TurnSet) /\ WellFormed(turns) /\ before[s] \in Nat
      /\ promptStart \in Nat \cup {Undefined} /\ lastPromptId \in Prompts \cup {NoPrompt}
      /\ result \in [Sends -> {"none", "failed", "blocked", "text", "call", "empty"}]
  BY DEF ChatInv, ChatTypeOK, TurnSet
<1>2. \E aborted \in BOOLEAN : Undo(s, aborted)
  BY DEF Fail, Aborted
<1>3. promptStart # Undefined => Rollback(turns, promptStart) \in Seq(TurnSet) /\ WellFormed(Rollback(turns, promptStart))
  BY <1>1, RollbackIsPrefix
<1>4. Rollback(turns, before[s]) \in Seq(TurnSet) /\ WellFormed(Rollback(turns, before[s]))
  BY <1>1, RollbackIsPrefix
<1>5. turns' \in Seq(TurnSet) /\ WellFormed(turns')
  BY <1>1, <1>2, <1>3, <1>4 DEF Undo
<1>6. promptStart' \in Nat \cup {Undefined} /\ lastPromptId' \in Prompts \cup {NoPrompt}
  BY <1>1, <1>2 DEF Undo
<1> QED BY <1>1, <1>5, <1>6 DEF Fail, End

\* What is discarded is the last turn, if it has calls.
LEMMA DiscardTurns ==
    ASSUME NEW h \in Seq(TurnSet), WellFormed(h)
    PROVE  /\ Discard(h) \in Seq(TurnSet) /\ WellFormed(Discard(h))
           /\ \/ Discard(h) = h
              \/ LastIs(h, {"call"}) /\ Discard(h) = SubSeq(h, 1, Len(h) - 1)
<1>1. CASE ~Ends(h, 1, {"call"})
  BY <1>1 DEF Discard
<1>2. CASE Ends(h, 1, {"call"})
  <2>1. Len(h) \in Nat /\ Len(h) > 0 /\ Len(h) - 1 \in Nat /\ LastIs(h, {"call"})
    BY <1>2 DEF Ends, LastIs
  <2>2. Rollback(h, Len(h) - 1) = SubSeq(h, 1, Len(h) - 1)
    BY <2>1 DEF Rollback
  <2>3. Discard(h) = Rollback(h, Len(h) - 1)
    BY <1>2 DEF Discard
  <2> QED BY <2>1, <2>2, <2>3, RollbackIsPrefix
<1> QED BY <1>1, <1>2

\* A step of a send under way keeps the invariant.
LEMMA GoKeeps ==
    ASSUME ~ManyWaiters, ChatInv, NEW s \in Sends, Go(s) PROVE ChatInv'
<1>1. SendInv'
  <2>1. [ChatNext]_chatVars BY DEF ChatNext
  <2> QED BY <2>1, SendInvStep DEF ChatInv
<1>2. /\ Sending(s) /\ UNCHANGED <<sendPromise, awaited, cancelled>>
      /\ \A t \in Sends \ {s} : result'[t] = result[t] /\ (t \in stray' => t \in stray)
      /\ before' \in [Sends -> Nat] /\ stray' \subseteq Sends
  BY GoMoves
<1>3. PICK pc \in Streaming \cup {"done"} : sendPc' = [sendPc EXCEPT ![s] = pc]
  BY GoMoves
<1>4. sendPc'[s] = pc /\ \A t \in Sends \ {s} : sendPc'[t] = sendPc[t]
  BY <1>3 DEF ChatInv, ChatTypeOK
<1>5. /\ turns' \in Seq(TurnSet) /\ WellFormed(turns')
      /\ promptStart' \in Nat \cup {Undefined} /\ lastPromptId' \in Prompts \cup {NoPrompt}
      /\ result' \in [Sends -> {"none", "failed", "blocked", "text", "call", "empty"}]
      /\ Pending(s)' => s \in stray' \/ (LastIs(turns', {"call"}) /\ turns'[Len(turns')].of = s)
      /\ Sending(s)' => UNCHANGED turns
  <2>1. CASE sendPc'[s] \in Streaming /\ UNCHANGED <<turns, promptStart, lastPromptId, result>>
    BY <2>1 DEF ChatInv, ChatTypeOK, TurnSet, Pending, Streaming
  <2>2. CASE sendPc'[s] = "done" /\ Blocked(s) /\ UNCHANGED <<turns, promptStart, lastPromptId>>
    BY <2>2 DEF ChatInv, ChatTypeOK, TurnSet, Pending, Sending, Streaming, Blocked, End
  <2>3. CASE sendPc'[s] = "done" /\ Finish(s)
    <3>1. turns \in Seq(TurnSet) /\ UNCHANGED <<promptStart, lastPromptId>>
      BY <2>3 DEF ChatInv, ChatTypeOK, TurnSet, Finish
    <3>2. Pending(s)' => s \in stray' \/ (LastIs(turns', {"call"}) /\ turns'[Len(turns')].of = s)
      <4>1. Len(turns') > 0 /\ turns'[Len(turns')] = Turn(result'[s], s)
        BY <2>3, <3>1, FinishTurns
      <4>2. Turn(result'[s], s).kind = result'[s] /\ Turn(result'[s], s).of = s
        BY DEF Turn
      <4>3. Pending(s)' => s \in stray' \/ result'[s] = "call"
        BY DEF Pending
      <4> QED BY <4>1, <4>2, <4>3 DEF LastIs
    <3> QED BY <2>3, <3>1, <3>2, FinishTurns DEF ChatInv, ChatTypeOK, Sending, Streaming
  <2>4. CASE sendPc'[s] = "done" /\ Fail(s)
    BY <2>4, FailTurns DEF Pending, Sending, Streaming
  <2> QED BY <2>1, <2>2, <2>3, <2>4, GoMoves
<1>6. ChatTypeOK'
  <2>1. sendPc' \in [Sends -> Streaming \cup {"new", "waiting", "done", "settled"}]
    BY <1>1 DEF SendInv, SendTypes
  <2>2. attempt' \in [Sends -> 0 .. MaxAttempts - 1]
    <3>1. CASE Backoff(s)
      BY <3>1, ChatConstants DEF ChatInv, ChatTypeOK, Backoff, MayTryAgain, ChatConstants
    <3>2. CASE ~Backoff(s)
      BY <3>2, ChatConstants DEF ChatConstants, ChatInv, ChatTypeOK, Go, Connect, Blocked, Finish, Retry, Fail, End
    <3> QED BY <3>1, <3>2
  <2> QED BY <1>2, <1>5, <2>1, <2>2 DEF ChatInv, ChatTypeOK, TurnSet
<1>7. \A t \in Sends \ {s} : (Pending(t)' => Pending(t)) /\ ~Sending(t) /\ ~Sending(t)'
  <2>1. \A t \in Sends \ {s} : Pending(t)' => Pending(t)
    <3>1. SendTypes /\ pc # "new" BY DEF ChatInv, SendInv, Streaming
    <3> QED BY <1>2, <1>3, <3>1, PendingShrinks
  <2>2. \A t \in Sends \ {s} : ~Sending(t)
    BY <1>2 DEF ChatInv, SendInv, PromiseIsLast
  <2> QED BY <1>4, <2>1, <2>2 DEF Sending
<1>8. \A t \in Sends : Aborted(t)' <=> Aborted(t)
  BY <1>2 DEF Aborted
<1>9. \A t \in Sends : Busy(t)' => Busy(t)
  BY <1>2, <1>4, <1>7 DEF Busy
<1>10. OneBusy'
  BY <1>8, <1>9 DEF ChatInv, OneBusy
<1>11. OthersAborted'
  <2>1. sendPc'[s] # "waiting" /\ (Sending(s)' => ~Pending(s)')
    BY <1>4 DEF Streaming, Pending, Sending
  <2>2. ASSUME NEW u \in Sends, NEW t \in Sends, sendPc'[u] = "waiting"
        PROVE  u \notin Answers /\ (t # u /\ (Sending(t)' \/ Pending(t)') => Aborted(t)')
    <3>1. sendPc[u] = "waiting" /\ u # s
      BY <1>4, <2>1, <2>2
    <3>2. Sending(t)' \/ Pending(t)' => Sending(t) \/ Pending(t)
      BY <1>2, <1>7
    <3> QED BY <1>8, <3>1, <3>2 DEF ChatInv, OthersAborted
  <2>3. ASSUME NEW u \in Sends, NEW t \in Sends, Sending(u)', Pending(t)' PROVE Aborted(t)'
    <3>1. u = s /\ t # s
      BY <1>7, <2>1, <2>3
    <3>2. Pending(t)
      BY <1>7, <2>3, <3>1
    <3> QED BY <1>2, <1>8, <3>2 DEF ChatInv, OthersAborted
  <2> QED BY <2>2, <2>3 DEF OthersAborted
<1>12. CallIsLast'
  <2>1. \A t \in Sends \ {s} : Pending(t)' => Aborted(t)'
    BY <1>2, <1>7, <1>8 DEF ChatInv, OthersAborted
  <2>2. sendPromise' = s
    BY <1>2 DEF ChatInv, SendInv, PromiseIsLast
  <2> QED BY <1>5, <2>1, <2>2 DEF CallIsLast
<1>13. OwnIsLast'
  BY <1>2, <1>5, <1>7 DEF ChatInv, OwnIsLast
<1> QED BY <1>1, <1>5, <1>6, <1>10, <1>11, <1>12, <1>13 DEF ChatInv

\* Calls that are settled are the last turn, and nothing else is at work.
LEMMA SettleKeeps ==
    ASSUME ~ManyWaiters, ChatInv, NEW a \in Answers, Settle(a) PROVE ChatInv'
<1>1. SendInv'
  <2>1. [ChatNext]_chatVars BY DEF ChatNext
  <2> QED BY <2>1, SendInvStep DEF ChatInv
<1>2. /\ a \in Sends /\ AnswerTo[a] \in Sends /\ sendPc' = [sendPc EXCEPT ![a] = "settled"]
      /\ UNCHANGED <<sendPromise, promptStart, lastPromptId, awaited, before, attempt, result, stray, cancelled>>
      /\ sendPc'[a] = "settled" /\ \A t \in Sends \ {a} : sendPc'[t] = sendPc[t]
      /\ Pending(AnswerTo[a]) /\ \A t \in Sends : ~Sending(t) /\ sendPc[t] # "waiting"
  BY SamePrompt DEF Settle, ChatInv, ChatTypeOK
<1>3. turns' \in Seq(TurnSet) /\ WellFormed(turns')
  <2>1. turns \in Seq(TurnSet) /\ WellFormed(turns) /\ Len(turns) \in Nat
    BY DEF ChatInv, ChatTypeOK, TurnSet
  <2>2. CASE turns' = Discard(turns)
    BY <2>1, <2>2, DiscardTurns
  <2>3. CASE turns' = Append(turns, ResponseTurn(a))
    <3>1. /\ ResponseTurn(a) \in TurnSet /\ ResponseTurn(a).kind \in {"response", "stray"}
          /\ AnswerTo[a] \notin stray => LastIs(turns, {"call"})
          /\ AnswerTo[a] \in stray => ResponseTurn(a).kind = "stray"
      BY <1>2, <2>1 DEF Settle, Ends, LastIs, ResponseTurn, TurnSet, Turn, TurnKinds, Responses
    <3>2. /\ LastIs(turns, {"call"}) => ResponseTurn(a).kind \in Responses
          /\ LastIs(turns, Responses) => ResponseTurn(a).kind \in ModelTurns \cup {"stray"}
          /\ ResponseTurn(a).kind \in Responses \ {"stray"} => LastIs(turns, {"call"})
      BY <3>1 DEF LastIs, Responses
    <3> QED BY <2>1, <2>3, <3>1, <3>2, AppendWellFormed
  <2> QED BY <2>2, <2>3 DEF Settle
<1>4. ChatTypeOK'
  <2>1. sendPc' \in [Sends -> Streaming \cup {"new", "waiting", "done", "settled"}]
    BY <1>1 DEF SendInv, SendTypes
  <2> QED BY <1>2, <1>3, <2>1 DEF ChatInv, ChatTypeOK, TurnSet
<1>5. \A t \in Sends : Pending(t)' => Pending(t) /\ t # AnswerTo[a]
  <2>1. ~Pending(a)' BY <1>2 DEF Pending
  <2>2. \A t \in Sends \ {a} : result'[t] = result[t] /\ (t \in stray' => t \in stray) BY <1>2
  <2> QED BY <1>2, <2>1, <2>2, PendingShrinks DEF ChatInv, SendInv
<1>6. \A t \in Sends : ~Sending(t)' /\ sendPc'[t] # "waiting" /\ (Aborted(t)' <=> Aborted(t))
  BY <1>2 DEF Sending, Streaming, Aborted
<1>7. OneBusy' /\ OthersAborted'
  BY <1>5, <1>6 DEF ChatInv, OneBusy, OthersAborted, Busy
<1>8. \A t \in Sends : Pending(t)' => Aborted(t)
  <2> SUFFICES ASSUME NEW t \in Sends, Pending(t)', ~Aborted(t) PROVE FALSE
    OBVIOUS
  <2> QED BY <1>5 DEF Settle
<1>9. CallIsLast' /\ OwnIsLast'
  BY <1>6, <1>8 DEF CallIsLast, OwnIsLast
<1> QED BY <1>1, <1>3, <1>4, <1>7, <1>9 DEF ChatInv

\* An abort changes nothing but who is aborted.
LEMMA CancelKeeps ==
    ASSUME ~ManyWaiters, ChatInv, NEW p \in Prompts, Cancel(p) PROVE ChatInv'
<1>1. SendInv'
  <2>1. [ChatNext]_chatVars BY DEF ChatNext
  <2> QED BY <2>1, SendInvStep DEF ChatInv
<1>2. \A t \in Sends : /\ Busy(t)' <=> Busy(t)
                       /\ Sending(t)' <=> Sending(t)
                       /\ Pending(t)' <=> Pending(t)
                       /\ Aborted(t) => Aborted(t)'
  BY DEF Cancel, Busy, Sending, Pending, Aborted
<1>3. ChatTypeOK' /\ WellFormed(turns')
  BY DEF Cancel, ChatInv, ChatTypeOK
<1>4. OneBusy'
  BY <1>2 DEF ChatInv, OneBusy
<1>5. OthersAborted' /\ CallIsLast' /\ OwnIsLast'
  BY <1>2 DEF Cancel, ChatInv, OthersAborted, CallIsLast, OwnIsLast
<1> QED BY <1>1, <1>3, <1>4, <1>5 DEF ChatInv

\* Every step keeps the invariant.
LEMMA ChatInvStep ==
    ASSUME ~ManyWaiters, ChatInv, [ChatNext]_chatVars PROVE ChatInv'
<1>1. CASE UNCHANGED chatVars
  BY <1>1 DEF chatVars, ChatInv, SendInv, SendTypes, PromiseIsLast, OneWaiter, ChatTypeOK, OneBusy, Busy,
              OthersAborted, CallIsLast, OwnIsLast, Sending, Pending, Aborted
<1> QED BY <1>1, StartKeeps, WaitKeeps, GoKeeps, SettleKeeps, CancelKeeps DEF ChatNext

\* Under what is not aborted and sends, calls and responses pair.
LEMMA InvPairs == ChatInv => PairedRequests
<1> SUFFICES ASSUME ChatInv, NEW s \in Sends, Sending(s) PROVE Paired(turns)
  BY DEF PairedRequests
<1>1. LastIs(turns, OwnKinds) /\ WellFormed(turns)
  BY DEF ChatInv, OwnIsLast
<1>2. Len(turns) \in Nat /\ Len(turns) > 0 /\ turns[Len(turns)].kind # "call"
  BY <1>1 DEF LastIs, OwnKinds, ChatInv, ChatTypeOK
<1> QED BY <1>1, <1>2 DEF WellFormed, Paired

\* Every variable of the conversation keeps its type.
THEOREM ChatTypes == ASSUME ~ManyWaiters PROVE ChatSpec => []ChatTypeOK
<1>1. ChatInv => ChatTypeOK
  BY DEF ChatInv
<1>2. ChatInv /\ [ChatNext]_chatVars => ChatInv'
  BY ChatInvStep
<1> QED BY <1>1, <1>2, ChatInvInit, PTL DEF ChatSpec

\* geminiChat.ts: the API is never sent a history with calls and responses that
\* do not pair, whatever failed, was aborted, settled or interrupted before, but
\* for the responses to calls of an attempt that came to nothing.
THEOREM RequestsPaired == ASSUME ~ManyWaiters PROVE ChatSpec => []PairedRequests
<1>1. ChatInv /\ [ChatNext]_chatVars => ChatInv'
  BY ChatInvStep
<1> QED BY <1>1, InvPairs, ChatInvInit, PTL DEF ChatSpec

-----------------------------------------------------------------------------
\* Turns are of sends that have begun.
FreshTurns == \A i \in 1 .. Len(turns) : sendPc[turns[i].of] \notin {"new", "waiting"}

\* A send under way noted where its prompt and its own turns begin.
Noted ==
    \A s \in Sends : Sending(s) =>
      /\ lastPromptId = PromptOf[s] /\ promptStart # Undefined
      /\ promptStart <= before[s] /\ before[s] < Len(turns)
      /\ \A i \in 1 .. Len(turns) : turns[i].of = s <=> i > before[s]

\* A message of the prompt failed.
MessageFailed == \E s \in Sends \ Answers : PromptOf[s] = lastPromptId /\ result[s] = "failed"

\* The turns after its start are of the prompt, the first of them no call. There
\* are none if its message failed.
PromptUnderWay ==
    /\ promptStart <= Len(turns)
    /\ promptStart < Len(turns) => turns[promptStart + 1].kind # "call"
    /\ promptStart = Len(turns) => MessageFailed
    /\ \A i \in 1 .. Len(turns) : i > promptStart => PromptOf[turns[i].of] = lastPromptId

\* The prompt is over: none of its sends is at work, and none will be.
PromptOver ==
    /\ \A s \in Sends : PromptOf[s] = lastPromptId =>
         ~Sending(s) /\ sendPc[s] # "waiting" /\ (Pending(s) => Aborted(s))
    /\ lastPromptId \in cancelled \/ MessageFailed

InPrompt == promptStart # Undefined => PromptUnderWay \/ PromptOver

\* The prompt that is noted is that of the last send.
LastNoted == sendPromise # NoSend => lastPromptId \in {NoPrompt, PromptOf[sendPromise]}

\* Only a send that is done has failed.
Unended == \A s \in Sends : sendPc[s] # "done" => result[s] # "failed"

\* What every step preserves besides ChatInv
NoteInv == FreshTurns /\ Noted /\ InPrompt /\ LastNoted

\* Nothing is noted at the start.
LEMMA NoteInvInit == ChatInit => NoteInv
<1> SUFFICES ASSUME ChatInit PROVE NoteInv OBVIOUS
<1>1. \A s \in Sends : ~Sending(s) /\ ~Pending(s) /\ sendPc[s] = "new"
  BY DEF ChatInit, Sending, Streaming, Pending
<1>2. Len(turns) = 0 /\ promptStart = Undefined
  BY DEF ChatInit
<1>3. Noted
  BY <1>1 DEF Noted
<1>4. FreshTurns /\ InPrompt /\ LastNoted
  BY <1>2 DEF ChatInit, FreshTurns, InPrompt, LastNoted
<1> QED BY <1>3, <1>4 DEF NoteInv

\* Every turn is of a send.
LEMMA TurnsOfSends ==
    ASSUME ChatInv PROVE \A i \in 1 .. Len(turns) : turns[i] \in TurnSet /\ turns[i].of \in Sends
<1>1. turns \in Seq(TurnSet)
  BY DEF ChatInv, ChatTypeOK, TurnSet
<1>2. \A i \in 1 .. Len(turns) : turns[i] \in TurnSet
  BY <1>1
<1> QED BY <1>2 DEF TurnSet

\* A send that begins finds the start of its prompt, or none.
LEMMA StartFound ==
    ASSUME ~Resends, ChatInv, NoteInv, NEW s \in Sends, CallAtOnce(s) \/ Resume(s), StartKnown(s) # Undefined
    PROVE  StartKnown(s) = promptStart /\ promptStart # Undefined /\ lastPromptId = PromptOf[s] /\ PromptUnderWay
<1>1. StartKnown(s) = promptStart /\ promptStart # Undefined /\ lastPromptId = PromptOf[s]
  BY DEF StartKnown
<1>2. CASE Resume(s)
  BY <1>1, <1>2 DEF Resume, PromptOver, NoteInv, InPrompt
<1>3. CASE CallAtOnce(s) /\ s \in Answers
  <2>1. /\ AnswerTo[s] \in Sends /\ PromptOf[AnswerTo[s]] = PromptOf[s]
        /\ Pending(AnswerTo[s]) /\ ~Aborted(AnswerTo[s])
    BY <1>3, SamePrompt DEF CallAtOnce, MayCall, Aborted
  <2> QED BY <1>1, <2>1 DEF PromptOver, NoteInv, InPrompt
<1>4. CASE CallAtOnce(s) /\ s \notin Answers
  <2>1. ~Aborted(s) /\ ~\E t \in Sends \ Answers : PromptOf[t] = PromptOf[s] /\ result[t] = "failed"
    BY <1>4 DEF CallAtOnce, MayCall
  <2> QED BY <1>1, <2>1 DEF PromptOver, MessageFailed, Aborted, NoteInv, InPrompt
<1> QED BY <1>2, <1>3, <1>4

\* A send begins: it notes where its turns begin, and its prompt if it is new.
LEMMA StartNotes ==
    ASSUME ~ManyWaiters, ~Resends, ChatInv, NoteInv, NEW s \in Sends, CallAtOnce(s) \/ Resume(s)
    PROVE  NoteInv'
<1>1. SetUp(s) /\ UNCHANGED awaited
  BY DEF CallAtOnce, Resume
<1>2. /\ AddsOwn(turns, turns', s) /\ Len(turns') > Len(turns)
      /\ Len(turns) \in Nat /\ Len(turns') \in Nat /\ turns' \in Seq(TurnSet)
  <2>1. ChatTypeOK' /\ AddsOwn(turns, turns', s) /\ Len(turns') > Len(turns)
    BY <1>1, StartFinds, SetUpTypes
  <2> QED BY <2>1 DEF ChatInv, ChatTypeOK, TurnSet
<1>3. /\ sendPc'[s] = "connecting" /\ \A t \in Sends \ {s} : sendPc'[t] = sendPc[t]
      /\ sendPc[s] \in {"new", "waiting"} /\ sendPc' = [sendPc EXCEPT ![s] = "connecting"]
      /\ UNCHANGED <<result, cancelled>> /\ lastPromptId' = PromptOf[s]
      /\ before'[s] = Len(turns)
      /\ promptStart' = IF StartKnown(s) = Undefined THEN Len(turns) ELSE StartKnown(s)
  BY <1>1 DEF SetUp, CallAtOnce, MayCall, Resume, ChatInv, ChatTypeOK
<1>4. \A i \in 1 .. Len(turns) : turns[i].of \in Sends /\ turns[i].of # s
  BY <1>3, TurnsOfSends DEF NoteInv, FreshTurns
<1>5. FreshTurns'
  <2> SUFFICES ASSUME NEW i \in 1 .. Len(turns') PROVE sendPc'[turns'[i].of] \notin {"new", "waiting"}
    BY DEF FreshTurns
  <2>1. CASE i \in 1 .. Len(turns)
    BY <1>2, <1>3, <1>4, <2>1 DEF AddsOwn, NoteInv, FreshTurns
  <2>2. CASE i \notin 1 .. Len(turns)
    <3>1. turns'[i].of = s BY <1>2, <2>2 DEF AddsOwn
    <3> QED BY <1>3, <3>1
  <2> QED BY <2>1, <2>2
<1>7. promptStart' \in Nat /\ promptStart' <= Len(turns) /\ promptStart' # Undefined
  <2>1. CASE StartKnown(s) = Undefined
    BY <1>2, <1>3, <2>1 DEF Undefined
  <2>2. CASE StartKnown(s) # Undefined
    <3>1. StartKnown(s) = promptStart /\ promptStart # Undefined /\ PromptUnderWay
      BY <2>2, StartFound
    <3> QED BY <1>2, <1>3, <3>1 DEF PromptUnderWay, ChatInv, ChatTypeOK
  <2> QED BY <2>1, <2>2
<1>8. Noted'
  <2>1. \A t \in Sends \ {s} : ~Sending(t)'
    <3>1. ChatInv' BY StartKeeps
    <3>2. sendPromise' = s BY <1>1 DEF SetUp
    <3> QED BY <3>1, <3>2 DEF ChatInv, SendInv, PromiseIsLast
  <2>2. \A i \in 1 .. Len(turns') : turns'[i].of = s <=> i > Len(turns)
    BY <1>2, <1>4 DEF AddsOwn
  <2> QED BY <1>2, <1>3, <1>7, <2>1, <2>2 DEF Noted
<1>10. PromptUnderWay'
  <2>1. CASE StartKnown(s) = Undefined
    <3>1. promptStart' = Len(turns)
      BY <1>3, <2>1
    <3>2. turns'[Len(turns) + 1].kind # "call"
      BY <1>2 DEF AddsOwn
    <3>3. \A i \in 1 .. Len(turns') : i > Len(turns) => PromptOf[turns'[i].of] = PromptOf[s]
      BY <1>2 DEF AddsOwn
    <3> QED BY <1>2, <1>3, <3>1, <3>2, <3>3 DEF PromptUnderWay
  <2>2. CASE StartKnown(s) # Undefined
    <3>1. promptStart' = promptStart /\ lastPromptId = PromptOf[s] /\ PromptUnderWay
      BY <1>3, <2>2, StartFound
    <3>3. turns'[promptStart' + 1].kind # "call"
      <4>1. CASE promptStart < Len(turns)
        <5>1. promptStart + 1 \in 1 .. Len(turns) /\ turns[promptStart + 1].kind # "call"
          BY <1>2, <1>7, <3>1, <4>1 DEF PromptUnderWay
        <5> QED BY <1>2, <3>1, <5>1 DEF AddsOwn
      <4>2. CASE ~(promptStart < Len(turns))
        <5>1. promptStart + 1 \in Len(turns) + 1 .. Len(turns')
          BY <1>2, <1>7, <3>1, <4>2
        <5> QED BY <1>2, <3>1, <5>1 DEF AddsOwn
      <4> QED BY <4>1, <4>2
    <3>4. ASSUME NEW i \in 1 .. Len(turns') PROVE i > promptStart' => PromptOf[turns'[i].of] = PromptOf[s]
      <4>1. CASE i \in 1 .. Len(turns)
        BY <1>2, <3>1, <4>1 DEF AddsOwn, PromptUnderWay
      <4>2. CASE i \notin 1 .. Len(turns)
        <5>1. turns'[i].of = s /\ i > Len(turns) BY <1>2, <4>2 DEF AddsOwn
        <5> QED BY <1>2, <1>7, <5>1
      <4> QED BY <4>1, <4>2
    <3>5. promptStart' < Len(turns') /\ promptStart' \in Nat
      BY <1>2, <1>7
    <3>6. lastPromptId' = PromptOf[s]
      BY <1>3
    <3> QED BY <1>2, <3>3, <3>4, <3>5, <3>6 DEF PromptUnderWay
  <2> QED BY <2>1, <2>2
<1>11. LastNoted'
  BY <1>1, <1>3 DEF SetUp, LastNoted
<1> QED BY <1>5, <1>8, <1>10, <1>11 DEF NoteInv, InPrompt

\* A message that waits is of a prompt that is not over.
LEMMA WaitNotes ==
    ASSUME ~ManyWaiters, ~Resends, ChatInv, NoteInv, NEW s \in Sends, CallAndWait(s) PROVE NoteInv'
<1>1. /\ sendPc' = [sendPc EXCEPT ![s] = "waiting"]
      /\ UNCHANGED <<turns, sendPromise, promptStart, lastPromptId, before, attempt, result, stray, cancelled>>
      /\ sendPc'[s] = "waiting" /\ \A t \in Sends \ {s} : sendPc'[t] = sendPc[t]
      /\ sendPc[s] = "new"
  BY DEF CallAndWait, MayCall, ChatInv, ChatTypeOK
<1>2. s \notin Answers
  <2>1. ChatInv' BY WaitKeeps
  <2> QED BY <1>1, <2>1 DEF ChatInv, OthersAborted
<1>3. \A t \in Sends \ {s} : Pending(t)' => Pending(t)
  BY <1>1, PendingShrinks DEF ChatInv, SendInv
<1>4. /\ \A t \in Sends : (Sending(t)' => Sending(t)) /\ (Aborted(t)' <=> Aborted(t))
      /\ ~Pending(s)' /\ ~Sending(s)'
  BY <1>1 DEF Sending, Streaming, Aborted, Pending
<1>5. FreshTurns'
  BY <1>1 DEF NoteInv, FreshTurns, ChatInv, ChatTypeOK
<1>7. Noted'
  BY <1>1, <1>4 DEF NoteInv, Noted
<1>8. InPrompt'
  <2>1. PromptUnderWay => PromptUnderWay'
    BY <1>1 DEF PromptUnderWay, MessageFailed
  <2>2. PromptOver => PromptOver'
    <3>1. ~Aborted(s) /\ ~\E t \in Sends \ Answers : PromptOf[t] = PromptOf[s] /\ result[t] = "failed"
      BY <1>2 DEF CallAndWait, MayCall
    <3>2. PromptOver => PromptOf[s] # lastPromptId
      BY <3>1 DEF PromptOver, MessageFailed, Aborted
    <3> QED BY <1>1, <1>3, <1>4, <3>2 DEF PromptOver, MessageFailed
  <2> QED BY <1>1, <2>1, <2>2 DEF NoteInv, InPrompt
<1>9. LastNoted'
  BY <1>1 DEF NoteInv, LastNoted
<1> QED BY <1>5, <1>7, <1>8, <1>9 DEF NoteInv

\* The prompt of a send under way is not over.
LEMMA NotOver ==
    ASSUME ChatInv, NoteInv, NEW s \in Sends, Sending(s) PROVE PromptUnderWay
<1>1. promptStart # Undefined /\ lastPromptId = PromptOf[s]
  BY DEF NoteInv, Noted
<1>2. ~PromptOver
  BY <1>1 DEF PromptOver
<1> QED BY <1>1, <1>2 DEF NoteInv, InPrompt

\* What a failure takes back, and where it leaves the prompt
LEMMA FailTakesBack ==
    ASSUME ~ManyWaiters, ~Resends, ChatInv, NoteInv, NEW s \in Sends, Fail(s)
    PROVE  /\ \E n \in 0 .. Len(turns) :
                /\ turns' = SubSeq(turns, 1, n)
                /\ \A i \in n + 1 .. Len(turns) : PromptOf[turns[i].of] = PromptOf[s]
           /\ s \notin Answers \/ Aborted(s) => \A i \in 1 .. Len(turns') : turns'[i].of # s
           /\ promptStart' # Undefined =>
                UNCHANGED <<promptStart, lastPromptId>> /\ promptStart <= Len(turns')
                /\ (s \in Answers => UNCHANGED turns)
<1>1. Sending(s) BY DEF Fail
<1>2. /\ PromptUnderWay /\ lastPromptId = PromptOf[s] /\ promptStart # Undefined
      /\ promptStart <= before[s] /\ before[s] < Len(turns)
      /\ \A i \in 1 .. Len(turns) : turns[i].of = s <=> i > before[s]
  BY <1>1, NotOver DEF NoteInv, Noted
<1>3. /\ turns \in Seq(TurnSet) /\ Len(turns) \in Nat /\ promptStart \in Nat /\ before[s] \in Nat
  BY <1>2 DEF ChatInv, ChatTypeOK, TurnSet
<1>4. ASSUME NEW n \in Nat, promptStart <= n, n <= before[s], turns' = Rollback(turns, n)
      PROVE  /\ n \in 0 .. Len(turns) /\ turns' = SubSeq(turns, 1, n)
             /\ \A i \in n + 1 .. Len(turns) : PromptOf[turns[i].of] = PromptOf[s]
             /\ \A i \in 1 .. Len(turns') : turns'[i].of # s
             /\ promptStart <= Len(turns')
  <2>1. n \in 0 .. Len(turns) /\ n <= Len(turns)
    BY <1>2, <1>3, <1>4
  <2>2. turns' = SubSeq(turns, 1, n)
    BY <1>4, <2>1 DEF Rollback
  <2>3. Len(turns') = n /\ \A i \in 1 .. n : turns'[i] = turns[i]
    BY <1>3, <2>1, <2>2, PrefixWellFormed DEF ChatInv
  <2>4. \A i \in n + 1 .. Len(turns) : PromptOf[turns[i].of] = PromptOf[s]
    BY <1>2, <1>3, <1>4 DEF PromptUnderWay
  <2>5. \A i \in 1 .. n : turns[i].of # s
    BY <1>2, <1>3, <1>4, <2>1
  <2> QED BY <1>4, <2>1, <2>2, <2>3, <2>4, <2>5
<1>5. PICK aborted \in BOOLEAN : Undo(s, aborted) /\ (Aborted(s) => aborted)
  BY DEF Fail, Aborted
<1>6. CASE aborted
  <2>1. turns' = Rollback(turns, promptStart) /\ promptStart' = Undefined
    BY <1>2, <1>5, <1>6 DEF Undo
  <2>2. promptStart <= promptStart /\ promptStart <= before[s]
    BY <1>2, <1>3
  <2>3. /\ promptStart \in 0 .. Len(turns) /\ turns' = SubSeq(turns, 1, promptStart)
        /\ \A i \in promptStart + 1 .. Len(turns) : PromptOf[turns[i].of] = PromptOf[s]
        /\ \A i \in 1 .. Len(turns') : turns'[i].of # s
    BY <1>3, <1>4, <2>1, <2>2
  <2> QED BY <2>1, <2>3
<1>7. CASE ~aborted /\ s \notin Answers
  <2>1. turns' = Rollback(turns, before[s]) /\ UNCHANGED <<promptStart, lastPromptId>>
    BY <1>5, <1>7 DEF Undo
  <2>2. /\ before[s] \in 0 .. Len(turns) /\ turns' = SubSeq(turns, 1, before[s])
        /\ \A i \in before[s] + 1 .. Len(turns) : PromptOf[turns[i].of] = PromptOf[s]
        /\ \A i \in 1 .. Len(turns') : turns'[i].of # s
        /\ promptStart <= Len(turns')
    BY <1>2, <1>3, <1>4, <2>1
  <2>4. \E n \in 0 .. Len(turns) :
          /\ turns' = SubSeq(turns, 1, n)
          /\ \A i \in n + 1 .. Len(turns) : PromptOf[turns[i].of] = PromptOf[s]
    BY <2>2
  <2> QED BY <1>7, <2>1, <2>2, <2>4
<1>8. CASE ~aborted /\ s \in Answers
  <2>1. turns' = turns /\ UNCHANGED <<promptStart, lastPromptId>>
    BY <1>5, <1>8 DEF Undo
  <2>2. turns' = SubSeq(turns, 1, Len(turns)) /\ Len(turns) \in 0 .. Len(turns)
    BY <1>3, <2>1
  <2>3. \A i \in Len(turns) + 1 .. Len(turns) : PromptOf[turns[i].of] = PromptOf[s]
    BY <1>3
  <2>4. \E n \in 0 .. Len(turns) :
          /\ turns' = SubSeq(turns, 1, n)
          /\ \A i \in n + 1 .. Len(turns) : PromptOf[turns[i].of] = PromptOf[s]
    BY <2>2, <2>3
  <2>5. promptStart <= Len(turns') /\ ~Aborted(s) BY <1>2, <1>3, <1>5, <1>8, <2>1
  <2> QED BY <1>8, <2>1, <2>4, <2>5
<1> QED BY <1>6, <1>7, <1>8

\* A step of a send under way keeps the notes.
LEMMA GoNotes ==
    ASSUME ~ManyWaiters, ~Resends, ChatInv, NoteInv, NEW s \in Sends, Go(s) PROVE NoteInv'
<1>1. /\ Sending(s) /\ UNCHANGED <<sendPromise, awaited, cancelled>>
      /\ \A t \in Sends \ {s} : result'[t] = result[t] /\ (t \in stray' => t \in stray)
      /\ ChatInv'
  BY GoMoves, GoKeeps
<1>2. PICK pc \in Streaming \cup {"done"} : sendPc' = [sendPc EXCEPT ![s] = pc]
  BY GoMoves
<1>3. sendPc'[s] = pc /\ \A t \in Sends \ {s} : sendPc'[t] = sendPc[t]
  BY <1>2 DEF ChatInv, ChatTypeOK
<1>4. /\ PromptUnderWay /\ lastPromptId = PromptOf[s] /\ promptStart # Undefined /\ promptStart \in Nat
      /\ turns \in Seq(TurnSet) /\ Len(turns) \in Nat /\ promptStart < Len(turns)
  <2>1. PromptUnderWay BY <1>1, NotOver
  <2>2. lastPromptId = PromptOf[s] /\ promptStart # Undefined /\ promptStart <= before[s] /\ before[s] < Len(turns)
    BY <1>1 DEF NoteInv, Noted
  <2>3. turns \in Seq(TurnSet) /\ Len(turns) \in Nat /\ promptStart \in Nat /\ before[s] \in Nat
    BY <2>2 DEF ChatInv, ChatTypeOK, TurnSet
  <2> QED BY <2>1, <2>2, <2>3
<1>5. \A t \in Sends \ {s} : ~Sending(t)'
  <2>1. \A t \in Sends \ {s} : ~Sending(t)
    BY <1>1 DEF ChatInv, SendInv, PromiseIsLast
  <2> QED BY <1>3, <2>1 DEF Sending
<1>7. FreshTurns /\ sendPc'[s] \notin {"new", "waiting"}
  BY <1>3 DEF NoteInv, Streaming
<1>8. LastNoted'
  <2>1. sendPromise' = s
    BY <1>1 DEF ChatInv, SendInv, PromiseIsLast
  <2>2. lastPromptId' \in {lastPromptId, NoPrompt}
    <3>1. CASE Fail(s)
      BY <3>1 DEF Fail, Undo
    <3>2. CASE ~Fail(s)
      BY <3>2, GoMoves DEF Finish
    <3> QED BY <3>1, <3>2
  <2> QED BY <1>4, <2>1, <2>2 DEF LastNoted
<1>9. CASE UNCHANGED <<turns, promptStart, lastPromptId>> /\ (sendPc'[s] # "done" => UNCHANGED before)
  <2>1. FreshTurns'
    BY <1>3, <1>7, <1>9, TurnsOfSends DEF FreshTurns
  <2>2. Noted'
    BY <1>1, <1>5, <1>9 DEF NoteInv, Noted, Sending, Streaming
  <2>5. PromptUnderWay'
    BY <1>4, <1>9 DEF PromptUnderWay
  <2> QED BY <1>8, <2>1, <2>2, <2>5 DEF NoteInv, InPrompt
<1>10. CASE sendPc'[s] = "done" /\ Finish(s)
  <2>1. /\ Len(turns') = Len(turns) + 1 /\ turns'[Len(turns) + 1] = Turn(result'[s], s)
        /\ \A i \in 1 .. Len(turns) : turns'[i] = turns[i]
        /\ UNCHANGED <<promptStart, lastPromptId>>
    BY <1>4, <1>10, FinishTurns DEF Finish
  <2>2. turns'[Len(turns) + 1].of = s
    BY <2>1 DEF Turn
  <2>3. FreshTurns'
    <3> SUFFICES ASSUME NEW i \in 1 .. Len(turns') PROVE sendPc'[turns'[i].of] \notin {"new", "waiting"}
      BY DEF FreshTurns
    <3>1. CASE i \in 1 .. Len(turns)
      BY <1>3, <1>7, <2>1, <3>1, TurnsOfSends DEF FreshTurns
    <3>2. CASE i \notin 1 .. Len(turns)
      BY <1>4, <1>7, <2>1, <2>2, <3>2
    <3> QED BY <3>1, <3>2
  <2>4. Noted'
    BY <1>5, <1>10 DEF Noted, Sending, Streaming
  <2>6. PromptUnderWay'
    <3>1. promptStart' < Len(turns') /\ promptStart + 1 \in 1 .. Len(turns)
      BY <1>4, <2>1 DEF PromptUnderWay
    <3>2. turns'[promptStart' + 1].kind # "call"
      BY <1>4, <2>1, <3>1 DEF PromptUnderWay
    <3>3. ASSUME NEW i \in 1 .. Len(turns') PROVE i > promptStart' => PromptOf[turns'[i].of] = lastPromptId'
      <4>1. CASE i \in 1 .. Len(turns)
        BY <1>4, <2>1, <4>1 DEF PromptUnderWay
      <4>2. CASE i = Len(turns) + 1
        BY <1>4, <2>1, <2>2, <4>2 DEF PromptUnderWay
      <4> QED BY <1>4, <2>1, <4>1, <4>2
    <3> QED BY <1>4, <2>1, <3>1, <3>2, <3>3 DEF PromptUnderWay
  <2> QED BY <1>8, <2>3, <2>4, <2>6 DEF NoteInv, InPrompt
<1>11. CASE sendPc'[s] = "done" /\ Fail(s)
  <2>1. PICK n \in 0 .. Len(turns) : turns' = SubSeq(turns, 1, n)
    BY <1>11, FailTakesBack
  <2>2. Len(turns') = n /\ \A i \in 1 .. n : turns'[i] = turns[i]
    BY <1>4, <2>1, PrefixWellFormed DEF ChatInv
  <2>3. FreshTurns'
    BY <1>3, <1>7, <2>2, TurnsOfSends DEF FreshTurns
  <2>4. Noted'
    BY <1>5, <1>11 DEF Noted, Sending, Streaming
  <2>7. promptStart' # Undefined => PromptUnderWay'
    <3> SUFFICES ASSUME promptStart' # Undefined PROVE PromptUnderWay' OBVIOUS
    <3>1. /\ UNCHANGED <<promptStart, lastPromptId>> /\ promptStart <= Len(turns')
          /\ s \in Answers => UNCHANGED turns
      BY <1>11, FailTakesBack
    <3>2. promptStart = Len(turns') => MessageFailed'
      <4>1. s \in Answers => promptStart # Len(turns')
        BY <1>4, <3>1
      <4>2. result'[s] = "failed" BY <1>11, FailTurns
      <4> QED BY <1>4, <3>1, <4>1, <4>2 DEF MessageFailed
    <3>3. promptStart < Len(turns') => turns'[promptStart + 1].kind # "call"
      <4> SUFFICES ASSUME promptStart < Len(turns') PROVE turns'[promptStart + 1].kind # "call" OBVIOUS
      <4>1. promptStart + 1 \in 1 .. n BY <1>4, <2>2
      <4> QED BY <1>4, <2>2, <4>1 DEF PromptUnderWay
    <3>4. \A i \in 1 .. Len(turns') : i > promptStart => PromptOf[turns'[i].of] = lastPromptId
      BY <1>4, <2>2 DEF PromptUnderWay
    <3> QED BY <3>1, <3>2, <3>3, <3>4 DEF PromptUnderWay
  <2> QED BY <1>8, <2>3, <2>4, <2>7 DEF NoteInv, InPrompt
<1> QED BY <1>9, <1>10, <1>11, GoMoves DEF Streaming

\* Calls that are settled are not the first turn of their prompt, unless that
\* prompt is over.
LEMMA SettleNotes ==
    ASSUME ~ManyWaiters, ChatInv, NoteInv, NEW a \in Answers, Settle(a) PROVE NoteInv'
<1>1. /\ a \in Sends /\ AnswerTo[a] \in Sends /\ PromptOf[AnswerTo[a]] = PromptOf[a]
      /\ sendPc' = [sendPc EXCEPT ![a] = "settled"] /\ sendPc[a] = "new"
      /\ UNCHANGED <<sendPromise, promptStart, lastPromptId, awaited, before, attempt, result, stray, cancelled>>
      /\ sendPc'[a] = "settled" /\ \A t \in Sends \ {a} : sendPc'[t] = sendPc[t]
      /\ \A t \in Sends : ~Sending(t) /\ sendPc[t] # "waiting"
      /\ \A t \in Sends \ {AnswerTo[a]} : Pending(t) => Aborted(t)
  BY SamePrompt DEF Settle, ChatInv, ChatTypeOK
<1>2. turns \in Seq(TurnSet) /\ Len(turns) \in Nat /\ WellFormed(turns) /\ promptStart \in Nat \cup {Undefined}
  BY DEF ChatInv, ChatTypeOK, TurnSet
<1>3. \A t \in Sends : Pending(t)' => Pending(t) /\ t # AnswerTo[a]
  <2>1. ~Pending(a)' BY <1>1 DEF Pending
  <2>2. \A t \in Sends \ {a} : result'[t] = result[t] /\ (t \in stray' => t \in stray) BY <1>1
  <2> QED BY <1>1, <2>1, <2>2, PendingShrinks DEF ChatInv, SendInv
<1>4. \A t \in Sends : ~Sending(t)' /\ sendPc'[t] # "waiting" /\ (Pending(t)' => Aborted(t)')
  BY <1>1, <1>3 DEF Sending, Streaming, Aborted
<1>5. Noted' /\ LastNoted'
  BY <1>1, <1>4 DEF NoteInv, Noted, LastNoted
<1>6. PromptOver \/ MessageFailed => PromptOver'
  BY <1>1, <1>4 DEF PromptOver, MessageFailed
<1>7. CASE turns' = Append(turns, ResponseTurn(a))
  <2>1. /\ Len(turns') = Len(turns) + 1 /\ turns'[Len(turns) + 1] = ResponseTurn(a)
        /\ \A i \in 1 .. Len(turns) : turns'[i] = turns[i]
    <3>1. ResponseTurn(a) \in TurnSet BY <1>1 DEF ResponseTurn, Turn, TurnSet, TurnKinds, Responses
    <3> QED BY <1>2, <1>7, <3>1, AppendProperties
  <2>2. turns'[Len(turns) + 1].of = a /\ turns'[Len(turns) + 1].kind # "call"
    BY <2>1 DEF ResponseTurn, Turn
  <2>3. FreshTurns'
    <3> SUFFICES ASSUME NEW i \in 1 .. Len(turns') PROVE sendPc'[turns'[i].of] \notin {"new", "waiting"}
      BY DEF FreshTurns
    <3>1. CASE i \in 1 .. Len(turns)
      BY <1>1, <2>1, <3>1, TurnsOfSends DEF NoteInv, FreshTurns
    <3>2. CASE i \notin 1 .. Len(turns)
      <4>1. turns'[i].of = a BY <1>2, <2>1, <2>2, <3>2
      <4> QED BY <1>1, <4>1
    <3> QED BY <3>1, <3>2
  <2>4. ASSUME promptStart # Undefined, PromptUnderWay, PromptOf[a] = lastPromptId PROVE PromptUnderWay'
    <3>1. promptStart' = promptStart /\ promptStart \in Nat /\ lastPromptId' = lastPromptId
          /\ promptStart <= Len(turns) /\ promptStart < Len(turns')
      BY <1>1, <1>2, <2>1, <2>4 DEF PromptUnderWay
    <3>2. turns'[promptStart' + 1].kind # "call"
      <4>1. CASE promptStart = Len(turns) BY <2>2, <3>1, <4>1
      <4>2. CASE promptStart < Len(turns)
        <5>1. promptStart + 1 \in 1 .. Len(turns) BY <1>2, <3>1, <4>2
        <5> QED BY <2>1, <2>4, <3>1, <4>2, <5>1 DEF PromptUnderWay
      <4> QED BY <1>2, <3>1, <4>1, <4>2
    <3>3. ASSUME NEW i \in 1 .. Len(turns') PROVE i > promptStart => PromptOf[turns'[i].of] = lastPromptId
      <4>1. CASE i \in 1 .. Len(turns)
        BY <2>1, <2>4, <4>1 DEF PromptUnderWay
      <4>2. CASE i = Len(turns) + 1
        BY <2>2, <2>4, <4>2
      <4> QED BY <1>2, <2>1, <4>1, <4>2
    <3> QED BY <1>2, <2>1, <3>1, <3>2, <3>3 DEF PromptUnderWay
  <2>5. ASSUME promptStart # Undefined, PromptUnderWay, PromptOf[a] # lastPromptId PROVE MessageFailed
    <3> SUFFICES ASSUME promptStart < Len(turns) PROVE FALSE
      BY <1>2, <2>5 DEF PromptUnderWay
    <3>1. PromptOf[turns[Len(turns)].of] = lastPromptId /\ turns[Len(turns)].of \in Sends
      BY <1>2, <2>5, TurnsOfSends DEF PromptUnderWay
    <3>2. lastPromptId \in Prompts /\ lastPromptId # NoPrompt
      BY <3>1, ChatConstants DEF ChatConstants
    <3>3. CASE sendPromise = AnswerTo[a]
      <4>1. sendPromise # NoSend BY <1>1, <3>3, ChatConstants DEF ChatConstants
      <4> QED BY <1>1, <2>5, <3>2, <3>3, <4>1 DEF NoteInv, LastNoted
    <3>4. CASE turns[Len(turns)].of = AnswerTo[a]
      BY <1>1, <2>5, <3>1, <3>4
    <3> QED BY <3>3, <3>4 DEF Settle
  <2> QED BY <1>1, <1>5, <1>6, <2>3, <2>4, <2>5 DEF NoteInv, InPrompt
<1>8. CASE turns' = Discard(turns)
  <2>1. CASE turns' = turns
    <3>1. FreshTurns' BY <1>1, <2>1, TurnsOfSends DEF NoteInv, FreshTurns
    <3>2. PromptUnderWay => PromptUnderWay' BY <1>1, <2>1 DEF PromptUnderWay, MessageFailed
    <3> QED BY <1>1, <1>5, <1>6, <3>1, <3>2 DEF NoteInv, InPrompt
  <2>2. CASE LastIs(turns, {"call"}) /\ turns' = SubSeq(turns, 1, Len(turns) - 1)
    <3>1. Len(turns) - 1 \in 0 .. Len(turns) /\ Len(turns) > 0 /\ turns[Len(turns)].kind = "call"
      BY <1>2, <2>2 DEF LastIs
    <3>2. Len(turns') = Len(turns) - 1 /\ \A i \in 1 .. Len(turns) - 1 : turns'[i] = turns[i]
      BY <1>2, <2>2, <3>1, PrefixWellFormed
    <3>3. FreshTurns'
      <4> SUFFICES ASSUME NEW i \in 1 .. Len(turns') PROVE sendPc'[turns'[i].of] \notin {"new", "waiting"}
        BY DEF FreshTurns
      <4>1. i \in 1 .. Len(turns) /\ turns'[i] = turns[i] BY <1>2, <3>2
      <4> QED BY <1>1, <4>1, TurnsOfSends DEF NoteInv, FreshTurns
    <3>4. ASSUME promptStart # Undefined, PromptUnderWay, promptStart # Len(turns) PROVE PromptUnderWay'
      <4>1. promptStart' = promptStart /\ promptStart \in Nat /\ lastPromptId' = lastPromptId
            /\ promptStart < Len(turns) /\ promptStart + 1 # Len(turns)
        BY <1>1, <1>2, <3>1, <3>4 DEF PromptUnderWay
      <4>2. promptStart < Len(turns') /\ promptStart + 1 \in 1 .. Len(turns) - 1
        BY <1>2, <3>2, <4>1
      <4>3. turns'[promptStart' + 1].kind # "call"
        BY <3>2, <3>4, <4>1, <4>2 DEF PromptUnderWay
      <4>4. \A i \in 1 .. Len(turns') : i > promptStart => PromptOf[turns'[i].of] = lastPromptId
        BY <1>2, <3>2, <3>4 DEF PromptUnderWay
      <4> QED BY <1>2, <3>2, <4>1, <4>2, <4>3, <4>4 DEF PromptUnderWay
    <3>5. ASSUME PromptUnderWay, promptStart = Len(turns) PROVE MessageFailed
      BY <3>5 DEF PromptUnderWay
    <3> QED BY <1>1, <1>5, <1>6, <3>3, <3>4, <3>5 DEF NoteInv, InPrompt
  <2> QED BY <1>2, <1>8, <2>1, <2>2, DiscardTurns
<1> QED BY <1>7, <1>8 DEF Settle

\* Every step keeps the notes.
LEMMA NoteInvStep ==
    ASSUME ~ManyWaiters, ~Resends, ChatInv, NoteInv, [ChatNext]_chatVars PROVE NoteInv'
<1>1. ASSUME NEW p \in Prompts, Cancel(p) PROVE NoteInv'
  <2>1. /\ UNCHANGED <<turns, sendPromise, promptStart, lastPromptId, sendPc, awaited, before, attempt, result, stray>>
        /\ \A s \in Sends : Aborted(s) => Aborted(s)'
    BY <1>1 DEF Cancel, Aborted
  <2>2. \A s \in Sends : /\ Sending(s)' <=> Sending(s)
                         /\ Pending(s)' <=> Pending(s)
    BY <2>1 DEF Sending, Pending
  <2>3. FreshTurns' /\ Noted' /\ LastNoted'
    BY <2>1, <2>2 DEF NoteInv, FreshTurns, Noted, LastNoted
  <2>4. PromptUnderWay => PromptUnderWay'
    BY <2>1 DEF PromptUnderWay, MessageFailed
  <2>5. PromptOver => PromptOver'
    BY <1>1, <2>1, <2>2 DEF Cancel, PromptOver, MessageFailed
  <2> QED BY <2>1, <2>3, <2>4, <2>5 DEF NoteInv, InPrompt
<1>2. CASE UNCHANGED chatVars
  BY <1>2 DEF chatVars, NoteInv, FreshTurns, Noted, LastNoted, InPrompt, PromptUnderWay, PromptOver, MessageFailed,
              Sending, Pending, Aborted
<1> QED BY <1>1, <1>2, StartNotes, WaitNotes, GoNotes, SettleNotes DEF ChatNext

\* What is done is not done again.
LEMMA UnendedStep ==
    ASSUME ChatInv, Unended, [ChatNext]_chatVars PROVE Unended'
<1>1. ASSUME NEW s \in Sends, NEW pc, sendPc[s] # "done",
             sendPc' = [sendPc EXCEPT ![s] = pc], pc # "done" => result'[s] = result[s],
             \A t \in Sends \ {s} : result'[t] = result[t]
      PROVE  Unended'
  BY <1>1 DEF ChatInv, ChatTypeOK, Unended
<1>2. ASSUME NEW s \in Sends, CallAtOnce(s) \/ Resume(s) \/ CallAndWait(s) PROVE Unended'
  <2>1. PICK pc \in {"connecting", "waiting"} : sendPc' = [sendPc EXCEPT ![s] = pc] /\ result' = result /\ sendPc[s] # "done"
    BY <1>2 DEF CallAtOnce, MayCall, Resume, CallAndWait, SetUp
  <2> QED BY <1>1, <2>1
<1>3. ASSUME NEW s \in Sends, Go(s) PROVE Unended'
  <2>1. PICK pc \in Streaming \cup {"done"} : sendPc' = [sendPc EXCEPT ![s] = pc]
    BY <1>3, GoMoves
  <2>2. /\ sendPc[s] # "done" /\ \A t \in Sends \ {s} : result'[t] = result[t]
        /\ sendPc'[s] # "done" => result' = result
    BY <1>3, GoMoves DEF Sending, Streaming
  <2>3. sendPc'[s] = pc
    BY <2>1 DEF ChatInv, ChatTypeOK
  <2>4. pc # "done" => result'[s] = result[s]
    BY <2>2, <2>3
  <2> QED BY <1>1, <2>1, <2>2, <2>4
<1>4. ASSUME NEW a \in Answers, Settle(a) PROVE Unended'
  <2>1. a \in Sends /\ sendPc[a] # "done" /\ result' = result /\ sendPc' = [sendPc EXCEPT ![a] = "settled"]
    BY <1>4, SamePrompt DEF Settle
  <2> QED BY <1>1, <2>1
<1>5. ASSUME UNCHANGED <<sendPc, result>> PROVE Unended'
  BY <1>5 DEF Unended
<1> QED BY <1>2, <1>3, <1>4, <1>5 DEF ChatNext, Cancel, chatVars

\* Only its own failure makes a send that is under way one that failed.
LEMMA FailsByItself ==
    ASSUME ChatInv, Unended, [ChatNext]_chatVars, NEW s \in Sends, Sending(s), result'[s] = "failed"
    PROVE  Fail(s)
<1>1. result'[s] # result[s] /\ sendPc[s] \in Streaming
  BY DEF Unended, Sending, Streaming
<1>2. result' # result
  BY <1>1
<1>3. PICK t \in Sends : Go(t)
  BY <1>2 DEF ChatNext, CallAtOnce, Resume, CallAndWait, SetUp, Settle, Cancel, chatVars
<1>4. t = s
  BY <1>1, <1>3, GoMoves
<1>5. ~Finish(s)
  BY FinishTurns
<1>6. ~Blocked(s)
  BY DEF Blocked, End, ChatInv, ChatTypeOK
<1> QED BY <1>1, <1>3, <1>4, <1>5, <1>6, GoMoves

\* geminiChat.ts: a send that fails takes back the last turns of its own prompt
\* and all its own, unless they are responses that are still owed to the model.
THEOREM FailureTakesItsOwn ==
    ASSUME ~ManyWaiters, ~Resends PROVE ChatSpec => FailureIsOwn
<1> DEFINE Inv == ChatInv /\ NoteInv /\ Unended
           Own1 == \A s \in Sends : Sending(s) /\ result'[s] = "failed" =>
                     /\ \E n \in 0 .. Len(turns) :
                          /\ turns' = SubSeq(turns, 1, n)
                          /\ \A i \in n + 1 .. Len(turns) : PromptOf[turns[i].of] = PromptOf[s]
                     /\ s \notin Answers \/ Aborted(s) => \A i \in 1 .. Len(turns') : turns'[i].of # s
<1>1. ChatInit => Inv
  <2>1. ChatInit => Unended BY DEF ChatInit, Unended
  <2> QED BY <2>1, ChatInvInit, NoteInvInit
<1>2. Inv /\ [ChatNext]_chatVars => Inv'
  BY ChatInvStep, NoteInvStep, UnendedStep
<1>3. Inv /\ [ChatNext]_chatVars => Own1
  BY FailsByItself, FailTakesBack
<1>4. Inv /\ [ChatNext]_chatVars => [Own1]_chatVars
  BY <1>3
<1> HIDE DEF Inv
<1>5. ChatSpec => [][Own1]_chatVars
  BY <1>1, <1>2, <1>4, PTL DEF ChatSpec
<1> QED BY <1>5 DEF FailureIsOwn
=============================================================================
