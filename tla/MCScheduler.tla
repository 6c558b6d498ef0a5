---------------------------- MODULE MCScheduler ----------------------------
(* Instances of the scheduler for TLC. *)
EXTENDS SchedulerInvariant

CONSTANTS p1, p2, e1, x1, b1, b2, b3, s1, s2

\* One batch: two parallelizable calls, then an edit.
WaveRequests == (b1 :> <<p1, p2, e1>>)
OneSignal == (b1 :> s1)

\* Two batches of one call, and one batch of two calls.
ShortRequests == (b1 :> <<p1>> @@ b2 :> <<e1>>)
PairSignals == (b1 :> s1 @@ b2 :> s2)
DuoRequests == (b1 :> <<p1, p2>>)

\* Three batches: a call before a topic update, a call that does not build,
\* and one more.
QueueRequests == (b1 :> <<p1, e1>> @@ b2 :> <<x1>> @@ b3 :> <<p2>>)
QueueSignals == (b1 :> s1 @@ b2 :> s1 @@ b3 :> s2)

\* Which calls may chain a tail call
NoTails == [c \in Calls |-> 0]
TailOfP1 == [c \in Calls |-> IF c = p1 THEN 1 ELSE 0]
TailOfAny == [c \in Calls |-> 1]
=============================================================================
