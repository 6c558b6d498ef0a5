----------------------------- MODULE FairMutex -----------------------------
(* What withPathLock promises: the callers of a key stand in line, one is    *)
(* served when nobody is ahead of it, and who waits may step out of the line *)
(* at any time.                                                              *)
CONSTANTS Callers, Keys, KeyOf

VARIABLES
    waiting, served,   \* the callers in line
    ahead              \* who stands before a caller

Init == waiting = {} /\ served = {} /\ ahead = [c \in Callers |-> {}]

SameKey(c) == {d \in waiting \cup served : KeyOf[d] = KeyOf[c]}

\* Nobody waits for c any more.
Gone(c) == [d \in Callers |-> IF d = c THEN {} ELSE ahead[d] \ {c}]

Join(c) ==
    /\ c \notin waiting \cup served
    /\ waiting' = waiting \cup {c}
    /\ ahead' = [ahead EXCEPT ![c] = SameKey(c)]
    /\ UNCHANGED served

Serve(c) ==
    /\ c \in waiting /\ ahead[c] = {}
    /\ waiting' = waiting \ {c} /\ served' = served \cup {c}
    /\ UNCHANGED ahead

Quit(c) ==
    /\ c \in waiting
    /\ waiting' = waiting \ {c} /\ ahead' = Gone(c)
    /\ UNCHANGED served

Finish(c) ==
    /\ c \in served
    /\ served' = served \ {c} /\ ahead' = Gone(c)
    /\ UNCHANGED waiting

Next == \E c \in Callers : Join(c) \/ Serve(c) \/ Quit(c) \/ Finish(c)

Spec == Init /\ [][Next]_<<waiting, served, ahead>>
=============================================================================
