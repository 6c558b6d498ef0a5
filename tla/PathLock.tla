------------------------------ MODULE PathLock ------------------------------
(***************************************************************************)
(* The per-path mutex of packages/core/src/utils/pathMutex.ts: each caller *)
(* of withPathLock waits for the promise its predecessor on the same path  *)
(* left in a map, and leaves one of its own, which is named here by the    *)
(* caller that resolves it.                                                *)
(***************************************************************************)
EXTENDS Naturals

CONSTANTS
    Callers,   \* one per call of withPathLock
    Keys,      \* resolved paths
    KeyOf,     \* [Callers -> Keys]
    NoCaller   \* model value: no entry in the map

ASSUME LockConstants ==
    KeyOf \in [Callers -> Keys] /\ NoCaller \notin Callers

VARIABLES
    chain,     \* chains: whose promise the next caller of a path waits for
    previous,  \* whose promise a caller waits for
    pc,        \* where a call of withPathLock is
    aborted,   \* callers whose signal is aborted
    told,      \* callers whose own promise was rejected with 'Aborted'
    arrival,   \* history: order of arrival
    clock      \* history: next arrival

lockVars == <<chain, previous, pc, aborted, told, arrival, clock>>

\* Callers that have an unresolved promise in the chain of their path. One
\* that is leaving was aborted: its caller has been told, its place is kept.
InLine == {c \in Callers : pc[c] \in {"waiting", "running", "leaving"}}

\* wrong: an aborted waiter never resolves its promise
OnlyLeft == {c \in Callers : pc[c] = "left"}

Released == {c \in Callers : pc[c] \in {"left", "quit"}}

\* The promise a caller waits for is resolved.
Turn(c) == previous[c] \in Released \cup {NoCaller}

\* wrong: an aborted waiter gives its place up without waiting
PassAtOnce(c) == TRUE

\* previous.then(...) in onAbort
MayPass(c) == Turn(c)

\* wrong: the entry is removed although others wait behind
RemoveAlways(c) == [chain EXCEPT ![KeyOf[c]] = NoCaller]

\* wrong: the entry stays
RemoveNever(c) == chain

\* cleanup: the entry is removed only by the caller that is last in line.
Cleaned(c) ==
    IF chain[KeyOf[c]] = c THEN [chain EXCEPT ![KeyOf[c]] = NoCaller] ELSE chain

\* wrong: the predecessor's release starts fn although the caller was aborted
EnterAnyway(c) == pc[c] \in {"waiting", "leaving"} /\ Turn(c)

\* previous.then(...), if still active
MayEnter(c) == pc[c] = "waiting" /\ Turn(c)

LockInit ==
    /\ chain = [k \in Keys |-> NoCaller]
    /\ previous = [c \in Callers |-> NoCaller]
    /\ pc = [c \in Callers |-> "new"]
    /\ aborted = {} /\ told = {}
    /\ arrival = [c \in Callers |-> 0] /\ clock = 1

Lock(c) ==
    /\ pc[c] = "new" /\ c \notin aborted
    /\ previous' = [previous EXCEPT ![c] = chain[KeyOf[c]]]
    /\ chain' = [chain EXCEPT ![KeyOf[c]] = c]
    /\ pc' = [pc EXCEPT ![c] = "waiting"]
    /\ arrival' = [arrival EXCEPT ![c] = clock] /\ clock' = clock + 1
    /\ UNCHANGED <<aborted, told>>

LockRejected(c) ==
    /\ pc[c] = "new" /\ c \in aborted
    /\ pc' = [pc EXCEPT ![c] = "rejected"]
    /\ told' = told \cup {c}
    /\ UNCHANGED <<chain, previous, aborted, arrival, clock>>

\* The signal is aborted: a waiter is rejected at once. The listener of a
\* caller that runs is gone.
Abort(c) ==
    /\ c \notin aborted
    /\ aborted' = aborted \cup {c}
    /\ IF pc[c] = "waiting"
       THEN pc' = [pc EXCEPT ![c] = "leaving"] /\ told' = told \cup {c}
       ELSE UNCHANGED <<pc, told>>
    /\ UNCHANGED <<chain, previous, arrival, clock>>

Enter(c) ==
    /\ MayEnter(c)
    /\ pc' = [pc EXCEPT ![c] = "running"]
    /\ UNCHANGED <<chain, previous, aborted, told, arrival, clock>>

\* fn has resolved or rejected
Leave(c) ==
    /\ pc[c] = "running"
    /\ pc' = [pc EXCEPT ![c] = "left"]
    /\ chain' = Cleaned(c)
    /\ UNCHANGED <<previous, aborted, told, arrival, clock>>

\* The predecessor of an aborted waiter has left: its place is given up.
Pass(c) ==
    /\ pc[c] = "leaving" /\ MayPass(c)
    /\ pc' = [pc EXCEPT ![c] = "quit"]
    /\ chain' = Cleaned(c)
    /\ UNCHANGED <<previous, aborted, told, arrival, clock>>

-----------------------------------------------------------------------------
\* Callers that stand in line for FairMutex: an aborted one is out of it,
\* although its promise is still a link of the chain.
Waits == {c \in Callers : pc[c] = "waiting"}
Runs == {c \in Callers : pc[c] = "running"}
Active == Waits \cup Runs

\* Who stands before c
Before(c) ==
    {d \in Active : c \in Active /\ KeyOf[d] = KeyOf[c] /\ arrival[d] < arrival[c]}

Ahead == [c \in Callers |-> Before(c)]

Fair == INSTANCE FairMutex WITH waiting <- Waits, served <- Runs, ahead <- Ahead

\* withPathLock serves the callers of a path one at a time in the order of
\* their calls, and an abort takes only the aborted waiter out of the line.
ImplementsFairMutex == Fair!Spec

\* No two callers run under the lock of one path, however many waiters abort
\* between them.
Exclusion ==
    \A c, d \in Callers :
      pc[c] = "running" /\ pc[d] = "running" /\ KeyOf[c] = KeyOf[d] => c = d

\* A path keeps an entry in the map exactly while somebody is in line for it.
NoLeak ==
    \A k \in Keys : chain[k] = NoCaller <=> \A c \in InLine : KeyOf[c] # k
=============================================================================
