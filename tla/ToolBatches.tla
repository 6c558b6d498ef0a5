---------------------------- MODULE ToolBatches ----------------------------
(***************************************************************************)
(* What Scheduler.schedule() promises its callers, whatever happens inside *)
(* (scheduler.ts, the contract of schedule() and of CompletedToolCall):    *)
(* a batch is accepted, each of its calls gets exactly one outcome, which  *)
(* never changes, and the promise resolves when all of them have theirs.   *)
(* A promise that is rejected belongs to a batch of which nothing ran.     *)
(***************************************************************************)
CONSTANTS Calls, Batches, CallsOf(_)

VARIABLES phase, outcome

Phases == {"new", "open", "resolved", "rejected"}
Outcomes == {"success", "error", "cancelled"}

Keeps(b) == \A c \in CallsOf(b) : outcome'[c] = outcome[c]
Blank(b) == \A c \in CallsOf(b) : outcome[c] = "none"
Moves(b, from, to) == phase[b] = from /\ phase'[b] = to

Accept(b) == Moves(b, "new", "open") /\ Keeps(b)

Settle(b) ==
    /\ Moves(b, "open", "open")
    /\ \A c \in CallsOf(b) : outcome[c] # "none" => outcome'[c] = outcome[c]

Resolve(b) ==
    /\ Moves(b, "open", "resolved")
    /\ Keeps(b)
    /\ \A c \in CallsOf(b) : outcome[c] \in Outcomes

Reject(b) == (Moves(b, "new", "rejected") \/ Moves(b, "open", "rejected")) /\ Blank(b) /\ Keeps(b)

Same(b) == phase'[b] = phase[b] /\ Keeps(b)

Init ==
    /\ phase = [b \in Batches |-> "new"]
    /\ outcome = [c \in Calls |-> "none"]

\* The batches are independent of each other.
Next ==
    /\ phase' \in [Batches -> Phases]
    /\ outcome' \in [Calls -> Outcomes \cup {"none"}]
    /\ \A b \in Batches : Accept(b) \/ Settle(b) \/ Resolve(b) \/ Reject(b) \/ Same(b)

Spec == Init /\ [][Next]_<<phase, outcome>>
=============================================================================
