------------------------- MODULE FileEditsInvariant -------------------------
(* The inductive invariant of FileEdits: TLC checks it, FileEditsProofs uses *)
(* it.                                                                       *)
EXTENDS FileEdits

SameLine(c, d) == c \in InLine /\ d \in InLine /\ KeyOf[c] = KeyOf[d]

\* Arrivals are distinct and precede the clock.
Arrivals ==
    /\ \A c \in Callers : pc[c] \notin {"new", "rejected"} => arrival[c] < clock
    /\ \A c, d \in Callers :
         /\ pc[c] \notin {"new", "rejected"} /\ pc[d] \notin {"new", "rejected"}
         /\ arrival[c] = arrival[d]
         => c = d

\* A caller waits for the one just before it, or for nobody that is in line.
Predecessor ==
    \A c \in InLine :
      \/ Turn(c)
      \/ /\ SameLine(c, previous[c]) /\ arrival[previous[c]] < arrival[c]
         /\ \A e \in InLine :
              SameLine(c, e) /\ arrival[e] < arrival[c]
              => arrival[e] <= arrival[previous[c]]

\* Whose turn it is arrived first.
FirstServed ==
    \A c, d \in InLine : SameLine(c, d) /\ Turn(c) => arrival[c] <= arrival[d]

\* The entry of a path in the map is the last caller in line for it.
LastInMap ==
    \A k \in Keys : chain[k] # NoCaller =>
      /\ chain[k] \in InLine /\ KeyOf[chain[k]] = k
      /\ \A e \in InLine : KeyOf[e] = k => arrival[e] <= arrival[chain[k]]

RunningHasTurn == \A c \in Callers : pc[c] = "running" => Turn(c)

\* The lock's own invariant
LockInv ==
    /\ Arrivals /\ Predecessor /\ FirstServed
    /\ LastInMap /\ NoLeak /\ RunningHasTurn

\* An edit is suspended inside its critical section, and starts with the lock.
Sections ==
    \A c \in Callers :
      /\ stage[c] \in {"reading", "computed", "writing"} => pc[c] = "running"
      /\ pc[c] \in {"running", "left"} <=> stage[c] # "outside"

ToldWaited == \A c \in told : pc[c] \in {"rejected", "leaving", "quit"}

\* What a call has read of a file with one name is still what the file holds.
FreshBase ==
    \A c \in Callers :
      stage[c] \in {"computed", "writing"} /\ FileOf[c] \notin HardLinked
      => /\ base[c] = marks[FileOf[c]]
         /\ c \in Creators => state[FileOf[c]] = "absent"

\* Only calls that ran have left changes, and only to whole or hard-linked files.
Changes ==
    /\ \A c, d \in Callers : c \in base[d] => stage[c] = "done"
    /\ \A c \in Callers, f \in Files : c \in marks[f] => stage[c] = "done"
    /\ \A f \in Files : state[f] = "torn" => f \in HardLinked
    /\ \A c \in Callers : outcome[c] = "success" => state[FileOf[c]] # "absent"

IInv ==
    /\ TypeOK /\ LockInv /\ Sections /\ ToldWaited
    /\ FreshBase /\ Changes /\ NoLostEdit /\ CreatedOnce
=============================================================================
