----------------------------- MODULE FileEdits -----------------------------
(***************************************************************************)
(* The tools that write files, replace (tools/edit.ts) and write_file      *)
(* (tools/write-file.ts), each a read-modify-write under PathLock, and the *)
(* atomic write of services/fileSystemService.ts. Calls of several agents  *)
(* run at the same time, whatever wave the scheduler puts them in.         *)
(* The content of a file is the set of the calls whose change it holds.    *)
(***************************************************************************)
EXTENDS PathLock

CONSTANTS
    Files,       \* inodes
    FileOf,      \* [Callers -> Files]
    Creators,    \* replace calls with an empty old_string
    Writers,     \* write_file calls; all others are replace calls
    HardLinked   \* files with several names

\* Two resolved paths of one file are hard links to it.
ASSUME FileConstants ==
    /\ FileOf \in [Callers -> Files]
    /\ Creators \subseteq Callers /\ Writers \subseteq Callers
    /\ Creators \cap Writers = {}
    /\ HardLinked \subseteq Files
    /\ \A c, d \in Callers :
         FileOf[c] = FileOf[d] /\ KeyOf[c] # KeyOf[d] => FileOf[c] \in HardLinked

VARIABLES
    state,       \* of each file: "absent", "whole" or "torn"
    marks,       \* of each file: the calls whose change it holds
    stage,       \* where the critical section of a call is suspended
    base,        \* the marks of the content a call has read
    outcome,     \* result of a call
    overwritten  \* history: calls whose change a write_file replaced

fileVars == <<state, marks, stage, base, outcome, overwritten>>
vars == <<lockVars, fileVars>>

Init ==
    /\ LockInit
    /\ state \in [Files -> {"absent", "whole"}]
    /\ \A f \in HardLinked : state[f] = "whole"
    /\ marks = [f \in Files |-> {}]
    /\ stage = [c \in Callers |-> "outside"]
    /\ base = [c \in Callers |-> {}]
    /\ outcome = [c \in Callers |-> "none"]
    /\ overwritten = {}

\* Steps of the lock that leave the files alone
Wait(c) == (Lock(c) \/ LockRejected(c) \/ Abort(c) \/ Pass(c)) /\ UNCHANGED fileVars

Begin(c) ==
    /\ Enter(c)
    /\ stage' = [stage EXCEPT ![c] = "reading"]
    /\ UNCHANGED <<state, marks, base, outcome, overwritten>>

At(c, from, to) == stage[c] = from /\ stage' = [stage EXCEPT ![c] = to]

\* A call gives up with an error result or an exception.
Fails(c) ==
    /\ outcome' = [outcome EXCEPT ![c] = "error"]
    /\ UNCHANGED <<overwritten, lockVars>>

\* calculateEdit: a new file is created only with an empty old_string, and
\* nothing is replaced in a file that does not exist. write_file takes both.
Applicable(c) ==
    \/ c \in Writers
    \/ c \in Creators /\ state[FileOf[c]] = "absent"
    \/ c \notin Creators \cup Writers /\ state[FileOf[c]] # "absent"

\* The current content is read, and the new content computed from it.
Compute(c) ==
    /\ At(c, "reading", "computed") /\ Applicable(c)
    /\ base' = [base EXCEPT ![c] = marks[FileOf[c]]]
    /\ UNCHANGED <<lockVars, state, marks, outcome, overwritten>>

\* Not applicable, old_string not found, unreadable, or aborted while the
\* model corrects the edit.
GiveUp(c) ==
    /\ At(c, "reading", "done")
    /\ Fails(c) /\ UNCHANGED <<state, marks, base>>

\* writeTextFile: hard links are kept together by writing in place.
InPlace(c) == FileOf[c] \in HardLinked

StartWrite(c) ==
    /\ At(c, "computed", "writing")
    /\ IF InPlace(c)
       THEN /\ state' = [state EXCEPT ![FileOf[c]] = "torn"]
            /\ marks' = [marks EXCEPT ![FileOf[c]] = {}]
       ELSE UNCHANGED <<state, marks>>
    /\ UNCHANGED <<lockVars, base, outcome, overwritten>>

\* Not writable, disk full, rename refused: a temporary file is removed.
WriteFails(c) ==
    /\ \E s \in {"computed", "writing"} : At(c, s, "done")
    /\ Fails(c) /\ UNCHANGED <<state, marks, base>>

Written(c) == IF c \in Writers THEN {c} ELSE base[c] \cup {c}

\* The rename, or the end of the write in place. What is done after the write
\* (diff, context of the directory) may still turn the result into an error.
FinishWrite(c) ==
    /\ At(c, "writing", "done")
    /\ state' = [state EXCEPT ![FileOf[c]] = "whole"]
    /\ marks' = [marks EXCEPT ![FileOf[c]] = Written(c)]
    /\ \E r \in {"success", "error"} : outcome' = [outcome EXCEPT ![c] = r]
    /\ overwritten' = IF c \in Writers THEN overwritten \cup marks[FileOf[c]] ELSE overwritten
    /\ UNCHANGED <<base, lockVars>>

End(c) == stage[c] = "done" /\ Leave(c) /\ UNCHANGED fileVars

Work(c) ==
    Compute(c) \/ GiveUp(c) \/ StartWrite(c) \/ WriteFails(c) \/ FinishWrite(c) \/ End(c)

Next == \E c \in Callers : Wait(c) \/ Begin(c) \/ Work(c)

Spec == Init /\ [][Next]_vars

\* The event loop runs ready continuations; reads, writes and the model's
\* correction of an edit end.
Fairness == \A c \in Callers : WF_vars(Begin(c)) /\ WF_vars(Work(c)) /\ WF_vars(Pass(c) /\ UNCHANGED fileVars)

FairSpec == Spec /\ Fairness

-----------------------------------------------------------------------------
\* Every variable keeps its type.
TypeOK ==
    /\ chain \in [Keys -> Callers \cup {NoCaller}]
    /\ previous \in [Callers -> Callers \cup {NoCaller}]
    /\ pc \in [Callers -> {"new", "rejected", "waiting", "running", "leaving", "left", "quit"}]
    /\ aborted \subseteq Callers /\ told \subseteq Callers
    /\ arrival \in [Callers -> Nat] /\ clock \in Nat
    /\ state \in [Files -> {"absent", "whole", "torn"}]
    /\ marks \in [Files -> SUBSET Callers]
    /\ stage \in [Callers -> {"outside", "reading", "computed", "writing", "done"}]
    /\ base \in [Callers -> SUBSET Callers]
    /\ outcome \in [Callers -> {"none", "error", "success"}]
    /\ overwritten \subseteq Callers

\* The file is not being written, and the reported change of c is not in it.
Lost(c) ==
    /\ outcome[c] = "success" /\ state[FileOf[c]] # "torn"
    /\ c \notin marks[FileOf[c]] \cup overwritten

\* A change that replace or write_file reported as made is in the file, unless
\* a write_file replaced the whole content later. Files with one name only.
NoLostEdit == \A c \in Callers : Lost(c) => FileOf[c] \in HardLinked

\* Of the replace calls that create a file, one at most succeeds: the second
\* is told that the file exists.
CreatedOnce ==
    \A c, d \in Creators :
      /\ outcome[c] = "success" /\ outcome[d] = "success"
      /\ FileOf[c] = FileOf[d] /\ FileOf[c] \notin HardLinked
      => c = d

\* What the lock of a file is for: no reported change is discarded, and a file
\* is not created twice.
EditsKept == NoLostEdit /\ CreatedOnce

\* Who was told that the wait is aborted has changed nothing and never will:
\* its predecessor's release does not start the edit.
AbortedChangeNothing ==
    \A c \in told : stage[c] = "outside" /\ \A f \in Files : c \notin marks[f]

\* Every call that stands in line comes to its end, behind any mixture of
\* edits that succeed, fail or are aborted.
AllServed == \A c \in Callers : c \in InLine ~> pc[c] \in {"left", "quit"}
=============================================================================
