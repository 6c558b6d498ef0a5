----------------------------- MODULE MemoryLock -----------------------------
(***************************************************************************)
(* The lock file of the background memory service                          *)
(* (core/services/memoryService.ts): sessions of the CLI, each a process,  *)
(* agree through it on one that extracts memories. Any of them may die.    *)
(***************************************************************************)
EXTENDS Integers

CONSTANTS Sessions, NoSession, Retries

ASSUME LockConstants == NoSession \notin Sessions /\ Retries \in Nat \ {0}

VARIABLES
    lockFile,    \* the session whose file is at the path, or NoSession
    lockWritten, \* does that file hold the pid yet?
    lockOld,     \* was it made longer ago than LOCK_STALE_MS?
    lockTaken,   \* has another process the pid in it, whose session is dead?
    lockPc, retriesLeft,
    dead,
    owned,       \* history: sessions that were taking or holding the lock at
                 \* some moment of an attempt, for each attempt that goes on
    unremoved    \* history: attempts that could not unlink a stale file

lockAtPath == <<lockFile, lockWritten, lockOld, lockTaken>>
lockFileVars == <<lockAtPath, lockPc, retriesLeft, dead, owned, unremoved>>

MemoryLockInit ==
    /\ lockFile = NoSession /\ lockWritten = FALSE /\ lockOld = FALSE /\ lockTaken = FALSE
    /\ lockPc = [i \in Sessions |-> "new"]
    /\ retriesLeft = [i \in Sessions |-> Retries]
    /\ dead = {} /\ unremoved = {} /\ owned = [i \in Sessions |-> {}]

Alive(i) == i \notin dead
Owner(i) == Alive(i) /\ lockPc[i] \in {"writing", "holding"}
Trying == {"opening", "reading", "stealing"}

\* The history of the attempts that go on after a step of session i
Seen(i) == owned' = [a \in Sessions |->
    IF lockPc'[a] \notin Trying THEN {}
    ELSE IF lockPc'[i] \in {"writing", "holding"} THEN owned[a] \cup {i} ELSE owned[a]]

To(i, pc) == lockPc' = [lockPc EXCEPT ![i] = pc] /\ Seen(i)

Try(i) ==
    /\ lockPc[i] = "new" /\ Alive(i)
    /\ lockPc' = [lockPc EXCEPT ![i] = "opening"]
    /\ owned' = [owned EXCEPT ![i] = {j \in Sessions : Owner(j)}]
    /\ UNCHANGED <<lockAtPath, retriesLeft, dead, unremoved>>

\* O_CREAT | O_EXCL: the file is created empty.
Create(i) ==
    /\ lockPc[i] = "opening" /\ Alive(i) /\ lockFile = NoSession
    /\ lockFile' = i /\ lockWritten' = FALSE /\ lockOld' = FALSE /\ lockTaken' = FALSE
    /\ To(i, "writing") /\ UNCHANGED <<retriesLeft, dead, unremoved>>

Exists(i) ==
    /\ lockPc[i] = "opening" /\ Alive(i) /\ lockFile # NoSession
    /\ To(i, IF retriesLeft[i] > 0 THEN "reading" ELSE "refused")
    /\ UNCHANGED <<lockAtPath, retriesLeft, dead, unremoved>>

\* The descriptor stays good when the file was unlinked meanwhile. A write that
\* fails is thrown, and the file stays as it is.
Write(i) ==
    /\ lockPc[i] = "writing" /\ Alive(i)
    /\ \/ lockWritten' = (lockWritten \/ lockFile = i) /\ To(i, "holding")
       \/ To(i, "ended") /\ UNCHANGED lockWritten
    /\ UNCHANGED <<lockFile, lockOld, lockTaken, retriesLeft, dead, unremoved>>

\* process.kill(pid, 0) finds whatever process has the pid.
PidAlive == Alive(lockFile) \/ lockTaken

\* wrong: the pid is not looked up
StaleNoPid == lockFile = NoSession \/ ~lockWritten \/ lockOld

\* isLockStale: no file, no valid content, a pid that no process has, or too old
Stale == lockFile = NoSession \/ ~lockWritten \/ ~PidAlive \/ lockOld

ReadLock(i) ==
    /\ lockPc[i] = "reading" /\ Alive(i)
    /\ To(i, IF Stale THEN "stealing" ELSE "refused")
    /\ UNCHANGED <<lockAtPath, retriesLeft, dead, unremoved>>

\* releaseLock unlinks whatever file is at the path, and says nothing to its
\* caller if it cannot.
Unlink == lockFile' = NoSession /\ lockWritten' = FALSE /\ lockOld' = FALSE /\ lockTaken' = FALSE
UnlinkFails == lockFile # NoSession /\ UNCHANGED lockAtPath

Steal(i) ==
    /\ lockPc[i] = "stealing" /\ Alive(i)
    /\ \/ Unlink /\ UNCHANGED unremoved
       \/ UnlinkFails /\ unremoved' = unremoved \cup {i}
    /\ retriesLeft' = [retriesLeft EXCEPT ![i] = @ - 1]
    /\ To(i, "opening") /\ UNCHANGED dead

\* The extraction ended, well or not.
ReleaseLock(i) ==
    /\ lockPc[i] = "holding" /\ Alive(i)
    /\ Unlink \/ UnlinkFails
    /\ To(i, "ended") /\ UNCHANGED <<retriesLeft, dead, unremoved>>

\* The death of a session that neither owns the lock nor is named in the file
\* means nothing but that it takes no more steps.
Die(i) ==
    /\ Alive(i) /\ (lockPc[i] \in {"writing", "holding"} \/ lockFile = i) /\ dead' = dead \cup {i}
    /\ UNCHANGED <<lockAtPath, lockPc, retriesLeft, owned, unremoved>>

\* The pid of the dead session that the file names is given to another process,
\* or free again.
PidTaken ==
    /\ lockWritten /\ lockFile \in dead /\ lockTaken' = ~lockTaken
    /\ UNCHANGED <<lockFile, lockWritten, lockOld, lockPc, retriesLeft, dead, owned, unremoved>>

Ages ==
    /\ lockWritten /\ lockOld' = TRUE
    /\ UNCHANGED <<lockFile, lockWritten, lockTaken, lockPc, retriesLeft, dead, owned, unremoved>>

MemoryLockNext == PidTaken \/ Ages \/ \E i \in Sessions :
    Try(i) \/ Create(i) \/ Exists(i) \/ Write(i) \/ ReadLock(i) \/ Steal(i) \/ ReleaseLock(i) \/ Die(i)

MemoryLockSpec == MemoryLockInit /\ [][MemoryLockNext]_lockFileVars

-----------------------------------------------------------------------------
\* Every variable keeps its type.
LockTypeOK ==
    /\ lockFile \in Sessions \cup {NoSession} /\ lockWritten \in BOOLEAN /\ lockOld \in BOOLEAN /\ lockTaken \in BOOLEAN
    /\ lockPc \in [Sessions -> Trying \cup {"new", "writing", "holding", "ended", "refused"}]
    /\ retriesLeft \in [Sessions -> Nat]
    /\ dead \subseteq Sessions /\ unremoved \subseteq Sessions
    /\ owned \in [Sessions -> SUBSET Sessions]

Refused(i) == lockPc[i] # "refused" /\ lockPc'[i] = "refused"

\* The pid that is in the file is alive, although its session is not at work.
PidLivesOn == lockWritten /\ (lockTaken \/ (Alive(lockFile) /\ lockPc[lockFile] = "ended"))

\* memoryService.ts: a session is refused only if another one owned the lock
\* while it tried, if it could not remove a stale file itself, or if the pid in
\* the file is alive: what a session left that died or failed to write, or a
\* file that others remove and make meanwhile, stops the extraction in no other way.
RefusedByOwner == [][\A i \in Sessions : Refused(i) =>
    owned[i] \ {i} # {} \/ i \in unremoved \/ PidLivesOn]_lockFileVars

\* memoryService.ts: an "exclusive lock file", refused "if another instance owns it".
OneOwner == \A i, j \in Sessions : Owner(i) /\ Owner(j) => i = j
=============================================================================
