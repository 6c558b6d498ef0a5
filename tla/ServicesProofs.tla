---------------------------- MODULE ServicesProofs ----------------------------
(***************************************************************************)
(* Proofs about seven components that share no state: the confirmation     *)
(* bus, the refreshes of an MCP server's tools, the memory lock, the       *)
(* models that are available, the runs of a local agent, executions that   *)
(* go on in the background and the requests of an A2A task. Each is proved *)
(* for any number of participants, any chains of models and any limits of  *)
(* retries and turns, and has an invariant of its own.                     *)
(***************************************************************************)
EXTENDS ConfirmationBus, McpRefresh, MemoryLock, ModelFallback, LocalAgent,
        ExecutionLifecycle, A2aTasks, SequenceTheorems, WellFoundedInduction, TLAPS

-----------------------------------------------------------------------------
\* ConfirmationBus: an invocation that may run unasked was allowed itself.

\* What every step preserves
BusInv == BusTypeOK /\ AllowedItself

\* An answer changes the state of the invocation that it is for, and only if
\* that one is still asking.
LEMMA AnswerIsOwn ==
    ASSUME BusTypeOK, NEW a \in Asks, NEW d \in Decisions, Answer(a, d)
    PROVE  /\ askPc' \in [Asks -> Decisions \cup {"new", "asking"}]
           /\ \A b \in Asks \ {a} : askPc'[b] = askPc[b]
           /\ askPc'[a] \in {askPc[a], d}
  BY DEF BusTypeOK, Answer, Answered, Hears

\* Nothing is allowed at the start.
LEMMA BusInvInit == BusInit => BusInv
  BY BusConstants DEF BusInit, BusInv, BusTypeOK, AllowedItself, Decisions

\* Every step keeps the invariant.
LEMMA BusInvStep == BusInv /\ [BusNext]_busVars => BusInv'
<1> SUFFICES ASSUME BusInv, [BusNext]_busVars PROVE BusInv' OBVIOUS
<1> USE BusConstants DEF BusInv, BusTypeOK, AllowedItself
<1>1. ASSUME NEW a \in Asks, Ask(a) PROVE BusInv'
  BY <1>1 DEF Ask, Decisions
<1>2. ASSUME NEW a \in Asks, Decide(a) PROVE BusInv'
  <2>1. PICK policy \in Decisions :
          LET decision == Effective(a, policy)
          IN  /\ granted' = IF decision = "allow" THEN granted \cup {a} ELSE granted
              /\ IF decision # "ask_user" \/ Schedulers \/ AcpSessions = {} THEN Answer(a, decision)
                 ELSE UNCHANGED askPc
              /\ consulted' = IF decision = "ask_user" THEN [consulted EXCEPT ![a] = AcpSessions]
                              ELSE consulted
    BY <1>2 DEF Decide
  <2> DEFINE d == Effective(a, policy)
  <2>2. d \in Decisions
    BY DEF Effective, Decisions, NotForced
  <2>3. /\ askPc' \in [Asks -> Decisions \cup {"new", "asking"}]
        /\ \A b \in Asks \ {a} : askPc'[b] = askPc[b]
        /\ askPc'[a] \in {askPc[a], d}
    <3>1. CASE Answer(a, d) BY <3>1, <2>2, AnswerIsOwn
    <3>2. CASE UNCHANGED askPc BY <3>2
    <3> QED BY <2>1, <3>1, <3>2
  <2>4. granted \subseteq granted' /\ granted' \subseteq Asks /\ (d = "allow" => a \in granted')
    BY <2>1
  <2>5. publishPc' \in [Asks -> {"new", "policy", "done"}] /\ UNCHANGED signalled
        /\ consulted' \in [Asks -> SUBSET AcpSessions]
    BY <1>2, <2>1 DEF Decide
  <2> QED BY <2>3, <2>4, <2>5
<1>3. ASSUME NEW a \in Asks, PolicyFails(a) PROVE BusInv'
  BY <1>3 DEF PolicyFails
<1>4. ASSUME NEW a \in Asks, NEW i \in AcpSessions, SessionAnswers(a, i) PROVE BusInv'
  <2>1. PICK policy \in Decisions :
          /\ Answer(a, policy)
          /\ granted' = IF policy = "allow" THEN granted \cup {a} ELSE granted
    BY <1>4 DEF SessionAnswers
  <2>2. /\ consulted' \in [Asks -> SUBSET AcpSessions]
        /\ publishPc' \in [Asks -> {"new", "policy", "done"}] /\ UNCHANGED signalled
    BY <1>4 DEF SessionAnswers
  <2> QED BY <2>1, <2>2, AnswerIsOwn
<1>5. ASSUME NEW a \in Asks, Expires(a) PROVE BusInv'
  BY <1>5 DEF Expires, Decisions
<1>6. ASSUME NEW a \in Asks, Signal(a) PROVE BusInv'
  BY <1>6 DEF Signal, Decisions
<1>7. CASE UNCHANGED busVars BY <1>7 DEF busVars
<1> QED BY <1>1, <1>2, <1>3, <1>4, <1>5, <1>6, <1>7 DEF BusNext

\* The variables of the bus keep their types.
THEOREM BusTypes == BusSpec => []BusTypeOK
<1>1. BusInv => BusTypeOK BY DEF BusInv
<1> QED BY <1>1, BusInvInit, BusInvStep, PTL DEF BusSpec

\* tools.ts: no invocation runs unasked on the answer to another one, on a
\* late answer, or on a decision that a subagent forced.
THEOREM OnlyAllowedRun == BusSpec => []AllowedItself
<1>1. BusInv => AllowedItself BY DEF BusInv
<1> QED BY <1>1, BusInvInit, BusInvStep, PTL DEF BusSpec

-----------------------------------------------------------------------------
\* McpRefresh: when all is quiet the model knows the tools of the last list,
\* however many changes and refreshes overlap, if the list does not change
\* while it is discovered.

\* Until the tools are registered the list is the first one.
FirstList == discoverPc # "done" =>
    /\ version = 0 /\ notices = 0 /\ refreshPc = "off" /\ registry = {}
    /\ discoverPc = "listed" => discovered = 0

\* A change that was not listed is known to be due.
ListDue == ~lost /\ refreshPc \in {"listed", "relisted"} =>
    listed = version \/ notices > 0 \/ pendingTool

\* So is one whose tools were not registered, once the loop has passed its list.
ToolsDue == discoverPc = "done" /\ ~lost /\ refreshPc \in {"off", "telling", "told"} =>
    registry = {version} \/ notices > 0 \/ (refreshPc # "off" /\ pendingTool)

\* The model is told of tools that were registered after the registry was read.
ContextDue == discoverPc = "done" /\ ~lost =>
    /\ contextPc = "off" => context = registry
    /\ contextPc = "read" => context = registry \/ pendingContext

\* What every step preserves
McpInv == McpTypeOK /\ FirstList /\ ListDue /\ ToolsDue /\ ContextDue

\* At the start nothing was listed.
LEMMA McpInvInit == McpInit => McpInv
<1> SUFFICES ASSUME McpInit PROVE McpInv OBVIOUS
<1>1. McpTypeOK BY DEF McpInit, McpTypeOK
<1>2. FirstList /\ ListDue /\ ToolsDue /\ ContextDue
  BY DEF McpInit, FirstList, ListDue, ToolsDue, ContextDue
<1> QED BY <1>1, <1>2 DEF McpInv

\* Every step keeps the types.
LEMMA McpTypeStep == ASSUME McpTypeOK, [McpNext]_toolListVars PROVE McpTypeOK'
<1> USE DEF McpTypeOK
<1>1. CASE ServerChanges BY <1>1 DEF ServerChanges, contextVars
<1>2. CASE AskContext
  <2>1. asked' \in Nat BY <1>2 DEF AskContext
  <2>2. contextPc' \in {"off", "reading", "read", "pausing"} /\ pendingContext' \in BOOLEAN
    BY <1>2 DEF AskContext, ScheduleContext
  <2> QED BY <1>2, <2>1, <2>2 DEF AskContext
<1>3. CASE Notify
  <2>1. notices' \in Nat BY <1>3 DEF Notify
  <2>2. refreshPc' \in {refreshPc, "listing"} /\ pendingTool' \in BOOLEAN BY <1>3 DEF Notify
  <2> QED BY <1>3, <2>1, <2>2 DEF Notify, contextVars
<1>4. CASE DiscoverList BY <1>4 DEF DiscoverList, contextVars
<1>5. CASE DiscoverRegister BY <1>5 DEF DiscoverRegister, ScheduleContext
<1>6. CASE List BY <1>6 DEF List, contextVars
<1>7. CASE VerifyList BY <1>7 DEF VerifyList, contextVars
<1>8. CASE Replace BY <1>8 DEF Replace, ScheduleContext
<1>9. CASE Told BY <1>9 DEF Told, NextListing, contextVars
<1>10. CASE ListFails BY <1>10 DEF ListFails, contextVars
<1>11. CASE ReadContext BY <1>11 DEF ReadContext
<1>12. CASE ContextDone BY <1>12 DEF ContextDone, ContextEnds
<1>13. CASE ContextAgain BY <1>13 DEF ContextAgain
<1>14. CASE ContextFails BY <1>14 DEF ContextFails, ContextEnds
<1>15. CASE UNCHANGED toolListVars BY <1>15 DEF toolListVars
<1> QED
  BY <1>1, <1>2, <1>3, <1>4, <1>5, <1>6, <1>7, <1>8, <1>9, <1>10, <1>11, <1>12, <1>13, <1>14, <1>15
  DEF McpNext, McpStep

\* Every step keeps the invariant: what is not known yet stays due.
LEMMA McpInvStep == ASSUME ~ChangesEarly, McpInv, [McpNext]_toolListVars PROVE McpInv'
<1>0. McpTypeOK' BY McpTypeStep DEF McpInv
<1> USE <1>0 DEF McpInv, McpTypeOK, FirstList, ListDue, ToolsDue, ContextDue
<1>1. CASE ServerChanges BY <1>1 DEF ServerChanges, contextVars
<1>2. CASE AskContext BY <1>2 DEF AskContext, ScheduleContext
<1>3. CASE Notify BY <1>3 DEF Notify, contextVars
<1>4. CASE DiscoverList BY <1>4 DEF DiscoverList, contextVars
<1>5. CASE DiscoverRegister BY <1>5 DEF DiscoverRegister, ScheduleContext
<1>6. CASE List BY <1>6 DEF List, contextVars
<1>7. CASE VerifyList BY <1>7 DEF VerifyList, contextVars
<1>8. CASE Replace BY <1>8 DEF Replace, ScheduleContext, Verifies
<1>9. CASE Told BY <1>9 DEF Told, NextListing, contextVars
<1>10. CASE ListFails BY <1>10 DEF ListFails, contextVars
<1>11. CASE ReadContext BY <1>11 DEF ReadContext
<1>12. CASE ContextDone BY <1>12 DEF ContextDone, ContextEnds, Trailing
<1>13. CASE ContextAgain BY <1>13 DEF ContextAgain
<1>14. CASE ContextFails BY <1>14 DEF ContextFails, ContextEnds
<1>15. CASE UNCHANGED toolListVars BY <1>15 DEF toolListVars
<1> QED
  BY <1>1, <1>2, <1>3, <1>4, <1>5, <1>6, <1>7, <1>8, <1>9, <1>10, <1>11, <1>12, <1>13, <1>14, <1>15
  DEF McpNext, McpStep

\* The variables keep their types.
THEOREM McpTypes == McpSpec => []McpTypeOK
<1>1. McpInit => McpTypeOK BY McpInvInit DEF McpInv
<1> QED BY <1>1, McpTypeStep, PTL DEF McpSpec

\* mcp-client.ts: no notification of a burst is lost to the coalescing of the
\* refreshes, if the list does not change while it is discovered.
THEOREM LastListTold == ASSUME ~ChangesEarly PROVE McpSpec => []ToldOfLast
<1>1. McpInv => ToldOfLast
  BY DEF McpInv, ToolsDue, ContextDue, ToldOfLast, Quiet, McpTypeOK
<1>2. McpInv /\ [McpNext]_toolListVars => McpInv'
  BY McpInvStep
<1> QED BY <1>1, <1>2, McpInvInit, PTL DEF McpSpec

-----------------------------------------------------------------------------
\* MemoryLock: a session is refused only by another one that owned the lock
\* while it tried, by a file that it could not remove or by a pid that lives on.

\* The session that made the file at the path tries no more.
FileHeld == lockFile # NoSession => lockPc[lockFile] \in {"writing", "holding", "ended"}

\* A session that tries has noted every owner it met; after its first attempt
\* it has noted whoever made the file that is at the path, or could not remove it.
StaleNoted == \A i \in Sessions : lockPc[i] \in Trying =>
    /\ \A j \in Sessions : Owner(j) => j \in owned[i]
    /\ retriesLeft[i] < Retries /\ lockFile # NoSession => lockFile \in owned[i] \/ i \in unremoved

\* A session has all its retries at the start, and one when it reads the lock.
RetriesRemain == \A i \in Sessions :
    /\ retriesLeft[i] <= Retries
    /\ lockPc[i] = "new" => retriesLeft[i] = Retries
    /\ lockPc[i] \in {"reading", "stealing"} => retriesLeft[i] > 0

\* What every step preserves
LockInv == LockTypeOK /\ FileHeld /\ StaleNoted /\ RetriesRemain

\* The states of a session
LockPcs == Trying \cup {"new", "writing", "holding", "ended", "refused"}

\* At the start nobody tries and there is no file.
LEMMA LockInvInit == MemoryLockInit => LockInv
<1> SUFFICES ASSUME MemoryLockInit PROVE LockInv OBVIOUS
<1>1. LockTypeOK
  BY LockConstants DEF MemoryLockInit, LockTypeOK, LockConstants, Trying
<1>2. RetriesRemain
  <2>1. Retries <= Retries BY LockConstants DEF LockConstants
  <2>2. \A i \in Sessions : retriesLeft[i] = Retries /\ lockPc[i] = "new" BY DEF MemoryLockInit
  <2> QED BY <2>1, <2>2 DEF RetriesRemain
<1>3. FileHeld /\ StaleNoted
  BY DEF MemoryLockInit, FileHeld, StaleNoted, Trying
<1> QED BY <1>1, <1>2, <1>3 DEF LockInv

\* The history of an attempt grows by the session that moves, and only when that
\* owns the lock; it ends with the attempt.
LEMMA SeenGrows ==
    ASSUME LockTypeOK, NEW i \in Sessions, NEW pc, To(i, pc)
    PROVE  /\ owned' \in [Sessions -> SUBSET Sessions]
           /\ \A a \in Sessions : lockPc'[a] \in Trying => owned[a] \subseteq owned'[a]
           /\ \A a \in Sessions : owned'[a] \subseteq owned[a] \cup {i}
           /\ \A a \in Sessions : lockPc'[a] \in Trying /\ pc \in {"writing", "holding"} => i \in owned'[a]
           /\ pc \in LockPcs => lockPc' \in [Sessions -> LockPcs]
           /\ lockPc'[i] = pc /\ \A a \in Sessions \ {i} : lockPc'[a] = lockPc[a]
  BY DEF To, Seen, LockTypeOK, LockPcs

\* Each step keeps the invariant: who makes the file is noted by all who try.
LEMMA LockInvStep == LockInv /\ [MemoryLockNext]_lockFileVars => LockInv'
<1> SUFFICES ASSUME LockInv, [MemoryLockNext]_lockFileVars PROVE LockInv' OBVIOUS
<1> USE LockConstants DEF LockInv, LockConstants
<1>1. ASSUME NEW i \in Sessions, Try(i) PROVE LockInv'
  <2>1. LockTypeOK' BY <1>1 DEF Try, lockAtPath, LockTypeOK, LockPcs, Trying
  <2>2. RetriesRemain' BY <1>1 DEF Try, lockAtPath, LockTypeOK, RetriesRemain
  <2>3. FileHeld' BY <1>1 DEF Try, lockAtPath, LockTypeOK, FileHeld
  <2>4. StaleNoted' BY <1>1 DEF Try, lockAtPath, LockTypeOK, RetriesRemain, FileHeld, StaleNoted, Owner, Alive, Trying
  <2> QED BY <2>1, <2>2, <2>3, <2>4
<1>2. ASSUME NEW i \in Sessions, Create(i) PROVE LockInv'
  <2>1. To(i, "writing") BY <1>2 DEF Create
  <2>2. LockTypeOK' BY <1>2, <2>1, SeenGrows DEF Create, lockAtPath, LockTypeOK, LockPcs, Trying
  <2>3. RetriesRemain' BY <1>2, <2>1, SeenGrows DEF Create, lockAtPath, LockTypeOK, RetriesRemain
  <2>4. FileHeld' BY <1>2, <2>1, SeenGrows DEF Create, lockAtPath, LockTypeOK, FileHeld
  <2>5. StaleNoted' BY <1>2, <2>1, SeenGrows DEF Create, lockAtPath, LockTypeOK, RetriesRemain, FileHeld, StaleNoted, Owner, Alive, Trying
  <2> QED BY <2>2, <2>3, <2>4, <2>5
<1>3. ASSUME NEW i \in Sessions, Exists(i) PROVE LockInv'
  <2>1. To(i, IF retriesLeft[i] > 0 THEN "reading" ELSE "refused") BY <1>3 DEF Exists
  <2>2. LockTypeOK' BY <1>3, <2>1, SeenGrows DEF Exists, lockAtPath, LockTypeOK, LockPcs, Trying
  <2>3. RetriesRemain' BY <1>3, <2>1, SeenGrows DEF Exists, lockAtPath, LockTypeOK, RetriesRemain
  <2>4. FileHeld' BY <1>3, <2>1, SeenGrows DEF Exists, lockAtPath, LockTypeOK, FileHeld
  <2>5. StaleNoted' BY <1>3, <2>1, SeenGrows DEF Exists, lockAtPath, LockTypeOK, RetriesRemain, FileHeld, StaleNoted, Owner, Alive, Trying
  <2> QED BY <2>2, <2>3, <2>4, <2>5
<1>4. ASSUME NEW i \in Sessions, Write(i) PROVE LockInv'
  <2>1. PICK pc \in {"holding", "ended"} : To(i, pc) BY <1>4 DEF Write
  <2>2. LockTypeOK' BY <1>4, <2>1, SeenGrows DEF Write, lockAtPath, LockTypeOK, LockPcs, Trying
  <2>3. RetriesRemain' BY <1>4, <2>1, SeenGrows DEF Write, lockAtPath, LockTypeOK, RetriesRemain
  <2>4. FileHeld' BY <1>4, <2>1, SeenGrows DEF Write, lockAtPath, LockTypeOK, FileHeld
  <2>5. StaleNoted' BY <1>4, <2>1, SeenGrows DEF Write, lockAtPath, LockTypeOK, RetriesRemain, FileHeld, StaleNoted, Owner, Alive, Trying
  <2> QED BY <2>2, <2>3, <2>4, <2>5
<1>5. ASSUME NEW i \in Sessions, ReadLock(i) PROVE LockInv'
  <2>1. To(i, IF Stale THEN "stealing" ELSE "refused") BY <1>5 DEF ReadLock
  <2>2. LockTypeOK' BY <1>5, <2>1, SeenGrows DEF ReadLock, lockAtPath, LockTypeOK, LockPcs, Trying
  <2>3. RetriesRemain' BY <1>5, <2>1, SeenGrows DEF ReadLock, lockAtPath, LockTypeOK, RetriesRemain
  <2>4. FileHeld' BY <1>5, <2>1, SeenGrows DEF ReadLock, lockAtPath, LockTypeOK, FileHeld
  <2>5. StaleNoted' BY <1>5, <2>1, SeenGrows DEF ReadLock, lockAtPath, LockTypeOK, RetriesRemain, FileHeld, StaleNoted, Owner, Alive, Trying
  <2> QED BY <2>2, <2>3, <2>4, <2>5
<1>6. ASSUME NEW i \in Sessions, Steal(i) PROVE LockInv'
  <2>1. To(i, "opening") BY <1>6 DEF Steal
  <2>2. LockTypeOK'
    <3>1. retriesLeft[i] > 0 BY <1>6 DEF Steal, Unlink, UnlinkFails, lockAtPath, RetriesRemain
    <3>2. retriesLeft' \in [Sessions -> Nat] BY <1>6, <3>1 DEF Steal, Unlink, UnlinkFails, lockAtPath, LockTypeOK
    <3> QED BY <1>6, <2>1, <3>2, SeenGrows DEF Steal, Unlink, UnlinkFails, lockAtPath, LockTypeOK, LockPcs, Trying
  <2>3. RetriesRemain' BY <1>6, <2>1, SeenGrows DEF Steal, Unlink, UnlinkFails, lockAtPath, LockTypeOK, RetriesRemain
  <2>4. FileHeld' BY <1>6, <2>1, SeenGrows DEF Steal, Unlink, UnlinkFails, lockAtPath, LockTypeOK, FileHeld
  <2>5. StaleNoted' BY <1>6, <2>1, SeenGrows DEF Steal, Unlink, UnlinkFails, lockAtPath, LockTypeOK, RetriesRemain, FileHeld, StaleNoted, Owner, Alive, Trying
  <2> QED BY <2>2, <2>3, <2>4, <2>5
<1>7. ASSUME NEW i \in Sessions, ReleaseLock(i) PROVE LockInv'
  <2>1. To(i, "ended") BY <1>7 DEF ReleaseLock
  <2>2. LockTypeOK' BY <1>7, <2>1, SeenGrows DEF ReleaseLock, Unlink, UnlinkFails, lockAtPath, LockTypeOK, LockPcs, Trying
  <2>3. RetriesRemain' BY <1>7, <2>1, SeenGrows DEF ReleaseLock, Unlink, UnlinkFails, lockAtPath, LockTypeOK, RetriesRemain
  <2>4. FileHeld' BY <1>7, <2>1, SeenGrows DEF ReleaseLock, Unlink, UnlinkFails, lockAtPath, LockTypeOK, FileHeld
  <2>5. StaleNoted' BY <1>7, <2>1, SeenGrows DEF ReleaseLock, Unlink, UnlinkFails, lockAtPath, LockTypeOK, RetriesRemain, FileHeld, StaleNoted, Owner, Alive, Trying
  <2> QED BY <2>2, <2>3, <2>4, <2>5
<1>8. ASSUME NEW i \in Sessions, Die(i) PROVE LockInv'
  <2>1. LockTypeOK' BY <1>8 DEF Die, lockAtPath, LockTypeOK, LockPcs, Trying
  <2>2. RetriesRemain' BY <1>8 DEF Die, lockAtPath, LockTypeOK, RetriesRemain
  <2>3. FileHeld' BY <1>8 DEF Die, lockAtPath, LockTypeOK, FileHeld
  <2>4. StaleNoted' BY <1>8 DEF Die, lockAtPath, LockTypeOK, RetriesRemain, FileHeld, StaleNoted, Owner, Alive, Trying
  <2> QED BY <2>1, <2>2, <2>3, <2>4
<1>9. ASSUME PidTaken PROVE LockInv'
  BY <1>9 DEF PidTaken, LockTypeOK, RetriesRemain, FileHeld, StaleNoted, Owner, Alive
<1>10. ASSUME Ages PROVE LockInv'
  BY <1>10 DEF Ages, LockTypeOK, RetriesRemain, FileHeld, StaleNoted, Owner, Alive
<1>11. CASE UNCHANGED lockFileVars
  BY <1>11 DEF lockFileVars, lockAtPath, LockTypeOK, RetriesRemain, FileHeld, StaleNoted, Owner, Alive
<1> QED
  BY <1>1, <1>2, <1>3, <1>4, <1>5, <1>6, <1>7, <1>8, <1>9, <1>10, <1>11 DEF MemoryLockNext

\* A session that finds a file is refused at once only after it stole one, and
\* the file that is there was made since or could not be removed; or when the
\* file names a living pid, that of an owner or of one that is at work no more.
LEMMA RefusalStep ==
    LockInv /\ [MemoryLockNext]_lockFileVars =>
    \A i \in Sessions : Refused(i) => owned[i] \ {i} # {} \/ i \in unremoved \/ PidLivesOn
<1> SUFFICES ASSUME LockInv, [MemoryLockNext]_lockFileVars, NEW i \in Sessions, Refused(i)
             PROVE  owned[i] \ {i} # {} \/ i \in unremoved \/ PidLivesOn
  OBVIOUS
<1> USE LockConstants DEF LockInv, LockConstants
<1>1. CASE Exists(i)
  <2>1. lockPc[i] = "opening" /\ lockFile # NoSession /\ ~(retriesLeft[i] > 0)
    BY <1>1 DEF Exists, To, LockTypeOK, Refused
  <2>2. lockFile \in owned[i] \/ i \in unremoved
    BY <2>1 DEF LockTypeOK, StaleNoted, Trying
  <2>3. lockFile # i BY <2>1 DEF FileHeld
  <2> QED BY <2>2, <2>3
<1>2. CASE ReadLock(i)
  <2>1. lockPc[i] = "reading" /\ ~Stale
    BY <1>2 DEF ReadLock, To, LockTypeOK, Refused
  <2>2. lockFile \in Sessions /\ lockFile # i /\ lockWritten /\ PidAlive
    BY <2>1 DEF Stale, FileHeld, LockTypeOK
  <2>3. Owner(lockFile) \/ PidLivesOn
    BY <2>1, <2>2 DEF PidAlive, PidLivesOn, Owner, FileHeld
  <2>4. Owner(lockFile) => lockFile \in owned[i]
    BY <2>1, <2>2 DEF StaleNoted, Trying
  <2> QED BY <2>2, <2>3, <2>4
<1>3. CASE ~Exists(i) /\ ~ReadLock(i)
  <2>1. UNCHANGED lockPc \/ \E j \in Sessions, pc \in LockPcs \ {"refused"} : lockPc' = [lockPc EXCEPT ![j] = pc]
        \/ \E m \in Sessions \ {i} : Exists(m) \/ ReadLock(m)
    BY <1>3 DEF MemoryLockNext, Try, Create, Write, Steal, ReleaseLock, Die, PidTaken, Ages, To, LockPcs, Trying,
                lockFileVars
  <2>2. lockPc'[i] = lockPc[i] \/ lockPc'[i] # "refused"
    BY <2>1 DEF Exists, ReadLock, To, LockTypeOK
  <2> QED BY <2>2 DEF Refused
<1> QED BY <1>1, <1>2, <1>3

\* The variables of the lock keep their types.
THEOREM LockTypes == MemoryLockSpec => []LockTypeOK
<1>1. LockInv => LockTypeOK BY DEF LockInv
<1> QED BY <1>1, LockInvInit, LockInvStep, PTL DEF MemoryLockSpec

\* memoryService.ts: besides an owner, only a file that cannot be removed and a
\* pid that lives on refuse a session.
THEOREM OnlyOwnersRefuse == MemoryLockSpec => RefusedByOwner
<1>1. LockInv /\ [MemoryLockNext]_lockFileVars =>
      [\A i \in Sessions : Refused(i) => owned[i] \ {i} # {} \/ i \in unremoved \/ PidLivesOn]_lockFileVars
  BY RefusalStep
<1> QED BY <1>1, LockInvInit, LockInvStep, PTL DEF MemoryLockSpec, RefusedByOwner

-----------------------------------------------------------------------------
\* ModelFallback: a model that the user retried once is spared for the turn.

\* A model fails for good only if there is no other one in its chain: the switch
\* to another one forgets what is known of all.
OnlyLonersFail == \A m \in Models : health[m] \in {"quota", "capacity"} => Len(ChainFrom[m]) = 1

\* A spared model is not available, and no timer makes it so.
SparedConsumed == \A m \in spared : health[m] = "consumed" /\ Len(ChainFrom[m]) > 1

\* From its first attempt on a request calls the active model, or has switched
\* to it: then no model is spared.
RequestModel ==
    /\ phase \in {"first", "calling", "asking"} => lastModel = activeModel
    /\ phase \notin {"idle", "routed"} => lastModel = seenActive /\ activeModel \in Models
    /\ phase = "loop" /\ activeModel # seenActive => spared = {}
    /\ phase = "asking" => (fallbackModel # lastModel <=> Len(ChainFrom[lastModel]) > 1)

\* What every step preserves
FallbackInv == FallbackTypeOK /\ OnlyLonersFail /\ SparedConsumed /\ RequestModel

-----------------------------------------------------------------------------
\* Every set of numbers has a least one.
LEMMA LeastNumber ==
    ASSUME NEW S \in SUBSET Nat, S # {}
    PROVE  \E m \in S : \A k \in S : m <= k
<1>1. PICK m \in S : \A k \in S : ~ (<<k, m>> \in OpToRel(<, Nat))
  BY NatLessThanWellFounded, WFMin
<1>2. ASSUME NEW k \in S PROVE m <= k
  <2>1. <<k, m>> \in Nat \X Nat
    OBVIOUS
  <2>2. ~(<<k, m>>[1] < <<k, m>>[2])
    BY <1>1, <2>1, Zenon DEF OpToRel
  <2> QED BY <2>2
<1> QED BY <1>2

\* FirstAvailable finds a model that is available, if there is one.
LEMMA FirstIsAvailable ==
    ASSUME NEW s \in Seq(Models), \E n \in Items(s) : Available(n)
    PROVE  FirstAvailable(s) \in Items(s) /\ Available(FirstAvailable(s))
<1> DEFINE S == {i \in 1 .. Len(s) : Available(s[i])}
<1>1. S \in SUBSET Nat /\ S # {}
  BY DEF Items
<1>2. PICK m \in S : \A k \in S : m <= k
  BY <1>1, LeastNumber
<1>3. m \in 1 .. Len(s) /\ Available(s[m]) /\ \A j \in 1 .. m - 1 : ~Available(s[j])
  BY <1>2
<1> DEFINE first == CHOOSE i \in 1 .. Len(s) : Available(s[i]) /\ \A j \in 1 .. i - 1 : ~Available(s[j])
<1>4. first \in 1 .. Len(s) /\ Available(s[first])
  BY <1>3
<1>5. FirstAvailable(s) = s[first]
  BY DEF FirstAvailable
<1> QED BY <1>4, <1>5 DEF Items

\* The router's choice is a model of the chain that is available; if none is,
\* the last resort.
LEMMA SelectionChooses ==
    ASSUME NEW m \in Models
    PROVE  /\ Selection(m) \in Models
           /\ \/ Available(Selection(m))
              \/ Selection(m) = LastResort[m] /\ \A n \in Items(ChainFrom[m]) : ~Available(n)
<1>1. ChainFrom[m] \in Seq(Models) /\ Items(ChainFrom[m]) \subseteq Models /\ LastResort[m] \in Models
  <2>1. ChainFrom[m] \in Seq(Models) /\ LastResort[m] \in Models
    BY FallbackConstants DEF FallbackConstants
  <2> QED BY <2>1 DEF Items
<1>2. CASE \E n \in Items(ChainFrom[m]) : Available(n)
  BY <1>1, <1>2, FirstIsAvailable DEF Selection
<1>3. CASE ~\E n \in Items(ChainFrom[m]) : Available(n)
  BY <1>1, <1>3 DEF Selection
<1> QED BY <1>2, <1>3

\* A chain holds one model, or more than one.
LEMMA ChainLengths ==
    ASSUME NEW m \in Models PROVE Len(ChainFrom[m]) = 1 <=> ~(Len(ChainFrom[m]) > 1)
<1>1. Len(ChainFrom[m]) \in Nat /\ Len(ChainFrom[m]) > 0
  BY FallbackConstants DEF FallbackConstants
<1>2. \A n \in Nat : n > 0 => (n = 1 <=> ~(n > 1))
  OBVIOUS
<1> QED BY <1>1, <1>2, Zenon

\* The candidates of a chain for its own model are the rest of it.
LEMMA OwnCandidates ==
    ASSUME NEW m \in Models
    PROVE  LET rest == Candidates(ChainFrom[m], m)
           IN  /\ rest \in Seq(Models) /\ Items(rest) \subseteq Models
               /\ rest # << >> => Len(ChainFrom[m]) > 1
               /\ rest = << >> => Len(ChainFrom[m]) = 1
<1> DEFINE chain == ChainFrom[m]
           rest == Candidates(chain, m)
<1>1. chain \in Seq(Models) /\ Len(chain) \in Nat /\ Len(chain) > 0 /\ chain[1] = m
  BY FallbackConstants DEF FallbackConstants
<1>2. m \in Items(chain)
  BY <1>1 DEF Items
<1>3. Position(m, chain) = 1
  <2>1. \A i \in 1 .. Len(chain) : chain[i] = m /\ (\A j \in 1 .. i - 1 : chain[j] # m) <=> i = 1
    BY <1>1
  <2> QED BY <1>1, <2>1 DEF Position
<1>4. rest = SubSeq(chain, 2, Len(chain))
  BY <1>2, <1>3 DEF Candidates
<1>5. /\ rest \in Seq(Models) /\ Len(rest) = Len(chain) - 1
      /\ \A i \in 1 .. Len(rest) : rest[i] \in Models
  BY <1>1, <1>4
<1>6. Items(rest) \subseteq Models
  BY <1>5 DEF Items
<1>7. (rest = << >>) <=> Len(chain) = 1
  <2> HIDE DEF rest
  <2>1. (rest = << >>) <=> Len(rest) = 0
    BY <1>5, EmptySeq
  <2> QED BY <1>1, <1>5, <2>1
<1> QED BY <1>1, <1>5, <1>6, <1>7

-----------------------------------------------------------------------------
\* What is known of the models keeps its type when one of them is taken, marked,
\* spared or forgotten.
LEMMA HealthSteps ==
    ASSUME NEW h \in [Models -> HealthStates], NEW m \in Models, NEW kind
    PROVE  /\ Select(m, h) \in [Models -> HealthStates]
           /\ Spare(m, h) \in [Models -> HealthStates]
           /\ Transition(m, kind, h) \in [Models -> HealthStates]
           /\ \A n \in Models : Select(m, h)[n] \in {h[n], IF h[n] = "sticky" THEN "consumed" ELSE h[n]}
           /\ \A n \in Models \ {m} : Spare(m, h)[n] = h[n] /\ Transition(m, kind, h)[n] = h[n]
           /\ Spare(m, h)[m] = IF h[m] \in {"quota", "capacity"} THEN h[m] ELSE "consumed"
  BY DEF Select, Spare, Transition, HealthStates

\* The constants, one by one
LEMMA FallbackBounds ==
    /\ MaxTries \in Nat /\ MaxCapacity \in Nat /\ MaxValidations \in Nat /\ Turns \in Nat
    /\ Patience \in Nat /\ MaxTries > 0 /\ SomeModel \in Models /\ AutoModel \notin Models
  BY FallbackConstants DEF FallbackConstants, SomeModel

\* At the start nothing failed.
LEMMA FallbackInvInit == FallbackInit => FallbackInv
<1> SUFFICES ASSUME FallbackInit PROVE FallbackInv OBVIOUS
<1> USE FallbackBounds DEF FallbackInit
<1>1. FallbackTypeOK
  BY DEF FallbackTypeOK, HealthStates, FailureKinds
<1>2. OnlyLonersFail /\ SparedConsumed /\ RequestModel
  BY DEF OnlyLonersFail, SparedConsumed, RequestModel
<1> QED BY <1>1, <1>2 DEF FallbackInv

\* NewTurn restores the models whose failure lasts one turn; none is spared.
LEMMA NewTurnKeeps == ASSUME FallbackInv, NewTurn PROVE FallbackInv'
<1> USE FallbackBounds DEF FallbackInv, NewTurn
<1>1. FallbackTypeOK'
  <2>1. health' \in [Models -> HealthStates]
    BY DEF FallbackTypeOK, HealthStates
  <2>2. requested' \in Models /\ turn' \in 0 .. Turns
    BY DEF FallbackTypeOK, Routed
  <2> QED BY <2>1, <2>2 DEF FallbackTypeOK, retryVars
<1>2. OnlyLonersFail'
  BY DEF OnlyLonersFail, FallbackTypeOK
<1>3. SparedConsumed' /\ RequestModel'
  BY DEF SparedConsumed, RequestModel
<1> QED BY <1>1, <1>2, <1>3

\* A request begins with the model that is chosen for it.
LEMMA BeginKeeps == ASSUME FallbackInv, Begin PROVE FallbackInv'
<1> USE FallbackBounds DEF FallbackInv
<1> DEFINE m == Selection(requested)
<1>1. /\ lastModel' = m /\ activeModel' = m /\ seenActive' = m /\ health' = Select(m, health)
      /\ phase' = "first" /\ tries' = 0 /\ capacityTries' = 0 /\ validations' = 0 /\ consents' = 0
      /\ UNCHANGED <<configured, requested, failure, fallbackModel, turn, spared>>
  BY DEF Begin
<1>2. m \in Models
  BY SelectionChooses DEF FallbackTypeOK
<1> HIDE DEF m
<1>3. /\ health' \in [Models -> HealthStates]
      /\ \A n \in Models : health'[n] \in {health[n], IF health[n] = "sticky" THEN "consumed" ELSE health[n]}
  BY <1>1, <1>2, HealthSteps DEF FallbackTypeOK
<1>4. FallbackTypeOK'
  BY <1>1, <1>2, <1>3 DEF FallbackTypeOK
<1>5. OnlyLonersFail' /\ SparedConsumed'
  BY <1>1, <1>3 DEF OnlyLonersFail, SparedConsumed, FallbackTypeOK
<1>6. RequestModel'
  BY <1>1, <1>2 DEF RequestModel
<1> QED BY <1>4, <1>5, <1>6

\* An attempt calls the active model: the one it was, a new one, or the choice.
LEMMA AttemptCalls ==
    ASSUME FallbackInv, Attempt
    PROVE  \E m \in Models :
             /\ lastModel' = m /\ activeModel' = m /\ seenActive' = m
             /\ health' \in {health, Select(m, health)}
             /\ Call(m)
<1> USE DEF FallbackInv, RequestModel
<1>1. CASE activeModel # seenActive
  BY <1>1 DEF Attempt, Call
<1>2. CASE activeModel = seenActive /\ Reselects
  <2>1. Selection(requested) \in Models
    BY SelectionChooses DEF FallbackTypeOK
  <2> QED BY <1>2, <2>1 DEF Attempt, Call
<1>3. CASE activeModel = seenActive /\ ~Reselects
  BY <1>3 DEF Attempt, Call
<1> QED BY <1>1, <1>2, <1>3

LEMMA AttemptKeeps == ASSUME FallbackInv, Attempt PROVE FallbackInv'
<1> USE FallbackBounds DEF FallbackInv
<1>1. PICK m \in Models : /\ lastModel' = m /\ activeModel' = m /\ seenActive' = m
                          /\ health' \in {health, Select(m, health)}
                          /\ Call(m)
  BY AttemptCalls
<1>2. tries < MaxTries
  BY DEF Attempt
<1>3. /\ health' \in [Models -> HealthStates]
      /\ \A n \in Models : health'[n] \in {health[n], IF health[n] = "sticky" THEN "consumed" ELSE health[n]}
  <2>1. health \in [Models -> HealthStates] BY DEF FallbackTypeOK
  <2>2. CASE health' = health BY <2>1, <2>2
  <2>3. CASE health' = Select(m, health) BY <2>1, <2>3, HealthSteps
  <2> QED BY <1>1, <2>2, <2>3
<1>4. FallbackTypeOK'
  BY <1>1, <1>2, <1>3 DEF FallbackTypeOK, Call
<1>5. OnlyLonersFail' /\ SparedConsumed'
  BY <1>1, <1>3 DEF OnlyLonersFail, SparedConsumed, FallbackTypeOK, Call
<1>6. RequestModel'
  BY <1>1 DEF RequestModel, Call
<1> QED BY <1>4, <1>5, <1>6

\* A success makes its model healthy, and no longer spared.
LEMMA SucceedKeeps == ASSUME FallbackInv, Succeed PROVE FallbackInv'
<1> USE FallbackBounds DEF FallbackInv, Succeed, Ended
<1>1. FallbackTypeOK'
  <2>1. health' \in [Models -> HealthStates]
    BY DEF FallbackTypeOK, HealthStates
  <2> QED BY <2>1 DEF FallbackTypeOK, retryVars
<1>2. OnlyLonersFail' /\ SparedConsumed'
  BY DEF OnlyLonersFail, SparedConsumed, FallbackTypeOK
<1>3. RequestModel'
  BY DEF RequestModel
<1> QED BY <1>1, <1>2, <1>3

\* Steps that only move the request: they leave the models as they are.
LEMMA MoveKeepsModels ==
    ASSUME FallbackInv, RequestAgain \/ Throw \/ RetrySame \/ VerifyAccount \/ Decline
    PROVE  FallbackInv'
<1> USE FallbackBounds DEF FallbackInv, Ended
<1>1. FallbackTypeOK'
  <2>1. UNCHANGED <<configured, activeModel, health, requested, lastModel, seenActive, fallbackModel,
                    failure, turn, spared, consents>>
    BY DEF RequestAgain, Throw, RetrySame, VerifyAccount, Decline, retryVars
  <2>2. phase' \in {"idle", "routed", "loop"}
    BY DEF RequestAgain, Throw, RetrySame, VerifyAccount, Decline
  <2>3. tries' \in 0 .. MaxTries /\ validations' \in 0 .. MaxValidations
    BY DEF RequestAgain, Throw, RetrySame, VerifyAccount, Decline, retryVars, FallbackTypeOK
  <2>4. capacityTries' \in 0 .. MaxCapacity
    BY DEF RequestAgain, Throw, RetrySame, VerifyAccount, Decline, retryVars, FallbackTypeOK, Counted
  <2> QED BY <2>1, <2>2, <2>3, <2>4 DEF FallbackTypeOK
<1>2. UNCHANGED <<health, spared, lastModel, seenActive, activeModel>>
      /\ (phase' = "loop" => phase = "calling") /\ phase' \in {"idle", "routed", "loop"}
  BY DEF RequestAgain, Throw, RetrySame, VerifyAccount, Decline
<1>3. OnlyLonersFail' /\ SparedConsumed' /\ RequestModel'
  BY <1>2 DEF OnlyLonersFail, SparedConsumed, RequestModel
<1> QED BY <1>1, <1>3

\* A switch to another model forgets every failure; to the same one, it marks
\* the failed model, the only one of its chain.
LEMMA ActivateKnows ==
    ASSUME FallbackInv, phase \in {"calling", "asking"}, NEW m \in Models, NEW kind,
           Activate(m, Transition(lastModel, kind, health)),
           m = lastModel => Len(ChainFrom[lastModel]) = 1
    PROVE  /\ configured' \in Models \cup {AutoModel} /\ activeModel' = m
           /\ health' \in [Models -> HealthStates] /\ OnlyLonersFail'
<1> USE DEF FallbackInv
<1>1. lastModel = activeModel /\ lastModel \in Models /\ health \in [Models -> HealthStates]
  BY DEF RequestModel, FallbackTypeOK
<1>2. CASE activeModel # m
  <2>1. health' = [n \in Models |-> "healthy"] /\ configured' = m /\ activeModel' = m
    BY <1>2 DEF Activate
  <2> QED BY <2>1 DEF OnlyLonersFail, HealthStates
<1>3. CASE activeModel = m
  <2>1. health' = Transition(lastModel, kind, health) /\ UNCHANGED <<configured, activeModel>>
    BY <1>3 DEF Activate
  <2>2. health' \in [Models -> HealthStates] /\ \A n \in Models \ {lastModel} : health'[n] = health[n]
    BY <1>1, <2>1, HealthSteps
  <2> QED BY <1>1, <1>3, <2>1, <2>2 DEF OnlyLonersFail, FallbackTypeOK
<1> QED BY <1>2, <1>3

\* Persist switches to a model that is not the failed one, or asks about it.
LEMMA PersistDoes ==
    ASSUME FallbackInv, Persist
    PROVE  \E kind \in FailureKinds, m \in Models :
             /\ \/ GiveUp
                \/ Switch(kind, m) /\ m # lastModel
                \/ AskUser(kind, m) /\ (m # lastModel <=> Len(ChainFrom[lastModel]) > 1)
             /\ capacityTries' \in 0 .. MaxCapacity
<1> USE DEF FallbackInv
<1>1. lastModel = activeModel /\ lastModel \in Models /\ phase = "calling"
  BY DEF Persist, RequestModel, FallbackTypeOK
<1> DEFINE candidates == Candidates(ChainFrom[lastModel], lastModel)
<1>2. PICK cause \in Causes :
        /\ capacityTries' = Counted(cause)
        /\ IF candidates # << >> THEN Resort(KindOf(cause), candidates)
           ELSE AskUser(KindOf(cause), lastModel)
  BY <1>1 DEF Persist
<1>3. KindOf(cause) \in FailureKinds
  BY DEF KindOf, Causes, FailureKinds
<1>4. capacityTries' \in 0 .. MaxCapacity
  BY <1>2, FallbackBounds DEF Counted, FallbackTypeOK
<1>5. /\ candidates \in Seq(Models) /\ Items(candidates) \subseteq Models
      /\ candidates # << >> => Len(ChainFrom[lastModel]) > 1
      /\ candidates = << >> => Len(ChainFrom[lastModel]) = 1
  BY <1>1, OwnCandidates
<1> HIDE DEF candidates
<1>6. CASE candidates # << >>
  <2>1. \/ GiveUp
        \/ \E m \in Items(candidates) \ {lastModel} : Switch(KindOf(cause), m) \/ AskUser(KindOf(cause), m)
    BY <1>2, <1>6 DEF Resort
  <2>2. CASE GiveUp
    BY <1>1, <1>3, <1>4, <2>2
  <2>3. ASSUME NEW m \in Items(candidates) \ {lastModel},
               Switch(KindOf(cause), m) \/ AskUser(KindOf(cause), m)
        PROVE  \/ Switch(KindOf(cause), m) /\ m # lastModel
               \/ AskUser(KindOf(cause), m) /\ (m # lastModel <=> Len(ChainFrom[lastModel]) > 1)
    BY <1>5, <1>6, <2>3
  <2> QED BY <1>3, <1>4, <1>5, <2>1, <2>2, <2>3
<1>7. CASE candidates = << >>
  <2>1. AskUser(KindOf(cause), lastModel)
    BY <1>2, <1>7
  <2>2. lastModel # lastModel <=> Len(ChainFrom[lastModel]) > 1
    <3>1. Len(ChainFrom[lastModel]) = 1 BY <1>5, <1>7
    <3> QED BY <3>1
  <2> QED BY <1>1, <1>3, <1>4, <2>1, <2>2
<1> QED BY <1>6, <1>7

LEMMA PersistKeeps == ASSUME FallbackInv, Persist PROVE FallbackInv'
<1> USE FallbackBounds DEF FallbackInv
<1>1. PICK kind \in FailureKinds, m \in Models :
        /\ \/ GiveUp
           \/ Switch(kind, m) /\ m # lastModel
           \/ AskUser(kind, m) /\ (m # lastModel <=> Len(ChainFrom[lastModel]) > 1)
        /\ capacityTries' \in 0 .. MaxCapacity
  BY PersistDoes
<1>2. phase = "calling" /\ lastModel = activeModel /\ lastModel = seenActive
      /\ UNCHANGED <<requested, lastModel, seenActive, validations, turn, consents>>
  BY DEF Persist, RequestModel
<1>3. CASE GiveUp
  <2>1. FallbackTypeOK' BY <1>1, <1>2, <1>3 DEF GiveUp, FallbackTypeOK
  <2>2. OnlyLonersFail' /\ SparedConsumed' /\ RequestModel'
    BY <1>3 DEF GiveUp, OnlyLonersFail, SparedConsumed, RequestModel
  <2> QED BY <2>1, <2>2
<1>4. CASE Switch(kind, m) /\ m # lastModel
  <2>1. /\ configured' \in Models \cup {AutoModel} /\ activeModel' = m
        /\ health' \in [Models -> HealthStates] /\ OnlyLonersFail'
    BY <1>2, <1>4, ActivateKnows DEF Switch
  <2>2. spared' = {} /\ phase' = "loop" /\ tries' = 0 /\ UNCHANGED <<failure, fallbackModel>>
    BY <1>4 DEF Switch, StartOver
  <2>3. FallbackTypeOK' BY <1>1, <1>2, <2>1, <2>2 DEF FallbackTypeOK
  <2>4. SparedConsumed' /\ RequestModel' BY <1>2, <2>1, <2>2 DEF SparedConsumed, RequestModel
  <2> QED BY <2>1, <2>3, <2>4
<1>5. CASE AskUser(kind, m) /\ (m # lastModel <=> Len(ChainFrom[lastModel]) > 1)
  <2>1. FallbackTypeOK' BY <1>1, <1>2, <1>5 DEF AskUser, FallbackTypeOK
  <2>2. OnlyLonersFail' /\ SparedConsumed' BY <1>5 DEF AskUser, OnlyLonersFail, SparedConsumed
  <2>3. RequestModel' BY <1>2, <1>5 DEF AskUser, RequestModel
  <2> QED BY <2>1, <2>2, <2>3
<1> QED BY <1>1, <1>3, <1>4, <1>5

\* The user's consents are bounded.
LEMMA ConsentTypes == ASSUME FallbackTypeOK, Consent PROVE consents' \in 0 .. Patience
  BY FallbackBounds DEF Consent, FallbackTypeOK

LEMMA RetryAlwaysKeeps == ASSUME FallbackInv, RetryAlways PROVE FallbackInv'
<1> USE FallbackBounds DEF FallbackInv
<1>1. phase = "asking" /\ lastModel = activeModel /\ lastModel = seenActive /\ fallbackModel \in Models
  BY DEF RetryAlways, RequestModel, FallbackTypeOK
<1>2. Len(ChainFrom[lastModel]) = 1 <=> ~(Len(ChainFrom[lastModel]) > 1)
  BY ChainLengths DEF FallbackTypeOK
<1>3. fallbackModel = lastModel => Len(ChainFrom[lastModel]) = 1
  <2>1. fallbackModel = lastModel => ~(Len(ChainFrom[lastModel]) > 1) BY <1>1 DEF RequestModel
  <2> QED BY <1>2, <2>1, Zenon
<1>4. /\ configured' \in Models \cup {AutoModel} /\ activeModel' = fallbackModel
      /\ health' \in [Models -> HealthStates] /\ OnlyLonersFail'
  BY <1>1, <1>3, ActivateKnows DEF RetryAlways
<1>5. /\ spared' = {} /\ phase' = "loop" /\ tries' = 0 /\ consents' \in 0 .. Patience
      /\ UNCHANGED <<requested, lastModel, seenActive, capacityTries, validations, failure, fallbackModel, turn>>
  BY ConsentTypes DEF RetryAlways, StartOver
<1>6. FallbackTypeOK' BY <1>4, <1>5 DEF FallbackTypeOK
<1>7. SparedConsumed' /\ RequestModel' BY <1>1, <1>4, <1>5 DEF SparedConsumed, RequestModel
<1> QED BY <1>4, <1>6, <1>7

\* The model that is spared has others in its chain, so nothing but the failure
\* of the turn is known of it.
LEMMA RetryOnceKeeps == ASSUME FallbackInv, RetryOnce PROVE FallbackInv'
<1> USE FallbackBounds DEF FallbackInv
<1>1. /\ phase = "asking" /\ lastModel = activeModel /\ lastModel = seenActive /\ lastModel \in Models
      /\ health \in [Models -> HealthStates] /\ spared \subseteq Models
  BY DEF RetryOnce, RequestModel, FallbackTypeOK
<1>2. /\ phase' = "loop" /\ tries' = 0 /\ consents' \in 0 .. Patience
      /\ UNCHANGED <<configured, activeModel, requested, lastModel, seenActive, capacityTries,
                     validations, failure, fallbackModel, turn>>
  BY ConsentTypes DEF RetryOnce, StartOver
<1>3. RequestModel' BY <1>1, <1>2 DEF RequestModel
<1>4. CASE fallbackModel = lastModel
  <2>1. UNCHANGED <<health, spared>> BY <1>4 DEF RetryOnce
  <2>2. FallbackTypeOK' BY <1>2, <2>1 DEF FallbackTypeOK
  <2>3. OnlyLonersFail' /\ SparedConsumed' BY <2>1 DEF OnlyLonersFail, SparedConsumed
  <2> QED BY <1>3, <2>2, <2>3
<1>5. CASE fallbackModel # lastModel
  <2>1. health' = Spare(lastModel, health) /\ spared' = spared \cup {lastModel}
    BY <1>5 DEF RetryOnce
  <2>2. Len(ChainFrom[lastModel]) > 1
    BY <1>1, <1>5 DEF RequestModel
  <2>3. health[lastModel] \notin {"quota", "capacity"}
    <3>1. Len(ChainFrom[lastModel]) # 1
      BY <1>1, <2>2, ChainLengths, Zenon
    <3> QED BY <1>1, <3>1 DEF OnlyLonersFail
  <2>4. /\ health' \in [Models -> HealthStates] /\ health'[lastModel] = "consumed"
        /\ \A n \in Models \ {lastModel} : health'[n] = health[n]
    BY <1>1, <2>1, <2>3, HealthSteps
  <2>5. FallbackTypeOK'
    <3>1. spared' \subseteq Models BY <1>1, <2>1
    <3> HIDE DEF FallbackInv
    <3> QED BY <1>2, <2>4, <3>1 DEF FallbackInv, FallbackTypeOK
  <2>6. OnlyLonersFail' BY <2>4 DEF OnlyLonersFail
  <2>7. SparedConsumed' BY <1>1, <2>1, <2>2, <2>4 DEF SparedConsumed
  <2> QED BY <1>3, <2>5, <2>6, <2>7
<1> QED BY <1>4, <1>5

LEMMA ExpireKeeps == ASSUME FallbackInv, Expire PROVE FallbackInv'
<1> USE DEF FallbackInv
<1>1. PICK m \in Models : health[m] = "capacity" /\ health' = [health EXCEPT ![m] = "healthy"]
  BY DEF Expire
<1>2. UNCHANGED <<configured, activeModel, phase, requested, lastModel, seenActive,
                  retryVars, failure, fallbackModel, turn, consents, spared>>
  BY DEF Expire
<1>3. FallbackTypeOK'
  <2>1. health' \in [Models -> HealthStates] BY <1>1 DEF FallbackTypeOK, HealthStates
  <2> QED BY <1>2, <2>1 DEF FallbackTypeOK, retryVars
<1>4. OnlyLonersFail' /\ SparedConsumed' /\ RequestModel'
  BY <1>1, <1>2 DEF OnlyLonersFail, SparedConsumed, RequestModel, FallbackTypeOK
<1> QED BY <1>3, <1>4

\* Every step keeps the invariant.
LEMMA FallbackInvStep == FallbackInv /\ [FallbackNext]_modelVars => FallbackInv'
<1> SUFFICES ASSUME FallbackInv, [FallbackNext]_modelVars PROVE FallbackInv' OBVIOUS
<1>1. CASE UNCHANGED modelVars
  BY <1>1 DEF modelVars, retryVars, FallbackInv, FallbackTypeOK, OnlyLonersFail, SparedConsumed, RequestModel
<1> QED
  BY <1>1, NewTurnKeeps, BeginKeeps, AttemptKeeps, SucceedKeeps, MoveKeepsModels, PersistKeeps,
     RetryAlwaysKeeps, RetryOnceKeeps, ExpireKeeps DEF FallbackNext, RequestStep

-----------------------------------------------------------------------------
\* The variables of a request keep their types.
THEOREM FallbackTypes == FallbackSpec => []FallbackTypeOK
<1>1. FallbackInv => FallbackTypeOK BY DEF FallbackInv
<1> QED BY <1>1, FallbackInvInit, FallbackInvStep, PTL DEF FallbackSpec

\* A step that chooses a model takes a spared one only when it has to.
LEMMA ChoiceSpares ==
    ASSUME FallbackInv, FallbackNext, Chooses, lastModel' \in spared'
    PROVE  lastModel' = LastResort[requested] /\ \A m \in Items(ChainFrom[requested]) : ~Available(m)
<1>1. requested \in Models BY DEF FallbackInv, FallbackTypeOK
<1>2. spared' = spared /\ (Begin \/ Attempt)
  BY DEF FallbackNext, RequestStep, Chooses, NewTurn, RequestAgain, Begin, Attempt, Call, Succeed, Throw,
     Ended, RetrySame, VerifyAccount, Persist, RetryAlways, RetryOnce, Decline, Expire
<1>3. ~Available(lastModel')
  BY <1>2 DEF FallbackInv, SparedConsumed, Available
<1>4. ~Attempt \/ (Reselects /\ activeModel = seenActive)
  BY <1>2, <1>3 DEF Attempt, Call, Reselects, Chooses, FallbackInv, RequestModel
<1>5. lastModel' = Selection(requested)
  BY <1>2, <1>4 DEF Begin, Attempt, Call
<1> QED BY <1>1, <1>3, <1>5, SelectionChooses

\* handler.ts: a model that the user retried once is not chosen again in the
\* turn, while the chain of the request has any other that is available.
THEOREM SparedStaysSpared == FallbackSpec => SparedForTheTurn
<1>1. FallbackInv /\ [FallbackNext]_modelVars =>
        [Chooses /\ lastModel' \in spared' =>
           lastModel' = LastResort[requested] /\ \A m \in Items(ChainFrom[requested]) : ~Available(m)]_modelVars
  BY ChoiceSpares
<1> QED BY <1>1, FallbackInvInit, FallbackInvStep, PTL DEF FallbackSpec, SparedForTheTurn

-----------------------------------------------------------------------------
\* LocalAgent: the types of a run. A run has a reason exactly when it has ended.

\* A call of the turn is in one of these states.
CallStates == {"none", "queued"} \cup Active \cup Results

\* Whatever stops a turn leaves the run at a turn of the model or at its end.
LEMMA StopsTypes ==
    ASSUME AgentTypeOK, agentPhase # "ended", NEW reason \in Reasons, Stops(reason)
    PROVE  AgentTypeOK'
<1>1. NoCalls \in [AgentCalls -> CallStates]
  BY DEF NoCalls, CallStates
<1>2. ASSUME NEW r \in Reasons, Returns(r) PROVE AgentTypeOK'
  BY <1>1, <1>2 DEF Returns, AgentTypeOK, CallStates, Reasons
<1>3. CASE InGrace
  <2>1. recovering \in Reasons
    BY <1>3 DEF InGrace, AgentTypeOK, Reasons
  <2>2. Returns(IF reason = "GOAL" THEN reason ELSE recovering)
    BY <1>3 DEF Stops
  <2> QED BY <1>2, <2>1, <2>2
<1>4. CASE ~InGrace /\ reason \in Recoverable
  <2>1. /\ recovering' = reason /\ grace' = "running" /\ agentPhase' = "model" /\ agentCalls' = NoCalls
        /\ UNCHANGED <<turnCounter, deadline, userAborted, terminateReason>>
    BY <1>4 DEF Stops
  <2> QED BY <1>1, <1>4, <2>1 DEF AgentTypeOK, CallStates
<1>5. CASE ~InGrace /\ reason \notin Recoverable
  BY <1>2, <1>5 DEF Stops
<1> QED BY <1>3, <1>4, <1>5

\* The head of the loop counts a turn only below the limit.
LEMMA NextTurnTypes ==
    ASSUME AgentTypeOK, agentPhase # "ended", NextAgentTurn
    PROVE  AgentTypeOK'
<1>1. {"MAX_TURNS", "TIMEOUT", "ABORTED"} \subseteq Reasons
  BY DEF Reasons, Recoverable
<1>2. CASE turnCounter >= MaxTurns
  BY <1>1, <1>2, StopsTypes DEF NextAgentTurn
<1>3. CASE ~(turnCounter >= MaxTurns) /\ Interrupted
  BY <1>1, <1>3, StopsTypes DEF NextAgentTurn
<1>4. CASE ~(turnCounter >= MaxTurns) /\ ~Interrupted
  <2>1. /\ turnCounter' = turnCounter + 1 /\ agentPhase' = "model" /\ agentCalls' = NoCalls
        /\ UNCHANGED <<deadline, grace, userAborted, recovering, terminateReason>>
    BY <1>4 DEF NextAgentTurn
  <2>2. turnCounter' \in 0 .. MaxTurns
    BY <1>4, <2>1, AgentConstants DEF AgentTypeOK
  <2>3. NoCalls \in [AgentCalls -> CallStates]
    BY DEF NoCalls, CallStates
  <2> QED BY <2>1, <2>2, <2>3 DEF AgentTypeOK, CallStates
<1> QED BY <1>2, <1>3, <1>4

\* The scheduler of the turn changes the calls and the deadline only.
LEMMA CallsTypes ==
    ASSUME AgentTypeOK, TimersKept, agentCalls' \in [AgentCalls -> CallStates],
           deadline' \in {"running", "paused", "aborted"}
    PROVE  AgentTypeOK'
  BY DEF AgentTypeOK, TimersKept, CallStates

\* Every step keeps the types.
LEMMA AgentTypeStep == AgentTypeOK /\ [AgentNext]_agentVars => AgentTypeOK'
<1> SUFFICES ASSUME AgentTypeOK, [AgentNext]_agentVars PROVE AgentTypeOK'
  OBVIOUS
<1>r. /\ {"GOAL", "ABORTED", "thrown", "TIMEOUT", "MAX_TURNS", "ERROR_NO_COMPLETE_TASK_CALL"} \subseteq Reasons
      /\ NoCalls \in [AgentCalls -> CallStates]
  BY DEF Reasons, Recoverable, NoCalls, CallStates
<1>t. agentCalls \in [AgentCalls -> CallStates] /\ deadline \in {"running", "paused", "aborted"}
  BY DEF AgentTypeOK, CallStates
<1>e. ASSUME NEW reason \in Reasons, Returns(reason) PROVE AgentTypeOK'
  BY <1>r, <1>e DEF Returns, AgentTypeOK, CallStates
<1>1. CASE StartWave
  BY <1>1, <1>t, CallsTypes DEF StartWave, CallStates, Active
<1>2. CASE LaunchCalls
  BY <1>2, <1>t, CallsTypes DEF LaunchCalls, CallStates, Active
<1>3. CASE CancelCalls
  BY <1>3, <1>t, CallsTypes DEF CancelCalls, CallStates, Results
<1>4. CASE ToolsEnd
  <2>1. agentPhase # "ended"
    BY <1>4 DEF ToolsEnd
  <2>2. CASE Stops("ABORTED") \/ Stops("GOAL")
    BY <1>r, <2>1, <2>2, StopsTypes
  <2>3. CASE InGrace /\ Returns(recovering)
    <3>1. recovering \in Reasons
      BY <2>3 DEF InGrace, AgentTypeOK, Reasons
    <3> QED BY <1>e, <2>3, <3>1
  <2>4. CASE NextAgentTurn
    BY <2>1, <2>4, NextTurnTypes
  <2> QED BY <1>4, <2>2, <2>3, <2>4 DEF ToolsEnd
<1>5. ASSUME NEW c \in AgentCalls, DecideCall(c) PROVE AgentTypeOK'
  BY <1>5, <1>t, CallsTypes DEF DecideCall, Paused, CallStates, Active, Results
<1>6. CASE CreateAgentChat
  <2>1. agentPhase # "ended"
    BY <1>6 DEF CreateAgentChat
  <2> QED BY <1>6, <1>r, <1>e, <2>1, NextTurnTypes DEF CreateAgentChat
<1>7. CASE ModelReplies
  <2>1. agentPhase = "model" /\ agentPhase # "ended"
    BY <1>7 DEF ModelReplies
  <2>2. CASE Stops(IF TimedOut THEN "TIMEOUT" ELSE "ABORTED") \/ Stops("ERROR_NO_COMPLETE_TASK_CALL")
    BY <1>r, <2>1, <2>2, StopsTypes
  <2>3. CASE \E made \in SUBSET AgentCalls \ {{}} : \E blocked \in SUBSET made :
               /\ agentCalls' = [c \in AgentCalls |->
                                   IF c \in blocked THEN "error"
                                   ELSE IF c \in made THEN "queued" ELSE "none"]
               /\ agentPhase' = "tools"
               /\ UNCHANGED <<turnCounter, deadline, grace, userAborted, recovering, terminateReason>>
    <3>1. agentCalls' \in [AgentCalls -> CallStates]
      BY <2>3 DEF CallStates, Results
    <3>2. agentPhase' = "tools" /\ UNCHANGED <<turnCounter, deadline, grace, userAborted, recovering, terminateReason>>
      BY <2>3
    <3> QED BY <2>1, <3>1, <3>2 DEF AgentTypeOK, CallStates
  <2> QED BY <1>7, <2>2, <2>3 DEF ModelReplies
<1>8. CASE ModelThrows
  <2>1. agentPhase # "ended"
    BY <1>8 DEF ModelThrows
  <2>2. CASE InGrace /\ Returns(recovering)
    <3>1. recovering \in Reasons
      BY <2>2 DEF InGrace, AgentTypeOK, Reasons
    <3> QED BY <1>e, <2>2, <3>1
  <2>3. CASE Returns("thrown")
    BY <1>r, <1>e, <2>3
  <2>4. CASE Stops("TIMEOUT")
    BY <1>r, <2>1, <2>4, StopsTypes
  <2> QED BY <1>8, <2>2, <2>3, <2>4 DEF ModelThrows
<1>9. ASSUME NEW c \in AgentCalls, FinishCall(c) PROVE AgentTypeOK'
  BY <1>9, <1>t, CallsTypes DEF FinishCall, CallStates, Results
<1>10. ASSUME NEW c \in AgentCalls, AnswerCall(c) PROVE AgentTypeOK'
  BY <1>10, <1>t, CallsTypes DEF AnswerCall, Resumed, CallStates, Active, Results
<1>11. CASE DeadlinePasses
  BY <1>11, <1>t, CallsTypes DEF DeadlinePasses
<1>12. CASE GracePasses
  BY <1>12 DEF GracePasses, AgentTypeOK
<1>13. CASE AbortRun
  BY <1>13 DEF AbortRun, AgentTypeOK
<1>14. CASE UNCHANGED agentVars
  BY <1>14 DEF agentVars, AgentTypeOK
<1> QED
  BY <1>1, <1>2, <1>3, <1>4, <1>5, <1>6, <1>7, <1>8, <1>9, <1>10, <1>11, <1>12, <1>13, <1>14
     DEF AgentNext, AgentStep, AgentReply

\* The variables of a run keep their types, the turns their limit, and a run
\* has a reason when and only when it has ended.
THEOREM AgentTypes == AgentSpec => []AgentTypeOK
<1>1. AgentInit => AgentTypeOK
  <2>1. NoCalls \in [AgentCalls -> CallStates] /\ NotYet \notin Reasons
    BY DEF NoCalls, CallStates, NotYet, Reasons, Recoverable
  <2>2. 0 \in 0 .. MaxTurns
    BY AgentConstants
  <2> QED BY <2>1, <2>2 DEF AgentInit, AgentTypeOK, CallStates
<1> QED BY <1>1, AgentTypeStep, PTL DEF AgentSpec

-----------------------------------------------------------------------------
\* ExecutionLifecycle: each execution has one result, its completion is injected
\* after it, and no watcher misses its exit.

\* Who is active was attached, and waits for its result unless it was moved to
\* the background.
ActiveAttached == \A e \in Ids :
    /\ e \in resolver => e \in active
    /\ e \in active => run[e] >= 1 /\ (e \in resolver <=> e \notin background)

\* Only the end of an execution is injected.
InjectedAtEnd == \A e \in Ids, r \in 1 .. Runs : injections[e][r] # 0 => Over(e, r)

\* What every step preserves
ExecInv == ExecutionTypeOK /\ ActiveAttached /\ OneResultEach /\ InjectedAtEnd /\ NoExitMissed

\* At the start there is no execution.
LEMMA ExecInvInit == ExecutionInit => ExecInv
<1> SUFFICES ASSUME ExecutionInit PROVE ExecInv OBVIOUS
<1>1. ExecutionTypeOK
  BY ExecutionConstants DEF ExecutionInit, ExecutionTypeOK, ExecutionConstants, Idle, Counters
<1>2. ActiveAttached /\ NoExitMissed
  BY DEF ExecutionInit, ActiveAttached, NoExitMissed, Idle
<1>3. OneResultEach /\ InjectedAtEnd
  BY DEF ExecutionInit, OneResultEach, InjectedAtEnd, Over, Begun
<1> QED BY <1>1, <1>2, <1>3 DEF ExecInv

\* One more for the current run
CountedOne(counters, e) == [counters EXCEPT ![e][run[e]] = @ + 1]

\* Results and injections grow by one, of the current run.
LEMMA CountersStep ==
    ASSUME ExecutionTypeOK, NEW e \in Ids, run[e] >= 1, NEW counters \in Counters,
           NEW next, next = CountedOne(counters, e)
    PROVE  /\ next \in Counters
           /\ next[e][run[e]] = counters[e][run[e]] + 1
           /\ \A f \in Ids, r \in 1 .. Runs : f # e \/ r # run[e] => next[f][r] = counters[f][r]
<1> DEFINE R == 1 .. Runs
           k == run[e]
           old == counters[e]
           new == next[e]
<1>1. k \in R /\ old \in [R -> Nat]
  BY DEF ExecutionTypeOK, Counters
<1>2. /\ new = [old EXCEPT ![k] = @ + 1]
      /\ \A f \in Ids \ {e} : next[f] = counters[f]
      /\ next = [f \in Ids |-> next[f]]
  BY DEF Counters, CountedOne
<1>3. new \in [R -> Nat] /\ new[k] = old[k] + 1 /\ \A r \in R : r # k => new[r] = old[r]
  <2> HIDE DEF R, k, old, new
  <2> QED BY <1>1, <1>2
<1>4. next \in Counters
  BY <1>2, <1>3 DEF Counters
<1> QED BY <1>2, <1>3, <1>4

\* A new execution: the one before it under the same id is over, nothing of the
\* new one has been delivered.
LEMMA AttachKeeps == ASSUME ExecInv, NEW e \in Ids, Attach(e) PROVE ExecInv'
<1> USE ExecutionConstants DEF ExecutionConstants
<1>1. run[e] \in Nat /\ run' = [run EXCEPT ![e] = @ + 1] /\ run[e] < Runs
  BY DEF Attach, ExecInv, ExecutionTypeOK
<1>2. ExecutionTypeOK'
  <2>1. run' \in [Ids -> 0 .. Runs]
    BY <1>1 DEF ExecInv, ExecutionTypeOK
  <2> QED BY <2>1 DEF Attach, InForeground, ExecInv, ExecutionTypeOK
<1>3. ActiveAttached'
  BY <1>1 DEF Attach, MayAttach, InForeground, ExecInv, ExecutionTypeOK, ActiveAttached
<1>4. OneResultEach'
  BY <1>1 DEF Attach, MayAttach, InForeground, ExecInv, ExecutionTypeOK, OneResultEach, Over, Begun
<1>5. InjectedAtEnd'
  BY <1>1 DEF Attach, MayAttach, ExecInv, ExecutionTypeOK, InjectedAtEnd, Over, Begun
<1>6. NoExitMissed'
  BY <1>1 DEF Attach, MayAttach, ExecInv, ExecutionTypeOK, NoExitMissed
<1> QED BY <1>2, <1>3, <1>4, <1>5, <1>6 DEF ExecInv

\* The execution goes on in the background, and its result has been delivered.
LEMMA BackgroundKeeps == ASSUME ExecInv, NEW e \in Ids, Background(e) PROVE ExecInv'
<1>1. /\ run[e] >= 1 /\ results \in Counters
      /\ results' = CountedOne(results, e)
  BY DEF Background, Deliver, CountedOne, ExecInv, ExecutionTypeOK, ActiveAttached
<1>2. /\ results' \in Counters
      /\ results'[e][run[e]] = results[e][run[e]] + 1
      /\ \A f \in Ids, r \in 1 .. Runs : f # e \/ r # run[e] => results'[f][r] = results[f][r]
  <2>1. ExecutionTypeOK BY DEF ExecInv
  <2> QED BY <1>1, <2>1, CountersStep
<1>3. ExecutionTypeOK'
  BY <1>2 DEF Background, ExecInv, ExecutionTypeOK
<1>4. ActiveAttached'
  BY DEF Background, ExecInv, ExecutionTypeOK, ActiveAttached
<1>5. OneResultEach'
  <2> SUFFICES ASSUME NEW f \in Ids, NEW r \in 1 .. Runs
               PROVE  results'[f][r] = IF Over(f, r)' \/ (Begun(f, r)' /\ f \in background') THEN 1 ELSE 0
    BY DEF OneResultEach
  <2>1. CASE f = e /\ r = run[e]
    <3>1. results[e][run[e]] = 0
      BY <2>1 DEF Background, ExecInv, ExecutionTypeOK, ActiveAttached, OneResultEach, Over, Begun
    <3> QED BY <1>2, <2>1, <3>1 DEF Background, Begun, ExecInv, ExecutionTypeOK
  <2>2. CASE f = e /\ r # run[e]
    <3>1. results'[f][r] = results[f][r] BY <1>2, <2>2
    <3>2. run[e] \in Int /\ r \in Int BY DEF ExecInv, ExecutionTypeOK
    <3>3. results[f][r] = IF r < run[e] THEN 1 ELSE 0
      BY <2>2, <3>2 DEF Background, Over, Begun, ExecInv, OneResultEach
    <3> QED BY <2>2, <3>1, <3>2, <3>3 DEF Background, Over, Begun
  <2>3. CASE f # e
    BY <1>2, <2>3 DEF Background, Over, Begun, ExecInv, OneResultEach
  <2> QED BY <2>1, <2>2, <2>3
<1>6. InjectedAtEnd' /\ NoExitMissed'
  BY DEF Background, ExecInv, InjectedAtEnd, NoExitMissed, Over, Begun
<1> QED BY <1>3, <1>4, <1>5, <1>6 DEF ExecInv

\* The end of an execution: whoever still waits gets the result, which nobody
\* got before, and a completion is injected for the first time.
LEMMA SettleExecutionKeeps ==
    ASSUME ExecInv, NEW e \in Ids, NEW killed \in BOOLEAN, SettleExecution(e, killed)
    PROVE  /\ ExecInv'
           /\ \A f \in Ids, r \in 1 .. Runs : injections'[f][r] # injections[f][r] =>
                injections[f][r] = 0 /\ results[f][r] = 1
<1>1. run[e] >= 1 /\ results \in Counters /\ injections \in Counters
  BY DEF SettleExecution, ExecInv, ExecutionTypeOK, ActiveAttached
<1>2. /\ results' \in Counters
      /\ results'[e][run[e]] = IF e \in resolver THEN results[e][run[e]] + 1 ELSE results[e][run[e]]
      /\ \A f \in Ids, r \in 1 .. Runs : f # e \/ r # run[e] => results'[f][r] = results[f][r]
  <2>1. CASE e \in resolver
    <3>1. results' = CountedOne(results, e) BY <2>1 DEF SettleExecution, AnswersTo, Deliver, CountedOne
    <3>2. ExecutionTypeOK BY DEF ExecInv
    <3> QED BY <1>1, <2>1, <3>1, <3>2, CountersStep
  <2>2. CASE e \notin resolver
    BY <1>1, <2>2 DEF SettleExecution, AnswersTo
  <2> QED BY <2>1, <2>2
<1>3. /\ injections' \in Counters
      /\ injections'[e][run[e]] # injections[e][run[e]] => e \in background
      /\ \A f \in Ids, r \in 1 .. Runs : f # e \/ r # run[e] => injections'[f][r] = injections[f][r]
  <2>1. CASE e \in background /\ ~killed
    <3>1. injections' = CountedOne(injections, e) BY <2>1 DEF SettleExecution, CountedOne
    <3>2. ExecutionTypeOK BY DEF ExecInv
    <3> QED BY <1>1, <2>1, <3>1, <3>2, CountersStep
  <2>2. CASE ~(e \in background /\ ~killed)
    BY <1>1, <2>2 DEF SettleExecution
  <2> QED BY <2>1, <2>2
<1>4. ExecutionTypeOK'
  <2>1. watch' \in [Watchers -> [state : {"idle", "listening", "told", "ignored"},
                                 id : Ids \cup {0}, run : 0 .. Runs]]
    BY DEF SettleExecution, ExecInv, ExecutionTypeOK
  <2>2. timers' \in [Ids -> Nat]
    BY DEF SettleExecution, ExecInv, ExecutionTypeOK
  <2> QED BY <1>2, <1>3, <2>1, <2>2 DEF SettleExecution, ExecInv, ExecutionTypeOK
<1>5. ActiveAttached'
  BY DEF SettleExecution, ExecInv, ExecutionTypeOK, ActiveAttached
<1>6. OneResultEach'
  <2> SUFFICES ASSUME NEW f \in Ids, NEW r \in 1 .. Runs
               PROVE  results'[f][r] = IF Over(f, r)' \/ (Begun(f, r)' /\ f \in background') THEN 1 ELSE 0
    BY DEF OneResultEach
  <2>1. CASE f = e /\ r = run[e]
    <3>1. results[e][run[e]] = IF e \in resolver THEN 0 ELSE 1
      BY <2>1 DEF SettleExecution, ExecInv, ExecutionTypeOK, ActiveAttached, OneResultEach, Over, Begun
    <3> QED BY <1>2, <2>1, <3>1 DEF SettleExecution, Over, Begun, ExecInv, ExecutionTypeOK
  <2>2. CASE f = e /\ r # run[e]
    <3>1. results'[f][r] = results[f][r] BY <1>2, <2>2
    <3>2. run[e] \in Int /\ r \in Int BY DEF ExecInv, ExecutionTypeOK
    <3>3. results[f][r] = IF r < run[e] THEN 1 ELSE 0
      BY <2>2, <3>2 DEF SettleExecution, Over, Begun, ExecInv, OneResultEach
    <3> QED BY <2>2, <3>1, <3>2, <3>3 DEF SettleExecution, Over, Begun
  <2>3. CASE f # e
    BY <1>2, <2>3 DEF SettleExecution, Over, Begun, ExecInv, OneResultEach
  <2> QED BY <2>1, <2>2, <2>3
<1>7. InjectedAtEnd'
  <2> SUFFICES ASSUME NEW f \in Ids, NEW r \in 1 .. Runs, injections'[f][r] # 0
               PROVE  Over(f, r)'
    BY DEF InjectedAtEnd
  <2>1. CASE f = e /\ r = run[e]
    BY <2>1 DEF SettleExecution, Over, Begun, ExecInv, ExecutionTypeOK
  <2>2. CASE f # e \/ r # run[e]
    BY <1>3, <2>2 DEF SettleExecution, Over, Begun, ExecInv, ExecutionTypeOK, InjectedAtEnd
  <2> QED BY <2>1, <2>2
<1>8. NoExitMissed'
  BY DEF SettleExecution, ExecInv, ExecutionTypeOK, NoExitMissed
<1>9. ASSUME NEW f \in Ids, NEW r \in 1 .. Runs, injections'[f][r] # injections[f][r]
      PROVE  injections[f][r] = 0 /\ results[f][r] = 1
  <2>1. f = e /\ r = run[e] /\ e \in background
    BY <1>3, <1>9
  <2>2. e \in active
    BY DEF SettleExecution
  <2>3. ~Over(f, r) /\ Begun(f, r)
    BY <2>1, <2>2 DEF Over, Begun, ExecInv, ExecutionTypeOK
  <2> QED BY <2>1, <2>3 DEF ExecInv, InjectedAtEnd, OneResultEach
<1> QED BY <1>4, <1>5, <1>6, <1>7, <1>8, <1>9 DEF ExecInv

\* Watchers and the timers of past exits change nothing else.
LEMMA WatchKeeps ==
    ASSUME ExecInv,
           \/ \E e \in Ids : ForgetExit(e)
           \/ \E w \in Watchers : Unwatch(w) \/ \E e \in Ids : OnExit(w, e)
           \/ UNCHANGED execVars
    PROVE  ExecInv' /\ UNCHANGED injections
<1> DEFINE Watch == [state : {"idle", "listening", "told", "ignored"}, id : Ids \cup {0}, run : 0 .. Runs]
<1>1. ASSUME NEW e \in Ids, ForgetExit(e) PROVE ExecInv' /\ UNCHANGED injections
  <2>1. timers' \in [Ids -> Nat]
    BY <1>1 DEF ForgetExit, ExecInv, ExecutionTypeOK
  <2> QED
    BY <1>1, <2>1 DEF ForgetExit, ExecInv, ExecutionTypeOK, ActiveAttached, OneResultEach, InjectedAtEnd,
                      NoExitMissed, Over, Begun
<1>2. ASSUME NEW w \in Watchers, Unwatch(w) PROVE ExecInv' /\ UNCHANGED injections
  <2>1. watch' \in [Watchers -> Watch]
    <3>1. Idle \in Watch BY ExecutionConstants DEF Idle, ExecutionConstants
    <3> QED BY <1>2, <3>1 DEF Unwatch, ExecInv, ExecutionTypeOK
  <2>2. NoExitMissed'
    BY <1>2 DEF Unwatch, ExecInv, ExecutionTypeOK, NoExitMissed, Idle
  <2> QED
    BY <1>2, <2>1, <2>2 DEF Unwatch, ExecInv, ExecutionTypeOK, ActiveAttached, OneResultEach, InjectedAtEnd, Over, Begun
<1>3. ASSUME NEW w \in Watchers, NEW e \in Ids, OnExit(w, e) PROVE ExecInv' /\ UNCHANGED injections
  <2>1. watch' \in [Watchers -> Watch] /\ NoExitMissed'
    BY <1>3 DEF OnExit, ExecInv, ExecutionTypeOK, NoExitMissed
  <2> QED
    BY <1>3, <2>1 DEF OnExit, ExecInv, ExecutionTypeOK, ActiveAttached, OneResultEach, InjectedAtEnd, Over, Begun
<1>4. CASE UNCHANGED execVars
  BY <1>4 DEF execVars, ExecInv, ExecutionTypeOK, ActiveAttached, OneResultEach, InjectedAtEnd, NoExitMissed, Over, Begun
<1> QED BY <1>1, <1>2, <1>3, <1>4

\* Every step keeps the invariant, and injects only what is due.
LEMMA ExecStep ==
    ASSUME ExecInv, [ExecutionNext]_execVars
    PROVE  /\ ExecInv'
           /\ \A e \in Ids, r \in 1 .. Runs : injections'[e][r] # injections[e][r] =>
                injections[e][r] = 0 /\ results[e][r] = 1
<1>1. ASSUME NEW e \in Ids, Attach(e) PROVE ExecInv' /\ UNCHANGED injections
  BY <1>1, AttachKeeps DEF Attach
<1>2. ASSUME NEW e \in Ids, Background(e) PROVE ExecInv' /\ UNCHANGED injections
  BY <1>2, BackgroundKeeps DEF Background
<1>3. ASSUME NEW e \in Ids, Complete(e) \/ Kill(e) PROVE \E b \in BOOLEAN : SettleExecution(e, b)
  BY <1>3 DEF Complete, Kill
<1> QED BY <1>1, <1>2, <1>3, SettleExecutionKeeps, WatchKeeps DEF ExecutionNext

\* It holds in every state.
LEMMA ExecInvariant == ExecutionSpec => []ExecInv
  BY ExecInvInit, ExecStep, PTL DEF ExecutionSpec

\* The variables keep their types.
THEOREM ExecutionTypes == ExecutionSpec => []ExecutionTypeOK
<1>1. ExecInv => ExecutionTypeOK BY DEF ExecInv
<1> QED BY <1>1, ExecInvariant, PTL

\* executionLifecycleService.ts: every execution has one result, whether it
\* completes, is killed or is moved to the background first.
THEOREM OneResult == ExecutionSpec => []OneResultEach
<1>1. ExecInv => OneResultEach BY DEF ExecInv
<1> QED BY <1>1, ExecInvariant, PTL

\* executionLifecycleService.ts: a watcher of an execution hears its exit, and
\* not that of a later one with the same id.
THEOREM ExitsHeard == ExecutionSpec => []NoExitMissed
<1>1. ExecInv => NoExitMissed BY DEF ExecInv
<1> QED BY <1>1, ExecInvariant, PTL

\* executionLifecycleService.ts: a completion is injected once, after the call
\* that started the execution was answered.
THEOREM InjectionFollows == ExecutionSpec => InjectedAfterResult
<1>1. ExecInv /\ [ExecutionNext]_execVars =>
        [\A e \in Ids, r \in 1 .. Runs : injections'[e][r] # injections[e][r] =>
           injections[e][r] = 0 /\ results[e][r] = 1]_execVars
  BY ExecStep
<1> QED BY <1>1, ExecInvariant, PTL DEF ExecutionSpec, InjectedAfterResult

-----------------------------------------------------------------------------
\* A2aTasks: one main loop at a time works on a task, and as long as the task is
\* not cancelled while it is loaded, it works on the object in the cache.

ReqPcs == MainLoop \cup {"new", "loading", "waiting", "secondary", "leaving", "evicting", "done"}
States == Terminal \cup {"submitted", "working", "input-required"}

\* A loop that was not aborted is the one that is registered.
Registered == \A e \in Requests : Primary(e) /\ e \notin aborted => executing = e

\* One request loads the task, and may make an object for it.
OneLoads == \A e \in Requests : reqPc[e] = "loading" => initializing = e /\ loads < Loads

\* What every step preserves
LoopInv == A2aTypeOK /\ Registered /\ OneLoads

-----------------------------------------------------------------------------
\* A request enters: it is aborted, hands its message over, or runs the agent
\* when no loop does.
LEMMA EnterStep ==
    ASSUME A2aTypeOK, NEW e \in Requests, NEW w \in Objects \cup {NoTask},
           NEW ctl \in SUBSET Requests, Enter(e, w, ctl)
    PROVE  /\ reqPc' \in [Requests -> ReqPcs] /\ reqTask' \in [Requests -> Objects \cup {NoTask}]
           /\ taskState' \in [Objects -> States]
           /\ asking' \in [Objects -> BOOLEAN] /\ cancellationError' \in [Objects -> BOOLEAN]
           /\ controllers' = ctl /\ explicitly' = explicitly \ {e}
           /\ \A f \in Requests \ {e} : reqPc'[f] = reqPc[f] /\ reqTask'[f] = reqTask[f]
           /\ reqTask'[e] = w
           /\ reqPc'[e] \in {"evicting", "leaving", "secondary", "turn"}
           /\ reqPc'[e] = "evicting" => e \in explicitly
           /\ \/ reqPc'[e] = "turn" /\ executing' = e /\ ~IsExecuting
              \/ reqPc'[e] # "turn" /\ executing' = executing
           /\ w \in Objects /\ reqPc'[e] # "evicting" => taskState'[w] \notin Terminal
           /\ \A v \in Objects : v # w => taskState'[v] = taskState[v]
<1> USE DEF A2aTypeOK, ReqPcs, States, MainLoop, Terminal
<1>1. CASE e \in aborted
  BY <1>1 DEF Enter
<1>2. ASSUME NEW pc \in ReqPcs, Accept(e, w, pc)
      PROVE  /\ asking' \in [Objects -> BOOLEAN] /\ cancellationError' \in [Objects -> BOOLEAN]
             /\ reqPc' = [reqPc EXCEPT ![e] = pc] /\ taskState' = [taskState EXCEPT ![w] = "working"]
  BY <1>2 DEF Accept
<1>3. CASE e \notin aborted /\ IsExecuting
  <2>1. Accept(e, w, "secondary") /\ controllers' = ctl /\ UNCHANGED executing
    BY <1>3 DEF Enter
  <2>2. /\ asking' \in [Objects -> BOOLEAN] /\ cancellationError' \in [Objects -> BOOLEAN]
        /\ reqPc' = [reqPc EXCEPT ![e] = "secondary"] /\ taskState' = [taskState EXCEPT ![w] = "working"]
    <3>1. "secondary" \in ReqPcs OBVIOUS
    <3> QED BY <1>2, <2>1, <3>1
  <2>3. explicitly' = explicitly \ {e} /\ reqTask' = [reqTask EXCEPT ![e] = w]
    BY DEF Enter
  <2>4. /\ taskState' \in [Objects -> States]
        /\ w \in Objects => taskState'[w] \notin Terminal
        /\ \A v \in Objects : v # w => taskState'[v] = taskState[v]
    BY <2>2
  <2> QED BY <2>1, <2>2, <2>3, <2>4
<1>4. CASE e \notin aborted /\ ~IsExecuting
  <2>1. Accept(e, w, "turn") /\ controllers' = ctl /\ executing' = e
    BY <1>4 DEF Enter
  <2>2. /\ asking' \in [Objects -> BOOLEAN] /\ cancellationError' \in [Objects -> BOOLEAN]
        /\ reqPc' = [reqPc EXCEPT ![e] = "turn"] /\ taskState' = [taskState EXCEPT ![w] = "working"]
    <3>1. "turn" \in ReqPcs OBVIOUS
    <3> QED BY <1>2, <2>1, <3>1
  <2>3. explicitly' = explicitly \ {e} /\ reqTask' = [reqTask EXCEPT ![e] = w]
    BY DEF Enter
  <2>4. /\ taskState' \in [Objects -> States]
        /\ w \in Objects => taskState'[w] \notin Terminal
        /\ \A v \in Objects : v # w => taskState'[v] = taskState[v]
    BY <2>2
  <2> QED BY <1>4, <2>1, <2>2, <2>3, <2>4
<1> QED BY <1>1, <1>3, <1>4

\* The tools of a task are given up; its loops wake and stay main loops.
LEMMA WakeStep ==
    ASSUME A2aTypeOK, NEW w
    PROVE  /\ WakeOf(w, reqPc) \in [Requests -> ReqPcs]
           /\ \A f \in Requests :
                WakeOf(w, reqPc)[f] = reqPc[f] \/ (reqPc[f] = "tools" /\ WakeOf(w, reqPc)[f] = "woken")
  BY DEF A2aTypeOK, WakeOf, ReqPcs, MainLoop

\* A task is evicted if it is the one in the cache.
LEMMA EvictStep ==
    ASSUME A2aTypeOK, NEW w, Evict(w)
    PROVE  /\ cached' \in Objects \cup {NoTask} /\ disposed' \subseteq Objects
           /\ \/ w = cached /\ cached # NoTask /\ cached' = NoTask /\ disposed' = disposed \cup {cached}
              \/ (w # cached \/ w = NoTask) /\ cached' = cached /\ disposed' = disposed
  BY DEF A2aTypeOK, Evict, Evicts, Objects, NoTask

\* A loop closes: the others keep their places, and a task that ended leaves
\* the cache.
LEMMA CloseStep ==
    ASSUME A2aTypeOK, NEW e \in Requests, NEW state \in States, NEW pc \in [Requests -> ReqPcs],
           Close(e, state, pc)
    PROVE  /\ reqPc' \in [Requests -> ReqPcs] /\ controllers' = controllers \ {e}
           /\ executing' \in Requests \cup {NoRequest} /\ taskState' \in [Objects -> States]
           /\ reqPc'[e] = "done" /\ \A f \in Requests \ {e} : reqPc'[f] = pc[f]
           /\ executing' = Unregistered(e)
           /\ reqTask[e] \in Objects => taskState'[reqTask[e]] = state
           /\ \A v \in Objects : v # reqTask[e] => taskState'[v] = taskState[v]
           /\ cached' \in Objects \cup {NoTask} /\ disposed' \subseteq Objects
           /\ reqTask' \in [Requests -> Objects \cup {NoTask}]
           /\ \A f \in Requests \ {e} : reqTask'[f] = reqTask[f]
           /\ UNCHANGED <<loads, initializing, aborted, explicitly>>
<1> USE DEF A2aTypeOK
<1>1. reqPc' \in [Requests -> ReqPcs] /\ reqPc'[e] = "done" /\ \A f \in Requests \ {e} : reqPc'[f] = pc[f]
  BY DEF Close, ReqPcs
<1>2. /\ taskState' \in [Objects -> States]
      /\ reqTask[e] \in Objects => taskState'[reqTask[e]] = state
      /\ \A v \in Objects : v # reqTask[e] => taskState'[v] = taskState[v]
  BY DEF Close, States
<1>3. cached' \in Objects \cup {NoTask} /\ disposed' \subseteq Objects
  BY EvictStep DEF Close
<1>4. /\ reqTask' \in [Requests -> Objects \cup {NoTask}]
      /\ \A f \in Requests \ {e} : reqTask'[f] = reqTask[f]
  BY DEF Close
<1> QED BY <1>1, <1>2, <1>3, <1>4 DEF Close, Unregistered

\* The pending calls and the batches of an object keep their types when they
\* are cancelled.
LEMMA CancelStep ==
    ASSUME A2aTypeOK, NEW w, CancelTools(w)
    PROVE  /\ pendingTools' \in [Objects -> SUBSET Requests]
           /\ batches' \in [Objects -> Seq(Requests)]
           /\ cancelling' \in [Objects -> BOOLEAN] /\ cancellationError' \in [Objects -> BOOLEAN]
<1> USE DEF A2aTypeOK
<1>1. pendingTools' \in [Objects -> SUBSET Requests] /\ cancellationError' \in [Objects -> BOOLEAN]
  BY DEF CancelTools
<1>2. CASE batches[w] = <<>> \/ cancelling[w]
  BY <1>1, <1>2 DEF CancelTools, CancelAllBatches
<1>3. CASE ~(batches[w] = <<>> \/ cancelling[w])
  <2>1. /\ batches' = [batches EXCEPT ![w] = <<Head(batches[w])>>]
        /\ cancelling' = [cancelling EXCEPT ![w] = TRUE]
    BY <1>3 DEF CancelTools, CancelAllBatches
  <2>2. w \in Objects => <<Head(batches[w])>> \in Seq(Requests)
    BY <1>3
  <2>3. batches' \in [Objects -> Seq(Requests)]
    BY <2>1, <2>2
  <2>4. cancelling' \in [Objects -> BOOLEAN]
    BY <2>1
  <2> QED BY <1>1, <2>3, <2>4
<1> QED BY <1>2, <1>3

\* The catch block: the loops that wait for the same tools wake, this one closes.
LEMMA UnwindStep ==
    ASSUME A2aTypeOK, NEW e \in Requests, Unwind(e)
    PROVE  /\ \E state \in States :
                /\ Close(e, state, WakeOf(reqTask[e], reqPc))
                /\ e \in aborted /\ state \in Terminal => state = taskState[reqTask[e]]
           /\ CancelTools(reqTask[e]) /\ UNCHANGED asking
  BY DEF Unwind, A2aTypeOK, States, Terminal

-----------------------------------------------------------------------------
\* At the start nothing is requested.
LEMMA LoopInvInit == A2aInit => LoopInv
<1> SUFFICES ASSUME A2aInit PROVE LoopInv OBVIOUS
<1>1. A2aTypeOK
  BY A2aConstants DEF A2aInit, A2aTypeOK, A2aConstants, Objects, Terminal, MainLoop, NoTask
<1>2. Registered /\ OneLoads
  BY DEF A2aInit, Registered, OneLoads, Primary, MainLoop
<1> QED BY <1>1, <1>2 DEF LoopInv

\* A request that enters becomes a main loop only if none is registered.
LEMMA EnterKeeps ==
    ASSUME LoopInv, NEW e \in Requests, NEW w \in Objects \cup {NoTask}, NEW ctl \in SUBSET Requests,
           Enter(e, w, ctl), reqPc[e] \notin MainLoop,
           cached' \in Objects \cup {NoTask}, loads' \in 0 .. Loads,
           initializing' \in Requests \cup {NoRequest},
           \A f \in Requests \ {e} : reqPc[f] = "loading" => initializing' = f /\ loads' < Loads,
           UNCHANGED <<aborted, disposed, pendingTools, batches, cancelling>>
    PROVE  LoopInv'
<1> USE EnterStep DEF LoopInv
<1>1. A2aTypeOK'
  <2>1. /\ reqPc' \in [Requests -> ReqPcs] /\ reqTask' \in [Requests -> Objects \cup {NoTask}]
        /\ taskState' \in [Objects -> States]
        /\ asking' \in [Objects -> BOOLEAN] /\ cancellationError' \in [Objects -> BOOLEAN]
        /\ controllers' \subseteq Requests /\ explicitly' \subseteq explicitly
    OBVIOUS
  <2>2. executing' \in Requests \cup {NoRequest}
    BY DEF A2aTypeOK
  <2> QED BY <2>1, <2>2 DEF A2aTypeOK, ReqPcs, States
<1>2. Registered'
  <2> SUFFICES ASSUME NEW f \in Requests, Primary(f)', f \notin aborted'
               PROVE  executing' = f
    BY DEF Registered
  <2>1. CASE f = e
    BY <2>1 DEF Primary, MainLoop
  <2>2. CASE f # e
    <3>1. executing = f BY <2>2 DEF Registered, Primary
    <3>2. IsExecuting BY <3>1, A2aConstants DEF IsExecuting, A2aConstants
    <3> QED BY <3>1, <3>2
  <2> QED BY <2>1, <2>2
<1>3. OneLoads'
  BY DEF OneLoads
<1> QED BY <1>1, <1>2, <1>3

\* A loop that closes unregisters itself and nobody else.
LEMMA CloseKeeps ==
    ASSUME LoopInv, NEW e \in Requests, NEW state \in States, NEW w,
           NEW pc \in {reqPc, WakeOf(w, reqPc)}, Close(e, state, pc), UNCHANGED asking,
           CancelTools(w) \/ UNCHANGED <<pendingTools, batches, cancelling, cancellationError>>
    PROVE  LoopInv'
<1> USE DEF LoopInv
<1>1. /\ pc \in [Requests -> ReqPcs]
      /\ \A f \in Requests : pc[f] = reqPc[f] \/ (reqPc[f] = "tools" /\ pc[f] = "woken")
  BY WakeStep DEF A2aTypeOK, ReqPcs
<1>2. A2aTypeOK'
  <2>1. /\ pendingTools' \in [Objects -> SUBSET Requests] /\ batches' \in [Objects -> Seq(Requests)]
        /\ asking' \in [Objects -> BOOLEAN] /\ cancelling' \in [Objects -> BOOLEAN]
        /\ cancellationError' \in [Objects -> BOOLEAN]
    BY CancelStep DEF A2aTypeOK
  <2> QED BY <1>1, <2>1, CloseStep DEF A2aTypeOK, ReqPcs, States
<1>3. Registered'
  BY <1>1, CloseStep DEF Registered, Primary, MainLoop, Unregistered
<1>4. OneLoads'
  BY <1>1, CloseStep DEF OneLoads
<1> QED BY <1>2, <1>3, <1>4

\* Steps that keep what each request is: a main loop or not, loading or not.
LEMMA MoveLoopKeeps ==
    ASSUME LoopInv, A2aTypeOK', UNCHANGED <<executing, initializing, loads>>, aborted \subseteq aborted',
           \A f \in Requests : (Primary(f)' => Primary(f)) /\ (reqPc'[f] = "loading" => reqPc[f] = "loading")
    PROVE  LoopInv'
  BY DEF LoopInv, Registered, OneLoads

\* Requests come in, load the task, and wait for those that load it.
LEMMA EntriesKeep ==
    ASSUME LoopInv, NEW e \in Requests, Execute(e) \/ Load(e) \/ LoadFails(e) \/ Awake(e)
    PROVE  LoopInv'
<1> USE DEF LoopInv
<1>1. CASE Execute(e)
  <2>1. CASE initializing # NoRequest
    <3>1. reqPc' = [reqPc EXCEPT ![e] = "waiting"] BY <1>1, <2>1 DEF Execute
    <3>2. A2aTypeOK' BY <1>1, <2>1, <3>1 DEF Execute, A2aTypeOK
    <3> QED BY <1>1, <2>1, <3>1, <3>2, MoveLoopKeeps DEF Execute, A2aTypeOK, Primary, MainLoop
  <2>2. CASE initializing = NoRequest /\ cached # NoTask
    <3>1. Enter(e, cached, controllers \cup {e}) BY <1>1, <2>2 DEF Execute
    <3> QED BY <1>1, <2>2, <3>1, EnterKeeps DEF Execute, A2aTypeOK, MainLoop, OneLoads
  <2>3. CASE initializing = NoRequest /\ cached = NoTask
    <3>1. /\ reqPc' = [reqPc EXCEPT ![e] = "loading"] /\ initializing' = e /\ loads < Loads
          /\ controllers' = controllers \cup {e}
      BY <1>1, <2>3 DEF Execute
    <3>2. \A f \in Requests : reqPc[f] # "loading"
      BY <2>3, A2aConstants DEF OneLoads, A2aConstants
    <3>3. A2aTypeOK' BY <1>1, <2>3, <3>1 DEF Execute, A2aTypeOK
    <3> QED
      BY <1>1, <2>3, <3>1, <3>2, <3>3 DEF Execute, A2aTypeOK, Registered, OneLoads, Primary, MainLoop
  <2> QED BY <2>1, <2>2, <2>3
<1>2. CASE Load(e)
  <2>1. loads + 1 \in Objects /\ loads + 1 \in 0 .. Loads
    BY <1>2, A2aConstants DEF Load, A2aTypeOK, OneLoads, Objects, A2aConstants
  <2>2. Enter(e, loads + 1, controllers) BY <1>2 DEF Load
  <2>3. \A f \in Requests \ {e} : reqPc[f] # "loading" BY <1>2 DEF Load, OneLoads
  <2> QED BY <1>2, <2>1, <2>2, <2>3, EnterKeeps DEF Load, A2aTypeOK, MainLoop
<1>3. CASE LoadFails(e)
  <2>1. /\ \A f \in Requests : reqPc'[f] = IF reqPc[f] \in {"loading", "waiting"} THEN "done" ELSE reqPc[f]
        /\ controllers' \subseteq controllers
    BY <1>3 DEF LoadFails
  <2>2. A2aTypeOK' BY <1>3 DEF LoadFails, schedulerVars, A2aTypeOK
  <2> QED BY <1>3, <2>1, <2>2 DEF LoadFails, Registered, OneLoads, Primary, MainLoop
<1>4. CASE Awake(e)
  <2>1. loads \in Objects \cup {NoTask}
    BY DEF A2aTypeOK, Objects, NoTask
  <2>2. Enter(e, loads, controllers) /\ reqPc[e] = "waiting" BY <1>4 DEF Awake, Ready
  <2> QED BY <1>4, <2>1, <2>2, EnterKeeps DEF Awake, A2aTypeOK, MainLoop, OneLoads
<1> QED BY <1>1, <1>2, <1>3, <1>4

\* The loops work, and wait for their tools.
LEMMA LoopsKeep ==
    ASSUME LoopInv, NEW e \in Requests,
           AgentTurn(e) \/ Register(e) \/ TurnThrows(e) \/ Wake(e) \/ Depart(e)
    PROVE  LoopInv'
<1> USE DEF LoopInv
<1>1. CASE AgentTurn(e)
  <2>1. PICK pc \in {"scheduling", "tools", "woken"} : reqPc' = [reqPc EXCEPT ![e] = pc]
    BY <1>1 DEF AgentTurn, Waiting
  <2>2. A2aTypeOK' BY <1>1, <2>1 DEF AgentTurn, schedulerVars, A2aTypeOK, MainLoop
  <2> QED BY <1>1, <2>1, <2>2, MoveLoopKeeps DEF AgentTurn, A2aTypeOK, Primary, MainLoop
<1>2. CASE Register(e)
  <2>1. PICK pc \in {"tools", "woken"} : reqPc' = [reqPc EXCEPT ![e] = pc]
    BY <1>2 DEF Register
  <2>2. /\ taskState' \in [Objects -> States] /\ pendingTools' \in [Objects -> SUBSET Requests]
        /\ batches' \in [Objects -> Seq(Requests)]
    <3>1. batches' = batches \/ batches' = [batches EXCEPT ![reqTask[e]] = Append(batches[reqTask[e]], e)]
      BY <1>2 DEF Register
    <3>2. reqTask[e] \in Objects => Append(batches[reqTask[e]], e) \in Seq(Requests)
      BY DEF A2aTypeOK
    <3>3. batches \in [Objects -> Seq(Requests)]
      BY DEF A2aTypeOK
    <3>4. batches' \in [Objects -> Seq(Requests)]
      BY <3>1, <3>2, <3>3
    <3>5. taskState' \in [Objects -> States] /\ pendingTools' \in [Objects -> SUBSET Requests]
      BY <1>2 DEF Register, A2aTypeOK, States
    <3> QED BY <3>4, <3>5
  <2>3. A2aTypeOK' BY <1>2, <2>1, <2>2 DEF Register, A2aTypeOK, MainLoop, States
  <2> QED BY <1>2, <2>1, <2>3, MoveLoopKeeps DEF Register, A2aTypeOK, Primary, MainLoop
<1>4. ASSUME Unwind(e) PROVE LoopInv'
  BY <1>4, UnwindStep, CloseKeeps
<1>5. CASE TurnThrows(e)
  BY <1>4, <1>5 DEF TurnThrows
<1>6. CASE Wake(e)
  <2>1. CASE e \in aborted \/ cancellationError[reqTask[e]]
    BY <1>4, <1>6, <2>1 DEF Wake
  <2>2. CASE Close(e, "input-required", reqPc) /\ UNCHANGED <<pendingTools, schedulerVars, cancellationError>>
    BY <2>2, CloseKeeps DEF States, schedulerVars
  <2>3. CASE /\ reqPc' = [reqPc EXCEPT ![e] = "turn"] /\ reqPc[e] = "woken"
             /\ UNCHANGED <<controllers, executing, taskState, cached, disposed,
                            loads, initializing, aborted, explicitly, reqTask>>
             /\ UNCHANGED <<pendingTools, schedulerVars, cancellationError>>
    <3>1. A2aTypeOK' BY <2>3 DEF schedulerVars, A2aTypeOK, MainLoop
    <3> QED BY <2>3, <3>1, MoveLoopKeeps DEF A2aTypeOK, Primary, MainLoop
  <2> QED BY <1>6, <2>1, <2>2, <2>3 DEF Wake
<1>7. CASE Depart(e)
  <2>1. /\ reqPc' = [reqPc EXCEPT ![e] = "done"] /\ reqTask' = [reqTask EXCEPT ![e] = NoTask]
        /\ controllers' = controllers \ {e}
    BY <1>7 DEF Depart, Leave
  <2>2. cached' \in Objects \cup {NoTask} /\ disposed' \subseteq Objects
    BY <1>7, EvictStep DEF Depart, A2aTypeOK
  <2>3. A2aTypeOK' BY <1>7, <2>1, <2>2 DEF Depart, schedulerVars, A2aTypeOK
  <2> QED BY <1>7, <2>1, <2>3, MoveLoopKeeps DEF Depart, A2aTypeOK, Primary, MainLoop
<1> QED BY <1>1, <1>2, <1>5, <1>6, <1>7

\* The rest of a queue of batches is one.
LEMMA QueueRest ==
    ASSUME NEW q \in Seq(Requests), NEW k \in 2 .. Len(q) + 1
    PROVE  SubSeq(q, k, Len(q)) \in Seq(Requests)
  BY SubSeqProperties, EmptySeq

\* The batches ask and end: the loops that wait for them wake.
LEMMA BatchStep ==
    ASSUME A2aTypeOK, NEW w \in Objects, BatchAsks(w) \/ BatchEnds(w)
    PROVE  /\ A2aTypeOK'
           /\ \A f \in Requests : reqPc'[f] = reqPc[f] \/ (reqPc[f] = "tools" /\ reqPc'[f] = "woken")
           /\ UNCHANGED <<cached, loads, initializing, executing, controllers, aborted, explicitly,
                          taskState, disposed, cancellationError, reqTask>>
<1>1. reqPc' \in {reqPc, WakeOf(w, reqPc)}
  BY DEF BatchAsks, BatchEnds
<1>2. /\ reqPc' \in [Requests -> ReqPcs]
      /\ \A f \in Requests : reqPc'[f] = reqPc[f] \/ (reqPc[f] = "tools" /\ reqPc'[f] = "woken")
  BY <1>1, WakeStep DEF A2aTypeOK, ReqPcs
<1>3. CASE BatchAsks(w)
  BY <1>2, <1>3 DEF BatchAsks, A2aTypeOK, ReqPcs
<1>4. CASE BatchEnds(w)
  <2>1. PICK k \in 2 .. Len(batches[w]) + 1, told \in SUBSET Requests :
          /\ batches' = [batches EXCEPT ![w] = SubSeq(batches[w], k, Len(batches[w]))]
          /\ pendingTools' = [pendingTools EXCEPT ![w] = told]
          /\ cancelling' = [cancelling EXCEPT ![w] = FALSE]
    <3>1. PICK k \in 2 .. Len(batches[w]) + 1 :
          LET next == SubSeq(batches[w], k, Len(batches[w]))
              told == (pendingTools[w] \ {Head(batches[w])}) \cup {f \in Requests : next # <<>> /\ f = Head(next)}
          IN  /\ batches' = [batches EXCEPT ![w] = next]
              /\ cancelling' = [cancelling EXCEPT ![w] = FALSE]
              /\ pendingTools' = [pendingTools EXCEPT ![w] = told]
      BY <1>4 DEF BatchEnds
    <3> DEFINE next == SubSeq(batches[w], k, Len(batches[w]))
               told == (pendingTools[w] \ {Head(batches[w])}) \cup {f \in Requests : next # <<>> /\ f = Head(next)}
    <3>2. told \in SUBSET Requests BY DEF A2aTypeOK
    <3> QED BY <3>1, <3>2
  <2>2. SubSeq(batches[w], k, Len(batches[w])) \in Seq(Requests)
    BY QueueRest DEF A2aTypeOK
  <2>3. /\ batches' \in [Objects -> Seq(Requests)] /\ cancelling' \in [Objects -> BOOLEAN]
        /\ pendingTools' \in [Objects -> SUBSET Requests]
    BY <2>1, <2>2 DEF A2aTypeOK
  <2> QED BY <1>2, <1>4, <2>3 DEF BatchEnds, A2aTypeOK, ReqPcs
<1> QED BY <1>2, <1>3, <1>4

\* Batches keep the invariant.
LEMMA BatchesKeep ==
    ASSUME LoopInv, NEW w \in Objects, BatchAsks(w) \/ BatchEnds(w)
    PROVE  LoopInv'
  BY BatchStep, MoveLoopKeeps DEF LoopInv, Primary, MainLoop

\* Clients go away, and the task is cancelled.
LEMMA AbortsKeep ==
    ASSUME LoopInv, CancelTask \/ \E e \in Requests : Disconnect(e)
    PROVE  LoopInv'
<1> USE DEF LoopInv
<1>1. ASSUME NEW e \in Requests, Disconnect(e) PROVE LoopInv'
  <2>1. A2aTypeOK' BY <1>1 DEF Disconnect, Abort, A2aTypeOK
  <2> QED BY <1>1, <2>1, MoveLoopKeeps DEF Disconnect, Abort, Primary
<1>2. CASE CancelTask
  <2>1. /\ reqPc' \in [Requests -> ReqPcs]
        /\ \A f \in Requests : reqPc'[f] = reqPc[f] \/ (reqPc[f] = "tools" /\ reqPc'[f] = "woken")
    BY <1>2, WakeStep DEF CancelTask, A2aTypeOK, ReqPcs
  <2>2. cached' \in Objects \cup {NoTask} /\ disposed' \subseteq Objects
    BY <1>2, EvictStep DEF CancelTask, A2aTypeOK
  <2>3. /\ taskState' \in [Objects -> States]
        /\ pendingTools' \in [Objects -> SUBSET Requests] /\ batches' \in [Objects -> Seq(Requests)]
        /\ asking' \in [Objects -> BOOLEAN] /\ cancelling' \in [Objects -> BOOLEAN]
        /\ cancellationError' \in [Objects -> BOOLEAN]
    <3>1. taskState' \in [Objects -> States] /\ asking' \in [Objects -> BOOLEAN]
      BY <1>2 DEF CancelTask, Abort, A2aTypeOK, States, Terminal
    <3>2. CancelTools(cached) \/ UNCHANGED <<pendingTools, batches, cancelling, cancellationError>>
      BY <1>2 DEF CancelTask
    <3> QED BY <3>1, <3>2, CancelStep DEF A2aTypeOK
  <2>4. A2aTypeOK' BY <1>2, <2>1, <2>2, <2>3 DEF CancelTask, Abort, A2aTypeOK, ReqPcs, States
  <2> QED BY <1>2, <2>1, <2>4, MoveLoopKeeps DEF CancelTask, Abort, Primary, MainLoop
<1> QED BY <1>1, <1>2

\* Every step keeps the invariant.
LEMMA LoopInvStep == LoopInv /\ [A2aNext]_taskVars => LoopInv'
<1>1. ASSUME LoopInv, UNCHANGED taskVars PROVE LoopInv'
  BY <1>1 DEF taskVars, schedulerVars, LoopInv, A2aTypeOK, Registered, OneLoads, Primary
<1> QED BY <1>1, EntriesKeep, LoopsKeep, BatchesKeep, AbortsKeep DEF A2aNext, Advance

\* It holds in every state.
LEMMA LoopInvariant == A2aSpec => []LoopInv
  BY LoopInvInit, LoopInvStep, PTL DEF A2aSpec

\* The variables keep their types.
THEOREM A2aTypes == A2aSpec => []A2aTypeOK
<1>1. LoopInv => A2aTypeOK BY DEF LoopInv
<1> QED BY <1>1, LoopInvariant, PTL

\* executor.ts: at most one main loop that was not aborted works on the task.
THEOREM OneMainLoop == A2aSpec => []OnePrimary
<1>1. LoopInv => OnePrimary BY DEF LoopInv, Registered, OnePrimary
<1> QED BY <1>1, LoopInvariant, PTL

-----------------------------------------------------------------------------
(***************************************************************************)
(* When the task is not cancelled while it is loaded, no request evicts it *)
(* after the save of its end, and a loop keeps the object it works on.     *)
(***************************************************************************)
\* A request loads the task because there is none in the cache.
EmptyWhileLoading == initializing # NoRequest => cached = NoTask

\* What is in the cache was not disposed of, and nothing newer was made.
CacheFresh ==
    /\ loads \in Nat /\ cached <= loads /\ disposed \subseteq 1 .. loads
    /\ cached # NoTask => cached \notin disposed

\* Requests that waited for the load find its object in the cache.
AwakenedFind == \A e \in Requests : Ready(e) => cached = loads /\ loads # NoTask

\* A cancel reaches the requests that are under way, and none of them has its
\* task still to be loaded.
Reached == \A e \in Requests :
    /\ e \in controllers => reqPc[e] # "new"
    /\ UnderWay(e) => e \in controllers
    /\ reqPc[e] # "evicting"
    /\ e \notin explicitly

\* A loop works on the object in the cache, which did not come to its end.
WorksOnCached == \A e \in Requests : Primary(e) /\ e \notin aborted =>
    reqTask[e] = cached /\ cached # NoTask /\ taskState[cached] \notin Terminal

CacheInv == EmptyWhileLoading /\ CacheFresh /\ AwakenedFind /\ Reached /\ WorksOnCached

\* At the start there is nothing in the cache.
LEMMA CacheInvInit == A2aInit => CacheInv
  BY DEF A2aInit, CacheInv, EmptyWhileLoading, CacheFresh, AwakenedFind, Reached, WorksOnCached,
         Ready, UnderWay, Primary, MainLoop, NoTask

\* A request that enters with the object in the cache.
LEMMA EnterWorks ==
    ASSUME LoopInv, LoopInv', CacheInv, NEW e \in Requests, NEW w \in Objects, NEW ctl \in SUBSET Requests,
           reqPc[e] \in {"new", "loading", "waiting"}, Enter(e, w, ctl),
           controllers \subseteq ctl, ctl \subseteq controllers \cup {e}, e \in ctl, cached' = w,
           cached = w \/ cached = NoTask, UNCHANGED <<aborted, disposed>>
    PROVE  Reached' /\ WorksOnCached'
<1> USE DEF LoopInv, CacheInv
<1>1. e \notin explicitly
  BY DEF Reached
<1>2. Reached'
  BY <1>1, EnterStep DEF Reached, UnderWay
<1>3. WorksOnCached'
  <2> SUFFICES ASSUME NEW f \in Requests, Primary(f)', f \notin aborted'
               PROVE  reqTask'[f] = cached' /\ cached' # NoTask /\ taskState'[cached'] \notin Terminal
    BY DEF WorksOnCached
  <2>1. w # NoTask BY DEF Objects, NoTask
  <2>2. CASE f = e
    BY <1>1, <2>1, <2>2, EnterStep
  <2>3. CASE f # e
    <3>1. reqTask[f] = w /\ reqTask'[f] = w
      BY <2>3, EnterStep DEF WorksOnCached, Primary
    <3> QED BY <1>1, <2>1, <3>1, EnterStep
  <2> QED BY <2>2, <2>3
<1> QED BY <1>2, <1>3

\* Requests come in, load the task, and wait for those that load it.
LEMMA EntriesFind ==
    ASSUME LoopInv, LoopInv', CacheInv, NEW e \in Requests,
           \/ (\A f \in Requests : ~Ready(f)) /\ (Execute(e) \/ Load(e) \/ LoadFails(e))
           \/ Awake(e)
    PROVE  CacheInv'
<1> USE DEF LoopInv, CacheInv
<1>1. CASE Execute(e) /\ \A f \in Requests : ~Ready(f)
  <2>1. CASE initializing # NoRequest
    <3>1. /\ reqPc' = [reqPc EXCEPT ![e] = "waiting"] /\ controllers' = controllers \cup {e}
          /\ reqPc[e] = "new"
          /\ UNCHANGED <<cached, loads, initializing, aborted, explicitly, disposed, taskState, reqTask>>
      BY <1>1, <2>1 DEF Execute
    <3> QED
      BY <2>1, <3>1 DEF EmptyWhileLoading, CacheFresh, AwakenedFind, Reached, WorksOnCached, Ready,
                   UnderWay, Primary, MainLoop, A2aTypeOK
  <2>2. CASE initializing = NoRequest /\ cached # NoTask
    <3>1. /\ Enter(e, cached, controllers \cup {e}) /\ reqPc[e] = "new"
          /\ UNCHANGED <<cached, loads, initializing, aborted, disposed>>
      BY <1>1, <2>2 DEF Execute
    <3>2. cached \in Objects /\ controllers \subseteq Requests
      BY <2>2 DEF A2aTypeOK
    <3>3. Reached' /\ WorksOnCached'
      BY <3>1, <3>2, EnterWorks
    <3>4. AwakenedFind'
      BY <1>1, <3>1, <3>2, EnterStep DEF AwakenedFind, Ready
    <3> QED BY <3>1, <3>3, <3>4 DEF EmptyWhileLoading, CacheFresh
  <2>3. CASE initializing = NoRequest /\ cached = NoTask
    <3>1. /\ reqPc' = [reqPc EXCEPT ![e] = "loading"] /\ initializing' = e /\ reqPc[e] = "new"
          /\ controllers' = controllers \cup {e} /\ e # NoRequest
          /\ UNCHANGED <<cached, loads, aborted, explicitly, disposed, taskState, reqTask>>
      BY <1>1, <2>3, A2aConstants DEF Execute, A2aConstants
    <3> QED
      BY <2>3, <3>1 DEF EmptyWhileLoading, CacheFresh, AwakenedFind, Reached, WorksOnCached, Ready,
                   UnderWay, Primary, MainLoop, A2aTypeOK
  <2> QED BY <2>1, <2>2, <2>3
<1>2. CASE Load(e)
  <2> DEFINE w == loads + 1
  <2>1. /\ Enter(e, w, controllers) /\ reqPc[e] = "loading" /\ loads' = w /\ cached' = w
        /\ initializing' = NoRequest /\ UNCHANGED <<aborted, disposed>>
    BY <1>2 DEF Load
  <2>2. cached = NoTask /\ initializing = e
    BY <2>1, A2aConstants DEF OneLoads, EmptyWhileLoading, A2aConstants
  <2>3. w \in Objects /\ w \in Nat \ {0} /\ w > loads /\ controllers \subseteq Requests /\ e \in controllers
    <3>1. w \in Objects /\ w \in Nat \ {0} /\ w > loads
      BY <2>1, A2aConstants DEF A2aTypeOK, OneLoads, Objects, A2aConstants
    <3>2. e \in controllers
      BY <2>1 DEF Reached, UnderWay
    <3> QED BY <3>1, <3>2 DEF A2aTypeOK
  <2>4. Reached' /\ WorksOnCached'
    BY <2>1, <2>2, <2>3, EnterWorks
  <2>5. CacheFresh'
    BY <2>1, <2>3 DEF CacheFresh, NoTask
  <2>6. EmptyWhileLoading' /\ AwakenedFind'
    BY <2>1, <2>3 DEF EmptyWhileLoading, AwakenedFind, NoTask
  <2> QED BY <2>4, <2>5, <2>6
<1>3. CASE LoadFails(e)
  <2>1. /\ \A f \in Requests : reqPc'[f] = IF reqPc[f] \in {"loading", "waiting"} THEN "done" ELSE reqPc[f]
        /\ controllers' = controllers \ {f \in Requests : reqPc[f] \in {"loading", "waiting"}}
        /\ initializing' = NoRequest /\ explicitly' \subseteq explicitly
        /\ UNCHANGED <<cached, loads, aborted, disposed, taskState, reqTask>>
    BY <1>3 DEF LoadFails
  <2> QED
    BY <2>1 DEF EmptyWhileLoading, CacheFresh, AwakenedFind, Reached, WorksOnCached, Ready,
                UnderWay, Primary, MainLoop
<1>4. CASE Awake(e)
  <2>1. /\ Enter(e, loads, controllers) /\ reqPc[e] = "waiting" /\ cached = loads /\ loads # NoTask
        /\ UNCHANGED <<cached, loads, initializing, aborted, disposed>>
    BY <1>4 DEF Awake, Ready, AwakenedFind
  <2>2. loads \in Objects /\ controllers \subseteq Requests /\ e \in controllers
    BY <2>1 DEF A2aTypeOK, Objects, NoTask, Reached, UnderWay
  <2>3. Reached' /\ WorksOnCached'
    BY <2>1, <2>2, EnterWorks
  <2> QED BY <2>1, <2>2, <2>3, EnterStep DEF EmptyWhileLoading, CacheFresh, AwakenedFind, Ready
<1> QED BY <1>1, <1>2, <1>3, <1>4

\* Steps that leave the cache alone and end no task.
LEMMA StayKeeps ==
    ASSUME LoopInv, CacheInv, UNCHANGED <<initializing, cached, loads, disposed, explicitly>>,
           \A f \in Requests : reqTask'[f] = reqTask[f] \/ reqPc'[f] = "done",
           \A f \in Requests : reqPc'[f] # reqPc[f] => reqPc[f] # "new" /\ reqPc'[f] \in MainLoop \cup {"done"},
           \A f \in Requests : Primary(f)' => Primary(f), aborted \subseteq aborted',
           controllers' \subseteq controllers, \A f \in controllers \ controllers' : reqPc'[f] = "done",
           \A v \in Objects : taskState'[v] \in Terminal => taskState[v] \in Terminal \/ v # cached
    PROVE  CacheInv'
<1> USE DEF CacheInv
<1>1. EmptyWhileLoading' /\ CacheFresh' BY DEF EmptyWhileLoading, CacheFresh
<1>2. AwakenedFind' BY DEF AwakenedFind, Ready, MainLoop
<1>3. Reached' BY DEF Reached, UnderWay, Primary, MainLoop
<1>4. WorksOnCached' BY DEF WorksOnCached, LoopInv, A2aTypeOK, Primary, MainLoop
<1> QED BY <1>1, <1>2, <1>3, <1>4

\* A loop that closes evicts its object only if no other loop works on it.
LEMMA CloseLeaves ==
    ASSUME LoopInv, CacheInv, NEW e \in Requests, reqPc[e] \in MainLoop, NEW state \in States, NEW w,
           NEW pc \in {reqPc, WakeOf(w, reqPc)}, Close(e, state, pc), \A f \in Requests : ~Ready(f),
           \/ state \notin Terminal
           \/ e \notin aborted
           \/ state = taskState[reqTask[e]]
    PROVE  CacheInv'
<1> USE DEF LoopInv, CacheInv
<1>1. /\ pc \in [Requests -> ReqPcs]
      /\ \A f \in Requests : pc[f] = reqPc[f] \/ (reqPc[f] = "tools" /\ pc[f] = "woken")
  BY WakeStep DEF A2aTypeOK, ReqPcs
<1>2. /\ \/ reqTask[e] = cached /\ cached # NoTask /\ cached' = NoTask /\ disposed' = disposed \cup {cached}
            /\ state \in Terminal
         \/ cached' = cached /\ disposed' = disposed
            /\ (state \in Terminal => reqTask[e] # cached \/ cached = NoTask)
  BY EvictStep DEF Close
<1>3. EmptyWhileLoading' /\ CacheFresh'
  BY <1>2, CloseStep, <1>1 DEF EmptyWhileLoading, CacheFresh, A2aTypeOK, Objects, NoTask
<1>4. AwakenedFind'
  BY <1>1, CloseStep DEF AwakenedFind, Ready
<1>5. Reached'
  BY <1>1, CloseStep DEF Reached, UnderWay, MainLoop
<1>6. WorksOnCached'
  <2> SUFFICES ASSUME NEW f \in Requests, Primary(f)', f \notin aborted'
               PROVE  reqTask'[f] = cached' /\ cached' # NoTask /\ taskState'[cached'] \notin Terminal
    BY DEF WorksOnCached
  <2>1. f # e /\ Primary(f) /\ f \notin aborted
    BY <1>1, CloseStep DEF Primary, MainLoop
  <2>2. reqTask[f] = cached /\ cached # NoTask /\ taskState[cached] \notin Terminal /\ executing = f
    BY <2>1 DEF WorksOnCached, Registered
  <2>3. e \in aborted
    BY <2>1, <2>2 DEF Registered, Primary
  <2>4. state \notin Terminal \/ reqTask[e] # cached
    BY <2>2, <2>3
  <2>5. cached' = cached
    BY <1>2, <2>2, <2>4
  <2>6. cached \in Objects
    BY <2>2 DEF A2aTypeOK
  <2>7. taskState'[cached] \notin Terminal
    BY <1>1, <2>2, <2>4, <2>6, CloseStep
  <2>8. reqTask'[f] = reqTask[f]
    BY <1>1, <2>1, CloseStep
  <2> QED BY <2>2, <2>5, <2>7, <2>8
<1> QED BY <1>3, <1>4, <1>5, <1>6

\* The loops work, and wait for their tools.
LEMMA LoopsLeave ==
    ASSUME LoopInv, CacheInv, NEW e \in Requests, \A f \in Requests : ~Ready(f),
           AgentTurn(e) \/ Register(e) \/ TurnThrows(e) \/ Wake(e) \/ Depart(e)
    PROVE  CacheInv'
<1> USE DEF LoopInv
<1>1. CASE AgentTurn(e)
  <2>1. PICK pc \in {"scheduling", "tools", "woken"} : reqPc' = [reqPc EXCEPT ![e] = pc]
    BY <1>1 DEF AgentTurn, Waiting
  <2> QED BY <1>1, <2>1, StayKeeps DEF AgentTurn, A2aTypeOK, Primary, MainLoop
<1>2. CASE Register(e)
  <2>1. PICK pc \in {"tools", "woken"} : reqPc' = [reqPc EXCEPT ![e] = pc]
    BY <1>2 DEF Register
  <2>2. \A v \in Objects : taskState'[v] \in Terminal => taskState[v] \in Terminal
    BY <1>2 DEF Register, A2aTypeOK, Terminal
  <2> QED BY <1>2, <2>1, <2>2, StayKeeps DEF Register, A2aTypeOK, Primary, MainLoop
<1>4. ASSUME Unwind(e), reqPc[e] \in MainLoop PROVE CacheInv'
  <2>1. PICK state \in States :
          /\ Close(e, state, WakeOf(reqTask[e], reqPc))
          /\ e \in aborted /\ state \in Terminal => state = taskState[reqTask[e]]
    BY <1>4, UnwindStep
  <2> QED BY <1>4, <2>1, CloseLeaves
<1>5. CASE TurnThrows(e)
  BY <1>4, <1>5 DEF TurnThrows, MainLoop
<1>6. CASE Wake(e)
  <2>0. reqPc[e] = "woken" /\ reqPc[e] \in MainLoop BY <1>6 DEF Wake, MainLoop
  <2>1. CASE e \in aborted \/ cancellationError[reqTask[e]]
    BY <1>4, <1>6, <2>0, <2>1 DEF Wake
  <2>2. CASE Close(e, "input-required", reqPc)
    BY <2>0, <2>2, CloseLeaves DEF States, Terminal
  <2>3. CASE /\ reqPc' = [reqPc EXCEPT ![e] = "turn"]
             /\ UNCHANGED <<controllers, executing, taskState, cached, disposed,
                            loads, initializing, aborted, explicitly, reqTask>>
    BY <2>0, <2>3, StayKeeps DEF A2aTypeOK, Primary, MainLoop
  <2> QED BY <1>6, <2>1, <2>2, <2>3 DEF Wake
<1>7. CASE Depart(e)
  <2>1. reqPc[e] # "evicting" BY DEF CacheInv, Reached
  <2>2. /\ reqPc' = [reqPc EXCEPT ![e] = "done"] /\ reqTask' = [reqTask EXCEPT ![e] = NoTask]
        /\ controllers' = controllers \ {e}
    BY <1>7 DEF Depart, Leave
  <2> QED BY <1>7, <2>1, <2>2, StayKeeps DEF Depart, A2aTypeOK, Primary, MainLoop
<1> QED BY <1>1, <1>2, <1>5, <1>6, <1>7

\* Batches leave the cache alone.
LEMMA BatchesLeave ==
    ASSUME LoopInv, CacheInv, NEW w \in Objects, BatchAsks(w) \/ BatchEnds(w)
    PROVE  CacheInv'
  BY BatchStep, StayKeeps DEF LoopInv, Primary, MainLoop

\* A client goes away, or the task is cancelled: every request with a
\* controller is aborted, and no loop goes on with the evicted object.
LEMMA AbortsLeave ==
    ASSUME LoopInv, CacheInv, ~CancelsLoading, \A f \in Requests : ~Ready(f),
           CancelTask \/ \E e \in Requests : Disconnect(e)
    PROVE  CacheInv'
<1> USE DEF LoopInv, CacheInv
<1>1. ASSUME NEW e \in Requests, Disconnect(e) PROVE CacheInv'
  BY <1>1, StayKeeps DEF Disconnect, Abort, Primary
<1>2. CASE CancelTask
  <2>1. \A f \in Requests : reqPc'[f] = reqPc[f] \/ (reqPc[f] = "tools" /\ reqPc'[f] = "woken")
    BY <1>2, WakeStep DEF CancelTask
  <2>2. initializing = NoRequest /\ UNCHANGED <<loads, initializing, controllers, reqTask>>
        /\ aborted' = aborted \cup controllers
        /\ explicitly' = explicitly \cup {e \in controllers : reqPc[e] \in {"loading", "waiting"}}
    BY <1>2 DEF CancelTask, Abort
  <2>3. \A f \in Requests : reqPc[f] \notin {"loading", "waiting"}
    BY <2>2, A2aConstants DEF OneLoads, Ready, A2aConstants
  <2>4. \/ cached' = NoTask /\ disposed' = disposed \cup {cached} /\ cached # NoTask
        \/ cached' = cached /\ disposed' = disposed
    BY <1>2, EvictStep DEF CancelTask
  <2>5. EmptyWhileLoading' /\ CacheFresh'
    <3>1. cached \in Nat BY DEF A2aTypeOK, NoTask, Objects
    <3>2. cached # NoTask => cached \in 1 .. loads
      BY <3>1 DEF CacheFresh, NoTask
    <3>3. EmptyWhileLoading' BY <2>2 DEF EmptyWhileLoading
    <3>4. disposed' \subseteq 1 .. loads' BY <2>2, <2>4, <3>2 DEF CacheFresh
    <3>5. cached' <= loads' /\ (cached' # NoTask => cached' \notin disposed')
      BY <2>2, <2>4, <3>1 DEF CacheFresh, NoTask
    <3> QED BY <2>2, <3>3, <3>4, <3>5 DEF CacheFresh
  <2>6. AwakenedFind'
    BY <2>1, <2>2, <2>3 DEF AwakenedFind, Ready
  <2>7. Reached'
    BY <2>1, <2>2, <2>3, A2aConstants DEF A2aTypeOK, Reached, UnderWay
  <2>8. WorksOnCached'
    BY <2>1, <2>2 DEF WorksOnCached, Reached, UnderWay, Primary, MainLoop
  <2> QED BY <2>5, <2>6, <2>7, <2>8
<1> QED BY <1>1, <1>2

\* Every step keeps the invariant.
LEMMA CacheInvStep ==
    ASSUME LoopInv, LoopInv', CacheInv, ~CancelsLoading, [A2aNext]_taskVars
    PROVE  CacheInv'
<1>1. CASE UNCHANGED taskVars
  BY <1>1 DEF taskVars, schedulerVars, CacheInv, EmptyWhileLoading, CacheFresh, AwakenedFind, Reached, WorksOnCached,
              Ready, UnderWay, Primary
<1>2. CASE \E e \in Requests : Awake(e)
  BY <1>2, EntriesFind
<1>3. CASE /\ \A e \in Requests : ~Ready(e)
           /\ \E e \in Requests : Execute(e) \/ Advance(e)
  BY <1>3, EntriesFind, LoopsLeave DEF Advance
<1>5. CASE \E w \in Objects : BatchAsks(w) \/ BatchEnds(w)
  BY <1>5, BatchesLeave
<1>4. CASE /\ \A e \in Requests : ~Ready(e)
           /\ CancelTask \/ \E e \in Requests : Disconnect(e)
  BY <1>4, AbortsLeave
<1> QED BY <1>1, <1>2, <1>3, <1>4, <1>5 DEF A2aNext

\* executor.test.ts: the loop of a new request keeps the object it works on, if
\* the task is not cancelled while it is loaded.
THEOREM LoopsKeepTask == ASSUME ~CancelsLoading PROVE A2aSpec => []NotEvicted
<1>1. LoopInv /\ CacheInv => NotEvicted
  BY DEF CacheInv, CacheFresh, WorksOnCached, NotEvicted
<1>2. LoopInv /\ LoopInv' /\ CacheInv /\ [A2aNext]_taskVars => CacheInv'
  BY CacheInvStep
<1> QED BY <1>1, <1>2, CacheInvInit, LoopInvariant, PTL DEF A2aSpec
=============================================================================
