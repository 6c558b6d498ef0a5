-------------------------- MODULE FileEditsProofs --------------------------
(***************************************************************************)
(* Theorems of FileEdits for every set of callers, paths and files: the    *)
(* lock is exclusive and fair, and no edit is lost. The inductive          *)
(* invariant is IInv of FileEditsInvariant.                                *)
(***************************************************************************)
EXTENDS FileEditsInvariant, TLAPS

\* Steps of withPathLock
LockNext ==
    \E c \in Callers :
      Lock(c) \/ LockRejected(c) \/ Abort(c) \/ Enter(c) \/ Leave(c) \/ Pass(c)

LockType ==
    /\ chain \in [Keys -> Callers \cup {NoCaller}]
    /\ previous \in [Callers -> Callers \cup {NoCaller}]
    /\ pc \in [Callers -> {"new", "rejected", "waiting", "running", "leaving", "left", "quit"}]
    /\ aborted \subseteq Callers /\ told \subseteq Callers
    /\ arrival \in [Callers -> Nat] /\ clock \in Nat

\* The first in line for a path is alone in having its turn, so callers that
\* run under one path are the same.
LEMMA OneTurn ==
    ASSUME LockType, LockInv,
           NEW c \in InLine, NEW d \in InLine, SameLine(c, d), Turn(c), Turn(d)
    PROVE  c = d
<1>1. arrival[c] <= arrival[d] /\ arrival[d] <= arrival[c]
  BY DEF LockInv, FirstServed, SameLine
<1>2. arrival[c] = arrival[d]
  BY <1>1 DEF LockType, InLine
<1> QED
  BY <1>2 DEF LockInv, Arrivals, InLine

\* The lock is exclusive in every state of its invariant.
LEMMA ExclusionFromInv ==
    ASSUME LockType, LockInv PROVE Exclusion
<1> SUFFICES ASSUME NEW c \in Callers, NEW d \in Callers,
                    pc[c] = "running", pc[d] = "running", KeyOf[c] = KeyOf[d]
             PROVE  c = d
  BY DEF Exclusion
<1>1. c \in InLine /\ d \in InLine
  BY DEF InLine
<1>2. SameLine(c, d) /\ Turn(c) /\ Turn(d)
  BY <1>1 DEF SameLine, LockInv, RunningHasTurn
<1> QED
  BY <1>1, <1>2, OneTurn

-----------------------------------------------------------------------------
\* A caller that joins is the last in line: its arrival is later than all
\* others, and it waits for the caller that was last.
LEMMA LockStep ==
    ASSUME LockConstants, LockType, LockInv, NEW c \in Callers, Lock(c)
    PROVE  LockType' /\ LockInv'
<1> DEFINE k == KeyOf[c]
<1> USE DEF LockType, Lock
<1>0. k \in Keys /\ NoCaller \notin Callers
  BY DEF LockConstants
<1>1. LockType'
  BY <1>0
<1>2. /\ InLine' = InLine \cup {c} /\ c \notin InLine
      /\ Released' = Released /\ c \notin Released
  BY DEF InLine, Released
<1>3. /\ previous'[c] = chain[k] /\ arrival'[c] = clock
      /\ \A d \in Callers : d # c =>
           previous'[d] = previous[d] /\ arrival'[d] = arrival[d] /\ pc'[d] = pc[d]
  OBVIOUS
<1>4. \A d \in InLine : arrival[d] < clock /\ d # c
  BY <1>2 DEF LockInv, Arrivals, InLine
<1>5. \A d \in Callers : d # c => (Turn(d)' <=> Turn(d))
  BY <1>2, <1>3 DEF Turn
<1>6. chain[k] \in InLine \cup {NoCaller}
  BY <1>0 DEF LockInv, LastInMap
<1>7. Turn(c)' <=> chain[k] = NoCaller
  BY <1>0, <1>2, <1>3, <1>6 DEF Turn, InLine, Released
<1>8. Arrivals'
  BY <1>1, <1>3 DEF LockInv, Arrivals
<1>9. Predecessor'
  <2> SUFFICES ASSUME NEW d \in InLine', ~Turn(d)'
               PROVE  /\ SameLine(d, previous[d])' /\ arrival'[previous'[d]] < arrival'[d]
                      /\ \A e \in InLine' :
                           SameLine(d, e)' /\ arrival'[e] < arrival'[d]
                           => arrival'[e] <= arrival'[previous'[d]]
    BY DEF Predecessor
  <2>1. CASE d = c
    <3>1. chain[k] \in InLine /\ KeyOf[chain[k]] = k
      BY <1>0, <1>6, <1>7, <2>1 DEF LockInv, LastInMap
    <3>2. \A e \in InLine : KeyOf[e] = k => arrival[e] <= arrival[chain[k]]
      BY <1>0, <3>1 DEF LockInv, LastInMap, InLine
    <3>3. \A e \in InLine' : e # c => e \in InLine /\ e \in Callers
      BY <1>2 DEF InLine
    <3> QED
      BY <1>2, <1>3, <1>4, <2>1, <3>1, <3>2, <3>3 DEF SameLine, InLine
  <2>2. CASE d # c
    <3>1. d \in InLine /\ d \in Callers /\ ~Turn(d)
      BY <1>2, <1>5, <2>2 DEF InLine
    <3>2. /\ SameLine(d, previous[d]) /\ arrival[previous[d]] < arrival[d]
          /\ \A e \in InLine : SameLine(d, e) /\ arrival[e] < arrival[d]
                              => arrival[e] <= arrival[previous[d]]
      BY <3>1 DEF LockInv, Predecessor
    <3>3. previous'[d] = previous[d] /\ previous[d] # c /\ arrival'[previous[d]] = arrival[previous[d]]
      BY <1>2, <1>3, <2>2, <3>1, <3>2 DEF SameLine, InLine
    <3>4. ~(arrival'[c] < arrival'[d])
      BY <1>3, <1>4, <2>2, <3>1
    <3> QED
      BY <1>2, <1>3, <2>2, <3>1, <3>2, <3>3, <3>4 DEF SameLine, InLine
  <2> QED
    BY <2>1, <2>2
<1>10. FirstServed'
  <2> SUFFICES ASSUME NEW d \in InLine', NEW e \in InLine', SameLine(d, e)', Turn(d)'
               PROVE  arrival'[d] <= arrival'[e]
    BY DEF FirstServed
  <2>1. CASE d # c /\ e # c
    BY <1>2, <1>3, <1>5, <2>1 DEF LockInv, FirstServed, SameLine, InLine
  <2>2. CASE d # c /\ e = c
    BY <1>2, <1>3, <1>4, <2>2 DEF InLine
  <2>3. CASE d = c /\ e # c
    BY <1>0, <1>2, <1>7, <2>3 DEF LockInv, NoLeak, SameLine, InLine
  <2>4. CASE d = c /\ e = c
    BY <1>3, <2>4
  <2> QED
    BY <2>1, <2>2, <2>3, <2>4
<1>11. LastInMap'
  <2> SUFFICES ASSUME NEW j \in Keys, chain'[j] # NoCaller
               PROVE  /\ chain'[j] \in InLine' /\ KeyOf[chain'[j]] = j
                      /\ \A e \in InLine' : KeyOf[e] = j => arrival'[e] <= arrival'[chain'[j]]
    BY DEF LastInMap
  <2>1. CASE j = k
    BY <1>0, <1>2, <1>3, <1>4, <2>1 DEF InLine
  <2>2. CASE j # k
    <3>1. chain'[j] = chain[j]
      BY <2>2
    <3>2. chain[j] \in InLine /\ KeyOf[chain[j]] = j /\ chain[j] # c
      BY <3>1, <2>2 DEF LockInv, LastInMap
    <3> QED
      BY <1>2, <1>3, <2>2, <3>1, <3>2 DEF LockInv, LastInMap, InLine
  <2> QED
    BY <2>1, <2>2
<1>12. NoLeak'
  <2> SUFFICES ASSUME NEW j \in Keys
               PROVE  chain'[j] = NoCaller <=> \A d \in InLine' : KeyOf[d] # j
    BY DEF NoLeak
  <2>1. CASE j = k
    BY <1>0, <1>2, <2>1
  <2>2. CASE j # k
    BY <1>2, <2>2 DEF LockInv, NoLeak
  <2> QED
    BY <2>1, <2>2
<1>13. RunningHasTurn'
  BY <1>3, <1>5 DEF LockInv, RunningHasTurn
<1> QED
  BY <1>1, <1>8, <1>9, <1>10, <1>11, <1>12, <1>13 DEF LockInv

\* A caller that leaves the line was its first: only the next one gets its turn.
LEMMA DepartStep ==
    ASSUME LockConstants, LockType, LockInv, NEW c \in InLine, Turn(c),
           NEW s \in {"left", "quit"}, pc' = [pc EXCEPT ![c] = s],
           chain' = Cleaned(c), UNCHANGED <<previous, aborted, told, arrival, clock>>
    PROVE  LockType' /\ LockInv'
<1> DEFINE k == KeyOf[c]
<1> USE DEF LockType
<1>0. k \in Keys /\ NoCaller \notin Callers /\ c \in Callers
  BY DEF LockConstants, InLine
<1>1. LockType'
  BY <1>0 DEF Cleaned
<1>2. /\ InLine' = InLine \ {c} /\ c \notin Released
      /\ Released' = Released \cup {c}
  BY <1>0 DEF InLine, Released
<1>3. \A d \in Callers : Turn(d)' <=> Turn(d) \/ previous[d] = c
  BY <1>2 DEF Turn
<1>4. \A d \in InLine : SameLine(c, d) => arrival[c] <= arrival[d]
  BY DEF LockInv, FirstServed
<1>5. Arrivals'
  BY <1>0 DEF LockInv, Arrivals, InLine
<1>6. Predecessor'
  <2> SUFFICES ASSUME NEW d \in InLine', ~Turn(d)'
               PROVE  /\ SameLine(d, previous[d])' /\ arrival[previous[d]] < arrival[d]
                      /\ \A e \in InLine' : SameLine(d, e)' /\ arrival[e] < arrival[d]
                           => arrival[e] <= arrival[previous[d]]
    BY DEF Predecessor
  <2>1. d \in InLine /\ d \in Callers /\ ~Turn(d) /\ previous[d] # c
    BY <1>2, <1>3 DEF InLine
  <2> QED
    BY <1>2, <2>1 DEF LockInv, Predecessor, SameLine
<1>7. FirstServed'
  <2> SUFFICES ASSUME NEW d \in InLine', NEW e \in InLine', SameLine(d, e)', Turn(d)'
               PROVE  arrival[d] <= arrival[e]
    BY DEF FirstServed
  <2>1. d \in InLine /\ e \in InLine /\ SameLine(d, e) /\ d # c /\ e # c
        /\ d \in Callers /\ e \in Callers
    BY <1>2 DEF SameLine, InLine
  <2>2. CASE Turn(d)
    BY <2>1, <2>2 DEF LockInv, FirstServed
  <2>3. CASE ~Turn(d)
    <3>1. previous[d] = c /\ SameLine(d, c)
      BY <1>3, <2>1, <2>3 DEF LockInv, Predecessor
    <3>2. arrival[e] < arrival[d] => arrival[e] <= arrival[c]
      BY <2>1, <2>3, <3>1 DEF LockInv, Predecessor
    <3>3. arrival[c] <= arrival[e]
      BY <1>4, <2>1, <3>1 DEF SameLine
    <3>4. arrival[c] # arrival[e]
      BY <1>0, <2>1 DEF LockInv, Arrivals, InLine
    <3> QED
      BY <1>0, <2>1, <3>2, <3>3, <3>4
  <2> QED
    BY <2>2, <2>3
<1>8. LastInMap' /\ NoLeak'
  <2> SUFFICES ASSUME NEW j \in Keys
               PROVE  /\ chain'[j] # NoCaller =>
                           /\ chain'[j] \in InLine' /\ KeyOf[chain'[j]] = j
                           /\ \A e \in InLine' : KeyOf[e] = j => arrival[e] <= arrival[chain'[j]]
                      /\ chain'[j] = NoCaller <=> \A d \in InLine' : KeyOf[d] # j
    BY DEF LastInMap, NoLeak
  <2>1. CASE j # k
    <3>1. chain'[j] = chain[j]
      BY <1>0, <2>1 DEF Cleaned
    <3> QED
      BY <1>2, <2>1, <3>1 DEF LockInv, LastInMap, NoLeak
  <2>2. CASE j = k /\ chain[k] = c
    <3>1. chain'[j] = NoCaller
      BY <1>0, <2>2 DEF Cleaned
    <3>2. \A d \in InLine : KeyOf[d] = k => d = c
      <4> SUFFICES ASSUME NEW d \in InLine, KeyOf[d] = k PROVE d = c
        OBVIOUS
      <4>1. arrival[d] <= arrival[c]
        BY <1>0, <2>2 DEF LockInv, LastInMap
      <4>2. arrival[c] <= arrival[d]
        BY <1>4 DEF SameLine
      <4>3. d \in Callers
        BY DEF InLine
      <4> QED
        BY <1>0, <4>1, <4>2, <4>3 DEF LockInv, Arrivals, InLine
    <3> QED
      BY <1>2, <2>2, <3>1, <3>2
  <2>3. CASE j = k /\ chain[k] # c
    <3>1. chain'[j] = chain[j]
      BY <1>0, <2>3 DEF Cleaned
    <3>2. chain[k] # NoCaller
      BY <1>0 DEF LockInv, NoLeak
    <3>3. chain[k] \in InLine' /\ KeyOf[chain[k]] = k
      BY <1>0, <1>2, <2>3, <3>2 DEF LockInv, LastInMap
    <3> QED
      BY <1>0, <1>2, <2>3, <3>1, <3>2, <3>3 DEF LockInv, LastInMap
  <2> QED
    BY <2>1, <2>2, <2>3
<1>9. RunningHasTurn'
  BY <1>0, <1>3 DEF LockInv, RunningHasTurn
<1> QED
  BY <1>1, <1>5, <1>6, <1>7, <1>8, <1>9 DEF LockInv

\* Enter, Abort and LockRejected leave the line as it is.
LEMMA StillStep ==
    ASSUME LockType, LockInv, NEW c \in Callers,
           Enter(c) \/ Abort(c) \/ LockRejected(c)
    PROVE  LockType' /\ LockInv'
<1> USE DEF LockType
<1>1. LockType'
  BY DEF Enter, Abort, LockRejected
<1>2. /\ InLine' = InLine /\ Released' = Released
      /\ chain' = chain /\ previous' = previous
      /\ arrival' = arrival /\ clock' = clock
  BY DEF Enter, MayEnter, Abort, LockRejected, InLine, Released
<1>3. \A d \in Callers : Turn(d)' <=> Turn(d)
  BY <1>2 DEF Turn
<1>4. /\ \A d \in Callers : d # c => pc'[d] = pc[d]
      /\ \/ pc'[c] = pc[c]
         \/ pc[c] = "waiting" /\ pc'[c] = "running" /\ Turn(c)
         \/ pc[c] = "waiting" /\ pc'[c] = "leaving"
         \/ pc[c] = "new" /\ pc'[c] = "rejected"
  <2>1. CASE Enter(c)
    BY <2>1 DEF Enter, MayEnter
  <2>2. CASE Abort(c)
    BY <2>2 DEF Abort
  <2>3. CASE LockRejected(c)
    BY <2>3 DEF LockRejected
  <2> QED
    BY <2>1, <2>2, <2>3
<1>5. Arrivals'
  <2>1. \A d \in Callers : pc'[d] \notin {"new", "rejected"} => pc[d] \notin {"new", "rejected"}
    BY <1>4
  <2> QED
    BY <1>2, <2>1 DEF LockInv, Arrivals
<1>6. Predecessor' /\ FirstServed'
  BY <1>2, <1>3 DEF LockInv, Predecessor, FirstServed, SameLine, InLine
<1>7. LastInMap' /\ NoLeak'
  BY <1>2 DEF LockInv, LastInMap, NoLeak
<1>8. RunningHasTurn'
  BY <1>3, <1>4 DEF LockInv, RunningHasTurn
<1> QED
  BY <1>1, <1>5, <1>6, <1>7, <1>8 DEF LockInv

\* The steps of withPathLock preserve its invariant, whatever fn does.
LEMMA LockPreserved ==
    ASSUME LockConstants, LockType, LockInv, LockNext
    PROVE  LockType' /\ LockInv'
<1> PICK c \in Callers :
      Lock(c) \/ LockRejected(c) \/ Abort(c) \/ Enter(c) \/ Leave(c) \/ Pass(c)
  BY DEF LockNext
<1>1. CASE Lock(c)
  BY <1>1, LockStep
<1>2. CASE LockRejected(c) \/ Abort(c) \/ Enter(c)
  BY <1>2, StillStep
<1>3. CASE Leave(c)
  <2>1. c \in InLine /\ Turn(c)
    BY <1>3 DEF Leave, InLine, LockInv, RunningHasTurn
  <2> QED
    BY <1>3, <2>1, DepartStep DEF Leave
<1>4. CASE Pass(c)
  <2>1. c \in InLine /\ Turn(c)
    BY <1>4 DEF Pass, MayPass, InLine
  <2> QED
    BY <1>4, <2>1, DepartStep DEF Pass
<1> QED
  BY <1>1, <1>2, <1>3, <1>4

\* Steps that leave the lock alone preserve its invariant.
LEMMA LockUntouched ==
    ASSUME LockInv, UNCHANGED lockVars PROVE LockInv'
BY DEF LockInv, lockVars, Arrivals, Predecessor, FirstServed, LastInMap, NoLeak,
       RunningHasTurn, SameLine, InLine, Turn, Released

\* Two calls inside their critical sections that share a file of one name are
\* the same call.
LEMMA SoleEditor ==
    ASSUME LockConstants, FileConstants, IInv, NEW c \in Callers, NEW d \in Callers,
           stage[c] \in {"reading", "computed", "writing"},
           stage[d] \in {"reading", "computed", "writing"},
           FileOf[c] = FileOf[d], FileOf[c] \notin HardLinked
    PROVE  c = d
<1>1. pc[c] = "running" /\ pc[d] = "running"
  BY DEF IInv, Sections
<1>2. KeyOf[c] = KeyOf[d]
  BY DEF FileConstants
<1>3. Exclusion
  BY ExclusionFromInv DEF IInv, TypeOK, LockType
<1> QED
  BY <1>1, <1>2, <1>3 DEF Exclusion

\* What IInv says of the files, apart from the lock
FileInv == Sections /\ ToldWaited /\ FreshBase /\ Changes /\ NoLostEdit /\ CreatedOnce

FileType ==
    /\ state \in [Files -> {"absent", "whole", "torn"}]
    /\ marks \in [Files -> SUBSET Callers]
    /\ stage \in [Callers -> {"outside", "reading", "computed", "writing", "done"}]
    /\ base \in [Callers -> SUBSET Callers]
    /\ outcome \in [Callers -> {"none", "error", "success"}]
    /\ overwritten \subseteq Callers

LEMMA InvParts == IInv <=> LockType /\ FileType /\ LockInv /\ FileInv
BY DEF IInv, TypeOK, LockType, FileType, FileInv

\* Waiting, being told and giving up a place touch no file.
LEMMA WaitStep ==
    ASSUME IInv, NEW c \in Callers, Wait(c)
    PROVE  FileType' /\ FileInv'
<1>1. UNCHANGED fileVars
  BY DEF Wait
<1>2. FileType'
  BY <1>1 DEF fileVars, FileType, IInv, TypeOK
<1>3. /\ \A d \in Callers : d # c => pc'[d] = pc[d]
      /\ \/ pc'[c] = pc[c]
         \/ pc[c] \in {"new", "waiting", "leaving"} /\ pc'[c] \in {"waiting", "rejected", "leaving", "quit"}
  BY DEF Wait, Lock, LockRejected, Abort, Pass, IInv, TypeOK
<1>4. Sections'
  BY <1>1, <1>3 DEF fileVars, IInv, Sections
<1>5. ToldWaited'
  <2>1. CASE Lock(c)
    BY <2>1 DEF Lock, ToldWaited, IInv, TypeOK
  <2>2. CASE LockRejected(c)
    BY <2>2 DEF LockRejected, ToldWaited, IInv, TypeOK
  <2>3. CASE Abort(c)
    BY <2>3 DEF Abort, ToldWaited, IInv, TypeOK
  <2>4. CASE Pass(c)
    BY <2>4 DEF Pass, ToldWaited, IInv, TypeOK
  <2> QED
    BY <2>1, <2>2, <2>3, <2>4 DEF Wait
<1>6. FreshBase' /\ Changes'
  BY <1>1 DEF fileVars, IInv, FreshBase, Changes
<1>7. NoLostEdit' /\ CreatedOnce'
  BY <1>1 DEF fileVars, IInv, NoLostEdit, Lost, CreatedOnce
<1> QED
  BY <1>2, <1>4, <1>5, <1>6, <1>7 DEF FileInv

\* The critical section starts before anything is read.
LEMMA BeginStep ==
    ASSUME IInv, NEW c \in Callers, Begin(c)
    PROVE  FileType' /\ FileInv'
<1> USE DEF IInv, TypeOK, Begin, Enter, MayEnter
<1>1. FileType'
  BY DEF FileType
<1>2. stage[c] = "outside" /\ c \notin told
  BY DEF Sections, ToldWaited
<1>3. Sections' /\ ToldWaited'
  BY <1>2 DEF Sections, ToldWaited
<1>4. FreshBase' /\ Changes'
  BY <1>2 DEF FreshBase, Changes
<1>5. NoLostEdit' /\ CreatedOnce'
  BY DEF NoLostEdit, Lost, CreatedOnce
<1> QED
  BY <1>1, <1>3, <1>4, <1>5 DEF FileInv

LEMMA ComputeStep ==
    ASSUME FileConstants, IInv, NEW c \in Callers, Compute(c)
    PROVE  FileType' /\ FileInv'
<1> USE DEF IInv, TypeOK, Compute, At, lockVars
<1>1. FileType'
  BY DEF FileType, FileConstants
<1>2. Sections' /\ ToldWaited'
  BY DEF Sections, ToldWaited
<1>3. FreshBase'
  BY DEF FreshBase, Applicable, FileConstants
<1>4. Changes'
  BY DEF Changes, FileConstants
<1>5. NoLostEdit' /\ CreatedOnce'
  BY DEF NoLostEdit, Lost, CreatedOnce
<1> QED
  BY <1>1, <1>2, <1>3, <1>4, <1>5 DEF FileInv

\* A call that fails leaves the file as it is.
LEMMA FailStep ==
    ASSUME IInv, NEW c \in Callers, GiveUp(c) \/ WriteFails(c)
    PROVE  FileType' /\ FileInv'
<1>1. /\ stage[c] \in {"reading", "computed", "writing"}
      /\ stage' = [stage EXCEPT ![c] = "done"]
      /\ outcome' = [outcome EXCEPT ![c] = "error"]
      /\ UNCHANGED <<lockVars, state, marks, base, overwritten>>
  BY DEF GiveUp, WriteFails, At, Fails
<1> USE <1>1 DEF IInv, TypeOK, lockVars
<1>2. FileType'
  BY DEF FileType
<1>3. Sections' /\ ToldWaited'
  BY DEF Sections, ToldWaited
<1>4. FreshBase' /\ Changes'
  BY DEF FreshBase, Changes
<1>5. NoLostEdit' /\ CreatedOnce'
  BY DEF NoLostEdit, Lost, CreatedOnce
<1> QED
  BY <1>2, <1>3, <1>4, <1>5 DEF FileInv

\* Only a file of several names is touched before its new content is complete.
LEMMA StartStep ==
    ASSUME FileConstants, IInv, NEW c \in Callers, StartWrite(c)
    PROVE  FileType' /\ FileInv'
<1> USE DEF IInv, TypeOK, StartWrite, At, lockVars, InPlace
<1>1. FileOf[c] \in Files /\ \A d \in Callers : FileOf[d] \in Files
  BY DEF FileConstants
<1>2. \A f \in Files : \/ state'[f] = state[f] /\ marks'[f] = marks[f]
                       \/ f \in HardLinked /\ state'[f] = "torn" /\ marks'[f] = {}
  BY <1>1
<1>3. FileType'
  BY DEF FileType
<1>4. Sections' /\ ToldWaited'
  BY DEF Sections, ToldWaited
<1>5. FreshBase'
  BY <1>1, <1>2 DEF FreshBase
<1>6. Changes'
  BY <1>1, <1>2 DEF Changes
<1>7. NoLostEdit' /\ CreatedOnce'
  BY <1>1, <1>2 DEF NoLostEdit, Lost, CreatedOnce
<1> QED
  BY <1>3, <1>4, <1>5, <1>6, <1>7 DEF FileInv

\* The new content keeps what the file held: nobody else wrote it since it was
\* read.
LEMMA FinishStep ==
    ASSUME LockConstants, FileConstants, IInv, NEW c \in Callers, FinishWrite(c)
    PROVE  FileType' /\ FileInv'
<1> DEFINE f == FileOf[c]
<1> USE DEF IInv, TypeOK, FinishWrite, At, lockVars
<1>1. f \in Files /\ \A d \in Callers : FileOf[d] \in Files
  BY DEF FileConstants
<1>2. PICK r \in {"success", "error"} : outcome' = [outcome EXCEPT ![c] = r]
  OBVIOUS
<1>3. /\ stage[c] = "writing" /\ stage' = [stage EXCEPT ![c] = "done"]
      /\ \A d \in Callers : d # c => outcome'[d] = outcome[d] /\ stage'[d] = stage[d]
      /\ \A g \in Files : g # f => state'[g] = state[g] /\ marks'[g] = marks[g]
      /\ state'[f] = "whole" /\ marks'[f] = Written(c)
  BY <1>1, <1>2
<1>4. FileType'
  BY <1>1, <1>2 DEF FileType, Written
<1>5. Sections' /\ ToldWaited'
  BY DEF Sections, ToldWaited
<1>6. FreshBase'
  <2> SUFFICES ASSUME NEW d \in Callers, stage'[d] \in {"computed", "writing"},
                      FileOf[d] \notin HardLinked
               PROVE  /\ base'[d] = marks'[FileOf[d]]
                      /\ d \in Creators => state'[FileOf[d]] = "absent"
    BY DEF FreshBase
  <2>1. d # c /\ stage[d] \in {"computed", "writing"}
    BY <1>3
  <2>2. FileOf[d] # f
    BY <1>3, <2>1, SoleEditor
  <2> QED
    BY <1>1, <1>3, <2>1, <2>2 DEF FreshBase
<1>7. Changes'
  <2>1. \A d \in Callers : stage[d] = "done" => stage'[d] = "done"
    BY <1>3
  <2>2. \A d \in Written(c) : d \in Callers /\ stage'[d] = "done"
    BY <1>3, <2>1 DEF Written, Changes
  <2>3. \A d \in Callers : outcome'[d] = "success" => state'[FileOf[d]] # "absent"
    BY <1>1, <1>2, <1>3 DEF Changes
  <2> QED
    BY <1>1, <1>3, <2>1, <2>2, <2>3 DEF Changes
<1>8. NoLostEdit'
  <2> SUFFICES ASSUME NEW d \in Callers, Lost(d)', FileOf[d] \notin HardLinked
               PROVE  FALSE
    BY DEF NoLostEdit
  <2>1. d # c
    BY <1>1, <1>3 DEF Lost, Written
  <2>2. outcome[d] = "success" /\ state[FileOf[d]] # "torn"
    BY <1>1, <1>3, <2>1 DEF Lost, Changes
  <2>3. d \in marks[FileOf[d]] \cup overwritten
    BY <2>2 DEF NoLostEdit, Lost
  <2>4. overwritten \subseteq overwritten'
    OBVIOUS
  <2>5. CASE FileOf[d] # f
    BY <1>1, <1>3, <2>3, <2>4, <2>5 DEF Lost
  <2>6. CASE FileOf[d] = f
    <3>1. base[c] = marks[f]
      BY <1>3, <2>6 DEF FreshBase
    <3>2. marks[f] \subseteq marks'[f] \cup overwritten'
      BY <1>3, <3>1 DEF Written
    <3> QED
      BY <2>3, <2>4, <2>6, <3>2 DEF Lost
  <2> QED
    BY <2>5, <2>6
<1>9. CreatedOnce'
  <2> SUFFICES ASSUME NEW d \in Creators, NEW e \in Creators, d # e,
                      outcome'[d] = "success", outcome'[e] = "success",
                      FileOf[d] = FileOf[e], FileOf[d] \notin HardLinked
               PROVE  FALSE
    BY DEF CreatedOnce
  <2>1. d \in Callers /\ e \in Callers
    BY DEF FileConstants
  <2>2. CASE d # c /\ e # c
    BY <1>3, <2>1, <2>2 DEF CreatedOnce
  <2>3. ASSUME NEW o \in Callers, o # c, outcome'[o] = "success", FileOf[o] = f,
               c \in Creators, f \notin HardLinked
        PROVE  FALSE
    BY <1>3, <2>3 DEF FreshBase, Changes
  <2> QED
    BY <2>1, <2>2, <2>3
<1> QED
  BY <1>4, <1>5, <1>6, <1>7, <1>8, <1>9 DEF FileInv

LEMMA EndStep ==
    ASSUME IInv, NEW c \in Callers, End(c)
    PROVE  FileType' /\ FileInv'
<1> USE DEF IInv, TypeOK, End, Leave, fileVars
<1>1. FileType'
  BY DEF FileType
<1>2. Sections' /\ ToldWaited'
  BY DEF Sections, ToldWaited
<1>3. FreshBase' /\ Changes'
  BY DEF FreshBase, Changes
<1>4. NoLostEdit' /\ CreatedOnce'
  BY DEF NoLostEdit, Lost, CreatedOnce
<1> QED
  BY <1>1, <1>2, <1>3, <1>4 DEF FileInv

-----------------------------------------------------------------------------
LEMMA InitInv ==
    ASSUME LockConstants, FileConstants, Init PROVE IInv
<1> USE DEF Init, LockInit
<1>1. TypeOK
  BY DEF TypeOK
<1>2. InLine = {} /\ (\A c \in Callers : pc[c] = "new")
  BY DEF InLine
<1>3. LockInv
  BY <1>2 DEF LockInv, Arrivals, Predecessor, FirstServed, LastInMap, NoLeak, RunningHasTurn
<1>4. Sections /\ ToldWaited /\ FreshBase /\ Changes
  BY DEF Sections, ToldWaited, FreshBase, Changes, FileConstants
<1>5. NoLostEdit /\ CreatedOnce
  BY DEF NoLostEdit, Lost, CreatedOnce, FileConstants
<1> QED
  BY <1>1, <1>3, <1>4, <1>5 DEF IInv

\* A step of the system takes a step of the lock or leaves it alone.
LEMMA LockOrNot ==
    ASSUME [Next]_vars PROVE LockNext \/ UNCHANGED lockVars
<1>1. CASE UNCHANGED vars
  BY <1>1 DEF vars
<1>2. ASSUME NEW c \in Callers, Wait(c) \/ Begin(c) \/ End(c) PROVE LockNext
  BY <1>2 DEF Wait, Begin, End, LockNext
<1>3. ASSUME NEW c \in Callers,
             Compute(c) \/ GiveUp(c) \/ StartWrite(c) \/ WriteFails(c) \/ FinishWrite(c)
      PROVE  UNCHANGED lockVars
  BY <1>3 DEF Compute, GiveUp, StartWrite, WriteFails, FinishWrite, Fails, lockVars
<1> QED
  BY <1>1, <1>2, <1>3 DEF Next, Work

LEMMA StepInv ==
    ASSUME LockConstants, FileConstants, IInv, [Next]_vars PROVE IInv'
<1>1. LockType /\ LockInv
  BY InvParts
<1>2. LockType' /\ LockInv'
  <2>1. CASE LockNext
    BY <1>1, <2>1, LockPreserved
  <2>2. CASE UNCHANGED lockVars
    BY <1>1, <2>2, LockUntouched DEF LockType, lockVars
  <2> QED
    BY <2>1, <2>2, LockOrNot
<1>3. FileType' /\ FileInv'
  <2>1. CASE UNCHANGED vars
    BY <2>1 DEF vars, lockVars, fileVars, IInv, TypeOK, FileType, FileInv, Sections,
                ToldWaited, FreshBase, Changes, NoLostEdit, Lost, CreatedOnce
  <2>2. CASE Next
    <3> PICK c \in Callers : Wait(c) \/ Begin(c) \/ Work(c)
      BY <2>2 DEF Next
    <3>1. CASE Wait(c)
      BY <3>1, WaitStep
    <3>2. CASE Begin(c)
      BY <3>2, BeginStep
    <3>3. CASE Compute(c)
      BY <3>3, ComputeStep
    <3>4. CASE GiveUp(c) \/ WriteFails(c)
      BY <3>4, FailStep
    <3>5. CASE StartWrite(c)
      BY <3>5, StartStep
    <3>6. CASE FinishWrite(c)
      BY <3>6, FinishStep
    <3>7. CASE End(c)
      BY <3>7, EndStep
    <3> QED
      BY <3>1, <3>2, <3>3, <3>4, <3>5, <3>6, <3>7 DEF Work
  <2> QED
    BY <2>1, <2>2
<1> QED
  BY <1>2, <1>3 DEF IInv, TypeOK, LockType, FileType, FileInv

\* The inductive invariant holds in every reachable state, for any callers,
\* paths and files.
THEOREM EditsInvariant == Spec => []IInv
<1>1. Init => IInv
  BY InitInv, LockConstants, FileConstants
<1>2. IInv /\ [Next]_vars => IInv'
  BY StepInv, LockConstants, FileConstants
<1> QED
  BY <1>1, <1>2, PTL DEF Spec

\* No two calls are inside withPathLock for one path at the same time.
THEOREM LockExclusive == Spec => []Exclusion
<1>1. IInv => Exclusion
  BY ExclusionFromInv, InvParts
<1> QED
  BY <1>1, EditsInvariant, PTL

\* The map of chains has an entry exactly for the paths somebody is in line for.
THEOREM MapClean == Spec => []NoLeak
<1>1. IInv => NoLeak
  BY DEF IInv, LockInv
<1> QED
  BY <1>1, EditsInvariant, PTL

\* No edit that was reported as made is discarded by a concurrent one, as long
\* as the file has one name.
THEOREM NoEditLost == Spec => []NoLostEdit
<1>1. IInv => NoLostEdit
  BY DEF IInv
<1> QED
  BY <1>1, EditsInvariant, PTL

\* Of the calls that create one file one at most succeeds.
THEOREM CreatedAtMostOnce == Spec => []CreatedOnce
<1>1. IInv => CreatedOnce
  BY DEF IInv
<1> QED
  BY <1>1, EditsInvariant, PTL

\* What the lock of a file is for, for any number of callers, files and names.
THEOREM AllEditsKept == Spec => []EditsKept
<1>1. NoLostEdit /\ CreatedOnce => EditsKept
  BY DEF EditsKept
<1> QED
  BY <1>1, NoEditLost, CreatedAtMostOnce, PTL

\* A call whose promise was rejected because its wait was aborted changes no file.
THEOREM AbortedInert == Spec => []AbortedChangeNothing
<1>1. ASSUME IInv PROVE AbortedChangeNothing
  <2> SUFFICES ASSUME NEW c \in told
               PROVE  stage[c] = "outside" /\ \A f \in Files : c \notin marks[f]
    BY DEF AbortedChangeNothing
  <2>1. c \in Callers /\ pc[c] \in {"rejected", "leaving", "quit"}
    BY <1>1 DEF IInv, TypeOK, ToldWaited
  <2>2. stage[c] = "outside"
    BY <1>1, <2>1 DEF IInv, Sections
  <2> QED
    BY <1>1, <2>1, <2>2 DEF IInv, Changes
<1> QED
  BY <1>1, EditsInvariant, PTL

-----------------------------------------------------------------------------
\* The lock implements FairMutex.
LEMMA FairInit == ASSUME LockInit PROVE Fair!Init
BY DEF LockInit, Fair!Init, Active, Waits, Runs, Ahead, Before

LEMMA FairStep ==
    ASSUME LockConstants, LockType, LockInv, LockNext
    PROVE  [Fair!Next]_<<Waits, Runs, Ahead>>
<1> USE DEF LockType, LockConstants
<1> PICK c \in Callers :
      Lock(c) \/ LockRejected(c) \/ Abort(c) \/ Enter(c) \/ Leave(c) \/ Pass(c)
  BY DEF LockNext
<1>2. CASE Lock(c)
  <2>1. Waits' = Waits \cup {c} /\ Runs' = Runs /\ c \notin Waits \cup Runs
    BY <1>2 DEF Lock, Waits, Runs
  <2>2. Active' = Active \cup {c} /\ c \notin Active
    BY <1>2 DEF Lock, Active, Waits, Runs
  <2>3. \A d \in Active : arrival'[d] = arrival[d] /\ arrival[d] < clock
    BY <1>2, <2>2 DEF Lock, LockInv, Arrivals, Active, Waits, Runs
  <2>4. arrival'[c] = clock
    BY <1>2 DEF Lock
  <2>5. Before(c)' = {d \in Active : KeyOf[d] = KeyOf[c]}
    BY <2>2, <2>3, <2>4 DEF Before
  <2>6. \A d \in Callers : d # c => Before(d)' = Before(d)
    <3> SUFFICES ASSUME NEW d \in Callers, d # c PROVE Before(d)' = Before(d)
      OBVIOUS
    <3>1. CASE d \in Active
      <4>1. ~(arrival'[c] < arrival'[d])
        BY <2>3, <2>4, <3>1
      <4> QED
        BY <2>2, <2>3, <3>1, <4>1 DEF Before
    <3>2. CASE d \notin Active
      BY <2>2, <3>2 DEF Before
    <3> QED
      BY <3>1, <3>2
  <2>7. Ahead' = [Ahead EXCEPT ![c] = {d \in Active : KeyOf[d] = KeyOf[c]}]
    BY <2>5, <2>6 DEF Ahead
  <2>8. Fair!Join(c)
    BY <2>1, <2>7 DEF Fair!Join, Fair!SameKey, Active
  <2> QED
    BY <2>8 DEF Fair!Next
<1>3. CASE Enter(c)
  <2>1. pc[c] = "waiting" /\ pc' = [pc EXCEPT ![c] = "running"] /\ arrival' = arrival /\ Turn(c)
    BY <1>3 DEF Enter, MayEnter
  <2>2. c \in Waits /\ Waits' = Waits \ {c} /\ Runs' = Runs \cup {c} /\ Active' = Active
    BY <2>1 DEF Active, Waits, Runs
  <2>3. Before(c) = {}
    <3>1. ASSUME NEW d \in Before(c) PROVE FALSE
      <4>1. d \in InLine /\ c \in InLine /\ SameLine(c, d) /\ arrival[d] < arrival[c]
        BY <2>1, <3>1 DEF Before, Active, Waits, Runs, InLine, SameLine
      <4>2. arrival[c] <= arrival[d]
        BY <2>1, <4>1 DEF LockInv, FirstServed
      <4> QED
        BY <4>1, <4>2 DEF InLine
    <3> QED
      BY <3>1
  <2>4. Ahead' = Ahead
    BY <2>1, <2>2 DEF Ahead, Before
  <2>5. Fair!Serve(c)
    BY <2>2, <2>3, <2>4 DEF Fair!Serve, Ahead
  <2> QED
    BY <2>5 DEF Fair!Next
<1>4. ASSUME pc[c] \in {"waiting", "running"}, NEW s \in {"left", "leaving"},
             pc' = [pc EXCEPT ![c] = s], arrival' = arrival
      PROVE  /\ Waits' = Waits \ {c} /\ Runs' = Runs \ {c}
             /\ Ahead' = [d \in Callers |-> IF d = c THEN {} ELSE Ahead[d] \ {c}]
  <2>1. Waits' = Waits \ {c} /\ Runs' = Runs \ {c} /\ Active' = Active \ {c}
    BY <1>4 DEF Active, Waits, Runs
  <2>2. Before(c)' = {} /\ \A d \in Callers : d # c => Before(d)' = Before(d) \ {c}
    BY <1>4, <2>1 DEF Before
  <2> QED
    BY <2>1, <2>2 DEF Ahead
<1>5. CASE Abort(c) /\ pc[c] = "waiting"
  <2>1. pc' = [pc EXCEPT ![c] = "leaving"] /\ arrival' = arrival
    BY <1>5 DEF Abort
  <2>2. c \in Waits /\ c \notin Runs
    BY <1>5 DEF Waits, Runs
  <2>3. /\ Waits' = Waits \ {c} /\ Runs' = Runs \ {c}
        /\ Ahead' = [d \in Callers |-> IF d = c THEN {} ELSE Ahead[d] \ {c}]
    BY <1>4, <1>5, <2>1
  <2>4. Fair!Quit(c)
    BY <2>2, <2>3 DEF Fair!Quit, Fair!Gone
  <2> QED
    BY <2>4 DEF Fair!Next
<1>6. CASE Leave(c)
  <2>1. pc[c] = "running" /\ pc' = [pc EXCEPT ![c] = "left"] /\ arrival' = arrival
    BY <1>6 DEF Leave
  <2>2. c \in Runs /\ c \notin Waits
    BY <2>1 DEF Waits, Runs
  <2>3. /\ Waits' = Waits \ {c} /\ Runs' = Runs \ {c}
        /\ Ahead' = [d \in Callers |-> IF d = c THEN {} ELSE Ahead[d] \ {c}]
    BY <1>4, <2>1
  <2>4. Fair!Finish(c)
    BY <2>2, <2>3 DEF Fair!Finish, Fair!Gone
  <2> QED
    BY <2>4 DEF Fair!Next
<1>7. CASE LockRejected(c) \/ Pass(c) \/ (Abort(c) /\ pc[c] # "waiting")
  <2>1. /\ pc[c] \notin {"waiting", "running"} => pc'[c] \notin {"waiting", "running"}
        /\ pc[c] \in {"waiting", "running"} => pc'[c] = pc[c]
        /\ \A d \in Callers : d # c => pc'[d] = pc[d]
        /\ arrival' = arrival
    BY <1>7 DEF LockRejected, Pass, Abort
  <2>2. Waits' = Waits /\ Runs' = Runs /\ Active' = Active
    BY <2>1 DEF Active, Waits, Runs
  <2> QED
    BY <2>1, <2>2 DEF Ahead, Before
<1> QED
  BY <1>2, <1>3, <1>5, <1>6, <1>7

\* withPathLock is a fair mutex: per path, callers are served one at a time in
\* the order of their calls, and an abort takes out the aborted waiter only.
THEOREM LockIsFairMutex == Spec => ImplementsFairMutex
<1>1. Init => Fair!Init
  BY FairInit DEF Init
<1>2. IInv /\ [Next]_vars => [Fair!Next]_<<Waits, Runs, Ahead>>
  <2> SUFFICES ASSUME IInv, [Next]_vars PROVE [Fair!Next]_<<Waits, Runs, Ahead>>
    OBVIOUS
  <2>1. CASE LockNext
    BY <2>1, FairStep, InvParts, LockConstants
  <2>2. CASE UNCHANGED lockVars
    BY <2>2 DEF lockVars, Waits, Runs, Ahead, Before, Active
  <2> QED
    BY <2>1, <2>2, LockOrNot
<1> QED
  BY <1>1, <1>2, EditsInvariant, PTL DEF Spec, ImplementsFairMutex, Fair!Spec

\* The caller that gets the lock of a path arrived before all others in line for it.
FirstComeFirstServed ==
    [][\A c, d \in Callers :
         /\ pc[c] = "waiting" /\ pc'[c] = "running"
         /\ d \in InLine /\ d # c /\ KeyOf[d] = KeyOf[c]
         => arrival[c] < arrival[d]]_vars

\* Nobody overtakes at withPathLock, not even a waiter that was aborted and whose
\* promise is still a link of the chain.
THEOREM LockInOrder == Spec => FirstComeFirstServed
<1> DEFINE Served(c, d) ==
      /\ pc[c] = "waiting" /\ pc'[c] = "running"
      /\ d \in InLine /\ d # c /\ KeyOf[d] = KeyOf[c]
      => arrival[c] < arrival[d]
<1>1. IInv /\ [Next]_vars => \A c, d \in Callers : Served(c, d)
  <2> SUFFICES ASSUME IInv, [Next]_vars, NEW c \in Callers, NEW d \in Callers,
                      pc[c] = "waiting", pc'[c] = "running",
                      d \in InLine, d # c, KeyOf[d] = KeyOf[c]
               PROVE  arrival[c] < arrival[d]
    OBVIOUS
  <2>1. LockType /\ LockInv
    BY InvParts
  <2>2. LockNext
    BY LockOrNot DEF lockVars
  <2>3. MayEnter(c)
    <3>1. PICK e \in Callers :
            Lock(e) \/ LockRejected(e) \/ Abort(e) \/ Enter(e) \/ Leave(e) \/ Pass(e)
      BY <2>2 DEF LockNext
    <3>2. CASE Lock(e) \/ LockRejected(e) \/ Abort(e) \/ Leave(e) \/ Pass(e)
      BY <2>1, <3>2 DEF Lock, LockRejected, Abort, Leave, Pass, LockType
    <3>3. CASE Enter(e)
      BY <2>1, <3>3 DEF Enter, LockType
    <3> QED BY <3>1, <3>2, <3>3
  <2>4. c \in InLine /\ SameLine(c, d) /\ Turn(c)
    BY <2>3 DEF MayEnter, InLine, SameLine
  <2>5. arrival[c] <= arrival[d] /\ arrival[c] # arrival[d]
    BY <2>1, <2>4 DEF LockInv, FirstServed, Arrivals, InLine
  <2>6. arrival[c] \in Nat /\ arrival[d] \in Nat
    BY <2>1 DEF LockType
  <2> QED BY <2>5, <2>6
<1> QED BY <1>1, EditsInvariant, PTL DEF Spec, FirstComeFirstServed
=============================================================================
