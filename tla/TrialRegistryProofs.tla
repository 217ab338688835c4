------------------------- MODULE TrialRegistryProofs -------------------------
(***************************************************************************)
(* What the lock of register_trial guarantees, for any timeout and number  *)
(* of processes and calls.  Whatever dies, comes back or fails: it keeps   *)
(* the bodies apart until two waiters reclaim at the same time, or an age  *)
(* misleads; and no age does if nobody is suspended for a tick at the two  *)
(* places where Stalling processes may be.  If in addition no write of a   *)
(* pid fails, it keeps them apart for good when nobody is killed, and when *)
(* there are two processes, which may die anywhere.                        *)
(*                                                                         *)
(* And what register_trial guarantees above it.  It follows the lock       *)
(* protocol; no verdict enters the registry without an attestation,        *)
(* whatever dies and however the lock fails; and as long as the lock keeps *)
(* the bodies apart, trials.json parses and keeps what was acknowledged,   *)
(* even if writers are killed in the middle of a write.                    *)
(***************************************************************************)
EXTENDS TrialRegistry, TLAPS

-----------------------------------------------------------------------------
(* The types of the lock *)

\* The variables of the lock keep their types, whatever the faults: crashes,
\* failed writes, stalls and recycled pids included.
THEOREM LockTypeCorrect == LockSafety => []LockTypeOK
<1>1. LockInit => LockTypeOK
  BY LockAssumption DEF LockInit, LockTypeOK, Acquiring, Holding
<1>2. LockTypeOK /\ [LockNext]_lockVars => LockTypeOK'
  <2> SUFFICES ASSUME LockTypeOK, [LockNext]_lockVars PROVE LockTypeOK'
    OBVIOUS
  <2> USE LockAssumption DEF LockTypeOK, LockFile, Acquiring, Holding
  <2>1. ASSUME NEW p \in Proc, Call(p) PROVE LockTypeOK'
    BY <2>1 DEF Call, Goto
  <2>2. ASSUME NEW p \in Proc, Acquire(p) PROVE LockTypeOK'
    <3>1. CASE CreateLock(p)
      BY <3>1 DEF CreateLock, Goto
    <3>2. CASE WritePid(p)
      BY <3>2 DEF WritePid, Goto
    <3>3. CASE CheckLive(p)
      BY <3>3 DEF CheckLive, Goto, OwnerIsLive, PidReadable, PidAlive
    <3>4. CASE UnlinkDead(p) \/ UnlinkOld(p)
      BY <3>4 DEF UnlinkDead, UnlinkOld, Unlink, Goto
    <3>5. CASE WriteFails(p) \/ LockExists(p) \/ CheckDead(p) \/ StatGone(p)
               \/ StatOld(p) \/ GiveUp(p) \/ Sleep(p)
      BY <3>5 DEF WriteFails, LockExists, CheckDead, StatGone, StatOld, GiveUp, Sleep, Goto
    <3> QED
      BY <2>2, <3>1, <3>2, <3>3, <3>4, <3>5 DEF Acquire
  <2>3. ASSUME NEW p \in Proc, LeaveBody(p) \/ Release(p) \/ ReleaseFails(p) PROVE LockTypeOK'
    BY <2>3 DEF LeaveBody, Release, ReleaseFails, Goto
  <2>4. ASSUME NEW p \in Proc, Crash(p) \/ Respawn(p) PROVE LockTypeOK'
    BY <2>4 DEF Crash, Respawn, Goto
  <2>5. CASE Tick
    BY <2>5 DEF Tick, Older
  <2>6. CASE UNCHANGED lockVars
    BY <2>6 DEF lockVars
  <2> QED
    BY <2>1, <2>2, <2>3, <2>4, <2>5, <2>6 DEF LockNext, Step
<1> QED
  BY <1>1, <1>2, PTL DEF LockSafety

-----------------------------------------------------------------------------
(* The lock under every fault *)

\* The file is one that nobody writes or holds: a dead process's, or one that a
\* failed write or a failed unlink has left.
Stale == lock # None /\ pc[lock.by] \notin Holding \cup {"write"}

\* Between open and write the file is the creator's, and empty.
WriterOwnsFile ==
    \A p \in Proc : pc[p] = "write" => lock # None /\ lock.by = p /\ lock.pid = None

\* Whoever is about to unlink will find a file that is nobody's.
ReclaimsStale ==
    \A p \in Proc : pc[p] \in {"unlink_dead", "unlink_old"} => Stale

LockInv ==
    /\ LockTypeOK
    /\ HolderOwnsFile
    /\ WriterOwnsFile
    /\ ReclaimsStale

\* With at most one file, and every holder owning it, holders are one.
LEMMA InvExcludes == LockInv => MutualExclusion
  BY DEF LockInv, MutualExclusion, HolderOwnsFile

\* A file in which nobody's pid is readable as a live one is stale or being written.
LEMMA NotLiveIsStale ==
    ASSUME LockInv, lock # None, ~OwnerIsLive
    PROVE  Stale \/ pc[lock.by] = "write"
<1>1. lock.by \in Proc
  BY DEF LockInv, LockTypeOK, LockFile
<1>2. pc[lock.by] \in Holding => lock.pid = lock.by
  BY <1>1 DEF LockInv, HolderOwnsFile
<1>3. pc[lock.by] \in Holding => OwnerIsLive
  BY <1>1, <1>2, LockAssumption DEF OwnerIsLive, PidReadable, PidAlive, Holding
<1> QED
  BY <1>3 DEF Stale

\* A dead owner's file is stale.
LEMMA DeadIsStale == LockInv /\ OwnerPidDead => Stale
<1> SUFFICES ASSUME LockInv, OwnerPidDead PROVE Stale
  OBVIOUS
<1>1. lock # None /\ lock.pid # None /\ ~OwnerIsLive /\ lock.by \in Proc
  BY DEF OwnerPidDead, OwnerIsLive, PidReadable, PidAlive, LockInv, LockTypeOK, LockFile
<1>2. pc[lock.by] # "write"
  BY <1>1 DEF LockInv, WriterOwnsFile
<1> QED
  BY <1>1, <1>2, NotLiveIsStale

\* What Tick does to the file.
LEMMA TickAges ==
    ASSUME LockTypeOK, Tick
    PROVE  /\ lock = None => lock' = None
           /\ lock # None => lock' # None /\ lock'.by = lock.by /\ lock'.pid = lock.pid
<1> USE LockAssumption
<1>1. ASSUME lock # None
      PROVE  lock' # None /\ lock'.by = lock.by /\ lock'.pid = lock.pid
  <2> DEFINE n == Older(lock.age, Timeout + 1)
  <2>1. lock \in LockFile /\ n \in 0 .. Timeout + 1
    BY <1>1 DEF LockTypeOK, LockFile, Older
  <2>2. lock' = [lock EXCEPT !.age = n]
    BY <1>1 DEF Tick
  <2> HIDE DEF n
  <2>3. lock' \in LockFile
    BY <2>1, <2>2 DEF LockFile
  <2> QED
    BY <2>1, <2>2, <2>3 DEF LockFile
<1> QED
  BY <1>1 DEF Tick

\* The invariant holds until two waiters reclaim at the same time or an age
\* misleads: one case per action.
LEMMA InvStep ==
    ASSUME LockInv, LoneReclaimer, AgeTellsDeath, [LockNext]_lockVars, LockTypeOK'
    PROVE  LockInv'
<1> USE LockAssumption DEF LockInv, LockTypeOK, LockFile, Acquiring, Holding, HolderOwnsFile,
      WriterOwnsFile, ReclaimsStale, Stale, Goto
<1>1. ASSUME NEW p \in Proc, Call(p) PROVE LockInv'
  BY <1>1 DEF Call
<1>2. ASSUME NEW p \in Proc, CreateLock(p) PROVE LockInv'
  BY <1>2 DEF CreateLock
<1>3. ASSUME NEW p \in Proc, WritePid(p) PROVE LockInv'
  BY <1>3 DEF WritePid
<1>4. ASSUME NEW p \in Proc, WriteFails(p) PROVE LockInv'
  BY <1>4 DEF WriteFails
<1>5. ASSUME NEW p \in Proc, LockExists(p) PROVE LockInv'
  BY <1>5 DEF LockExists
<1>6. ASSUME NEW p \in Proc, CheckDead(p) PROVE LockInv'
  <2>1. OwnerPidDead => Stale
    BY DeadIsStale
  <2> QED
    BY <1>6, <2>1 DEF CheckDead
<1>7. ASSUME NEW p \in Proc, UnlinkDead(p) \/ UnlinkOld(p) PROVE LockInv'
  <2>1. \A q \in Proc : pc[q] \notin {"body", "release", "write"}
    BY <1>7 DEF UnlinkDead, UnlinkOld
  <2>2. \A q \in Proc : q # p => pc[q] \notin {"unlink_dead", "unlink_old"}
    BY <1>7 DEF UnlinkDead, UnlinkOld, LoneReclaimer
  <2> QED
    BY <1>7, <2>1, <2>2 DEF UnlinkDead, UnlinkOld
<1>8. ASSUME NEW p \in Proc, CheckLive(p) PROVE LockInv'
  BY <1>8 DEF CheckLive
<1>9. ASSUME NEW p \in Proc, StatOld(p) PROVE LockInv'
  BY <1>9 DEF StatOld, AgeTellsDeath
<1>10. ASSUME NEW p \in Proc, StatGone(p) \/ GiveUp(p) \/ Sleep(p) PROVE LockInv'
  BY <1>10 DEF StatGone, GiveUp, Sleep
<1>11. ASSUME NEW p \in Proc, LeaveBody(p) \/ ReleaseFails(p) PROVE LockInv'
  BY <1>11 DEF LeaveBody, ReleaseFails
<1>12. ASSUME NEW p \in Proc, Release(p) PROVE LockInv'
  BY <1>12 DEF Release
<1>13. ASSUME NEW p \in Proc, Crash(p) \/ Respawn(p) PROVE LockInv'
  BY <1>13 DEF Crash, Respawn
<1>14. CASE Tick
  BY <1>14, TickAges DEF Tick
<1>15. CASE UNCHANGED lockVars
  BY <1>15 DEF lockVars
<1> QED
  BY <1>1, <1>2, <1>3, <1>4, <1>5, <1>6, <1>7, <1>8, <1>9, <1>10, <1>11, <1>12, <1>13,
     <1>14, <1>15 DEF LockNext, Step, Acquire

LEMMA LockInvInit == LockInit => LockInv
  BY LockAssumption DEF LockInit, LockInv, LockTypeOK, Acquiring, Holding, HolderOwnsFile,
     WriterOwnsFile, ReclaimsStale

\* Two things only can undo the lock.  Until two waiters reclaim at the same time or
\* an age misleads, bodies are serial and every holder's file stays its own: for any
\* number of processes, which die anywhere, come back under the same pid, are
\* suspended anywhere, and whose writes and unlinks may fail.
THEOREM LockExcludesUnlessRaced == LockSafety => ExcludesUnlessRaced
<1>1. LockInv /\ (LoneReclaimer /\ AgeTellsDeath) /\ [LockNext]_lockVars /\ LockTypeOK' => LockInv'
  BY InvStep
<1>2. LockInv => MutualExclusion /\ HolderOwnsFile
  BY InvExcludes DEF LockInv
<1> QED
  BY <1>1, <1>2, LockInvInit, LockTypeCorrect, PTL DEF LockSafety, ExcludesUnlessRaced

-----------------------------------------------------------------------------
(* The lock of processes that are not suspended *)

\* An empty file is younger than a tick while its creator is about to write, and
\* so is the file that a waiter finds after reading no live owner, if it is not
\* stale.
PromptInv ==
    /\ \A p \in Proc : pc[p] = "write" => lock.age = 0
    /\ \A p \in Proc : pc[p] = "stat" /\ ~ownerLive[p] /\ lock # None => lock.age = 0 \/ Stale

LEMMA PromptStep ==
    ASSUME Stalling = {}, LockInv, PromptInv, LoneReclaimer, [LockNext]_lockVars, LockInv'
    PROVE  PromptInv'
<1> USE LockAssumption DEF LockInv, LockTypeOK, LockFile, Acquiring, Holding, HolderOwnsFile,
      WriterOwnsFile, ReclaimsStale, Stale, PromptInv, Goto
<1>1. ASSUME NEW p \in Proc, Call(p) \/ LockExists(p) PROVE PromptInv'
  BY <1>1 DEF Call, LockExists
<1>2. ASSUME NEW p \in Proc, CreateLock(p) PROVE PromptInv'
  BY <1>2 DEF CreateLock
<1>3. ASSUME NEW p \in Proc, WritePid(p) \/ WriteFails(p) PROVE PromptInv'
  BY <1>3 DEF WritePid, WriteFails
<1>4. ASSUME NEW p \in Proc, CheckDead(p) PROVE PromptInv'
  BY <1>4 DEF CheckDead
<1>5. ASSUME NEW p \in Proc, UnlinkDead(p) \/ UnlinkOld(p) PROVE PromptInv'
  BY <1>5 DEF UnlinkDead, UnlinkOld, Unlink
<1>6. ASSUME NEW p \in Proc, CheckLive(p) PROVE PromptInv'
  <2>1. lock # None /\ ~OwnerIsLive => Stale \/ lock.age = 0
    BY NotLiveIsStale
  <2>2. UNCHANGED lock /\ pc' = [pc EXCEPT ![p] = "stat"] /\ pc[p] = "live_check"
        /\ ownerLive' = [ownerLive EXCEPT ![p] = OwnerIsLive]
    BY <1>6 DEF CheckLive
  <2>3. \A q \in Proc : pc'[q] \in Holding \cup {"write"} <=> pc[q] \in Holding \cup {"write"}
    BY <2>2
  <2> QED
    BY <2>1, <2>2, <2>3
<1>7. ASSUME NEW p \in Proc, StatGone(p) \/ StatOld(p) \/ GiveUp(p) \/ Sleep(p) PROVE PromptInv'
  BY <1>7 DEF StatGone, StatOld, GiveUp, Sleep
<1>8. ASSUME NEW p \in Proc, LeaveBody(p) \/ Release(p) \/ ReleaseFails(p) PROVE PromptInv'
  BY <1>8 DEF LeaveBody, Release, ReleaseFails
<1>9. ASSUME NEW p \in Proc, Crash(p) \/ Respawn(p) PROVE PromptInv'
  BY <1>9 DEF Crash, Respawn
<1>10. CASE Tick
  <2>1. \A p \in Proc : pc'[p] \notin {"write", "stat"}
    BY <1>10 DEF Tick
  <2> QED
    BY <2>1
<1>11. CASE UNCHANGED lockVars
  BY <1>11 DEF lockVars
<1> QED
  BY <1>1, <1>2, <1>3, <1>4, <1>5, <1>6, <1>7, <1>8, <1>9, <1>10, <1>11
  DEF LockNext, Step, Acquire

\* If nobody is suspended, ages do not mislead: only two waiters that reclaim at the
\* same time can undo the lock.
THEOREM OnlyTwoReclaimersUndo ==
    ASSUME Stalling = {}
    PROVE  LockSafety => ([]LoneReclaimer => [](MutualExclusion /\ HolderOwnsFile))
<1>1. LockInit => PromptInv
  BY DEF LockInit, PromptInv
<1>2. PromptInv => AgeTellsDeath
  BY LockAssumption DEF PromptInv, AgeTellsDeath, Reclaimable, Stale
<1>3. LockInv /\ PromptInv /\ LoneReclaimer /\ [LockNext]_lockVars /\ LockTypeOK'
        => LockInv' /\ PromptInv'
  BY <1>2, InvStep, PromptStep
<1>4. LockInv => MutualExclusion /\ HolderOwnsFile
  BY InvExcludes DEF LockInv
<1> QED
  BY <1>1, <1>3, <1>4, LockInvInit, LockTypeCorrect, PTL DEF LockSafety

-----------------------------------------------------------------------------
(* The lock without the race *)

\* Nobody stalls or fails to write, and whoever may die has one rival at most:
\* with a third process the theorems are false, and so they are if a pid comes back.
BenignFaults ==
    /\ Stalling = {}
    /\ WriteError = {}
    /\ \/ Mortal = {}
       \/ ~PidReuse /\ \A p, q, r \in Proc : p = q \/ q = r \/ p = r

OnlyMortalsDie == \A p \in Proc : pc[p] = "crashed" => p \in Mortal

\* The last process alive.
Alone(p) == \A q \in Proc \ {p} : pc[q] = "crashed"

\* Only a process without a rival decides to unlink.
SurvivorUnlinks ==
    \A p \in Proc : pc[p] \in {"unlink_dead", "unlink_old"} => Alone(p)

\* The pid in a file is its creator's, who is writing it or dead if there is none.
FileHasOwner ==
    lock # None => IF lock.pid = None THEN pc[lock.by] \in {"write", "crashed"}
                                      ELSE lock.pid = lock.by

\* A waiter that has read no live owner meets no file, or one that is new, or
\* has no rival.
NoStaleVerdict ==
    \A p \in Proc : pc[p] = "stat" /\ ~ownerLive[p] /\ lock # None => lock.age = 0 \/ Alone(p)

BenignInv ==
    /\ LockInv
    /\ PromptInv
    /\ OnlyMortalsDie
    /\ SurvivorUnlinks
    /\ FileHasOwner
    /\ NoStaleVerdict

\* Of two processes, one is without a rival when the other is dead.
LEMMA DeathLeavesAlone ==
    ASSUME BenignFaults, OnlyMortalsDie, NEW p \in Proc, NEW q \in Proc,
           pc[q] = "crashed", pc[p] # "crashed"
    PROVE  Alone(p)
  BY DEF BenignFaults, OnlyMortalsDie, Alone

\* The dead stay dead.
LEMMA AloneForGood ==
    ASSUME BenignFaults, LockTypeOK, OnlyMortalsDie, [LockNext]_lockVars,
           NEW p \in Proc, Alone(p)
    PROVE  Alone(p)'
<1> SUFFICES ASSUME NEW q \in Proc, q # p, pc[q] = "crashed" PROVE pc'[q] = "crashed"
  BY DEF Alone
<1> USE DEF LockTypeOK, Goto
<1>1. q \in Mortal /\ ~PidReuse
  BY DEF OnlyMortalsDie, BenignFaults
<1>2. ASSUME NEW r \in Proc,
             Call(r) \/ LeaveBody(r) \/ Release(r) \/ ReleaseFails(r) \/ Crash(r) \/ Respawn(r)
      PROVE  pc'[q] = "crashed"
  BY <1>1, <1>2 DEF Call, LeaveBody, Release, ReleaseFails, Crash, Respawn
<1>3. ASSUME NEW r \in Proc, Acquire(r) PROVE pc'[q] = "crashed"
  BY <1>3 DEF Acquire, CreateLock, WritePid, WriteFails, LockExists, CheckDead, UnlinkDead,
       CheckLive, StatGone, StatOld, UnlinkOld, GiveUp, Sleep
<1>4. CASE Tick \/ UNCHANGED lockVars
  BY <1>4 DEF Tick, lockVars
<1> QED
  BY <1>2, <1>3, <1>4 DEF LockNext, Step

\* Whoever unlinks has no rival, so two waiters never reclaim at the same time.
LEMMA BenignIsLone == BenignInv => LoneReclaimer
  BY DEF BenignInv, SurvivorUnlinks, Alone, LoneReclaimer

\* The rest of the invariant: one case per action.
LEMMA BenignStep ==
    ASSUME BenignFaults, BenignInv, [LockNext]_lockVars, LockInv'
    PROVE  /\ OnlyMortalsDie' /\ SurvivorUnlinks'
           /\ FileHasOwner' /\ NoStaleVerdict'
<1> DEFINE Goal == OnlyMortalsDie /\ SurvivorUnlinks /\ FileHasOwner /\ NoStaleVerdict
<1> SUFFICES Goal'
  OBVIOUS
<1> USE LockAssumption DEF BenignInv, LockInv, LockTypeOK, LockFile, Acquiring, Holding,
      OnlyMortalsDie, SurvivorUnlinks, HolderOwnsFile, WriterOwnsFile, FileHasOwner,
      NoStaleVerdict, Goto
<1>0. \A p \in Proc : Alone(p) => Alone(p)'
  BY AloneForGood
<1>1. ASSUME NEW p \in Proc, Call(p) PROVE Goal'
  BY <1>0, <1>1 DEF Call
<1>2. ASSUME NEW p \in Proc, CreateLock(p) PROVE Goal'
  BY <1>0, <1>2 DEF CreateLock
<1>3. ASSUME NEW p \in Proc, WritePid(p) PROVE Goal'
  BY <1>0, <1>3 DEF WritePid
<1>4. ASSUME NEW p \in Proc, WriteFails(p) PROVE Goal'
  BY <1>4 DEF WriteFails, BenignFaults
<1>5. ASSUME NEW p \in Proc, LockExists(p) PROVE Goal'
  BY <1>0, <1>5 DEF LockExists
<1>6. ASSUME NEW p \in Proc, CheckDead(p) PROVE Goal'
  <2>1. OwnerPidDead /\ pc[p] = "dead_check" => Alone(p)
    BY DeathLeavesAlone DEF OwnerPidDead, PidReadable, PidAlive
  <2> QED
    BY <1>0, <1>6, <2>1 DEF CheckDead
<1>7. ASSUME NEW p \in Proc, UnlinkDead(p) \/ UnlinkOld(p) PROVE Goal'
  <2>1. \A q \in Proc \ {p} : pc[q] = "crashed"
    BY <1>7 DEF UnlinkDead, UnlinkOld, Alone
  <2> QED
    BY <1>0, <1>7, <2>1 DEF UnlinkDead, UnlinkOld, Unlink
<1>8. ASSUME NEW p \in Proc, CheckLive(p) PROVE Goal'
  <2>1. pc[p] = "live_check" => OwnerIsLive \/ lock = None \/ lock.age = 0 \/ Alone(p)
    <3> SUFFICES ASSUME pc[p] = "live_check", ~OwnerIsLive, lock # None
                 PROVE  lock.age = 0 \/ Alone(p)
      OBVIOUS
    <3>1. CASE pc[lock.by] = "crashed"
      BY <3>1, DeathLeavesAlone
    <3>2. CASE pc[lock.by] # "crashed"
      BY <3>2 DEF OwnerIsLive, PidReadable, PidAlive, PromptInv
    <3> QED
      BY <3>1, <3>2
  <2> QED
    BY <1>0, <1>8, <2>1 DEF CheckLive
<1>9. ASSUME NEW p \in Proc, StatOld(p) PROVE Goal'
  <2>1. Alone(p)
    BY <1>9 DEF StatOld, Reclaimable
  <2> QED
    BY <1>0, <1>9, <2>1 DEF StatOld
<1>10. ASSUME NEW p \in Proc, StatGone(p) \/ GiveUp(p) \/ Sleep(p) PROVE Goal'
  BY <1>0, <1>10 DEF StatGone, GiveUp, Sleep
<1>11. ASSUME NEW p \in Proc, LeaveBody(p) \/ ReleaseFails(p) PROVE Goal'
  BY <1>0, <1>11 DEF LeaveBody, ReleaseFails
<1>12. ASSUME NEW p \in Proc, Release(p) PROVE Goal'
  BY <1>0, <1>12 DEF Release
<1>13. ASSUME NEW p \in Proc, Crash(p) PROVE Goal'
  BY <1>0, <1>13 DEF Crash
<1>14. ASSUME NEW p \in Proc, Respawn(p) PROVE Goal'
  BY <1>14 DEF Respawn, BenignFaults
<1>15. CASE Tick
  <2>1. \A p \in Proc : pc[p] \notin {"write", "stat"} /\ pc'[p] = pc[p]
    BY <1>15 DEF Tick, BenignFaults
  <2>2. /\ lock = None => lock' = None
        /\ lock # None => lock' # None /\ lock'.by = lock.by /\ lock'.pid = lock.pid
    BY <1>15, TickAges
  <2> QED
    BY <1>0, <2>1, <2>2
<1>16. CASE UNCHANGED lockVars
  BY <1>0, <1>16 DEF lockVars
<1> QED
  BY <1>1, <1>2, <1>3, <1>4, <1>5, <1>6, <1>7, <1>8, <1>9, <1>10, <1>11, <1>12, <1>13,
     <1>14, <1>15, <1>16 DEF LockNext, Step, Acquire

LEMMA BenignInvHolds == ASSUME BenignFaults PROVE LockSafety => []BenignInv
<1>1. LockInit => BenignInv
  BY LockInvInit DEF LockInit, BenignInv, PromptInv, OnlyMortalsDie, SurvivorUnlinks,
     FileHasOwner, NoStaleVerdict
<1>2. BenignInv /\ [LockNext]_lockVars /\ LockTypeOK' => BenignInv'
  <2> SUFFICES ASSUME BenignInv, [LockNext]_lockVars, LockTypeOK' PROVE BenignInv'
    OBVIOUS
  <2>1. LoneReclaimer /\ AgeTellsDeath
    BY BenignIsLone, LockAssumption
    DEF BenignInv, PromptInv, AgeTellsDeath, Reclaimable, Stale
  <2>2. LockInv' /\ PromptInv'
    BY <2>1, InvStep, PromptStep DEF BenignInv, BenignFaults
  <2> QED
    BY <2>2, BenignStep DEF BenignInv
<1> QED
  BY <1>1, <1>2, LockTypeCorrect, PTL DEF LockSafety

\* Under benign faults the read-modify-write of register_trial is serial.
THEOREM LockExcludes == ASSUME BenignFaults PROVE LockSafety => []MutualExclusion
<1>1. BenignInv => MutualExclusion
  BY InvExcludes DEF BenignInv
<1> QED
  BY <1>1, BenignInvHolds, PTL

\* Under benign faults the release of a holder deletes its own lock file only.
THEOREM HolderKeepsFile == ASSUME BenignFaults PROVE LockSafety => []HolderOwnsFile
<1>1. BenignInv => HolderOwnsFile
  BY DEF BenignInv, LockInv
<1> QED
  BY <1>1, BenignInvHolds, PTL

-----------------------------------------------------------------------------
(* The registry follows the lock protocol *)

\* Every step of the registry is a step of the lock protocol or leaves the lock
\* alone: what is proved of the protocol holds of the registry.
THEOREM RegistryUsesLock == Spec => LockSafety
<1>1. Init => LockInit
  BY DEF Init
<1>2. [Next]_vars => [LockNext]_lockVars
  <2> SUFFICES ASSUME [Next]_vars PROVE [LockNext]_lockVars
    OBVIOUS
  <2>1. ASSUME NEW p \in Proc, RegisterTrial(p) \/ LockStep(p) \/ Return(p) \/ ReturnFails(p)
                          \/ Kill(p) \/ Reborn(p)
        PROVE  LockNext
    BY <2>1 DEF RegisterTrial, LockStep, Return, ReturnFails, Kill, Reborn, LockNext, Step
  <2>2. ASSUME NEW p \in Proc, Body(p) PROVE LeaveBody(p) \/ UNCHANGED lockVars
    BY <2>2 DEF Body, Load, Decide, OpenTmp, WriteTmp, Replace, Leave, Then
  <2>3. CASE TimePasses
    BY <2>3 DEF TimePasses, LockNext
  <2>4. CASE (\E a \in Attestation : Attest(a)) \/ AttestationLapses \/ UNCHANGED vars
    BY <2>4 DEF Attest, AttestationLapses, vars
  <2> QED
    BY <2>1, <2>2, <2>3, <2>4 DEF Next, LockNext, Step
<1> QED
  BY <1>1, <1>2, PTL DEF Spec, LockSafety

-----------------------------------------------------------------------------
(* Types *)

IsContent(x) == x \in {None, Torn} \/ IsRegistry(x)

Deciding == {"decide", "open_tmp", "write_tmp", "replace"}

\* A process in a call has a request, and one that has loaded has a registry.
Called == \A p \in Proc : pc[p] \notin {"idle", "crashed"} => req[p] \in Request
Loaded == \A p \in Proc : step[p] \in Deciding => IsRegistry(buf[p])

RegInv ==
    /\ TypeOK
    /\ Called
    /\ Loaded

LEMMA NoTrialsIsRegistry == IsRegistry(NoTrials)
<1>1. NoTrials \in [{} -> Entry]
  BY DEF NoTrials
<1> QED
  BY <1>1 DEF IsRegistry

\* The list a call proposes is a registry.
LEMMA ProposedIsRegistry ==
    ASSUME NEW T, IsRegistry(T), NEW r \in Request
    PROVE  IsRegistry(Proposed(T, r))
<1>1. PICK S \in SUBSET Name : T \in [S -> Entry]
  BY DEF IsRegistry
<1>2. /\ r.name \in Name /\ r.params \in Params /\ r.at \in Stamp
      /\ r.verdict \in Verdict /\ r.metric \in Metric \cup {None}
      /\ r.superseded \in Seq(Verdict) /\ r.ok \in BOOLEAN
  BY RegistryAssumption
<1>3. Known(T, r) => T[r.name] \in Entry
  BY <1>1 DEF Known
<1>4. Superseded(T, r) \in Seq(Verdict)
  BY <1>2, <1>3 DEF Superseded, Entry
<1>5. EffectiveMetric(T, r) \in Metric \cup {None}
  BY <1>2, <1>3 DEF EffectiveMetric, Entry
<1>6. NewEntry(T, r) \in Entry
  BY <1>2, <1>3, <1>4, <1>5 DEF NewEntry, Entry
<1>7. Proposed(T, r) \in [S \cup {r.name} -> Entry]
  BY <1>1, <1>6 DEF Proposed
<1>8. S \cup {r.name} \in SUBSET Name
  BY <1>1, <1>2
<1> QED
  BY <1>7, <1>8 DEF IsRegistry

LEMMA EarnsTyped ==
    ASSUME NEW r \in Request \cup {None}, NEW a \in Attestation \cup {None}
    PROVE  Earns(r, a) \subseteq Name \X Verdict \X Metric
  BY RegistryAssumption DEF Earns

LEMMA RegInvInit == Init => RegInv
<1> SUFFICES ASSUME Init PROVE RegInv
  OBVIOUS
<1> USE RegistryAssumption
<1>1. LockTypeOK
  BY LockAssumption DEF Init, LockInit, LockTypeOK, Acquiring, Holding
<1>2. IsContent(mainFile) /\ IsContent(tmpFile)
  BY DEF Init, FilesInit, IsContent
<1>3. Called /\ Loaded
  BY DEF Init, LockInit, Called, Loaded, Deciding
<1> QED
  BY <1>1, <1>2, <1>3 DEF Init, FilesInit, RegInv, TypeOK, IsContent, Steps

\* The step of a process that ends its call, for whatever reason.
LEMMA ForgottenKeeps ==
    ASSUME RegInv, NEW p \in Proc, Forgotten(p),
           \A q \in Proc : q # p => pc'[q] = pc[q],
           pc'[p] \in {"idle", "crashed"}
    PROVE  /\ step' \in [Proc -> Steps]
           /\ req' \in [Proc -> Request \cup {None}]
           /\ DOMAIN buf' = Proc /\ \A q \in Proc : buf'[q] = None \/ IsRegistry(buf'[q])
           /\ fd' \in [Proc -> {"closed", "tmp", "main", "gone"}]
           /\ Called' /\ Loaded'
  BY DEF RegInv, TypeOK, Forgotten, Steps, Called, Loaded, Deciding

\* One case per action.
LEMMA RegInvStep ==
    ASSUME RegInv, [Next]_vars, LockTypeOK' PROVE RegInv'
<1> USE RegistryAssumption DEF RegInv
<1>1. ASSUME NEW p \in Proc, RegisterTrial(p) PROVE RegInv'
  <2>1. Called'
    BY <1>1 DEF RegisterTrial, Call, Goto, Called, TypeOK, LockTypeOK
  <2>2. Loaded'
    BY <1>1 DEF RegisterTrial, Loaded, Deciding
  <2>3. PICK r \in Request : req' = [req EXCEPT ![p] = r] /\ earned' = earned \cup Earns(r, att)
    BY <1>1 DEF RegisterTrial
  <2>4. earned' \subseteq Name \X Verdict \X Metric
    BY <2>3, EarnsTyped DEF TypeOK
  <2>5. calls' \in [Proc -> 0 .. MaxCalls]
    BY <1>1 DEF RegisterTrial, TypeOK
  <2> QED
    BY <1>1, <2>1, <2>2, <2>3, <2>4, <2>5 DEF RegisterTrial, TypeOK, files
<1>2. ASSUME NEW p \in Proc, LockStep(p) PROVE RegInv'
  <2>1. /\ \A q \in Proc : q # p => pc'[q] = pc[q]
        /\ pc[p] \notin {"idle", "crashed"}
    BY <1>2 DEF LockStep, Acquire, CreateLock, WritePid, WriteFails, LockExists, CheckDead,
       UnlinkDead, CheckLive, StatGone, StatOld, UnlinkOld, GiveUp, Sleep, Goto,
       TypeOK, LockTypeOK
  <2>2. Called' /\ Loaded'
    BY <1>2, <2>1 DEF LockStep, bodies, Called, Loaded
  <2> QED
    BY <1>2, <2>2 DEF LockStep, bodies, files, history, TypeOK
<1>3. ASSUME NEW p \in Proc, Body(p) PROVE Called' /\ pc[p] = "body" /\ step'[p] \in Steps
  <2>1. /\ pc[p] = "body" /\ req' = req
        /\ \A q \in Proc : q # p => pc'[q] = pc[q]
    BY <1>3 DEF Body, Load, Decide, OpenTmp, WriteTmp, Replace, InBody, Then, Leave, LeaveBody,
       Goto, lockVars, TypeOK, LockTypeOK
  <2>2. step'[p] \in Steps
    BY <1>3 DEF Body, Load, Decide, OpenTmp, WriteTmp, Replace, Then, Leave, Steps, TypeOK
  <2> QED
    BY <2>1, <2>2 DEF Called
<1>4. ASSUME NEW p \in Proc, Load(p) PROVE RegInv'
  <2> DEFINE T == IF mainFile = None THEN NoTrials ELSE mainFile
  <2>1. mainFile # Torn => IsRegistry(T)
    BY NoTrialsIsRegistry DEF TypeOK
  <2>2. Called'
    BY <1>3, <1>4 DEF Body
  <2> HIDE DEF T
  <2>3. \/ UNCHANGED buf /\ step' = [step EXCEPT ![p] = "failed"]
        \/ buf' = [buf EXCEPT ![p] = T] /\ step' = [step EXCEPT ![p] = "decide"] /\ IsRegistry(T)
    BY <1>4, <2>1 DEF Load, Leave, Then, T
  <2>4. Loaded'
    BY <2>3 DEF Loaded, Deciding, TypeOK
  <2> QED
    BY <1>4, <2>2, <2>3, <2>4 DEF Load, TypeOK, files, history, Steps
<1>5. ASSUME NEW p \in Proc, Decide(p) PROVE RegInv'
  <2>1. IsRegistry(buf[p]) /\ req[p] \in Request
    BY <1>5 DEF Decide, InBody, Called, Loaded, Deciding
  <2> DEFINE T == Proposed(buf[p], req[p])
  <2>2. IsRegistry(T)
    BY <2>1, ProposedIsRegistry
  <2>3. Called'
    BY <1>3, <1>5 DEF Body
  <2>4. \/ UNCHANGED buf /\ step' = [step EXCEPT ![p] = "failed"]
        \/ buf' = [buf EXCEPT ![p] = T] /\ step' = [step EXCEPT ![p] = "open_tmp"]
    BY <1>5 DEF Decide, Leave, Then
  <2> HIDE DEF T
  <2>5. Loaded'
    BY <2>2, <2>4 DEF Loaded, Deciding, TypeOK
  <2> QED
    BY <1>5, <2>2, <2>3, <2>4, <2>5 DEF Decide, TypeOK, files, history, Steps
<1>6. ASSUME NEW p \in Proc, OpenTmp(p) PROVE RegInv'
  <2>1. Called' /\ step'[p] \in Steps
    BY <1>3, <1>6 DEF Body
  <2>2. Loaded'
    BY <1>6 DEF OpenTmp, InBody, Then, Loaded, Deciding
  <2> QED
    BY <1>6, <2>1, <2>2 DEF OpenTmp, TruncateTmp, Then, TypeOK, history, Steps
<1>7. ASSUME NEW p \in Proc, WriteTmp(p) PROVE RegInv'
  <2>1. Called' /\ step'[p] \in Steps
    BY <1>3, <1>7 DEF Body
  <2>2. Loaded'
    BY <1>7 DEF WriteTmp, InBody, Then, Loaded, Deciding
  <2>3. IsRegistry(buf[p])
    BY <1>7 DEF WriteTmp, InBody, Loaded, Deciding
  <2>4. IsContent(mainFile') /\ IsContent(tmpFile')
    BY <1>7, <2>3 DEF WriteTmp, WriteText, Overwritten, IsContent, TypeOK
  <2> QED
    BY <1>7, <2>1, <2>2, <2>4 DEF WriteTmp, WriteText, Then, TypeOK, IsContent, history, Steps
<1>8. ASSUME NEW p \in Proc, Replace(p) PROVE RegInv'
  <2>1. Called' /\ step'[p] \in Steps
    BY <1>3, <1>8 DEF Body
  <2>2. Loaded' /\ step' \in [Proc -> Steps]
    BY <1>8 DEF Replace, Leave, Loaded, Deciding, TypeOK, Steps
  <2>3. IsContent(mainFile') /\ IsContent(tmpFile')
    BY <1>8 DEF Replace, RenameTmp, IsContent, TypeOK, files
  <2>4. fd' \in [Proc -> {"closed", "tmp", "main", "gone"}]
    BY <1>8 DEF Replace, RenameTmp, TypeOK, files
  <2> QED
    BY <1>8, <2>1, <2>2, <2>3, <2>4 DEF Replace, TypeOK, IsContent, history
<1>9. ASSUME NEW p \in Proc, Return(p) PROVE RegInv'
  <2>1. pc[p] = "release" /\ pc'[p] = "idle" /\ \A q \in Proc : q # p => pc'[q] = pc[q]
    BY <1>9 DEF Return, Release, Goto, TypeOK, LockTypeOK
  <2>2. req[p] \in Request
    BY <2>1 DEF Called
  <2>3. acked' \subseteq Name \X Verdict
    BY <1>9, <2>2 DEF Return, TypeOK
  <2> QED
    BY <1>9, <2>1, <2>3, ForgottenKeeps DEF Return, TypeOK, files
<1>9a. ASSUME NEW p \in Proc, ReturnFails(p) PROVE RegInv'
  <2>1. pc'[p] = "idle" /\ \A q \in Proc : q # p => pc'[q] = pc[q]
    BY <1>9a DEF ReturnFails, ReleaseFails, Goto, TypeOK, LockTypeOK
  <2> QED
    BY <1>9a, <2>1, ForgottenKeeps DEF ReturnFails, TypeOK, files, history
<1>10. ASSUME NEW p \in Proc, Kill(p) PROVE RegInv'
  <2>1. pc'[p] = "crashed" /\ \A q \in Proc : q # p => pc'[q] = pc[q]
    BY <1>10 DEF Kill, Crash, TypeOK, LockTypeOK
  <2> QED
    BY <1>10, <2>1, ForgottenKeeps DEF Kill, TypeOK, files, history
<1>11. ASSUME NEW p \in Proc, Reborn(p) PROVE RegInv'
  <2>1. pc'[p] = "idle" /\ \A q \in Proc : q # p => pc'[q] = pc[q]
    BY <1>11 DEF Reborn, Respawn, Goto, TypeOK, LockTypeOK
  <2> QED
    BY <1>11, <2>1 DEF Reborn, bodies, files, history, TypeOK, Called, Loaded
<1>12. ASSUME NEW a \in Attestation, Attest(a) PROVE RegInv'
  <2>1. \A p \in Proc : Earns(req[p], a) \subseteq Name \X Verdict \X Metric
    BY EarnsTyped DEF TypeOK
  <2>2. earned' \subseteq Name \X Verdict \X Metric
    BY <1>12, <2>1 DEF Attest, TypeOK
  <2> QED
    BY <1>12, <2>2 DEF Attest, lockVars, bodies, files, TypeOK, Called, Loaded
<1>13. CASE AttestationLapses
  BY <1>13 DEF AttestationLapses, lockVars, bodies, files, history, TypeOK, Called, Loaded
<1>14. CASE TimePasses
  BY <1>14 DEF TimePasses, Tick, bodies, files, history, TypeOK, Called, Loaded
<1>15. CASE UNCHANGED vars
  BY <1>15 DEF vars, lockVars, bodies, files, history, TypeOK, Called, Loaded
<1> QED
  BY <1>1, <1>2, <1>4, <1>5, <1>6, <1>7, <1>8, <1>9, <1>9a, <1>10, <1>11, <1>12, <1>13,
     <1>14, <1>15
  DEF Next, Body

LEMMA RegInvHolds == Spec => []RegInv
<1>1. Init => RegInv
  BY RegInvInit
<1>2. RegInv /\ [Next]_vars /\ LockTypeOK' => RegInv'
  BY RegInvStep
<1> QED
  BY <1>1, <1>2, RegistryUsesLock, LockTypeCorrect, PTL DEF Spec

\* register_trial keeps its types: whatever is killed and whatever two writers do
\* to each other's files, what parses is a registry.
THEOREM RegistryTypeCorrect == Spec => []TypeOK
<1>1. RegInv => TypeOK
  BY DEF RegInv
<1> QED
  BY <1>1, RegInvHolds, PTL

-----------------------------------------------------------------------------
(* Attestations *)

\* No call switches the requirement off, or brings a history along.
NoBypass == \A r \in Request : ~r.bypass /\ r.superseded = <<>>

\* VerdictsAttested of a list, wherever it is.
Backed(T) ==
    \A n \in DOMAIN T : \A i \in DOMAIN Claims(T[n]) :
        i > Inherited(n) => <<n, Claims(T[n])[i], T[n].metric>> \in earned

BackedContent(x) == IsRegistry(x) => Backed(x)

\* What the attestation in force lets the calls under way ask for is recorded.
InForce == \A p \in Proc : Earns(req[p], att) \subseteq earned

HarnessInv ==
    /\ InForce
    /\ BackedContent(mainFile)
    /\ BackedContent(tmpFile)
    /\ \A p \in Proc : BackedContent(buf[p])

\* A call adds its verdict to the claims of the trial, if it is another than the
\* last, and leaves the others where they are.
LEMMA ProposedClaims ==
    ASSUME NoBypass, NEW T, IsRegistry(T), NEW r \in Request,
           NEW i \in DOMAIN Claims(NewEntry(T, r))
    PROVE  \/ ProducesVerdict(T, r) /\ Claims(NewEntry(T, r))[i] = r.verdict
           \/ /\ Known(T, r) /\ i \in DOMAIN Claims(T[r.name])
              /\ Claims(NewEntry(T, r))[i] = Claims(T[r.name])[i]
<1> DEFINE e == NewEntry(T, r)
           t == T[r.name]
<1>1. r.superseded = <<>> /\ r.verdict \in Verdict
  BY RegistryAssumption DEF NoBypass
<1>2. Claims(e) = Append(Superseded(T, r), r.verdict)
  BY DEF NewEntry, Claims
<1>3. CASE ~Known(T, r)
  <2>1. Claims(e) = Append(<<>>, r.verdict)
    BY <1>1, <1>2, <1>3 DEF Superseded
  <2>2. Claims(e)[i] = r.verdict
    BY <1>1, <2>1
  <2> QED
    BY <1>3, <2>2 DEF ProducesVerdict
<1>4. CASE Known(T, r)
  <2>1. t \in Entry
    BY <1>4 DEF Known, IsRegistry
  <2>2. t.superseded \in Seq(Verdict) /\ t.verdict \in Verdict
        /\ Claims(t) = Append(t.superseded, t.verdict)
    BY <2>1 DEF Entry, Claims
  <2>3. CASE t.verdict # r.verdict
    <3>1. Claims(e) = Append(Claims(t), r.verdict) /\ Claims(t) \in Seq(Verdict)
      BY <1>2, <1>4, <2>2, <2>3 DEF Superseded
    <3> HIDE DEF e, t
    <3>2. (i \in DOMAIN Claims(t) /\ Claims(e)[i] = Claims(t)[i]) \/ Claims(e)[i] = r.verdict
      BY <1>1, <3>1 DEF e
    <3>3. ProducesVerdict(T, r)
      BY <2>3 DEF ProducesVerdict, t
    <3> QED
      BY <1>4, <3>2, <3>3 DEF e, t
  <2>4. CASE t.verdict = r.verdict
    <3>1. Superseded(T, r) = t.superseded
      BY <1>1, <1>4, <2>4 DEF Superseded
    <3>2. Claims(e) = Claims(t)
      BY <1>2, <2>2, <2>4, <3>1
    <3> QED
      BY <1>4, <3>2
  <2> QED
    BY <2>3, <2>4
<1> QED
  BY <1>3, <1>4

\* The decision is where an attestation is asked for: the verdict that is added to a
\* list is one the call has earned.
LEMMA ProposedBacked ==
    ASSUME NoBypass, earned \subseteq Name \X Verdict \X Metric,
           NEW T, IsRegistry(T), Backed(T), NEW r \in Request, Earns(r, att) \subseteq earned,
           ~Conflicts(T, r), Powered(T, r)
    PROVE  Backed(Proposed(T, r))
<1> DEFINE P == Proposed(T, r)
           e == NewEntry(T, r)
<1>1. /\ DOMAIN P = DOMAIN T \cup {r.name}
      /\ \A n \in DOMAIN T \ {r.name} : P[n] = T[n]
      /\ P[r.name] = e
  BY DEF Proposed
<1>2. e.metric = EffectiveMetric(T, r)
  BY DEF NewEntry
<1>3. ASSUME ProducesVerdict(T, r) PROVE <<r.name, r.verdict, e.metric>> \in earned
  <2>1. Covered(EffectiveMetric(T, r), r.fingerprint)
    BY <1>3 DEF NoBypass, Powered
  <2>2. r # None /\ att # None /\ r.fingerprint = att.fingerprint /\ e.metric = att.metric
    BY <1>2, <2>1, RegistryAssumption DEF Covered
  <2>3. <<r.name, r.verdict, e.metric>> \in Earns(r, att)
    BY <2>2 DEF Earns
  <2> QED
    BY <2>3
<1>4. ASSUME Known(T, r), T[r.name].metric # None PROVE e.metric = T[r.name].metric
  BY <1>2, <1>4 DEF Conflicts, EffectiveMetric
<1>5. ASSUME NEW n \in DOMAIN P, NEW i \in DOMAIN Claims(P[n]), i > Inherited(n)
      PROVE  <<n, Claims(P[n])[i], P[n].metric>> \in earned
  <2>1. CASE n # r.name
    BY <1>1, <1>5, <2>1 DEF Backed
  <2>2. CASE n = r.name
    <3> HIDE DEF P, e
    <3>1. i \in DOMAIN Claims(e) /\ P[n] = e
      BY <1>1, <1>5, <2>2
    <3>2. CASE ProducesVerdict(T, r) /\ Claims(e)[i] = r.verdict
      BY <1>3, <2>2, <3>1, <3>2
    <3>3. CASE /\ Known(T, r) /\ i \in DOMAIN Claims(T[r.name])
               /\ Claims(e)[i] = Claims(T[r.name])[i]
      <4>1. <<n, Claims(e)[i], T[n].metric>> \in earned
        BY <1>5, <2>2, <3>3 DEF Backed, Known
      <4>2. T[n].metric # None
        BY <4>1, RegistryAssumption
      <4> QED
        BY <1>4, <2>2, <3>1, <3>3, <4>1, <4>2
    <3> QED
      BY <3>1, <3>2, <3>3, ProposedClaims DEF e
  <2> QED
    BY <2>1, <2>2
<1> HIDE DEF P
<1>6. Backed(P)
  BY <1>5 DEF Backed
<1> QED
  BY <1>6 DEF P

\* Everything else only moves lists about, and what was earned is not taken back.
Sources == {mainFile, tmpFile, None, Torn, NoTrials} \cup { buf[q] : q \in Proc }

LEMMA MovedBacked ==
    ASSUME HarnessInv, earned \subseteq earned', NEW x \in Sources
    PROVE  BackedContent(x)'
<1>1. IsRegistry(x) => Backed(x)
  BY RegistryAssumption DEF HarnessInv, Sources, BackedContent, NoTrials, Backed
<1>2. Backed(x) => Backed(x)'
  BY DEF Backed
<1> QED
  BY <1>1, <1>2 DEF BackedContent

LEMMA HarnessInvMoves ==
    ASSUME HarnessInv, earned \subseteq earned', InForce',
           mainFile' \in Sources, tmpFile' \in Sources,
           \A p \in Proc : buf'[p] \in Sources
    PROVE  HarnessInv'
  BY MovedBacked DEF HarnessInv, BackedContent, Backed

LEMMA HarnessInvStep ==
    ASSUME NoBypass, RegInv, HarnessInv, [Next]_vars PROVE HarnessInv'
<1> USE DEF RegInv, TypeOK
<1>1. ASSUME NEW p \in Proc, RegisterTrial(p) \/ LockStep(p) \/ Reborn(p) PROVE HarnessInv'
  <2>1. InForce' /\ earned \subseteq earned'
    BY <1>1 DEF RegisterTrial, LockStep, Reborn, bodies, history, HarnessInv, InForce
  <2> QED
    BY <1>1, <2>1, HarnessInvMoves DEF RegisterTrial, LockStep, Reborn, files, bodies, Sources
<1>2. ASSUME NEW p \in Proc, Load(p) PROVE HarnessInv'
  BY <1>2, HarnessInvMoves DEF Load, files, history, Sources, HarnessInv, InForce
<1>3. ASSUME NEW p \in Proc, Decide(p) PROVE HarnessInv'
  <2> DEFINE T == Proposed(buf[p], req[p])
  <2>1. IsRegistry(buf[p]) /\ req[p] \in Request
    BY <1>3 DEF Decide, InBody, Called, Loaded, Deciding
  <2>2. CASE Accepts(p)
    <3>1. Backed(T)
      BY <2>1, <2>2, ProposedBacked DEF Accepts, HarnessInv, BackedContent, InForce
    <3> HIDE DEF T
    <3>2. buf' = [buf EXCEPT ![p] = T] /\ UNCHANGED <<mainFile, tmpFile, att, req, earned>>
      BY <1>3, <2>2 DEF Decide, files, history, T
    <3>3. \A q \in Proc : IsRegistry(buf'[q]) => Backed(buf'[q])
      BY <3>1, <3>2 DEF HarnessInv, BackedContent
    <3>4. ASSUME NEW x, Backed(x) PROVE Backed(x)'
      BY <3>2, <3>4 DEF Backed
    <3>5. \A q \in Proc : BackedContent(buf[q])'
      BY <3>3, <3>2 DEF BackedContent, Backed
    <3>6. BackedContent(mainFile)' /\ BackedContent(tmpFile)' /\ InForce'
      BY <3>2 DEF BackedContent, Backed, HarnessInv, InForce
    <3> QED
      BY <3>5, <3>6 DEF HarnessInv
  <2>3. CASE ~Accepts(p)
    BY <1>3, <2>3, HarnessInvMoves DEF Decide, files, history, Sources, HarnessInv, InForce
  <2> QED
    BY <2>2, <2>3
<1>4. ASSUME NEW p \in Proc, OpenTmp(p) PROVE HarnessInv'
  BY <1>4, HarnessInvMoves DEF OpenTmp, TruncateTmp, history, Sources, HarnessInv, InForce
<1>5. ASSUME NEW p \in Proc, WriteTmp(p) PROVE HarnessInv'
  BY <1>5, HarnessInvMoves DEF WriteTmp, WriteText, Overwritten, history, Sources, HarnessInv,
     InForce
<1>6. ASSUME NEW p \in Proc, Replace(p) PROVE HarnessInv'
  BY <1>6, HarnessInvMoves DEF Replace, RenameTmp, files, history, Sources, HarnessInv, InForce
<1>7. ASSUME NEW p \in Proc, Return(p) \/ ReturnFails(p) \/ Kill(p) PROVE HarnessInv'
  <2>1. /\ req' = [req EXCEPT ![p] = None] /\ buf' = [buf EXCEPT ![p] = None]
        /\ UNCHANGED <<mainFile, tmpFile, att, earned>>
    BY <1>7 DEF Return, ReturnFails, Kill, Forgotten, files, history
  <2>2. InForce'
    BY <2>1 DEF HarnessInv, InForce, Earns
  <2> QED
    BY <2>1, <2>2, HarnessInvMoves DEF Sources
<1>8. ASSUME NEW a \in Attestation, Attest(a) PROVE HarnessInv'
  <2>1. InForce' /\ earned \subseteq earned'
    BY <1>8 DEF Attest, bodies, InForce
  <2> QED
    BY <1>8, <2>1, HarnessInvMoves DEF Attest, files, bodies, Sources
<1>9. CASE AttestationLapses \/ TimePasses \/ UNCHANGED vars
  <2>1. UNCHANGED <<mainFile, tmpFile, req, buf, earned>> /\ att' \in {att, None}
    BY <1>9 DEF AttestationLapses, TimePasses, vars, files, bodies, history
  <2>2. InForce'
    BY <2>1 DEF HarnessInv, InForce, Earns
  <2> QED
    BY <2>1, <2>2, HarnessInvMoves DEF Sources
<1> QED
  BY <1>1, <1>2, <1>3, <1>4, <1>5, <1>6, <1>7, <1>8, <1>9 DEF Next, Body

\* No verdict from a blind judge: every claim that is published here was asked for
\* by a call during which an attestation of the trial's metric and of that call's own
\* pipeline was in force.  It holds whatever dies, however the lock fails and
\* however attestations come and lapse, for calls that do not bypass the
\* requirement.
THEOREM VerdictsNeedHarness == ASSUME NoBypass PROVE Spec => []VerdictsAttested
<1>1. Init => HarnessInv
  <2> SUFFICES ASSUME Init PROVE HarnessInv
    OBVIOUS
  <2>1. mainFile \in {None, Initial} /\ tmpFile = None /\ \A p \in Proc : buf[p] = None
    BY DEF Init, FilesInit
  <2>2. Backed(Initial)
    <3> SUFFICES ASSUME NEW n \in DOMAIN Initial, NEW i \in DOMAIN Claims(Initial[n])
                 PROVE  ~(i > Inherited(n))
      BY DEF Backed
    <3>1. Initial[n] \in Entry
      BY RegistryAssumption DEF IsRegistry
    <3>2. Claims(Initial[n]) \in Seq(Verdict)
      BY <3>1 DEF Entry, Claims
    <3> QED
      BY <3>2 DEF Inherited
  <2>3. InForce
    BY <2>1 DEF Init, InForce, Earns
  <2> QED
    BY <2>1, <2>2, <2>3, RegistryAssumption DEF HarnessInv, BackedContent
<1>2. HarnessInv /\ RegInv /\ [Next]_vars => HarnessInv'
  BY HarnessInvStep
<1>3. HarnessInv /\ RegInv => VerdictsAttested
  <2> SUFFICES ASSUME HarnessInv, RegInv PROVE VerdictsAttested
    OBVIOUS
  <2>1. CASE mainFile \in {None, Torn}
    BY <2>1 DEF VerdictsAttested, Trials, NoTrials
  <2>2. CASE mainFile \notin {None, Torn}
    BY <2>2 DEF RegInv, TypeOK, HarnessInv, BackedContent, Backed, VerdictsAttested, Trials
  <2> QED
    BY <2>1, <2>2
<1> QED
  BY <1>1, <1>2, <1>3, RegInvHolds, PTL DEF Spec

-----------------------------------------------------------------------------
(* What holds as long as the lock keeps the bodies apart *)

\* A registry with the claim a, a trial and one of its verdicts.
Holds(T, a) ==
    /\ a[1] \in DOMAIN T
    /\ \E i \in DOMAIN Claims(T[a[1]]) : Claims(T[a[1]])[i] = a[2]

Prepared == {"open_tmp", "write_tmp", "replace"}

StepsFit ==
    \A p \in Proc :
        /\ step[p] \in Deciding => pc[p] = "body"
        /\ pc[p] = "release" <=> step[p] \in {"done", "failed"}

\* The temporary file is the writer's, torn until it has written all of it.
DraftFits ==
    \A p \in Proc :
        /\ fd[p] = IF step[p] = "write_tmp" THEN "tmp" ELSE "closed"
        /\ step[p] = "write_tmp" => tmpFile = Torn
        /\ step[p] = "replace" => tmpFile = buf[p]

\* What a call is about to publish is what it makes of the registry as it is now.
UpToDate ==
    \A p \in Proc :
        /\ step[p] = "decide" => buf[p] = Trials
        /\ step[p] \in Prepared =>
             /\ buf[p] = Proposed(Trials, req[p])
             /\ ~Conflicts(Trials, req[p])

Promised ==
    /\ \A a \in acked : Holds(Trials, a)
    /\ \A p \in Proc : step[p] = "done" => Holds(Trials, <<req[p].name, req[p].verdict>>)

SerialInv == StepsFit /\ NeverTorn /\ DraftFits /\ UpToDate /\ Promised

\* A proposal adds the verdict of the call, and keeps every claim there was.
LEMMA ProposedHolds ==
    ASSUME NEW T, IsRegistry(T), NEW r \in Request
    PROVE  /\ Holds(Proposed(T, r), <<r.name, r.verdict>>)
           /\ \A a : Holds(T, a) => Holds(Proposed(T, r), a)
<1>1. PICK S \in SUBSET Name : T \in [S -> Entry]
  BY DEF IsRegistry
<1> DEFINE P == Proposed(T, r)
           e == NewEntry(T, r)
<1>2. /\ DOMAIN P = S \cup {r.name}
      /\ \A n \in S \ {r.name} : P[n] = T[n]
      /\ P[r.name] = e
  BY <1>1 DEF Proposed
<1>3. r.superseded \in Seq(Verdict) /\ r.verdict \in Verdict
  BY RegistryAssumption
<1>4. r.name \in S => T[r.name].superseded \in Seq(Verdict) /\ T[r.name].verdict \in Verdict
  BY <1>1 DEF Entry
<1>5. Superseded(T, r) \in Seq(Verdict)
  BY <1>1, <1>3, <1>4 DEF Superseded, Known
<1>6. e.superseded = Superseded(T, r) /\ e.verdict = r.verdict
  BY DEF NewEntry
<1>7. /\ Claims(e) = Append(Superseded(T, r), r.verdict)
      /\ Claims(e)[Len(Superseded(T, r)) + 1] = r.verdict
      /\ DOMAIN Claims(e) = 1 .. Len(Superseded(T, r)) + 1
  BY <1>3, <1>5, <1>6 DEF Claims
<1>8. \E i \in DOMAIN Claims(e) : Claims(e)[i] = r.verdict
  BY <1>5, <1>7
<1>9. ASSUME r.name \in S, NEW i \in DOMAIN Claims(T[r.name])
      PROVE  \E j \in DOMAIN Claims(e) : Claims(e)[j] = Claims(T[r.name])[i]
  <2> DEFINE t == T[r.name]
  <2>1. /\ Claims(t) = Append(t.superseded, t.verdict)
        /\ i \in 1 .. Len(t.superseded) + 1
    BY <1>4, <1>9 DEF Claims
  <2>2. CASE t.verdict # r.verdict
    <3>1. Claims(e) = Append(Claims(t), r.verdict)
      BY <1>1, <1>7, <1>9, <2>1, <2>2 DEF Superseded, Known
    <3> QED
      BY <1>3, <1>4, <1>9, <2>1, <3>1
  <2>3. CASE t.verdict = r.verdict /\ t.superseded # <<>>
    BY <1>1, <1>7, <1>9, <2>1, <2>3 DEF Superseded, Known
  <2>4. CASE t.verdict = r.verdict /\ t.superseded = <<>>
    <3>1. Claims(t)[i] = r.verdict
      BY <1>9, <2>1, <2>4
    <3> QED
      BY <1>8, <3>1
  <2> QED
    BY <2>2, <2>3, <2>4
<1> HIDE DEF P, e
<1>10. ASSUME NEW a, Holds(T, a) PROVE Holds(P, a)
  BY <1>1, <1>2, <1>9, <1>10 DEF Holds
<1>11. Holds(P, <<r.name, r.verdict>>)
  BY <1>2, <1>8 DEF Holds
<1> QED
  BY <1>10, <1>11 DEF P

\* The steps that leave files, lists and claims alone.
LEMMA SerialQuiet ==
    ASSUME RegInv, SerialInv, UNCHANGED <<mainFile, tmpFile, fd, step, buf, acked>>,
           \A p \in Proc : pc[p] \in Holding => pc'[p] = pc[p] /\ req'[p] = req[p],
           \A p \in Proc : pc[p] \notin Holding => pc'[p] # "release"
    PROVE  SerialInv'
<1>1. StepsFit'
  BY DEF SerialInv, StepsFit, Holding
<1>2. \A p \in Proc : step[p] # "load" => req'[p] = req[p]
  BY DEF SerialInv, StepsFit, Holding, RegInv, TypeOK, Steps, Deciding
<1>3. NeverTorn' /\ DraftFits'
  BY DEF SerialInv, NeverTorn, DraftFits
<1>4. Trials' = Trials
  BY DEF Trials
<1>5. UpToDate'
  BY <1>2, <1>4 DEF SerialInv, UpToDate, Prepared
<1>6. Promised'
  BY <1>2, <1>4 DEF SerialInv, Promised
<1> QED
  BY <1>1, <1>3, <1>5, <1>6 DEF SerialInv

\* A call ends: what the process had is forgotten, and others hold what they held.
LEMMA SerialForgotten ==
    ASSUME RegInv, SerialInv, NEW p \in Proc, Forgotten(p), UNCHANGED <<mainFile, tmpFile>>,
           pc'[p] \notin Holding, \A q \in Proc : q # p => pc'[q] = pc[q],
           \A a \in acked' : Holds(Trials, a)
    PROVE  SerialInv'
<1> USE DEF SerialInv, RegInv, TypeOK, Forgotten
<1>1. StepsFit'
  BY DEF StepsFit, Deciding, Holding
<1>2. NeverTorn' /\ DraftFits'
  BY DEF NeverTorn, DraftFits
<1>3. Trials' = Trials
  BY DEF Trials
<1>4. \A q \in Proc : step'[q] # "load" =>
        q # p /\ req'[q] = req[q] /\ buf'[q] = buf[q] /\ step'[q] = step[q]
  OBVIOUS
<1>5. UpToDate'
  BY <1>3, <1>4 DEF UpToDate, Prepared
<1>6. Promised'
  BY <1>3, <1>4 DEF Promised
<1> QED
  BY <1>1, <1>2, <1>5, <1>6

LEMMA BodyIsAlone ==
    ASSUME RegInv, StepsFit, MutualExclusion, NEW p \in Proc, pc[p] = "body"
    PROVE  \A q \in Proc : q # p => step[q] = "load"
  BY DEF RegInv, TypeOK, Steps, StepsFit, MutualExclusion, Holding, Deciding

\* The one step that publishes: it replaces the registry by the proposal.
LEMMA ReplacePublishes ==
    ASSUME RegInv, SerialInv, MutualExclusion, NEW p \in Proc, Replace(p)
    PROVE  /\ RenameTmp /\ Leave(p, "done")
           /\ mainFile' = Proposed(Trials, req[p])
           /\ Trials' = Proposed(Trials, req[p])
           /\ IsRegistry(Trials) /\ req[p] \in Request /\ ~Conflicts(Trials, req[p])
<1> USE RegistryAssumption DEF SerialInv
<1>1. /\ req[p] \in Request /\ IsRegistry(buf[p]) /\ step[p] = "replace"
  BY DEF Replace, InBody, RegInv, Called, Loaded, Deciding
<1>2. tmpFile = buf[p] /\ buf[p] = Proposed(Trials, req[p]) /\ ~Conflicts(Trials, req[p])
  BY <1>1 DEF DraftFits, UpToDate, Prepared
<1>3. RenameTmp /\ Leave(p, "done")
  BY <1>1, <1>2 DEF Replace
<1>4. mainFile' = buf[p]
  BY <1>2, <1>3 DEF RenameTmp
<1>5. Trials' = buf[p]
  BY <1>1, <1>4 DEF Trials
<1>6. IsRegistry(Trials)
  BY NoTrialsIsRegistry DEF Trials, RegInv, TypeOK
<1> QED
  BY <1>1, <1>2, <1>3, <1>4, <1>5, <1>6

LEMMA SerialStep ==
    ASSUME RegInv, SerialInv, MutualExclusion, [Next]_vars PROVE SerialInv'
<1> USE DEF RegInv
<1>1. ASSUME NEW p \in Proc, RegisterTrial(p) \/ LockStep(p) \/ Reborn(p) PROVE SerialInv'
  <2>1. /\ pc[p] \notin Holding /\ pc'[p] # "release"
        /\ \A q \in Proc : q # p => pc'[q] = pc[q] /\ req'[q] = req[q]
    BY <1>1 DEF RegisterTrial, LockStep, Reborn, Call, Respawn, Acquire, CreateLock, WritePid,
       WriteFails, LockExists, CheckDead, UnlinkDead, CheckLive, StatGone, StatOld, UnlinkOld,
       GiveUp, Sleep, Goto, Holding, bodies, TypeOK, LockTypeOK
  <2> QED
    BY <1>1, <2>1, SerialQuiet DEF RegisterTrial, LockStep, Reborn, files, bodies, history, Holding
<1>2. CASE (\E a \in Attestation : Attest(a)) \/ AttestationLapses \/ TimePasses \/ UNCHANGED vars
  BY <1>2, SerialQuiet DEF Attest, AttestationLapses, TimePasses, Tick, vars, lockVars, files,
     bodies, history, Holding
<1>3. ASSUME NEW p \in Proc, Load(p) PROVE SerialInv'
  <2>1. /\ pc' = pc /\ step' = [step EXCEPT ![p] = "decide"] /\ buf' = [buf EXCEPT ![p] = Trials]
        /\ pc[p] = "body" /\ step[p] = "load"
    BY <1>3 DEF Load, InBody, Then, lockVars, SerialInv, NeverTorn, Trials
  <2>2. UNCHANGED <<mainFile, tmpFile, fd, req, acked>> /\ Trials' = Trials
    BY <1>3 DEF Load, files, history, Trials
  <2>3. StepsFit' /\ NeverTorn'
    BY <2>1, <2>2 DEF SerialInv, StepsFit, NeverTorn, Deciding, TypeOK
  <2>4. DraftFits' /\ UpToDate' /\ Promised'
    BY <2>1, <2>2 DEF SerialInv, DraftFits, UpToDate, Promised, Prepared, TypeOK
  <2> QED
    BY <2>3, <2>4 DEF SerialInv
<1>4. ASSUME NEW p \in Proc, Decide(p) PROVE SerialInv'
  <2>1. /\ pc[p] = "body" /\ step[p] = "decide" /\ buf[p] = Trials
        /\ UNCHANGED <<mainFile, tmpFile, fd, req, acked>> /\ Trials' = Trials
    BY <1>4 DEF Decide, InBody, files, history, Trials, SerialInv, UpToDate
  <2>2. CASE Accepts(p)
    <3>1. /\ pc' = pc /\ step' = [step EXCEPT ![p] = "open_tmp"]
          /\ buf' = [buf EXCEPT ![p] = Proposed(Trials, req[p])]
          /\ ~Conflicts(Trials, req[p])
      BY <1>4, <2>1, <2>2 DEF Decide, Then, lockVars, Accepts
    <3>2. StepsFit' /\ NeverTorn'
      BY <2>1, <3>1 DEF SerialInv, StepsFit, NeverTorn, Deciding, TypeOK
    <3>3. DraftFits' /\ UpToDate' /\ Promised'
      BY <2>1, <3>1 DEF SerialInv, DraftFits, UpToDate, Promised, Prepared, TypeOK
    <3> QED
      BY <3>2, <3>3 DEF SerialInv
  <2>3. CASE ~Accepts(p)
    <3>1. /\ pc' = [pc EXCEPT ![p] = "release"] /\ step' = [step EXCEPT ![p] = "failed"]
          /\ buf' = buf
      BY <1>4, <2>3 DEF Decide, Leave, LeaveBody, Goto
    <3>2. StepsFit' /\ NeverTorn'
      BY <2>1, <3>1 DEF SerialInv, StepsFit, NeverTorn, Deciding, TypeOK, LockTypeOK
    <3>3. DraftFits' /\ UpToDate' /\ Promised'
      BY <2>1, <3>1 DEF SerialInv, DraftFits, UpToDate, Promised, Prepared, TypeOK
    <3> QED
      BY <3>2, <3>3 DEF SerialInv
  <2> QED
    BY <2>2, <2>3
<1>5. ASSUME NEW p \in Proc, OpenTmp(p) PROVE SerialInv'
  <2>1. /\ pc[p] = "body" /\ step[p] = "open_tmp" /\ tmpFile' = Torn
        /\ fd' = [fd EXCEPT ![p] = "tmp"] /\ step' = [step EXCEPT ![p] = "write_tmp"]
        /\ UNCHANGED <<mainFile, pc, req, buf, acked>> /\ Trials' = Trials
    BY <1>5 DEF OpenTmp, TruncateTmp, InBody, Then, lockVars, history, Trials
  <2>2. \A q \in Proc : q # p => step[q] = "load"
    BY <2>1, BodyIsAlone DEF SerialInv
  <2>3. StepsFit' /\ NeverTorn'
    BY <2>1 DEF SerialInv, StepsFit, NeverTorn, Deciding, TypeOK
  <2>4. DraftFits' /\ UpToDate' /\ Promised'
    BY <2>1, <2>2 DEF SerialInv, DraftFits, UpToDate, Promised, Prepared, TypeOK
  <2> QED
    BY <2>3, <2>4 DEF SerialInv
<1>6. ASSUME NEW p \in Proc, WriteTmp(p) PROVE SerialInv'
  <2>1. /\ pc[p] = "body" /\ step[p] = "write_tmp" /\ fd[p] = "tmp" /\ tmpFile = Torn
    BY <1>6 DEF WriteTmp, InBody, SerialInv, DraftFits
  <2>2. /\ tmpFile' = buf[p]
        /\ fd' = [fd EXCEPT ![p] = "closed"] /\ step' = [step EXCEPT ![p] = "replace"]
        /\ UNCHANGED <<mainFile, pc, req, buf, acked>> /\ Trials' = Trials
    BY <1>6, <2>1 DEF WriteTmp, WriteText, Overwritten, Then, lockVars, history, Trials
  <2>3. \A q \in Proc : q # p => step[q] = "load"
    BY <2>1, BodyIsAlone DEF SerialInv
  <2>4. StepsFit' /\ NeverTorn'
    BY <2>1, <2>2 DEF SerialInv, StepsFit, NeverTorn, Deciding, TypeOK
  <2>5. DraftFits' /\ UpToDate' /\ Promised'
    BY <2>1, <2>2, <2>3 DEF SerialInv, DraftFits, UpToDate, Promised, Prepared, TypeOK
  <2> QED
    BY <2>4, <2>5 DEF SerialInv
<1>7. ASSUME NEW p \in Proc, Replace(p) PROVE SerialInv'
  <2> DEFINE T == Proposed(Trials, req[p])
  <2>1. /\ RenameTmp /\ Leave(p, "done") /\ mainFile' = T /\ Trials' = T
        /\ IsRegistry(Trials) /\ req[p] \in Request
    BY <1>7, ReplacePublishes
  <2>2. /\ IsRegistry(T) /\ Holds(T, <<req[p].name, req[p].verdict>>)
        /\ \A a : Holds(Trials, a) => Holds(T, a)
    BY <2>1, ProposedIsRegistry, ProposedHolds
  <2> HIDE DEF T
  <2>3. /\ pc[p] = "body" /\ step[p] = "replace"
        /\ pc' = [pc EXCEPT ![p] = "release"] /\ step' = [step EXCEPT ![p] = "done"]
        /\ UNCHANGED <<req, buf, acked>>
    BY <1>7, <2>1 DEF Replace, InBody, Leave, LeaveBody, Goto, history
  <2>4. \A q \in Proc : q # p => step[q] = "load"
    BY <2>3, BodyIsAlone DEF SerialInv
  <2>5. \A q \in Proc : fd[q] = "closed" /\ fd'[q] = "closed"
    BY <2>1, <2>3, <2>4 DEF RenameTmp, SerialInv, DraftFits
  <2>6. StepsFit' /\ NeverTorn'
    BY <2>1, <2>2, <2>3, RegistryAssumption DEF SerialInv, StepsFit, NeverTorn, Deciding, TypeOK,
       LockTypeOK
  <2>7. DraftFits' /\ UpToDate'
    BY <2>3, <2>4, <2>5 DEF DraftFits, UpToDate, Prepared, TypeOK
  <2>8. Promised'
    BY <2>1, <2>2, <2>3, <2>4 DEF SerialInv, Promised, TypeOK
  <2> QED
    BY <2>6, <2>7, <2>8 DEF SerialInv
<1>8. ASSUME NEW p \in Proc, Return(p) PROVE SerialInv'
  <2>1. /\ pc'[p] \notin Holding /\ \A q \in Proc : q # p => pc'[q] = pc[q]
    BY <1>8 DEF Return, Release, Goto, Holding, TypeOK, LockTypeOK
  <2>2. \A a \in acked' : Holds(Trials, a)
    BY <1>8 DEF Return, SerialInv, Promised
  <2> QED
    BY <1>8, <2>1, <2>2, SerialForgotten DEF Return, files
<1>9. ASSUME NEW p \in Proc, Kill(p) PROVE SerialInv'
  <2>1. /\ pc'[p] \notin Holding /\ \A q \in Proc : q # p => pc'[q] = pc[q]
    BY <1>9 DEF Kill, Crash, Holding, TypeOK, LockTypeOK
  <2>2. \A a \in acked' : Holds(Trials, a)
    BY <1>9 DEF Kill, history, SerialInv, Promised
  <2> QED
    BY <1>9, <2>1, <2>2, SerialForgotten DEF Kill, files
<1>10. ASSUME NEW p \in Proc, ReturnFails(p) PROVE SerialInv'
  <2>1. /\ pc'[p] \notin Holding /\ \A q \in Proc : q # p => pc'[q] = pc[q]
    BY <1>10 DEF ReturnFails, ReleaseFails, Goto, Holding, TypeOK, LockTypeOK
  <2>2. \A a \in acked' : Holds(Trials, a)
    BY <1>10 DEF ReturnFails, history, SerialInv, Promised
  <2> QED
    BY <1>10, <2>1, <2>2, SerialForgotten DEF ReturnFails, files
<1> QED
  BY <1>1, <1>2, <1>3, <1>4, <1>5, <1>6, <1>7, <1>8, <1>9, <1>10 DEF Next, Body

LEMMA SerialInit == Init => SerialInv
<1> SUFFICES ASSUME Init PROVE SerialInv
  OBVIOUS
<1>1. mainFile # Torn
  BY RegistryAssumption DEF Init, FilesInit
<1>2. StepsFit /\ DraftFits /\ UpToDate /\ Promised
  BY DEF Init, LockInit, FilesInit, StepsFit, DraftFits, UpToDate, Promised, Deciding, Prepared
<1> QED
  BY <1>1, <1>2 DEF SerialInv, NeverTorn

LEMMA SerialHolds == Spec /\ []MutualExclusion => []SerialInv
<1>1. SerialInv /\ RegInv /\ MutualExclusion /\ [Next]_vars => SerialInv'
  BY SerialStep
<1> QED
  BY <1>1, SerialInit, RegInvHolds, PTL DEF Spec

\* While no two bodies meet, trials.json parses, wherever its writers are killed.
THEOREM RegistryNeverTorn == Spec /\ []MutualExclusion => []NeverTorn
<1>1. SerialInv => NeverTorn
  BY DEF SerialInv
<1> QED
  BY <1>1, SerialHolds, PTL

\* While no two bodies meet, what register_trial returned for stays in the registry,
\* whoever is killed afterwards, and wherever.
THEOREM RegistryKeepsAcked == Spec /\ []MutualExclusion => []AckedKept
<1>1. SerialInv => AckedKept
  BY DEF SerialInv, Promised, Holds, AckedKept
<1> QED
  BY <1>1, SerialHolds, PTL

\* Under benign faults no two bodies meet, and nothing more need be assumed: two
\* processes may die anywhere, and trials.json parses and keeps what was acknowledged.
THEOREM RegistrySurvives ==
    ASSUME BenignFaults PROVE Spec => [](MutualExclusion /\ NeverTorn /\ AckedKept)
  BY RegistryUsesLock, LockExcludes, RegistryNeverTorn, RegistryKeepsAcked, PTL

\* Under every fault: until two waiters reclaim at the same time, or an age misleads,
\* trials.json parses and keeps what was acknowledged.
THEOREM RegistrySurvivesUnlessRaced ==
    Spec => ([](LoneReclaimer /\ AgeTellsDeath) => [](NeverTorn /\ AckedKept))
  BY RegistryUsesLock, LockExcludesUnlessRaced, RegistryNeverTorn, RegistryKeepsAcked, PTL
  DEF ExcludesUnlessRaced

-----------------------------------------------------------------------------
(* The registry implements the ledger *)

NoHistory == \A r \in Request : r.superseded = <<>>

\* What a proposal does to the ledger: one trial more, or one trial amended.
LEMMA ProposedLedger ==
    ASSUME NoHistory, NEW T, IsRegistry(T), NEW r \in Request, ~Conflicts(T, r),
           NEW L, L = LedgerOf(T), NEW M, M = LedgerOf(Proposed(T, r))
    PROVE  \/ /\ r.name \in DOMAIN M \ DOMAIN L
              /\ DOMAIN M = DOMAIN L \cup {r.name}
              /\ \A k \in DOMAIN L : M[k] = L[k]
              /\ Len(M[r.name].claims) = 1
           \/ /\ r.name \in DOMAIN L
              /\ DOMAIN M = DOMAIN L
              /\ \A k \in DOMAIN L \ {r.name} : M[k] = L[k]
              /\ Ledger!Amended(L[r.name], M[r.name])
<1>1. PICK S \in SUBSET Name : T \in [S -> Entry]
  BY DEF IsRegistry
<1> DEFINE P == Proposed(T, r)
           n == r.name
           e == NewEntry(T, r)
<1>2. DOMAIN P = S \cup {n} /\ P[n] = e /\ \A k \in S \ {n} : P[k] = T[k]
  BY <1>1 DEF Proposed
<1>3. /\ DOMAIN L = S /\ DOMAIN M = S \cup {n}
      /\ \A k \in S \ {n} : M[k] = L[k]
  BY <1>1, <1>2 DEF LedgerOf
<1>4. M[n] = [params |-> e.params, at |-> e.at, metric |-> e.metric, claims |-> Claims(e)]
  BY <1>2 DEF LedgerOf
<1>5. Claims(e) = Append(Superseded(T, r), r.verdict)
  BY DEF Claims, NewEntry
<1>6. r.superseded = <<>> /\ r.verdict \in Verdict
  BY RegistryAssumption DEF NoHistory
<1> HIDE DEF P, e
<1>7. CASE n \notin S
  <2>1. Superseded(T, r) = <<>>
    BY <1>1, <1>6, <1>7 DEF Superseded, Known
  <2>2. Len(M[n].claims) = 1
    BY <1>4, <1>5, <1>6, <2>1
  <2> QED
    BY <1>3, <1>7, <2>2
<1>8. CASE n \in S
  <2> DEFINE t == T[n]
  <2>1. L[n] = [params |-> t.params, at |-> t.at, metric |-> t.metric, claims |-> Claims(t)]
    BY <1>1, <1>8 DEF LedgerOf
  <2>2. t.superseded \in Seq(Verdict) /\ t.verdict \in Verdict
    BY <1>1, <1>8 DEF Entry
  <2>3. e.params = t.params /\ e.at = t.at
    BY <1>1, <1>8 DEF e, NewEntry, Known, Conflicts
  <2>4. t.metric # None => e.metric = t.metric
    BY <1>1, <1>8 DEF e, NewEntry, EffectiveMetric, Known, Conflicts
  <2>5. Claims(t) = Append(t.superseded, t.verdict)
    BY DEF Claims
  <2>6. t.verdict = r.verdict => Claims(e) = Claims(t)
    BY <1>1, <1>5, <1>6, <1>8, <2>5 DEF Superseded, Known
  <2>7. t.verdict # r.verdict => Claims(e) = Append(Claims(t), r.verdict)
    BY <1>1, <1>5, <1>8, <2>5 DEF Superseded, Known
  <2> HIDE DEF t
  <2>8. /\ Claims(t) \in Seq(Verdict) /\ Claims(t)[Len(Claims(t))] = t.verdict
    BY <2>2, <2>5
  <2>9. ASSUME t.verdict # r.verdict
        PROVE  \E v \in {M[n].claims[Len(M[n].claims)]} :
                 /\ M[n].claims = Append(L[n].claims, v)
                 /\ v # L[n].claims[Len(L[n].claims)]
    <3>1. M[n].claims = Append(Claims(t), r.verdict) /\ L[n].claims = Claims(t)
      BY <1>4, <2>1, <2>7, <2>9
    <3>2. M[n].claims[Len(M[n].claims)] = r.verdict
      BY <1>6, <2>8, <3>1
    <3> QED
      BY <2>8, <2>9, <3>1, <3>2
  <2>10. Ledger!Amended(L[n], M[n])
    <3>1. M[n].params = L[n].params /\ M[n].at = L[n].at
      BY <1>4, <2>1, <2>3
    <3>2. L[n].metric # None => M[n].metric = L[n].metric
      BY <1>4, <2>1, <2>4
    <3>3. t.verdict = r.verdict => M[n].claims = L[n].claims
      BY <1>4, <2>1, <2>6
    <3> QED
      BY <2>9, <3>1, <3>2, <3>3 DEF Ledger!Amended
  <2> QED
    BY <1>3, <1>8, <2>10
<1> QED
  BY <1>7, <1>8

LEMMA LedgerStep ==
    ASSUME NoHistory, RegInv, SerialInv, MutualExclusion, [Next]_vars
    PROVE  [Ledger!Register \/ Ledger!Amend]_(LedgerOf(Trials))
<1>1. CASE UNCHANGED mainFile
  BY <1>1 DEF Trials
<1>2. ASSUME NEW p \in Proc, Replace(p)
      PROVE  Ledger!Register \/ Ledger!Amend
  <2> DEFINE r == req[p]
             L == LedgerOf(Trials)
             M == LedgerOf(Proposed(Trials, r))
  <2>1. /\ Trials' = Proposed(Trials, r) /\ IsRegistry(Trials)
        /\ r \in Request /\ ~Conflicts(Trials, r)
    BY <1>2, ReplacePublishes
  <2>2. LedgerOf(Trials)' = M
    BY <2>1
  <2>3. \/ /\ r.name \in DOMAIN M \ DOMAIN L
           /\ DOMAIN M = DOMAIN L \cup {r.name}
           /\ \A k \in DOMAIN L : M[k] = L[k]
           /\ Len(M[r.name].claims) = 1
        \/ /\ r.name \in DOMAIN L
           /\ DOMAIN M = DOMAIN L
           /\ \A k \in DOMAIN L \ {r.name} : M[k] = L[k]
           /\ Ledger!Amended(L[r.name], M[r.name])
    BY <2>1, ProposedLedger
  <2> HIDE DEF L, M, r
  <2>4. \/ \E n \in DOMAIN M \ DOMAIN L :
             /\ DOMAIN M = DOMAIN L \cup {n}
             /\ \A k \in DOMAIN L : M[k] = L[k]
             /\ Len(M[n].claims) = 1
        \/ \E n \in DOMAIN L :
             /\ DOMAIN M = DOMAIN L
             /\ \A k \in DOMAIN L \ {n} : M[k] = L[k]
             /\ Ledger!Amended(L[n], M[n])
    BY <2>3
  <2> QED
    BY <2>2, <2>4 DEF L, Ledger!Register, Ledger!Amend
<1>3. ASSUME NEW p \in Proc, WriteTmp(p) PROVE UNCHANGED mainFile
  BY <1>3 DEF WriteTmp, WriteText, InBody, SerialInv, DraftFits
<1>4. \/ UNCHANGED mainFile
      \/ \E p \in Proc : WriteTmp(p) \/ Replace(p)
  BY DEF Next, Body, RegisterTrial, LockStep, Load, Decide, OpenTmp, TruncateTmp, Return,
     ReturnFails, Kill, Reborn, Attest, AttestationLapses, TimePasses, vars, files
<1> QED
  BY <1>1, <1>2, <1>3, <1>4

\* While no two bodies meet, the registry is an append-only ledger of verdicts, if
\* no caller brings a history of its own: trials are never lost, their identity
\* never changes, and every verdict that was published can still be read, in order.
THEOREM RegistryIsLedger ==
    ASSUME NoHistory PROVE Spec /\ []MutualExclusion => AppendOnly
<1>1. Init => Ledger!LedgerInit
  <2> SUFFICES ASSUME Init PROVE LedgerOf(Trials) = LedgerOf(Initial)
    BY DEF Ledger!LedgerInit
  <2>1. CASE DOMAIN Initial = {}
    BY <2>1 DEF Init, FilesInit, Trials, NoTrials, LedgerOf
  <2>2. CASE DOMAIN Initial # {}
    BY <2>2, RegistryAssumption DEF Init, FilesInit, Trials
  <2> QED
    BY <2>1, <2>2
<1>2. RegInv /\ SerialInv /\ MutualExclusion /\ [Next]_vars
        => [Ledger!Register \/ Ledger!Amend]_(LedgerOf(Trials))
  BY LedgerStep
<1> QED
  BY <1>1, <1>2, RegInvHolds, SerialHolds, PTL DEF Spec, AppendOnly, Ledger!LedgerSpec

\* Under benign faults nothing need be assumed of the bodies: two processes may die
\* anywhere in a registration, and the ledger is append-only.
THEOREM LedgerSurvives == ASSUME BenignFaults, NoHistory PROVE Spec => AppendOnly
  BY RegistryUsesLock, LockExcludes, RegistryIsLedger, PTL
=============================================================================
