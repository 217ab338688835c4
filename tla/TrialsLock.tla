------------------------------ MODULE TrialsLock ------------------------------
(***************************************************************************)
(* The advisory lock file `trials.json.lock` that serialises the           *)
(* read-modify-write of register_trial across operating-system processes   *)
(* (measurement/trials.py: _acquire_trials_lock, _release_trials_lock,     *)
(* _lock_owner_pid_dead, _pid_alive).                                      *)
(*                                                                         *)
(* One action is one system call on the lock file, because every two of    *)
(* them may be separated by steps of other processes: the O_CREAT|O_EXCL   *)
(* open, the write of the owner's pid, each of the two reads a waiter      *)
(* makes, its stat, its unlink, the unlink of the release.  An unlink      *)
(* removes whatever file has the name at that instant; a write goes to the *)
(* file that was opened, whether it still has the name or not.             *)
(*                                                                         *)
(* Time is kept as ages that saturate just above the only threshold the    *)
(* code compares them with, and calls are not counted: both are unbounded, *)
(* and the state is finite.                                                *)
(***************************************************************************)
EXTENDS Naturals

CONSTANTS
    Proc,      \* processes that call register_trial; a process is its pid
    None,      \* no file, or a lock file in which no pid is readable
    Mortal,    \* the processes that may be killed in the middle of a call
    Stalling,  \* the processes that may be suspended for longer than a tick
               \* between open and write, or between the reads and the stat
    WriteError,\* the processes whose write of the pid may fail (a full disk)
    UnlinkError, \* the processes whose unlink may fail (no permission)
    PidReuse,  \* may the system give the pid of a dead process to a new one?
    Timeout    \* the `timeout` argument, in ticks

LockFile == [by : Proc, pid : Proc \cup {None}, age : 0 .. Timeout + 1]

ASSUME LockAssumption ==
    /\ None \notin Proc
    /\ None \notin LockFile
    /\ Mortal \subseteq Proc
    /\ Stalling \subseteq Proc
    /\ WriteError \subseteq Proc
    /\ UnlinkError \subseteq Proc
    /\ PidReuse \in BOOLEAN
    /\ Timeout \in Nat \ {0}

VARIABLES
    lock,       \* the file: who created it, the pid in it, its age; or None
    pc,         \* where each process is in register_trial
    ownerLive,  \* the local variable owner_is_live of each waiter
    waited      \* ticks since the call began, up to Timeout

lockVars == <<lock, pc, ownerLive, waited>>

\* The states of a process that is looking for the lock, and that has it.
Acquiring == {"open", "dead_check", "unlink_dead", "live_check", "stat", "unlink_old", "write"}
Holding   == {"body", "release"}

LockTypeOK ==
    /\ lock \in LockFile \cup {None}
    /\ pc \in [Proc -> Acquiring \cup Holding \cup {"idle", "crashed"}]
    /\ ownerLive \in [Proc -> BOOLEAN]
    /\ waited \in [Proc -> 0 .. Timeout]

LockInit ==
    /\ lock = None
    /\ pc = [p \in Proc |-> "idle"]
    /\ ownerLive = [p \in Proc |-> FALSE]
    /\ waited = [p \in Proc |-> 0]

-----------------------------------------------------------------------------
Goto(p, from, to) ==
    /\ pc[p] = from
    /\ pc' = [pc EXCEPT ![p] = to]

\* os.kill(pid, 0) succeeds.
PidAlive(p) == pc[p] # "crashed"

PidReadable == lock # None /\ lock.pid # None

\* Bug: a lock file in which no pid is readable counts as a dead owner's.
UnreadableIsDead == lock # None /\ (lock.pid # None => ~PidAlive(lock.pid))

\* Bug: the first version, where only the age frees a lock.
DeadOnlyByAge == FALSE

\* The lock names a pid, and that pid is provably dead.
OwnerPidDead == PidReadable /\ ~PidAlive(lock.pid)

OwnerIsLive == PidReadable /\ PidAlive(lock.pid)

\* register_trial begins: the deadline is `timeout` from now.
Call(p) ==
    /\ Goto(p, "idle", "open")
    /\ waited' = [waited EXCEPT ![p] = 0]
    /\ UNCHANGED <<lock, ownerLive>>

\* Bug: O_EXCL forgotten.
CreateLockShared(p) ==
    /\ Goto(p, "open", "write")
    /\ lock' = [by |-> p, pid |-> None, age |-> 0]
    /\ UNCHANGED <<ownerLive, waited>>

\* os.open succeeds: the file exists and is empty.
CreateLock(p) ==
    /\ lock = None
    /\ Goto(p, "open", "write")
    /\ lock' = [by |-> p, pid |-> None, age |-> 0]
    /\ UNCHANGED <<ownerLive, waited>>

\* os.write of the pid, which also renews st_mtime.  If somebody unlinked the
\* file in between, the pid goes to a file without a name, and the call goes on.
WritePid(p) ==
    /\ Goto(p, "write", "body")
    /\ lock' = IF lock # None /\ lock.by = p
                 THEN [by |-> p, pid |-> p, age |-> 0]
                 ELSE lock
    /\ UNCHANGED <<ownerLive, waited>>

\* os.write raises: the exception leaves register_trial before its `try`, and
\* the empty lock file stays.
WriteFails(p) ==
    /\ p \in WriteError
    /\ Goto(p, "write", "idle")
    /\ UNCHANGED <<lock, ownerLive, waited>>

\* FileExistsError.
LockExists(p) ==
    /\ lock # None
    /\ Goto(p, "open", "dead_check")
    /\ UNCHANGED <<lock, ownerLive, waited>>

\* The first read of the file, by _lock_owner_pid_dead.
CheckDead(p) ==
    /\ \/ OwnerPidDead /\ Goto(p, "dead_check", "unlink_dead")
       \/ ~OwnerPidDead /\ Goto(p, "dead_check", "live_check")
    /\ UNCHANGED <<lock, ownerLive, waited>>

\* unlink, of the file that has the name now.  An OSError is passed over.
Unlink(p) == lock' = None \/ (p \in UnlinkError /\ UNCHANGED lock)

\* Either way the loop begins again, without looking at the deadline.
UnlinkDead(p) ==
    /\ Goto(p, "unlink_dead", "open")
    /\ Unlink(p)
    /\ UNCHANGED <<ownerLive, waited>>

\* The second read of the file.
CheckLive(p) ==
    /\ Goto(p, "live_check", "stat")
    /\ ownerLive' = [ownerLive EXCEPT ![p] = OwnerIsLive]
    /\ UNCHANGED <<lock, waited>>

\* The fallback by age, only when the second read showed no live owner.
Reclaimable(p) == ~ownerLive[p] /\ lock.age > Timeout

\* stat fails, the lock is gone: try again, without looking at the deadline.
StatGone(p) ==
    /\ lock = None
    /\ Goto(p, "stat", "open")
    /\ UNCHANGED <<lock, ownerLive, waited>>

StatOld(p) ==
    /\ lock # None
    /\ Reclaimable(p)
    /\ Goto(p, "stat", "unlink_old")
    /\ UNCHANGED <<lock, ownerLive, waited>>

\* Bug: whoever gives up clears the way for the next one.
GiveUpUnlinking(p) ==
    /\ lock # None
    /\ waited[p] >= Timeout
    /\ Goto(p, "stat", "idle")
    /\ lock' = None
    /\ UNCHANGED <<ownerLive, waited>>

\* The deadline has passed: TimeoutError.
GiveUp(p) ==
    /\ lock # None
    /\ ~Reclaimable(p)
    /\ waited[p] >= Timeout
    /\ Goto(p, "stat", "idle")
    /\ UNCHANGED <<lock, ownerLive, waited>>

\* Bug: the deadline does not end the loop.
SleepForever(p) ==
    /\ lock # None
    /\ Goto(p, "stat", "open")
    /\ UNCHANGED <<lock, ownerLive, waited>>

\* time.sleep(poll), then try again.
Sleep(p) ==
    /\ lock # None
    /\ ~Reclaimable(p)
    /\ waited[p] < Timeout
    /\ Goto(p, "stat", "open")
    /\ UNCHANGED <<lock, ownerLive, waited>>

UnlinkOld(p) ==
    /\ Goto(p, "unlink_old", "open")
    /\ Unlink(p)
    /\ UNCHANGED <<ownerLive, waited>>

\* The body of register_trial ends, by returning or by raising.
LeaveBody(p) ==
    /\ Goto(p, "body", "release")
    /\ UNCHANGED <<lock, ownerLive, waited>>

\* The `finally`: unlink of the file that has the name now, if there is one.
Release(p) ==
    /\ Goto(p, "release", "idle")
    /\ lock' = None
    /\ UNCHANGED <<ownerLive, waited>>

\* Only FileNotFoundError is passed over here: any other leaves register_trial, and
\* the lock of a live process stays.
ReleaseFails(p) ==
    /\ p \in UnlinkError
    /\ Goto(p, "release", "idle")
    /\ UNCHANGED <<lock, ownerLive, waited>>

-----------------------------------------------------------------------------
\* Kill -9, or the machine's reset of that process, at any point of a call.
Crash(p) ==
    /\ p \in Mortal
    /\ pc[p] \notin {"idle", "crashed"}
    /\ pc' = [pc EXCEPT ![p] = "crashed"]
    /\ UNCHANGED <<lock, ownerLive, waited>>

\* A new process receives the pid of the dead one.
Respawn(p) ==
    /\ PidReuse
    /\ Goto(p, "crashed", "idle")
    /\ UNCHANGED <<lock, ownerLive, waited>>

Older(n, bound) == IF n < bound THEN n + 1 ELSE n

\* Time passes.  The two places named here are those where a long suspension
\* matters; a process outside Stalling goes through them within one tick.
Tick ==
    /\ \A p \in Proc \ Stalling : pc[p] \notin {"write", "stat"}
    /\ lock' = IF lock = None THEN None
               ELSE [lock EXCEPT !.age = Older(@, Timeout + 1)]
    /\ waited' = [p \in Proc |-> IF pc[p] \in Acquiring THEN Older(waited[p], Timeout)
                                                        ELSE waited[p]]
    /\ UNCHANGED <<pc, ownerLive>>

-----------------------------------------------------------------------------
\* The steps of the lock protocol, without the body it protects.
Acquire(p) ==
    \/ CreateLock(p) \/ WritePid(p) \/ WriteFails(p)
    \/ LockExists(p) \/ CheckDead(p) \/ UnlinkDead(p)
    \/ CheckLive(p) \/ StatGone(p) \/ StatOld(p) \/ UnlinkOld(p)
    \/ GiveUp(p) \/ Sleep(p)

Step(p) == Acquire(p) \/ LeaveBody(p) \/ Release(p) \/ ReleaseFails(p)

LockNext ==
    \/ \E p \in Proc : Call(p) \/ Step(p) \/ Crash(p) \/ Respawn(p)
    \/ Tick

LockSafety == LockInit /\ [][LockNext]_lockVars

\* A running process goes on, and time is never held back for ever.
LockFairness ==
    /\ \A p \in Proc : WF_lockVars(Step(p))
    /\ SF_lockVars(Tick)

LockSpec == LockSafety /\ LockFairness

-----------------------------------------------------------------------------
(* Properties *)

\* Two processes are never between a successful acquire and the end of their
\* release at the same time: the read-modify-write of register_trial is serial.
MutualExclusion ==
    \A p, q \in Proc : pc[p] \in Holding /\ pc[q] \in Holding => p = q

\* Whoever holds the lock finds its own file, with its own pid, under the name:
\* the unlink of the release never deletes another process's lock, and a waiter
\* that reads the file sees a live owner.
HolderOwnsFile ==
    \A p \in Proc : pc[p] \in Holding => lock # None /\ lock.by = p /\ lock.pid = p

\* At most one waiter is between its decision to unlink and the unlink.
LoneReclaimer ==
    \A p, q \in Proc :
        pc[p] \in {"unlink_dead", "unlink_old"} /\ pc[q] \in {"unlink_dead", "unlink_old"} => p = q

\* A waiter that has read no live owner, and finds the file old, finds one that a
\* dead process or a failed write has left: nobody was suspended for so long.
AgeTellsDeath ==
    \A p \in Proc :
        pc[p] = "stat" /\ lock # None /\ Reclaimable(p) => pc[lock.by] \notin Holding \cup {"write"}

\* Two things only can undo the lock: two waiters that reclaim at the same time, and
\* an age that misleads.  Until one of them happens one process at a time is in the
\* body and its file stays under the name, however many processes there are,
\* whoever dies, whatever pids return and whichever writes and unlinks fail.
ExcludesUnlessRaced ==
    [](LoneReclaimer /\ AgeTellsDeath) => [](MutualExclusion /\ HolderOwnsFile)

\* "The timeout limits the waiting": every call ends, with the lock or without.
EveryCallEnds ==
    \A p \in Proc : pc[p] \in Acquiring \cup Holding ~> pc[p] \in {"idle", "crashed"}

\* What is left of it, for any number of calls: a call goes on for ever only if the
\* name is free again and again and others take it every time, or if unlinks of
\* the caller's own fail again and again.  A dead owner, an empty lock, a recycled
\* pid, one live owner that stays and an unlink that fails elsewhere end it.
EndlessOnlyAmongOthers ==
    \A p \in Proc :
        <>[](pc[p] \in Acquiring \cup Holding) =>
            \/ []<>(lock = None) /\ []<>(lock # None /\ lock.by # p)
            \/ p \in UnlinkError /\ []<>(pc[p] \in {"unlink_dead", "unlink_old"})

\* A lock left behind by a dead process is removed at once by any process that
\* meets it and may unlink it, however young it is (unless a new process has
\* received the pid, or the one that met it dies): the age and the deadline play no
\* part.
DeadOwnerReclaimed ==
    \A p \in Proc : \A q \in Proc \ UnlinkError :
        (lock # None /\ lock.pid = p /\ pc[p] = "crashed" /\ pc[q] = "open")
            ~> (~(lock # None /\ lock.pid = p) \/ pc[p] # "crashed" \/ pc[q] = "crashed")
=============================================================================
