------------------------------ MODULE MCLiveness ------------------------------
(***************************************************************************)
(* Two instances of FallbackRouter and two of TrialsLock, most of them     *)
(* here for what must happen in the end.  They share nothing, so the first *)
(* step chooses one of them.                                               *)
(*                                                                         *)
(* In the first router, of three calls with every fault, providers answer  *)
(* before a circuit that is open can turn half-open.  In the second,       *)
(* `Late`, of two calls, they may answer later than that, but nobody       *)
(* cancels.  In the first lock, `Pair`, of two processes, every fault is   *)
(* on.  In the second, `Three`, of three processes, nobody is suspended.   *)
(***************************************************************************)
EXTENDS MCFallbackRouter

CONSTANTS LateReset, \* the reset timeout of the second router
          p1, p2, p3, None

VARIABLES lateBrk, lateAsking, lateWaiting, lateOutcome, latePassed,
          lock, pc, ownerLive, waited, lock3, pc3, ownerLive3, waited3, moving

Late == INSTANCE FallbackRouter
        WITH Task <- TwoTasks, ResetTimeout <- LateReset, CanCancel <- FALSE,
             brk <- lateBrk, asking <- lateAsking, waiting <- lateWaiting,
             outcome <- lateOutcome, passed <- latePassed

Pair == INSTANCE TrialsLock
        WITH Proc <- {p1, p2}, Mortal <- {p1, p2}, Stalling <- {p1, p2},
             WriteError <- {p1, p2}, UnlinkError <- {p2}, PidReuse <- TRUE, Timeout <- 1

Three == INSTANCE TrialsLock
         WITH Proc <- {p1, p2, p3}, Mortal <- {p1, p2}, Stalling <- {},
              WriteError <- {}, UnlinkError <- {p2}, PidReuse <- FALSE, Timeout <- 1,
              lock <- lock3, pc <- pc3, ownerLive <- ownerLive3, waited <- waited3

lateVars  == <<lateBrk, lateAsking, lateWaiting, lateOutcome, latePassed>>
pairVars  == <<lock, pc, ownerLive, waited>>
threeVars == <<lock3, pc3, ownerLive3, waited3>>

LivenessInit == Init /\ Late!Init /\ Pair!LockInit /\ Three!LockInit /\ moving = "none"

Moves(part) == moving \in {"none", part} /\ moving' = part

LivenessNext ==
    \/ Moves("prompt") /\ Next /\ UNCHANGED <<lateVars, pairVars, threeVars>>
    \/ Moves("late") /\ Late!Next /\ UNCHANGED <<vars, pairVars, threeVars>>
    \/ Moves("pair") /\ Pair!LockNext /\ UNCHANGED <<vars, lateVars, threeVars>>
    \/ Moves("three") /\ Three!LockNext /\ UNCHANGED <<vars, lateVars, pairVars>>

LivenessSpec ==
    /\ LivenessInit
    /\ [][LivenessNext]_<<vars, lateVars, pairVars, threeVars, moving>>
    /\ \A c \in TwoTasks : WF_lateVars(Late!Answer(c))
    /\ SF_lateVars(Late!Tick)
    /\ Pair!LockFairness

\* NeverShutOut of the second router: with answers as late as they like, failures
\* and events that cannot be written, no provider is refused for ever.
LateNeverShutOut == Late!NeverShutOut

\* Which calls end, in the first lock.
EndlessOnlyAmongOthers == Pair!EndlessOnlyAmongOthers

\* A dead owner's lock goes, in the first.
DeadOwnerReclaimed == Pair!DeadOwnerReclaimed

\* Both keep the bodies apart until two waiters reclaim at the same time or an age
\* misleads.
ExcludesUnlessRaced == Pair!ExcludesUnlessRaced /\ Three!ExcludesUnlessRaced
=============================================================================
