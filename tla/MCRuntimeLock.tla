--------------------------- MODULE MCRuntimeLock ---------------------------
(***************************************************************************)
(* RuntimeLock under a name of its own, beside the scheduler's passes that *)
(* start worker commands under it (Scheduler_proofs).                      *)
(***************************************************************************)
CONSTANTS Wrappers, Procs, Leader, NoWrapper, PollBudget

VARIABLES point, lock, owner, polls, pending, group, signalled, alone, code

Lock == INSTANCE RuntimeLock WITH pc <- point

ASSUME LockAssumption == Lock!Sound

LockSpec == Lock!Spec
FairLockSpec == Lock!FairSpec

----------------------------------------------------------------------------
(* The properties of RuntimeLock, by their names there.                    *)

\* Processes of one worker at a time (main holds the flock until the leader has
\* been waited for), unless a worker was left behind by SIGKILL, by a signal that
\* met its leader alone, or with TERM or INT on its way to all that is left.
OneWorkerAtATime == Lock!OneWorkerAtATime

\* A signal that came before the group was known is forwarded once it is
\* (_run_child, _pending_signal).
PendingReachedGroup == Lock!PendingReachedGroup

\* A wrapper that forwarded a signal ends, and its lock with it (_run_child, main).
SignalledWrapperEnds == Lock!SignalledWrapperEnds
=============================================================================
