--------------------------- MODULE MCStatsWrapper ---------------------------
(***************************************************************************)
(* StatsWrapper under a name of its own, beside the reports it starts and  *)
(* the watchdog that follows them (Hermes_proofs).                         *)
(***************************************************************************)
CONSTANTS Wrappers, NoPid, Reused

VARIABLES dir, pidIn, stamped, pc, found, rm, left, trap, bot, happened

Wrap == INSTANCE StatsWrapper WITH mishaps <- happened

ASSUME WrapAssumption == Wrap!Sound

WrapSpec == Wrap!Spec

----------------------------------------------------------------------------
(* The properties of StatsWrapper, by their names there.                   *)

\* One bot at a time, unless wrappers overlap while they take the lock, or get a
\* signal or a kill (the lock directory with the pid in it).
OneBot == Wrap!OneBot

\* No lock is left once all wrappers have ended, unless one was killed or two were
\* taking the lock at once (cleanup).
LockIsFreed == Wrap!LockIsFreed
=============================================================================
