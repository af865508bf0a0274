--------------------------- MODULE MCHermesStats ---------------------------
(***************************************************************************)
(* The Hermes scripts, over weeks of two days: a behaviour follows the     *)
(* wrappers that launchd starts (StatsWrapper), the reports that they are  *)
(* there to run (HermesStats), or the watchdog that comes after a report,  *)
(* and its repair runners (Watchdog).  A wrapper sees of the reports that  *)
(* the bot runs, the watchdog which output is zero; both are left open, so *)
(* the three share no variable and each is checked in full.                *)
(***************************************************************************)
EXTENDS HermesStats, MCStatsWrapper
LOCAL INSTANCE TLC

CONSTANTS Repaired, Watchdogs, Periods, TTL, MaxTime, MaxLaunches, FaultSets

VARIABLES part, mishaps, time, markers, watchdog, runners, skipped

Dog == INSTANCE Watchdog WITH Services <- Repaired

dogVars == <<mishaps, time, markers, watchdog, runners, skipped>>
wrapVars == <<dir, pidIn, stamped, pc, found, rm, left, trap, bot, happened>>
allVars == <<part, vars, dogVars, wrapVars>>

ASSUME RepairAssumption == Dog!Sound

----------------------------------------------------------------------------
\* What each service meets: reports that come late, are missed or run again, lost
\* records, runs that go on over a report or are killed.
AllSettings ==
  {[service |-> "jobseeker", faults |-> {"pruned", "late"}],
   [service |-> "jobseeker", faults |-> {"missed", "spanning"}],
   [service |-> "connectman", faults |-> {"late", "killed"}],
   [service |-> "connectman", faults |-> {"spanning"}],
   [service |-> "sendman", faults |-> {"missed", "again"}],
   [service |-> "postliker", faults |-> {"late"}]}

WrapperSymmetry == Permutations(Wrappers \ Reused)

\* Two and three ticks.
MCTTL == [daily |-> 2, weekly |-> 3]

AllFaultSets == {{"hermes"}, {"crash", "telegram", "hermes"}}

----------------------------------------------------------------------------
MCInit ==
  /\ part \in {"reports", "watchdog", "wrappers"} /\ Init /\ Dog!Init /\ Wrap!Init
  /\ part # "watchdog" => mishaps = CHOOSE f \in FaultSets : TRUE
  /\ part # "reports" =>
       [service |-> service, faults |-> faults] = CHOOSE s \in Settings : TRUE

Part(name, step, others) == part = name /\ step /\ UNCHANGED <<part, others>>

MCNext ==
  \/ Part("reports", Next, <<dogVars, wrapVars>>)
  \/ Part("watchdog", Dog!Next, <<vars, wrapVars>>)
  \/ Part("wrappers", Wrap!Next, <<vars, dogVars>>)

MCSpec == MCInit /\ [][MCNext]_allVars

----------------------------------------------------------------------------
(* The properties of Watchdog, by their names there.                       *)

\* A marker stands for one launch (recently_launched, main).
OneLaunchPerMarker == Dog!OneLaunchPerMarker
=============================================================================
