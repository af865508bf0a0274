---------------------------- MODULE HermesStats ----------------------------
(***************************************************************************)
(* scripts/hermes_container_status_bot.py: every morning a daily report    *)
(* counts what a service did in the last 24 hours and writes a ledger      *)
(* under today's date; on Mondays a weekly report sums the ledgers of the  *)
(* last week, making up for those that are missing.                        *)
(*                                                                         *)
(* The services are counted apart, each from sources of its own; a         *)
(* behaviour follows one of them.  A ledger stands for its number by the   *)
(* set of actions it counts.                                               *)
(***************************************************************************)
EXTENDS Integers, FiniteSets, FiniteSetsExt

CONSTANTS
  Settings,    \* the services followed, each with the faults it meets: see Setting
  Week,        \* bound: days of a week, 7 in the code
  MaxDay,      \* bound: days
  MaxActions   \* bound: actions of the service

\* The Mac sleeps through a daily report, or wakes up late for it; it is run again
\* later in the day; JobSeeker's progress file loses records; a run is at work
\* when a report is made; a run of ConnectMan's is killed.
AllFaults == {"missed", "late", "again", "pruned", "spanning", "killed"}

Services == {"jobseeker", "connectman", "sendman", "postliker"}
Setting ==
  {s \in [service : Services, faults : SUBSET AllFaults] :
     /\ "pruned" \in s.faults => s.service = "jobseeker"
     /\ "spanning" \in s.faults => s.service \in {"jobseeker", "connectman"}
     /\ "killed" \in s.faults => s.service = "connectman"}

ASSUME SettingAssumption == Settings \subseteq Setting
ASSUME BoundAssumption == Week \in Nat \ {0} /\ MaxDay \in Nat \ {0} /\ MaxActions \in Nat

VARIABLES
  service,
  faults,     \* those that may happen; both never change
  now,        \* the part of the day it is: see Slot
  acts,       \* the actions, with the slots of the action and of its run's start, and
              \* whether the run was one of ConnectMan's soft recruiter
  printed,    \* the runs whose summaries are in ConnectMan's log
  progress,   \* those that JobSeeker's progress files record
  daily,      \* the ledger of each day
  weekly,     \* the ledger of each week
  report      \* a weekly report that is being made

vars == <<service, faults, now, acts, printed, progress, daily, weekly, report>>

----------------------------------------------------------------------------
\* Three slots a day: until 09:30, until the evening, until midnight.
Slot == 1..(3 * MaxDay)
Day == 1..MaxDay
DayOf(s) == ((s - 1) \div 3) + 1
Morning(d) == 3 * d - 2
Today == DayOf(now)
WeekOf(d) == ((d - 1) \div Week) + 1
DaysOf(w) == {d \in Day : WeekOf(d) = w}
Weeks == {WeekOf(d) : d \in Day}

Action == [at : Slot, run : Slot, soft : BOOLEAN]

\* made: when it was made.
Ledger == [counted : SUBSET Action, made : Slot \cup {0}, backfilled : BOOLEAN]
NoLedger == [counted |-> {}, made |-> 0, backfilled |-> FALSE]
Report == [week : Weeks \cup {0}, day : Day \cup {MaxDay + 1, 0}, sum : Nat]
NoReport == [week |-> 0, day |-> 0, sum |-> 0]

\* Types; what is counted has happened, and no ledger is ahead of the date.
TypeOK ==
  /\ [service |-> service, faults |-> faults] \in Settings /\ now \in Slot
  /\ acts \subseteq Action /\ printed \subseteq Slot /\ progress \subseteq acts
  /\ \A a \in acts : a.run <= a.at /\ a.at <= now
  /\ DOMAIN daily = Day /\ \A d \in Day : daily[d] \in Ledger /\ daily[d].counted \subseteq acts
  /\ \A d \in Day : daily[d] # NoLedger => d <= Today
  /\ weekly \in [Weeks -> Nat \cup {-1}] /\ report \in Report

Init ==
  /\ \E s \in Settings : service = s.service /\ faults = s.faults
  /\ now = 1 /\ acts = {} /\ printed = {} /\ progress = {}
  /\ daily = [d \in Day |-> NoLedger] /\ weekly = [w \in Weeks |-> -1] /\ report = NoReport

----------------------------------------------------------------------------
(* What a service did in a window.                                         *)

\* jobseeker_log_events: outcomes in the log have the time of their run's start.
Logged(window) == {a \in acts : a.run \in window}

\* jobseeker_progress_stats: records of the progress files have their own.
Recorded(window) == {a \in progress : a.at \in window}

\* Mutant: one source alone.
JobSeekerRecorded(window) == Recorded(window)

\* jobseeker_stats: the larger number.
JobSeekerStats(window) ==
  IF Cardinality(Logged(window)) >= Cardinality(Recorded(window))
  THEN Logged(window) ELSE Recorded(window)

\* Is its run the last one, which ConnectMan's status file tells of?
Latest(a) == \A b \in acts : b.run <= a.run

\* connectman_stats: what the standard runs that started in the window did in it,
\* as far as the log or the status file has them.
ConnectManStats(window) ==
  {a \in acts : /\ ~a.soft /\ (a.run \in printed \/ Latest(a))
                /\ a.run \in window /\ a.at \in window}

\* sendman_stats: each action has its time.
SendManStats(window) == {a \in acts : a.at \in window}

\* postliker_stats: the runs whose directories have one of the dates.
PostLikerStats(dates) == {a \in acts : DayOf(a.run) \in dates}

Stats(window, dates) ==
  CASE service = "jobseeker" -> JobSeekerStats(window)
    [] service = "connectman" -> ConnectManStats(window)
    [] service = "sendman" -> SendManStats(window)
    [] service = "postliker" -> PostLikerStats(dates)

----------------------------------------------------------------------------
(* Reports.                                                                *)

\* Mutant: since midnight, as it once was.
LastDaySinceMidnight == {s \in Slot : Morning(Today) <= s /\ s < now}

\* 24 hours up to a moment.
DayUpTo(moment) == {s \in Slot : moment - 3 <= s /\ s < moment}

\* period_range("daily"): whenever it is launched.
LastDay == DayUpTo(now)

\* Mutant: the date on which the window begins.
LedgerDayStart == IF Today = 1 THEN 1 ELSE Today - 1

\* daily_ledger_path: the date of the window's end.
LedgerDay == Today

\* Nothing has happened in the present slot yet.
SlotBegins == \A a \in acts : a.at # now

\* 09:30; or, when the Mac wakes up or by hand, in the evening.
DailyReport ==
  /\ SlotBegins
  /\ \/ now = Morning(Today) + 1 /\ daily[LedgerDay] = NoLedger
     \/ "late" \in faults /\ now = Morning(Today) + 2 /\ daily[LedgerDay] = NoLedger
     \/ "again" \in faults /\ now = Morning(Today) + 2
  /\ daily' = [daily EXCEPT ![LedgerDay] =
                 [counted |-> Stats(LastDay, {Today - 1, Today}), made |-> now,
                  backfilled |-> FALSE]]
  /\ UNCHANGED <<service, faults, now, acts, printed, progress, weekly, report>>

\* build_weekly_summary: the week before this one.
WeeklyReport ==
  /\ report = NoReport /\ WeekOf(Today) > 1
  /\ LET w == WeekOf(Today) - 1
     IN report' = [week |-> w, day |-> (w - 1) * Week + 1, sum |-> 0]
  /\ UNCHANGED <<service, faults, now, acts, printed, progress, daily, weekly>>

\* A missing ledger is made from what there is for the calendar day.
Backfilled(d) ==
  LET slots == {s \in Slot : DayOf(s) = d}
  IN [counted |-> Stats(slots, {d}), made |-> now, backfilled |-> TRUE]

\* read_daily_summary_for_date
LedgerOf(d) == IF daily[d] = NoLedger THEN Backfilled(d) ELSE daily[d]

WeeklyDay ==
  /\ report # NoReport /\ report.day \in DaysOf(report.week)
  /\ daily' = [daily EXCEPT ![report.day] = LedgerOf(report.day)]
  /\ report' = [report EXCEPT !.day = @ + 1, !.sum = @ + Cardinality(LedgerOf(report.day).counted)]
  /\ UNCHANGED <<service, faults, now, acts, printed, progress, weekly>>

WriteWeekly ==
  /\ report # NoReport /\ report.day \notin DaysOf(report.week)
  /\ weekly' = [weekly EXCEPT ![report.week] = report.sum]
  /\ report' = NoReport
  /\ UNCHANGED <<service, faults, now, acts, printed, progress, daily>>

\* The wrapper's timeout, or the Mac goes down.
KillReport ==
  /\ report # NoReport /\ report' = NoReport
  /\ UNCHANGED <<service, faults, now, acts, printed, progress, daily, weekly>>

----------------------------------------------------------------------------
(* The services and the clock.                                             *)

\* launchd starts the daily report at 09:30, or when the Mac wakes up.
ReportDue ==
  /\ "missed" \notin faults /\ daily[Today] = NoLedger
  /\ \/ now = Morning(Today) + 1 /\ "late" \notin faults
     \/ now = Morning(Today) + 2

\* One run after the other, at most one begins in a slot, and ConnectMan's end with
\* a summary, unless they are killed.
Follows(a) ==
  \A b \in acts :
    /\ b.run <= a.run /\ (b.run = a.run => b.soft = a.soft)
    /\ service = "connectman" =>
         IF b.run = a.run THEN b.run \notin printed ELSE b.run \in printed \/ "killed" \in faults

\* Actions happen in the slot their run started in, or in the next one.
Act ==
  /\ Cardinality(acts) < MaxActions /\ ~ReportDue
  /\ \E run \in Slot, soft \in BOOLEAN :
       LET a == [at |-> now, run |-> run, soft |-> soft]
       IN /\ run = now \/ ("spanning" \in faults /\ run = now - 1)
          /\ soft => service = "connectman"
          /\ a \notin acts /\ Follows(a)
          /\ acts' = acts \cup {a} /\ progress' = progress \cup {a}
  /\ UNCHANGED <<service, faults, now, printed, daily, weekly, report>>

\* A run of ConnectMan's ends, and its status goes to the log as well.
EndRun ==
  /\ service = "connectman"
  /\ \E a \in acts : Latest(a) /\ a.run \notin printed /\ printed' = printed \cup {a.run}
  /\ UNCHANGED <<service, faults, now, acts, progress, daily, weekly, report>>

\* JobSeeker's next extraction does not list the job any more.
Prune ==
  /\ "pruned" \in faults /\ \E a \in progress : progress' = progress \ {a}
  /\ UNCHANGED <<service, faults, now, acts, printed, daily, weekly, report>>

Tick ==
  /\ now + 1 \in Slot /\ ~ReportDue /\ now' = now + 1
  /\ UNCHANGED <<service, faults, acts, printed, progress, daily, weekly, report>>

Next ==
  \/ DailyReport \/ WeeklyReport \/ WeeklyDay \/ WriteWeekly \/ KillReport
  \/ Act \/ EndRun \/ Prune \/ Tick

Spec == Init /\ [][Next]_vars

----------------------------------------------------------------------------
(* Properties.                                                             *)

\* Is it a daily report's, and not made up afterwards for the weekly one?
Daily(d) == daily[d] # NoLedger /\ ~daily[d].backfilled

\* JobSeeker's log and its progress files, both incomplete: a run that goes on over
\* a report is in the log at its start only.  The number may then be too low.
NoSource == {"pruned", "spanning"} \subseteq faults

\* A killed run of ConnectMan's is in the status file until the next one begins.
Overwritten(a) == a.run \notin printed /\ \E b \in acts : a.run < b.run

\* What ConnectMan did in a ledger's window and the ledger leaves out: runs that
\* were overwritten, and those that had begun before the window.
LeftOut(a, d) == service = "connectman" /\ (Overwritten(a) \/ a.run < daily[d].made - 3)

\* What a service did in the 24 hours of a ledger; the soft recruiter's invitations
\* are not among what is counted as "sent" (iter_connectman_log_statuses).
Done(d) == {a \in acts : ~a.soft /\ a.at \in DayUpTo(daily[d].made)}

\* A ledger counts what was done in its 24 hours, whenever it was launched and
\* though neither of JobSeeker's sources has it all (jobseeker_stats) and what
\* ConnectMan did is found in two places (connectman_stats).  PostLiker's runs
\* are counted by date (postliker_stats).
LedgersAreTrue ==
  service # "postliker" /\ ~NoSource =>
    \A d \in Day : Daily(d) =>
      /\ daily[d].counted \subseteq Done(d)
      /\ \A a \in Done(d) \ daily[d].counted : LeftOut(a, d)

\* "one rolling-24h action summary; weekly reports sum these daily ledgers"
\* (hermes_container_status_bot.py:1000): two ledgers made 24 hours apart or more
\* have no action in common, PostLiker's apart; made 24 hours apart or less, with
\* none between them, they leave out nothing that was done in between
\* (period_range, daily_ledger_path).  So each action is in one daily ledger as
\* far as the reports are exactly a day apart, which is up to launchd.
InOneLedger ==
  ~NoSource =>
    \A d, e \in Day : d < e /\ Daily(d) /\ Daily(e) =>
      /\ service # "postliker" /\ daily[e].made >= daily[d].made + 3 =>
           daily[d].counted \cap daily[e].counted = {}
      /\ daily[e].made <= daily[d].made + 3 =>
           \A a \in acts : ~a.soft /\ daily[d].made <= a.at /\ a.at < daily[e].made =>
             a \in daily[e].counted \/ LeftOut(a, e)

\* A week that was reported stays as it was: later reports change none of its
\* ledgers (daily_ledger_path, build_weekly_summary).
ReportedWeeksStay ==
  [][\A w \in Weeks : weekly[w] # -1 => \A d \in DaysOf(w) : daily'[d] = daily[d]]_vars
=============================================================================
