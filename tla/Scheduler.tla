----------------------------- MODULE Scheduler -----------------------------
(***************************************************************************)
(* scripts/linkedin_scheduler.py: the central scheduler on the host.       *)
(* launchd calls "run-due" every minute for ever, the owner may call       *)
(* "run-all".  A pass takes the host lock, turns attempts left "running"   *)
(* into "interrupted", plans the tasks due at the moment it was called and *)
(* runs them one after the other in their containers, writing the state    *)
(* file before and after each.  A worker needs the runtime lock that all   *)
(* containers share (RuntimeLock); the scheduler sees a busy lock as an    *)
(* exit with code 0 and a message.                                         *)
(*                                                                         *)
(* A time is a day and one of the SlotsPerDay parts of it; day 0 is a      *)
(* Monday.  The host lock admits one pass at a time and turns others away  *)
(* at once, so only the pass that has it is modelled.  The state file is   *)
(* replaced atomically, and the pass's copy is written whenever it is      *)
(* changed: one variable stands for both.                                  *)
(***************************************************************************)
EXTENDS Integers, Sequences

CONSTANTS
  Tasks,          \* the tasks of this installation
  Actions,        \* the commands in use
  SlotsPerDay,
  PostLikerSlot, SendManSlot, ConnectManSlot,  \* 06:00, 09:00, 11:00
  RetrySlots,     \* JOBSEEKER_RETRY_INTERVAL
  HistoryCap,     \* attempts kept in a task's history: 50
  FirstDay,       \* the day of the installation
  MaxDay,         \* bound: the last day
  NoTask          \* no task

AllTasks == {"postliker", "connectman", "sendman", "jobseeker"}

ASSUME TaskAssumption == Tasks \subseteq AllTasks
ASSUME ActionAssumption == Actions \subseteq {"run-due", "run-all"}
ASSUME TimeAssumption == SlotsPerDay \in Nat \ {0} /\ MaxDay \in Nat /\ FirstDay \in 0..MaxDay
ASSUME CapAssumption == HistoryCap \in Nat \ {0}
ASSUME NobodyAssumption == NoTask \notin AllTasks

VARIABLES
  today, slot,        \* the time
  file,               \* the state file: one record per task
  pc, queue, cur, result,  \* the pass
  nowDay,             \* the day of "now": when the pass was called
  busy,               \* a worker no pass waits for has the runtime lock
  ledger              \* what the file may forget: see Entry

timeVars == <<today, slot>>
passVars == <<pc, queue, cur, result, nowDay>>
vars == <<timeVars, file, passVars, busy, ledger>>

----------------------------------------------------------------------------
(* The state file.                                                         *)

Statuses == {"none", "running", "completed", "failed", "skipped", "interrupted"}

\* Mutant: only a success counts as an execution.
ExecutedCompletedOnly == {"completed"}

\* EXECUTED_TERMINAL_STATUSES.
Executed == {"completed", "failed"}

\* last_attempt or an entry of the history.  finished_at (day, slot) and
\* blocked_until (the midnight at which day "until" begins; 0: none) are kept
\* for executed attempts, the only ones they are read of.
Attempt == [status : Statuses, day : Nat, slot : Nat, until : Nat]

Unexecuted(status) == [status |-> status, day |-> 0, slot |-> 0, until |-> 0]

TaskState == [last : Attempt, hist : Seq(Attempt)]

Untried == [last |-> Unexecuted("none"), hist |-> <<>>]

\* hist + [last_attempt], as the readers of the file put them together.
Attempts(ts) == Append(ts.hist, ts.last)

ExecutedAttempts(ts) == {k \in 1..Len(Attempts(ts)) : Attempts(ts)[k].status \in Executed}

\* Mutant: an interrupted attempt or a skip counts as executed.
HasAttemptSinceAny(ts, day) ==
  \/ ts.last.status \in {"skipped", "interrupted"}
  \/ \E k \in ExecutedAttempts(ts) : Attempts(ts)[k].day >= day

\* has_attempt_since the midnight that day begins with.
HasAttemptSince(ts, day) == \E k \in ExecutedAttempts(ts) : Attempts(ts)[k].day >= day

\* Mutant: the history is read, last_attempt is not.
HasCompletedSinceInHistory(ts, day) ==
  \E k \in 1..Len(ts.hist) : ts.hist[k].status = "completed" /\ ts.hist[k].day >= day

\* has_completed_since the midnight that day begins with.
HasCompletedSince(ts, day) ==
  \E k \in 1..Len(Attempts(ts)) :
    Attempts(ts)[k].status = "completed" /\ Attempts(ts)[k].day >= day

\* last_executed_attempt: the maximum by finished_at; the attempts of a task
\* are recorded in the order they finish in.
LastExecuted(ts) ==
  IF ExecutedAttempts(ts) = {} THEN Unexecuted("none")
  ELSE Attempts(ts)[CHOOSE k \in ExecutedAttempts(ts) : \A j \in ExecutedAttempts(ts) : j <= k]

\* is_jobseeker_blocked_until_midnight.
Blocked(ts, day) == day < LastExecuted(ts).until

\* Mutant: only a completed attempt is final for the day.
HasDailyTerminalCompleted(t, day, ts) ==
  IF t = "jobseeker" THEN Blocked(ts, day) ELSE HasCompletedSince(ts, day)

\* Mutant: JobSeeker's block is left to is_due, which run-all does not ask.
HasDailyTerminalFixed(t, day, ts) == t # "jobseeker" /\ HasAttemptSince(ts, day)

\* has_daily_terminal_attempt.
HasDailyTerminal(t, day, ts) ==
  IF t = "jobseeker" THEN Blocked(ts, day) ELSE HasAttemptSince(ts, day)

\* is_jobseeker_due.
JobSeekerDue(day, s, ts) ==
  LET a == LastExecuted(ts)
  IN /\ ~Blocked(ts, day)
     /\ a.status = "none" \/ (day - a.day) * SlotsPerDay + (s - a.slot) >= RetrySlots

\* connectman's part of is_due: Monday, or from Wednesday on if it did not
\* complete this week.
ConnectManDue(day, s, ts) ==
  LET weekday == day % 7
      monday == day - weekday
  IN /\ ~HasCompletedSince(ts, monday)
     /\ \/ weekday = 0 /\ s >= ConnectManSlot /\ ~HasAttemptSince(ts, monday)
        \/ weekday = 2 /\ s >= ConnectManSlot
        \/ weekday > 2

\* is_due.
IsDue(t, day, s, ts) ==
  /\ ~HasDailyTerminal(t, day, ts)
  /\ CASE t = "postliker" -> s >= PostLikerSlot
       [] t = "sendman" -> s >= SendManSlot
       [] t = "connectman" -> ConnectManDue(day, s, ts)
       [] t = "jobseeker" -> JobSeekerDue(day, s, ts)

\* plan_due.
Plan(action, day, s, f) ==
  IF action = "run-all" THEN {t \in Tasks : ~HasDailyTerminal(t, day, f[t])}
  ELSE {t \in Tasks : IsDue(t, day, s, f[t])}

\* The order of a queue, both for run-due (sorted by priority, JobSeeker last)
\* and for run-all (RUN_ALL_ORDER).
Priority(t) == CASE t = "postliker" -> 10 [] t = "connectman" -> 20
                 [] t = "sendman" -> 30 [] t = "jobseeker" -> 100

\* append_history.
Remember(hist, a) ==
  LET all == Append(hist, a)
  IN IF Len(all) > HistoryCap THEN SubSeq(all, Len(all) - HistoryCap + 1, Len(all)) ELSE all

\* mark_attempt_started.
Started(ts) ==
  [last |-> Unexecuted("running"),
   hist |-> IF ts.last.status \in {"none", "running"} THEN ts.hist ELSE Remember(ts.hist, ts.last)]

\* finish_attempt of the attempt that mark_attempt_started began.
Ended(ts, a) == [ts EXCEPT !.last = a]

\* recover_stale_running.
Recovered(ts) ==
  IF ts.last.status = "running" THEN [ts EXCEPT !.last = Unexecuted("interrupted")] ELSE ts

----------------------------------------------------------------------------
(* How a task's run may end.  "skip": the runtime lock was busy, exit code *)
(* 0.  "safety": exit code 11 or 12.  dod: the output says that JobSeeker  *)
(* reached its quota.                                                      *)

NoResult == [rc |-> "none", dod |-> FALSE]

Exits(t) ==
  {res \in [rc : {"ok", "failed", "safety"}, dod : BOOLEAN] : res.dod => t = "jobseeker"}

Results == {NoResult} \cup [rc : {"ok", "failed", "safety", "timeout", "skip"}, dod : BOOLEAN]

\* jobseeker_attempt_extra: the next midnight, after a quota or a safety stop.
BlockedUntil(t, res) ==
  IF t = "jobseeker" /\ (res.dod \/ res.rc = "safety") THEN today + 1 ELSE 0

\* What is remembered of an executed attempt: whether it completed, the day it
\* finished on and the block it set.
Entry == [completed : BOOLEAN, day : Nat, until : Nat]

EntryOf(a) == [completed |-> a.status = "completed", day |-> a.day, until |-> a.until]

\* The attempt run_queue records for a run that was not skipped.
Outcome(t, res) ==
  [status |-> IF res.rc = "ok" THEN "completed" ELSE "failed",
   day |-> today, slot |-> slot, until |-> BlockedUntil(t, res)]

----------------------------------------------------------------------------
TypeOK ==
  /\ today \in 0..MaxDay /\ slot \in 0..(SlotsPerDay - 1)
  /\ file \in [Tasks -> TaskState]
  /\ \A t \in Tasks : Len(file[t].hist) <= HistoryCap
  /\ pc \in {"idle", "queue", "starting", "working", "ended"}
  /\ queue \in SUBSET Tasks
  /\ cur \in Tasks \cup {NoTask}
  /\ result \in Results
  /\ nowDay \in 0..today
  /\ busy \in BOOLEAN
  /\ ledger \in [Tasks -> SUBSET Entry]

Init ==
  /\ today = FirstDay /\ slot = 0
  /\ file = [t \in Tasks |-> Untried]
  /\ pc = "idle" /\ queue = {} /\ cur = NoTask /\ result = NoResult
  /\ nowDay = 0
  /\ busy = FALSE
  /\ ledger = [t \in Tasks |-> {}]

\* Time goes by, within a pass too.
Tick ==
  /\ \/ slot < SlotsPerDay - 1 /\ slot' = slot + 1 /\ today' = today
     \/ slot = SlotsPerDay - 1 /\ today < MaxDay /\ slot' = 0 /\ today' = today + 1
  /\ UNCHANGED <<file, passVars, busy, ledger>>

\* The pass is over: the process exits and the host lock is free.
Over ==
  /\ pc' = "idle" /\ queue' = {} /\ cur' = NoTask /\ result' = NoResult
  /\ nowDay' = 0

\* main and run_queue up to the plan.
StartPass(action) ==
  /\ pc = "idle"
  /\ pc' = "queue" /\ nowDay' = today
  /\ file' = [t \in Tasks |-> Recovered(file[t])]
  /\ queue' = Plan(action, today, slot, file')
  /\ UNCHANGED <<timeVars, cur, result, busy, ledger>>

\* The next task is marked as running in the file, then started.
BeginTask(t) ==
  /\ pc = "queue" /\ t \in queue
  /\ \A u \in queue : Priority(t) <= Priority(u)
  /\ pc' = "starting" /\ cur' = t /\ queue' = queue \ {t}
  /\ file' = [file EXCEPT ![t] = Started(@)]
  /\ UNCHANGED <<timeVars, result, nowDay, busy, ledger>>

\* The process of the task ended with result res.
EndWith(res) == pc' = "ended" /\ result' = res /\ UNCHANGED <<queue, cur, nowDay>>

\* linkedin_runtime_lock.py in the container gets the lock and runs the worker.
LaunchWorker ==
  /\ pc = "starting" /\ ~busy
  /\ pc' = "working"
  /\ UNCHANGED <<timeVars, file, queue, cur, result, nowDay, busy, ledger>>

\* ... or finds the lock busy ...
LaunchBusy ==
  /\ pc = "starting" /\ busy
  /\ EndWith([rc |-> "skip", dod |-> FALSE])
  /\ UNCHANGED <<timeVars, file, busy, ledger>>

\* ... or docker does not get that far.
LaunchError ==
  /\ pc = "starting"
  /\ \E rc \in {"failed", "timeout"} : EndWith([rc |-> rc, dod |-> FALSE])
  /\ UNCHANGED <<timeVars, file, busy, ledger>>

WorkerExits ==
  /\ pc = "working"
  /\ \E res \in Exits(cur) : EndWith(res)
  /\ UNCHANGED <<timeVars, file, busy, ledger>>

\* default_runner's timeout: the host side is killed, and the cleanup in the
\* container ends the worker or (an error of docker is swallowed) does not.
Timeout ==
  /\ pc = "working"
  /\ EndWith([rc |-> "timeout", dod |-> FALSE])
  /\ busy' \in BOOLEAN
  /\ UNCHANGED <<timeVars, file, ledger>>

\* A busy lock: recorded as skipped, the pass is over with exit code 75.
RecordSkip ==
  /\ pc = "ended" /\ result.rc = "skip"
  /\ file' = [file EXCEPT ![cur] = Ended(@, Unexecuted("skipped"))]
  /\ Over
  /\ UNCHANGED <<timeVars, busy, ledger>>

\* Any other end is recorded; a safety stop ends the pass.
RecordOutcome ==
  /\ pc = "ended" /\ result.rc # "skip"
  /\ LET a == Outcome(cur, result)
     IN /\ file' = [file EXCEPT ![cur] = Ended(@, a)]
        /\ ledger' = [ledger EXCEPT ![cur] = @ \cup {EntryOf(a)}]
  /\ IF result.rc = "safety" THEN Over
     ELSE /\ pc' = "queue" /\ cur' = NoTask /\ result' = NoResult
          /\ UNCHANGED <<queue, nowDay>>
  /\ UNCHANGED <<timeVars, busy>>

EndPass ==
  /\ pc = "queue" /\ queue = {}
  /\ Over
  /\ UNCHANGED <<timeVars, file, busy, ledger>>

\* The scheduler's process dies; a worker it waited for goes on in the
\* container.
Crash ==
  /\ pc # "idle"
  /\ Over
  /\ busy' = (busy \/ pc = "working")
  /\ UNCHANGED <<timeVars, file, ledger>>

\* A worker that no pass waits for ends.
OrphanEnds ==
  /\ busy
  /\ busy' = FALSE
  /\ UNCHANGED <<timeVars, file, passVars, ledger>>

\* Someone calls run.sh in a container by hand.
OutsideRun ==
  /\ ~busy /\ pc # "working"
  /\ busy' = TRUE
  /\ UNCHANGED <<timeVars, file, passVars, ledger>>

PassStep ==
  \/ \E t \in Tasks : BeginTask(t)
  \/ LaunchWorker \/ LaunchBusy \/ LaunchError
  \/ WorkerExits \/ Timeout
  \/ RecordSkip \/ RecordOutcome \/ EndPass

Next ==
  \/ Tick
  \/ \E action \in Actions : StartPass(action)
  \/ PassStep
  \/ Crash \/ OrphanEnds \/ OutsideRun

Spec == Init /\ [][Next]_vars

----------------------------------------------------------------------------
(* Safety.                                                                 *)

Fixed == Tasks \ {"jobseeker"}

\* A fixed task is executed at most once a day (the labels of lines 72-77): the
\* pass that runs it was called after the last day it was executed on, whatever
\* mix of run-due and run-all, skips, crashes and passes that go past midnight
\* came before.
OncePerDay == cur \in Fixed => \A e \in ledger[cur] : e.day < nowDay

\* When only run-due is used, ConnectMan does not run in a week in which it
\* completed (lines 303-306), although the history the answer is read from is
\* capped and skips push attempts out of it.
CompletedOncePerWeek ==
  Actions = {"run-due"} /\ cur = "connectman" =>
    \A e \in ledger[cur] : e.completed => e.day < nowDay - (nowDay % 7)

\* JobSeeker does not run while a quota or a safety stop that was ever
\* recorded blocks it (lines 213-218, 231-234): the history may forget, other
\* attempts, skips and crashes may follow, run-all may ask.
BlockRespected == cur = "jobseeker" => \A e \in ledger[cur] : e.until <= nowDay

\* A task that is due stays due until an execution of it is recorded: skips,
\* crashes, the recovery of a stale attempt and the capped history take nothing
\* away (README.md:46-47, lines 369-381).
DueUntilExecuted ==
  [][\A t \in Tasks :
       IsDue(t, today, slot, file[t]) /\ ~IsDue(t, today, slot, file'[t])
         => pc = "ended" /\ cur = t /\ result.rc # "skip"]_vars

----------------------------------------------------------------------------
(* Liveness.  launchd calls run-due for ever; a pass goes on; people run   *)
(* workers by hand and kill the scheduler finitely often.  Nothing says    *)
(* that a worker nobody waits for ends: SendMan's loop retries without a   *)
(* limit, and an error of the cleanup that should end it is swallowed.     *)

Fairness ==
  /\ WF_vars(StartPass("run-due"))
  /\ WF_vars(PassStep)
  /\ <>[][~Crash /\ ~OutsideRun]_vars

FairSpec == Spec /\ Fairness

\* A due task is executed, or time has made it not due, unless a worker that no
\* pass waits for keeps the runtime lock for ever (lines 409-412): such workers
\* may come back after any timeout and stay as long as they like, and neither
\* they nor safety stops and failures of the tasks before it starve a task.
DueIsExecuted ==
  []<>~busy =>
    \A t \in Tasks : IsDue(t, today, slot, file[t]) ~> ~IsDue(t, today, slot, file[t])
=============================================================================
