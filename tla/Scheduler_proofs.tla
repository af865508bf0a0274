-------------------------- MODULE Scheduler_proofs --------------------------
(***************************************************************************)
(* Theorems about Scheduler, for every set of tasks and commands, every    *)
(* division of the day, every history limit and every horizon; and about   *)
(* the lock its worker commands run under, RuntimeLock (Lock), for any     *)
(* number of wrappers, any worker process group and any poll budget.       *)
(***************************************************************************)
EXTENDS Scheduler, MCRuntimeLock, TLAPS, SequenceTheorems, WellFoundedInduction

----------------------------------------------------------------------------
(* What the helpers of linkedin_scheduler.py do to the state of one task.  *)

LEMMA UnexecutedType ==
  \A s \in Statuses : Unexecuted(s) \in Attempt /\ Unexecuted(s).status = s
  BY DEF Unexecuted, Attempt

LEMMA UntriedType == Untried \in TaskState /\ Len(Untried.hist) <= HistoryCap
  <1>1. Unexecuted("none") \in Attempt
    BY UnexecutedType DEF Statuses
  <1>2. << >> \in Seq(Attempt) /\ Len(<< >>) = 0
    OBVIOUS
  <1> QED
    BY <1>1, <1>2, CapAssumption DEF Untried, TaskState

\* append_history keeps at most HistoryCap attempts.
LEMMA RememberType ==
  ASSUME NEW hist \in Seq(Attempt), Len(hist) <= HistoryCap, NEW a \in Attempt
  PROVE  Remember(hist, a) \in Seq(Attempt) /\ Len(Remember(hist, a)) <= HistoryCap
  <1> DEFINE all == Append(hist, a)
             n   == Len(all)
             m   == n - HistoryCap + 1
  <1>1. all \in Seq(Attempt) /\ n = Len(hist) + 1 /\ n \in Nat /\ HistoryCap \in Nat
    BY CapAssumption
  <1>2. CASE n <= HistoryCap
    <2>1. Remember(hist, a) = all
      BY <1>1, <1>2 DEF Remember
    <2> QED
      BY <2>1, <1>1, <1>2
  <1>3. CASE n > HistoryCap
    <2>1. Remember(hist, a) = SubSeq(all, m, n)
      BY <1>1, <1>3 DEF Remember
    <2>2. m \in 1..(n + 1) /\ n \in m - 1 .. Len(all)
      BY <1>1, <1>3, CapAssumption
    <2>3. /\ SubSeq(all, m, n) \in Seq(Attempt)
          /\ Len(SubSeq(all, m, n)) = IF m <= n THEN n - m + 1 ELSE 0
      <3> HIDE DEF all, n, m
      <3> QED
        BY <2>2, <1>1, SubSeqProperties DEF n
    <2>4. m <= n /\ n - m + 1 = HistoryCap
      <3> HIDE DEF n
      <3> QED
        BY <1>1, CapAssumption
    <2> HIDE DEF all, n, m
    <2> QED
      BY <2>1, <2>3, <2>4
  <1> QED
    BY <1>1, <1>2, <1>3

LEMMA StartedType ==
  ASSUME NEW ts \in TaskState, Len(ts.hist) <= HistoryCap
  PROVE  Started(ts) \in TaskState /\ Len(Started(ts).hist) <= HistoryCap
  <1>1. Unexecuted("running") \in Attempt
    BY UnexecutedType DEF Statuses
  <1>2. /\ ts.last \in Attempt /\ ts.hist \in Seq(Attempt)
        /\ Remember(ts.hist, ts.last) \in Seq(Attempt)
        /\ Len(Remember(ts.hist, ts.last)) <= HistoryCap
    BY RememberType DEF TaskState
  <1> QED
    BY <1>1, <1>2 DEF Started, TaskState

LEMMA EndedType ==
  ASSUME NEW ts \in TaskState, NEW a \in Attempt
  PROVE  Ended(ts, a) \in TaskState /\ Ended(ts, a).hist = ts.hist /\ Ended(ts, a).last = a
  BY DEF Ended, TaskState

\* recover_stale_running touches neither the history nor an executed attempt.
LEMMA RecoveredType ==
  ASSUME NEW ts \in TaskState
  PROVE  /\ Recovered(ts) \in TaskState /\ Recovered(ts).hist = ts.hist
         /\ ts.last.status \in Executed => Recovered(ts) = ts
  <1>1. Unexecuted("interrupted") \in Attempt
    BY UnexecutedType DEF Statuses
  <1> QED
    BY <1>1 DEF Recovered, TaskState, Executed

\* The last attempt is one of the attempts the file is asked about.
LEMMA LastIsRead ==
  ASSUME NEW ts \in TaskState
  PROVE  /\ Len(Attempts(ts)) \in 1..Len(Attempts(ts))
         /\ Attempts(ts)[Len(Attempts(ts))] = ts.last
  <1>1. ts.hist \in Seq(Attempt) /\ ts.last \in Attempt
    BY DEF TaskState
  <1> QED
    BY <1>1 DEF Attempts

\* An executed last attempt is what has_attempt_since finds.
LEMMA ExecutedIsSeen ==
  ASSUME NEW ts \in TaskState, NEW day \in Nat, ts.last.status \in Executed, ts.last.day >= day
  PROVE  HasAttemptSince(ts, day)
  BY LastIsRead DEF HasAttemptSince, ExecutedAttempts

\* ... and a completed one what has_completed_since finds.
LEMMA CompletedIsSeen ==
  ASSUME NEW ts \in TaskState, NEW day, ts.last.status = "completed", ts.last.day >= day
  PROVE  HasCompletedSince(ts, day)
  BY LastIsRead DEF HasCompletedSince

\* ... and an executed one what last_executed_attempt returns.
LEMMA ExecutedIsLast ==
  ASSUME NEW ts \in TaskState, ts.last.status \in Executed
  PROVE  LastExecuted(ts) = ts.last
  <1> DEFINE K == ExecutedAttempts(ts)
             n == Len(Attempts(ts))
             c == CHOOSE k \in K : \A j \in K : j <= k
  <1>1. /\ n \in K /\ Attempts(ts)[n] = ts.last /\ n \in Nat
        /\ \A k \in K : k \in Nat /\ k <= n
    BY LastIsRead DEF ExecutedAttempts
  <1>2. c \in K /\ \A j \in K : j <= c
    <2> HIDE DEF K, n
    <2>1. \E k \in K : \A j \in K : j <= k
      BY <1>1
    <2> QED
      BY <2>1
  <1>3. c = n
    <2> HIDE DEF K, n, c
    <2> QED
      BY <1>1, <1>2
  <1>4. LastExecuted(ts) = Attempts(ts)[c]
    BY <1>1 DEF LastExecuted
  <1> QED
    BY <1>1, <1>3, <1>4

----------------------------------------------------------------------------
(* Types.                                                                  *)

\* A task is the current one from its start to the record of its end.
CurrentOK ==
  /\ pc \in {"starting", "working", "ended"} <=> cur \in Tasks
  /\ pc \in {"idle", "queue"} => cur = NoTask
  /\ pc = "idle" => queue = {}
  /\ cur \notin queue

TypeInv == TypeOK /\ CurrentOK

LEMMA OverType ==
  ASSUME TypeInv, Over, today' \in 0..MaxDay
  PROVE  /\ CurrentOK'
         /\ (queue \in SUBSET Tasks)' /\ (cur \in Tasks \cup {NoTask})'
         /\ (result \in Results)' /\ (nowDay \in 0..today)'
         /\ (pc \in {"idle", "queue", "starting", "working", "ended"})'
  BY TaskAssumption, NobodyAssumption, TimeAssumption
  DEF TypeInv, TypeOK, CurrentOK, Over, Results

LEMMA OutcomeType ==
  ASSUME TypeInv
  PROVE  /\ Outcome(cur, result) \in Attempt
         /\ EntryOf(Outcome(cur, result)) \in Entry
         /\ Outcome(cur, result).status \in Executed
         /\ Outcome(cur, result).day = today
         /\ Outcome(cur, result).until \in Nat
  <1>1. today \in Nat /\ slot \in Nat
    BY TimeAssumption DEF TypeInv, TypeOK
  <1>2. BlockedUntil(cur, result) \in Nat
    BY <1>1 DEF BlockedUntil
  <1> QED
    BY <1>1, <1>2 DEF Outcome, EntryOf, Entry, Attempt, Executed, Statuses

LEMMA TypeInit == Init => TypeInv
  <1> SUFFICES ASSUME Init PROVE TypeInv
    OBVIOUS
  <1>1. today \in 0..MaxDay /\ slot \in 0..(SlotsPerDay - 1) /\ nowDay \in 0..today
    BY TimeAssumption DEF Init
  <1>2. /\ file \in [Tasks -> TaskState]
        /\ \A t \in Tasks : Len(file[t].hist) <= HistoryCap
    BY UntriedType DEF Init
  <1>3. result \in Results /\ CurrentOK
    BY TaskAssumption, NobodyAssumption DEF Init, Results, CurrentOK
  <1> QED
    BY <1>1, <1>2, <1>3 DEF Init, TypeInv, TypeOK

\* One task's part of the file is replaced by one of the right type.
LEMMA FileUpdate ==
  ASSUME TypeInv, NEW t, NEW ts, file' = [file EXCEPT ![t] = ts],
         t \in Tasks => ts \in TaskState /\ Len(ts.hist) <= HistoryCap
  PROVE  /\ (file \in [Tasks -> TaskState])'
         /\ (\A u \in Tasks : Len(file[u].hist) <= HistoryCap)'
         /\ t \in Tasks => file'[t] = ts
         /\ \A u \in Tasks \ {t} : file'[u] = file[u]
  BY DEF TypeInv, TypeOK

LEMMA TypeStep == TypeInv /\ [Next]_vars => TypeInv'
  <1> SUFFICES ASSUME TypeInv, [Next]_vars PROVE TypeInv'
    OBVIOUS
  <1> USE DEF TypeInv
  <1>1. CASE Tick
    <2>1. (today \in 0..MaxDay)' /\ (slot \in 0..(SlotsPerDay - 1))' /\ (nowDay \in 0..today)'
      BY <1>1, TimeAssumption DEF Tick, TypeOK, passVars
    <2> QED
      BY <1>1, <2>1 DEF Tick, TypeOK, CurrentOK, passVars
  <1>2. ASSUME NEW action \in Actions, StartPass(action) PROVE TypeInv'
    <2>1. /\ (file \in [Tasks -> TaskState])'
          /\ (\A t \in Tasks : Len(file[t].hist) <= HistoryCap)'
      BY <1>2, RecoveredType DEF StartPass, TypeOK
    <2>2. (queue \in SUBSET Tasks)' /\ (nowDay \in 0..today)'
      BY <1>2 DEF StartPass, Plan, TypeOK, timeVars
    <2>3. CurrentOK'
      BY <1>2, <2>2, TaskAssumption, NobodyAssumption DEF StartPass, CurrentOK
    <2> QED
      BY <1>2, <2>1, <2>2, <2>3 DEF StartPass, TypeOK, timeVars
  <1>3. ASSUME NEW t \in Tasks, BeginTask(t) PROVE TypeInv'
    <2>1. file' = [file EXCEPT ![t] = Started(file[t])]
      BY <1>3 DEF BeginTask, TypeOK
    <2>2. Started(file[t]) \in TaskState /\ Len(Started(file[t]).hist) <= HistoryCap
      BY StartedType DEF TypeOK
    <2>3. /\ (file \in [Tasks -> TaskState])'
          /\ (\A u \in Tasks : Len(file[u].hist) <= HistoryCap)'
      BY <2>1, <2>2, FileUpdate
    <2> QED
      BY <1>3, <2>3 DEF BeginTask, TypeOK, CurrentOK, timeVars
  <1>4. CASE LaunchWorker
    BY <1>4 DEF LaunchWorker, TypeOK, CurrentOK, timeVars
  <1>5. CASE LaunchBusy
    BY <1>5 DEF LaunchBusy, EndWith, TypeOK, CurrentOK, timeVars, Results
  <1>6. CASE LaunchError
    BY <1>6 DEF LaunchError, EndWith, TypeOK, CurrentOK, timeVars, Results
  <1>7. CASE WorkerExits
    <2>1. PICK res \in Exits(cur) : EndWith(res)
      BY <1>7 DEF WorkerExits
    <2>2. res \in Results
      BY <2>1 DEF Exits, Results
    <2>3. pc' = "ended" /\ result' \in Results /\ UNCHANGED <<queue, cur, nowDay>>
      BY <2>1, <2>2 DEF EndWith
    <2>4. UNCHANGED <<today, slot, file, busy, ledger>> /\ pc = "working"
      BY <1>7 DEF WorkerExits, timeVars
    <2>5. CurrentOK'
      BY <2>3, <2>4 DEF CurrentOK
    <2> QED
      BY <2>3, <2>4, <2>5 DEF TypeOK
  <1>8. CASE Timeout
    <2>1. busy' \in BOOLEAN
      BY <1>8 DEF Timeout
    <2>2. pc' = "ended" /\ result' \in Results /\ UNCHANGED <<queue, cur, nowDay>>
      BY <1>8 DEF Timeout, EndWith, Results
    <2>3. UNCHANGED <<today, slot, file, ledger>> /\ pc = "working"
      BY <1>8 DEF Timeout, timeVars
    <2>4. CurrentOK'
      BY <2>2, <2>3 DEF CurrentOK
    <2> QED
      BY <2>1, <2>2, <2>3, <2>4 DEF TypeOK
  <1>9. CASE RecordSkip
    <2>1. file' = [file EXCEPT ![cur] = Ended(file[cur], Unexecuted("skipped"))]
      BY <1>9 DEF RecordSkip, TypeOK
    <2>2. cur \in Tasks => /\ Ended(file[cur], Unexecuted("skipped")) \in TaskState
                           /\ Len(Ended(file[cur], Unexecuted("skipped")).hist) <= HistoryCap
      BY EndedType, UnexecutedType DEF TypeOK, Statuses
    <2>3. /\ (file \in [Tasks -> TaskState])'
          /\ (\A u \in Tasks : Len(file[u].hist) <= HistoryCap)'
      BY <2>1, <2>2, FileUpdate
    <2> QED
      BY <1>9, <2>3, OverType DEF RecordSkip, TypeOK, timeVars
  <1>10. CASE RecordOutcome
    <2> DEFINE a == Outcome(cur, result)
    <2>1. /\ file' = [file EXCEPT ![cur] = Ended(file[cur], a)]
          /\ ledger' = [ledger EXCEPT ![cur] = ledger[cur] \cup {EntryOf(a)}]
      BY <1>10 DEF RecordOutcome, TypeOK
    <2>2. a \in Attempt /\ EntryOf(a) \in Entry
      BY OutcomeType
    <2>3. cur \in Tasks => Ended(file[cur], a) \in TaskState /\ Len(Ended(file[cur], a).hist) <= HistoryCap
      <3> HIDE DEF a
      <3> QED
        BY <2>2, EndedType DEF TypeOK
    <2> HIDE DEF a
    <2>4. /\ (file \in [Tasks -> TaskState])'
          /\ (\A u \in Tasks : Len(file[u].hist) <= HistoryCap)'
      BY <2>1, <2>3, FileUpdate
    <2>5. (ledger \in [Tasks -> SUBSET Entry])'
      BY <2>1, <2>2 DEF TypeOK
    <2>6. UNCHANGED <<today, slot, busy>>
      BY <1>10 DEF RecordOutcome, timeVars
    <2>7. CASE Over
      BY <2>4, <2>5, <2>6, <2>7, OverType DEF TypeOK
    <2>8. CASE pc' = "queue" /\ cur' = NoTask /\ result' = NoResult /\ UNCHANGED <<queue, nowDay>>
      <3>1. CurrentOK'
        BY <2>8, TaskAssumption, NobodyAssumption DEF CurrentOK, TypeOK
      <3> QED
        BY <2>4, <2>5, <2>6, <2>8, <3>1 DEF TypeOK, Results
    <2> QED
      BY <1>10, <2>7, <2>8 DEF RecordOutcome
  <1>11. CASE EndPass
    BY <1>11, OverType DEF EndPass, TypeOK, timeVars
  <1>12. CASE Crash
    <2>1. busy' \in BOOLEAN
      BY <1>12 DEF Crash
    <2> QED
      BY <1>12, <2>1, OverType DEF Crash, TypeOK, timeVars
  <1>13. CASE OrphanEnds
    BY <1>13 DEF OrphanEnds, TypeOK, CurrentOK, timeVars, passVars
  <1>14. CASE OutsideRun
    BY <1>14 DEF OutsideRun, TypeOK, CurrentOK, timeVars, passVars
  <1>15. CASE UNCHANGED vars
    BY <1>15 DEF vars, timeVars, passVars, TypeOK, CurrentOK
  <1> QED
    BY <1>1, <1>2, <1>3, <1>4, <1>5, <1>6, <1>7, <1>8, <1>9, <1>10, <1>11, <1>12, <1>13,
       <1>14, <1>15 DEF Next, PassStep

\* The state file, the pass and the clock keep their types, and the history of
\* a task never has more than HistoryCap entries (append_history, 327-331).
THEOREM TypeCorrect == Spec => []TypeOK
  <1>1. TypeInv => TypeOK
    BY DEF TypeInv
  <1> QED
    BY TypeInit, TypeStep, <1>1, PTL DEF Spec

----------------------------------------------------------------------------
(* Once a day, once a week, and the block of JobSeeker.  All follow from   *)
(* two facts: as long as an execution of a task forbids it to run today,   *)
(* the file's last attempt of the task is that execution; and nothing      *)
(* forbade the tasks of the pass, waiting or running, when the pass was    *)
(* called.                                                                 *)

\* The first day of the week of day d.
Monday(d) == d - (d % 7)

LEMMA MondayRises ==
  ASSUME NEW d \in Nat, NEW later \in Nat, d <= later
  PROVE  Monday(d) \in Nat /\ Monday(later) \in Nat /\ Monday(d) <= Monday(later)
  BY DEF Monday

\* ConnectMan's completion in the week of day d, which only run-due asks for.
ThisWeek(t, e, d) ==
  Actions = {"run-due"} /\ t = "connectman" /\ e.completed /\ e.day >= Monday(d)

\* What forbids task t to run on day d.
Forbids(t, e, d) ==
  IF t = "jobseeker" THEN e.until > d ELSE e.day >= d \/ ThisWeek(t, e, d)

\* A day that is past forbids no more than it did.
LEMMA ForbidsLess ==
  ASSUME NEW t, NEW e \in Entry, NEW d \in Nat, NEW later \in Nat, d <= later,
         Forbids(t, e, later)
  PROVE  Forbids(t, e, d)
  <1>1. e.day \in Nat /\ e.until \in Nat
    BY DEF Entry
  <1>2. Monday(d) \in Nat /\ Monday(later) \in Nat /\ Monday(d) <= Monday(later)
    BY MondayRises
  <1>3. ThisWeek(t, e, later) => ThisWeek(t, e, d)
    BY <1>1, <1>2 DEF ThisWeek
  <1> QED
    BY <1>1, <1>3 DEF Forbids

\* An execution that forbids its task to run today is the last attempt.
Remembered ==
  \A t \in Tasks : \A e \in ledger[t] :
    /\ t # "jobseeker" => e.day <= today
    /\ Forbids(t, e, today) =>
         /\ file[t].last.status \in Executed
         /\ file[t].last.day = e.day /\ file[t].last.until = e.until
         /\ e.completed => file[t].last.status = "completed"

\* Nothing forbids the tasks of the pass to run on the day it was called.
PassAllowed ==
  \A t \in queue \cup ({cur} \cap Tasks) : \A e \in ledger[t] : ~Forbids(t, e, nowDay)

DailyInv == TypeInv /\ Remembered /\ PassAllowed

\* The plan leaves out every task an execution forbids today.
LEMMA PlanAllowed ==
  ASSUME TypeInv, Remembered, NEW action \in Actions, StartPass(action)
  PROVE  \A t \in queue' : \A e \in ledger[t] : ~Forbids(t, e, today)
  <1> SUFFICES ASSUME NEW t \in queue', NEW e \in ledger[t], Forbids(t, e, today)
               PROVE  FALSE
    OBVIOUS
  <1>1. t \in Tasks /\ today \in Nat /\ file[t] \in TaskState /\ e \in Entry
    BY DEF StartPass, Plan, TypeInv, TypeOK
  <1>2. ~HasDailyTerminal(t, today, file'[t])
    <2>1. action = "run-all" => ~HasDailyTerminal(t, today, file'[t])
      BY DEF StartPass, Plan
    <2>2. action # "run-all" => IsDue(t, today, slot, file'[t])
      BY DEF StartPass, Plan
    <2> QED
      BY <2>1, <2>2 DEF IsDue
  <1>3. /\ file[t].last.status \in Executed
        /\ file[t].last.day = e.day /\ file[t].last.until = e.until
        /\ e.completed => file[t].last.status = "completed"
    BY <1>1 DEF Remembered
  <1>4. file'[t] = file[t]
    BY <1>1, <1>3, RecoveredType DEF StartPass
  <1>5. CASE t = "jobseeker"
    <2>1. LastExecuted(file[t]) = file[t].last
      BY <1>1, <1>3, ExecutedIsLast
    <2>2. Blocked(file[t], today)
      BY <1>1, <1>3, <1>5, <2>1 DEF Blocked, Forbids, Entry
    <2> QED
      BY <1>2, <1>4, <1>5, <2>2 DEF HasDailyTerminal
  <1>6. CASE t # "jobseeker" /\ e.day >= today
    <2>1. HasAttemptSince(file[t], today)
      BY <1>1, <1>3, <1>6, ExecutedIsSeen
    <2> QED
      BY <1>2, <1>4, <1>6, <2>1 DEF HasDailyTerminal
  <1>7. CASE ThisWeek(t, e, today)
    <2>1. HasCompletedSince(file[t], Monday(today))
      BY <1>1, <1>3, <1>7, CompletedIsSeen DEF ThisWeek
    <2>2. IsDue(t, today, slot, file'[t]) /\ t = "connectman"
      BY <1>7 DEF StartPass, Plan, ThisWeek
    <2>3. ConnectManDue(today, slot, file'[t])
      BY <2>2 DEF IsDue
    <2> QED
      BY <1>4, <2>1, <2>3 DEF ConnectManDue, Monday
  <1> QED
    BY <1>5, <1>6, <1>7 DEF Forbids

\* A task of the pass has nothing that forbids it today: what allowed it on
\* the day the pass was called allows it later.
LEMMA AllowedToday ==
  ASSUME TypeInv, PassAllowed, NEW t \in Tasks, t \in queue \/ t = cur, NEW e \in ledger[t]
  PROVE  ~Forbids(t, e, today)
  <1>1. nowDay \in Nat /\ today \in Nat /\ nowDay <= today /\ e \in Entry
    BY DEF TypeInv, TypeOK
  <1>2. ~Forbids(t, e, nowDay)
    BY DEF PassAllowed
  <1> QED
    BY <1>1, <1>2, ForbidsLess

LEMMA DailyInit == Init => DailyInv
  <1>1. Init => Remembered /\ PassAllowed
    BY DEF Init, Remembered, PassAllowed
  <1> QED
    BY <1>1, TypeInit DEF DailyInv

\* Steps that leave the clock, the file and the ledger alone and add no task
\* to the pass.
LEMMA QuietStep ==
  ASSUME DailyInv, UNCHANGED <<today, file, ledger>>,
         \/ UNCHANGED <<queue, cur, nowDay>>
         \/ queue' = {} /\ cur' = NoTask
  PROVE  Remembered' /\ PassAllowed'
  <1>1. Remembered'
    BY DEF DailyInv, Remembered, Forbids, ThisWeek
  <1>2. PassAllowed'
    BY TaskAssumption, NobodyAssumption DEF DailyInv, PassAllowed, Forbids, ThisWeek
  <1> QED
    BY <1>1, <1>2

LEMMA DailyStep == DailyInv /\ [Next]_vars => DailyInv'
  <1> SUFFICES ASSUME DailyInv, [Next]_vars PROVE DailyInv'
    OBVIOUS
  <1>0. TypeInv /\ Remembered /\ PassAllowed /\ TypeInv'
    BY TypeStep DEF DailyInv
  <1>16. ASSUME Remembered', PassAllowed' PROVE DailyInv'
    BY <1>0, <1>16 DEF DailyInv
  <1>1. CASE Tick
    <2>1. /\ today \in Nat /\ today' \in Nat /\ today' >= today
          /\ UNCHANGED <<file, queue, cur, nowDay, ledger>>
      BY <1>0, <1>1, TimeAssumption DEF Tick, passVars, TypeInv, TypeOK
    <2>2. Remembered'
      <3> SUFFICES ASSUME NEW t \in Tasks, NEW e \in ledger[t]
                   PROVE  /\ t # "jobseeker" => e.day <= today'
                          /\ Forbids(t, e, today') => Forbids(t, e, today)
        BY <1>0, <2>1 DEF Remembered, Forbids, ThisWeek
      <3>1. e \in Entry
        BY <1>0 DEF TypeInv, TypeOK
      <3>2. t # "jobseeker" => e.day <= today
        BY <1>0 DEF Remembered
      <3>3. e.day \in Nat
        BY <3>1 DEF Entry
      <3> QED
        BY <2>1, <3>1, <3>2, <3>3, ForbidsLess
    <2>3. PassAllowed'
      BY <1>0, <2>1 DEF PassAllowed, Forbids, ThisWeek
    <2> QED
      BY <1>16, <2>2, <2>3
  <1>2. ASSUME NEW action \in Actions, StartPass(action) PROVE DailyInv'
    <2>1. \A t \in queue' : \A e \in ledger[t] : ~Forbids(t, e, today)
      BY <1>0, <1>2, PlanAllowed
    <2>2. nowDay' = today /\ today' = today /\ ledger' = ledger /\ cur' = cur /\ cur = NoTask
      BY <1>0, <1>2 DEF StartPass, timeVars, TypeInv, CurrentOK
    <2>3. PassAllowed'
      BY <2>1, <2>2, TaskAssumption, NobodyAssumption DEF PassAllowed, Forbids, ThisWeek
    <2>4. \A t \in Tasks : file[t].last.status \in Executed => file'[t] = file[t]
      BY <1>0, <1>2, RecoveredType DEF StartPass, TypeInv, TypeOK
    <2>5. Remembered'
      BY <1>0, <2>2, <2>4 DEF Remembered, Forbids, ThisWeek
    <2> QED
      BY <1>16, <2>3, <2>5
  <1>3. ASSUME NEW t \in Tasks, BeginTask(t) PROVE DailyInv'
    <2>1. /\ t \in queue /\ cur' = t /\ queue' = queue \ {t}
          /\ UNCHANGED <<today, nowDay, ledger>>
          /\ \A u \in Tasks \ {t} : file'[u] = file[u]
      BY <1>0, <1>3 DEF BeginTask, timeVars, TypeInv, TypeOK
    <2>2. PassAllowed'
      BY <1>0, <2>1 DEF PassAllowed, Forbids, ThisWeek
    <2>3. \A e \in ledger[t] : ~Forbids(t, e, today)
      BY <1>0, <2>1, AllowedToday
    <2>4. Remembered'
      BY <1>0, <2>1, <2>3 DEF Remembered, Forbids, ThisWeek
    <2> QED
      BY <1>16, <2>2, <2>4
  <1>4. CASE LaunchWorker
    BY <1>4, <1>16, QuietStep DEF LaunchWorker, timeVars
  <1>5. CASE LaunchBusy
    BY <1>5, <1>16, QuietStep DEF LaunchBusy, EndWith, timeVars
  <1>6. CASE LaunchError
    BY <1>6, <1>16, QuietStep DEF LaunchError, EndWith, timeVars
  <1>7. CASE WorkerExits
    BY <1>7, <1>16, QuietStep DEF WorkerExits, EndWith, timeVars
  <1>8. CASE Timeout
    BY <1>8, <1>16, QuietStep DEF Timeout, EndWith, timeVars
  <1>9. CASE RecordSkip
    <2>1. /\ cur \in Tasks /\ queue' = {} /\ cur' = NoTask
          /\ UNCHANGED <<today, ledger>>
          /\ \A u \in Tasks \ {cur} : file'[u] = file[u]
      BY <1>0, <1>9 DEF RecordSkip, Over, timeVars, TypeInv, TypeOK, CurrentOK
    <2>2. PassAllowed'
      BY <2>1, TaskAssumption, NobodyAssumption DEF PassAllowed
    <2>3. \A e \in ledger[cur] : ~Forbids(cur, e, today)
      BY <1>0, <2>1, AllowedToday
    <2>4. Remembered'
      BY <1>0, <2>1, <2>3 DEF Remembered, Forbids, ThisWeek
    <2> QED
      BY <1>16, <2>2, <2>4
  <1>10. CASE RecordOutcome
    <2> DEFINE a == Outcome(cur, result)
    <2>1. /\ file' = [file EXCEPT ![cur] = Ended(file[cur], a)]
          /\ ledger' = [ledger EXCEPT ![cur] = ledger[cur] \cup {EntryOf(a)}]
          /\ cur \in Tasks /\ cur \notin queue /\ today' = today
          /\ \/ queue' = {} /\ cur' = NoTask
             \/ cur' = NoTask /\ UNCHANGED <<queue, nowDay>>
      BY <1>0, <1>10 DEF RecordOutcome, Over, timeVars, TypeInv, TypeOK, CurrentOK
    <2>2. /\ a \in Attempt /\ a.status \in Executed /\ a.day = today
          /\ EntryOf(a).day = a.day /\ EntryOf(a).until = a.until
          /\ EntryOf(a).completed => a.status = "completed"
      BY <1>0, OutcomeType DEF EntryOf
    <2> HIDE DEF a
    <2>3. /\ file'[cur].last = a
          /\ \A u \in Tasks \ {cur} : file'[u] = file[u]
      BY <1>0, <2>1, <2>2, EndedType DEF TypeInv, TypeOK
    <2>4. /\ ledger'[cur] = ledger[cur] \cup {EntryOf(a)}
          /\ \A u \in Tasks \ {cur} : ledger'[u] = ledger[u]
      BY <1>0, <2>1 DEF TypeInv, TypeOK
    <2>5. PassAllowed'
      <3>1. \A u \in queue' : u \in queue /\ u \in Tasks \ {cur} /\ nowDay' = nowDay
        BY <1>0, <2>1 DEF TypeInv, TypeOK
      <3>2. {cur'} \cap Tasks = {}
        BY <2>1, TaskAssumption, NobodyAssumption
      <3> QED
        BY <1>0, <2>4, <3>1, <3>2 DEF PassAllowed, Forbids, ThisWeek
    <2>6. \A e \in ledger[cur] : ~Forbids(cur, e, today)
      BY <1>0, <2>1, AllowedToday
    <2>7. Remembered'
      <3> SUFFICES ASSUME NEW u \in Tasks, NEW e \in ledger'[u]
                   PROVE  /\ u # "jobseeker" => e.day <= today'
                          /\ Forbids(u, e, today') =>
                               /\ file'[u].last.status \in Executed
                               /\ file'[u].last.day = e.day /\ file'[u].last.until = e.until
                               /\ e.completed => file'[u].last.status = "completed"
        BY DEF Remembered, Forbids, ThisWeek
      <3>1. CASE u # cur
        BY <1>0, <2>1, <2>3, <2>4, <3>1 DEF Remembered
      <3>2. CASE u = cur /\ e \in ledger[cur]
        BY <1>0, <2>1, <2>6, <3>2 DEF Remembered
      <3>3. CASE u = cur /\ e = EntryOf(a)
        <4>1. today \in Nat
          BY <1>0 DEF TypeInv, TypeOK
        <4> QED
          BY <2>1, <2>2, <2>3, <3>3, <4>1
      <3> QED
        BY <2>4, <3>1, <3>2, <3>3
    <2> QED
      BY <1>16, <2>5, <2>7
  <1>11. CASE EndPass
    BY <1>11, <1>16, QuietStep DEF EndPass, Over, timeVars
  <1>12. CASE Crash
    BY <1>12, <1>16, QuietStep DEF Crash, Over, timeVars
  <1>13. CASE OrphanEnds
    BY <1>13, <1>16, QuietStep DEF OrphanEnds, timeVars, passVars
  <1>14. CASE OutsideRun
    BY <1>14, <1>16, QuietStep DEF OutsideRun, timeVars, passVars
  <1>15. CASE UNCHANGED vars
    BY <1>15, <1>16, QuietStep DEF vars, timeVars, passVars
  <1> QED
    BY <1>1, <1>2, <1>3, <1>4, <1>5, <1>6, <1>7, <1>8, <1>9, <1>10, <1>11, <1>12, <1>13,
       <1>14, <1>15 DEF Next, PassStep

\* A fixed task is executed at most once a day, whatever the mix of commands,
\* skips, crashes and passes that go past midnight (lines 213-223, 319-324).
THEOREM ExecutedOncePerDay == Spec => []OncePerDay
  <1>1. DailyInv => OncePerDay
    <2> SUFFICES ASSUME DailyInv, cur \in Fixed, NEW e \in ledger[cur] PROVE e.day < nowDay
      BY DEF OncePerDay
    <2>1. cur \in Tasks /\ cur # "jobseeker"
      BY DEF Fixed
    <2>2. e \in Entry /\ nowDay \in Nat
      BY <2>1 DEF DailyInv, TypeInv, TypeOK
    <2>3. ~Forbids(cur, e, nowDay)
      BY <2>1 DEF DailyInv, PassAllowed
    <2> QED
      BY <2>1, <2>2, <2>3 DEF Forbids, Entry
  <1> QED
    BY DailyInit, DailyStep, <1>1, PTL DEF Spec

\* When only run-due is used, ConnectMan does not run in a week in which it completed
\* (lines 303-306): skips push attempts out of the capped history, never the completion
\* that counts.
THEOREM OnceAWeek == Spec => []CompletedOncePerWeek
  <1>1. DailyInv => CompletedOncePerWeek
    <2> SUFFICES ASSUME DailyInv, Actions = {"run-due"}, cur = "connectman",
                        NEW e \in ledger[cur], e.completed
                 PROVE  e.day < nowDay - (nowDay % 7)
      BY DEF CompletedOncePerWeek
    <2>1. cur \in Tasks
      BY NobodyAssumption DEF DailyInv, TypeInv, TypeOK, AllTasks
    <2>2. e \in Entry /\ nowDay \in Nat /\ e.day \in Nat
      BY <2>1 DEF DailyInv, TypeInv, TypeOK, Entry
    <2>3. ~ThisWeek(cur, e, nowDay)
      BY <2>1 DEF DailyInv, PassAllowed, Forbids
    <2>4. Monday(nowDay) \in Nat
      BY <2>2, MondayRises
    <2> QED
      BY <2>2, <2>3, <2>4 DEF ThisWeek, Monday
  <1> QED
    BY DailyInit, DailyStep, <1>1, PTL DEF Spec

\* JobSeeker does not run while a quota or a safety stop ever recorded blocks
\* it (lines 213-218, 231-234, 253-271).
THEOREM BlockIsRespected == Spec => []BlockRespected
  <1>1. DailyInv => BlockRespected
    <2> SUFFICES ASSUME DailyInv, cur = "jobseeker", NEW e \in ledger[cur]
                 PROVE  e.until <= nowDay
      BY DEF BlockRespected
    <2>1. cur \in Tasks
      BY NobodyAssumption DEF DailyInv, TypeInv, TypeOK, AllTasks
    <2>2. e \in Entry /\ nowDay \in Nat
      BY <2>1 DEF DailyInv, TypeInv, TypeOK
    <2>3. ~Forbids(cur, e, nowDay)
      BY <2>1 DEF DailyInv, PassAllowed
    <2> QED
      BY <2>2, <2>3 DEF Forbids, Entry
  <1> QED
    BY DailyInit, DailyStep, <1>1, PTL DEF Spec

----------------------------------------------------------------------------
(* A due task stays due.                                                   *)

\* A nonempty set of naturals has a smallest element, a bounded one a largest.
LEMMA Smallest ==
  ASSUME NEW T \in SUBSET Nat, T # {} PROVE \E x \in T : \A y \in T : x <= y
  <1>1. \E x \in T : \A y \in T : ~(y < x)
    <2>1. PICK x \in T : \A y \in T : ~ (<<y, x>> \in OpToRel(<, Nat))
      BY NatLessThanWellFounded, WFMin
    <2>2. \A y \in T : ~(y < x)
      <3>1. \A y \in T : <<y, x>> \in Nat \X Nat /\ <<y, x>>[1] = y /\ <<y, x>>[2] = x
        OBVIOUS
      <3> QED BY <2>1, <3>1 DEF OpToRel
    <2> QED BY <2>2
  <1>2. PICK x \in T : \A y \in T : ~(y < x)
    BY <1>1
  <1>3. \A y \in T : y \in Nat /\ x \in Nat /\ x <= y
    BY <1>2
  <1> QED BY <1>3

LEMMA Largest ==
  ASSUME NEW n \in Nat, NEW T \in SUBSET (1..n), T # {} PROVE \E x \in T : \A y \in T : y <= x
  <1> DEFINE U == {m \in Nat : \A y \in T : y <= m}
  <1>1. n \in U
    OBVIOUS
  <1>2. PICK m \in U : \A k \in U : m <= k
    <2> U \in SUBSET Nat OBVIOUS
    <2> HIDE DEF U
    <2> QED BY <1>1, Smallest
  <1>3. m \in T
    <2> SUFFICES ASSUME m \notin T PROVE FALSE
      OBVIOUS
    <2>1. \A y \in T : y \in Nat /\ y >= 1 /\ y <= m /\ y # m
      BY <1>2
    <2>2. \A y \in T : y <= m - 1
      BY <2>1
    <2>3. m - 1 \in Nat
      <3>1. PICK y \in T : TRUE
        OBVIOUS
      <3> QED BY <2>1, <3>1
    <2> QED BY <2>2, <2>3, <1>2
  <1> QED BY <1>2, <1>3

\* The executed attempts of new are those of old, but for some of the oldest.
Kept(new, old) ==
  \E n \in Nat :
    /\ \A i \in ExecutedAttempts(new) :
         i + n \in ExecutedAttempts(old) /\ Attempts(old)[i + n] = Attempts(new)[i]
    /\ \A j \in ExecutedAttempts(old) : j > n => j - n \in ExecutedAttempts(new)

LEMMA AttemptsType ==
  ASSUME NEW ts \in TaskState
  PROVE  /\ Attempts(ts) \in Seq(Attempt) /\ Len(ts.hist) \in Nat
         /\ Len(Attempts(ts)) = Len(ts.hist) + 1
         /\ Attempts(ts)[Len(ts.hist) + 1] = ts.last
         /\ \A i \in 1..Len(ts.hist) : Attempts(ts)[i] = ts.hist[i]
         /\ ExecutedAttempts(ts) \subseteq 1..(Len(ts.hist) + 1)
  <1>1. ts.hist \in Seq(Attempt) /\ ts.last \in Attempt
    BY DEF TaskState
  <1> QED
    BY <1>1 DEF Attempts, ExecutedAttempts

\* last_executed_attempt is the last one in the order of the file.
LEMMA LastExecutedIsLargest ==
  ASSUME NEW ts \in TaskState, ExecutedAttempts(ts) # {}
  PROVE  \E k \in ExecutedAttempts(ts) :
           (\A j \in ExecutedAttempts(ts) : j <= k) /\ LastExecuted(ts) = Attempts(ts)[k]
  <1> DEFINE K == ExecutedAttempts(ts)
  <1>1. \E k \in K : \A j \in K : j <= k
    <2>1. Len(ts.hist) + 1 \in Nat /\ K \in SUBSET (1..(Len(ts.hist) + 1))
      BY AttemptsType
    <2> HIDE DEF K
    <2> QED
      BY <2>1, Largest DEF K
  <1>2. LastExecuted(ts) = Attempts(ts)[CHOOSE k \in K : \A j \in K : j <= k]
    BY DEF LastExecuted
  <1> HIDE DEF K
  <1> QED
    BY <1>1, <1>2 DEF K

LEMMA KeptLast ==
  ASSUME NEW new \in TaskState, NEW old \in TaskState, Kept(new, old)
  PROVE  LastExecuted(new) = LastExecuted(old) \/ LastExecuted(new) = Unexecuted("none")
  <1>1. CASE ExecutedAttempts(new) = {}
    BY <1>1 DEF LastExecuted
  <1>2. CASE ExecutedAttempts(new) # {}
    <2>1. PICK n \in Nat :
            /\ \A i \in ExecutedAttempts(new) :
                 i + n \in ExecutedAttempts(old) /\ Attempts(old)[i + n] = Attempts(new)[i]
            /\ \A j \in ExecutedAttempts(old) : j > n => j - n \in ExecutedAttempts(new)
      BY DEF Kept
    <2>2. PICK k \in ExecutedAttempts(new) :
            /\ \A j \in ExecutedAttempts(new) : j <= k
            /\ LastExecuted(new) = Attempts(new)[k]
      BY <1>2, LastExecutedIsLargest
    <2>3. ExecutedAttempts(old) # {}
      BY <2>1, <2>2
    <2>4. PICK m \in ExecutedAttempts(old) :
            /\ \A j \in ExecutedAttempts(old) : j <= m
            /\ LastExecuted(old) = Attempts(old)[m]
      BY <2>3, LastExecutedIsLargest
    <2>5. k \in Nat /\ m \in Nat /\ k >= 1
      <3>1. k \in 1..(Len(new.hist) + 1) /\ m \in 1..(Len(old.hist) + 1)
        BY AttemptsType
      <3>2. Len(new.hist) \in Nat /\ Len(old.hist) \in Nat
        BY AttemptsType
      <3> QED BY <3>1, <3>2
    <2>6. k + n <= m
      BY <2>1, <2>4
    <2>7. m - n <= k
      <3>1. m > n
        BY <2>5, <2>6
      <3>2. m - n \in ExecutedAttempts(new)
        BY <2>1, <3>1
      <3> QED BY <2>2, <3>2
    <2>8. m = k + n
      BY <2>5, <2>6, <2>7
    <2> QED
      BY <2>1, <2>2, <2>4, <2>8
  <1> QED
    BY <1>1, <1>2

\* What the readers of the file find in new, they found in old.
LEMMA KeptFound ==
  ASSUME NEW new \in TaskState, NEW old \in TaskState, Kept(new, old), NEW day
  PROVE  /\ HasAttemptSince(new, day) => HasAttemptSince(old, day)
         /\ HasCompletedSince(new, day) => HasCompletedSince(old, day)
  <1>1. PICK n \in Nat : \A i \in ExecutedAttempts(new) :
          i + n \in ExecutedAttempts(old) /\ Attempts(old)[i + n] = Attempts(new)[i]
    BY DEF Kept
  <1>2. HasAttemptSince(new, day) => HasAttemptSince(old, day)
    BY <1>1 DEF HasAttemptSince
  <1>3. ASSUME HasCompletedSince(new, day) PROVE HasCompletedSince(old, day)
    <2>1. PICK k \in 1..Len(Attempts(new)) :
            Attempts(new)[k].status = "completed" /\ Attempts(new)[k].day >= day
      BY <1>3 DEF HasCompletedSince
    <2>2. k \in ExecutedAttempts(new)
      BY <2>1 DEF ExecutedAttempts, Executed
    <2>3. k + n \in ExecutedAttempts(old) /\ Attempts(old)[k + n] = Attempts(new)[k]
      BY <1>1, <2>2
    <2>4. k + n \in 1..Len(Attempts(old))
      BY <2>3 DEF ExecutedAttempts
    <2> QED
      BY <2>1, <2>3, <2>4 DEF HasCompletedSince
  <1> QED
    BY <1>2, <1>3

LEMMA KeptDue ==
  ASSUME NEW new \in TaskState, NEW old \in TaskState, Kept(new, old),
         NEW t \in AllTasks, NEW day \in Nat, NEW s, IsDue(t, day, s, old)
  PROVE  IsDue(t, day, s, new)
  <1>1. LastExecuted(new) = LastExecuted(old) \/ LastExecuted(new) = Unexecuted("none")
    BY KeptLast
  <1> DEFINE monday == day - (day % 7)
  <1>2. /\ HasAttemptSince(new, day) => HasAttemptSince(old, day)
        /\ HasAttemptSince(new, monday) => HasAttemptSince(old, monday)
        /\ HasCompletedSince(new, monday) => HasCompletedSince(old, monday)
    <2> HIDE DEF monday
    <2> QED BY KeptFound
  <1>3. Unexecuted("none").until = 0 /\ Unexecuted("none").status = "none"
    BY DEF Unexecuted
  <1>4. Blocked(new, day) => Blocked(old, day)
    BY <1>1, <1>3 DEF Blocked
  <1>5. JobSeekerDue(day, s, old) => JobSeekerDue(day, s, new)
    BY <1>1, <1>3, <1>4 DEF JobSeekerDue
  <1>6. ConnectManDue(day, s, old) => ConnectManDue(day, s, new)
    BY <1>2, Zenon DEF ConnectManDue
  <1>7. HasDailyTerminal(t, day, new) => HasDailyTerminal(t, day, old)
    BY <1>2, <1>4, Zenon DEF HasDailyTerminal
  <1> QED
    BY <1>5, <1>6, <1>7 DEF IsDue, AllTasks

\* No executed attempt is lost, or becomes one, where only last changes and is
\* executed neither before nor after.
LEMMA LastReplaced ==
  ASSUME NEW ts \in TaskState, NEW a \in Attempt,
         ts.last.status \notin Executed, a.status \notin Executed
  PROVE  Kept([ts EXCEPT !.last = a], ts)
  <1> DEFINE new == [ts EXCEPT !.last = a]
  <1>1. new \in TaskState /\ new.hist = ts.hist /\ new.last = a
    BY DEF TaskState
  <1> HIDE DEF new
  <1>2. /\ Len(Attempts(new)) = Len(ts.hist) + 1 /\ Len(Attempts(ts)) = Len(ts.hist) + 1
        /\ Attempts(new)[Len(ts.hist) + 1] = a /\ Attempts(ts)[Len(ts.hist) + 1] = ts.last
        /\ \A i \in 1..Len(ts.hist) : Attempts(new)[i] = Attempts(ts)[i]
        /\ Len(ts.hist) \in Nat
    BY <1>1, AttemptsType
  <1>3. /\ \A i \in ExecutedAttempts(new) :
             i \in 1..Len(ts.hist) /\ Attempts(ts)[i] = Attempts(new)[i]
        /\ \A i \in ExecutedAttempts(ts) :
             i \in 1..Len(ts.hist) /\ Attempts(ts)[i] = Attempts(new)[i]
    BY <1>2 DEF ExecutedAttempts
  <1>4. /\ \A i \in ExecutedAttempts(new) : i \in ExecutedAttempts(ts)
        /\ \A i \in ExecutedAttempts(ts) : i \in ExecutedAttempts(new)
    BY <1>2, <1>3 DEF ExecutedAttempts
  <1>5. /\ \A i \in ExecutedAttempts(new) :
             i + 0 \in ExecutedAttempts(ts) /\ Attempts(ts)[i + 0] = Attempts(new)[i]
        /\ \A j \in ExecutedAttempts(ts) : j > 0 => j - 0 \in ExecutedAttempts(new)
    BY <1>3, <1>4
  <1> QED
    BY <1>5 DEF Kept, new

\* append_history moves last to the end of the history and lets go of the oldest.
LEMMA StartedKept ==
  ASSUME NEW ts \in TaskState, Len(ts.hist) <= HistoryCap
  PROVE  Kept(Started(ts), ts)
  <1>1. CASE ts.last.status \in {"none", "running"}
    <2>1. Started(ts) = [ts EXCEPT !.last = Unexecuted("running")]
      BY <1>1 DEF Started, TaskState
    <2>2. Unexecuted("running") \in Attempt /\ Unexecuted("running").status = "running"
      BY UnexecutedType DEF Statuses
    <2> QED
      BY <1>1, <2>1, <2>2, LastReplaced DEF Executed
  <1>2. CASE ts.last.status \notin {"none", "running"}
    <2> DEFINE new == Started(ts)
               all == Attempts(ts)
               d == IF Len(all) > HistoryCap THEN 1 ELSE 0
    <2>1. new \in TaskState /\ new.last = Unexecuted("running") /\ new.hist = Remember(ts.hist, ts.last)
      BY <1>2, StartedType DEF Started
    <2>2. all \in Seq(Attempt) /\ Len(all) \in Nat /\ Len(all) = Len(ts.hist) + 1 /\ HistoryCap \in Nat \ {0}
      BY AttemptsType, CapAssumption
    <2>3. d \in Nat /\ Len(new.hist) = Len(all) - d /\ \A i \in 1..Len(new.hist) : new.hist[i] = all[i + d]
      <3>1. CASE Len(all) > HistoryCap
        <4>1. Len(all) = HistoryCap + 1
          BY <2>2, <3>1
        <4>2. new.hist = SubSeq(all, 2, Len(all))
          BY <2>1, <2>2, <3>1, <4>1 DEF Remember, Attempts
        <4> HIDE DEF all, new
        <4> QED
          BY <2>2, <3>1, <4>1, <4>2
      <3>2. CASE ~(Len(all) > HistoryCap)
        <4>1. new.hist = all
          BY <2>1, <3>2 DEF Remember, Attempts
        <4> HIDE DEF all, new
        <4> QED
          BY <2>2, <3>2, <4>1
      <3> QED
        BY <3>1, <3>2
    <2> HIDE DEF new, d
    <2>4. /\ Len(new.hist) \in Nat /\ Len(Attempts(new)) = Len(new.hist) + 1
          /\ Attempts(new)[Len(new.hist) + 1] = Unexecuted("running")
          /\ \A i \in 1..Len(new.hist) : Attempts(new)[i] = new.hist[i]
      BY <2>1, AttemptsType
    <2>5. Unexecuted("running").status \notin Executed
      BY DEF Unexecuted, Executed
    <2>6. ASSUME NEW i \in ExecutedAttempts(new)
          PROVE  i \in 1..Len(new.hist) /\ all[i + d] = Attempts(new)[i] /\ i + d \in 1..Len(all)
      <3>1. i \in 1..(Len(new.hist) + 1) /\ Attempts(new)[i].status \in Executed
        BY <2>4 DEF ExecutedAttempts
      <3>2. i # Len(new.hist) + 1
        BY <2>4, <2>5, <3>1
      <3>3. i \in 1..Len(new.hist)
        BY <2>4, <3>1, <3>2
      <3>4. all[i + d] = Attempts(new)[i]
        BY <2>3, <2>4, <3>3
      <3>5. i + d \in 1..Len(all)
        <4> HIDE DEF all
        <4> QED
          BY <2>2, <2>3, <3>3
      <3> QED
        BY <3>3, <3>4, <3>5
    <2>7. \A i \in ExecutedAttempts(new) : i + d \in ExecutedAttempts(ts) /\ all[i + d] = Attempts(new)[i]
      BY <2>6 DEF ExecutedAttempts
    <2>8. ASSUME NEW j \in ExecutedAttempts(ts), j > d PROVE j - d \in ExecutedAttempts(new)
      <3>1. j \in 1..Len(all) /\ all[j].status \in Executed
        BY DEF ExecutedAttempts
      <3> HIDE DEF all
      <3>2. j - d \in 1..Len(new.hist)
        <4>1. j \in Nat /\ j > d /\ j <= Len(all)
          BY <2>2, <2>8, <3>1
        <4>2. j - d \in Nat /\ j - d >= 1 /\ j - d <= Len(all) - d
          BY <2>2, <2>3, <4>1
        <4> QED
          BY <2>2, <2>3, <4>2
      <3>3. (j - d) + d = j
        BY <2>3, <3>1
      <3>4. new.hist[j - d] = all[j]
        BY <2>3, <3>2, <3>3
      <3>5. Attempts(new)[j - d] = all[j] /\ j - d \in 1..Len(Attempts(new))
        BY <2>4, <3>2, <3>4
      <3> QED
        BY <3>1, <3>5 DEF ExecutedAttempts
    <2> QED
      BY <2>3, <2>7, <2>8 DEF Kept, new
  <1> QED
    BY <1>1, <1>2

LEMMA RecoveredKept ==
  ASSUME NEW ts \in TaskState, ts.last.status = "running"
  PROVE  Kept(Recovered(ts), ts)
  <1>1. Unexecuted("interrupted") \in Attempt /\ Unexecuted("interrupted").status = "interrupted"
    BY UnexecutedType DEF Statuses
  <1> QED
    BY <1>1, LastReplaced DEF Recovered, Executed

\* A task whose process was started is "running" in the file.
Running == pc \in {"starting", "working", "ended"} => file[cur].last.status = "running"

DueInv == TypeInv /\ Running

LEMMA RunningStep == DueInv /\ [Next]_vars => DueInv'
  <1> SUFFICES ASSUME DueInv, [Next]_vars PROVE DueInv'
    OBVIOUS
  <1> USE DEF DueInv
  <1>1. TypeInv'
    BY TypeStep
  <1>2. ASSUME NEW t \in Tasks, BeginTask(t) PROVE Running'
    <2>1. file'[t] = Started(file[t]) /\ cur' = t
      BY <1>2 DEF BeginTask, TypeInv, TypeOK
    <2> QED
      BY <2>1 DEF Running, Started, Unexecuted
  <1>3. ASSUME file' = file, cur' = cur, pc \in {"starting", "working", "ended"} PROVE Running'
    BY <1>3 DEF Running
  <1>4. CASE LaunchWorker \/ LaunchBusy \/ LaunchError \/ WorkerExits \/ Timeout
    <2>1. file' = file /\ cur' = cur /\ pc \in {"starting", "working", "ended"}
      BY <1>4 DEF LaunchWorker, LaunchBusy, LaunchError, WorkerExits, Timeout, EndWith
    <2> QED
      BY <1>1, <1>3, <2>1
  <1>5. CASE RecordSkip \/ RecordOutcome \/ EndPass \/ Crash \/ \E action \in Actions : StartPass(action)
    <2>1. pc' \in {"idle", "queue"}
      BY <1>5 DEF RecordSkip, RecordOutcome, EndPass, Crash, StartPass, Over
    <2> QED
      BY <1>1, <2>1 DEF Running
  <1>6. CASE Tick \/ OrphanEnds \/ OutsideRun \/ UNCHANGED vars
    <2>1. pc' = pc /\ file' = file /\ cur' = cur
      BY <1>6 DEF Tick, OrphanEnds, OutsideRun, vars, passVars
    <2> QED
      BY <1>1, <2>1 DEF Running
  <1> QED
    BY <1>1, <1>2, <1>4, <1>5, <1>6 DEF Next, PassStep

\* A step keeps what every task executed, unless it records an execution.
LEMMA KeptByStep ==
  ASSUME DueInv, Next, NEW t \in Tasks
  PROVE  \/ file'[t] = file[t]
         \/ Kept(file'[t], file[t])
         \/ pc = "ended" /\ cur = t /\ result.rc # "skip"
  <1> USE DEF DueInv
  <1>1. file \in [Tasks -> TaskState] /\ file[t] \in TaskState /\ Len(file[t].hist) <= HistoryCap
    BY DEF TypeInv, TypeOK
  <1>2. CASE \E action \in Actions : StartPass(action)
    <2>1. file'[t] = Recovered(file[t])
      BY <1>2 DEF StartPass
    <2>2. file[t].last.status # "running" => file'[t] = file[t]
      BY <2>1 DEF Recovered
    <2> QED
      BY <1>1, <2>1, <2>2, RecoveredKept
  <1>3. ASSUME NEW u \in Tasks, BeginTask(u)
        PROVE  file'[t] = file[t] \/ Kept(file'[t], file[t])
    <2>1. file' = [file EXCEPT ![u] = Started(file[u])]
      BY <1>3 DEF BeginTask
    <2>2. CASE t = u
      BY <1>1, <2>1, <2>2, StartedKept
    <2>3. CASE t # u
      BY <1>1, <2>1, <2>3
    <2> QED
      BY <2>2, <2>3
  <1>4. CASE RecordSkip
    <2>1. pc = "ended" /\ file' = [file EXCEPT ![cur] = Ended(file[cur], Unexecuted("skipped"))]
      BY <1>4 DEF RecordSkip
    <2>2. CASE t # cur
      BY <1>1, <2>1, <2>2
    <2>3. CASE t = cur
      <3>1. file[t].last.status = "running"
        BY <2>1, <2>3 DEF Running
      <3>2. Unexecuted("skipped") \in Attempt /\ Unexecuted("skipped").status = "skipped"
        BY UnexecutedType DEF Statuses
      <3>3. file'[t] = [file[t] EXCEPT !.last = Unexecuted("skipped")]
        BY <1>1, <2>1, <2>3 DEF Ended
      <3> QED
        BY <1>1, <3>1, <3>2, <3>3, LastReplaced DEF Executed
    <2> QED
      BY <2>2, <2>3
  <1>5. CASE RecordOutcome
    BY <1>1, <1>5 DEF RecordOutcome
  <1>6. CASE \/ LaunchWorker \/ LaunchBusy \/ LaunchError \/ WorkerExits \/ Timeout
             \/ EndPass \/ Crash \/ Tick \/ OrphanEnds \/ OutsideRun
    BY <1>6 DEF LaunchWorker, LaunchBusy, LaunchError, WorkerExits, Timeout, EndPass, Crash,
         Tick, OrphanEnds, OutsideRun
  <1> QED
    BY <1>2, <1>3, <1>4, <1>5, <1>6 DEF Next, PassStep

\* A due task stays due until an execution of it is recorded: no skip, crash,
\* recovery of a stale attempt and no cut of the history makes is_due false
\* (256-310, 327-340, 369-381).
THEOREM DueStays == Spec => DueUntilExecuted
  <1> DEFINE Step == \A t \in Tasks :
                       IsDue(t, today, slot, file[t]) /\ ~IsDue(t, today, slot, file'[t])
                         => pc = "ended" /\ cur = t /\ result.rc # "skip"
  <1>1. Init => DueInv
    BY TypeInit DEF DueInv, Init, Running
  <1>2. DueInv /\ DueInv' /\ [Next]_vars => [Step]_vars
    <2> SUFFICES ASSUME DueInv, DueInv', Next PROVE Step
      OBVIOUS
    <2> SUFFICES ASSUME NEW t \in Tasks, IsDue(t, today, slot, file[t]), ~IsDue(t, today, slot, file'[t])
                 PROVE  pc = "ended" /\ cur = t /\ result.rc # "skip"
      OBVIOUS
    <2>1. t \in AllTasks /\ today \in Nat /\ file[t] \in TaskState /\ file'[t] \in TaskState
      BY TaskAssumption DEF DueInv, TypeInv, TypeOK
    <2>2. ~Kept(file'[t], file[t])
      BY <2>1, KeptDue
    <2>3. file'[t] # file[t]
      OBVIOUS
    <2> QED
      BY <2>2, <2>3, KeptByStep
  <1> QED
    BY <1>1, <1>2, RunningStep, PTL DEF Spec, DueUntilExecuted

----------------------------------------------------------------------------
(* RuntimeLock, under which every worker command of the schedule runs.     *)

\* The wrapper's steps that change neither the group nor the signals.
LEMMA PCDisjoint ==
  /\ Lock!Holding \subseteq Lock!PC
  /\ Lock!Handling \subseteq Lock!Holding
  /\ Lock!HasFork \subseteq Lock!Handling
  /\ Lock!Gone \cap Lock!Holding = {}
BY DEF Lock!PC, Lock!Holding, Lock!Handling, Lock!HasFork, Lock!Gone

(***************************************************************************)
(* Every variable keeps its type: in particular the poll counter stays     *)
(* within the budget of --wait-timeout.                                    *)
(***************************************************************************)
THEOREM LockTypes == LockSpec => []Lock!TypeOK
<1>1. Lock!Init => Lock!TypeOK
  BY LockAssumption DEF Lock!Sound, Lock!Init, Lock!TypeOK, Lock!PC
<1>2. Lock!TypeOK /\ [Lock!Next]_(Lock!vars) => Lock!TypeOK'
  <2> SUFFICES ASSUME Lock!TypeOK, [Lock!Next]_(Lock!vars)
               PROVE  Lock!TypeOK'
    OBVIOUS
  <2> USE LockAssumption DEF Lock!Sound, Lock!TypeOK
  <2>1. ASSUME NEW w \in Wrappers, Lock!OwnStep(w)
        PROVE  Lock!TypeOK'
    <3>1. CASE Lock!OpenFile(w)
      BY <3>1 DEF Lock!OpenFile, Lock!Goto, Lock!PC
    <3>2. CASE Lock!TakeLock(w)
      BY <3>2 DEF Lock!TakeLock, Lock!Goto, Lock!PC, Lock!Holding
    <3>3. CASE Lock!PollAgain(w)
      BY <3>3 DEF Lock!PollAgain
    <3>4. CASE Lock!GiveUp(w)
      BY <3>4 DEF Lock!GiveUp, Lock!Goto, Lock!PC, Lock!Gone
    <3>5. CASE Lock!WriteOwner(w)
      BY <3>5 DEF Lock!WriteOwner, Lock!Goto, Lock!PC, Lock!Holding
    <3>6. CASE Lock!InstallHandlers(w)
      BY <3>6 DEF Lock!InstallHandlers, Lock!Goto, Lock!PC, Lock!Holding, Lock!Handling
    <3>7. CASE Lock!StartChild(w)
      BY <3>7 DEF Lock!StartChild, Lock!Goto, Lock!PC, Lock!Holding, Lock!Handling,
         Lock!HasFork
    <3>8. CASE Lock!LearnGroup(w)
      BY <3>8 DEF Lock!LearnGroup, Lock!Goto, Lock!PC, Lock!Holding, Lock!Handling,
         Lock!HasFork
    <3>9. CASE Lock!ForwardPending(w)
      <4>1. signalled' \in [Wrappers -> SUBSET Procs] /\ alone' \in [Wrappers -> BOOLEAN]
        <5>1. CASE pending[w] /\ Leader \in group[w]
          <6>1. /\ signalled' = [signalled EXCEPT ![w] = @ \cup group[w]]
                /\ alone' = [alone EXCEPT ![w] = FALSE]
            BY <3>9, <5>1, Zenon DEF Lock!ForwardPending
          <6> QED
            BY <6>1
        <5>2. CASE ~(pending[w] /\ Leader \in group[w])
          BY <3>9, <5>2 DEF Lock!ForwardPending
        <5> QED
          BY <5>1, <5>2
      <4>2. point' \in [Wrappers -> Lock!PC]
        BY <3>9 DEF Lock!ForwardPending, Lock!Goto, Lock!PC, Lock!Holding, Lock!Handling,
           Lock!HasFork
      <4>3. UNCHANGED <<lock, owner, polls, pending, group, code>>
        BY <3>9 DEF Lock!ForwardPending
      <4> QED
        BY <4>1, <4>2, <4>3
    <3>10. CASE Lock!ReapChild(w)
      BY <3>10 DEF Lock!ReapChild, Lock!Goto, Lock!PC, Lock!Holding, Lock!Handling
    <3>11. CASE Lock!RestoreHandlers(w)
      BY <3>11 DEF Lock!RestoreHandlers, Lock!Goto, Lock!PC, Lock!Holding
    <3>12. CASE Lock!CloseFile(w)
      BY <3>12 DEF Lock!CloseFile, Lock!Goto, Lock!ReleasedBy, Lock!PC, Lock!Gone
    <3> QED
      BY <2>1, <3>1, <3>2, <3>3, <3>4, <3>5, <3>6, <3>7, <3>8, <3>9, <3>10,
         <3>11, <3>12 DEF Lock!OwnStep
  <2>2. ASSUME NEW w \in Wrappers, Lock!SignalStep(w)
        PROVE  Lock!TypeOK'
    <3>1. Lock!Reached(w) \subseteq Procs
      BY DEF Lock!Reached
    <3>2. CASE Lock!HandleSignal(w)
      BY <3>1, <3>2 DEF Lock!HandleSignal
    <3>3. ASSUME NEW how \in {"dead", "killed"}, Lock!Die(w, how)
          PROVE  Lock!TypeOK'
      BY <3>3 DEF Lock!Die, Lock!ReleasedBy, Lock!PC, Lock!Gone
    <3> QED
      BY <2>2, <3>2, <3>3 DEF Lock!SignalStep, Lock!DieOfSignal, Lock!Kill
  <2>3. ASSUME NEW w \in Wrappers, NEW p \in Procs, Lock!Fork(w,
  p) \/ Lock!EndProc(w, p)
        PROVE  Lock!TypeOK'
    BY <2>3 DEF Lock!Fork, Lock!EndProc
  <2>4. ASSUME NEW w \in Wrappers, Lock!StrikeLeader(w)
        PROVE  Lock!TypeOK'
    BY <2>4 DEF Lock!StrikeLeader
  <2>5. CASE UNCHANGED Lock!vars
    BY <2>5 DEF Lock!vars
  <2> QED
    BY <2>1, <2>2, <2>3, <2>4, <2>5 DEF Lock!Next
<1> QED
  BY <1>1, <1>2, PTL DEF LockSpec, Lock!Spec

----------------------------------------------------------------------------
(***************************************************************************)
(* The inductive invariant: the flock is held exactly between flock() and  *)
(* the end of the wrapper, and a live leader belongs to a wrapper that is  *)
(* still between Popen and the return of wait(), or to a killed one.       *)
(***************************************************************************)
LeaderWatched ==
  \A w \in Wrappers : Leader \in group[w] => point[w] \in Lock!HasFork \cup {"killed"}

LockInv == Lock!LockMatchesHolder /\ LeaderWatched

LEMMA LockInvInit == Lock!Init => LockInv
BY LockAssumption DEF Lock!Sound, Lock!Init, LockInv, Lock!LockMatchesHolder, LeaderWatched,
   Lock!Holding, Lock!Handling, Lock!HasFork

\* A wrapper that moves between two program points outside, or two inside,
\* the holding region and leaves the lock alone keeps the lock's invariant.
LEMMA SameRegion ==
  ASSUME Lock!TypeOK, Lock!LockMatchesHolder, NEW w \in Wrappers,
         NEW from \in Lock!PC, NEW to \in Lock!PC,
         from \in Lock!Holding <=> to \in Lock!Holding,
         Lock!Goto(w, from, to), UNCHANGED lock
  PROVE  Lock!LockMatchesHolder'
BY DEF Lock!TypeOK, Lock!LockMatchesHolder, Lock!Goto

LEMMA LockInvOwnStep ==
  ASSUME Lock!TypeOK, LockInv, NEW w \in Wrappers, Lock!OwnStep(w)
  PROVE  LockInv'
<1> USE DEF LockInv
<1> USE DEF Lock!PC, Lock!Gone, Lock!Holding, Lock!Handling, Lock!HasFork
<1>1. CASE Lock!OpenFile(w)
  <2>1. Lock!LockMatchesHolder'
    BY <1>1, SameRegion DEF Lock!OpenFile
  <2>2. LeaderWatched'
    BY <1>1 DEF Lock!OpenFile, Lock!Goto, LeaderWatched, Lock!TypeOK
  <2> QED BY <2>1, <2>2
<1>2. CASE Lock!TakeLock(w)
  <2>1. Lock!LockMatchesHolder'
    BY <1>2, LockAssumption DEF Lock!Sound, Lock!TakeLock, Lock!Goto, Lock!LockMatchesHolder,
       Lock!TypeOK
  <2>2. LeaderWatched'
    BY <1>2 DEF Lock!TakeLock, Lock!Goto, LeaderWatched, Lock!TypeOK
  <2> QED BY <2>1, <2>2
<1>3. CASE Lock!PollAgain(w)
  BY <1>3 DEF Lock!PollAgain, Lock!LockMatchesHolder, LeaderWatched
<1>4. CASE Lock!GiveUp(w)
  <2>1. Lock!LockMatchesHolder'
    BY <1>4, SameRegion DEF Lock!GiveUp
  <2>2. LeaderWatched'
    BY <1>4 DEF Lock!GiveUp, Lock!Goto, LeaderWatched, Lock!TypeOK
  <2> QED BY <2>1, <2>2
<1>5. CASE Lock!WriteOwner(w)
  <2>1. Lock!LockMatchesHolder'
    BY <1>5, SameRegion DEF Lock!WriteOwner
  <2>2. LeaderWatched'
    BY <1>5 DEF Lock!WriteOwner, Lock!Goto, LeaderWatched, Lock!TypeOK
  <2> QED BY <2>1, <2>2
<1>6. CASE Lock!InstallHandlers(w)
  <2>1. Lock!LockMatchesHolder'
    BY <1>6, SameRegion DEF Lock!InstallHandlers
  <2>2. LeaderWatched'
    BY <1>6 DEF Lock!InstallHandlers, Lock!Goto, LeaderWatched, Lock!TypeOK
  <2> QED BY <2>1, <2>2
<1>7. CASE Lock!StartChild(w)
  <2>1. Lock!LockMatchesHolder'
    BY <1>7, SameRegion DEF Lock!StartChild
  <2>2. LeaderWatched'
    BY <1>7 DEF Lock!StartChild, Lock!Goto, LeaderWatched, Lock!TypeOK
  <2> QED BY <2>1, <2>2
<1>8. CASE Lock!LearnGroup(w)
  <2>1. Lock!LockMatchesHolder'
    BY <1>8, SameRegion DEF Lock!LearnGroup
  <2>2. LeaderWatched'
    BY <1>8 DEF Lock!LearnGroup, Lock!Goto, LeaderWatched, Lock!TypeOK
  <2> QED BY <2>1, <2>2
<1>9. CASE Lock!ForwardPending(w)
  <2>1. Lock!LockMatchesHolder'
    BY <1>9, SameRegion DEF Lock!ForwardPending
  <2>2. LeaderWatched'
    BY <1>9 DEF Lock!ForwardPending, Lock!Goto, LeaderWatched, Lock!TypeOK
  <2> QED BY <2>1, <2>2
<1>10. CASE Lock!ReapChild(w)
  <2>1. Lock!LockMatchesHolder'
    BY <1>10, SameRegion DEF Lock!ReapChild
  <2>2. LeaderWatched'
    BY <1>10 DEF Lock!ReapChild, Lock!Goto, LeaderWatched, Lock!TypeOK
  <2> QED BY <2>1, <2>2
<1>11. CASE Lock!RestoreHandlers(w)
  <2>1. Lock!LockMatchesHolder'
    BY <1>11, SameRegion DEF Lock!RestoreHandlers
  <2>2. LeaderWatched'
    BY <1>11 DEF Lock!RestoreHandlers, Lock!Goto, LeaderWatched, Lock!TypeOK
  <2> QED BY <2>1, <2>2
<1>12. CASE Lock!CloseFile(w)
  <2>1. Lock!LockMatchesHolder'
    BY <1>12, LockAssumption
    DEF Lock!Sound, Lock!CloseFile, Lock!Goto, Lock!ReleasedBy,
        Lock!LockMatchesHolder, Lock!TypeOK
  <2>2. LeaderWatched'
    BY <1>12 DEF Lock!CloseFile, Lock!Goto, LeaderWatched, Lock!TypeOK
  <2> QED BY <2>1, <2>2
<1> QED
  BY <1>1, <1>2, <1>3, <1>4, <1>5, <1>6, <1>7, <1>8, <1>9, <1>10, <1>11, <1>12
  DEF Lock!OwnStep

LEMMA LockInvStep ==
  Lock!TypeOK /\ LockInv /\ [Lock!Next]_(Lock!vars) => LockInv'
<1> SUFFICES ASSUME Lock!TypeOK, LockInv, [Lock!Next]_(Lock!vars)
             PROVE  LockInv'
  OBVIOUS
<1>1. ASSUME NEW w \in Wrappers, Lock!OwnStep(w)
      PROVE  LockInv'
  BY <1>1, LockInvOwnStep
<1>2. ASSUME NEW w \in Wrappers, Lock!SignalStep(w)
      PROVE  LockInv'
  <2>1. CASE Lock!HandleSignal(w)
    BY <2>1 DEF Lock!HandleSignal, LockInv, Lock!LockMatchesHolder, LeaderWatched
  <2>2. ASSUME NEW how \in {"dead", "killed"}, Lock!Die(w, how),
               how = "killed" \/ point[w] \notin Lock!Handling \cup Lock!Gone
        PROVE  LockInv'
    <3>1. Lock!LockMatchesHolder'
      BY <2>2, LockAssumption
      DEF Lock!Sound, Lock!Die, Lock!ReleasedBy, LockInv, Lock!LockMatchesHolder,
          Lock!TypeOK, Lock!Holding, Lock!Handling, Lock!HasFork
    <3>2. LeaderWatched'
      BY <2>2 DEF Lock!Die, LockInv, LeaderWatched, Lock!TypeOK, Lock!Handling,
         Lock!HasFork, Lock!Gone
    <3> QED BY <3>1, <3>2 DEF LockInv
  <2> QED
    BY <1>2, <2>1, <2>2 DEF Lock!SignalStep, Lock!DieOfSignal, Lock!Kill
<1>3. ASSUME NEW w \in Wrappers, NEW p \in Procs, Lock!Fork(w, p) \/ Lock!EndProc(w, p)
      PROVE  LockInv'
  BY <1>3 DEF Lock!Fork, Lock!EndProc, LockInv, Lock!LockMatchesHolder,
     LeaderWatched, Lock!TypeOK
<1>4. ASSUME NEW w \in Wrappers, Lock!StrikeLeader(w)
      PROVE  LockInv'
  BY <1>4 DEF Lock!StrikeLeader, LockInv, Lock!LockMatchesHolder, LeaderWatched,
     Lock!TypeOK
<1>5. CASE UNCHANGED Lock!vars
  BY <1>5 DEF Lock!vars, LockInv, Lock!LockMatchesHolder, LeaderWatched
<1> QED
  BY <1>1, <1>2, <1>3, <1>4, <1>5 DEF Lock!Next

LEMMA LockKept == LockSpec => []LockInv
<1>1. /\ Lock!Init => LockInv
      /\ Lock!TypeOK /\ LockInv /\ [Lock!Next]_(Lock!vars) => LockInv'
  BY LockInvInit, LockInvStep
<1>2. LockSpec => []Lock!TypeOK
  BY LockTypes
<1> QED
  BY <1>1, <1>2, PTL DEF LockSpec, Lock!Spec

(***************************************************************************)
(* The flock is held exactly by the wrapper that is between flock() and    *)
(* the close of its file.                                                  *)
(***************************************************************************)
THEOREM LockHolderCorrect == LockSpec => []Lock!LockMatchesHolder
<1>1. LockInv => Lock!LockMatchesHolder
  BY DEF LockInv
<1> QED
  BY <1>1, LockKept, PTL

(***************************************************************************)
(* A worker whose wrapper was not ended by a signal runs under the lock,   *)
(* whatever signals and kills the other wrappers get.                      *)
(***************************************************************************)
THEOREM WorkersRunUnderLock == LockSpec => []Lock!WorkerUnderLock
<1>1. LockInv => Lock!WorkerUnderLock
  BY DEF LockInv, Lock!LockMatchesHolder, LeaderWatched, Lock!WorkerUnderLock,
     Lock!Holding, Lock!Handling
<1> QED
  BY <1>1, LockKept, PTL

----------------------------------------------------------------------------
(***************************************************************************)
(* Who is left of a worker.  Before Popen there is nobody and nothing was  *)
(* sent; a signal that met the leader alone is pending as long as the      *)
(* leader lives, so it is sent again; a leader that was signalled with its *)
(* group, or is gone, leaves only processes that were signalled too.       *)
(***************************************************************************)
Unborn == {"started", "polling", "acquired", "described", "armed"}

NobodyYet(w) == point[w] \in Unborn => group[w] = {} /\ signalled[w] = {} /\ ~alone[w]

SentAgain(w) ==
  alone[w] /\ Leader \in group[w] => pending[w] /\ point[w] \in {"forked", "grouped", "killed"}

Signalled(w) == Leader \in signalled[w] => alone[w] \/ group[w] \subseteq signalled[w]

Remnant(w) ==
  group[w] = {} \/ Leader \in group[w] \/ alone[w] \/ group[w] \subseteq signalled[w]

GroupInv ==
  \A w \in Wrappers : NobodyYet(w) /\ SentAgain(w) /\ Signalled(w) /\ Remnant(w)

LEMMA GroupInit == Lock!Init => GroupInv
BY DEF Lock!Init, GroupInv, NobodyYet, SentAgain, Signalled, Remnant

\* A step of wrapper w that leaves every other wrapper's processes alone.
LEMMA GroupElsewhere ==
  ASSUME Lock!TypeOK, GroupInv, NEW w \in Wrappers, NEW v \in Wrappers, v # w,
         point'[v] = point[v], group'[v] = group[v], signalled'[v] = signalled[v],
         alone'[v] = alone[v], pending'[v] = pending[v]
  PROVE  (NobodyYet(v) /\ SentAgain(v) /\ Signalled(v) /\ Remnant(v))'
BY DEF GroupInv, NobodyYet, SentAgain, Signalled, Remnant

LEMMA GroupOwnStep ==
  ASSUME Lock!TypeOK, GroupInv, NEW w \in Wrappers, Lock!OwnStep(w)
  PROVE  GroupInv'
<1> USE DEF Lock!TypeOK
<1>1. ASSUME NEW v \in Wrappers, v # w
      PROVE  (NobodyYet(v) /\ SentAgain(v) /\ Signalled(v) /\ Remnant(v))'
  <2>1. /\ point'[v] = point[v] /\ group'[v] = group[v] /\ signalled'[v] = signalled[v]
        /\ alone'[v] = alone[v] /\ pending'[v] = pending[v]
    BY <1>1 DEF Lock!OwnStep, Lock!Goto, Lock!OpenFile, Lock!TakeLock,
       Lock!PollAgain, Lock!GiveUp, Lock!WriteOwner, Lock!InstallHandlers, Lock!StartChild,
       Lock!LearnGroup, Lock!ForwardPending, Lock!ReapChild, Lock!RestoreHandlers,
       Lock!CloseFile
  <2> QED
    BY <1>1, <2>1, GroupElsewhere
<1>2. (NobodyYet(w) /\ SentAgain(w) /\ Signalled(w) /\ Remnant(w))'
  <2> USE DEF GroupInv, NobodyYet, SentAgain, Signalled, Remnant, Lock!Goto, Unborn
  <2>1. CASE Lock!OpenFile(w) \/ Lock!TakeLock(w) \/ Lock!PollAgain(w) \/ Lock!GiveUp(w)
    BY <2>1 DEF Lock!OpenFile, Lock!TakeLock, Lock!PollAgain, Lock!GiveUp
  <2>2. CASE Lock!WriteOwner(w) \/ Lock!InstallHandlers(w)
    BY <2>2 DEF Lock!WriteOwner, Lock!InstallHandlers
  <2>3. CASE Lock!StartChild(w)
    BY <2>3 DEF Lock!StartChild
  <2>4. CASE Lock!LearnGroup(w)
    BY <2>4 DEF Lock!LearnGroup
  <2>5. CASE Lock!ForwardPending(w)
    <3>1. CASE pending[w] /\ Leader \in group[w]
      BY <2>5, <3>1 DEF Lock!ForwardPending
    <3>2. CASE ~(pending[w] /\ Leader \in group[w])
      BY <2>5, <3>2 DEF Lock!ForwardPending
    <3> QED BY <3>1, <3>2
  <2>6. CASE Lock!ReapChild(w) \/ Lock!RestoreHandlers(w) \/ Lock!CloseFile(w)
    BY <2>6 DEF Lock!ReapChild, Lock!RestoreHandlers, Lock!CloseFile
  <2> QED
    BY <2>1, <2>2, <2>3, <2>4, <2>5, <2>6 DEF Lock!OwnStep
<1> QED
  BY <1>1, <1>2 DEF GroupInv

LEMMA GroupStep ==
  Lock!TypeOK /\ LockInv /\ GroupInv /\ [Lock!Next]_(Lock!vars) => GroupInv'
<1> SUFFICES ASSUME Lock!TypeOK, LockInv, GroupInv, [Lock!Next]_(Lock!vars)
             PROVE  GroupInv'
  OBVIOUS
<1> USE DEF Lock!TypeOK, GroupInv, NobodyYet, SentAgain, Signalled, Remnant
<1>1. ASSUME NEW w \in Wrappers, Lock!OwnStep(w)
      PROVE  GroupInv'
  BY <1>1, GroupOwnStep
<1>2. ASSUME NEW w \in Wrappers, Lock!HandleSignal(w)
      PROVE  GroupInv'
  <2>1. ASSUME NEW v \in Wrappers, v # w
        PROVE  (NobodyYet(v) /\ SentAgain(v) /\ Signalled(v) /\ Remnant(v))'
    BY <1>2, <2>1, GroupElsewhere DEF Lock!HandleSignal
  <2>2. CASE point[w] = "forked"
    BY <1>2, <2>1, <2>2 DEF Lock!HandleSignal, Lock!Reached, Unborn
  <2>3. CASE point[w] = "grouped"
    BY <1>2, <2>1, <2>3 DEF Lock!HandleSignal, Lock!Reached, Unborn
  <2>4. CASE point[w] = "waiting"
    BY <1>2, <2>1, <2>4 DEF Lock!HandleSignal, Lock!Reached, Unborn
  <2>5. CASE point[w] \in {"armed", "reaped"}
    <3>1. signalled' = signalled /\ alone' = alone
      BY <1>2, <2>5 DEF Lock!HandleSignal, Lock!Reached
    <3> QED
      BY <1>2, <2>1, <2>5, <3>1 DEF Lock!HandleSignal, Unborn
  <2> QED
    BY <1>2, <2>2, <2>3, <2>4, <2>5 DEF Lock!HandleSignal, Lock!Handling, Lock!HasFork
<1>3. ASSUME NEW w \in Wrappers, Lock!DieOfSignal(w)
      PROVE  GroupInv'
  <2>1. /\ point[w] \in Lock!PC /\ point[w] \notin Lock!Handling \cup Lock!Gone
        /\ point' = [point EXCEPT ![w] = "dead"]
        /\ UNCHANGED <<group, signalled, alone, pending>>
    BY <1>3 DEF Lock!DieOfSignal, Lock!Die
  <2>2. point[w] \notin {"forked", "grouped", "killed"}
    BY <2>1 DEF Lock!Handling, Lock!HasFork, Lock!Gone
  <2> QED
    BY <2>1, <2>2 DEF Unborn
<1>4. ASSUME NEW w \in Wrappers, Lock!Kill(w)
      PROVE  GroupInv'
  BY <1>4 DEF Lock!Kill, Lock!Die, Unborn
<1>5. ASSUME NEW w \in Wrappers, NEW p \in Procs, Lock!Fork(w, p)
      PROVE  GroupInv'
  BY <1>5 DEF Lock!Fork, Unborn
<1>6. ASSUME NEW w \in Wrappers, NEW p \in Procs, Lock!EndProc(w, p)
      PROVE  GroupInv'
  BY <1>6 DEF Lock!EndProc, Unborn
<1>7. ASSUME NEW w \in Wrappers, Lock!StrikeLeader(w)
      PROVE  GroupInv'
  BY <1>7 DEF Lock!StrikeLeader, Unborn
<1>8. CASE UNCHANGED Lock!vars
  BY <1>8 DEF Lock!vars
<1> QED
  BY <1>1, <1>2, <1>3, <1>4, <1>5, <1>6, <1>7, <1>8 DEF Lock!Next, Lock!SignalStep

(***************************************************************************)
(* Processes of two workers are alive together only if one of the workers  *)
(* was left behind: any other worker with a live process has a live        *)
(* leader, and its wrapper holds the one lock.                             *)
(***************************************************************************)
THEOREM MutualExclusion == LockSpec => []OneWorkerAtATime
<1>1. LockInv /\ GroupInv => OneWorkerAtATime
  <2> SUFFICES ASSUME LockInv, GroupInv, NEW v \in Wrappers, NEW w \in Wrappers,
                      group[v] # {}, group[w] # {}, v # w,
                      ~Lock!LeftBehind(v), ~Lock!LeftBehind(w)
               PROVE  FALSE
    BY DEF OneWorkerAtATime, Lock!OneWorkerAtATime
  <2>1. ASSUME NEW u \in {v, w}
        PROVE  lock = u
    <3>1. Leader \in group[u] /\ point[u] # "killed"
      BY <2>1 DEF GroupInv, Remnant, Lock!LeftBehind
    <3> QED
      BY <2>1, <3>1 DEF LockInv, LeaderWatched, Lock!LockMatchesHolder, Lock!Holding,
         Lock!Handling
  <2> QED
    BY <2>1
<1>2. LockSpec => []GroupInv
  BY GroupInit, GroupStep, LockTypes, LockKept, PTL DEF LockSpec, Lock!Spec
<1> QED
  BY <1>1, <1>2, LockKept, PTL

----------------------------------------------------------------------------
(***************************************************************************)
(* The text in the lock file names the process that holds the lock from    *)
(* the moment it is written until the lock is free again.                  *)
(***************************************************************************)
THEOREM OwnerTextCorrect == LockSpec => []Lock!OwnerTextIsHolder
<1>1. Lock!Init => Lock!OwnerTextIsHolder
  BY DEF Lock!Init, Lock!OwnerTextIsHolder, Lock!Holding, Lock!Handling, Lock!HasFork
<1>2. Lock!TypeOK /\ LockInv /\ Lock!OwnerTextIsHolder
        /\ [Lock!Next]_(Lock!vars) /\ LockInv' => Lock!OwnerTextIsHolder'
  <2> SUFFICES ASSUME Lock!TypeOK, LockInv, Lock!OwnerTextIsHolder,
                      [Lock!Next]_(Lock!vars), LockInv'
               PROVE  Lock!OwnerTextIsHolder'
    OBVIOUS
  <2> USE DEF Lock!OwnerTextIsHolder, LockInv, Lock!LockMatchesHolder, Lock!TypeOK
  <2>1. ASSUME NEW w \in Wrappers, Lock!OwnStep(w)
        PROVE  Lock!OwnerTextIsHolder'
    BY <2>1 DEF Lock!OwnStep, Lock!Goto, Lock!OpenFile, Lock!TakeLock,
       Lock!PollAgain, Lock!GiveUp, Lock!WriteOwner,
       Lock!InstallHandlers, Lock!StartChild, Lock!LearnGroup, Lock!ForwardPending,
       Lock!ReapChild,
       Lock!RestoreHandlers, Lock!CloseFile, Lock!Holding, Lock!Handling, Lock!HasFork
  <2>2. ASSUME NEW w \in Wrappers, Lock!SignalStep(w)
        PROVE  Lock!OwnerTextIsHolder'
    BY <2>2 DEF Lock!SignalStep, Lock!HandleSignal, Lock!DieOfSignal, Lock!Kill,
       Lock!Die, Lock!Holding,
       Lock!Handling, Lock!HasFork
  <2>3. ASSUME NEW w \in Wrappers, NEW p \in Procs, Lock!Fork(w,
  p) \/ Lock!EndProc(w, p)
        PROVE  Lock!OwnerTextIsHolder'
    BY <2>3 DEF Lock!Fork, Lock!EndProc
  <2>4. ASSUME NEW w \in Wrappers, Lock!StrikeLeader(w)
        PROVE  Lock!OwnerTextIsHolder'
    BY <2>4 DEF Lock!StrikeLeader
  <2>5. CASE UNCHANGED Lock!vars
    BY <2>5 DEF Lock!vars
  <2> QED
    BY <2>1, <2>2, <2>3, <2>4, <2>5 DEF Lock!Next
<1> QED
  BY <1>1, <1>2, LockTypes, LockKept, PTL DEF LockSpec, Lock!Spec

(***************************************************************************)
(* No signal is lost between the installation of the handlers and the      *)
(* wait: what came before the group was known is forwarded once it is.     *)
(***************************************************************************)
THEOREM PendingForwarded == LockSpec => []PendingReachedGroup
<1>1. Lock!Init => PendingReachedGroup
  BY DEF Lock!Init, PendingReachedGroup, Lock!PendingReachedGroup
<1>2. Lock!TypeOK /\ PendingReachedGroup /\ [Lock!Next]_(Lock!vars) => PendingReachedGroup'
  <2> SUFFICES ASSUME Lock!TypeOK, PendingReachedGroup, [Lock!Next]_(Lock!vars)
               PROVE  PendingReachedGroup'
    OBVIOUS
  <2> USE DEF PendingReachedGroup, Lock!PendingReachedGroup, Lock!TypeOK
  <2>1. ASSUME NEW w \in Wrappers, Lock!OwnStep(w)
        PROVE  PendingReachedGroup'
    BY <2>1 DEF Lock!OwnStep, Lock!Goto, Lock!OpenFile, Lock!TakeLock,
       Lock!PollAgain, Lock!GiveUp, Lock!WriteOwner,
       Lock!InstallHandlers, Lock!StartChild, Lock!LearnGroup, Lock!ForwardPending,
       Lock!ReapChild,
       Lock!RestoreHandlers, Lock!CloseFile
  <2>2. ASSUME NEW w \in Wrappers, Lock!SignalStep(w)
        PROVE  PendingReachedGroup'
    <3>1. CASE Lock!HandleSignal(w)
      BY <3>1 DEF Lock!HandleSignal, Lock!Reached
    <3>2. ASSUME NEW how \in {"dead", "killed"}, Lock!Die(w, how)
          PROVE  PendingReachedGroup'
      BY <3>2 DEF Lock!Die
    <3> QED
      BY <2>2, <3>1, <3>2 DEF Lock!SignalStep, Lock!DieOfSignal, Lock!Kill
  <2>3. ASSUME NEW w \in Wrappers, NEW p \in Procs, Lock!Fork(w,
  p) \/ Lock!EndProc(w, p)
        PROVE  PendingReachedGroup'
    BY <2>3 DEF Lock!Fork, Lock!EndProc
  <2>4. ASSUME NEW w \in Wrappers, Lock!StrikeLeader(w)
        PROVE  PendingReachedGroup'
    BY <2>4 DEF Lock!StrikeLeader
  <2>5. CASE UNCHANGED Lock!vars
    BY <2>5 DEF Lock!vars
  <2> QED
    BY <2>1, <2>2, <2>3, <2>4, <2>5 DEF Lock!Next
<1> QED
  BY <1>1, <1>2, LockTypes, PTL DEF LockSpec, Lock!Spec
=============================================================================
