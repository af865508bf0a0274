----------------------------- MODULE JobSeeker -----------------------------
(***************************************************************************)
(* services/JobSeeker in queue mode, as the scheduler starts it:           *)
(* jobseeker_quota_runner.py shares the day's limit between two labels;    *)
(* for each it extracts a list of jobs and starts linkedin_worker.py,      *)
(* round after round, until the label's progress file counts enough        *)
(* applications of today.  The lock (RuntimeLock.tla) admits one runner.   *)
(*                                                                         *)
(* The lists' order is not modelled.  A record of a progress file has a    *)
(* status and the day of its submitted_at, 0 for none.                     *)
(***************************************************************************)
EXTENDS Integers, FiniteSets, SequencesExt

CONSTANTS
  Jobs,          \* 1..n
  Settings,      \* the settings a runner is tried in
  MinExtracted,  \* MIN_EXTRACTED_JOBS
  MaxDay         \* bound: days, the first a Monday

\* Lists change between extractions; extraction fails; a page or a form raises
\* an exception; a submission goes out and is not confirmed; a page is read
\* before its text is there; the runner is killed; LinkedIn shows a login form
\* (11) or a limit (12).
AllFaults == {"lists", "extraction", "exception", "unconfirmed", "late", "kill", "login", "limit"}

Labels == {"SRE", "DevOps"}

\* jobsOf: what the searches of each label find; silent: jobs whose page says
\* neither remote nor on-site; limit: LINKEDIN_JOBSEEKER_DAILY_LIMIT; batch:
\* LINKEDIN_JOBSEEKER_WORKER_BATCH, 0 for all; rounds:
\* ..._MAX_ROUNDS_PER_LABEL; faults: what may happen; days: how many are looked at.
Setting == [jobsOf : [Labels -> SUBSET Jobs], silent : SUBSET Jobs, limit : Nat, batch : Nat,
            rounds : Nat, faults : SUBSET AllFaults, days : 1..MaxDay]

ASSUME JobAssumption ==
  /\ IsFiniteSet(Jobs) /\ Jobs = 1..Cardinality(Jobs)
  /\ Settings \subseteq Setting /\ MinExtracted \in Nat /\ MaxDay \in 1..7

VARIABLES
  setting,    \* one of Settings; it does not change
  day,        \* today, in Buenos Aires
  shown,      \* what LinkedIn shows instead of a job, or "none"
  submitted,  \* the day LinkedIn received the application for a job, or 0
  late,       \* jobs applied for whose page was read before it said so
  progress,   \* the progress file of each label
  pc,
  runner,     \* jobseeker_quota_runner.py
  worker      \* linkedin_worker.py

vars == <<setting, day, shown, submitted, late, progress, pc, runner, worker>>

----------------------------------------------------------------------------
Day == 1..MaxDay
DayOrNone == 0..MaxDay
Statuses == {"absent", "pending", "applied", "done", "blocked"}

\* The outcomes of process_record: sent and confirmed, seen as applied for,
\* terminal for another reason, blocked by the form, a stop, an exception.
Outcomes == {"sent", "seen", "done", "blocked", "login", "limit", "error"}

\* whole: is the file readable?
File == [whole : BOOLEAN, status : [Jobs -> Statuses], at : [Jobs -> DayOrNone]]

\* queue: the labels to come; rounds, current: of the present label; code:
\* max_exit, or the stop the runner ended with.
Runner == [queue : Seq(Labels), targets : [Labels -> Nat], found : SUBSET Jobs,
           rounds : Nat, current : Nat, code : {0, 11, 12, 70}]

\* left: --max-submissions less submitted_count; code: the exit code of the
\* runner's last worker to end.
Worker == [todo : SUBSET Jobs, left : Nat, cur : Jobs \cup {0},
           outcome : Outcomes, code : {0, 1, 11, 12}]

\* Types; records of a day are those of a job that is in the file as applied
\* for, and none lies ahead.
TypeOK ==
  /\ setting \in Settings /\ day \in 1..setting.days /\ shown \in {"none", "login", "limit"}
  /\ submitted \in [Jobs -> 0..day] /\ late \subseteq Jobs
  /\ progress \in [Labels -> File]
  /\ \A l \in Labels, j \in Jobs :
       progress[l].at[j] # 0 => progress[l].status[j] = "applied" /\ progress[l].at[j] <= day
  /\ pc \in {"idle", "extract", "round", "load", "work", "form", "mark", "after"}
  /\ runner \in Runner /\ worker \in Worker

NoFile == [whole |-> TRUE, status |-> [j \in Jobs |-> "absent"], at |-> [j \in Jobs |-> 0]]
NoWorker == [todo |-> {}, left |-> 0, cur |-> 0, outcome |-> "done", code |-> 0]
NoRunner == [queue |-> <<>>, targets |-> [l \in Labels |-> 0], found |-> {},
             rounds |-> 0, current |-> 0, code |-> 0]

Init ==
  /\ setting \in Settings /\ day = 1 /\ shown = "none" /\ submitted = [j \in Jobs |-> 0] /\ late = {}
  /\ progress = [l \in Labels |-> NoFile]
  /\ pc = "idle" /\ runner = NoRunner /\ worker = NoWorker

Label == Head(runner.queue)
Target == runner.targets[Label]

----------------------------------------------------------------------------
(* The runner.                                                             *)

\* split_targets: a third for one label, the rest for the other, which takes
\* the large part on even weekdays and goes first.
Large == setting.limit - setting.limit \div 3
SplitTargets(l) == IF (l = "SRE") = (day % 2 = 0) THEN Large ELSE setting.limit \div 3
LabelOrder == IF day % 2 = 0 THEN <<"SRE", "DevOps">> ELSE <<"DevOps", "SRE">>

StartRunner ==
  /\ pc = "idle" /\ pc' = "extract"
  /\ runner' = [NoRunner EXCEPT !.queue = LabelOrder,
                                !.targets = [l \in Labels |-> SplitTargets(l)]]
  /\ worker' = NoWorker
  /\ UNCHANGED <<setting, day, shown, submitted, late, progress>>

\* The label is done with rc; the next one, or the end with max_exit.
NextLabel(rc) ==
  /\ pc' = IF Len(runner.queue) = 1 THEN "idle" ELSE "extract"
  /\ runner' = [runner EXCEPT !.queue = Tail(@), !.code = IF rc > @ THEN rc ELSE @,
                              !.rounds = 0, !.current = 0, !.found = {}]

\* extract_label: the jobs found, once each; a blocked page and every other
\* failure end it with -rc, which is below MIN_EXTRACTED like a short list.
ExtractLabel ==
  /\ pc = "extract"
  /\ \E found \in IF "lists" \in setting.faults THEN SUBSET setting.jobsOf[Label] ELSE {setting.jobsOf[Label]} :
       IF Cardinality(found) < MinExtracted THEN NextLabel(70)
       ELSE \/ pc' = "round" /\ runner' = [runner EXCEPT !.found = found]
            \/ "extraction" \in setting.faults /\ NextLabel(70)
  /\ UNCHANGED <<setting, day, shown, submitted, late, progress, worker>>

\* submitted_today: records with today's submitted_at; none in a broken file.
SubmittedToday(l) ==
  Cardinality({j \in Jobs : progress[l].whole /\ progress[l].at[j] = day})

Recorded(l) == {j \in Jobs : progress[l].whole /\ progress[l].status[j] # "absent"}
Pending(l) == {j \in Recorded(l) : progress[l].status[j] = "pending"}

\* for round_no in range(1, MAX_ROUNDS_PER_LABEL + 1)
RoundsLeft == runner.rounds < setting.rounds

Round ==
  /\ pc = "round"
  /\ IF \/ ~RoundsLeft \/ SubmittedToday(Label) >= Target
        \/ Recorded(Label) # {} /\ Pending(Label) = {}
     THEN NextLabel(0) /\ UNCHANGED worker
     ELSE /\ pc' = "load"
          /\ runner' = [runner EXCEPT !.current = SubmittedToday(Label),
                                      !.rounds = IF @ < setting.rounds THEN @ + 1 ELSE @]
          /\ worker' = [NoWorker EXCEPT !.left = Target - SubmittedToday(Label), !.code = worker.code]
  /\ UNCHANGED <<setting, day, shown, submitted, late, progress>>

\* rc in (11, 12)
IsStop(rc) == rc \in {11, 12}

AfterWorker ==
  /\ pc = "after"
  /\ IF IsStop(worker.code)
     THEN pc' = "idle" /\ runner' = [runner EXCEPT !.queue = <<>>, !.code = worker.code]
     ELSE IF \/ SubmittedToday(Label) >= Target
             \/ SubmittedToday(Label) = runner.current /\ Pending(Label) = {}
     THEN NextLabel(0)
     ELSE pc' = "round" /\ UNCHANGED runner
  /\ UNCHANGED <<setting, day, shown, submitted, late, progress, worker>>

----------------------------------------------------------------------------
(* The worker.                                                             *)

Exit(code) == pc' = "after" /\ worker' = [worker EXCEPT !.code = code, !.cur = 0, !.todo = {}]

\* json.loads in load_progress raises on a broken file.
Loads == progress[Label].whole

\* submitted_at goes with its record.
KeptDay(file, j) == IF j \in runner.found THEN file.at[j] ELSE 0

\* load_progress: records of jobs that are no longer listed are dropped, new
\* jobs are pending.
Loaded ==
  LET file == IF progress[Label].whole THEN progress[Label] ELSE NoFile
  IN [whole |-> TRUE,
      status |-> [j \in Jobs |-> CASE j \notin runner.found -> "absent"
                                   [] j \in runner.found /\ file.status[j] = "absent" -> "pending"
                                   [] OTHER -> file.status[j]],
      at |-> [j \in Jobs |-> KeptDay(file, j)]]

\* --retry-blocked: the records that are pending or blocked; of them
\* setting.batch at most, the first ones of the list, whatever its order.
Open(file) == {j \in Jobs : file.status[j] \in {"pending", "blocked"}}

Candidates(file) ==
  IF setting.batch = 0 \/ Cardinality(Open(file)) <= setting.batch THEN {Open(file)}
  ELSE {todo \in SUBSET Open(file) : Cardinality(todo) = setting.batch}

LoadProgress ==
  /\ pc = "load"
  /\ IF ~Loads THEN Exit(1) /\ UNCHANGED progress
     ELSE /\ progress' = [progress EXCEPT ![Label] = Loaded]
          /\ IF Open(Loaded) = {} THEN Exit(0)
             ELSE \/ \E todo \in Candidates(Loaded) :
                       pc' = "work" /\ worker' = [worker EXCEPT !.todo = todo]
                  \/ "exception" \in setting.faults /\ Exit(11)  \* no central browser
  /\ UNCHANGED <<setting, day, shown, submitted, late, runner>>

Outcome(j, outcome) ==
  /\ pc' = "mark" /\ worker' = [worker EXCEPT !.cur = j, !.todo = @ \ {j}, !.outcome = outcome]

\* Is the page read before its text is there?  page.goto waits for the document
\* only, and a failing wait for the rest is passed over.
TooLate == "late" \in setting.faults

\* process_record up to the form: the title and the resume, then the page.
\* A silent page ends in an exception: classify_remote_status calls env_bool,
\* which the module does not have.
OpenJob(j) ==
  LET new == (shown = "none" /\ submitted[j] = 0) \/ TooLate
  IN /\ pc = "work" /\ j \in worker.todo
     /\ \/ UNCHANGED late /\ \E outcome \in {"done", "blocked"} : Outcome(j, outcome)
        \/ UNCHANGED late /\ "exception" \in setting.faults /\ Outcome(j, "error")
        \/ UNCHANGED late /\ shown # "none" /\ Outcome(j, shown)
        \/ UNCHANGED late /\ shown = "none" /\ submitted[j] # 0 /\ Outcome(j, "seen")
        \/ UNCHANGED late /\ new /\ j \in setting.silent /\ Outcome(j, "error")
        \/ /\ new /\ j \notin setting.silent
           /\ late' = IF submitted[j] = 0 THEN late ELSE late \cup {j}
           /\ pc' = "form" /\ worker' = [worker EXCEPT !.cur = j, !.todo = @ \ {j}]
     /\ UNCHANGED <<setting, day, shown, submitted, progress, runner>>

\* The steps of the form: answers, resume, review; it may turn out unfit.  Each
\* looks for a limit, and for the text of an application that LinkedIn has:
\* "application submitted" is taken for a submission of this run, "already
\* applied" is not.  At a login form there is nothing to do.
FillForm ==
  /\ pc = "form"
  /\ LET j == worker.cur
     IN \/ \E outcome \in {"done", "blocked"} : Outcome(j, outcome)
        \/ "exception" \in setting.faults /\ Outcome(j, "error")
        \/ shown = "limit" /\ Outcome(j, "limit")
        \/ shown = "none" /\ submitted[j] # 0 /\ \E outcome \in {"sent", "seen"} : Outcome(j, outcome)
  /\ UNCHANGED <<setting, day, shown, submitted, late, progress, runner>>

\* The click on Submit, of which LinkedIn takes one for a job: confirmed by the
\* page; not confirmed, which is recorded as blocked; or not even known to have
\* landed, and the loop goes on.
Submit ==
  /\ pc = "form" /\ shown = "none" /\ submitted[worker.cur] = 0
  /\ submitted' = [submitted EXCEPT ![worker.cur] = day]
  /\ \/ Outcome(worker.cur, "sent")
     \/ "unconfirmed" \in setting.faults /\ Outcome(worker.cur, "blocked")
     \/ "unconfirmed" \in setting.faults /\ UNCHANGED <<pc, worker>>
  /\ UNCHANGED <<setting, day, shown, late, progress, runner>>

StatusOf(outcome) ==
  CASE outcome \in {"sent", "seen"} -> "applied"
    [] outcome = "done" -> "done"
    [] OTHER -> "blocked"

\* Mutant: every application seen gets a submitted_at.
IsNewSeen(outcome) == outcome \in {"sent", "seen"}

\* "submitted successfully" in the notes.
IsNew(outcome) == outcome = "sent"

\* Mutant: one submission more.
LimitReachedLate(left) == left < 0

\* submitted_count >= args.max_submissions
LimitReached(left) == left <= 0

\* mark_record, save_progress, and what the loop makes of the outcome.
MarkRecord ==
  /\ pc = "mark"
  /\ LET j == worker.cur
         left == IF IsNew(worker.outcome) THEN worker.left - 1 ELSE worker.left
     IN /\ progress' =
             [progress EXCEPT ![Label].status[j] = StatusOf(worker.outcome),
                              ![Label].at[j] = IF IsNew(worker.outcome) THEN day ELSE @]
        /\ CASE worker.outcome = "login" -> Exit(11)
             [] worker.outcome = "limit" -> Exit(12)
             [] worker.outcome \notin {"login", "limit"}
                /\ (worker.todo = {} \/ (IsNew(worker.outcome) /\ LimitReached(left))) -> Exit(0)
             [] OTHER -> pc' = "work" /\ worker' = [worker EXCEPT !.left = left, !.cur = 0]
  /\ UNCHANGED <<setting, day, shown, submitted, late, runner>>

----------------------------------------------------------------------------
(* The rest of the world.                                                  *)

\* The scheduler's timeout kills the runner; in the middle of write_text the
\* progress file is left cut off.
Kill ==
  /\ "kill" \in setting.faults /\ pc # "idle" /\ pc' = "idle"
  /\ \/ UNCHANGED progress
     \/ pc \in {"load", "mark"} /\ progress' = [progress EXCEPT ![Label].whole = FALSE]
  /\ runner' = NoRunner /\ worker' = NoWorker
  /\ UNCHANGED <<setting, day, shown, submitted, late>>

Midnight ==
  /\ day < setting.days /\ day' = day + 1
  /\ UNCHANGED <<setting, shown, submitted, late, progress, pc, runner, worker>>

ShowStop ==
  /\ shown = "none" /\ shown' \in {"login", "limit"} \cap setting.faults
  /\ UNCHANGED <<setting, day, submitted, late, progress, pc, runner, worker>>

\* By hand, or when LinkedIn's pause is over.
LiftStop ==
  /\ shown # "none" /\ shown' = "none"
  /\ UNCHANGED <<setting, day, submitted, late, progress, pc, runner, worker>>

RunnerStep ==
  \/ ExtractLabel \/ Round \/ AfterWorker
  \/ LoadProgress
  \/ \E j \in worker.todo : OpenJob(j)
  \/ FillForm \/ Submit \/ MarkRecord

Next == StartRunner \/ RunnerStep \/ Kill \/ Midnight \/ ShowStop \/ LiftStop

Spec == Init /\ [][Next]_vars

----------------------------------------------------------------------------
(* Properties.                                                             *)

\* No label's file has more applications of one day than the larger share of
\* the day's limit, over rounds, restarts and runs that go past midnight
\* (run_label, worker main).
RecordedUnderShare ==
  \A l \in Labels, d \in Day : Cardinality({j \in Jobs : progress[l].at[j] = d}) <= Large

\* What is counted was sent, not later than it was noted, and is counted once:
\* no two labels note it, though they may list the same job, clicks go unnoticed
\* and files lose records; but for a job whose page was read before it said that
\* it is applied for, which the form's "application submitted" counts again
\* (process_record, mark_record, load_progress).
CountedOnce ==
  \A l \in Labels, j \in Jobs : progress[l].at[j] # 0 =>
    /\ submitted[j] # 0 /\ submitted[j] <= progress[l].at[j]
    /\ j \notin late => \A k \in Labels \ {l} : progress[k].at[j] = 0

\* "target is submitted Easy Apply applications" (run_unlocked.sh:86): LinkedIn
\* receives no more of them in a day than the limit, over both labels and any
\* number of runs, if lists stay, submissions are confirmed, and no run is
\* killed or goes past midnight.
AppliedUnderLimit ==
  setting.faults \cap {"lists", "unconfirmed", "kill"} = {} /\ setting.days = 1 =>
    \A d \in Day : Cardinality({j \in Jobs : submitted[j] = d}) <= setting.limit
=============================================================================
