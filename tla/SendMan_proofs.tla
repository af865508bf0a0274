--------------------------- MODULE SendMan_proofs ---------------------------
(***************************************************************************)
(* Theorems about SendMan: the day's target in the log, and the promise of *)
(* Outreach to those whose dialog the messaging list shows, for any        *)
(* people, names, targets, searches and stops.                             *)
(***************************************************************************)
EXTENDS SendMan, TLAPS

----------------------------------------------------------------------------
(* The candidate of a run, and types.                                      *)

\* From its profile to the save, the candidate is a person the state file does not
\* know.
Cursor ==
  /\ pc \in {"profile", "compose", "clicked", "sent"} => run.cur \in People
  /\ pc \in {"profile", "compose", "clicked"} => run.cur \notin sent \cup skipped

TypeInv == TypeOK /\ Cursor

LEMMA NewRunType == ASSUME NEW n \in Nat PROVE NewRun(n) \in Run
BY DEF NewRun, Run, Results

LEMMA TypeInit == Init => TypeInv
<1> SUFFICES ASSUME Init PROVE TypeInv
  OBVIOUS
<1>1. run \in Run
  BY NewRunType DEF Init
<1>2. day \in Day
  BY NumberAssumption DEF Init, Day
<1>3. log \in [Day -> Nat]
  BY NumberAssumption DEF Init
<1> QED
  BY <1>1, <1>2, <1>3 DEF Init, TypeInv, TypeOK, Cursor, StopReasons, Points, RunPoints, Loop

\* The updates of a run's cursor and counters.
LEMMA RunUpdates ==
  ASSUME NEW r \in Run
  PROVE  /\ [r EXCEPT !.job = @ + 1, !.todo = {}] \in Run
         /\ \A found \in SUBSET People : [r EXCEPT !.pageNo = @ + 1, !.todo = found] \in Run
         /\ \A p \in People : [r EXCEPT !.todo = @ \ {p}, !.cur = p] \in Run
         /\ \A p \in People :
              [r EXCEPT !.total = @ + 1, !.forJob = @ + 1,
                        !.dialogs = @ \cup {NameOf[p]}] \in Run
<1> DEFINE Names == SUBSET {NameOf[p] : p \in People}
           Todos == SUBSET People
<1>0. Run = [remaining : Nat, total : Nat, forJob : Nat, job : Nat, pageNo : Nat,
             todo : Todos, cur : People \cup {NoOne}, result : Results,
             dialogs : Names, code : {0, 1, 11, 12, 14}]
  BY DEF Run
<1>1. /\ {} \in Todos /\ \A p \in People : r.todo \ {p} \in Todos
      /\ \A p \in People : r.dialogs \cup {NameOf[p]} \in Names
      /\ r.job + 1 \in Nat /\ r.pageNo + 1 \in Nat /\ r.total + 1 \in Nat /\ r.forJob + 1 \in Nat
  BY DEF Run
<1> HIDE DEF Names, Todos
<1>2. [r EXCEPT !.job = @ + 1, !.todo = {}] \in Run
  BY <1>0, <1>1
<1>3. ASSUME NEW found \in Todos PROVE [r EXCEPT !.pageNo = @ + 1, !.todo = found] \in Run
  BY <1>0, <1>1
<1>4. ASSUME NEW p \in People PROVE [r EXCEPT !.todo = @ \ {p}, !.cur = p] \in Run
  BY <1>0, <1>1
<1>5. ASSUME NEW p \in People
      PROVE [r EXCEPT !.total = @ + 1, !.forJob = @ + 1,
                      !.dialogs = @ \cup {NameOf[p]}] \in Run
  BY <1>0, <1>1
<1> QED BY <1>2, <1>3, <1>4, <1>5 DEF Todos

\* A step that ends the run.
LEMMA ExitType ==
  ASSUME TypeInv, NEW code \in {0, 1, 11, 12, 14}, NEW reason \in StopReasons,
         Exit(code, reason)
  PROVE  TypeInv'
BY DEF TypeInv, TypeOK, Cursor, Exit, world, files, Run, Points, RunPoints

LEMMA StopType == ASSUME TypeInv, Stop PROVE TypeInv'
BY ExitType DEF Stop, StopReasons

LEMMA FailType == ASSUME TypeInv, Fail PROVE TypeInv'
BY ExitType DEF Fail, StopReasons

LEMMA EndSearchType == ASSUME TypeInv, EndSearch PROVE TypeInv'
<1>1. CASE run.job < Searches /\ run.total < run.remaining
  BY <1>1, RunUpdates DEF EndSearch, TypeInv, TypeOK, Cursor, world, files, Points, RunPoints
<1>2. CASE ~(run.job < Searches /\ run.total < run.remaining)
  BY <1>2, ExitType DEF EndSearch, StopReasons
<1> QED BY <1>1, <1>2

LEMMA SkipType ==
  ASSUME TypeInv, NEW cached \in BOOLEAN, Skip(cached),
         pc \in {"profile", "clicked"}
  PROVE  TypeInv'
BY DEF TypeInv, TypeOK, Cursor, Skip, world, Run, Points, RunPoints

LEMMA LoopType == ASSUME TypeInv, StartLoop \/ CheckTarget \/ AfterRun PROVE TypeInv'
<1> USE DEF TypeInv, TypeOK, Cursor, world, files, Points, RunPoints
<1>1. CASE StartLoop
  BY <1>1 DEF StartLoop, Loop
<1>2. CASE CheckTarget
  <2>1. log[day] \in Nat /\ loop.retries \in Nat
    BY DEF Loop
  <2>2. CASE Remaining(log[day]) <= 0
    BY <1>2, <2>2 DEF CheckTarget, Finish, Loop
  <2>3. CASE ~(Remaining(log[day]) <= 0)
    <3>1. Remaining(log[day]) \in Nat
      BY <2>1, <2>3, NumberAssumption DEF Remaining
    <3>2. run' \in Run
      BY <1>2, <2>3, <3>1, NewRunType DEF CheckTarget
    <3> QED BY <1>2, <2>1, <2>3, <3>2 DEF CheckTarget, Loop
  <2> QED BY <2>2, <2>3
<1>3. CASE AfterRun
  <2>1. pc' \in {"idle", "loop"} /\ UNCHANGED <<day, shown, world, files, run>>
    BY <1>3 DEF AfterRun, Finish
  <2>2. loop' \in Loop
    BY <1>3 DEF AfterRun, Finish, Loop, Tries
  <2> QED BY <2>1, <2>2
<1> QED BY <1>1, <1>2, <1>3

LEMMA PageType ==
  ASSUME TypeInv, Start \/ Scan \/ OpenSearch \/ LoadPage \/ NextPage PROVE TypeInv'
<1> USE DEF TypeInv, TypeOK, Cursor, world, files, Points, RunPoints
<1>1. CASE Start
  BY <1>1 DEF Start, StopReasons, Run
<1>2. CASE Scan
  <2>1. ASSUME pc' = "search", run' = [run EXCEPT !.dialogs = Scanned],
               UNCHANGED <<day, shown, world, files, loop>>
        PROVE TypeInv'
    BY <2>1 DEF Run, Scanned, DialogNames
  <2> QED BY <1>2, <2>1, StopType, FailType, ExitType DEF Scan, Checked, StopReasons
<1>3. CASE OpenSearch
  <2>1. ASSUME pc' = "page", run' = [run EXCEPT !.forJob = 0, !.pageNo = 0],
               UNCHANGED <<day, shown, world, files, loop>>
        PROVE TypeInv'
    BY <2>1 DEF Run
  <2> QED BY <1>3, <2>1, StopType, FailType DEF OpenSearch, Checked
<1>4. CASE LoadPage
  <2>1. ASSUME NEW found \in SUBSET People, pc' = "candidate",
               run' = [run EXCEPT !.pageNo = @ + 1, !.todo = found],
               UNCHANGED <<day, shown, world, files, loop>>
        PROVE TypeInv'
    BY <2>1, RunUpdates
  <2> QED BY <1>4, <2>1, StopType, FailType, EndSearchType DEF LoadPage, Checked
<1>5. CASE NextPage
  <2>1. ASSUME pc' = "page", UNCHANGED <<day, shown, world, files, loop, run>>
        PROVE TypeInv'
    BY <2>1
  <2> QED BY <1>5, <2>1, StopType, FailType, EndSearchType DEF NextPage, Checked
<1> QED BY <1>1, <1>2, <1>3, <1>4, <1>5

LEMMA CandidateType ==
  ASSUME TypeInv,
         (\E p \in People : NextCandidate(p)) \/ Profile \/ ComposeFails \/ ClickSend
  PROVE  TypeInv'
<1> USE DEF TypeInv, TypeOK, Cursor, world, files, Points, RunPoints
<1>1. ASSUME NEW p \in People, NextCandidate(p) PROVE TypeInv'
  <2>1. run' \in Run /\ run'.cur = p
    BY <1>1, RunUpdates DEF NextCandidate, Run
  <2>2. pc' \in {"candidate", "profile"} /\ UNCHANGED <<day, shown, world, files, loop>>
    BY <1>1 DEF NextCandidate
  <2>3. pc' = "profile" => p \notin sent \cup skipped
    BY <1>1 DEF NextCandidate, AlreadyProcessed
  <2> QED BY <2>1, <2>2, <2>3
<1>2. CASE Profile
  <2>1. ASSUME pc = "profile", pc' = "compose",
               UNCHANGED <<day, shown, world, files, loop, run>>
        PROVE TypeInv'
    BY <2>1
  <2> QED BY <1>2, <2>1, StopType, SkipType DEF Profile, Checked
<1>3. CASE ComposeFails
  BY <1>3 DEF ComposeFails, Run, Results
<1>4. CASE ClickSend
  <2>1. run.cur \in People
    BY <1>4 DEF ClickSend
  <2>2. delivered' \in [People -> Nat] /\ late' \in Nat
    BY <1>4, <2>1 DEF ClickSend
  <2> QED BY <1>4, <2>1, <2>2 DEF ClickSend, Run, Results
<1> QED BY <1>1, <1>2, <1>3, <1>4

LEMMA RecordType ==
  ASSUME TypeInv, StopAfterClick \/ SkipAfterCompose \/ SaveSent \/ AppendSent
  PROVE  TypeInv'
<1> USE DEF TypeInv, TypeOK, Cursor, world, Points, RunPoints
<1>1. CASE StopAfterClick
  BY <1>1, StopType DEF StopAfterClick
<1>2. CASE SkipAfterCompose
  BY <1>2, SkipType DEF SkipAfterCompose
<1>3. CASE SaveSent
  <2>1. run.cur \in People
    BY <1>3 DEF SaveSent
  <2>2. run' \in Run /\ run'.cur = run.cur
    BY <1>3, <2>1, RunUpdates DEF SaveSent, Run
  <2> QED BY <1>3, <2>1, <2>2 DEF SaveSent
<1>4. CASE AppendSent
  BY <1>4 DEF AppendSent
<1> QED BY <1>1, <1>2, <1>3, <1>4

LEMMA WorldType ==
  ASSUME TypeInv,
         Crash \/ (\E stop \in StopsShown : ShowStop(stop)) \/ LiftStop \/ Midnight
  PROVE  TypeInv'
BY NumberAssumption DEF TypeInv, TypeOK, Cursor, world, files, Points, RunPoints, Crash,
  ShowStop, LiftStop, Midnight, Day

LEMMA TypeStep == TypeInv /\ [Next]_vars => TypeInv'
<1>1. TypeInv /\ UNCHANGED vars => TypeInv'
  BY DEF TypeInv, TypeOK, Cursor, vars, world, files
<1> QED
  BY <1>1, LoopType, PageType, CandidateType, RecordType, WorldType
  DEF Next, LoopStep, RunStep

\* The variables have their types, and nobody is in the state file both as written
\* to and as skipped, in every reachable state (record_skip, save_state).
THEOREM TypeCorrect == Spec => []TypeOK
<1>1. TypeInv => TypeOK
  BY DEF TypeInv
<1> QED BY <1>1, TypeInit, TypeStep, PTL DEF Spec

----------------------------------------------------------------------------
(* The day's target.                                                       *)

\* The messages of the run that are in the log.
Logged == IF pc = "sent" THEN run.total - 1 ELSE run.total

\* What a run may still log fits under the target of the day, whichever day it is
\* by then: nothing is logged for days to come.
Budget ==
  /\ \A d \in Day : log[d] <= Target /\ (d > day => log[d] = 0)
  /\ pc \in RunPoints \cup {"start"} =>
       /\ run.total <= run.remaining /\ run.remaining <= Target
       /\ log[day] + run.remaining - Logged <= Target
  /\ pc \in {"profile", "compose", "clicked"} => run.total < run.remaining
  /\ pc = "sent" => run.total >= 1

LEMMA BudgetInit == Init => Budget
BY NumberAssumption DEF Init, Budget, Points, RunPoints, Day

\* A step that logs nothing, counts nothing, and goes on to a candidate only below
\* the caps.
Quiet ==
  /\ UNCHANGED <<day, log>> /\ pc' # "start"
  /\ pc' \in RunPoints =>
       /\ pc \in (RunPoints \cup {"start"}) \ {"sent"} /\ pc' # "sent"
       /\ run'.total = run.total /\ run'.remaining = run.remaining
  /\ pc' \in {"profile", "compose", "clicked"} =>
       pc \in {"profile", "compose", "clicked"} \/ run.total < run.remaining

LEMMA QuietBudget == ASSUME TypeInv, Budget, Quiet PROVE Budget'
BY DEF TypeInv, TypeOK, Budget, Logged, Quiet, RunPoints, Run

LEMMA ExitQuiet == ASSUME NEW code, NEW reason, Exit(code, reason) PROVE Quiet
BY DEF Exit, Quiet, RunPoints

LEMMA StopQuiet == ASSUME Stop \/ Fail PROVE Quiet
BY ExitQuiet DEF Stop, Fail

LEMMA EndSearchQuiet ==
  ASSUME TypeInv, EndSearch, pc \in {"page", "candidate"} PROVE Quiet
<1>1. CASE run.job < Searches /\ run.total < run.remaining
  BY <1>1 DEF EndSearch, Quiet, RunPoints, files, TypeInv, TypeOK, Run
<1> QED BY <1>1, ExitQuiet DEF EndSearch

LEMMA PageQuiet ==
  ASSUME TypeInv, StartLoop \/ AfterRun \/ Start \/ Scan \/ OpenSearch \/ LoadPage \/ NextPage
  PROVE  Quiet
<1> USE DEF Quiet, RunPoints, files, TypeInv, TypeOK
<1>1. CASE StartLoop \/ Start BY <1>1 DEF StartLoop, Start
<1>2. CASE AfterRun BY <1>2 DEF AfterRun, Finish
<1>3. CASE Scan BY <1>3, StopQuiet, ExitQuiet DEF Scan, Checked, Run
<1>4. CASE OpenSearch BY <1>4, StopQuiet DEF OpenSearch, Checked, Run
<1>5. CASE LoadPage
  <2>1. ASSUME NEW found \in SUBSET People, pc' = "candidate",
               run' = [run EXCEPT !.pageNo = @ + 1, !.todo = found],
               UNCHANGED <<day, shown, world, files, loop>>
        PROVE Quiet
    BY <1>5, <2>1 DEF LoadPage, Run
  <2> QED BY <1>5, <2>1, StopQuiet, EndSearchQuiet DEF LoadPage, Checked
<1>6. CASE NextPage BY <1>6, StopQuiet, EndSearchQuiet DEF NextPage, Checked
<1> QED BY <1>1, <1>2, <1>3, <1>4, <1>5, <1>6

LEMMA CandidateQuiet ==
  ASSUME TypeInv, (\E p \in People : NextCandidate(p)) \/ Profile \/ ComposeFails
                  \/ ClickSend \/ StopAfterClick \/ SkipAfterCompose \/ Crash
  PROVE  Quiet
<1> USE DEF Quiet, RunPoints, files, TypeInv, TypeOK
<1>1. ASSUME NEW p \in People, NextCandidate(p) PROVE Quiet
  <2>1. run.total < run.remaining
    <3>1. ~Capped /\ run.total \in Nat /\ run.remaining \in Nat
      BY <1>1 DEF NextCandidate, Run
    <3> QED BY <3>1 DEF Capped
  <2> QED BY <1>1, <2>1 DEF NextCandidate, Run
<1>2. CASE Profile BY <1>2, StopQuiet DEF Profile, Skip, Checked
<1>3. CASE ComposeFails \/ ClickSend BY <1>3 DEF ComposeFails, ClickSend, Run
<1>4. CASE StopAfterClick BY <1>4, StopQuiet DEF StopAfterClick
<1>5. CASE SkipAfterCompose BY <1>5 DEF SkipAfterCompose, Skip
<1>6. CASE Crash BY <1>6 DEF Crash
<1> QED BY <1>1, <1>2, <1>3, <1>4, <1>5, <1>6

LEMMA BudgetStep == TypeInv /\ Budget /\ [Next]_vars => Budget'
<1> SUFFICES ASSUME TypeInv, Budget, [Next]_vars PROVE Budget'
  OBVIOUS
<1>1. CASE UNCHANGED <<day, log, pc, run>>
  BY <1>1 DEF Budget, Logged
<1>2. CASE CheckTarget
  <2> USE <1>2 DEF CheckTarget, files, Budget, Logged, RunPoints, TypeInv, TypeOK, Finish
  <2>1. CASE Remaining(log[day]) <= 0 BY <2>1
  <2>2. CASE ~(Remaining(log[day]) <= 0)
    BY <2>2, NumberAssumption DEF Remaining, NewRun
  <2> QED BY <2>1, <2>2
<1>3. CASE SaveSent
  <2>1. /\ pc = "clicked" /\ pc' = "sent" /\ UNCHANGED <<day, log>>
        /\ run'.total = run.total + 1 /\ run'.remaining = run.remaining
    BY <1>3 DEF SaveSent, TypeInv, TypeOK, Run
  <2>2. log[day] \in Nat /\ run.total \in Nat /\ run.remaining \in Nat
    BY DEF TypeInv, TypeOK, Run
  <2> QED BY <2>1, <2>2, NumberAssumption DEF Budget, Logged, RunPoints
<1>4. CASE AppendSent
  <2>1. /\ pc = "sent" /\ pc' = "candidate" /\ UNCHANGED <<day, run>>
        /\ log' = [log EXCEPT ![day] = @ + 1] /\ log \in [Day -> Nat] /\ day \in Day
    BY <1>4 DEF AppendSent, TypeInv, TypeOK
  <2>2. run.total \in Nat /\ run.remaining \in Nat
    BY DEF TypeInv, TypeOK, Run
  <2>3. log[day] + run.remaining - run.total + 1 <= Target /\ run.total <= run.remaining
    BY <2>1, <2>2, NumberAssumption DEF Budget, Logged, RunPoints
  <2>4. log[day] + 1 <= Target
    BY <2>1, <2>2, <2>3, NumberAssumption
  <2>5. \A d \in Day : log'[d] <= Target /\ (d > day' => log'[d] = 0)
    BY <2>1, <2>4, NumberAssumption DEF Budget, Day
  <2>6. log'[day'] + run'.remaining - Logged' <= Target
    BY <2>1, <2>2, <2>3 DEF Logged
  <2>7. run'.total <= run'.remaining /\ run'.remaining <= Target
    BY <2>1, <2>3 DEF Budget, RunPoints
  <2> QED BY <2>1, <2>5, <2>6, <2>7 DEF Budget, RunPoints
<1>5. CASE Midnight
  <2>1. day' = day + 1 /\ UNCHANGED <<log, pc, run>> /\ day \in Nat /\ day + 1 \in Day
    BY <1>5, NumberAssumption DEF Midnight, files, TypeInv, TypeOK, Day
  <2>2. log[day + 1] = 0
    BY <2>1 DEF Budget
  <2>3. /\ run.total \in Nat /\ run.remaining \in Nat
        /\ pc = "sent" => run.total >= 1
    BY DEF TypeInv, TypeOK, Run, Budget
  <2>4. Logged \in Nat /\ Logged' = Logged
    BY <2>1, <2>3 DEF Logged
  <2>5. \A d \in Day : d > day + 1 => d > day
    BY <2>1 DEF Day
  <2> QED BY <2>1, <2>2, <2>3, <2>4, <2>5, NumberAssumption DEF Budget, RunPoints
<1>6. CASE Quiet
  BY <1>6, QuietBudget
<1> QED
  BY <1>1, <1>2, <1>3, <1>4, <1>5, <1>6, PageQuiet, CandidateQuiet
  DEF Next, LoopStep, RunStep, ShowStop, LiftStop, files, vars

\* The log never shows more messages on a day than the day's target, over retries,
\* crashes and runs that go past midnight (run_unlocked.sh:59-71).
THEOREM TargetHolds == Spec => []RecordedUnderTarget
<1>1. Budget => RecordedUnderTarget
  BY DEF Budget, RecordedUnderTarget
<1> QED
  BY <1>1, TypeInit, TypeStep, BudgetInit, BudgetStep, PTL DEF Spec

----------------------------------------------------------------------------
(* Stops.                                                                  *)

\* No click is late while no stop is shown, and none is when a message box opens: it
\* opens only on a page that was loaded and showed no stop.
BeforeClick ==
  /\ shown = "none" \/ pc = "compose" => late = 0
  /\ late <= 1

\* Neither the stop nor the message box is touched.
Elsewhere == UNCHANGED <<shown, late>> /\ pc' # "compose"

LEMMA StopElsewhere ==
  ASSUME Stop \/ Fail \/ EndSearch \/ (\E cached \in BOOLEAN : Skip(cached)) \/ Exit(11, "login")
  PROVE  Elsewhere
BY DEF Stop, Fail, EndSearch, Exit, Skip, Elsewhere, world

LEMMA PageElsewhere ==
  ASSUME StartLoop \/ CheckTarget \/ AfterRun \/ Start \/ Scan \/ OpenSearch \/ LoadPage
         \/ NextPage \/ (\E p \in People : NextCandidate(p))
  PROVE  Elsewhere
<1> USE DEF Elsewhere, world
<1>1. CASE StartLoop \/ CheckTarget \/ AfterRun
  BY <1>1 DEF StartLoop, CheckTarget, AfterRun, Finish
<1>2. CASE Start \/ Scan BY <1>2, StopElsewhere DEF Start, Scan, Checked
<1>3. CASE OpenSearch \/ LoadPage BY <1>3, StopElsewhere DEF OpenSearch, LoadPage, Checked
<1>4. CASE NextPage BY <1>4, StopElsewhere DEF NextPage, Checked
<1>5. CASE \E p \in People : NextCandidate(p) BY <1>5 DEF NextCandidate
<1> QED BY <1>1, <1>2, <1>3, <1>4, <1>5

LEMMA BeforeClickStep == TypeInv /\ BeforeClick /\ [Next]_vars => BeforeClick'
<1> SUFFICES ASSUME TypeInv, BeforeClick, [Next]_vars PROVE BeforeClick'
  OBVIOUS
<1> USE DEF BeforeClick, world, files
<1>0. late \in Nat
  BY DEF TypeInv, TypeOK
<1>1. CASE UNCHANGED vars
  BY <1>1 DEF vars
<1>2. CASE Elsewhere
  BY <1>2 DEF Elsewhere
<1>3. CASE Profile
  <2>1. CASE pc' = "compose" /\ shown = "none" /\ UNCHANGED <<shown, late>>
    BY <2>1
  <2>2. CASE Elsewhere
    BY <2>2, <1>2
  <2> QED BY <1>3, <2>1, <2>2, StopElsewhere DEF Profile, Checked, StopSeen
<1>4. CASE ClickSend
  <2>1. pc = "compose" /\ pc' = "clicked" /\ UNCHANGED shown
        /\ late' = IF shown = "none" THEN late ELSE late + 1
    BY <1>4 DEF ClickSend
  <2> QED BY <2>1, <1>0
<1>5. CASE ComposeFails \/ StopAfterClick \/ SkipAfterCompose \/ SaveSent \/ AppendSent \/ Crash
  BY <1>2, <1>5, StopElsewhere
  DEF ComposeFails, StopAfterClick, SkipAfterCompose, SaveSent, AppendSent, Crash, Elsewhere
<1>6. CASE LiftStop \/ \E stop \in StopsShown : ShowStop(stop)
  BY <1>6 DEF LiftStop, ShowStop
<1>7. CASE Midnight
  BY <1>7 DEF Midnight
<1> QED
  BY <1>1, <1>2, <1>3, <1>4, <1>5, <1>6, <1>7, PageElsewhere DEF Next, LoopStep, RunStep

\* "Stops immediately": after LinkedIn began to show a stop one click on Send is made
\* at most (linkedin_message_outreach.py:8, assert_no_stop at every load).
THEOREM StopsAtOnce == Spec => []StopHalts
<1>1. Init => BeforeClick
  BY DEF Init, BeforeClick
<1>2. BeforeClick => StopHalts
  BY DEF BeforeClick, StopHalts
<1> QED
  BY <1>1, <1>2, TypeInit, TypeStep, BeforeClickStep, PTL DEF Spec

----------------------------------------------------------------------------
(* Nobody twice.                                                           *)

\* Past the scan, a run knows of every listed person who has received a message, by the
\* names it read or by the state file, but for the candidate it has just clicked
\* for; that one is known after the click, unless nothing was sent.
Knows ==
  /\ pc \in RunPoints \ {"scan"} =>
       \A p \in Listed :
         delivered[p] > 0 => \/ NameOf[p] \in run.dialogs
                             \/ p \in sent \cup skipped
                             \/ pc = "clicked" /\ p = run.cur
  /\ pc = "compose" => NameOf[run.cur] \notin run.dialogs
  /\ pc = "clicked" /\ run.result = "uncached" /\ run.cur \in Listed => delivered[run.cur] = 0

LEMMA KnowsInit == Init => Knows
BY DEF Init, Knows, RunPoints

\* A step away from the message box that leaves what is known as it is.
Aside ==
  /\ UNCHANGED <<delivered, sent, skipped>> /\ pc' \notin {"compose", "clicked"}
  /\ pc' \in RunPoints \ {"scan"} =>
       pc \in RunPoints \ {"scan", "clicked"} /\ run'.dialogs = run.dialogs

LEMMA AsideKnows == ASSUME Knows, Aside PROVE Knows'
<1>1. ASSUME pc' \in RunPoints \ {"scan"}, NEW p \in Listed, delivered'[p] > 0
      PROVE  NameOf[p] \in run'.dialogs \/ p \in sent' \cup skipped'
  <2>1. pc \in RunPoints \ {"scan"} /\ pc # "clicked" /\ run'.dialogs = run.dialogs
    BY <1>1 DEF Aside
  <2> QED BY <1>1, <2>1 DEF Knows, Aside
<1>2. pc' # "compose" /\ pc' # "clicked"
  BY DEF Aside
<1> QED BY <1>1, <1>2 DEF Knows, RunPoints

LEMMA ExitAside == ASSUME NEW code, NEW reason, Exit(code, reason) PROVE Aside
BY DEF Exit, Aside, RunPoints, world

LEMMA StopAside == ASSUME Stop \/ Fail PROVE Aside
BY ExitAside DEF Stop, Fail

LEMMA EndSearchAside ==
  ASSUME TypeInv, EndSearch, pc \in {"page", "candidate"} PROVE Aside
<1>1. CASE run.job < Searches /\ run.total < run.remaining
  BY <1>1 DEF EndSearch, Aside, RunPoints, files, world, TypeInv, TypeOK, Run
<1> QED BY <1>1, ExitAside DEF EndSearch

LEMMA PageAside ==
  ASSUME TypeInv,
         StartLoop \/ CheckTarget \/ AfterRun \/ Start \/ OpenSearch \/ LoadPage \/ NextPage
         \/ (\E p \in People : NextCandidate(p)) \/ AppendSent \/ Crash \/ StopAfterClick
  PROVE  Aside
<1> USE DEF Aside, RunPoints, files, world, TypeInv, TypeOK
<1>1. CASE StartLoop \/ Start BY <1>1 DEF StartLoop, Start
<1>2. CASE CheckTarget \/ AfterRun BY <1>2 DEF CheckTarget, AfterRun, Finish
<1>3. CASE OpenSearch BY <1>3, StopAside DEF OpenSearch, Checked, Run
<1>4. CASE LoadPage
  <2>1. ASSUME NEW found \in SUBSET People, pc' = "candidate",
               run' = [run EXCEPT !.pageNo = @ + 1, !.todo = found],
               UNCHANGED <<day, shown, world, files, loop>>
        PROVE Aside
    BY <1>4, <2>1 DEF LoadPage, Run
  <2> QED BY <1>4, <2>1, StopAside, EndSearchAside DEF LoadPage, Checked
<1>5. CASE NextPage BY <1>5, StopAside, EndSearchAside DEF NextPage, Checked
<1>6. ASSUME NEW p \in People, NextCandidate(p) PROVE Aside
  BY <1>6 DEF NextCandidate, Run
<1>7. CASE AppendSent BY <1>7 DEF AppendSent
<1>8. CASE Crash BY <1>8 DEF Crash
<1>9. CASE StopAfterClick BY <1>9, StopAside DEF StopAfterClick
<1> QED BY <1>1, <1>2, <1>3, <1>4, <1>5, <1>6, <1>7, <1>8, <1>9

LEMMA KnowsStep == TypeInv /\ Knows /\ [Next]_vars => Knows'
<1> SUFFICES ASSUME TypeInv, Knows, [Next]_vars PROVE Knows'
  OBVIOUS
<1> USE DEF TypeInv, TypeOK, world, files
<1>1. CASE UNCHANGED <<delivered, sent, skipped, pc, run>>
  BY <1>1 DEF Knows
<1>2. CASE Aside
  BY <1>2, AsideKnows
<1>3. CASE Scan
  <2>1. ASSUME pc' = "search", run' = [run EXCEPT !.dialogs = Scanned],
               UNCHANGED <<day, shown, world, files, loop>>
        PROVE Knows'
    <3>1. run'.dialogs = {NameOf[p] : p \in {q \in People : delivered[q] > 0} \ Unlisted}
      BY <2>1 DEF Run, Scanned, DialogNames
    <3>2. \A p \in Listed : delivered'[p] > 0 => NameOf[p] \in run'.dialogs
      BY <2>1, <3>1 DEF Listed
    <3> QED BY <2>1, <3>2 DEF Knows, RunPoints
  <2> QED BY <1>3, <2>1, StopAside, ExitAside, AsideKnows DEF Scan, Checked
<1>4. CASE Profile
  <2>1. ASSUME NEW cached \in BOOLEAN, Skip(cached), pc = "profile" PROVE Knows'
    BY <2>1 DEF Skip, Knows, RunPoints
  <2>2. ASSUME pc = "profile", pc' = "compose", NameOf[run.cur] \notin run.dialogs,
               UNCHANGED <<day, shown, world, files, loop, run>>
        PROVE Knows'
    BY <2>2 DEF Knows, RunPoints
  <2> QED BY <1>4, <2>1, <2>2, StopAside, AsideKnows DEF Profile, Checked
<1>5. CASE ComposeFails
  <2>1. pc = "compose" /\ pc' = "clicked" /\ UNCHANGED <<delivered, sent, skipped>>
    BY <1>5 DEF ComposeFails
  <2>2. run'.dialogs = run.dialogs /\ run'.cur = run.cur
    BY <1>5 DEF ComposeFails, Run
  <2>3. run.cur \in Listed => delivered[run.cur] = 0
    BY <2>1 DEF Knows, RunPoints, Cursor, Listed
  <2> QED BY <2>1, <2>2, <2>3 DEF Knows, RunPoints
<1>6. CASE ClickSend
  <2>1. /\ pc = "compose" /\ pc' = "clicked" /\ UNCHANGED <<sent, skipped>>
        /\ run'.result # "uncached"
        /\ \A p \in People \ {run.cur} : delivered'[p] = delivered[p]
    BY <1>6 DEF ClickSend, Run, Results
  <2>2. run'.dialogs = run.dialogs /\ run'.cur = run.cur
    BY <1>6 DEF ClickSend, Run
  <2>3. \A p \in Listed \ {run.cur} : delivered'[p] = delivered[p]
    BY <2>1 DEF Listed
  <2> QED BY <2>1, <2>2, <2>3 DEF Knows, RunPoints
<1>7. CASE SkipAfterCompose
  <2>1. /\ pc = "clicked" /\ pc' = "candidate" /\ UNCHANGED <<delivered, sent, run>>
        /\ skipped \subseteq skipped'
        /\ run.result # "uncached" => run.cur \in skipped'
    BY <1>7 DEF SkipAfterCompose, Skip, Run, Results
  <2> QED BY <2>1 DEF Knows, RunPoints
<1>8. CASE SaveSent
  <2>1. /\ pc = "clicked" /\ pc' = "sent" /\ UNCHANGED <<delivered, skipped>>
        /\ sent' = sent \cup {run.cur}
    BY <1>8 DEF SaveSent
  <2>2. run.dialogs \subseteq run'.dialogs
    BY <1>8 DEF SaveSent, Run
  <2>3. ASSUME NEW p \in Listed, delivered'[p] > 0
        PROVE  NameOf[p] \in run'.dialogs \/ p \in sent' \cup skipped'
    BY <2>1, <2>2, <2>3 DEF Knows, RunPoints
  <2> QED BY <2>1, <2>3 DEF Knows, RunPoints
<1> QED
  BY <1>1, <1>2, <1>3, <1>4, <1>5, <1>6, <1>7, <1>8, PageAside
  DEF Next, LoopStep, RunStep, ShowStop, LiftStop, Midnight, vars

LEMMA PromiseStep ==
  TypeInv /\ Knows /\ [Next]_vars => [Promise!OutreachNext]_(Promise!outreachVars)
<1> SUFFICES ASSUME TypeInv, Knows, [Next]_vars
             PROVE  [Promise!OutreachNext]_(Promise!outreachVars)
  OBVIOUS
<1> USE DEF Promise!OutreachNext, Promise!outreachVars, Promise!Act, Promise!Note
<1>1. CASE UNCHANGED <<delivered, sent, skipped>>
  BY <1>1
<1>2. CASE ClickSend
  <2>1. /\ pc = "compose" /\ run.cur \in People /\ run.cur \notin sent \cup skipped
        /\ delivered \in [People -> Nat] /\ UNCHANGED <<sent, skipped>>
    BY <1>2 DEF ClickSend, TypeInv, TypeOK, Cursor, files
  <2>2. PICK n \in {0, 1} :
          delivered' = [delivered EXCEPT ![run.cur] = IF @ < CountCap THEN @ + n ELSE @]
    BY <1>2 DEF ClickSend
  <2>3. CASE n = 0 \/ run.cur \notin Listed
    <3>1. \A p \in Listed : delivered'[p] = delivered[p]
      BY <2>1, <2>2, <2>3 DEF Listed
    <3> QED BY <2>1, <3>1
  <2>4. CASE n = 1 /\ run.cur \in Listed
    <3>1. delivered[run.cur] = 0
      BY <2>1, <2>4 DEF Knows, RunPoints
    <3>2. /\ delivered'[run.cur] = 1
          /\ \A p \in Listed \ {run.cur} : delivered'[p] = delivered[p]
      BY <2>1, <2>2, <2>4, <3>1, NumberAssumption DEF Listed
    <3>3. [p \in Listed |-> delivered'[p]]
            = [[p \in Listed |-> delivered[p]] EXCEPT ![run.cur] = 1]
      BY <2>4, <3>2
    <3> QED BY <2>1, <2>4, <3>1, <3>3
  <2> QED BY <2>2, <2>3, <2>4
<1>3. ASSUME UNCHANGED delivered, run.cur \in People,
             (sent \cup skipped)' = sent \cup skipped \cup {run.cur}
      PROVE  [Promise!OutreachNext]_(Promise!outreachVars)
  <2>1. CASE run.cur \in Listed
    <3>1. ((sent \cup skipped) \ Unlisted)' = ((sent \cup skipped) \ Unlisted) \cup {run.cur}
      BY <1>3, <2>1 DEF Listed
    <3> QED BY <1>3, <2>1, <3>1
  <2>2. CASE run.cur \notin Listed
    <3>1. ((sent \cup skipped) \ Unlisted)' = (sent \cup skipped) \ Unlisted
      BY <1>3, <2>2 DEF Listed
    <3> QED BY <1>3, <3>1
  <2> QED BY <2>1, <2>2
<1>4. ASSUME NEW cached \in BOOLEAN, Skip(cached), pc \in {"profile", "clicked"}
      PROVE  [Promise!OutreachNext]_(Promise!outreachVars)
  <2>1. run.cur \in People /\ UNCHANGED <<delivered, sent>>
    BY <1>4 DEF Skip, world, TypeInv, Cursor
  <2>2. skipped' = skipped \/ skipped' = skipped \cup {run.cur}
    BY <1>4 DEF Skip
  <2> QED BY <1>1, <1>3, <2>1, <2>2
<1>5. CASE SaveSent
  <2>1. run.cur \in People /\ UNCHANGED <<delivered, skipped>> /\ sent' = sent \cup {run.cur}
    BY <1>5 DEF SaveSent, world, TypeInv, Cursor
  <2> QED BY <1>3, <2>1
<1>6. CASE Profile
  BY <1>1, <1>4, <1>6, StopAside DEF Profile, Checked, Aside, world, files
<1>7. CASE SkipAfterCompose
  BY <1>4, <1>7 DEF SkipAfterCompose
<1>8. CASE Scan
  BY <1>1, <1>8, StopAside, ExitAside DEF Scan, Checked, Aside, world, files
<1>9. CASE ComposeFails
  BY <1>1, <1>9 DEF ComposeFails, world, files
<1> QED
  BY <1>1, <1>2, <1>5, <1>6, <1>7, <1>8, <1>9, PageAside
  DEF Next, LoopStep, RunStep, ShowStop, LiftStop, Midnight, vars, world, files, Aside

\* Nobody whose dialog the messaging list shows is written to twice nor after having
\* been noted: SendMan implements Outreach (linkedin_message_outreach.py:7).
THEOREM OutreachPromised == Spec => ImplementsOutreach
<1>1. Init => Promise!OutreachInit
  BY DEF Init, Promise!OutreachInit, Listed
<1> QED
  BY <1>1, TypeInit, TypeStep, KnowsInit, KnowsStep, PromiseStep, PTL
  DEF Spec, ImplementsOutreach, Promise!OutreachSpec
=============================================================================
