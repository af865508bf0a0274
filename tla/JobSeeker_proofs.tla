-------------------------- MODULE JobSeeker_proofs --------------------------
(***************************************************************************)
(* Theorems about JobSeeker: that an application is counted once, that no  *)
(* file has more of a day than the larger share, and that LinkedIn gets no *)
(* more than the limit on a quiet day, for any lists, limits and settings; *)
(* and about EasyApply (Apply!): what a form holds and what is sent, for   *)
(* any forms, questions and answers.                                       *)
(***************************************************************************)
EXTENDS MCJobSeeker, WellFoundedInduction, FiniteSetTheorems, SequenceTheorems, TLAPS

----------------------------------------------------------------------------
(* Types, and the records of the jobs a worker still has to do.            *)

InHand == {"form", "mark"}
Working == {"work"} \cup InHand
Listed == {"round", "load", "after"} \cup Working

\* A runner at work has a label; the job in hand is not to be done again; the jobs
\* in hand and to be done have no submitted_at, for only pending and blocked ones
\* are taken up.
Shape ==
  /\ pc # "idle" => runner.queue # <<>>
  /\ pc \in InHand => worker.cur \in Jobs \ worker.todo /\ progress[Label].at[worker.cur] = 0
  /\ pc \in Working => \A j \in worker.todo : progress[Label].at[j] = 0

TypeInv == TypeOK /\ Shape

\* The application in hand was sent and confirmed, and is not yet noted.
Sent == pc = "mark" /\ IsNew(worker.outcome)

\* The job of a form, and the one just sent, were noted by no label before, but for
\* pages that were read too early.
Once ==
  /\ CountedOnce
  /\ pc = "form" /\ worker.cur \notin late => \A l \in Labels : progress[l].at[worker.cur] = 0
  /\ Sent => /\ submitted[worker.cur] # 0
             /\ worker.cur \notin late => \A l \in Labels : progress[l].at[worker.cur] = 0

\* The applications a label's file notes for a day.
Noted(l, d) == {j \in Jobs : progress[l].at[j] = d}

\* What is noted today and what the worker may still send stay within the target.
Within(l) == worker.left > 0 /\ Cardinality(Noted(l, day)) + worker.left <= runner.targets[l]

\* A worker is given what the file leaves of the target; a broken file leaves all of
\* it, but no worker gets past loading it.
Share ==
  /\ RecordedUnderShare
  /\ \A l \in Labels : runner.targets[l] <= Large
  /\ pc = "load" /\ progress[Label].whole => Within(Label)
  /\ pc \in Working => progress[Label].whole /\ Within(Label)

\* A day on which lists stay, submissions are confirmed and no run is killed.
Quiet == setting.faults \cap {"lists", "unconfirmed", "kill"} = {} /\ setting.days = 1

\* On such a day files keep their records, within the targets of the day, and what
\* was submitted is noted, but for the application in hand.
Kept ==
  Quiet =>
    /\ \A l \in Labels : progress[l].whole
    /\ \A l \in Labels : Noted(l, 1) \subseteq setting.jobsOf[l]
    /\ pc # "idle" => runner.targets = [l \in Labels |-> SplitTargets(l)]
    /\ pc \in Listed => runner.found = setting.jobsOf[Label]
    /\ pc \in Working => worker.todo \subseteq setting.jobsOf[Label]
    /\ pc \in InHand => worker.cur \in setting.jobsOf[Label]
    /\ \A l \in Labels : Cardinality(Noted(l, 1)) <= SplitTargets(l)
    /\ \A j \in Jobs : submitted[j] # 0 =>
         (\E l \in Labels : j \in Noted(l, 1)) \/ (Sent /\ j = worker.cur)

----------------------------------------------------------------------------
(* Numbers, queues and files.                                              *)

\* A set of jobs is finite, and counting fewer of them gives no more.
LEMMA Counting ==
  ASSUME NEW S, S \subseteq Jobs
  PROVE  /\ IsFiniteSet(S) /\ Cardinality(S) \in Nat
         /\ \A T : T \subseteq S => Cardinality(T) <= Cardinality(S)
BY JobAssumption, FS_Subset, FS_CardinalityType

LEMMA CountingMore ==
  ASSUME NEW S, S \subseteq Jobs, NEW j \in Jobs
  PROVE  Cardinality(S \cup {j}) <= Cardinality(S) + 1
<1>1. IsFiniteSet(S) /\ Cardinality(S) \in Nat
  BY Counting
<1> QED BY <1>1, FS_AddElement

LEMMA SettingType ==
  ASSUME TypeOK
  PROVE  /\ setting.jobsOf \in [Labels -> SUBSET Jobs] /\ setting.limit \in Nat
         /\ setting.rounds \in Nat /\ setting.days \in Day /\ day \in Day
         /\ setting.days <= MaxDay /\ MaxDay \in 1..7
<1>1. setting \in Setting
  BY JobAssumption DEF TypeOK
<1>2. setting.days \in 1..MaxDay /\ day \in 1..setting.days
  BY <1>1 DEF Setting, TypeOK
<1> QED BY <1>1, <1>2, JobAssumption DEF Setting, Day

\* The shares of the two labels make the limit.
LEMMA Shares ==
  ASSUME TypeOK
  PROVE  /\ Large \in Nat /\ setting.limit \in Nat
         /\ \A l \in Labels : SplitTargets(l) \in Nat /\ SplitTargets(l) <= Large
         /\ SplitTargets("SRE") + SplitTargets("DevOps") = setting.limit
<1>1. setting.limit \in Nat
  BY SettingType
<1>2. /\ setting.limit \div 3 \in Nat /\ Large \in Nat /\ setting.limit \div 3 <= Large
      /\ setting.limit \div 3 + Large = setting.limit
  BY <1>1 DEF Large
<1> QED BY <1>1, <1>2 DEF SplitTargets, Labels

LEMMA Queues ==
  ASSUME NEW q \in Seq(Labels), q # <<>>
  PROVE  /\ Head(q) \in Labels /\ Tail(q) \in Seq(Labels)
         /\ Len(q) # 1 => Tail(q) # <<>>
<1>1. Head(q) \in Labels /\ Tail(q) \in Seq(Labels) /\ Len(Tail(q)) = Len(q) - 1
  BY HeadTailProperties
<1>2. Len(q) \in Nat \ {0}
  BY EmptySeq
<1>3. Len(q) # 1 => Len(Tail(q)) # 0
  BY <1>1, <1>2
<1>4. Len(<<>>) = 0
  BY EmptySeq
<1> QED BY <1>1, <1>3, <1>4

LEMMA LabelType == ASSUME TypeInv, pc # "idle" PROVE Label \in Labels
BY Queues DEF TypeInv, TypeOK, Shape, Runner, Label

\* submitted_today counts what the file notes for the day.
LEMMA Today ==
  ASSUME TypeOK, NEW l \in Labels
  PROVE  /\ SubmittedToday(l) \in Nat
         /\ progress[l].whole => SubmittedToday(l) = Cardinality(Noted(l, day))
<1> DEFINE S == {j \in Jobs : progress[l].whole /\ progress[l].at[j] = day}
<1>1. S \subseteq Jobs /\ (progress[l].whole => S = Noted(l, day))
  BY DEF Noted
<1>2. Cardinality(S) \in Nat
  BY <1>1, Counting
<1> QED BY <1>1, <1>2 DEF SubmittedToday

----------------------------------------------------------------------------
(* Type correctness.                                                       *)

LEMMA NoWorkerType == NoWorker \in Worker
BY DEF NoWorker, Worker, Outcomes

LEMMA NoRunnerType == NoRunner \in Runner
BY DEF NoRunner, Runner, Labels

\* The updates of a runner and of a worker.
LEMMA RunnerUpdates ==
  ASSUME NEW r \in Runner
  PROVE  /\ \A found \in SUBSET Jobs :
              /\ [r EXCEPT !.found = found] \in Runner
              /\ [r EXCEPT !.found = found].queue = r.queue
         /\ \A n, m \in Nat :
              /\ [r EXCEPT !.current = n, !.rounds = m] \in Runner
              /\ [r EXCEPT !.current = n, !.rounds = m].queue = r.queue
<1> DEFINE Queue == Seq(Labels)
           Targets == [Labels -> Nat]
<1>1. Runner = [queue : Queue, targets : Targets, found : SUBSET Jobs,
                rounds : Nat, current : Nat, code : {0, 11, 12, 70}]
  BY DEF Runner
<1> HIDE DEF Queue, Targets
<1> QED BY <1>1

LEMMA RunnerMovesOn ==
  ASSUME runner \in Runner, NEW q \in Seq(Labels), NEW c \in {0, 11, 12, 70},
         \/ runner' = [runner EXCEPT !.queue = q, !.code = c]
         \/ runner' = [runner EXCEPT !.queue = q, !.code = c, !.rounds = 0, !.current = 0, !.found = {}]
  PROVE  runner' \in Runner /\ runner'.queue = q /\ runner'.targets = runner.targets
<1> DEFINE Queue == Seq(Labels)
           Targets == [Labels -> Nat]
<1>1. /\ Runner = [queue : Queue, targets : Targets, found : SUBSET Jobs,
                   rounds : Nat, current : Nat, code : {0, 11, 12, 70}]
      /\ q \in Queue
  BY DEF Runner
<1> HIDE DEF Queue, Targets
<1>2. CASE runner' = [runner EXCEPT !.queue = q, !.code = c]
  BY <1>1, <1>2
<1>3. CASE runner' = [runner EXCEPT !.queue = q, !.code = c, !.rounds = 0, !.current = 0, !.found = {}]
  BY <1>1, <1>3
<1> QED BY <1>2, <1>3

LEMMA WorkerUpdates ==
  ASSUME NEW w \in Worker
  PROVE  /\ \A T \in SUBSET Jobs : [w EXCEPT !.todo = T] \in Worker
         /\ \A n \in Nat : [w EXCEPT !.left = n, !.cur = 0] \in Worker
         /\ \A T \in SUBSET Jobs, j \in Jobs, o \in Outcomes :
              /\ [w EXCEPT !.cur = j, !.todo = T, !.outcome = o] \in Worker
              /\ [w EXCEPT !.cur = j, !.todo = T] \in Worker
BY DEF Worker

LEMMA WorkerEnds ==
  ASSUME worker \in Worker, NEW c \in {0, 1, 11, 12}, Exit(c)
  PROVE  worker' \in Worker /\ pc' = "after"
BY DEF Exit, Worker

LEMMA TypeInit == Init => TypeInv
<1> SUFFICES ASSUME Init PROVE TypeInv
  OBVIOUS
<1>1. setting \in Setting
  BY JobAssumption DEF Init
<1>2. NoFile \in File
  BY JobAssumption DEF NoFile, File, Statuses, DayOrNone
<1>3. progress \in [Labels -> File] /\ \A l \in Labels, j \in Jobs : progress[l].at[j] = 0
  BY <1>2 DEF Init, NoFile
<1>4. day \in 1..setting.days
  BY <1>1, JobAssumption DEF Init, Setting
<1>5. submitted \in [Jobs -> 0..day]
  BY <1>4 DEF Init
<1> QED
  BY <1>3, <1>4, <1>5, NoRunnerType, NoWorkerType
  DEF Init, TypeInv, TypeOK, Shape, InHand, Working

\* Steps that leave the files and the world alone.
LEMMA PlainType ==
  ASSUME TypeOK, UNCHANGED <<setting, day, shown, submitted, late, progress>>,
         pc' \in {"idle", "extract", "round", "load", "work", "form", "mark", "after"},
         runner' \in Runner, worker' \in Worker
  PROVE  TypeOK'
BY DEF TypeOK

LEMMA NextLabelType ==
  ASSUME TypeInv, pc # "idle", NEW rc \in {0, 70}, NextLabel(rc)
  PROVE  /\ runner' \in Runner /\ pc' \in {"idle", "extract"}
         /\ pc' # "idle" => runner'.queue # <<>>
         /\ runner'.targets = runner.targets
<1>1. runner \in Runner /\ runner.queue \in Seq(Labels) /\ runner.queue # <<>>
  BY DEF TypeInv, TypeOK, Shape, Runner
<1>2. Tail(runner.queue) \in Seq(Labels) /\ (Len(runner.queue) # 1 => Tail(runner.queue) # <<>>)
  BY <1>1, Queues
<1> DEFINE tail == Tail(runner.queue)
           code == IF rc > runner.code THEN rc ELSE runner.code
<1>3. code \in {0, 11, 12, 70}
  <2>1. code \in {0, 70, runner.code}
    OBVIOUS
  <2>2. runner.code \in {0, 11, 12, 70}
    BY <1>1 DEF Runner
  <2> HIDE DEF code
  <2> QED BY <2>1, <2>2
<1>4. runner' \in Runner
  <2>1. runner' = [runner EXCEPT !.queue = tail, !.code = code,
                                 !.rounds = 0, !.current = 0, !.found = {}]
    BY DEF NextLabel
  <2> HIDE DEF tail, code
  <2>2. tail \in Seq(Labels)
    BY <1>2 DEF tail
  <2> QED BY <1>1, <1>3, <2>1, <2>2, RunnerMovesOn
<1>5. runner'.queue = Tail(runner.queue) /\ runner'.targets = runner.targets
  BY <1>1 DEF NextLabel, Runner
<1> QED BY <1>2, <1>4, <1>5 DEF NextLabel

LEMMA StartType == ASSUME TypeInv, StartRunner PROVE TypeInv'
<1>1. LabelOrder \in Seq(Labels) /\ LabelOrder # <<>>
  <2>1. <<"SRE", "DevOps">> \in Seq(Labels) /\ <<"DevOps", "SRE">> \in Seq(Labels)
    BY DEF Labels
  <2>2. <<"SRE", "DevOps">> # <<>> /\ <<"DevOps", "SRE">> # <<>>
    OBVIOUS
  <2> QED BY <2>1, <2>2 DEF LabelOrder
<1>2. [l \in Labels |-> SplitTargets(l)] \in [Labels -> Nat]
  BY Shares DEF TypeInv
<1>3. runner' \in Runner /\ runner'.queue = LabelOrder
  BY <1>1, <1>2 DEF StartRunner, NoRunner, Runner
<1>4. TypeOK'
  BY <1>3, NoWorkerType, PlainType DEF StartRunner, TypeInv
<1> QED BY <1>1, <1>3, <1>4 DEF StartRunner, TypeInv, Shape, InHand, Working

LEMMA RunnerType == ASSUME TypeInv, ExtractLabel \/ Round \/ AfterWorker PROVE TypeInv'
<1>1. pc # "idle" /\ TypeOK /\ runner \in Runner /\ worker \in Worker /\ runner.queue # <<>>
  BY DEF TypeInv, TypeOK, Shape, ExtractLabel, Round, AfterWorker
<1>2. Label \in Labels /\ setting.jobsOf \in [Labels -> SUBSET Jobs] /\ setting.rounds \in Nat
  BY <1>1, LabelType, SettingType
<1>3. UNCHANGED <<setting, day, shown, submitted, late, progress>>
  BY DEF ExtractLabel, Round, AfterWorker
<1>4. SUFFICES runner' \in Runner /\ worker' \in Worker /\ pc' \in {"idle", "extract", "round", "load"}
               /\ (pc' # "idle" => runner'.queue # <<>>)
  BY <1>1, <1>3, PlainType DEF TypeInv, Shape, InHand, Working
<1>5. CASE ExtractLabel
  <2>1. PICK found \in SUBSET setting.jobsOf[Label] :
          \/ NextLabel(70)
          \/ pc' = "round" /\ runner' = [runner EXCEPT !.found = found]
    BY <1>5, <1>2 DEF ExtractLabel
  <2>2. worker' = worker
    BY <1>5 DEF ExtractLabel
  <2>3. CASE NextLabel(70)
    BY <1>1, <2>2, <2>3, NextLabelType
  <2>4. CASE pc' = "round" /\ runner' = [runner EXCEPT !.found = found]
    <3>1. runner' \in Runner /\ runner'.queue = runner.queue
      BY <1>1, <1>2, <2>1, <2>4, RunnerUpdates, Zenon
    <3> QED BY <1>1, <2>2, <2>4, <3>1
  <2> QED BY <2>1, <2>3, <2>4
<1>6. CASE Round
  <2>1. CASE NextLabel(0) /\ UNCHANGED worker
    BY <1>1, <2>1, NextLabelType
  <2>2. CASE /\ pc' = "load" /\ SubmittedToday(Label) < Target
             /\ runner' = [runner EXCEPT !.current = SubmittedToday(Label),
                                         !.rounds = IF @ < setting.rounds THEN @ + 1 ELSE @]
             /\ worker' = [NoWorker EXCEPT !.left = Target - SubmittedToday(Label), !.code = worker.code]
    <3>1. SubmittedToday(Label) \in Nat /\ Target \in Nat /\ runner.rounds \in Nat
      BY <1>1, <1>2, Today DEF Target, Runner
    <3>2. runner' \in Runner /\ runner'.queue = runner.queue
      <4> DEFINE n == SubmittedToday(Label)
                 m == IF runner.rounds < setting.rounds THEN runner.rounds + 1 ELSE runner.rounds
      <4>1. n \in Nat /\ m \in Nat /\ runner' = [runner EXCEPT !.current = n, !.rounds = m]
        BY <2>2, <3>1
      <4> HIDE DEF n, m
      <4> QED BY <1>1, <4>1, RunnerUpdates, Zenon
    <3>3. worker' \in Worker
      <4> DEFINE left == Target - SubmittedToday(Label)
      <4>1. left \in Nat /\ worker.code \in {0, 1, 11, 12}
        BY <1>1, <2>2, <3>1 DEF Worker
      <4> HIDE DEF left
      <4>2. [NoWorker EXCEPT !.left = left, !.code = worker.code] \in Worker
        BY <4>1, NoWorkerType DEF Worker
      <4> QED BY <2>2, <4>2 DEF left
    <3> QED BY <1>1, <2>2, <3>2, <3>3
  <2>3. SubmittedToday(Label) \in Nat /\ Target \in Nat
    BY <1>1, <1>2, Today DEF Target, Runner
  <2> QED BY <1>6, <2>1, <2>2, <2>3 DEF Round
<1>7. CASE AfterWorker
  <2>1. CASE pc' = "idle" /\ runner' = [runner EXCEPT !.queue = <<>>, !.code = worker.code] /\ IsStop(worker.code)
    <3>1. runner' \in Runner
      <4>1. <<>> \in Seq(Labels) /\ worker.code \in {0, 11, 12, 70}
        BY <2>1, EmptySeq DEF IsStop
      <4> QED BY <1>1, <2>1, <4>1, RunnerMovesOn
    <3> QED BY <1>1, <1>7, <2>1, <3>1 DEF AfterWorker
  <2>2. CASE NextLabel(0)
    BY <1>1, <1>7, <2>2, NextLabelType DEF AfterWorker
  <2> QED BY <1>1, <1>7, <2>1, <2>2 DEF AfterWorker
<1> QED BY <1>5, <1>6, <1>7

LEMMA ExitType ==
  ASSUME TypeInv, pc # "idle", NEW c \in {0, 1, 11, 12}, Exit(c), UNCHANGED <<setting, day, shown, submitted, late, progress, runner>>
  PROVE  TypeInv'
<1>1. worker' \in Worker /\ runner \in Runner /\ runner.queue # <<>>
  BY WorkerEnds DEF TypeInv, TypeOK, Shape
<1>2. TypeOK'
  BY <1>1, PlainType DEF Exit, TypeInv
<1> QED
  BY <1>1, <1>2 DEF Exit, TypeInv, Shape, InHand, Working

\* Loading keeps what is noted of the listed jobs and notes nothing new; what is
\* taken up is not noted.
LEMMA LoadedFile ==
  ASSUME TypeInv, pc = "load", progress[Label].whole
  PROVE  /\ Loaded \in File /\ Loaded.whole
         /\ \A j \in Jobs : Loaded.at[j] = IF j \in runner.found THEN progress[Label].at[j] ELSE 0
         /\ \A j \in Jobs : Loaded.at[j] # 0 => Loaded.status[j] = "applied"
         /\ Open(Loaded) \subseteq {j \in runner.found : Loaded.at[j] = 0}
<1>1. Label \in Labels
  BY LabelType
<1>2. /\ progress[Label] \in File /\ runner.found \subseteq Jobs
      /\ \A j \in Jobs : progress[Label].at[j] # 0 => progress[Label].status[j] = "applied"
  BY <1>1 DEF TypeInv, TypeOK, Runner
<1> DEFINE file == progress[Label]
           status == [j \in Jobs |-> CASE j \notin runner.found -> "absent"
                                       [] j \in runner.found /\ file.status[j] = "absent" -> "pending"
                                       [] OTHER -> file.status[j]]
           at == [j \in Jobs |-> IF j \in runner.found THEN file.at[j] ELSE 0]
<1>3. Loaded = [whole |-> TRUE, status |-> status, at |-> at]
  BY DEF Loaded, KeptDay
<1>4. \A j \in Jobs : /\ file.status[j] \in Statuses /\ file.at[j] \in DayOrNone
                      /\ file.at[j] # 0 => file.status[j] = "applied"
  BY <1>2 DEF File
<1>5. 0 \in DayOrNone
  BY JobAssumption DEF DayOrNone
<1>6. status \in [Jobs -> Statuses] /\ at \in [Jobs -> DayOrNone]
  BY <1>4, <1>5 DEF Statuses
<1>7. \A j \in Jobs : at[j] # 0 => status[j] = "applied"
  BY <1>4
<1>8. \A j \in Jobs : status[j] \in {"pending", "blocked"} => j \in runner.found
  OBVIOUS
<1>9. Loaded.status = status /\ Loaded.at = at /\ Loaded.whole = TRUE
  BY <1>3
<1>10. Loaded \in File
  BY <1>3, <1>6 DEF File
<1>11. Open(Loaded) \subseteq {j \in Jobs : Loaded.status[j] \in {"pending", "blocked"}}
  BY DEF Open
<1>12. \A j \in Jobs : Loaded.at[j] = IF j \in runner.found THEN progress[Label].at[j] ELSE 0
  BY <1>9
<1> HIDE DEF status, at, file
<1> QED BY <1>7, <1>8, <1>9, <1>10, <1>11, <1>12

LEMMA OpenType ==
  ASSUME NEW todo \in Candidates(Loaded)
  PROVE  todo \subseteq Open(Loaded) /\ todo \in SUBSET Jobs
BY DEF Candidates, Open

LEMMA LoadType == ASSUME TypeInv, LoadProgress PROVE TypeInv'
<1>1. Label \in Labels /\ pc = "load" /\ worker \in Worker /\ runner.queue # <<>>
  BY LabelType DEF LoadProgress, TypeInv, TypeOK, Shape
<1>2. CASE ~progress[Label].whole
  BY <1>1, <1>2, ExitType DEF LoadProgress, Loads
<1>3. CASE progress[Label].whole
  <2>1. /\ progress' = [progress EXCEPT ![Label] = Loaded]
        /\ UNCHANGED <<setting, day, shown, submitted, late, runner>>
    BY <1>3 DEF LoadProgress, Loads
  <2>2. /\ Loaded \in File
        /\ \A j \in Jobs : Loaded.at[j] = IF j \in runner.found THEN progress[Label].at[j] ELSE 0
        /\ \A j \in Jobs : Loaded.at[j] # 0 => Loaded.status[j] = "applied"
        /\ Open(Loaded) \subseteq {j \in runner.found : Loaded.at[j] = 0}
    BY <1>1, <1>3, LoadedFile
  <2>3. /\ progress' \in [Labels -> File] /\ progress'[Label] = Loaded
        /\ \A l \in Labels : l # Label => progress'[l] = progress[l]
    BY <1>1, <2>1, <2>2 DEF TypeInv, TypeOK
  <2>4. \A l \in Labels, j \in Jobs :
          progress'[l].at[j] # 0 => progress'[l].status[j] = "applied" /\ progress'[l].at[j] <= day
    BY <1>1, <2>2, <2>3 DEF TypeInv, TypeOK
  <2>5. /\ worker' \in Worker /\ pc' \in {"after", "work"}
        /\ pc' = "work" => worker'.todo \subseteq Open(Loaded)
    <3>1. CASE \E c \in {0, 11} : Exit(c)
      BY <1>1, <3>1, WorkerEnds
    <3>2. ASSUME NEW todo \in Candidates(Loaded),
                 pc' = "work" /\ worker' = [worker EXCEPT !.todo = todo]
          PROVE  worker' \in Worker /\ worker'.todo \subseteq Open(Loaded)
      <4>1. todo \subseteq Open(Loaded) /\ todo \in SUBSET Jobs
        BY OpenType
      <4>2. worker' \in Worker
        BY <1>1, <3>2, <4>1, WorkerUpdates, Zenon
      <4>3. worker'.todo = todo
        BY <1>1, <3>2 DEF Worker
      <4> QED BY <4>1, <4>2, <4>3
    <3>3. \/ \E c \in {0, 11} : Exit(c)
          \/ \E todo \in Candidates(Loaded) :
               pc' = "work" /\ worker' = [worker EXCEPT !.todo = todo]
      BY <1>3 DEF LoadProgress, Loads
    <3> QED BY <3>1, <3>2, <3>3
  <2>6. TypeOK'
    BY <2>1, <2>3, <2>4, <2>5 DEF TypeInv, TypeOK
  <2>7. Label' = Label
    BY <2>1 DEF Label
  <2>8. pc' = "work" => \A j \in worker'.todo : progress'[Label].at[j] = 0
    BY <2>2, <2>3, <2>5
  <2>9. Shape'
    BY <1>1, <2>1, <2>5, <2>7, <2>8 DEF Shape, InHand, Working
  <2> QED BY <2>6, <2>9 DEF TypeInv
<1> QED BY <1>2, <1>3

LEMMA OutcomeType ==
  ASSUME TypeInv, pc # "idle", NEW j \in Jobs, NEW o \in Outcomes,
         UNCHANGED <<setting, day, shown, progress, runner>>, submitted' \in [Jobs -> 0..day],
         late' \subseteq Jobs,
         \/ pc' = "form" /\ worker' = [worker EXCEPT !.cur = j, !.todo = @ \ {j}]
         \/ Outcome(j, o),
         progress[Label].at[j] = 0, \A k \in worker.todo : progress[Label].at[k] = 0
  PROVE  /\ TypeInv' /\ worker'.cur = j /\ worker'.left = worker.left /\ worker'.todo = worker.todo \ {j}
         /\ Outcome(j, o) => pc' = "mark" /\ worker'.outcome = o
<1>1. worker \in Worker /\ worker.todo \ {j} \in SUBSET Jobs /\ runner.queue # <<>>
  BY DEF TypeInv, TypeOK, Worker, Shape
<1> DEFINE todo == worker.todo \ {j}
<1>2. \/ pc' = "form" /\ worker' = [worker EXCEPT !.cur = j, !.todo = todo]
      \/ pc' = "mark" /\ worker' = [worker EXCEPT !.cur = j, !.todo = todo, !.outcome = o]
  BY DEF Outcome
<1>3. todo \in SUBSET Jobs
  BY <1>1
<1>4. worker'.cur = j /\ worker'.left = worker.left /\ worker'.todo = worker.todo \ {j}
  BY <1>1, <1>2 DEF Worker
<1>5. ASSUME Outcome(j, o) PROVE pc' = "mark" /\ worker'.outcome = o
  <2>1. pc' = "mark" /\ worker' = [worker EXCEPT !.cur = j, !.todo = @ \ {j}, !.outcome = o]
    BY <1>5 DEF Outcome
  <2> QED BY <1>1, <2>1 DEF Worker
<1> HIDE DEF todo
<1>6. worker' \in Worker /\ pc' \in InHand
  <2>1. [worker EXCEPT !.cur = j, !.todo = todo] \in Worker
    BY <1>1, <1>3, WorkerUpdates, Zenon
  <2>2. [worker EXCEPT !.cur = j, !.todo = todo, !.outcome = o] \in Worker
    BY <1>1, <1>3, WorkerUpdates, Zenon
  <2> QED BY <1>2, <2>1, <2>2 DEF InHand
<1>7. TypeOK'
  BY <1>6 DEF TypeInv, TypeOK, InHand
<1>8. Label' = Label
  BY DEF Label
<1>9. Shape'
  BY <1>1, <1>4, <1>6, <1>8 DEF Shape, InHand, Working
<1> QED BY <1>4, <1>5, <1>7, <1>9 DEF TypeInv

\* A worker's step on a job: which one it is, what is known of it, and where it leads.
LEMMA OpenJobStep ==
  ASSUME TypeInv, NEW j \in worker.todo, OpenJob(j)
  PROVE  /\ pc = "work" /\ j \in Jobs
         /\ UNCHANGED <<setting, day, shown, submitted, progress, runner>>
         /\ TypeInv' /\ worker'.cur = j /\ worker'.left = worker.left
         /\ worker'.todo = worker.todo \ {j}
         /\ \/ pc' = "form" /\ late \subseteq late' /\ (submitted[j] # 0 => j \in late')
            \/ pc' = "mark" /\ worker'.outcome # "sent" /\ late' = late
<1>1. /\ pc = "work" /\ worker \in Worker /\ shown \in {"none", "login", "limit"}
      /\ UNCHANGED <<setting, day, shown, submitted, progress, runner>>
  BY DEF OpenJob, TypeInv, TypeOK
<1>2. j \in Jobs /\ progress[Label].at[j] = 0 /\ \A k \in worker.todo : progress[Label].at[k] = 0
  BY <1>1 DEF TypeInv, Shape, Working, Worker
<1>3. submitted' \in [Jobs -> 0..day] /\ late' \subseteq Jobs
  BY <1>1, <1>2 DEF TypeInv, TypeOK, OpenJob
<1>4. \/ late' = late /\ \E o \in Outcomes \ {"sent"} : Outcome(j, o)
      \/ /\ late \subseteq late' /\ (submitted[j] # 0 => j \in late')
         /\ pc' = "form" /\ worker' = [worker EXCEPT !.cur = j, !.todo = @ \ {j}]
  BY <1>1 DEF OpenJob, Outcomes
<1>5. CASE late' = late /\ \E o \in Outcomes \ {"sent"} : Outcome(j, o)
  BY <1>1, <1>2, <1>3, <1>5, OutcomeType
<1>6. CASE /\ late \subseteq late' /\ (submitted[j] # 0 => j \in late')
           /\ pc' = "form" /\ worker' = [worker EXCEPT !.cur = j, !.todo = @ \ {j}]
  <2>1. "done" \in Outcomes
    BY DEF Outcomes
  <2> QED BY <1>1, <1>2, <1>3, <1>6, <2>1, OutcomeType
<1> QED BY <1>1, <1>2, <1>4, <1>5, <1>6

LEMMA FormStep ==
  ASSUME TypeInv, FillForm \/ Submit
  PROVE  /\ pc = "form" /\ UNCHANGED <<setting, day, shown, late, progress, runner>>
         /\ TypeInv' /\ worker'.cur = worker.cur /\ worker'.left = worker.left
         /\ worker'.todo = worker.todo /\ worker.cur \in Jobs
         /\ \/ pc' = "mark" /\ submitted' = submitted
               /\ (worker'.outcome = "sent" => submitted[worker.cur] # 0)
            \/ pc' = "mark" /\ worker'.outcome = "sent" /\ submitted[worker.cur] = 0
               /\ submitted' = [submitted EXCEPT ![worker.cur] = day]
            \/ pc' = "mark" /\ "unconfirmed" \in setting.faults /\ worker'.outcome = "blocked"
               /\ submitted[worker.cur] = 0 /\ submitted' = [submitted EXCEPT ![worker.cur] = day]
            \/ pc' = "form" /\ "unconfirmed" \in setting.faults
               /\ submitted[worker.cur] = 0 /\ submitted' = [submitted EXCEPT ![worker.cur] = day]
<1>1. /\ pc = "form" /\ worker \in Worker /\ shown \in {"none", "login", "limit"}
      /\ UNCHANGED <<setting, day, shown, late, progress, runner>>
  BY DEF FillForm, Submit, TypeInv, TypeOK
<1> DEFINE j == worker.cur
<1>2. j \in Jobs /\ progress[Label].at[j] = 0 /\ \A k \in worker.todo : progress[Label].at[k] = 0
  BY <1>1 DEF TypeInv, Shape, Working, InHand
<1>3. worker.todo \ {j} = worker.todo
  BY <1>1 DEF TypeInv, Shape, InHand
<1>4. submitted' = submitted \/ submitted' = [submitted EXCEPT ![j] = day]
  BY DEF FillForm, Submit
<1>5. submitted' \in [Jobs -> 0..day] /\ late' \subseteq Jobs
  <2>1. submitted \in [Jobs -> 0..day] /\ day \in 0..day /\ late \subseteq Jobs
    BY SettingType DEF TypeInv, TypeOK, Day
  <2> QED BY <1>1, <1>4, <2>1
<1>6. CASE /\ Submit /\ UNCHANGED <<pc, worker>>
  <2>1. /\ "unconfirmed" \in setting.faults \/ Outcome(j, "sent") \/ Outcome(j, "blocked")
        /\ submitted[j] = 0 /\ submitted' = [submitted EXCEPT ![j] = day]
    BY <1>6 DEF Submit
  <2>2. ~Outcome(j, "sent") /\ ~Outcome(j, "blocked")
    BY <1>1, <1>6 DEF Outcome
  <2>3. TypeOK'
    BY <1>1, <1>5, <1>6 DEF TypeInv, TypeOK
  <2>4. Label' = Label
    BY <1>1 DEF Label
  <2>5. TypeInv'
    BY <1>1, <1>6, <2>3, <2>4 DEF TypeInv, Shape, Working, InHand
  <2> QED BY <1>1, <1>2, <1>6, <2>1, <2>2, <2>5
<1>7. CASE ~(Submit /\ UNCHANGED <<pc, worker>>)
  <2>1. \E o \in Outcomes :
          /\ Outcome(j, o)
          /\ \/ (o = "sent" => submitted[j] # 0) /\ submitted' = submitted
             \/ o = "sent" /\ submitted[j] = 0 /\ submitted' = [submitted EXCEPT ![j] = day]
             \/ "unconfirmed" \in setting.faults /\ o = "blocked" /\ submitted[j] = 0
                /\ submitted' = [submitted EXCEPT ![j] = day]
    BY <1>1, <1>7 DEF FillForm, Submit, Outcomes
  <2> HIDE DEF j
  <2>2. PICK o \in Outcomes :
          /\ Outcome(j, o)
          /\ \/ (o = "sent" => submitted[j] # 0) /\ submitted' = submitted
             \/ o = "sent" /\ submitted[j] = 0 /\ submitted' = [submitted EXCEPT ![j] = day]
             \/ "unconfirmed" \in setting.faults /\ o = "blocked" /\ submitted[j] = 0
                /\ submitted' = [submitted EXCEPT ![j] = day]
    BY <2>1, Zenon
  <2>3. /\ TypeInv' /\ worker'.cur = j /\ worker'.left = worker.left
        /\ worker'.todo = worker.todo /\ pc' = "mark" /\ worker'.outcome = o
    BY <1>1, <1>2, <1>3, <1>5, <2>2, OutcomeType
  <2> QED BY <1>1, <1>2, <2>2, <2>3 DEF j, InHand
<1> QED BY <1>6, <1>7

\* mark_record: the label's record of the job in hand changes and no other; then the
\* worker ends, or goes on while it may send more.
LEMMA MarkStep ==
  ASSUME TypeInv, MarkRecord
  PROVE  /\ pc = "mark" /\ worker.cur \in Jobs /\ Label \in Labels
         /\ UNCHANGED <<setting, day, shown, submitted, late, runner>>
         /\ progress' \in [Labels -> File]
         /\ \A l \in Labels : progress'[l].whole = progress[l].whole
         /\ \A l \in Labels, j \in Jobs :
              progress'[l].at[j] = IF l = Label /\ j = worker.cur /\ Sent THEN day ELSE progress[l].at[j]
         /\ worker' \in Worker /\ pc' \in {"after", "work"}
         /\ pc' = "work" => /\ worker'.todo = worker.todo
                            /\ worker'.left = IF Sent THEN worker.left - 1 ELSE worker.left
                            /\ Sent => worker'.left > 0
<1>1. /\ pc = "mark" /\ worker \in Worker /\ Label \in Labels /\ worker.cur \in Jobs
      /\ UNCHANGED <<setting, day, shown, submitted, late, runner>>
  BY LabelType DEF MarkRecord, TypeInv, TypeOK, Shape, InHand
<1>2. day \in DayOrNone
  BY SettingType DEF TypeInv, Day, DayOrNone
<1> DEFINE old == progress[Label]
           status == [old.status EXCEPT ![worker.cur] = StatusOf(worker.outcome)]
           at == [old.at EXCEPT ![worker.cur] = IF IsNew(worker.outcome) THEN day ELSE @]
           left == IF IsNew(worker.outcome) THEN worker.left - 1 ELSE worker.left
<1>3. old \in File
  BY <1>1 DEF TypeInv, TypeOK
<1>4. StatusOf(worker.outcome) \in Statuses
  BY DEF StatusOf, Statuses
<1>5. status \in [Jobs -> Statuses]
  BY <1>3, <1>4 DEF File
<1>6. at \in [Jobs -> DayOrNone]
      /\ \A j \in Jobs : at[j] = IF j = worker.cur /\ IsNew(worker.outcome) THEN day ELSE old.at[j]
  BY <1>1, <1>2, <1>3 DEF File
<1>7. progress' = [progress EXCEPT ![Label] = [old EXCEPT !.status = status, !.at = at]]
  <2>1. progress' = [progress EXCEPT ![Label].status[worker.cur] = StatusOf(worker.outcome),
                                     ![Label].at[worker.cur] = IF IsNew(worker.outcome) THEN day ELSE @]
    BY DEF MarkRecord
  <2>2. progress \in [Labels -> File]
    BY DEF TypeInv, TypeOK
  <2> QED BY <1>1, <1>3, <2>1, <2>2 DEF File
<1> HIDE DEF status, at
<1>8. /\ progress' \in [Labels -> File] /\ progress'[Label].at = at
      /\ progress'[Label].whole = old.whole
      /\ \A l \in Labels : l # Label => progress'[l] = progress[l]
  BY <1>1, <1>3, <1>5, <1>6, <1>7 DEF TypeInv, TypeOK, File
<1>9. /\ worker' \in Worker /\ pc' \in {"after", "work"}
      /\ pc' = "work" => /\ worker'.todo = worker.todo /\ worker'.left = left
                         /\ IsNew(worker.outcome) => left > 0
  <2>1. \/ \E c \in {0, 11, 12} : Exit(c)
        \/ /\ ~(IsNew(worker.outcome) /\ LimitReached(left))
           /\ pc' = "work" /\ worker' = [worker EXCEPT !.left = left, !.cur = 0]
    BY DEF MarkRecord
  <2>2. CASE \E c \in {0, 11, 12} : Exit(c)
    BY <1>1, <2>2, WorkerEnds
  <2>3. CASE /\ ~(IsNew(worker.outcome) /\ LimitReached(left))
             /\ pc' = "work" /\ worker' = [worker EXCEPT !.left = left, !.cur = 0]
    <3>1. worker.left \in Nat
      BY <1>1 DEF Worker
    <3>2. left \in Nat /\ (IsNew(worker.outcome) => left > 0)
      BY <2>3, <3>1 DEF LimitReached
    <3> HIDE DEF left
    <3>3. worker' \in Worker
      BY <1>1, <2>3, <3>2, WorkerUpdates, Zenon
    <3> QED BY <1>1, <2>3, <3>2, <3>3 DEF Worker
  <2> QED BY <2>1, <2>2, <2>3
<1> QED BY <1>1, <1>6, <1>8, <1>9 DEF Sent

LEMMA MarkType == ASSUME TypeInv, MarkRecord PROVE TypeInv'
<1>1. /\ pc = "mark" /\ worker.cur \in Jobs /\ Label \in Labels
      /\ UNCHANGED <<setting, day, shown, submitted, late, runner>>
      /\ progress' \in [Labels -> File]
      /\ \A l \in Labels, j \in Jobs :
           progress'[l].at[j] = IF l = Label /\ j = worker.cur /\ Sent THEN day ELSE progress[l].at[j]
      /\ worker' \in Worker /\ pc' \in {"after", "work"}
      /\ pc' = "work" => worker'.todo = worker.todo
  BY MarkStep
<1>2. ASSUME NEW l \in Labels, NEW j \in Jobs, progress'[l].at[j] # 0
      PROVE  progress'[l].status[j] = "applied" /\ progress'[l].at[j] <= day
  <2>1. day <= day /\ progress[l] \in File /\ progress \in [Labels -> File] /\ progress[Label] \in File
    BY <1>1, SettingType DEF TypeInv, TypeOK, Day
  <2>2. progress'[l].status[j] = IF l = Label /\ j = worker.cur THEN StatusOf(worker.outcome)
                                 ELSE progress[l].status[j]
    <3>1. progress' = [progress EXCEPT ![Label].status[worker.cur] = StatusOf(worker.outcome),
                                       ![Label].at[worker.cur] = IF IsNew(worker.outcome) THEN day ELSE @]
      BY DEF MarkRecord
    <3> QED BY <1>1, <2>1, <3>1 DEF File
  <2>3. CASE l = Label /\ j = worker.cur
    <3>1. progress[l].at[j] = 0
      BY <1>1, <2>3 DEF TypeInv, Shape, InHand
    <3>2. Sent /\ progress'[l].at[j] = day
      BY <1>1, <1>2, <3>1
    <3>3. StatusOf(worker.outcome) = "applied"
      BY <3>2 DEF Sent, IsNew, StatusOf
    <3> QED BY <2>1, <2>2, <2>3, <3>2, <3>3
  <2>4. CASE ~(l = Label /\ j = worker.cur)
    BY <1>1, <1>2, <2>2, <2>4 DEF TypeInv, TypeOK
  <2> QED BY <2>3, <2>4
<1>3. TypeOK'
  BY <1>1, <1>2 DEF TypeInv, TypeOK
<1>4. Label' = Label
  BY <1>1 DEF Label
<1>5. pc' = "work" => \A j \in worker'.todo : progress'[Label].at[j] = 0
  <2>1. worker.cur \notin worker.todo /\ worker.todo \subseteq Jobs
        /\ \A j \in worker.todo : progress[Label].at[j] = 0
    BY <1>1 DEF TypeInv, TypeOK, Shape, InHand, Working, Worker
  <2> QED BY <1>1, <2>1
<1>6. Shape'
  BY <1>1, <1>4, <1>5 DEF TypeInv, Shape, InHand, Working
<1> QED BY <1>3, <1>6 DEF TypeInv

\* A kill or a night changes no record; the worker's job stays what it was.
LEMMA KillStep ==
  ASSUME TypeInv, Kill
  PROVE  /\ "kill" \in setting.faults /\ pc' = "idle"
         /\ runner' = NoRunner /\ worker' = NoWorker
         /\ UNCHANGED <<setting, day, shown, submitted, late>>
         /\ progress' \in [Labels -> File]
         /\ \A l \in Labels : progress'[l].at = progress[l].at /\ progress'[l].status = progress[l].status
<1>1. CASE UNCHANGED progress
  BY <1>1 DEF Kill, TypeInv, TypeOK
<1>2. CASE pc \in {"load", "mark"} /\ progress' = [progress EXCEPT ![Label].whole = FALSE]
  <2>1. Label \in Labels /\ progress \in [Labels -> File]
    BY <1>2, LabelType DEF TypeInv, TypeOK
  <2>2. progress' = [progress EXCEPT ![Label] = [progress[Label] EXCEPT !.whole = FALSE]]
    BY <1>2, <2>1
  <2>3. progress[Label] \in File /\ [progress[Label] EXCEPT !.whole = FALSE] \in File
    BY <2>1 DEF File
  <2> QED BY <2>1, <2>2, <2>3 DEF Kill, File
<1> QED BY <1>1, <1>2 DEF Kill

LEMMA WorldType == ASSUME TypeInv, Kill \/ Midnight \/ ShowStop \/ LiftStop PROVE TypeInv'
<1>1. CASE Kill
  BY <1>1, KillStep, NoRunnerType, NoWorkerType DEF TypeInv, TypeOK, Shape, InHand, Working
<1>2. CASE Midnight
  <2>1. /\ setting.days \in Nat /\ day \in Nat /\ day < setting.days /\ day' = day + 1 /\ day >= 1
        /\ UNCHANGED <<setting, shown, submitted, late, progress, pc, runner, worker>>
    BY <1>2, SettingType DEF Midnight, TypeInv, Day
  <2>2. day' \in 1..setting.days /\ 0..day \subseteq 0..day'
    BY <2>1
  <2>3. submitted' \in [Jobs -> 0..day']
    BY <2>1, <2>2 DEF TypeInv, TypeOK
  <2>4. \A l \in Labels, j \in Jobs : progress[l].at[j] # 0 =>
          progress[l].status[j] = "applied" /\ progress[l].at[j] <= day'
    <3>1. \A l \in Labels, j \in Jobs : progress[l].at[j] \in Nat
      BY JobAssumption DEF TypeInv, TypeOK, File, DayOrNone
    <3> QED BY <2>1, <3>1 DEF TypeInv, TypeOK
  <2>5. TypeOK'
    BY <2>1, <2>2, <2>3, <2>4 DEF TypeInv, TypeOK
  <2>6. Label' = Label
    BY <2>1 DEF Label
  <2> QED BY <2>1, <2>5, <2>6 DEF TypeInv, Shape
<1>3. CASE ShowStop \/ LiftStop
  <2>1. /\ UNCHANGED <<setting, day, submitted, late, progress, pc, runner, worker>>
        /\ shown' \in {"none", "login", "limit"}
    BY <1>3, SettingType DEF ShowStop, LiftStop, TypeInv, Setting, AllFaults
  <2>2. Label' = Label
    BY <2>1 DEF Label
  <2> QED BY <2>1, <2>2 DEF TypeInv, TypeOK, Shape
<1> QED BY <1>1, <1>2, <1>3

LEMMA StutterType == ASSUME TypeInv, UNCHANGED vars PROVE TypeInv'
BY DEF TypeInv, TypeOK, Shape, Label, vars

LEMMA TypeStep == TypeInv /\ [Next]_vars => TypeInv'
<1> SUFFICES ASSUME TypeInv, [Next]_vars PROVE TypeInv'
  OBVIOUS
<1> QED
  BY StartType, RunnerType, LoadType, OpenJobStep, FormStep, MarkType, WorldType, StutterType
  DEF Next, RunnerStep

\* Types; a record has a submitted_at only if it is there as applied for, and of no
\* day to come (mark_record, load_progress).
THEOREM TypeCorrect == Spec => []TypeOK
<1>1. TypeInv => TypeOK
  BY DEF TypeInv
<1> QED BY <1>1, TypeInit, TypeStep, PTL DEF Spec

----------------------------------------------------------------------------
(* An application is counted once.                                         *)

LEMMA OnceInit == Init => Once
BY DEF Init, Once, CountedOnce, Sent, NoFile

\* Nothing is sent or noted, though records may be lost.
LEMMA OnceKept ==
  ASSUME Once, submitted' = submitted, late' = late, pc' \notin InHand,
         \A l \in Labels, j \in Jobs : progress'[l].at[j] \in {0, progress[l].at[j]}
  PROVE  Once'
BY DEF Once, CountedOnce, Sent, InHand

LEMMA OnceStep == TypeInv /\ Once /\ [Next]_vars => Once'
<1> SUFFICES ASSUME TypeInv, Once, [Next]_vars PROVE Once'
  OBVIOUS
<1>1. CASE StartRunner \/ ExtractLabel \/ Round \/ AfterWorker
  <2>1. submitted' = submitted /\ late' = late /\ progress' = progress /\ pc' \notin InHand
    BY <1>1 DEF StartRunner, ExtractLabel, Round, AfterWorker, NextLabel, InHand
  <2> QED BY <2>1, OnceKept
<1>2. CASE LoadProgress
  <2>1. submitted' = submitted /\ late' = late /\ pc = "load" /\ pc' \notin InHand
    BY <1>2 DEF LoadProgress, Exit, InHand
  <2>2. CASE progress' = progress
    BY <2>1, <2>2, OnceKept
  <2>3. CASE progress[Label].whole /\ progress' = [progress EXCEPT ![Label] = Loaded]
    <3>1. \A j \in Jobs : Loaded.at[j] \in {0, progress[Label].at[j]}
      BY <2>1, <2>3, LoadedFile
    <3>2. \A l \in Labels, j \in Jobs : progress'[l].at[j] \in {0, progress[l].at[j]}
      BY <2>3, <3>1 DEF TypeInv, TypeOK
    <3> QED BY <2>1, <3>2, OnceKept
  <2> QED BY <1>2, <2>2, <2>3 DEF LoadProgress, Loads
<1>3. ASSUME NEW j \in worker.todo, OpenJob(j) PROVE Once'
  <2>1. /\ UNCHANGED <<submitted, progress>> /\ worker'.cur = j /\ j \in Jobs
        /\ \/ pc' = "form" /\ late \subseteq late' /\ (submitted[j] # 0 => j \in late')
           \/ pc' = "mark" /\ worker'.outcome # "sent" /\ late' = late
    BY <1>3, OpenJobStep
  <2>2. CountedOnce'
    BY <2>1 DEF Once, CountedOnce
  <2>3. submitted[j] = 0 => \A l \in Labels : progress[l].at[j] = 0
    BY <2>1 DEF Once, CountedOnce
  <2> QED BY <2>1, <2>2, <2>3 DEF Once, Sent, IsNew
<1>4. CASE FillForm \/ Submit
  <2> DEFINE j == worker.cur
  <2>1. /\ pc = "form" /\ progress' = progress /\ late' = late /\ worker'.cur = j /\ j \in Jobs
        /\ \/ (pc' = "mark" /\ worker'.outcome = "sent" => submitted[j] # 0) /\ submitted' = submitted
           \/ submitted[j] = 0 /\ submitted' = [submitted EXCEPT ![j] = day]
    BY <1>4, FormStep
  <2>2. j \notin late => \A l \in Labels : progress[l].at[j] = 0
    BY <2>1 DEF Once
  <2>3. submitted[j] = 0 => \A l \in Labels : progress[l].at[j] = 0
    BY <2>1 DEF Once, CountedOnce
  <2>4. submitted \in [Jobs -> 0..day] /\ day \in Nat /\ day # 0
    BY SettingType DEF TypeInv, TypeOK, Day
  <2>5. Sent' => submitted'[j] # 0
    BY <2>1, <2>4 DEF Sent, IsNew
  <2>6. /\ \A k \in Jobs : k # j => submitted'[k] = submitted[k]
        /\ submitted[j] # 0 => submitted' = submitted
    BY <2>1, <2>4
  <2>7. CountedOnce'
    BY <2>1, <2>3, <2>6 DEF Once, CountedOnce
  <2> QED BY <2>1, <2>2, <2>5, <2>7 DEF Once
<1>5. CASE MarkRecord
  <2> DEFINE j == worker.cur
  <2>1. /\ j \in Jobs /\ Label \in Labels /\ submitted' = submitted /\ late' = late
        /\ pc' \in {"after", "work"}
        /\ \A l \in Labels, k \in Jobs :
             progress'[l].at[k] = IF l = Label /\ k = j /\ Sent THEN day ELSE progress[l].at[k]
    BY <1>5, MarkStep
  <2>2. CASE ~Sent
    BY <2>1, <2>2, OnceKept DEF InHand
  <2>3. CASE Sent
    <3>1. /\ submitted[j] # 0 /\ submitted[j] <= day
          /\ j \notin late => \A l \in Labels : progress[l].at[j] = 0
      BY <2>1, <2>3, SettingType DEF Once, TypeInv, TypeOK, Day
    <3>2. ASSUME NEW l \in Labels, NEW k \in Jobs, progress'[l].at[k] # 0
          PROVE  /\ submitted'[k] # 0 /\ submitted'[k] <= progress'[l].at[k]
                 /\ k \notin late' => \A m \in Labels \ {l} : progress'[m].at[k] = 0
      BY <2>1, <2>3, <3>1, <3>2 DEF Once, CountedOnce
    <3>3. CountedOnce'
      BY <3>2 DEF CountedOnce
    <3> QED BY <2>1, <3>3 DEF Once, Sent
  <2> QED BY <2>2, <2>3
<1>6. CASE Kill
  <2>1. /\ submitted' = submitted /\ late' = late /\ pc' = "idle"
        /\ \A l \in Labels : progress'[l].at = progress[l].at
    BY <1>6, KillStep
  <2> QED BY <2>1, OnceKept DEF InHand
<1>7. CASE Midnight \/ ShowStop \/ LiftStop \/ UNCHANGED vars
  BY <1>7 DEF Midnight, ShowStop, LiftStop, vars, Once, CountedOnce, Sent
<1> QED
  BY <1>1, <1>2, <1>3, <1>4, <1>5, <1>6, <1>7 DEF Next, RunnerStep

\* What is counted was sent, not later than it was noted, and no two labels note it,
\* though they may list the same job, clicks go unnoticed, lists change, files are cut
\* off and runners killed; but for jobs whose page was read before it said that they
\* are applied for (process_record, mark_record, load_progress).
THEOREM AppliedOnce == Spec => []CountedOnce
<1>1. Once => CountedOnce
  BY DEF Once
<1> QED BY <1>1, TypeInit, TypeStep, OnceInit, OnceStep, PTL DEF Spec

----------------------------------------------------------------------------
(* No file has more of a day than the larger share.                        *)

LEMMA NotedCounts ==
  ASSUME NEW l, NEW d
  PROVE  Noted(l, d) \subseteq Jobs /\ Cardinality(Noted(l, d)) \in Nat
<1>1. Noted(l, d) \subseteq Jobs
  BY DEF Noted
<1> QED BY <1>1, Counting

\* Records that get lost leave smaller numbers.
LEMMA NotedLess ==
  ASSUME NEW l \in Labels, NEW d \in Day,
         \A j \in Jobs : progress'[l].at[j] \in {0, progress[l].at[j]}
  PROVE  Noted(l, d)' \subseteq Noted(l, d) /\ Cardinality(Noted(l, d)') <= Cardinality(Noted(l, d))
<1>1. d # 0
  BY DEF Day
<1>2. Noted(l, d)' \subseteq Noted(l, d)
  BY <1>1 DEF Noted
<1> QED BY <1>2, NotedCounts, Counting

LEMMA ShareInit == Init => Share
<1> SUFFICES ASSUME Init PROVE Share
  OBVIOUS
<1>1. Large \in Nat
  BY TypeInit, Shares DEF TypeInv
<1>2. ASSUME NEW l \in Labels, NEW d \in Day PROVE Cardinality({j \in Jobs : progress[l].at[j] = d}) <= Large
  <2>1. {j \in Jobs : progress[l].at[j] = d} = {}
    BY DEF Init, NoFile, Day
  <2> QED BY <1>1, <2>1, FS_EmptySet
<1> QED BY <1>1, <1>2 DEF Init, Share, RecordedUnderShare, NoRunner, Working, InHand

\* No worker comes to its work, targets stay or are those of no runner, and nothing is
\* noted.
LEMMA ShareKept ==
  ASSUME TypeInv, Share, UNCHANGED setting, pc' \notin {"load"} \cup Working,
         \A l \in Labels : runner'.targets[l] \in {runner.targets[l], 0, SplitTargets(l)},
         \A l \in Labels, j \in Jobs : progress'[l].at[j] \in {0, progress[l].at[j]}
  PROVE  Share'
<1>1. Large \in Nat /\ Large' = Large /\ \A l \in Labels : SplitTargets(l) <= Large
  BY Shares DEF TypeInv, Large
<1>2. \A l \in Labels : runner'.targets[l] <= Large
  BY <1>1 DEF Share
<1>3. ASSUME NEW l \in Labels, NEW d \in Day PROVE Cardinality(Noted(l, d)') <= Large
  <2>1. Cardinality(Noted(l, d)') <= Cardinality(Noted(l, d)) /\ Cardinality(Noted(l, d)) <= Large
    BY NotedLess DEF Share, RecordedUnderShare, Noted
  <2>2. Cardinality(Noted(l, d)') \in Nat /\ Cardinality(Noted(l, d)) \in Nat
    BY NotedCounts, Counting DEF Noted
  <2> QED BY <1>1, <2>1, <2>2
<1> QED BY <1>1, <1>2, <1>3 DEF Share, RecordedUnderShare, Noted, Working, InHand

\* A worker goes on with its work on a job.
LEMMA ShareWorks ==
  ASSUME Share, pc \in Working, UNCHANGED <<setting, day, progress, runner>>, worker'.left = worker.left,
         pc' \in Working
  PROVE  Share'
<1>1. Label' = Label /\ Large' = Large
  BY DEF Label, Large
<1>2. Within(Label)' <=> Within(Label)
  BY <1>1 DEF Within, Noted
<1> QED BY <1>1, <1>2 DEF Share, RecordedUnderShare, Working, InHand

LEMMA ShareRound == ASSUME TypeInv, Share, Round PROVE Share'
<1>1. pc = "round" /\ UNCHANGED <<setting, day, progress>>
  BY DEF Round
<1>2. CASE NextLabel(0)
  <2>1. pc' \in {"idle", "extract"} /\ runner'.targets = runner.targets
    BY <1>1, <1>2, NextLabelType
  <2> QED BY <1>1, <2>1, ShareKept DEF Working, InHand
<1>3. CASE /\ pc' = "load" /\ SubmittedToday(Label) < Target
           /\ runner' = [runner EXCEPT !.current = SubmittedToday(Label),
                                       !.rounds = IF @ < setting.rounds THEN @ + 1 ELSE @]
           /\ worker' = [NoWorker EXCEPT !.left = Target - SubmittedToday(Label), !.code = worker.code]
  <2>1. Label \in Labels /\ runner \in Runner /\ Target \in Nat
    BY <1>1, LabelType DEF TypeInv, TypeOK, Runner, Target
  <2>2. runner'.targets = runner.targets /\ runner'.queue = runner.queue
    BY <1>3, <2>1 DEF Runner
  <2>3. Label' = Label /\ Large' = Large
    BY <1>1, <2>2 DEF Label, Large
  <2>4. worker'.left = Target - SubmittedToday(Label)
    BY <1>3 DEF NoWorker
  <2>5. SubmittedToday(Label) \in Nat
        /\ (progress[Label].whole => SubmittedToday(Label) = Cardinality(Noted(Label, day)))
    BY <2>1, Today DEF TypeInv
  <2>6. Noted(Label, day)' = Noted(Label, day)
    BY <1>1, <2>3 DEF Noted
  <2>7. progress[Label].whole => Within(Label)'
    BY <1>1, <1>3, <2>1, <2>2, <2>3, <2>4, <2>5, <2>6 DEF Within, Target
  <2> QED BY <1>1, <1>3, <2>2, <2>3, <2>7 DEF Share, RecordedUnderShare, Working, InHand
<1>4. SubmittedToday(Label) \in Nat /\ Target \in Nat
  BY <1>1, LabelType, Today DEF TypeInv, TypeOK, Runner, Target
<1> QED BY <1>2, <1>3, <1>4 DEF Round

LEMMA ShareLoad == ASSUME TypeInv, Share, LoadProgress PROVE Share'
<1>1. pc = "load" /\ UNCHANGED <<setting, day, runner>> /\ Label \in Labels
  BY LabelType DEF LoadProgress, TypeInv
<1>2. \A l \in Labels, j \in Jobs : progress'[l].at[j] \in {0, progress[l].at[j]}
  <2>1. CASE progress' = progress
    BY <2>1
  <2>2. CASE progress[Label].whole /\ progress' = [progress EXCEPT ![Label] = Loaded]
    <3>1. \A j \in Jobs : Loaded.at[j] \in {0, progress[Label].at[j]}
      BY <1>1, <2>2, LoadedFile
    <3> QED BY <2>2, <3>1 DEF TypeInv, TypeOK
  <2> QED BY <2>1, <2>2 DEF LoadProgress, Loads
<1>3. CASE pc' = "after"
  BY <1>1, <1>2, <1>3, ShareKept DEF Working, InHand
<1>4. CASE /\ progress[Label].whole /\ progress' = [progress EXCEPT ![Label] = Loaded]
           /\ pc' = "work" /\ \E todo \in SUBSET Jobs : worker' = [worker EXCEPT !.todo = todo]
  <2>1. Loaded.whole
    BY <1>1, <1>4, LoadedFile
  <2>2. progress'[Label].whole /\ worker'.left = worker.left /\ runner.targets[Label] \in Nat
        /\ worker.left \in Nat
    BY <1>1, <1>4, <2>1 DEF TypeInv, TypeOK, Worker, Runner
  <2>3. Label' = Label /\ Large' = Large /\ day \in Day
    BY <1>1, SettingType DEF Label, Large, TypeInv
  <2>4. Cardinality(Noted(Label, day)') <= Cardinality(Noted(Label, day))
    BY <1>1, <1>2, <2>3, NotedLess
  <2>5. Cardinality(Noted(Label, day)') \in Nat /\ Cardinality(Noted(Label, day)) \in Nat
    BY NotedCounts, Counting DEF Noted
  <2>6. Within(Label)
    BY <1>1, <1>4 DEF Share
  <2>7. worker.left > 0 /\ Cardinality(Noted(Label, day)') + worker.left <= runner.targets[Label]
    BY <2>2, <2>4, <2>5, <2>6 DEF Within
  <2>8. Within(Label)'
    BY <1>1, <2>2, <2>3, <2>7 DEF Within, Noted
  <2>9. RecordedUnderShare'
    <3> SUFFICES ASSUME NEW l \in Labels, NEW d \in Day PROVE Cardinality(Noted(l, d)') <= Large
      BY <2>3 DEF RecordedUnderShare, Noted
    <3>1. Cardinality(Noted(l, d)') <= Cardinality(Noted(l, d)) /\ Cardinality(Noted(l, d)) <= Large
      BY <1>2, NotedLess DEF Share, RecordedUnderShare, Noted
    <3>2. Cardinality(Noted(l, d)') \in Nat /\ Cardinality(Noted(l, d)) \in Nat /\ Large \in Nat
      BY NotedCounts, Counting, Shares DEF Noted, TypeInv
    <3> QED BY <3>1, <3>2
  <2> QED BY <1>1, <1>4, <2>2, <2>3, <2>8, <2>9 DEF Share, Working, InHand
<1> QED BY <1>3, <1>4, OpenType DEF LoadProgress, Loads, Exit

LEMMA ShareMark == ASSUME TypeInv, Share, MarkRecord PROVE Share'
<1> DEFINE j == worker.cur
<1>1. /\ pc = "mark" /\ j \in Jobs /\ Label \in Labels
      /\ UNCHANGED <<setting, day, runner>>
      /\ \A l \in Labels : progress'[l].whole = progress[l].whole
      /\ \A l \in Labels, k \in Jobs :
           progress'[l].at[k] = IF l = Label /\ k = j /\ Sent THEN day ELSE progress[l].at[k]
      /\ pc' \in {"after", "work"}
      /\ pc' = "work" => /\ worker'.left = IF Sent THEN worker.left - 1 ELSE worker.left
                         /\ Sent => worker'.left > 0
  BY MarkStep
<1> HIDE DEF j
<1>2. /\ Label' = Label /\ Large' = Large /\ Large \in Nat /\ day \in Day
      /\ worker.left \in Nat /\ runner.targets \in [Labels -> Nat] /\ runner.targets[Label] \in Nat
  BY <1>1, Shares, SettingType DEF Label, Large, TypeInv, TypeOK, Worker, Runner
<1>3. /\ Within(Label) /\ progress[Label].whole
      /\ \A l \in Labels : runner.targets[l] <= Large
      /\ \A l \in Labels, d \in Day : Cardinality(Noted(l, d)) <= Large
  BY <1>1 DEF Share, Working, InHand, RecordedUnderShare, Noted
<1>4. CASE ~Sent
  <2>1. \A l \in Labels, d \in Day : Noted(l, d)' = Noted(l, d)
    BY <1>1, <1>4 DEF Noted
  <2>2. pc' = "work" => Within(Label)'
    BY <1>1, <1>2, <1>3, <1>4, <2>1 DEF Within, Noted
  <2>3. RecordedUnderShare'
    BY <1>2, <1>3, <2>1 DEF RecordedUnderShare, Noted
  <2> QED BY <1>1, <1>2, <1>3, <2>2, <2>3 DEF Share, Working, InHand
<1>5. CASE Sent
  <2>1. \A l \in Labels, d \in Day :
          Noted(l, d)' \subseteq (IF l = Label /\ d = day THEN Noted(l, d) \cup {j} ELSE Noted(l, d))
    BY <1>1, <1>5 DEF Noted
  <2>2. \A l \in Labels, d \in Day : Cardinality(Noted(l, d)) \in Nat /\ Cardinality(Noted(l, d)') \in Nat
    BY NotedCounts, Counting DEF Noted
  <2>3. Cardinality(Noted(Label, day)') <= Cardinality(Noted(Label, day)) + 1
    <3>1. Noted(Label, day)' \subseteq Noted(Label, day) \cup {j} /\ Noted(Label, day) \cup {j} \subseteq Jobs
      BY <1>1, <1>2, <2>1, NotedCounts
    <3>2. Cardinality(Noted(Label, day)') <= Cardinality(Noted(Label, day) \cup {j})
          /\ Cardinality(Noted(Label, day) \cup {j}) \in Nat
      BY <3>1, Counting
    <3>3. Cardinality(Noted(Label, day) \cup {j}) <= Cardinality(Noted(Label, day)) + 1
      BY <1>1, NotedCounts, CountingMore
    <3> QED BY <1>1, <1>2, <2>2, <3>2, <3>3
  <2>4. worker.left > 0 /\ Cardinality(Noted(Label, day)) + worker.left <= runner.targets[Label]
    BY <1>3 DEF Within
  <2>5. Cardinality(Noted(Label, day)') + (worker.left - 1) <= runner.targets[Label]
    BY <1>1, <1>2, <2>2, <2>3, <2>4
  <2>6. pc' = "work" => Within(Label)'
    BY <1>1, <1>2, <1>5, <2>5 DEF Within, Noted
  <2>7. RecordedUnderShare'
    <3> SUFFICES ASSUME NEW l \in Labels, NEW d \in Day PROVE Cardinality(Noted(l, d)') <= Large
      BY <1>2 DEF RecordedUnderShare, Noted
    <3>1. CASE l = Label /\ d = day
      BY <1>1, <1>2, <1>3, <2>2, <2>5, <2>4, <3>1
    <3>2. CASE ~(l = Label /\ d = day)
      <4>1. Noted(l, d)' \subseteq Noted(l, d)
        BY <2>1, <3>2
      <4>2. Cardinality(Noted(l, d)') <= Cardinality(Noted(l, d))
        BY <4>1, NotedCounts, Counting
      <4> QED BY <1>2, <1>3, <2>2, <4>2
    <3> QED BY <3>1, <3>2
  <2> QED BY <1>1, <1>2, <1>3, <2>6, <2>7 DEF Share, Working, InHand
<1> QED BY <1>4, <1>5

\* Of the day that begins nothing is noted.
LEMMA ShareMidnight == ASSUME TypeInv, Share, Midnight PROVE Share'
<1>1. day' = day + 1 /\ day \in Nat /\ UNCHANGED <<setting, progress, pc, runner, worker>>
  BY SettingType DEF Midnight, TypeInv, Day
<1>2. Label' = Label /\ Large' = Large
  BY <1>1 DEF Label, Large
<1>3. ASSUME pc # "idle", Within(Label) PROVE Within(Label)'
  <2>1. Label \in Labels /\ worker.left \in Nat /\ runner.targets[Label] \in Nat
    BY <1>3, LabelType DEF TypeInv, TypeOK, Worker, Runner
  <2>2. \A j \in Jobs : progress[Label].at[j] \in Nat /\ (progress[Label].at[j] # 0 => progress[Label].at[j] <= day)
    BY <2>1, JobAssumption DEF TypeInv, TypeOK, File, DayOrNone
  <2>3. Noted(Label, day)' = {}
    BY <1>1, <1>2, <2>2 DEF Noted
  <2>4. Cardinality(Noted(Label, day)') = 0
    BY <2>3, FS_EmptySet
  <2>5. Cardinality(Noted(Label, day)) \in Nat
    BY NotedCounts
  <2> QED BY <1>1, <1>2, <1>3, <2>1, <2>4, <2>5 DEF Within
<1> QED BY <1>1, <1>2, <1>3 DEF Share, RecordedUnderShare, Working, InHand

LEMMA ShareStep == TypeInv /\ Share /\ [Next]_vars => Share'
<1> SUFFICES ASSUME TypeInv, Share, [Next]_vars PROVE Share'
  OBVIOUS
<1>1. CASE StartRunner
  <2>1. UNCHANGED <<setting, progress>> /\ pc' = "extract"
        /\ \A l \in Labels : runner'.targets[l] = SplitTargets(l)
    BY <1>1 DEF StartRunner, NoRunner
  <2> QED BY <2>1, ShareKept DEF Working, InHand
<1>2. CASE ExtractLabel \/ AfterWorker
  <2>1. /\ UNCHANGED <<setting, progress>> /\ pc # "idle" /\ runner \in Runner
    BY <1>2 DEF ExtractLabel, AfterWorker, TypeInv, TypeOK
  <2>2. \/ \E rc \in {0, 70} : NextLabel(rc)
        \/ pc' = "idle" /\ runner' = [runner EXCEPT !.queue = <<>>, !.code = worker.code]
        \/ pc' = "round" /\ runner' = runner
        \/ pc' = "round" /\ \E found \in SUBSET setting.jobsOf[Label] : runner' = [runner EXCEPT !.found = found]
    BY <1>2 DEF ExtractLabel, AfterWorker
  <2>3. pc' \in {"idle", "extract", "round"} /\ runner'.targets = runner.targets
    <3>1. CASE \E rc \in {0, 70} : NextLabel(rc)
      BY <2>1, <3>1, NextLabelType
    <3>2. CASE pc' = "idle" /\ runner' = [runner EXCEPT !.queue = <<>>, !.code = worker.code]
      BY <2>1, <3>2 DEF Runner
    <3>3. CASE pc' = "round" /\ runner' = runner
      BY <3>3
    <3>4. CASE pc' = "round" /\ \E found \in SUBSET setting.jobsOf[Label] : runner' = [runner EXCEPT !.found = found]
      BY <2>1, <3>4 DEF Runner
    <3> QED BY <2>2, <3>1, <3>2, <3>3, <3>4
  <2> QED BY <2>1, <2>3, ShareKept DEF Working, InHand
<1>3. ASSUME NEW j \in worker.todo, OpenJob(j) PROVE Share'
  BY <1>3, OpenJobStep, ShareWorks DEF Working, InHand
<1>4. CASE FillForm \/ Submit
  BY <1>4, FormStep, ShareWorks DEF Working, InHand
<1>5. CASE Kill
  <2>1. /\ UNCHANGED setting /\ pc' = "idle" /\ \A l \in Labels : runner'.targets[l] = 0
        /\ \A l \in Labels : progress'[l].at = progress[l].at
    BY <1>5, KillStep DEF NoRunner
  <2> QED BY <2>1, ShareKept DEF Working, InHand
<1>6. CASE ShowStop \/ LiftStop \/ UNCHANGED vars
  <2>1. UNCHANGED <<setting, day, progress, pc, runner, worker>>
    BY <1>6 DEF ShowStop, LiftStop, vars
  <2>2. Label' = Label /\ Large' = Large
    BY <2>1 DEF Label, Large
  <2>3. Within(Label)' <=> Within(Label)
    BY <2>1, <2>2 DEF Within, Noted
  <2> QED BY <2>1, <2>2, <2>3 DEF Share, RecordedUnderShare
<1> QED
  BY <1>1, <1>2, <1>3, <1>4, <1>5, <1>6, ShareRound, ShareLoad, ShareMark, ShareMidnight
  DEF Next, RunnerStep

\* No label's file has more applications of one day than the larger share of the
\* limit, over rounds, restarts and runs that go past midnight (run_label, main).
THEOREM UnderShare == Spec => []RecordedUnderShare
<1>1. Share => RecordedUnderShare
  BY DEF Share
<1> QED BY <1>1, TypeInit, TypeStep, ShareInit, ShareStep, PTL DEF Spec

----------------------------------------------------------------------------
(* On a quiet day LinkedIn receives no more than the limit.                *)

LEMMA QuietDay == ASSUME TypeInv, Quiet PROVE day = 1
BY DEF TypeInv, TypeOK, Quiet

LEMMA QuietInit == ASSUME Init PROVE Kept
<1>1. \A l \in Labels : Noted(l, 1) = {} /\ progress[l].whole
  BY DEF Init, Noted, NoFile
<1>2. \A l \in Labels : SplitTargets(l) \in Nat
  BY TypeInit, Shares DEF TypeInv
<1>3. \A l \in Labels : Cardinality(Noted(l, 1)) <= SplitTargets(l)
  BY <1>1, <1>2, FS_EmptySet
<1> QED BY <1>1, <1>3 DEF Init, Kept, Listed, Working, InHand

\* Nothing is submitted or noted, and no job is taken up: what the runner knows is
\* left to show.
LEMMA KeptPlain ==
  ASSUME TypeInv, Kept, Quiet, UNCHANGED <<setting, day, submitted>>, ~Sent, pc' \notin Working,
         \A l \in Labels : progress'[l].whole /\ Noted(l, 1)' = Noted(l, 1),
         pc' # "idle" => runner'.targets = [l \in Labels |-> SplitTargets(l)],
         pc' \in {"round", "load", "after"} => runner'.found = setting.jobsOf[Label']
  PROVE  Kept'
<1>1. \A l \in Labels : SplitTargets(l)' = SplitTargets(l)
  BY DEF SplitTargets, Large
<1>2. ~Sent'
  BY DEF Sent, Working, InHand
<1>3. [l \in Labels |-> SplitTargets(l)]' = [l \in Labels |-> SplitTargets(l)]
  BY <1>1
<1> QED BY <1>1, <1>2, <1>3 DEF Kept, Listed, Working, InHand

LEMMA KeptRunner ==
  ASSUME TypeInv, Kept, Quiet, StartRunner \/ ExtractLabel \/ Round \/ AfterWorker
  PROVE  Kept'
<1>1. /\ UNCHANGED <<setting, day, submitted, progress>> /\ ~Sent
      /\ pc' \in {"idle", "extract", "round", "load"}
  BY DEF StartRunner, ExtractLabel, Round, AfterWorker, NextLabel, Sent
<1>2. \A l \in Labels : progress'[l].whole /\ Noted(l, 1)' = Noted(l, 1)
  BY <1>1 DEF Noted, Kept
<1>3. SUFFICES /\ pc' # "idle" => runner'.targets = [l \in Labels |-> SplitTargets(l)]
               /\ pc' \in {"round", "load"} => runner'.found = setting.jobsOf[Label']
  BY <1>1, <1>2, KeptPlain DEF Working, InHand
<1>4. CASE StartRunner
  BY <1>4 DEF StartRunner, NoRunner
<1>5. CASE ~StartRunner
  <2>1. /\ pc # "idle" /\ runner \in Runner
        /\ runner.targets = [l \in Labels |-> SplitTargets(l)]
        /\ pc \in {"round", "after"} => runner.found = setting.jobsOf[Label]
    BY <1>5 DEF ExtractLabel, Round, AfterWorker, TypeInv, TypeOK, Kept, Listed
  <2>2. CASE \E rc \in {0, 70} : NextLabel(rc)
    BY <2>1, <2>2, NextLabelType
  <2>3. CASE ExtractLabel /\ ~ \E rc \in {0, 70} : NextLabel(rc)
    <3>1. pc' = "round" /\ runner' = [runner EXCEPT !.found = setting.jobsOf[Label]]
      BY <2>3 DEF ExtractLabel, Quiet
    <3> QED BY <2>1, <3>1 DEF Runner, Label
  <2>4. CASE Round /\ ~ \E rc \in {0, 70} : NextLabel(rc)
    <3> DEFINE n == SubmittedToday(Label)
               m == IF runner.rounds < setting.rounds THEN runner.rounds + 1 ELSE runner.rounds
    <3>1. pc = "round" /\ runner' = [runner EXCEPT !.current = n, !.rounds = m]
      BY <2>4 DEF Round
    <3> HIDE DEF n, m
    <3>2. /\ pc = "round" /\ runner'.targets = runner.targets /\ runner'.queue = runner.queue
          /\ runner'.found = runner.found
      BY <2>1, <3>1 DEF Runner
    <3> QED BY <2>1, <3>2 DEF Label
  <2>5. CASE AfterWorker /\ ~ \E rc \in {0, 70} : NextLabel(rc)
    <3>1. pc = "after" /\ (pc' = "idle" \/ runner' = runner)
      BY <2>5 DEF AfterWorker
    <3> QED BY <1>1, <2>1, <3>1 DEF Label
  <2> QED BY <1>5, <2>2, <2>3, <2>4, <2>5
<1> QED BY <1>4, <1>5

\* Loading loses nothing, for what is noted is listed.
LEMMA KeptLoad == ASSUME TypeInv, Kept, Quiet, LoadProgress PROVE Kept'
<1>1. /\ pc = "load" /\ UNCHANGED <<setting, day, submitted, runner>> /\ Label \in Labels
      /\ progress \in [Labels -> File] /\ Label' = Label /\ ~Sent
  BY LabelType DEF LoadProgress, TypeInv, TypeOK, Label, Sent
<1>2. /\ \A l \in Labels : progress[l].whole
      /\ \A l \in Labels : Noted(l, 1) \subseteq setting.jobsOf[l]
      /\ runner.found = setting.jobsOf[Label]
      /\ runner.targets = [l \in Labels |-> SplitTargets(l)]
  BY <1>1 DEF Kept, Listed
<1>3. progress' = [progress EXCEPT ![Label] = Loaded]
  BY <1>1, <1>2 DEF LoadProgress, Loads
<1>4. /\ Loaded.whole
      /\ \A j \in Jobs : Loaded.at[j] = IF j \in runner.found THEN progress[Label].at[j] ELSE 0
      /\ Open(Loaded) \subseteq runner.found
  BY <1>1, <1>2, LoadedFile
<1>5. \A l \in Labels : progress'[l].whole /\ Noted(l, 1)' = Noted(l, 1)
  <2>1. \A j \in Jobs : Loaded.at[j] = 1 <=> progress[Label].at[j] = 1
    BY <1>1, <1>2, <1>4 DEF Noted
  <2> QED BY <1>1, <1>2, <1>3, <1>4, <2>1 DEF Noted
<1>6. CASE pc' = "after"
  BY <1>1, <1>2, <1>5, <1>6, KeptPlain DEF Working, InHand
<1>7. CASE pc' = "work" /\ \E todo \in Candidates(Loaded) : worker' = [worker EXCEPT !.todo = todo]
  <2>1. worker'.todo \subseteq Open(Loaded)
    BY <1>7, OpenType DEF TypeInv, TypeOK, Worker
  <2>2. \A l \in Labels : SplitTargets(l)' = SplitTargets(l)
    BY <1>1 DEF SplitTargets, Large
  <2>3. [l \in Labels |-> SplitTargets(l)]' = [l \in Labels |-> SplitTargets(l)]
    BY <2>2
  <2> QED BY <1>1, <1>2, <1>4, <1>5, <1>7, <2>1, <2>2, <2>3 DEF Kept, Listed, Working, InHand, Sent
<1> QED BY <1>6, <1>7 DEF LoadProgress, Exit

\* A step of the work on a job, up to its submission.
LEMMA KeptWork ==
  ASSUME TypeInv, Kept, Quiet, UNCHANGED <<setting, day, progress, runner>>, pc \in Working, pc' \in InHand,
         NEW j \in setting.jobsOf[Label], worker'.cur = j, worker'.todo \subseteq worker.todo, ~Sent,
         \A k \in Jobs : submitted'[k] # 0 => submitted[k] # 0 \/ (Sent' /\ k = j)
  PROVE  Kept'
<1>1. Label' = Label /\ \A l \in Labels : SplitTargets(l)' = SplitTargets(l) /\ Noted(l, 1)' = Noted(l, 1)
  BY DEF Label, SplitTargets, Large, Noted
<1>2. [l \in Labels |-> SplitTargets(l)]' = [l \in Labels |-> SplitTargets(l)]
  BY <1>1
<1>3. \A k \in Jobs : submitted'[k] # 0 => (\E l \in Labels : k \in Noted(l, 1)) \/ (Sent' /\ k = j)
  BY DEF Kept
<1> QED BY <1>1, <1>2, <1>3 DEF Kept, Listed, Working, InHand

\* Noting the application in hand takes from what the worker may send.
LEMMA KeptMark == ASSUME TypeInv, Share, Kept, Quiet, MarkRecord PROVE Kept'
<1> DEFINE j == worker.cur
<1>1. /\ pc = "mark" /\ j \in Jobs /\ Label \in Labels
      /\ UNCHANGED <<setting, day, submitted, runner>>
      /\ \A l \in Labels : progress'[l].whole = progress[l].whole
      /\ \A l \in Labels, k \in Jobs :
           progress'[l].at[k] = IF l = Label /\ k = j /\ Sent THEN day ELSE progress[l].at[k]
      /\ pc' \in {"after", "work"}
      /\ pc' = "work" => worker'.todo = worker.todo
  BY MarkStep
<1>2. Label' = Label /\ ~Sent' /\ day = 1 /\ \A l \in Labels : SplitTargets(l)' = SplitTargets(l)
  BY <1>1, QuietDay DEF Label, Sent, SplitTargets, Large
<1>3. [l \in Labels |-> SplitTargets(l)]' = [l \in Labels |-> SplitTargets(l)]
  BY <1>2
<1>4. /\ \A l \in Labels : progress[l].whole
      /\ \A l \in Labels : Noted(l, 1) \subseteq setting.jobsOf[l]
      /\ runner.targets = [l \in Labels |-> SplitTargets(l)]
      /\ runner.found = setting.jobsOf[Label] /\ worker.todo \subseteq setting.jobsOf[Label]
      /\ j \in setting.jobsOf[Label]
      /\ \A l \in Labels : Cardinality(Noted(l, 1)) <= SplitTargets(l)
      /\ \A k \in Jobs : submitted[k] # 0 =>
           (\E l \in Labels : k \in Noted(l, 1)) \/ (Sent /\ k = j)
  BY <1>1 DEF Kept, Listed, Working, InHand
<1> HIDE DEF j
<1>5. \A l \in Labels : Noted(l, 1)' = IF l = Label /\ Sent THEN Noted(l, 1) \cup {j} ELSE Noted(l, 1)
  BY <1>1, <1>2 DEF Noted
<1>6. \A k \in Jobs : submitted'[k] # 0 => \E l \in Labels : k \in Noted(l, 1)'
  BY <1>1, <1>4, <1>5
<1>7. Sent => Cardinality(Noted(Label, 1) \cup {j}) <= SplitTargets(Label)
  <2>1. Within(Label)
    BY <1>1 DEF Share, Working, InHand
  <2>2. worker.left \in Nat /\ runner.targets[Label] = SplitTargets(Label) /\ SplitTargets(Label) \in Nat
    BY <1>1, <1>4, Shares DEF TypeInv, TypeOK, Worker
  <2>3. Cardinality(Noted(Label, 1) \cup {j}) <= Cardinality(Noted(Label, 1)) + 1
    BY <1>1, NotedCounts, CountingMore
  <2>4. Cardinality(Noted(Label, 1)) \in Nat /\ Cardinality(Noted(Label, 1) \cup {j}) \in Nat
    BY <1>1, NotedCounts, Counting
  <2> QED BY <1>2, <2>1, <2>2, <2>3, <2>4 DEF Within
<1>8. \A l \in Labels : Cardinality(Noted(l, 1)') <= SplitTargets(l)
  BY <1>1, <1>4, <1>5, <1>7
<1>9. \A l \in Labels : Noted(l, 1)' \subseteq setting.jobsOf[l]
  BY <1>4, <1>5
<1> QED BY <1>1, <1>2, <1>3, <1>4, <1>6, <1>8, <1>9 DEF Kept, Listed, Working, InHand

LEMMA KeptStep == TypeInv /\ Share /\ Kept /\ [Next]_vars => Kept'
<1> SUFFICES ASSUME TypeInv, Share, Kept, [Next]_vars, Quiet' PROVE Kept'
  BY DEF Kept
<1>1. setting' = setting
  BY DEF Next, RunnerStep, vars, StartRunner, ExtractLabel, Round, AfterWorker, LoadProgress,
         OpenJob, FillForm, Submit, MarkRecord, Kill, Midnight, ShowStop, LiftStop
<1>2. Quiet /\ day = 1
  BY <1>1, QuietDay DEF Quiet
<1>3. ASSUME NEW j \in worker.todo, OpenJob(j) PROVE Kept'
  <2>1. /\ pc = "work" /\ UNCHANGED <<setting, day, submitted, progress, runner>>
        /\ worker'.cur = j /\ worker'.todo = worker.todo \ {j} /\ pc' \in {"form", "mark"}
    BY <1>3, OpenJobStep
  <2>2. j \in setting.jobsOf[Label] /\ ~Sent
    BY <1>2, <2>1 DEF Kept, Working, Sent
  <2> QED BY <1>2, <2>1, <2>2, KeptWork DEF Working, InHand
<1>4. CASE FillForm \/ Submit
  <2>1. /\ pc = "form" /\ pc' = "mark" /\ UNCHANGED <<setting, day, progress, runner>>
        /\ worker'.cur = worker.cur /\ worker'.todo = worker.todo
        /\ \/ submitted' = submitted
           \/ worker'.outcome = "sent" /\ submitted' = [submitted EXCEPT ![worker.cur] = day]
    BY <1>2, <1>4, FormStep DEF Quiet
  <2>2. worker.cur \in setting.jobsOf[Label] /\ ~Sent
    BY <1>2, <2>1 DEF Kept, Working, InHand, Sent
  <2>3. \A k \in Jobs : submitted'[k] # 0 => submitted[k] # 0 \/ (Sent' /\ k = worker.cur)
    BY <2>1 DEF TypeInv, TypeOK, Sent, IsNew
  <2> QED BY <1>2, <2>1, <2>2, <2>3, KeptWork DEF Working, InHand
<1>5. CASE Kill \/ Midnight
  <2>1. ~Kill
    BY <1>2, KillStep DEF Quiet
  <2>2. ~Midnight
    BY <1>2 DEF Midnight, Quiet
  <2> QED BY <1>5, <2>1, <2>2
<1>6. CASE ShowStop \/ LiftStop \/ UNCHANGED vars
  <2>1. UNCHANGED <<setting, day, submitted, late, progress, pc, runner, worker>>
    BY <1>6 DEF ShowStop, LiftStop, vars
  <2>2. Label' = Label /\ (Sent' <=> Sent)
        /\ \A l \in Labels : SplitTargets(l)' = SplitTargets(l) /\ Noted(l, 1)' = Noted(l, 1)
    BY <2>1 DEF Label, Sent, SplitTargets, Large, Noted
  <2>3. [l \in Labels |-> SplitTargets(l)]' = [l \in Labels |-> SplitTargets(l)]
    BY <2>2
  <2> QED BY <1>2, <2>1, <2>2, <2>3 DEF Kept
<1> QED
  BY <1>2, <1>3, <1>4, <1>5, <1>6, KeptRunner, KeptLoad, KeptMark DEF Next, RunnerStep

\* What is submitted is noted by a label, or is about to be by the one whose worker
\* may still send one.
LEMMA UnderLimit == TypeInv /\ Share /\ Kept => AppliedUnderLimit
<1> SUFFICES ASSUME TypeInv, Share, Kept, Quiet, NEW d \in Day
             PROVE  Cardinality({j \in Jobs : submitted[j] = d}) <= setting.limit
  BY DEF AppliedUnderLimit, Quiet
<1> DEFINE S == {j \in Jobs : submitted[j] = d}
           M(l) == IF Sent /\ l = Label THEN Noted(l, 1) \cup {worker.cur} ELSE Noted(l, 1)
<1>1. day = 1 /\ SplitTargets("SRE") + SplitTargets("DevOps") = setting.limit
      /\ \A l \in Labels : SplitTargets(l) \in Nat
  BY QuietDay, Shares DEF TypeInv
<1>2. Sent => worker.cur \in Jobs /\ Label \in Labels /\ Within(Label)
              /\ runner.targets[Label] = SplitTargets(Label) /\ worker.left \in Nat
  BY LabelType DEF Sent, Share, Working, InHand, Kept, TypeInv, TypeOK, Shape, Worker
<1>3. ASSUME NEW l \in Labels PROVE M(l) \subseteq Jobs /\ Cardinality(M(l)) <= SplitTargets(l)
  <2>1. Cardinality(Noted(l, 1)) <= SplitTargets(l) /\ Cardinality(Noted(l, 1)) \in Nat
        /\ Noted(l, 1) \subseteq Jobs
    BY NotedCounts DEF Kept
  <2>2. CASE Sent /\ l = Label
    <3>1. Cardinality(Noted(l, 1)) + 1 <= SplitTargets(l)
      BY <1>1, <1>2, <2>1, <2>2 DEF Within
    <3>2. Cardinality(Noted(l, 1) \cup {worker.cur}) <= Cardinality(Noted(l, 1)) + 1
      BY <1>2, <2>1, <2>2, CountingMore
    <3>3. Cardinality(Noted(l, 1) \cup {worker.cur}) \in Nat
      BY <1>2, <2>1, <2>2, Counting
    <3> QED BY <1>1, <1>2, <2>1, <2>2, <3>1, <3>2, <3>3
  <2> QED BY <2>1, <2>2
<1>4. "SRE" \in Labels /\ "DevOps" \in Labels /\ \A l \in Labels : l = "SRE" \/ l = "DevOps"
  BY DEF Labels
<1>5. S \subseteq M("SRE") \cup M("DevOps")
  <2>1. ASSUME NEW j \in S PROVE j \in M("SRE") \cup M("DevOps")
    <3>1. j \in Jobs /\ submitted[j] # 0
      BY DEF Day
    <3>2. (\E l \in Labels : j \in Noted(l, 1)) \/ (Sent /\ j = worker.cur)
      BY <3>1 DEF Kept
    <3> QED BY <1>2, <1>4, <3>2
  <2> QED BY <2>1
<1> HIDE DEF M, S
<1>6. IsFiniteSet(M("SRE")) /\ IsFiniteSet(M("DevOps"))
      /\ Cardinality(M("SRE")) \in Nat /\ Cardinality(M("DevOps")) \in Nat
  BY <1>3, <1>4, Counting
<1> DEFINE U == M("SRE") \cup M("DevOps")
<1>7. Cardinality(U) <= Cardinality(M("SRE")) + Cardinality(M("DevOps"))
  <2>1. Cardinality(M("SRE") \cap M("DevOps")) \in Nat
    BY <1>3, <1>4, Counting
  <2>2. Cardinality(U) = Cardinality(M("SRE")) + Cardinality(M("DevOps"))
                         - Cardinality(M("SRE") \cap M("DevOps"))
    BY <1>6, FS_Union
  <2> QED BY <1>6, <2>1, <2>2
<1>8. U \subseteq Jobs /\ S \subseteq U
  BY <1>3, <1>4, <1>5
<1>9. Cardinality(S) <= Cardinality(U) /\ Cardinality(U) \in Nat /\ Cardinality(S) \in Nat
  <2>1. S \subseteq Jobs
    BY <1>8
  <2> QED BY <1>8, <2>1, Counting
<1>10. Cardinality(M("SRE")) <= SplitTargets("SRE") /\ Cardinality(M("DevOps")) <= SplitTargets("DevOps")
       /\ SplitTargets("SRE") \in Nat /\ SplitTargets("DevOps") \in Nat
  BY <1>1, <1>3, <1>4
<1> HIDE DEF U
<1>11. Cardinality(S) <= setting.limit
  BY <1>1, <1>6, <1>7, <1>9, <1>10
<1> QED BY <1>11 DEF S

\* "target is submitted Easy Apply applications" (run_unlocked.sh:86): LinkedIn
\* receives no more of them in a day than the limit, over both labels and any number
\* of runs, if lists stay, submissions are confirmed, and no run is killed or goes
\* past midnight.
THEOREM LimitHolds == Spec => []AppliedUnderLimit
BY TypeInit, TypeStep, ShareInit, ShareStep, QuietInit, KeptStep, UnderLimit, PTL DEF Spec

----------------------------------------------------------------------------
(* One form: types.                                                        *)

\* The first of some controls.
LEMMA FirstControl ==
  ASSUME NEW S \in SUBSET Nat, S # {}
  PROVE  Apply!Min(S) \in S /\ \A q \in S : Apply!Min(S) <= q
<1>2. PICK m \in S : \A q \in S : <<q, m>> \notin OpToRel(<, Nat)
  BY NatLessThanWellFounded, WFMin
<1>3. \A q \in S : m <= q
  <2>1. \A q \in S : <<q, m>> \in Nat \X Nat /\ <<q, m>>[1] = q /\ <<q, m>>[2] = m
    OBVIOUS
  <2>2. \A q \in S : ~(q < m)
    BY <1>2, <2>1 DEF OpToRel
  <2> QED BY <2>2
<1> QED BY <1>3 DEF Apply!Min

LEMMA FormFacts ==
  ASSUME Apply!TypeOK
  PROVE  /\ Len(form) \in Nat /\ page \in 1..Len(form)
         /\ \A n \in 1..Len(form) :
              /\ form[n].submit <=> n = Len(form)
              /\ form[n].box \in {"ack", "follow", "none"}
              /\ Len(form[n].controls) \in Nat
              /\ \A c \in 1..Len(form[n].controls) : form[n].controls[c] \in Apply!Control
<1>1. form \in Seq(Apply!FormPage) /\ page \in 1..Len(form)
      /\ \A n \in 1..Len(form) : form[n].submit <=> n = Len(form)
  BY FormAssumption DEF Apply!TypeOK, Apply!Sound, Apply!IsForm
<1>2. Len(form) \in Nat /\ \A n \in 1..Len(form) : form[n] \in Apply!FormPage
  BY <1>1
<1>3. ASSUME NEW n \in 1..Len(form)
      PROVE  form[n].controls \in Seq(Apply!Control) /\ form[n].box \in {"ack", "follow", "none"}
  BY <1>2 DEF Apply!FormPage
<1> QED BY <1>1, <1>2, <1>3

LEMMA FormTypeInit == Apply!Init => Apply!TypeOK
<1> SUFFICES ASSUME Apply!Init PROVE Apply!TypeOK
  OBVIOUS
<1>1. form \in Forms /\ form \in Seq(Apply!FormPage) /\ form # <<>> /\ MaxSteps \in Nat
  BY FormAssumption DEF Apply!Sound, Apply!IsForm, Apply!Init
<1>2. page \in 1..Len(form)
  BY <1>1 DEF Apply!Init
<1>3. /\ DOMAIN value = 1..Len(form)
      /\ \A n \in 1..Len(form) :
           /\ DOMAIN value[n] = 1..Len(form[n].controls)
           /\ \A c \in DOMAIN value[n] : value[n][c] = Apply!Empty
  BY DEF Apply!Init
<1>4. /\ ticked \subseteq 1..Len(form) /\ resume = "other" /\ gaps = {} /\ open = {} /\ unread = {}
      /\ sent = FALSE /\ steps = 0 /\ formPc = "step" /\ outcome = "none"
  BY DEF Apply!Init
<1>5. \A n \in 1..Len(form) :
        /\ DOMAIN value[n] = 1..Len(form[n].controls)
        /\ \A c \in DOMAIN value[n] : value[n][c] \in Questions \cup {Apply!Empty, Apply!Default}
  BY <1>3
<1>6. /\ gaps \subseteq 1..Len(form[page].controls) /\ (formPc \notin {"fill", "done"} => gaps = {})
      /\ open \subseteq Questions /\ unread \subseteq 1..Len(form)
  BY <1>4
<1>7. steps \in 0..MaxSteps
  <2>1. steps = 0
    BY <1>4
  <2> QED BY <1>1, <2>1
<1>8. sent \in BOOLEAN /\ outcome \in Apply!Outcomes /\ (outcome = "none" <=> formPc # "done")
  BY <1>4 DEF Apply!Outcomes
<1>9. formPc \in {"step", "review", "resume", "answer", "fill", "next", "done"}
      /\ resume \in {"expected", "other"}
  BY <1>4
<1> QED BY <1>1, <1>2, <1>3, <1>4, <1>5, <1>6, <1>7, <1>8, <1>9, Zenon DEF Apply!TypeOK

\* The controls that may be found for a question, and the one that is taken.
LEMMA FieldType ==
  ASSUME Apply!TypeOK, NEW q
  PROVE  /\ Apply!FieldFor(q) \subseteq 1..Len(form[page].controls)
         /\ Apply!FieldFor(q) # {} =>
              /\ Apply!Min(Apply!FieldFor(q)) \in Apply!FieldFor(q)
              /\ \A f \in Apply!FieldFor(q) : Apply!Min(Apply!FieldFor(q)) <= f
<1>1. Apply!FieldFor(q) \subseteq 1..Len(form[page].controls)
  BY DEF Apply!FieldFor, Apply!Fillable, Apply!Controls, Apply!Page
<1>2. Apply!FieldFor(q) \in SUBSET Nat
  BY <1>1, FormFacts
<1> QED BY <1>1, <1>2, FirstControl

\* What the top of the loop writes.
LEMMA Looked ==
  ASSUME Apply!TypeOK, Apply!LookAtPage
  PROVE  /\ DOMAIN value' = 1..Len(form)
         /\ \A n \in 1..Len(form) : n # page => value'[n] = value[n]
         /\ DOMAIN value'[page] = 1..Len(form[page].controls)
         /\ \A c \in 1..Len(form[page].controls) :
              \/ value'[page][c] = value[page][c]
              \/ /\ c \in Apply!Named(page)
                 /\ \/ value'[page][c] = form[page].controls[c].ask
                    \/ (Shared \/ form[page].controls[c].ask \notin Contact) /\ value'[page][c] = Apply!Default
<1>1. PICK found \in SUBSET Apply!Named(page) :
        value' = [value EXCEPT ![page] = [c \in 1..Len(form[page].controls) |->
                    CASE c \notin found -> value[page][c]
                      [] c \in found /\ ~Shared /\ form[page].controls[c].ask \in Contact ->
                           form[page].controls[c].ask
                      [] OTHER -> Apply!Default]]
  BY DEF Apply!LookAtPage, Apply!Controls, Apply!Page, Apply!Held
<1>2. DOMAIN value = 1..Len(form) /\ page \in 1..Len(form)
  BY DEF Apply!TypeOK
<1>3. /\ DOMAIN value' = 1..Len(form)
      /\ \A n \in 1..Len(form) : n # page => value'[n] = value[n]
      /\ value'[page] = [c \in 1..Len(form[page].controls) |->
                    CASE c \notin found -> value[page][c]
                      [] c \in found /\ ~Shared /\ form[page].controls[c].ask \in Contact ->
                           form[page].controls[c].ask
                      [] OTHER -> Apply!Default]
  BY <1>1, <1>2
<1> QED BY <1>3

\* What an answer changes.
LEMMA Filling ==
  ASSUME Apply!TypeOK, NEW c \in gaps, Apply!FillQuestion(c)
  PROVE  LET q == form[page].controls[c].ask
             f == Apply!Min(Apply!FieldFor(q))
         IN \/ q \in Blank /\ UNCHANGED <<value, open>>
            \/ /\ Apply!FieldFor(q) # {} /\ f \in 1..Len(form[page].controls)
               /\ q \in Known /\ UNCHANGED open /\ value' = [value EXCEPT ![page][f] = q]
            \/ q \notin Blank /\ UNCHANGED value /\ open' = open \cup {q}
<1> DEFINE q == form[page].controls[c].ask
           f == Apply!Min(Apply!FieldFor(q))
<1>1. \/ q \in Blank /\ UNCHANGED <<value, open>>
      \/ /\ q \in Known /\ Apply!FieldFor(q) # {}
         /\ value' = [value EXCEPT ![page][f] = q] /\ UNCHANGED open
      \/ q \notin Blank /\ UNCHANGED value /\ open' = open \cup {q}
  BY DEF Apply!FillQuestion, Apply!Controls, Apply!Page
<1>2. Apply!FieldFor(q) # {} => f \in 1..Len(form[page].controls)
  BY FieldType
<1> QED BY <1>1, <1>2

LEMMA FormTypeStep == Apply!TypeOK /\ [Apply!Next]_Apply!vars => Apply!TypeOK'
<1> SUFFICES ASSUME Apply!TypeOK, [Apply!Next]_Apply!vars PROVE Apply!TypeOK'
  OBVIOUS
<1> USE DEF Apply!Empty, Apply!Default, Apply!TypeOK, Apply!Outcomes, Apply!End, Apply!GoTo
<1>1. CASE Apply!LookAtPage
  <2>1. \A c \in 1..Len(form[page].controls) : form[page].controls[c].ask \in Questions
    BY FormFacts DEF Apply!Control
  <2>2. /\ DOMAIN value' = 1..Len(form)
        /\ \A n \in 1..Len(form) :
             /\ DOMAIN value'[n] = 1..Len(form[n].controls)
             /\ \A c \in DOMAIN value'[n] : value'[n][c] \in Questions \cup {Apply!Empty, Apply!Default}
    BY <1>1, <2>1, Looked
  <2>3. steps' \in 0..MaxSteps
    BY <1>1, FormAssumption DEF Apply!LookAtPage, Apply!StepsLeft, Apply!Sound
  <2>4. UNCHANGED <<form, page, ticked, resume, gaps, open, unread, sent>> /\ outcome' = outcome
        /\ formPc = "step" /\ formPc' \in {"resume", "review"}
    BY <1>1 DEF Apply!LookAtPage, Apply!asked
  <2> QED BY <2>2, <2>3, <2>4
<1>2. CASE Apply!MeetStop
  BY <1>2 DEF Apply!MeetStop, Apply!asked
<1>3. CASE Apply!StepLimit
  BY <1>3 DEF Apply!StepLimit, Apply!asked
<1>4. CASE Apply!Review
  BY <1>4 DEF Apply!Review, Apply!SubmitOr, Apply!asked
<1>5. CASE Apply!SelectResume
  BY <1>5 DEF Apply!SelectResume, Apply!asked
<1>6. CASE Apply!Answer
  <2>1. gaps' \subseteq 1..Len(form[page].controls)
    BY <1>6 DEF Apply!Answer, Apply!Readings, Apply!Gaps, Apply!Missing
  <2>2. unread' \subseteq 1..Len(form) /\ ticked' \subseteq 1..Len(form)
    BY <1>6 DEF Apply!Answer
  <2> QED BY <1>6, <2>1, <2>2 DEF Apply!Answer
<1>7. ASSUME NEW c \in gaps, Apply!FillQuestion(c) PROVE Apply!TypeOK'
  <2> DEFINE q == form[page].controls[c].ask
             f == Apply!Min(Apply!FieldFor(q))
  <2>1. c \in 1..Len(form[page].controls) /\ q \in Questions
    BY FormFacts DEF Apply!Control
  <2>2. \/ UNCHANGED <<value, open>>
        \/ UNCHANGED open /\ f \in 1..Len(form[page].controls) /\ value' = [value EXCEPT ![page][f] = q]
        \/ UNCHANGED value /\ open' = open \cup {q}
    BY <1>7, Filling
  <2>3. CASE UNCHANGED open /\ f \in 1..Len(form[page].controls) /\ value' = [value EXCEPT ![page][f] = q]
    <3> HIDE DEF f
    <3>2. /\ DOMAIN value' = 1..Len(form)
          /\ \A n \in 1..Len(form) :
               /\ DOMAIN value'[n] = 1..Len(form[n].controls)
               /\ \A d \in DOMAIN value'[n] : value'[n][d] \in Questions \cup {Apply!Empty, Apply!Default}
      BY <2>1, <2>3
    <3> QED BY <1>7, <2>3, <3>2 DEF Apply!FillQuestion
  <2>4. CASE UNCHANGED value
    BY <1>7, <2>1, <2>2, <2>4 DEF Apply!FillQuestion
  <2> QED BY <2>2, <2>3, <2>4
<1>8. CASE Apply!EndAnswers
  BY <1>8 DEF Apply!EndAnswers, Apply!asked
<1>9. CASE Apply!ClickNext
  <2>1. CASE page' = page
    BY <1>9, <2>1 DEF Apply!ClickNext, Apply!SubmitOr, Apply!asked
  <2>2. CASE page' = page + 1 /\ ~Apply!Page.submit /\ formPc' = "step" /\ UNCHANGED <<ticked, sent, outcome>>
    <3>1. page' \in 1..Len(form)
      BY <2>2, FormFacts DEF Apply!Page
    <3> QED BY <1>9, <2>2, <3>1 DEF Apply!ClickNext, Apply!asked
  <2> QED BY <1>9, <2>1, <2>2 DEF Apply!ClickNext
<1>10. CASE Apply!Raise
  BY <1>10 DEF Apply!Raise, Apply!asked
<1>11. CASE UNCHANGED Apply!vars
  BY <1>11 DEF Apply!vars, Apply!asked
<1> QED BY <1>1, <1>2, <1>3, <1>4, <1>5, <1>6, <1>7, <1>8, <1>9, <1>10, <1>11 DEF Apply!Next

\* The variables of a form have their types in every reachable state, and questions
\* are to come only while they are being answered.
THEOREM FormTypes == Apply!Spec => []Apply!TypeOK
BY FormTypeInit, FormTypeStep, PTL DEF Apply!Spec

----------------------------------------------------------------------------
(* One form: whose answer a control holds.                                 *)

\* While the gaps of a page are filled, those still to come are empty: the control
\* that is taken for a question is that question's, and the gap itself or before it.
Matching ==
  Apply!OwnPlaces =>
    /\ Apply!AnswersMatch
    /\ \A c \in gaps :
         /\ form[page].controls[c].need /\ form[page].controls[c].kind # "check"
         /\ form[page].controls[c].kind # "radio" => value[page][c] = Apply!Empty

LEMMA MatchingInit == Apply!Init => Matching
BY DEF Apply!Init, Matching, Apply!AnswersMatch

\* The controls found for a gap that is empty, if it is no radio group, and if each
\* question has a place of its own.
LEMMA OwnField ==
  ASSUME Apply!TypeOK, Apply!OwnPlaces, NEW c \in gaps, form[page].controls[c].need,
         form[page].controls[c].kind # "check",
         form[page].controls[c].kind # "radio" => value[page][c] = Apply!Empty
  PROVE  LET q == form[page].controls[c].ask
             f == Apply!Min(Apply!FieldFor(q))
         IN /\ f \in 1..Len(form[page].controls) /\ form[page].controls[f].ask = q
            /\ form[page].controls[f].kind # "radio" =>
                 form[page].controls[c].kind # "radio" /\ f <= c
<1> DEFINE q == form[page].controls[c].ask
           group == {d \in 1..Len(form[page].controls) :
                       form[page].controls[d].kind = "radio" /\ form[page].controls[d].ask = q
                         /\ form[page].controls[d].fits}
           labelled == {d \in 1..Len(form[page].controls) :
                          form[page].controls[d].kind \in {"text", "select"} /\ value[page][d] = Apply!Empty
                            /\ form[page].controls[d].ask = q}
<1>1. c \in 1..Len(form[page].controls)
      /\ form[page].controls[c].kind \in {"text", "select", "bare", "radio", "check"}
  BY FormFacts DEF Apply!TypeOK, Apply!Control, Apply!Kinds
<1>2. page \in 1..Len(form) /\ ~Shared
  BY FormFacts DEF Apply!OwnPlaces
<1>3. CASE group # {}
  <2>1. Apply!FieldFor(q) = group
    BY <1>2, <1>3 DEF Apply!FieldFor, Apply!Controls, Apply!Page
  <2>2. Apply!Min(Apply!FieldFor(q)) \in group
    BY <1>3, <2>1, FieldType
  <2> QED BY <2>2
<1>4. CASE group = {}
  <2>1. form[page].controls[c].kind \in {"text", "select"}
    BY <1>1, <1>2, <1>4 DEF Apply!OwnPlaces
  <2>2. c \in labelled
    BY <1>1, <2>1
  <2>3. Apply!FieldFor(q) = labelled
    BY <1>2, <1>4, <2>2 DEF Apply!FieldFor, Apply!Fillable, Apply!Controls, Apply!Page, Apply!Held
  <2>4. Apply!Min(Apply!FieldFor(q)) \in labelled /\ Apply!Min(Apply!FieldFor(q)) <= c
    BY <2>2, <2>3, FieldType
  <2> QED BY <2>1, <2>4
<1> QED BY <1>3, <1>4

LEMMA FillMatching ==
  ASSUME Apply!TypeOK, Apply!OwnPlaces, Matching, NEW c \in gaps, Apply!FillQuestion(c),
         form[page].controls[c].kind # "check"
  PROVE  /\ \A n \in 1..Len(form) : \A d \in 1..Len(form[n].controls) :
              value'[n][d] \in {Apply!Empty, form[n].controls[d].ask}
         /\ \A d \in gaps \ {c} :
              form[page].controls[d].kind # "radio" => value'[page][d] = Apply!Empty
<1> DEFINE q == form[page].controls[c].ask
           f == Apply!Min(Apply!FieldFor(q))
<1>1. /\ \A n \in 1..Len(form) : \A d \in 1..Len(form[n].controls) :
           value[n][d] \in {Apply!Empty, form[n].controls[d].ask}
      /\ \A d \in gaps : form[page].controls[d].kind # "radio" => value[page][d] = Apply!Empty
      /\ form[page].controls[c].need
  BY DEF Matching, Apply!AnswersMatch
<1>2. value' = value \/ value' = [value EXCEPT ![page][f] = q]
  BY Filling
<1>3. CASE value' = value
  BY <1>1, <1>3
<1>4. CASE value' = [value EXCEPT ![page][f] = q]
  <2>1. /\ f \in 1..Len(form[page].controls) /\ form[page].controls[f].ask = q
        /\ form[page].controls[f].kind # "radio" => form[page].controls[c].kind # "radio" /\ f <= c
    BY <1>1, OwnField
  <2>2. c \in Nat /\ gaps \subseteq Nat /\ f \in Nat /\ page \in 1..Len(form)
        /\ gaps \subseteq 1..Len(form[page].controls)
    BY <2>1, FormFacts DEF Apply!TypeOK
  <2>3. \A d \in gaps \ {c} : form[page].controls[d].kind # "radio" => d # f
    <3>1. \A d \in gaps \ {c} : Apply!Before(c, d)
      BY DEF Apply!FillQuestion
    <3> HIDE DEF f
    <3> QED BY <2>1, <2>2, <3>1 DEF Apply!Before, Apply!Controls, Apply!Page
  <2> HIDE DEF f
  <2>4. /\ DOMAIN value = 1..Len(form) /\ DOMAIN value[page] = 1..Len(form[page].controls)
    BY <2>2 DEF Apply!TypeOK
  <2>5. /\ \A n \in 1..Len(form) : n # page => value'[n] = value[n]
        /\ value'[page] = [value[page] EXCEPT ![f] = q]
    BY <1>4, <2>2, <2>4
  <2>6. /\ value'[page][f] = q
        /\ \A d \in 1..Len(form[page].controls) : d # f => value'[page][d] = value[page][d]
    BY <2>1, <2>4, <2>5
  <2> QED BY <1>1, <2>1, <2>2, <2>3, <2>5, <2>6
<1> QED BY <1>2, <1>3, <1>4

LEMMA MatchingStep == Apply!TypeOK /\ Matching /\ [Apply!Next]_Apply!vars => Matching'
<1> SUFFICES ASSUME Apply!TypeOK, Matching, [Apply!Next]_Apply!vars PROVE Matching'
  OBVIOUS
<1>0. form' = form
  BY DEF Apply!Next, Apply!vars, Apply!LookAtPage, Apply!MeetStop, Apply!StepLimit, Apply!Review,
         Apply!SelectResume, Apply!Answer, Apply!FillQuestion, Apply!EndAnswers, Apply!ClickNext, Apply!Raise
<1>00. Apply!OwnPlaces' = Apply!OwnPlaces
  BY <1>0 DEF Apply!OwnPlaces, Apply!Named
<1> SUFFICES ASSUME Apply!OwnPlaces
             PROVE  /\ \A n \in 1..Len(form) : \A c \in 1..Len(form[n].controls) :
                         value'[n][c] \in {Apply!Empty, form[n].controls[c].ask}
                    /\ \A c \in gaps' :
                         /\ form[page'].controls[c].need /\ form[page'].controls[c].kind # "check"
                         /\ form[page'].controls[c].kind # "radio" => value'[page'][c] = Apply!Empty
  BY <1>0, <1>00 DEF Matching, Apply!AnswersMatch, Apply!Empty
<1>1. /\ \A n \in 1..Len(form) : \A c \in 1..Len(form[n].controls) :
           value[n][c] \in {Apply!Empty, form[n].controls[c].ask}
      /\ \A c \in gaps :
           /\ form[page].controls[c].need /\ form[page].controls[c].kind # "check"
           /\ form[page].controls[c].kind # "radio" => value[page][c] = Apply!Empty
  BY DEF Matching, Apply!AnswersMatch
<1>2. CASE Apply!LookAtPage
  <2>1. gaps' = {} /\ page \in 1..Len(form)
    BY <1>2 DEF Apply!LookAtPage, Apply!TypeOK, Apply!asked
  <2>2. \A c \in 1..Len(form[page].controls) :
          value'[page][c] \in {value[page][c], form[page].controls[c].ask}
    BY <1>2, <2>1, Looked DEF Apply!OwnPlaces
  <2> QED BY <1>1, <1>2, <2>1, <2>2, Looked
<1>3. CASE Apply!Answer
  <2>1. gaps' \subseteq Apply!Gaps(page) /\ UNCHANGED <<page, value>>
    BY <1>3 DEF Apply!Answer, Apply!Readings
  <2> QED BY <1>1, <2>1 DEF Apply!Gaps, Apply!Missing
<1>4. ASSUME NEW c \in gaps, Apply!FillQuestion(c)
      PROVE  /\ \A n \in 1..Len(form) : \A d \in 1..Len(form[n].controls) :
                  value'[n][d] \in {Apply!Empty, form[n].controls[d].ask}
             /\ \A d \in gaps' :
                  /\ form[page'].controls[d].need /\ form[page'].controls[d].kind # "check"
                  /\ form[page'].controls[d].kind # "radio" => value'[page'][d] = Apply!Empty
  <2>1. gaps' = gaps \ {c} /\ page' = page
    BY <1>4 DEF Apply!FillQuestion
  <2> QED BY <1>1, <1>4, <2>1, FillMatching
<1>5. CASE UNCHANGED <<page, value, gaps>>
  BY <1>1, <1>5
<1>6. CASE Apply!ClickNext
  BY <1>1, <1>6 DEF Apply!ClickNext, Apply!TypeOK, Apply!asked
<1> QED
  BY <1>2, <1>3, <1>4, <1>5, <1>6
  DEF Apply!Next, Apply!vars, Apply!asked, Apply!MeetStop, Apply!StepLimit, Apply!Review,
      Apply!SelectResume, Apply!EndAnswers, Apply!Raise

\* No control of a form holds another question's answer, for any form, pages,
\* questions and answers, where each question has a place of its own: no control
\* bears its neighbours' labels or a contact field's words, required lists say that
\* they are empty, and radio groups offer the answer (linkedin_worker.py:489-868).
THEOREM OwnAnswers == Apply!Spec => []AnswersMatch
<1>1. Matching => Apply!AnswersMatch
  BY DEF Matching, Apply!AnswersMatch
<1> QED
  BY <1>1, FormTypeInit, FormTypeStep, MatchingInit, MatchingStep, PTL DEF Apply!Spec, AnswersMatch

----------------------------------------------------------------------------
(* One form: what is sent.                                                 *)

\* No required question of a page that nothing answers is left empty, if its
\* questions could be read.
Filled(n) ==
  n \notin unread =>
    \A c \in 1..Len(form[n].controls) :
      Apply!Unknown(form[n].controls[c]) => value[n][c] # Apply!Empty

\* The pages behind are filled, and the page in hand by the time Next is due; until
\* then a question that nothing answers is still to come, or noted as unresolved.
\* Only the last page is sent, after the others, and with the expected resume.
Sending ==
  Apply!Reviewed =>
    /\ ~sent => \A n \in 1..Len(form) : n < page \/ n = Len(form) => Filled(n)
    /\ formPc = "review" => page = Len(form)
    /\ formPc = "next" /\ ~sent => Filled(page)
    /\ formPc = "fill" /\ open = {} /\ ~sent /\ page \notin unread =>
         \A c \in 1..Len(form[page].controls) :
           Apply!Unknown(form[page].controls[c]) => value[page][c] # Apply!Empty \/ c \in gaps
    /\ sent => resume = "expected" /\ \A n \in 1..Len(form) : Filled(n)

LEMMA SendingInit == Apply!Init => Sending
<1> SUFFICES ASSUME Apply!Init, Apply!Reviewed PROVE Sending
  BY DEF Sending
<1>1. Len(form) \in Nat /\ page \in 1..Len(form)
  BY FormTypeInit, FormFacts
<1>2. Filled(Len(form))
  BY DEF Filled, Apply!Reviewed
<1>3. \A n \in 1..Len(form) : ~(n < page)
  BY DEF Apply!Init
<1> QED BY <1>2, <1>3 DEF Apply!Init, Sending

\* What a control holds is replaced, never taken away.
LEMMA KeepsAnswers ==
  ASSUME Apply!TypeOK, [Apply!Next]_Apply!vars, NEW n \in 1..Len(form),
         NEW c \in 1..Len(form[n].controls), value[n][c] # Apply!Empty
  PROVE  value'[n][c] # Apply!Empty
<1>1. CASE value' = value
  BY <1>1
<1>2. CASE Apply!LookAtPage
  <2>1. form[n].controls[c].ask # Apply!Empty
    BY FormFacts, FormAssumption DEF Apply!Control, Apply!Sound
  <2>2. Apply!Default # Apply!Empty
    BY DEF Apply!Default, Apply!Empty
  <2> QED BY <1>2, <2>1, <2>2, Looked
<1>3. ASSUME NEW d \in gaps, Apply!FillQuestion(d) PROVE value'[n][c] # Apply!Empty
  <2> DEFINE q == form[page].controls[d].ask
             f == Apply!Min(Apply!FieldFor(q))
  <2>1. q # Apply!Empty
    BY FormFacts, FormAssumption DEF Apply!TypeOK, Apply!Control, Apply!Sound
  <2>2. value' = value \/ value' = [value EXCEPT ![page][f] = q]
    BY <1>3, Filling
  <2>3. DOMAIN value = 1..Len(form) /\ DOMAIN value[n] = 1..Len(form[n].controls)
    BY DEF Apply!TypeOK
  <2> HIDE DEF f, q
  <2> QED BY <1>1, <2>1, <2>2, <2>3
<1> QED
  BY <1>1, <1>2, <1>3
  DEF Apply!Next, Apply!vars, Apply!MeetStop, Apply!StepLimit, Apply!Review, Apply!SelectResume,
      Apply!Answer, Apply!EndAnswers, Apply!ClickNext, Apply!Raise

\* A question that nothing answers stays to come until it is noted as unresolved.
LEMMA FillSending ==
  ASSUME Apply!TypeOK, NEW d \in gaps, Apply!FillQuestion(d), open' = {},
         Apply!Unknown(form[page].controls[d])
  PROVE  FALSE
BY Filling DEF Apply!Unknown

\* Where and when LinkedIn gets a form.
LEMMA SubmitEffect ==
  ASSUME Apply!TypeOK, Sending, Apply!Reviewed, [Apply!Next]_Apply!vars, sent' # sent
  PROVE  /\ formPc \in {"review", "next"} /\ page = Len(form) /\ page' = page
         /\ resume' = "expected" /\ unread' = unread /\ ~sent /\ sent'
<1>1. Apply!Review \/ Apply!ClickNext
  BY DEF Apply!Next, Apply!vars, Apply!LookAtPage, Apply!MeetStop, Apply!StepLimit, Apply!SelectResume,
         Apply!Answer, Apply!FillQuestion, Apply!EndAnswers, Apply!Raise
<1>2. sent \in BOOLEAN
  BY DEF Apply!TypeOK
<1>3. CASE Apply!Review
  BY <1>2, <1>3
  DEF Apply!Review, Apply!SubmitOr, Apply!ShowsExpected, Apply!Page, Apply!Reviewed, Apply!asked, Sending
<1>4. CASE Apply!ClickNext
  BY <1>2, <1>4, FormFacts
  DEF Apply!ClickNext, Apply!SubmitOr, Apply!ShowsExpected, Apply!Page, Apply!Reviewed, Apply!asked
<1> QED BY <1>1, <1>3, <1>4

\* What is unread changes only when the questions are asked for, before the form is sent.
LEMMA UnreadStep ==
  ASSUME Apply!TypeOK, [Apply!Next]_Apply!vars, NEW n \in 1..Len(form), Filled(n),
         Apply!Answer => n # page \/ sent, form' = form
  PROVE  Filled(n)'
<1>1. n \in unread => n \in unread'
  BY DEF Apply!Next, Apply!vars, Apply!asked, Apply!LookAtPage, Apply!MeetStop, Apply!StepLimit, Apply!Review,
         Apply!SelectResume, Apply!Answer, Apply!FillQuestion, Apply!EndAnswers, Apply!ClickNext, Apply!Raise
<1>2. ASSUME NEW c \in 1..Len(form[n].controls), value[n][c] # Apply!Empty PROVE value'[n][c] # Apply!Empty
  BY <1>2, KeepsAnswers
<1>3. Apply!Empty' = Apply!Empty /\ \A q : Apply!Unknown(q)' = Apply!Unknown(q)
  BY DEF Apply!Empty, Apply!Unknown
<1> QED BY <1>1, <1>2, <1>3 DEF Filled

LEMMA SendingStep == Apply!TypeOK /\ Sending /\ [Apply!Next]_Apply!vars => Sending'
<1> SUFFICES ASSUME Apply!TypeOK, Sending, [Apply!Next]_Apply!vars PROVE Sending'
  OBVIOUS
<1>0. form' = form
  BY DEF Apply!Next, Apply!vars, Apply!LookAtPage, Apply!MeetStop, Apply!StepLimit, Apply!Review,
         Apply!SelectResume, Apply!Answer, Apply!FillQuestion, Apply!EndAnswers, Apply!ClickNext, Apply!Raise
<1>00. Apply!Reviewed' = Apply!Reviewed /\ Apply!Empty' = Apply!Empty
       /\ \A q : Apply!Unknown(q)' = Apply!Unknown(q)
  BY <1>0 DEF Apply!Reviewed, Apply!Unknown, Apply!Empty
<1> SUFFICES ASSUME Apply!Reviewed PROVE Sending'
  BY <1>00 DEF Sending
<1>a. /\ Len(form) \in Nat /\ page \in 1..Len(form) /\ sent \in BOOLEAN
      /\ \A n \in 1..Len(form) : form[n].submit <=> n = Len(form)
  BY FormFacts DEF Apply!TypeOK
<1>b. ASSUME NEW n \in 1..Len(form), n = Len(form) PROVE Filled(n)'
  BY <1>0, <1>00, <1>b DEF Filled, Apply!Reviewed
<1>1. ASSUME ~sent', NEW n \in 1..Len(form), n < page' \/ n = Len(form) PROVE Filled(n)'
  <2>1. ~sent
    BY <1>1, <1>a, SubmitEffect
  <2>2. CASE n < page
    <3>1. Apply!Answer => n # page
      BY <1>a, <2>2
    <3> QED BY <1>0, <2>1, <2>2, <3>1, UnreadStep DEF Sending
  <2>3. CASE n = page /\ page' = page + 1 /\ Apply!ClickNext
    <3>1. Filled(n) /\ ~Apply!Answer
      BY <2>1, <2>3 DEF Sending, Apply!ClickNext, Apply!Answer
    <3> QED BY <1>0, <3>1, UnreadStep
  <2>4. page' = page \/ (page' = page + 1 /\ Apply!ClickNext)
    BY DEF Apply!Next, Apply!vars, Apply!LookAtPage, Apply!MeetStop, Apply!StepLimit, Apply!Review,
        Apply!SelectResume, Apply!Answer, Apply!FillQuestion, Apply!EndAnswers, Apply!ClickNext, Apply!Raise
  <2> QED BY <1>1, <1>a, <1>b, <2>2, <2>3, <2>4
<1>2. ASSUME formPc' = "next", ~sent' PROVE Filled(page)'
  <2>0. ~sent
    BY <1>2, <1>a, SubmitEffect
  <2>1. CASE UNCHANGED Apply!vars
    BY <1>2, <1>a, <2>0, <2>1, UnreadStep DEF Apply!vars, Apply!asked, Sending, Filled, Apply!Unknown, Apply!Empty
  <2>2. CASE Apply!EndAnswers
    <3>1. open = {} /\ gaps = {} /\ formPc = "fill" /\ UNCHANGED <<value, page, unread>>
      BY <1>2, <2>2 DEF Apply!EndAnswers, Apply!LeftOpen, Apply!End, Apply!GoTo, Apply!asked
    <3>2. Filled(page)
      BY <2>0, <3>1 DEF Sending, Filled
    <3> QED BY <1>0, <1>00, <3>1, <3>2 DEF Filled
  <2> QED
    BY <1>2, <2>1, <2>2
    DEF Apply!Next, Apply!LookAtPage, Apply!MeetStop, Apply!StepLimit, Apply!Review,
        Apply!SelectResume, Apply!Answer, Apply!FillQuestion, Apply!ClickNext, Apply!SubmitOr,
        Apply!Raise, Apply!End, Apply!GoTo
<1>3. ASSUME formPc' = "fill", open' = {}, ~sent', page' \notin unread', NEW c \in 1..Len(form[page'].controls),
             Apply!Unknown(form[page'].controls[c])
      PROVE  value'[page'][c] # Apply!Empty \/ c \in gaps'
  <2>0. ~sent
    BY <1>3, <1>a, SubmitEffect
  <2>1. CASE Apply!Answer
    <3>1. gaps' = Apply!Gaps(page) /\ UNCHANGED <<page, value>>
      BY <1>3, <1>a, <2>0, <2>1 DEF Apply!Answer
    <3> QED BY <1>3, <3>1 DEF Apply!Gaps, Apply!Missing, Apply!Unknown
  <2>2. ASSUME NEW d \in gaps, Apply!FillQuestion(d)
        PROVE  value'[page'][c] # Apply!Empty \/ c \in gaps'
    <3>1. page' = page /\ gaps' = gaps \ {d} /\ formPc = "fill" /\ unread' = unread
      BY <2>2 DEF Apply!FillQuestion
    <3>2. open = {}
      BY <1>3, <2>2, Filling
    <3>3. c # d
      BY <1>3, <2>2, <3>1, FillSending
    <3>4. value[page][c] # Apply!Empty \/ c \in gaps
      BY <1>3, <2>0, <3>1, <3>2 DEF Sending
    <3> QED BY <1>3, <1>a, <3>1, <3>3, <3>4, KeepsAnswers
  <2>3. CASE UNCHANGED Apply!vars
    BY <1>3, <2>0, <2>3 DEF Apply!vars, Apply!asked, Sending
  <2> QED
    BY <1>3, <2>1, <2>2, <2>3
    DEF Apply!Next, Apply!LookAtPage, Apply!MeetStop, Apply!StepLimit, Apply!Review,
        Apply!SelectResume, Apply!EndAnswers, Apply!ClickNext, Apply!SubmitOr, Apply!Raise, Apply!End, Apply!GoTo
<1>4. ASSUME sent' PROVE resume' = "expected" /\ \A n \in 1..Len(form) : Filled(n)'
  <2>1. CASE sent
    <3>1. resume' = "expected"
      BY <2>1 DEF Sending, Apply!Next, Apply!vars, Apply!LookAtPage, Apply!MeetStop, Apply!StepLimit, Apply!Review,
        Apply!SelectResume, Apply!Answer, Apply!FillQuestion, Apply!EndAnswers, Apply!ClickNext, Apply!Raise
    <3>2. ASSUME NEW n \in 1..Len(form) PROVE Filled(n)'
      BY <1>0, <2>1, UnreadStep DEF Sending
    <3> QED BY <3>1, <3>2
  <2>2. CASE ~sent
    <3>1. /\ formPc \in {"review", "next"} /\ page = Len(form) /\ resume' = "expected"
      BY <1>4, <2>2, SubmitEffect
    <3>2. ASSUME NEW n \in 1..Len(form) PROVE Filled(n)'
      <4>1. n < page \/ n = Len(form)
        BY <1>a, <3>1
      <4>2. Filled(n) /\ ~Apply!Answer
        BY <2>2, <3>1, <4>1 DEF Sending, Apply!Answer
      <4> QED BY <1>0, <4>2, UnreadStep
    <3> QED BY <3>1, <3>2
  <2> QED BY <1>a, <2>1, <2>2
<1>5. ASSUME formPc' = "review" PROVE page' = Len(form)
  BY <1>a, <1>5
  DEF Sending, Apply!Next, Apply!vars, Apply!LookAtPage, Apply!MeetStop, Apply!StepLimit,
      Apply!Review, Apply!SelectResume, Apply!Answer, Apply!FillQuestion, Apply!EndAnswers,
      Apply!ClickNext, Apply!Raise, Apply!SubmitOr, Apply!End, Apply!GoTo, Apply!Page
<1>6. ~sent' => \A n \in 1..Len(form') : n < page' \/ n = Len(form') => Filled(n)'
  BY <1>0, <1>1
<1>7. sent' => resume' = "expected" /\ \A n \in 1..Len(form') : Filled(n)'
  BY <1>0, <1>4
<1> QED
  BY <1>0, <1>00, <1>2, <1>3, <1>5, <1>6, <1>7 DEF Sending

\* What LinkedIn gets after a review leaves no required question empty that nothing
\* answers, on any page whose questions could be read, and has the expected resume, for
\* any form, though LinkedIn lets incomplete pages go, clicks land unnoticed and uploads
\* fail (linkedin_worker.py:16, 384).
THEOREM SentAsPromised == Apply!Spec => []SubmitsAsPromised
<1>1. ASSUME Apply!TypeOK, Sending PROVE Apply!SubmitsAsPromised
  <2>1. Apply!Reviewed => Apply!SentWithExpected
    BY <1>1 DEF Sending, Apply!SentWithExpected
  <2>2. Apply!Reviewed => Apply!NeverSubmitsUnknown
    BY <1>1 DEF Sending, Filled, Apply!NeverSubmitsUnknown
  <2> QED BY <2>1, <2>2 DEF Apply!SubmitsAsPromised
<1>2. Apply!TypeOK /\ Sending => Apply!SubmitsAsPromised
  BY <1>1
<1> QED
  BY <1>2, FormTypeInit, FormTypeStep, SendingInit, SendingStep, PTL
  DEF Apply!Spec, SubmitsAsPromised
=============================================================================
