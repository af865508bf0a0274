------------------------------ MODULE SendMan ------------------------------
(***************************************************************************)
(* services/SendMan: run_unlocked.sh starts linkedin_message_outreach.py   *)
(* again and again until the day's target is reached; each run reads the   *)
(* names in LinkedIn's messaging list, goes through the people searches    *)
(* page by page and sends a message to everybody it has not dealt with.    *)
(*                                                                         *)
(* run.sh holds the runtime lock (RuntimeLock.tla), so one loop runs at a  *)
(* time.  A run here has neither --dry-run, --self-test nor                *)
(* --skip-dialog-scan, as the wrapper starts it.  save_json renames a      *)
(* finished file, so the state file is always one complete state.          *)
(***************************************************************************)
EXTENDS Integers, FiniteSets

CONSTANTS
  People,
  NameOf,          \* the full name on a person's profile
  Unlisted,        \* people whose dialog the scan of the messaging list misses
  NoOne,
  Searches,        \* number of people searches (--job all: three)
  Target,          \* LINKEDIN_MESSAGE_MAX_MESSAGES, the day's target
  Earlier,         \* messages to others already in the log of the first day
  MaxPerJob,       \* --max-per-job
  MaxPages,        \* bound: --max-pages; the default, 0, is "all"
  MaxBlockRetries, \* LINKEDIN_MESSAGE_MAX_BLOCK_RETRIES; 0 is "no limit"
  StopsShown,      \* the stops LinkedIn may show
  FaultyStart,     \* may python end before it has written the status file?
  MaxDay,          \* bound: days
  CountCap         \* bound: messages counted per person

ASSUME PeopleAssumption == NoOne \notin People /\ Unlisted \subseteq People
                           /\ IsFiniteSet(People)
ASSUME NumberAssumption ==
  /\ Searches \in Nat \ {0} /\ Target \in Nat /\ MaxPerJob \in Nat
  /\ MaxPages \in Nat /\ MaxBlockRetries \in Nat /\ MaxDay \in Nat \ {0}
  /\ CountCap \in Nat \ {0} /\ Earlier \in 0..Target
ASSUME FlagAssumption == FaultyStart \in BOOLEAN /\ StopsShown \subseteq {"blocked", "inmail"}

VARIABLES
  day,          \* today
  shown,        \* the stop LinkedIn shows on the pages it serves, or "none"
  delivered,    \* messages a person received
  late,         \* Send clicks since the present stop was shown
  sent, skipped,\* state file: sent_profiles; skipped_profiles with a cached reason
  stopReason,   \* status file: stop_reason
  log,          \* weekly log: "sent" records, per day
  pc,           \* where the loop or its python run is
  loop,         \* the wrapper's already_sent and block_retries, and how it ended
  run           \* the python run: its arguments, counters and cursor

world == <<delivered, late>>
files == <<sent, skipped, stopReason, log>>
vars == <<day, shown, world, files, pc, loop, run>>

----------------------------------------------------------------------------
Day == 1..MaxDay
RunPoints == {"scan", "search", "page", "candidate", "profile", "compose", "clicked", "sent"}
Points == {"idle", "loop", "start", "ended"} \cup RunPoints
StopReasons == {"none", "inmail", "blocked", "login", "error", "completed"}

\* What send_message_to_candidate reports: sent, a failure already_processed
\* will recognise, or one it will not ("message_editor_fill_failed").
Results == {"ok", "cached", "uncached"}

\* remaining, job, pageNo: --max-messages, the search and its page; total and
\* forJob: sent_count, sent_for_job; todo, cur: the page's candidates;
\* dialogs: the names not to write to; code: the exit code.
Run == [remaining : Nat, total : Nat, forJob : Nat, job : Nat, pageNo : Nat,
        todo : SUBSET People, cur : People \cup {NoOne}, result : Results,
        dialogs : SUBSET {NameOf[p] : p \in People}, code : {0, 1, 11, 12, 14}]

Loop == [before : Nat, retries : Nat,
         ended : {"none", "target", "limit", "blocks", "error", "nothing"}]

\* Types; and nobody is in the state file both as written to and as skipped for
\* good (record_skip, already_processed).
TypeOK ==
  /\ sent \cap skipped = {}
  /\ day \in Day /\ shown \in {"none"} \cup StopsShown
  /\ delivered \in [People -> Nat] /\ late \in Nat
  /\ sent \subseteq People /\ skipped \subseteq People
  /\ stopReason \in StopReasons /\ log \in [Day -> Nat]
  /\ pc \in Points /\ loop \in Loop /\ run \in Run

NewRun(n) ==
  [remaining |-> n, total |-> 0, forJob |-> 0, job |-> 1, pageNo |-> 0, todo |-> {},
   cur |-> NoOne, result |-> "ok", dialogs |-> {}, code |-> 0]

Init ==
  /\ day = 1 /\ shown = "none" /\ late = 0
  /\ delivered = [p \in People |-> 0]
  /\ sent = {} /\ skipped = {} /\ stopReason = "none"
  /\ log = [d \in Day |-> IF d = 1 THEN Earlier ELSE 0]
  /\ pc = "idle" /\ run = NewRun(0)
  /\ loop = [before |-> 0, retries |-> 0, ended |-> "none"]

----------------------------------------------------------------------------
(* The wrapper's loop.                                                     *)

StartLoop ==
  /\ pc = "idle" /\ pc' = "loop"
  /\ loop' = [before |-> 0, retries |-> 0, ended |-> "none"]
  /\ UNCHANGED <<day, shown, world, files, run>>

Finish(how) ==
  /\ pc' = "idle" /\ loop' = [loop EXCEPT !.ended = how]

\* Mutant: every run gets the whole of the day's target.
RemainingWhole(sentToday) == Target

\* remaining=$(( TARGET - already_sent ))
Remaining(sentToday) == Target - sentToday

CheckTarget ==
  /\ pc = "loop"
  /\ IF Remaining(log[day]) <= 0
     THEN Finish("target") /\ UNCHANGED run
     ELSE /\ pc' = "start"
          /\ loop' = [loop EXCEPT !.before = log[day]]
          /\ run' = NewRun(Remaining(log[day]))
  /\ UNCHANGED <<day, shown, world, files>>

\* block_retries=$(( block_retries + 1 ))
Tries(retries) == retries + 1

\* [ "$MAX_BLOCK_RETRIES" -gt 0 ] && [ "$block_retries" -gt "$MAX_BLOCK_RETRIES" ]
GivesUp(retries) == MaxBlockRetries > 0 /\ retries > MaxBlockRetries

\* What the wrapper makes of a run: the target first, then the status file,
\* and only then the exit code.
AfterRun ==
  /\ pc = "ended"
  /\ LET tries == Tries(loop.retries)
     IN CASE log[day] >= Target -> Finish("target")
          [] log[day] < Target /\ stopReason = "inmail" -> Finish("limit")
          [] log[day] < Target /\ stopReason # "inmail" /\ run.code = 12 ->
               IF GivesUp(tries) THEN Finish("blocks")
               ELSE /\ pc' = "loop"
                    /\ loop' = [loop EXCEPT !.retries = IF MaxBlockRetries = 0 THEN 0 ELSE tries]
          [] log[day] < Target /\ stopReason # "inmail" /\ run.code \notin {0, 12} ->
               Finish("error")
          [] OTHER -> IF log[day] = loop.before THEN Finish("nothing")
                      ELSE pc' = "loop" /\ UNCHANGED loop
  /\ UNCHANGED <<day, shown, world, files, run>>

----------------------------------------------------------------------------
(* How a run ends.                                                         *)

\* SystemExit(code) with its reason in the status file.
Exit(code, reason) ==
  /\ pc' = "ended" /\ stopReason' = reason
  /\ run' = [run EXCEPT !.code = code]
  /\ UNCHANGED <<day, shown, world, sent, skipped, log, loop>>

\* main: any other exception ends the run with 14.
Fail == Exit(14, "error")

\* Mutant: of the stops only the InMail limit is recognised.
StopSeenInMail(stop) == stop = "inmail"

\* detect_inmail_limit or detect_stop finds the stop on a page that shows it.
StopSeen(stop) == stop # "none"

\* assert_no_stop found something: the InMail limit is a success.
Stop == IF shown = "inmail" THEN Exit(0, "inmail") ELSE Exit(12, "blocked")

\* assert_no_stop on a page loaded just now.
Checked(next) == IF StopSeen(shown) THEN Stop ELSE next

----------------------------------------------------------------------------
(* The run.                                                                *)

\* run: make_status and its save, then the browser: it must answer, with one
\* persistent context.
Start ==
  /\ pc = "start"
  /\ \/ /\ FaultyStart
        /\ pc' = "ended" /\ run' = [run EXCEPT !.code = 1]
        /\ UNCHANGED <<files>>
     \/ /\ pc' = "scan" /\ stopReason' = "none"
        /\ UNCHANGED <<run, sent, skipped, log>>
     \/ /\ pc' = "ended" /\ stopReason' = "login" /\ run' = [run EXCEPT !.code = 11]
        /\ UNCHANGED <<sent, skipped, log>>
  /\ UNCHANGED <<day, shown, world, loop>>

\* extract_dialog_names_from_dom while the list is scrolled: it takes names of
\* two to five words only, and a profile's name may have another number.
DialogNames == {NameOf[p] : p \in {q \in People : delivered[q] > 0} \ Unlisted}

\* Mutant: the messaging list is not read.
ScannedNone == {}

\* scan_dialog_stoplist's result for this run.
Scanned == DialogNames

Scan ==
  /\ pc = "scan"
  /\ \/ Checked(/\ pc' = "search" /\ run' = [run EXCEPT !.dialogs = Scanned]
                /\ UNCHANGED <<day, shown, world, files, loop>>)
     \/ Checked(Exit(11, "login"))
     \/ Fail

OpenSearch ==
  /\ pc = "search"
  /\ \/ Checked(/\ pc' = "page" /\ run' = [run EXCEPT !.forJob = 0, !.pageNo = 0]
                /\ UNCHANGED <<day, shown, world, files, loop>>)
     \/ Fail

Capped == run.forJob >= MaxPerJob \/ run.total >= run.remaining

\* process_search returned: the next search, or the end of the run.
EndSearch ==
  IF run.job < Searches /\ run.total < run.remaining
  THEN /\ pc' = "search" /\ run' = [run EXCEPT !.job = @ + 1, !.todo = {}]
       /\ UNCHANGED <<day, shown, world, files, loop>>
  ELSE Exit(0, "completed")

\* collect_search_candidates: a page shows some people, each once.
LoadPage ==
  /\ pc = "page"
  /\ IF Capped \/ run.pageNo >= MaxPages THEN EndSearch
     ELSE \/ \E found \in SUBSET People :
               Checked(/\ pc' = "candidate"
                       /\ run' = [run EXCEPT !.pageNo = @ + 1, !.todo = found]
                       /\ UNCHANGED <<day, shown, world, files, loop>>)
          \/ Fail

\* click_next_page: it may find no next page.
NextPage ==
  /\ pc = "candidate" /\ (Capped \/ run.todo = {})
  /\ IF Capped \/ run.pageNo >= MaxPages THEN EndSearch
     ELSE \/ Checked(\/ pc' = "page" /\ UNCHANGED <<day, shown, world, files, loop, run>>
                     \/ EndSearch)
          \/ Fail

\* already_processed: by profile, by full name, by a cached skip.
AlreadyProcessed(p) ==
  p \in sent \/ NameOf[p] \in {NameOf[q] : q \in sent} \/ p \in skipped

NextCandidate(p) ==
  /\ pc = "candidate" /\ ~Capped /\ p \in run.todo
  /\ run' = [run EXCEPT !.todo = @ \ {p}, !.cur = p]
  /\ pc' = IF AlreadyProcessed(p) THEN "candidate" ELSE "profile"
  /\ UNCHANGED <<day, shown, world, files, loop>>

\* record_skip and save_state: only a reason in already_processed's list is a
\* cached one ("candidate_error" and "blocked_first_name:x" are not).
Skip(cached) ==
  /\ pc' = "candidate"
  /\ skipped' = IF cached THEN skipped \cup {run.cur} ELSE skipped
  /\ UNCHANGED <<day, shown, world, sent, stopReason, log, loop, run>>

\* evaluate_candidate, has_message_button: a name in the stop-list is skipped;
\* anybody may be, for a name, a place or a missing button.
Profile ==
  /\ pc = "profile"
  /\ \/ Skip(FALSE)
     \/ Checked(
          \/ Skip(TRUE)
          \/ Skip(FALSE)
          \/ /\ NameOf[run.cur] \notin run.dialogs
             /\ pc' = "compose"
             /\ UNCHANGED <<day, shown, world, files, loop, run>>)

\* send_message_to_candidate before the click: no compose box, no editor, a
\* subject that does not stay.
ComposeFails ==
  /\ pc = "compose" /\ pc' = "clicked"
  /\ \E r \in Results \ {"ok"} : run' = [run EXCEPT !.result = r]
  /\ UNCHANGED <<day, shown, world, files, loop>>

\* click_send_message: whether the message goes out and whether the box looks
\* closed afterwards are two things.
ClickSend ==
  /\ pc = "compose" /\ pc' = "clicked"
  /\ \E n \in {0, 1}, r \in Results \ {"uncached"} :
       /\ delivered' = [delivered EXCEPT ![run.cur] = IF @ < CountCap THEN @ + n ELSE @]
       /\ run' = [run EXCEPT !.result = r]
  /\ late' = IF shown = "none" THEN late ELSE late + 1
  /\ UNCHANGED <<day, shown, files, loop>>

\* A stop right after the click: the run ends, and a message that went out is
\* recorded nowhere.
StopAfterClick ==
  /\ pc = "clicked" /\ StopSeen(shown) /\ Stop

SkipAfterCompose ==
  /\ pc = "clicked" /\ run.result # "ok"
  /\ Skip(run.result = "cached")

\* The state file is saved with the new person; the log follows.
SaveSent ==
  /\ pc = "clicked" /\ run.result = "ok" /\ pc' = "sent"
  /\ sent' = sent \cup {run.cur}
  /\ run' = [run EXCEPT !.total = @ + 1, !.forJob = @ + 1,
                        !.dialogs = @ \cup {NameOf[run.cur]}]
  /\ UNCHANGED <<day, shown, world, skipped, stopReason, log, loop>>

AppendSent ==
  /\ pc = "sent" /\ pc' = "candidate"
  /\ log' = [log EXCEPT ![day] = @ + 1]
  /\ UNCHANGED <<day, shown, world, sent, skipped, stopReason, loop, run>>

----------------------------------------------------------------------------
(* The world.                                                              *)

\* The container is stopped, or the scheduler kills the worker.
Crash ==
  /\ pc # "idle" /\ pc' = "idle"
  /\ UNCHANGED <<day, shown, world, files, loop, run>>

\* LinkedIn starts to show a stop; later it shows it no more.
ShowStop(stop) ==
  /\ shown = "none" /\ shown' = stop /\ late' = 0
  /\ UNCHANGED <<day, delivered, files, pc, loop, run>>

LiftStop ==
  /\ shown # "none" /\ shown' = "none" /\ late' = 0
  /\ UNCHANGED <<day, delivered, files, pc, loop, run>>

Midnight ==
  /\ day < MaxDay /\ day' = day + 1
  /\ UNCHANGED <<shown, world, files, pc, loop, run>>

----------------------------------------------------------------------------
RunStep ==
  \/ Start \/ Scan \/ OpenSearch \/ LoadPage \/ NextPage
  \/ \E p \in People : NextCandidate(p)
  \/ Profile \/ ComposeFails \/ ClickSend
  \/ StopAfterClick \/ SkipAfterCompose \/ SaveSent \/ AppendSent

LoopStep == CheckTarget \/ AfterRun \/ RunStep

Next ==
  \/ StartLoop \/ LoopStep \/ Crash
  \/ \E stop \in StopsShown : ShowStop(stop)
  \/ LiftStop \/ Midnight

Spec == Init /\ [][Next]_vars

----------------------------------------------------------------------------
(* Properties.                                                             *)

\* The log never shows more messages on a day than the day's target, across
\* retries, restarts and runs that go past midnight (run_unlocked.sh:59-71).
RecordedUnderTarget == \A d \in Day : log[d] <= Target

\* "Stops immediately": one click at most is made after LinkedIn began to show
\* a stop (linkedin_message_outreach.py:8, assert_no_stop at every load).
StopHalts == late <= 1

\* The people whose dialog the scan of the messaging list shows.
Listed == People \ Unlisted

Promise == INSTANCE Outreach WITH
  Targets <- Listed, acted <- [p \in Listed |-> delivered[p]],
  noted <- (sent \cup skipped) \ Unlisted

\* Nobody whose dialog the messaging list shows is written to twice, through
\* stops, crashes, retries and unconfirmed sends: Outreach.
ImplementsOutreach == Promise!OutreachSpec
=============================================================================
