# TLA+ models of the LinkedIn workers

This directory holds TLA+ models of the programs in this repository, the TLC
runs that check them and the TLAPS proofs about them. `PROJECT.json` lists every
component, run, theorem and hazard, and maps each definition to the lines of
code it translates.

## 1. The system

Several unattended workers drive one LinkedIn account through one Chromium. The
account is at risk if two of them act at the same time, if something is done
twice, or if a safety stop is not respected; the code's job is to prevent that
through process boundaries, timeouts, crashes and a slow web page.

| Component | State it keeps | Operations | Talks to |
| --- | --- | --- | --- |
| Runtime lock (`scripts/linkedin_runtime_lock.py`, five identical copies in the services) | an flock on a file of a shared volume, the text in it, the child's process group | open, poll, take, start the child, forward TERM/INT, wait, close | every worker's `run.sh`; killed by the scheduler's cleanup |
| Central scheduler (`scripts/linkedin_scheduler.py`, `scripts/launchd/`) | `state.json`: last attempt and history per task; a host lock | `run-due` (each minute), `run-all`, `plan`, `status` | `docker compose exec` of each worker's `run.sh` |
| Commentator (`services/Commentator`) | `state.json`: items with decision, attempts, Telegram status; the Telegram offset | poll the owner's buttons, publish approved replies, ask about new comments | Telegram, LinkedIn, the owner |
| SendMan (`services/SendMan`) | state file of people written to or skipped, weekly log, status file | the wrapper's loop up to the day's target; messages to people found by searches | LinkedIn |
| ConnectMan (`services/ConnectMan`) | the status of a run: sent, skipped, errors | invitations from search pages, directly or after a look at the profile | LinkedIn |
| PostLiker (`services/PostLiker`) | run directories with `status.json` | the wrapper's loop up to the day's target; reactions to posts of the feed, then their verification | LinkedIn |
| JobSeeker (`services/JobSeeker`) | extracted lists and progress files per label | quota runner over labels, extractor, worker, one Easy Apply form after the other | LinkedIn |
| LinkedIn browser (`services/LinkedInBrowser`) | the exported session; the CDP proxy's connections | CDP proxying, login check and export | all workers |
| Status bot (`scripts/hermes_container_status_bot.py`) | daily and weekly ledgers | a report every morning, a weekly sum on Mondays | the services' logs and files, Telegram |
| Its launchd wrappers (`scripts/launchd/hermes_stats_launchd_*.sh`) | a lock directory with a pid, a status file | start the bot once, with a timeout | launchd, the bot |
| Hermes watchdog and repair (`scripts/hermes_zero_*.py`) | markers of repairs that were started | find services without output, mark them, spawn a runner | the bot's collection, Telegram, Hermes |
| `hirehi/`, `data/state/`, compose and installation files | none of their own | one-off scripts, old copies, configuration | - |

What is hard here: the lock is held by a wrapper process and not by the worker
it protects; the scheduler learns of a worker's end only if it lives to write it
down; a pass goes past midnight while the rules speak of days; an action on
LinkedIn and the record of it are two steps with a stop, an exception or a crash
between them; a page is looked at, changes, and is clicked; Telegram delivers
again or loses answers; state is read once and written late; files are counted
under two clocks. The hazards with their lines are in `PROJECT.json`.

## 2. Modules

| Module | Models | State in the model and in the code |
| --- | --- | --- |
| `RuntimeLock` | one wrapper process per element of `Wrappers` | `pc` = the place in `main` and `_run_child`; `lock` = the kernel's flock; `owner` = the file's text; `pending` = `_pending_signal`; `group`, `signalled` and `alone` = the worker's process group (bash, which leads it, and the python that drives the browser), whom a forwarded signal reached, and whether one met the leader only |
| `Scheduler` | the scheduler's passes, the time, the runtime lock as the scheduler sees it | `file` = `state.json`; `pc`, `queue`, `cur`, `result`, `nowDay` = `main` and `run_queue`; `busy` = the runtime lock is held by a worker no pass waits for, which may stay for ever; `ledger` = all executions ever recorded, which the file may forget |
| `ReplyLifecycle` | what the Commentator promises, seen from outside | `stage`, `attempts`, `posted` per comment |
| `Commentator` | the runs of the Commentator, Telegram, LinkedIn and the owner | `disk` = `state.json`, `mem` = a run's copy, `pc` = the place in `run`, `updates` and `confirmed` = Telegram, `sent` and `replies` = what the owner and LinkedIn received, `byHand` = comments that a person answered |
| `Outreach` | what a worker that approaches people promises: each at most once | `acted`, `noted` per target |
| `SendMan` | `run_unlocked.sh`'s loop and a run of `linkedin_message_outreach.py` | `sent`, `skipped`, `log`, `stopReason` = the files; `loop` = the wrapper's variables; `run` = the counters, the cursor and the names read from the messaging list; `delivered`, `shown` = LinkedIn |
| `ConnectMan` | a run of `linkedin_outreach.py`, standard or soft-recruiter | `st` = the status; `found` = the coordinates read from a page; `layout`, `modal`, `coming` = whose button is at a place, whose dialog is open, and whose was asked for and is still to open; `stray` = a dialog has outlived its candidate; `fresh` = the run's invitations |
| `PostLiker` | `run_unlocked.sh`'s loop and a run of `linkedin_like_posts.py` | `counted` = the verified entries of the `status.json` files, per day of their directory; `run` = the posts in the DOM, keys, address, labels, entries; `reaction` = LinkedIn, `blind` = posts with a reaction the program did not see; `utc`, `local`, `behind` = the two dates and the zone; `Matches` = whether one post's key finds another's button |
| `JobSeeker` | `jobseeker_quota_runner.py` and its workers | `progress` = the progress files; `runner`, `worker` = the two programs; `submitted` = LinkedIn; `late` = jobs whose page was read before it said that they are applied for |
| `EasyApply` | `process_record` of `linkedin_worker.py` on one form | `form`, `value`, `ticked`, `resume` = the form; `gaps`, `open` = the loop over its required questions and `unresolved`; `unread` = pages whose questions were read as none; `steps`, `pc`, `outcome` = the loop over pages |
| `HermesStats` | the daily and the weekly reports of the status bot | `daily`, `weekly` = the ledgers; `report` = a weekly report that is being made; `acts` = what a service did, with the start of its run and the run's mode; `printed`, `progress` = what ConnectMan's log and JobSeeker's files record of it |
| `Watchdog` | the watchdogs and the repair runners | `markers`, `watchdog`, `runners`; `skipped` = what was said to have been launched |
| `StatsWrapper` | the status bot's launchd wrappers | `dir`, `pidIn`, `stamped` = the lock directory and its two files; `found` = `existing_pid`; `rm`, `left` = an `rm -rf` at work, one system call a step; `trap` = the cleanup of a signal or of the exit; `bot` |
| `CentralAuth` | runs of `central_auth.py` | `tmp`, `backup` = which file has the two names; `content` = what is in each; `page` = the helper's page in the shared browser, `stuck` if it could not be closed; `hidden` = helpers whose page did not show that it was a wall |
| `CdpProxy` | one connection through `cdp_proxy.py` | `sock`, `inbox`, `outbox`, `err` = the two asyncio transports; `handler`, `pipe` = `handle_client` and the two pipes; `peer` = the client and Chromium |
| `MCRuntimeLock`, `MCStatsWrapper` | instances under a name (`Lock`, `Wrap`), so that one module of theorems can speak of them beside another component | `point` = `pc`, `happened` = `mishaps` |
| `MCCommentator`, `MCSendMan`, `MCConnectMan`, `MCPostLiker` | instances | symmetry, sets, a history variable |
| `MCJobSeeker`, `MCHermesStats`, `MCBrowser` | two or three programs that share no variable, in one run each | `part` says which of them a behaviour follows (`Half`, `Part`); the others rest in one of their initial states |
| `Scheduler_proofs` | theorems about `Scheduler`, and about `RuntimeLock` as `Lock!` | |
| `Hermes_proofs` | theorems about `HermesStats`, `Watchdog` as `Dog!` and `StatsWrapper` as `Wrap!` | |
| `Browser_proofs` | theorems about `CentralAuth` and `CdpProxy` (`Proxy!`) | |
| `Commentator_proofs`, `SendMan_proofs`, `ConnectMan_proofs`, `PostLiker_proofs` | theorems about one component each | |
| `JobSeeker_proofs` | theorems about `JobSeeker`, and about `EasyApply` as `Apply!` | |

How they meet. The scheduler starts a worker through the wrapper and sees a busy
lock as exit code 0 with a message (`LaunchBusy`). In `Scheduler` the lock is the
condition `~busy`, which is what the theorem `MutualExclusion` of `RuntimeLock`
licenses as long as no worker is left behind: by SIGKILL of its wrapper, or by a
signal that meets its leading script alone. The workers run under the
lock, so each worker's module has one run (or loop) at a time, which may be
killed at every point; `Commentator` has several runs when `Exclusive` is FALSE.
`JobSeeker` knows a form by its outcome, which `EasyApply` finds out page by page;
the watchdog knows the bot's collection by which output is zero.

An action is one whole step of the program between two points at which another
process, LinkedIn or a signal can disturb it. `Scheduler!RecordOutcome`, for
example, is the `finish_attempt` call, the write of the state file and the
decision to go on or stop; `SendMan!SaveSent` is the entry in the state with its
save, and `AppendSent`, a step of its own because a run may die between them, the
record in the log.

`TypeOK` in each module documents its variables. Theorems establish it
(`TypeCorrect`, `LockTypes`, `HermesTypes`, `DogTypes`, `WrapTypes`, `FormTypes`); that
of `CdpProxy` is part of an invariant. The runs spend their time on the properties
below.

## 3. Runs

| Run | Bounds | Shows |
| --- | --- | --- |
| `lock` | 2 wrappers, 2 processes per worker, 1 poll, TERM, INT and SIGKILL at every point | processes of two workers, leading script or browser driver, are alive together only if one worker was left behind (SIGKILL of its wrapper; a signal that met its leader alone; a forwarded signal on its way to all that is left of it); a signal caught early reaches the whole group; a signalled wrapper ends and its lock is free |
| `scheduler_daily` | PostLiker and JobSeeker, 2 days of 2 slots, both commands, a history of 1 | once a day; blocks are respected; due until executed |
| `scheduler_week` | ConnectMan and JobSeeker, a Saturday to the Monday after it, a history of 1 | ConnectMan does not run in a week in which it completed; a due task is executed, unless a worker that nobody waits for keeps the lock for ever |
| `commentator` | 2 comments, one of which a person may answer by hand, 2 attempts, `max_items` 1, 2 presses, a crash at every point | only what was approved is posted, and not more often than recorded; no press is lost; "published" is a reply that is there; a second reply needs a death between a click and the next save; `ReplyLifecycle` is implemented |
| `commentator_live` | 2 comments, `max_items` 1, crashes in the publish phase | approvals are settled, failed requests are sent |
| `sendman` | 2 people, one of them never in the messaging list, 2 searches of 2 pages, target 2 with 1 sent before, 2 days | the log stays under the target; one click at most follows a stop; `Outreach` is implemented for those whom the list shows |
| `connectman` | 3 people, one of them not allowed, 2 places, 2 pages, 2 invitations, 2 profile views, both modes; dialogs that open at any later moment, an Escape that fails | standard runs invite allowed people only; entries and invitations account for each other; two clicks at most follow a stop |
| `postliker` | 3 posts, 2 of them by one author, one label that holds another, target 2 with 1 counted before, 2 attempts of 2 rounds, 2 days, both zones, 1 reaction that goes unseen | the day's count keeps to the target; the status files tell no more than happened; no reaction is taken away but where one went unseen |
| `jobseeker` | three settings of 2 to 4 jobs in two overlapping lists, pages read too early; forms of three pages with eight questions of all kinds of controls, and of one page, and pages that cannot be read | no label exceeds its share, no application is counted twice but one that was read too early, the limit holds where nothing is lost; no control holds another question's answer, nothing incomplete is sent but what could not be read |
| `hermes` | each service over 2 weeks of 2 days, 2 actions, reports at any moment of the day, ConnectMan in both modes; a weekly watchdog, 2 services, 2 runners; 3 wrappers, one pid used again by another process | ledgers count what was done in their 24 hours and name what they leave out, share nothing if a day apart; reported weeks stay; a marker stands for one launch; one bot at a time and no lock left, unless something the properties name happened |
| `browser` | 2 helpers; a connection with 4 chunks each way and a buffer of 1 | the backup is whole and of an account that looked signed in; a handler that ends has closed both connections and dropped nothing; a connection that a peer left is given up |
| `browser_fails_closed` | 1 helper; a violation | a wall at the feed's address whose text cannot be read is exported as a success (section 6) |

Why the bounds are enough. In `lock` one wrapper holds and one contends; a group of
two has a leader and a process that outlives it; `MutualExclusion` is proved for any
number. Two slots a day let a pass start before and after a task's hour and go past
midnight; a history of one entry forgets as much after one skip as the real one of
50 does after 50. Two comments suffice for what one comment's step does to another,
two presses for every order of approve and reject, two attempts for a retry and the
limit. SendMan's second person is met with and without the first one's message out;
two searches of two pages let a person be found again in the same run and in a later
one; one message below the target is where a count that misses one matters.
ConnectMan's third person stands where somebody allowed stood; two places let two
people change theirs. Two posts by one author are the case in which a label is not
an address, a third one tells posts by others apart. JobSeeker's lists overlap, so
that both labels meet the same job; two days let a run go past midnight. A dialog
that outlives its candidate needs one more candidate, and a second invitation for
what that one's Send then does. A form's first page has a contact's question, a list
that may not offer the answer or may not say that it is empty, a question of every
other sort (blank, unfit, unknown, a box to tick, a label read for a contact's), and
a radio group that may not offer the answer. Two weeks are the one that was reported
and the one that is; two actions fall on either side of any edge of a window, and of
two runs of ConnectMan's the later one overwrites what the earlier one left. Three
wrappers are one that holds, one that takes over and one that is turned away. Two
helpers meet; with a buffer of one chunk, four let a pipe wait for its drain and
read on.

Some properties have conditions, and each condition is one of the divergences of
section 6: `OneWorkerAtATime` (a worker left behind, `LeftBehind`), `DueIsExecuted`
(the runtime lock is free again and again, `[]<>~busy`), `PostsFollowDecisions`
(replies written by hand, `byHand`), `InvitedAreAllowed` (soft mode),
`EntriesMatchInvitations` (a dialog that outlived its candidate, `stray`),
`CountedUnderTarget` (the zone), `StatusIsTrue` and `NeverUnlikes` (labels that hold
other labels, or an author with several posts of which one shows its address,
`OneButtonEach`; reactions that went unseen, `blind`), `CountedOnce` (pages that were
read too early, `late`), `AppliedUnderLimit` (records that are lost), `AnswersMatch`
(shared labels, labels with a word of the contact defaults, lists that do not say
that they are empty, radio groups without the answer, `OwnPlaces`),
`SubmitsAsPromised` (forms that are sent before a review, `Reviewed`; pages that could
not be read, `unread`; checkboxes), `InOneLedger` (PostLiker, ledgers that are not a
day apart), `LedgersAreTrue` (runs that were overwritten or had begun before,
`LeftOut`), `OneLaunchPerMarker` (daily labels, crashes), `OneBot` (overlaps, signals,
kills), `LockIsFreed` (overlaps, kills), `WholeSnapshot` (overlaps), `SignedInSnapshot`
(the account changes; a wall that does not show, `hidden`), `EndedClean` (a connection
that is lost with an error the proxy does not expect, or is reset).

## 4. Fairness

- `RuntimeLock!Fairness`: the kernel schedules each wrapper, and a worker
  process that got TERM or INT ends, since no worker installs a handler. No
  worker is assumed to end by itself.
- `Scheduler!Fairness`: launchd's loop calls `run-due` for ever
  (`linkedin_scheduler_launchd.sh`), a pass goes on (every wait has a timeout), and
  people run workers by hand and kill the scheduler finitely often. Without the
  last, every attempt may be interrupted. A worker that nobody waits for is not
  assumed to end: with MAX_BLOCK_RETRIES=0, the default, SendMan's loop retries for
  ever (`SendMan/scripts/run_unlocked.sh:22,85-93`), and an error of the cleanup
  that should end it is swallowed (`linkedin_scheduler.py:437`). So `DueIsExecuted`
  is about behaviours in which the runtime lock is free again and again.
- `Commentator!Fairness`: runs come back for ever and go on, publishing is not
  paused for ever (strong fairness of `EndPoll`), a lock gets old, and Telegram
  answers one of infinitely many requests. The service is commented out of
  `docker-compose.yml` and of `TASKS`, so that it is run at all is an assumption
  about its being enabled again. Crashes during the scan are left out of this
  run: a scan that fails every time does keep the file from ever recording what
  the publish loop decided.
- `MCBrowser!MCSpec`: asyncio runs what is ready, a transport is flushed by a peer
  that is up, and Chromium answers a request or closes. No client is assumed to
  send or to close anything.

The other runs state safety only.

## 5. Proofs

Every theorem holds for all values of the constants that satisfy the named
assumptions: for any people, posts, jobs, comments, wrappers, helpers, days and
bounds. `PROJECT.json` names the property each theorem states. A theorem is the
usual three facts: the invariant named here holds initially, every action keeps
it (one lemma per action), and it implies the property. The property alone is
inductive in none of these cases.

**The lock** (`Scheduler_proofs`, `Lock!`): `LockTypes`, `LockHolderCorrect`,
`WorkersRunUnderLock`, `MutualExclusion`, `OwnerTextCorrect`, `PendingForwarded`.
`LockInv` ties the place of each wrapper to the flock and says that a worker's
leader lives only under a wrapper that waits for it or was killed. `GroupInv` is
about the others of its group: a signal that met the leader alone is still
pending and sent again as long as the leader lives, and a leader that was
signalled with its group leaves nobody who was not. Mutual exclusion of all
processes follows, but for workers that were left behind (`LeftBehind`), which is
in the statement of `OneWorkerAtATime`: no theorem assumes that SIGKILL does not
happen.

**The scheduler** (`Scheduler_proofs`): `TypeCorrect`, `ExecutedOncePerDay`,
`OnceAWeek`, `BlockIsRespected`, `DueStays`.

- `DailyInv`: as long as a recorded execution forbids its task to run *today*, the
  file's last attempt of the task is that execution (`Remembered`); and no
  recorded execution forbade the tasks of the pass, waiting or running, on the
  day it was called (`PassAllowed`). The first makes the plan correct although
  the history is cut, the second keeps the first true, since only a task of the
  pass gets a new last attempt. "Forbids" covers the day, the week and the block
  at once (`Forbids`), so the three properties come from one induction. That
  `run-all` is not used is a condition of `CompletedOncePerWeek` itself.
- `DueStays` is an action property: the lemmas `StartedKept`, `RecoveredKept` and
  `LastReplaced` show that whatever is written over a "running" attempt leaves the
  executed attempts as they were, but for the oldest (`Kept`), and `KeptDue` that
  `IsDue` then gives no smaller answer. `Running`, the attempt of the task in hand
  is "running", is its invariant.

**The Commentator** (`Commentator_proofs`): `TypeCorrect`; and, assuming one run at a
time (`Exclusive`; section 6 says what overlapping runs do), `WriteAhead`,
`OnlyApprovedPosted`, `PressesAreKept`, `DecisionsAndPosts`, `ImplementsLifecycle`,
`OneReply`.

- `PublishInv` relates the run's copy to the file: the copy is ahead of the file
  except that a held publish lock is in both, so a click is always covered by a
  recorded attempt and a press already read.
- `HonestInv` adds what a record may say (`Honest`: a press read is in it, one that
  was rejected first has no attempt, an unknown comment was never asked about),
  of the file at the file's offset and of the copy at the copy's; that Telegram
  never has confirmed more than the file has read (`Offsets`); and how far the
  copy is from the file (`Phases`: one move for each comment). The last is what
  makes every save one step of `ReplyLifecycle` for each comment it changes, and
  so the refinement a matter of cases.
- `ToldInv`: a comment with a reply has one, and the run, or else the file, knows
  of it, except where a run died between the click and the save: those are the
  comments `MCCommentator` remembers.

**SendMan** (`SendMan_proofs`): `TypeCorrect`, `TargetHolds`, `StopsAtOnce`,
`OutreachPromised`. `Budget` bounds what a run may still log by what the target
leaves *today*, also after a midnight, for which the log has nothing yet.
`BeforeClick`: when a message box is open no click has been late, because it opens
only on a page that showed no stop. `Knows` says that a run past the scan knows
each listed person who has a message, from the list it read or from the state
file, except the one it has just clicked for; the refinement of `Outreach` needs
it, because the state file alone forgets a message that was followed by a stop.

**ConnectMan** (`ConnectMan_proofs`): `TypeCorrect`, `OnlyAllowedInvited`,
`EntriesAndInvitations`, `StopsTheRun`. `Aim`: in a standard run a click at the
coordinates read for somebody meets that person or nobody. `Clean`: so whoever
has a dialog, open or still to open, or an invitation is allowed, which is why
even a late dialog's Send invites an allowed person. `Tidy`: as long as no dialog
has outlived its candidate, one is there between the two clicks only. `Books`
pairs each dialog or invitation with an entry but for the candidate in hand;
`SentCount` and `Count` say the same in numbers, which is all that is true of
late dialogs and of soft mode. `Late`: no late click at the check between the two
clicks, at most one before a candidate's next one, two in all.

**PostLiker** (`PostLiker_proofs`): `TypeCorrect`, `TargetHolds`,
`StatusTellsTruth`, `NothingTakenAway`. `Budget`: what a run may still enter fits
under the target of the day its directory is named for, and nothing is counted for
days to come, where both clocks show one date. `Faithful`: a post collected is the
first with its key, so that the button found for it is its own (`OwnButton`, from
`OneButtonEach`); the posts still to come are as the walk's snapshot has them, the
one in hand has no reaction before the click, and what is entered is there, all of
this but for posts on which the picker left a reaction unseen (`blind`). `Tallied`,
where there is none of these (`Seen`): the posts can be given days, so that a day
has been counted no more than it has posts (`Booked`; how many a set of posts has is
all the arithmetic there is), each with a reaction that the program made, none of
them in hand or in the list of a run that goes on; `Tracked` says that the entries
are of different posts. The first attempt at this proof failed for a reason: an
author's post that shows its address has a key of its own, but shares the label by
which the button is found, so `OneButtonEach` became a condition of the two
properties (section 6).

**JobSeeker** (`JobSeeker_proofs`): `TypeCorrect`, `AppliedOnce`, `UnderShare`,
`LimitHolds`. `Once`: the job of an open form is noted by no label, nor is the one
just sent, unless its page was read before it said that it is applied for
(`late`). `Share`: what a file notes for today and what its
worker was given stay within the label's target, which never exceeds the larger
share. `Kept`: on a day on which lists stay, submissions are confirmed and no run
is killed (`Quiet`), what was submitted is noted, but for the application in hand;
the limit of the day is then the sum of the two targets.

**One form** (`JobSeeker_proofs`, `Apply!`): `FormTypes`, `OwnAnswers`,
`SentAsPromised`, for any forms. `Matching`: the gaps still to be answered are empty,
because the control that is taken for one is its own and comes no later than the
gap itself (`OwnField`), and the gaps are handled in the order of the page, radio
groups last; the contact defaults go where they are meant (`OwnPlaces`). `Sending`:
the pages behind are filled, the page in hand is by the time Next is due, and
until then a question that nothing answers is still to come or unresolved, all
but checkboxes and pages that were last read as having no question (`unread`);
something is sent from the last page only.

**The status bot** (`Hermes_proofs`): `HermesTypes`, `ReportedWeeksAreKept`,
`LedgersTellTheTruth`, `EachInOneLedger`, for weeks of any length. `HermesInv`: a week
that is reported is over and all its days have ledgers, so no later report,
backfill or rerun writes one of them. `Exact`: which of JobSeeker's two sources is
complete under which fault, and for each ledger that a daily report made, at
whatever moment, what it counts against what was done in the 24 hours before
(`Truly`; of PostLiker's `ByDate`). That two ledgers a day apart share nothing, and
leave out nothing if they are no more than that apart, is then arithmetic on
their windows.

**The watchdog** (`Hermes_proofs`, `Dog!`): `DogTypes`, and, for one watchdog at a time
(`OneWatchdog`: `hermes_stats_weekly.sh` starts one and waits for it), `OneLaunch`.
`Spaced`: every weekly launch has a marker that is no older, so that what a watchdog
has chosen was last launched at least the markers' lifetime ago, and stays so
until it spawns. `Told`: a marker speaks of a runner that was spawned by then,
unless a watchdog has yet to spawn it or everything went down between the two.

**The status bot's wrappers** (`Hermes_proofs`, `Wrap!`): `WrapTypes`, `LockFreed`,
`OneBotAtATime`, with `rm -rf` as a listing, an unlink a file and an rmdir, each a
step of its own. `Shape`: where a removal may be at work. `OneTaker`: unless two have
overlapped, wrappers take the lock one at a time. `Knows`: a pid in the lock is that
of a wrapper past writing it, and nobody changes what a taker has found.
`Removes`: a removal unlinks the pid of its own wrapper only, and whoever unlinks
that will remove the directory too. So a lock without a pid has somebody who
writes one or will remove it (`LookedAfter`), also when `started_at` is written into
a directory that is being emptied. `HoldsToRun`: undisturbed, whoever runs a bot
has its pid in the lock.

**The browser** (`Browser_proofs`): of `CentralAuth` `TypeCorrect`, `BackupWhole`,
`BackupSignedIn`, `PagesClosed`; of `CdpProxy` `ConnectionsEndClean`. `Alone`
follows the file of the one helper at work from its creation to the rename; `Signed`
holds also for helpers that overlap, since each has checked the account before it
writes, as long as no page hid its wall (`hidden`). `PagesClosed`, a theorem only,
says that a helper has closed its page however it ended, unless `new_page` or
`page.close` itself failed. `ConnectionInv` has five parts: every chunk is in one
place (`Flow`: what arrived, what is in the two buffers and in hand adds up to at
most what was sent), nothing of Chromium's side exists before the proxy has
connected (`Unopened`), where the pipes are at each point of the handler (`Phases`),
what the finally clause has closed by then (`Closing`), and that the sum is exact
towards a peer that is up until an error crosses (`Unbroken`: both pipes at work, or
the one that ended has read all).

The runs check instances; what they check and no theorem states is liveness
(`SignalledWrapperEnds`, `DueIsExecuted`, the Commentator's two, the proxy's):
fairness and ENABLED are out of the proof system's reach.

Two definitions have the form they have so that they can be proved about without
induction over data, and say more for it: `CountsAreReactions` gives each counted
reaction a post of its own instead of summing the days, and `FillQuestion` answers
one question at a time, as the loop in `fill_known_required_fields` does, instead of
folding over all of them.

## 6. Where code and documents differ

The models follow the code. Where a document, a comment or a test says
something else, the property above states what does hold.

- *Runtime lock.* The worker does not inherit the lock file, so a SIGKILL of the
  wrapper (`linkedin_scheduler.py:425` sends one three seconds after TERM) frees the
  lock while the worker runs on. So does a signal that meets `bash` alone, which
  `run_unlocked.sh:70` has waiting for the python that drives the browser: the
  wrapper sees its child end and closes the lock, the python goes on (the
  scheduler's cleanup, line 416, signals processes by pattern). `README.md:51-52`
  calls the queue "serial and protected by the existing host/shared worker locks".
- *Scheduler.* A safety stop is written with the outcome only. If the scheduler
  ends in between, the next pass finds "running", records "interrupted", and
  JobSeeker is due at once; `linkedin_scheduler.py:216-217` says it "remains blocked
  only until the next BA midnight". `README.md` gives JobSeeker a timeout of 2700
  seconds and the Commentator first priority and an hourly slot, while `TASKS`
  gives JobSeeker 7200 seconds and leaves the Commentator out.
- *Commentator.* The publish lock is taken in the run's own copy and the file is
  not read again, so runs that overlap both publish; the comment at
  `linkedin_commentator.py:2265-2266` says "overlapping runs see publishing". A
  request whose answer was lost is sent again, though line 189 says "This prevents
  duplicate Telegram approvals after restart/race". "published" need not be a
  reply of the program's: one the owner typed, or the same text by anybody, is
  taken for it before the click and after (lines 1067-1078, 2060-2062, 2081-2084;
  `tests/test_commentator_dom_safety.py` asserts it).
- *SendMan.* A stop after the Send click leaves the message unrecorded, and a
  name the messaging list does not show (line 472 takes names of two to five
  words) is then written to again; line 7 says "at most one message per person".
  Messages that were not confirmed or were followed by a stop do not count
  toward "Daily total message cap" (line 1243). A python that ends before it wrote
  its status leaves an old "inmail" reason, which turns the failure into exit 0
  (`run_unlocked.sh:79-81`).
- *ConnectMan.* In soft mode the coordinates of a button are clicked after the
  page was left and loaded again (line 765): the invitation may go to somebody
  whose card shows no allowed place (lines 196-197). A dialog that opens after the
  one or two seconds a run waits (lines 525-526), or that a failing Escape leaves
  (551-561), is the next candidate's in the program's eyes: the Send in it invites
  the earlier one, who is entered as an error, and the entry in `sent` is the later
  one's. In a standard run both are allowed.
- *PostLiker.* Directories are named by local time (Buenos Aires) and counted by UTC
  date (`run_unlocked.sh:27`): for three hours a day finished runs are not seen, and
  the target is exceeded. A post is collected under its address, if it shows one,
  else under its menu's label (`linkedin_like_posts.py:316-321`), but its button is
  looked for by that label first, and by part of the key (410-413): of two posts by
  one author, one of which shows its address, or by two authors of whom one's label
  holds the other's, the first one's button is hit for both, which takes its
  reaction away or counts it twice. The menu is opened at coordinates from before
  the page was scrolled, so another post's address may be recorded as the exact one
  (line 6). When a label lags behind the picker, or anything raises after the
  picker's click (467-482), the fallback click (495) takes the reaction away.
  `login_form` ends a run with 14, where line 10 promises 2.
- *JobSeeker.* `load_progress` drops today's records of jobs that are no longer
  listed, so the limit is granted again. `run_label` does not start a worker when
  the file has records and none is pending, so new jobs are not met
  (`jobseeker_quota_runner.py:207`). `classify_remote_status` calls `env_bool`,
  which the worker neither defines nor imports, on every page without a sign. An
  "application submitted" that the page shows only once the form is looked at is a
  success for the caller (`linkedin_worker.py:1011-1012`), so that a job applied for
  earlier, or under the other label, is counted again. Blocked records come before
  pending ones, and a batch full of them is all that the limited rounds try.
- *Easy Apply.* The text of a control includes that of five ancestors; where these
  span the neighbours (`Shared`), or a radio group has no such option, an answer
  goes to another question's control; so it does where a required list does not say
  that it is empty, since it is a gap (757-758) but not among the fields to be
  filled (798-800). The contact defaults are written to whatever has their words in
  its label, "Please state ..." and lists included (556-562, 593-616). An exception
  while a page is read makes it one without questions (773-776), and an unticked
  checkbox is none (755-758), so that Next and Submit are clicked although the
  module "never submits if an unknown required question remains" (line 16). A form
  of one page is submitted before its questions are read, and a name anywhere on
  that page passes for the selected resume (lines 16, 384). `AnswersMatch` and
  `SubmitsAsPromised` say what holds otherwise (`OwnPlaces`, `Reviewed`, `unread`).
- *Status bot.* A daily report covers the 24 hours before its launch (132-133), so
  one that is late, missed or run again leaves a gap or an overlap, while line 1000
  lets "weekly reports sum these daily ledgers"; a ledger made up for a missed
  morning covers 00:00 to 24:00 beside windows from 09:30. PostLiker's runs are
  compared by date and so are in two daily ledgers. Of ConnectMan's, the soft
  recruiter's are not counted (399, 702), and a run that was killed is known from
  the status file alone, which the next run overwrites. An application can be
  missing from both of JobSeeker's sources; "Previous full Monday..Sunday" (line
  119) is the seven days that end on Sunday at 09:30.
- *Watchdog.* A daily label contains the minute, so no daily marker is ever found
  again; markers are looked for long before they are written, so overlapping
  watchdogs both launch; a crash between the marker and the spawn leaves a marker
  without a repair; an unreachable Telegram ends a runner in its except clause,
  with repairs still to come.
- *Wrappers of the status bot.* TERM frees the lock and returns to the script, and
  between lines 83 and 84 the missing directory then ends it; two wrappers that look
  at a stale lock at once both take it, or the `rm -rf` of the one unlinks the pid
  of the other, fails on its `started_at`, and leaves a lock that nobody owns; a pid
  that another process has by now passes for a running wrapper.
- *Central auth.* All helpers use one temporary name, so two at once can rename a
  file that is still being written; the account is checked on a page and exported
  later. `page_text` returns "" after any exception (42-46) and a page that never
  settles is read all the same (102-105), so a wall at the feed's address passes for
  a signed-in page, while `README.md:116` says that the helper "fails closed": this is
  the finding of `PROJECT.json`.
- *CDP proxy.* An unexpected error while the client's connection is closed (a
  time-out, for one) leaves Chromium's open, line 187 is not reached.

## 7. Not modelled, and why

- DOM work, extraction, wording and deduplication: a page either shows what is
  looked for, shows it late, or a stop; the models keep these outcomes. Also
  `DRY_RUN`, `SAFE_MODE`, `--no-verify` and `--self-test`, which act on nothing.
- The Commentator's preflight, drafts and health summaries; which of the requests
  that are too many for `max_items` a run takes is left open (`Ranked`).
- The scheduler's `plan` and `status`, its logs, a corrupt state file (it is
  replaced by an empty one without a word), and the host lock, which is one pass
  at a time here.
- JobSeeker's mode without a queue, and the extractor beyond its result.
- The text of the reports, health and blockers of the status bot, the exit codes and
  status files of its wrappers; daily watchdog labels and overlapping watchdogs are
  in `Watchdog` and can be instantiated (`Periods`, `Watchdogs`), but the checked
  instance is the weekly one.
- The rewriting of headers in the proxy is data; the browser's entrypoint and
  health check start and probe programs and keep no state.
- Deployment files, `hirehi/` and `data/state/`: configuration, one-off scripts run by
  hand, and superseded copies.

## 8. Plan

1. *Done*: every program of section 1 but the one-off scripts is modelled and
   checked; the safety properties and the two refinements are proved.
2. `Scheduler` composed with `RuntimeLock`: timeouts, and the cleanup of containers
   whose patterns miss some workers; the theorem would be that a pass launches a
   worker only under a free flock.
3. An abstract specification of a worker with a daily target, which PostLiker,
   SendMan and JobSeeker implement each in its way, and its refinements proved.
