---------------------------- MODULE Commentator ----------------------------
(***************************************************************************)
(* services/Commentator/scripts/linkedin_commentator.py: one run loads the *)
(* state file, takes the owner's Telegram button presses, publishes the    *)
(* approved replies, sends approval requests that failed before, scans     *)
(* LinkedIn for new comments and asks about each.  The state is held in    *)
(* memory and written to disk at a few points only; a run may end at any   *)
(* point without writing it (an exception of Playwright, a kill by the     *)
(* scheduler's timeout, a crash of the container).                         *)
(*                                                                         *)
(* A run here has --send-telegram and --publish-approved and no --dry-run; *)
(* a run with PAUSE_ALL or in dry-run mode neither reads nor writes what   *)
(* is modelled.  save_json writes a temporary file and renames it, so the  *)
(* file on disk is always one complete state.                              *)
(***************************************************************************)
EXTENDS Integers, Sequences, FiniteSets

CONSTANTS
  Items,        \* comments found on LinkedIn, by their deduplicated id
  Runs,         \* slots for processes of the script
  NoItem,
  MaxAttempts,  \* LINKEDIN_COMMENTATOR_MAX_PUBLISH_ATTEMPTS
  MaxItems,     \* --max-items: requests sent again by one run
  MaxUpdates,   \* bound: button presses
  SentCap,      \* bound: approval messages counted per item
  Exclusive,    \* is the runtime lock in force: one run at a time?
  CrashPoints   \* program points at which a run may end without saving

ASSUME ItemAssumption == NoItem \notin Items
ASSUME AttemptAssumption == MaxAttempts \in Nat \ {0}
ASSUME CapAssumption == MaxItems \in Nat \ {0}
ASSUME BoundAssumption == MaxUpdates \in Nat /\ SentCap \in Nat \ {0}
ASSUME FlagAssumption == Exclusive \in BOOLEAN

VARIABLES
  disk, diskOffset,     \* the state file: items, telegram_update_offset
  mem, memOffset,       \* each run's copy
  pc, cur, todo, batch, \* each run's place, its item, the items left, the poll
  stale,                \* items whose publishing_started_at is past the limit
  updates,              \* Telegram's callback queries; update_id = position
  confirmed,            \* updates up to here Telegram no longer returns
  sent,                 \* approval messages the owner received, per item
  replies,              \* replies LinkedIn received from us, per item
  byHand                \* replies, counted up to one per item, that we did not
                        \* post and owner_reply_exists takes: one the owner
                        \* typed, or the proposed text from anybody

runVars == <<mem, memOffset, pc, cur, todo, batch>>
diskVars == <<disk, diskOffset>>
worldVars == <<updates, confirmed, sent, replies, byHand>>
vars == <<runVars, diskVars, worldVars, stale>>

----------------------------------------------------------------------------
(* Items.                                                                  *)

\* "unknown": the item is not in the file.
Decisions == {"unknown", "proposed", "sent_to_telegram", "approved", "rejected",
              "publishing", "published", "publish_failed"}
Settled == {"rejected", "published", "publish_failed"}

\* telegram_status: none yet, "sent" (with a message id), or one of the
\* statuses is_retryable_telegram_status accepts.
TelegramStatus == {"none", "sent", "retryable"}

\* publish_attempts is its length and whether the last one has ok = None, which
\* is so while the publish lock is held.
Item == {it \in [decision : Decisions, tg : TelegramStatus,
                 attempts : Nat, open : BOOLEAN, seen : SUBSET Nat] :
           it.open <=> it.decision = "publishing"}

NewItem(d) == [decision |-> d, tg |-> "none", attempts |-> 0, open |-> FALSE, seen |-> {}]

Blank == [i \in Items |-> NewItem("unknown")]

\* Mutant: a rejection may be taken back by a later "approve".
CallbackAnyDecision(it, k, action) ==
  [it EXCEPT !.seen = @ \cup {k},
             !.decision = IF action = "approve" THEN "approved" ELSE "rejected"]

\* apply_callback_decision: one button press, applied once.
Callback(it, k, action) ==
  LET asked == {"proposed", "sent_to_telegram"}
      marked == [it EXCEPT !.seen = @ \cup {k}]
  IN CASE k \in it.seen -> it
       [] action = "approve" /\ it.decision \in asked ->
            [marked EXCEPT !.decision = "approved"]
       [] action = "reject" /\ it.decision \in asked \cup {"approved"} ->
            [marked EXCEPT !.decision = "rejected"]
       [] OTHER -> marked

\* _finish_open_publish_attempt: close the open attempt, or record a closed one.
CloseAttempt(it) ==
  IF it.open THEN [it EXCEPT !.open = FALSE] ELSE [it EXCEPT !.attempts = @ + 1]

\* Mutant: a stale lock is left alone.
RecoveredNever(it, isStale) == it

\* acquire_publish_lock, first half: a stale lock is a failed attempt.
Recovered(it, isStale) ==
  IF it.decision = "publishing" /\ isStale
  THEN [CloseAttempt(it) EXCEPT !.decision = "approved"] ELSE it

\* acquire_publish_lock: the item after the call.
Acquire(it, isStale) ==
  LET rec == Recovered(it, isStale)
  IN CASE rec.decision # "approved" -> rec
       [] rec.decision = "approved" /\ rec.attempts >= MaxAttempts ->
            [rec EXCEPT !.decision = "publish_failed"]
       [] OTHER -> [rec EXCEPT !.decision = "publishing", !.attempts = @ + 1, !.open = TRUE]

\* Mutant: the decision is not looked at.
AcquiresUndecided(it, isStale) == Recovered(it, isStale).attempts < MaxAttempts

\* acquire_publish_lock returned True.
Acquires(it, isStale) ==
  LET rec == Recovered(it, isStale)
  IN rec.decision = "approved" /\ rec.attempts < MaxAttempts

\* Mutant: a reply that is not seen after the click is tried again.
CompleteRetrying(it, outcome) ==
  LET closed == CloseAttempt(it)
  IN [closed EXCEPT !.decision =
        CASE outcome = "ok" -> "published"
          [] OTHER -> IF closed.attempts >= MaxAttempts THEN "publish_failed" ELSE "approved"]

\* complete_publish_attempt: "ok", "unverified" (never retried), or "failed".
Complete(it, outcome) ==
  LET closed == CloseAttempt(it)
  IN [closed EXCEPT !.decision =
        CASE outcome = "ok" -> "published"
          [] outcome = "unverified" -> "publish_failed"
          [] OTHER -> IF closed.attempts >= MaxAttempts THEN "publish_failed" ELSE "approved"]

\* mark_telegram_sent.
MarkSent(it) ==
  [it EXCEPT !.tg = "sent",
             !.decision = IF @ = "proposed" THEN "sent_to_telegram" ELSE @]

\* existing_pending_telegram_retry_candidates.
Retryable(it) == it.decision = "proposed" /\ it.tg = "retryable"

----------------------------------------------------------------------------
Points == {"idle", "poll", "apply", "publish", "locked", "submitted",
           "retry", "retried", "resending", "scan", "register", "sending"}

TypeOK ==
  /\ disk \in [Items -> Item] /\ diskOffset \in Nat
  /\ mem \in [Runs -> [Items -> Item]] /\ memOffset \in [Runs -> Nat]
  /\ pc \in [Runs -> Points]
  /\ cur \in [Runs -> Items \cup {NoItem}]
  /\ todo \in [Runs -> SUBSET Items]
  /\ batch \in [Runs -> Nat]
  /\ stale \in SUBSET Items
  /\ updates \in Seq(Items \X {"approve", "reject"})
  /\ confirmed \in Nat
  /\ sent \in [Items -> 0..SentCap]
  /\ replies \in [Items -> Nat]
  /\ byHand \in [Items -> 0..1]

Init ==
  /\ disk = Blank /\ diskOffset = 0
  /\ mem = [r \in Runs |-> Blank] /\ memOffset = [r \in Runs |-> 0]
  /\ pc = [r \in Runs |-> "idle"]
  /\ cur = [r \in Runs |-> NoItem]
  /\ todo = [r \in Runs |-> {}]
  /\ batch = [r \in Runs |-> 0]
  /\ stale = {}
  /\ updates = <<>> /\ confirmed = 0
  /\ sent = [i \in Items |-> 0]
  /\ replies = [i \in Items |-> 0]
  /\ byHand = [i \in Items |-> 0]

\* Run r moves on, with item i in hand and the set left of items to visit.
Goto(r, point, i, left) ==
  /\ pc' = [pc EXCEPT ![r] = point]
  /\ cur' = [cur EXCEPT ![r] = i]
  /\ todo' = [todo EXCEPT ![r] = left]

\* The run changes item i of its copy to it.
SetItem(r, i, it) == mem' = [mem EXCEPT ![r] = [@ EXCEPT ![i] = it]]

\* save_json(STATE_PATH, state) of the copy as this step leaves it.
SaveState(r) == disk' = mem'[r] /\ diskOffset' = memOffset[r]

\* The process ends; what it had in memory is gone.
Leave(r) ==
  /\ Goto(r, "idle", NoItem, {})
  /\ mem' = [mem EXCEPT ![r] = Blank]
  /\ memOffset' = [memOffset EXCEPT ![r] = 0]
  /\ batch' = [batch EXCEPT ![r] = 0]

\* The process ends after writing the copy as it is.
SaveAndLeave(r) == Leave(r) /\ disk' = mem[r] /\ diskOffset' = memOffset[r]

----------------------------------------------------------------------------
(* Start of a run and poll_approvals.                                      *)

Begin(r) ==
  /\ pc[r] = "idle"
  /\ Exclusive => \A s \in Runs : pc[s] = "idle"
  /\ Goto(r, "poll", NoItem, {})
  /\ mem' = [mem EXCEPT ![r] = disk]
  /\ memOffset' = [memOffset EXCEPT ![r] = diskOffset]
  /\ UNCHANGED <<batch, diskVars, worldVars, stale>>

\* getUpdates with the run's offset confirms what lies before it.
Forgotten(r) == IF memOffset[r] > confirmed THEN memOffset[r] ELSE confirmed

\* It returns every callback that was not confirmed.
PollOk(r) ==
  /\ pc[r] = "poll"
  /\ confirmed' = Forgotten(r)
  /\ IF Len(updates) > Forgotten(r)
     THEN /\ memOffset' = [memOffset EXCEPT ![r] = Forgotten(r)]
          /\ batch' = [batch EXCEPT ![r] = Len(updates)]
     ELSE UNCHANGED <<memOffset, batch>>
  /\ Goto(r, "apply", NoItem, {})
  /\ UNCHANGED <<mem, diskVars, updates, sent, replies, byHand, stale>>

\* getUpdates fails, before or after Telegram saw it: a warning, no events.
PollFail(r) ==
  /\ pc[r] = "poll"
  /\ confirmed' \in {confirmed, Forgotten(r)}
  /\ Goto(r, "apply", NoItem, {})
  /\ UNCHANGED <<mem, memOffset, batch, diskVars, updates, sent, replies, byHand, stale>>

\* Mutant: the offset is kept in a file of its own, written at once.
ApplyUpdateSavingOffset(r) ==
  /\ pc[r] = "apply"
  /\ memOffset[r] < batch[r]
  /\ LET k == memOffset[r] + 1
         i == updates[k][1]
     IN /\ SetItem(r, i, Callback(mem[r][i], k, updates[k][2]))
        /\ diskOffset' = k
  /\ memOffset' = [memOffset EXCEPT ![r] = @ + 1]
  /\ UNCHANGED <<pc, cur, todo, batch, disk, worldVars, stale>>

\* One callback of the batch; one for an item not in the file is ignored.
ApplyUpdate(r) ==
  /\ pc[r] = "apply"
  /\ memOffset[r] < batch[r]
  /\ LET k == memOffset[r] + 1
         i == updates[k][1]
     IN SetItem(r, i, IF mem[r][i].decision = "unknown" THEN mem[r][i]
                      ELSE Callback(mem[r][i], k, updates[k][2]))
  /\ memOffset' = [memOffset EXCEPT ![r] = @ + 1]
  /\ UNCHANGED <<pc, cur, todo, batch, diskVars, worldVars, stale>>

\* On to the items in the file.
EndPoll(r) ==
  /\ pc[r] = "apply"
  /\ memOffset[r] >= batch[r]
  /\ Goto(r, "publish", NoItem, {i \in Items : mem[r][i].decision # "unknown"})
  /\ UNCHANGED <<mem, memOffset, batch, diskVars, worldVars, stale>>

\* PAUSE_PUBLISHING was set when the run began: every item is passed over.
EndPollPaused(r) ==
  /\ pc[r] = "apply"
  /\ memOffset[r] >= batch[r]
  /\ Goto(r, "publish", NoItem, {})
  /\ UNCHANGED <<mem, memOffset, batch, diskVars, worldVars, stale>>

----------------------------------------------------------------------------
(* The publish loop.                                                       *)

\* Mutant: the publish lock stays in memory.
LockItemUnsaved(r, i) ==
  /\ pc[r] = "publish" /\ i \in todo[r]
  /\ Acquires(mem[r][i], i \in stale)
  /\ SetItem(r, i, Acquire(mem[r][i], i \in stale))
  /\ stale' = stale \ {i}
  /\ Goto(r, "locked", i, todo[r] \ {i})
  /\ UNCHANGED <<memOffset, batch, worldVars, diskVars>>

\* The lock is written to disk before the page is touched.
LockItem(r, i) ==
  /\ pc[r] = "publish" /\ i \in todo[r]
  /\ Acquires(mem[r][i], i \in stale)
  /\ SetItem(r, i, Acquire(mem[r][i], i \in stale))
  /\ SaveState(r)
  /\ stale' = stale \ {i}
  /\ Goto(r, "locked", i, todo[r] \ {i})
  /\ UNCHANGED <<memOffset, batch, worldVars>>

\* Not acquired; a stale lock out of attempts still changes the copy.
SkipItem(r, i) ==
  /\ pc[r] = "publish" /\ i \in todo[r]
  /\ ~Acquires(mem[r][i], i \in stale)
  /\ SetItem(r, i, Acquire(mem[r][i], i \in stale))
  /\ Goto(r, "publish", NoItem, todo[r] \ {i})
  /\ UNCHANGED <<memOffset, batch, diskVars, worldVars, stale>>

Finished(r, outcome) ==
  /\ SetItem(r, cur[r], Complete(mem[r][cur[r]], outcome))
  /\ Goto(r, "publish", NoItem, todo[r])
  /\ UNCHANGED <<memOffset, batch, diskVars, stale>>

\* Publishing paused meanwhile, no browser, no thread, no editor, no button.
FailBeforeSubmit(r) ==
  /\ pc[r] = "locked"
  /\ Finished(r, "failed")
  /\ UNCHANGED worldVars

\* owner_reply_exists: a reply of the owner's, whoever typed it, or the proposed
\* text in anybody's.  The page may still not show it.
OwnerReplyExists(i) == replies[i] + byHand[i] > 0

\* The thread already shows such a reply: "published", and nothing is clicked.
FindReply(r) ==
  /\ pc[r] = "locked"
  /\ OwnerReplyExists(cur[r])
  /\ Finished(r, "ok")
  /\ UNCHANGED worldVars

\* A safety stop: the attempt is counted, the state saved, the exit code 12.
StopPublishing(r) ==
  /\ pc[r] = "locked"
  /\ LET after == [mem[r] EXCEPT ![cur[r]] = Complete(@, "failed")]
     IN disk' = after /\ diskOffset' = memOffset[r]
  /\ Leave(r)
  /\ UNCHANGED <<worldVars, stale>>

\* The thread shows no such reply, for there is none or the page does not
\* load it: fill the editor and click.  LinkedIn takes the reply or does not.
Submit(r) ==
  /\ pc[r] = "locked"
  /\ \E landed \in {0, 1} : replies' = [replies EXCEPT ![cur[r]] = @ + landed]
  /\ Goto(r, "submitted", cur[r], todo[r])
  /\ UNCHANGED <<mem, memOffset, batch, diskVars, updates, confirmed, sent, byHand, stale>>

\* The thread is searched again after the click, and may not show it yet.
Verify(r) ==
  /\ pc[r] = "submitted"
  /\ \/ OwnerReplyExists(cur[r]) /\ Finished(r, "ok")
     \/ Finished(r, "unverified")
  /\ UNCHANGED worldVars

\* ranked[:limit]: as many of the set as --max-items allows; which ones is the
\* ranking's choice.
Ranked(set) ==
  {some \in SUBSET set :
     (some = set /\ Cardinality(set) <= MaxItems) \/ Cardinality(some) = MaxItems}

\* Mutant: only requests that were never tried are sent.
EndPublishNeverTried(r) ==
  /\ pc[r] = "publish" /\ todo[r] = {}
  /\ \E some \in Ranked({i \in Items : mem[r][i].decision = "proposed" /\ mem[r][i].tg = "none"}) :
       Goto(r, "retry", NoItem, some)
  /\ UNCHANGED <<mem, memOffset, batch, diskVars, worldVars, stale>>

\* On to the requests whose sending failed before.
EndPublish(r) ==
  /\ pc[r] = "publish" /\ todo[r] = {}
  /\ \E some \in Ranked({i \in Items : Retryable(mem[r][i])}) : Goto(r, "retry", NoItem, some)
  /\ UNCHANGED <<mem, memOffset, batch, diskVars, worldVars, stale>>

----------------------------------------------------------------------------
(* Approval requests: retry_existing_pending_telegram_approvals, then the  *)
(* new candidates.  Both save first and send then.                         *)

\* sendMessage: the owner may get the message, and the answer may be lost.
SendApproval(r) ==
  \E delivered \in BOOLEAN : \E answered \in BOOLEAN :
    /\ answered => delivered
    /\ sent' = IF delivered /\ sent[cur[r]] < SentCap
               THEN [sent EXCEPT ![cur[r]] = @ + 1] ELSE sent
    /\ SetItem(r, cur[r], IF answered THEN MarkSent(mem[r][cur[r]])
                          ELSE [mem[r][cur[r]] EXCEPT !.tg = "retryable"])

RetrySave(r, i) ==
  /\ pc[r] \in {"retry", "retried"} /\ i \in todo[r]
  /\ Goto(r, "resending", i, todo[r] \ {i})
  /\ UNCHANGED mem
  /\ SaveState(r)
  /\ UNCHANGED <<memOffset, batch, worldVars, stale>>

RetrySend(r) ==
  /\ pc[r] = "resending"
  /\ SendApproval(r)
  /\ Goto(r, "retried", NoItem, todo[r])
  /\ UNCHANGED <<memOffset, batch, diskVars, updates, confirmed, replies, byHand, stale>>

\* The phase saves once more if it sent anything.
EndRetry(r) ==
  /\ pc[r] \in {"retry", "retried"} /\ todo[r] = {}
  /\ Goto(r, "scan", NoItem, {})
  /\ UNCHANGED mem
  /\ IF pc[r] = "retried" THEN SaveState(r) ELSE UNCHANGED diskVars
  /\ UNCHANGED <<memOffset, batch, worldVars, stale>>

\* scan_candidates exits with 11 or 12: the state is saved on the way out.
ScanStop(r) ==
  /\ pc[r] = "scan"
  /\ SaveAndLeave(r)
  /\ UNCHANGED <<worldVars, stale>>

\* scan_candidates returns comments that are not in the state yet.
ScanOk(r) ==
  /\ pc[r] = "scan"
  /\ \E new \in SUBSET {i \in Items : mem[r][i].decision = "unknown"} :
       Goto(r, "register", NoItem, new)
  /\ UNCHANGED <<mem, memOffset, batch, diskVars, worldVars, stale>>

\* Mutant: the request goes out before the item is on disk.
RegisterUnsaved(r, i) ==
  /\ pc[r] = "register" /\ i \in todo[r]
  /\ SetItem(r, i, NewItem("proposed"))
  /\ Goto(r, "sending", i, todo[r] \ {i})
  /\ UNCHANGED <<memOffset, batch, worldVars, stale, diskVars>>

Register(r, i) ==
  /\ pc[r] = "register" /\ i \in todo[r]
  /\ SetItem(r, i, NewItem("proposed"))
  /\ SaveState(r)
  /\ Goto(r, "sending", i, todo[r] \ {i})
  /\ UNCHANGED <<memOffset, batch, worldVars, stale>>

SendNew(r) ==
  /\ pc[r] = "sending"
  /\ SendApproval(r)
  /\ Goto(r, "register", NoItem, todo[r])
  /\ UNCHANGED <<memOffset, batch, diskVars, updates, confirmed, replies, byHand, stale>>

Finish(r) ==
  /\ pc[r] = "register" /\ todo[r] = {}
  /\ SaveAndLeave(r)
  /\ UNCHANGED <<worldVars, stale>>

\* An exception that run() does not catch, or the end of the process.
Abort(r) ==
  /\ pc[r] # "idle" /\ pc[r] \in CrashPoints
  /\ Leave(r)
  /\ UNCHANGED <<diskVars, worldVars, stale>>

----------------------------------------------------------------------------
(* The owner and the clock.                                                *)

\* The owner presses a button of a request that reached the chat.
Press(i, action) ==
  /\ sent[i] > 0
  /\ Len(updates) < MaxUpdates
  /\ updates' = Append(updates, <<i, action>>)
  /\ UNCHANGED <<runVars, diskVars, confirmed, sent, replies, byHand, stale>>

\* The owner replies by hand, or somebody posts the proposed text.
AnswerByHand(i) ==
  /\ byHand' = [byHand EXCEPT ![i] = 1]
  /\ UNCHANGED <<runVars, diskVars, updates, confirmed, sent, replies, stale>>

\* LINKEDIN_COMMENTATOR_PUBLISHING_STALE_MINUTES go by.
Age(i) ==
  /\ disk[i].decision = "publishing"
  /\ stale' = stale \cup {i}
  /\ UNCHANGED <<runVars, diskVars, worldVars>>

RunStep(r) ==
  \/ PollOk(r) \/ PollFail(r) \/ ApplyUpdate(r)
  \/ EndPoll(r) \/ EndPollPaused(r)
  \/ \E i \in Items : LockItem(r, i) \/ SkipItem(r, i)
  \/ FailBeforeSubmit(r) \/ FindReply(r) \/ StopPublishing(r)
  \/ Submit(r) \/ Verify(r) \/ EndPublish(r)
  \/ \E i \in Items : RetrySave(r, i)
  \/ RetrySend(r) \/ EndRetry(r) \/ ScanStop(r) \/ ScanOk(r)
  \/ \E i \in Items : Register(r, i)
  \/ SendNew(r) \/ Finish(r)

Next ==
  \/ \E r \in Runs : Begin(r) \/ RunStep(r) \/ Abort(r)
  \/ \E i \in Items : \/ Age(i) \/ AnswerByHand(i)
                      \/ \E action \in {"approve", "reject"} : Press(i, action)

Spec == Init /\ [][Next]_vars

----------------------------------------------------------------------------
(* Safety.                                                                 *)

\* The owner pressed action on the request for i, among the first n updates.
Pressed(i, action, n) == \E k \in 1..n : k <= Len(updates) /\ updates[k] = <<i, action>>

\* Nothing is posted in the owner's name that the owner did not approve:
\* every reply LinkedIn received belongs to a comment with an "approve" press
\* at or before the point up to which the state file has read the presses.
PostedOnlyApproved ==
  \A i \in Items : replies[i] > 0 => Pressed(i, "approve", diskOffset)

\* The publish attempt is on disk before the click (lines 2264-2267), so the
\* file never knows of fewer attempts than LinkedIn received replies, however
\* the runs ended; and it never records more than the limit.
RepliesWithinAttempts ==
  \A i \in Items : replies[i] <= disk[i].attempts /\ disk[i].attempts <= MaxAttempts

\* "published" in the file is a reply on LinkedIn: one that a run posted, or one
\* that the owner or somebody else wrote and that made posting unnecessary
\* (lines 1067-1078, 2060-2062, 2081-2084).
PublishedIsPosted ==
  \A i \in Items : disk[i].decision = "published" => replies[i] + byHand[i] > 0

\* No press of the owner is lost: one that Telegram will not return again
\* (because it was confirmed, or because the file's offset is past it) is in
\* the file's item (lines 1990-2024 and every save of the state).
NoPressLost ==
  \A k \in 1..Len(updates) :
    k <= diskOffset \/ k <= confirmed => k \in disk[updates[k][1]].seen

\* An item the owner rejected before the file learnt of any approval is never
\* replied to.
RejectedFirstIsNeverPosted ==
  \A i \in Items : \A k \in 1..Len(updates) :
    /\ updates[k] = <<i, "reject">>
    /\ \A j \in 1..k : updates[j] # <<i, "approve">>
    => replies[i] = 0

\* Decisions and posts agree in both directions, through presses that come late,
\* again or against each other, and through runs that die.
PostsFollowDecisions == PublishedIsPosted /\ RejectedFirstIsNeverPosted

----------------------------------------------------------------------------
(* The service's promise: ReplyLifecycle.                                  *)

Stage(d) == IF d = "sent_to_telegram" THEN "asked" ELSE d

Lifecycle == INSTANCE ReplyLifecycle WITH
  stage <- [i \in Items |-> Stage(disk[i].decision)],
  attempts <- [i \in Items |-> disk[i].attempts],
  posted <- replies

\* What the file and LinkedIn show through crashes and lost saves are steps of
\* the lifecycle that lines 95-106 describe.
LifecycleImplemented == Lifecycle!LifecycleSpec

----------------------------------------------------------------------------
(* Liveness.  The scheduler starts runs for ever and a started run goes on *)
(* (or ends); publishing is not paused for ever; a lock gets old; Telegram *)
(* answers one of infinitely many requests.                                *)

RetryAnswered(r) == RetrySend(r) /\ mem'[r][cur[r]].tg = "sent"

Fairness ==
  /\ \A r \in Runs : /\ WF_vars(Begin(r))
                     /\ WF_vars(RunStep(r))
                     /\ SF_vars(EndPoll(r))
                     /\ SF_vars(RetryAnswered(r))
  /\ \A i \in Items : WF_vars(Age(i))

FairSpec == Spec /\ Fairness

\* An approval is carried out or given up: the item does not stay approved or
\* publishing for ever.
ApprovedIsSettled ==
  \A i \in Items :
    disk[i].decision \in {"approved", "publishing"} ~> disk[i].decision \in Settled

\* A comment whose request failed is asked about again until it is sent.
FailedRequestIsSent ==
  \A i \in Items :
    Retryable(disk[i]) ~> (sent[i] > 0 /\ ~Retryable(disk[i]))
=============================================================================
