------------------------- MODULE Commentator_proofs -------------------------
(***************************************************************************)
(* Theorems about Commentator, for every set of comments, every set of     *)
(* runs, every attempt limit and every choice of crash points; the last    *)
(* one about MCCommentator, which remembers the deaths after a click.      *)
(***************************************************************************)
EXTENDS MCCommentator, TLAPS

----------------------------------------------------------------------------
(* What the helpers of linkedin_commentator.py do to one item.             *)

LEMMA BlankType == \A i \in Items : Blank[i] \in Item /\ Blank \in [Items -> Item]
  BY DEF Blank, NewItem, Item, Decisions, TelegramStatus

LEMMA NewItemType == NewItem("proposed") \in Item
  BY DEF NewItem, Item, Decisions, TelegramStatus

LEMMA CallbackType ==
  ASSUME NEW it \in Item, NEW k \in Nat, NEW action \in {"approve", "reject"}
  PROVE  /\ Callback(it, k, action) \in Item
         /\ Callback(it, k, action).attempts = it.attempts
  BY DEF Callback, Item, Decisions, TelegramStatus

LEMMA CloseAttemptType ==
  ASSUME NEW it \in Item, it.decision = "publishing", NEW d \in Decisions \ {"publishing"}
  PROVE  /\ [CloseAttempt(it) EXCEPT !.decision = d] \in Item
         /\ CloseAttempt(it).attempts = it.attempts
  BY DEF CloseAttempt, Item, Decisions, TelegramStatus

LEMMA RecoveredType ==
  ASSUME NEW it \in Item, NEW isStale \in BOOLEAN
  PROVE  /\ Recovered(it, isStale) \in Item
         /\ Recovered(it, isStale).attempts = it.attempts
  BY CloseAttemptType DEF Recovered, CloseAttempt, Item, Decisions, TelegramStatus

LEMMA AcquireType ==
  ASSUME NEW it \in Item, NEW isStale \in BOOLEAN
  PROVE  /\ Acquire(it, isStale) \in Item
         /\ Acquires(it, isStale) =>
              /\ Acquire(it, isStale).decision = "publishing"
              /\ Acquire(it, isStale).attempts = it.attempts + 1
              /\ it.attempts < MaxAttempts
         /\ ~Acquires(it, isStale) => Acquire(it, isStale).attempts = it.attempts
  <1>1. PICK rec : rec = Recovered(it, isStale)
    OBVIOUS
  <1>2. rec \in Item /\ rec.attempts = it.attempts
    BY <1>1, RecoveredType
  <1>3. CASE rec.decision # "approved"
    <2>1. Acquire(it, isStale) = rec /\ ~Acquires(it, isStale)
      BY <1>1, <1>3 DEF Acquire, Acquires
    <2> QED
      BY <2>1, <1>2
  <1>4. CASE rec.decision = "approved" /\ rec.attempts >= MaxAttempts
    <2>1. /\ Acquire(it, isStale) = [rec EXCEPT !.decision = "publish_failed"]
          /\ ~Acquires(it, isStale)
      BY <1>1, <1>2, <1>4, AttemptAssumption DEF Acquire, Acquires, Item
    <2> QED
      BY <2>1, <1>2, <1>4 DEF Item, Decisions
  <1>5. CASE rec.decision = "approved" /\ rec.attempts < MaxAttempts
    <2>1. /\ Acquire(it, isStale) =
               [rec EXCEPT !.decision = "publishing", !.attempts = @ + 1, !.open = TRUE]
          /\ Acquires(it, isStale)
      BY <1>1, <1>2, <1>5, AttemptAssumption DEF Acquire, Acquires, Item
    <2>2. rec.attempts \in Nat /\ MaxAttempts \in Nat
      BY <1>2, AttemptAssumption DEF Item
    <2>3. [rec EXCEPT !.decision = "publishing", !.attempts = @ + 1, !.open = TRUE] \in Item
      <3>1. rec.attempts + 1 \in Nat
        BY <2>2
      <3>2. PICK n \in Nat : n = rec.attempts + 1
        BY <3>1
      <3>3. [rec EXCEPT !.decision = "publishing", !.attempts = n, !.open = TRUE] \in Item
        BY <1>2 DEF Item, Decisions
      <3> QED
        BY <3>2, <3>3
    <2>4. /\ Acquire(it, isStale).decision = "publishing"
          /\ Acquire(it, isStale).attempts = rec.attempts + 1
      BY <2>1, <1>2 DEF Item
    <2> QED
      BY <2>1, <2>3, <2>4, <1>2, <1>5
  <1> QED
    BY <1>2, <1>3, <1>4, <1>5, AttemptAssumption DEF Item

LEMMA CompleteType ==
  ASSUME NEW it \in Item, it.decision = "publishing",
         NEW outcome \in {"ok", "unverified", "failed"}
  PROVE  /\ Complete(it, outcome) \in Item
         /\ Complete(it, outcome).attempts = it.attempts
  <1> DEFINE d == CASE outcome = "ok" -> "published"
                    [] outcome = "unverified" -> "publish_failed"
                    [] OTHER -> IF CloseAttempt(it).attempts >= MaxAttempts
                                THEN "publish_failed" ELSE "approved"
  <1>1. d \in Decisions \ {"publishing"}
    BY DEF Decisions
  <1>2. Complete(it, outcome) = [CloseAttempt(it) EXCEPT !.decision = d]
    BY DEF Complete
  <1> HIDE DEF d
  <1>3. /\ [CloseAttempt(it) EXCEPT !.decision = d] \in Item
        /\ CloseAttempt(it).attempts = it.attempts
    BY <1>1, CloseAttemptType
  <1>4. [CloseAttempt(it) EXCEPT !.decision = d].attempts = CloseAttempt(it).attempts
    BY DEF CloseAttempt, Item
  <1>5. QED
    BY <1>2, <1>3, <1>4

LEMMA MarkSentType ==
  ASSUME NEW it \in Item
  PROVE  /\ MarkSent(it) \in Item
         /\ MarkSent(it).attempts = it.attempts
         /\ [it EXCEPT !.tg = "retryable"] \in Item
  BY DEF MarkSent, Item, Decisions, TelegramStatus

----------------------------------------------------------------------------
(* Types.                                                                  *)

\* What a run holds between two steps: the item of its publish lock is
\* "publishing" in its copy, and a poll never outruns Telegram.
InHand ==
  \A r \in Runs :
    /\ pc[r] \in {"locked", "submitted"} =>
         cur[r] \in Items /\ mem[r][cur[r]].decision = "publishing"
    /\ pc[r] \in {"resending", "sending"} => cur[r] \in Items
    /\ batch[r] <= Len(updates)

TypeInv == TypeOK /\ InHand

LEMMA SetItemType ==
  ASSUME TypeOK, NEW r \in Runs, NEW i \in Items, NEW it \in Item, SetItem(r, i, it)
  PROVE  /\ mem' \in [Runs -> [Items -> Item]]
         /\ mem'[r] = [mem[r] EXCEPT ![i] = it]
         /\ \A s \in Runs \ {r} : mem'[s] = mem[s]
  BY DEF SetItem, TypeOK

LEMMA ForgottenType ==
  ASSUME TypeOK, NEW r \in Runs
  PROVE  Forgotten(r) \in Nat /\ Forgotten(r) >= memOffset[r] /\ Forgotten(r) >= confirmed
  BY DEF Forgotten, TypeOK

\* Sending an approval request changes the item in hand and the chat.
LEMMA SendApprovalType ==
  ASSUME TypeOK, NEW r \in Runs, cur[r] \in Items, SendApproval(r)
  PROVE  \E it \in Item : /\ SetItem(r, cur[r], it)
                          /\ it.attempts = mem[r][cur[r]].attempts
                          /\ sent' \in [Items -> 0..SentCap]
  <1>1. mem[r][cur[r]] \in Item
    BY DEF TypeOK
  <1>2. PICK delivered \in BOOLEAN, answered \in BOOLEAN :
          /\ sent' = IF delivered /\ sent[cur[r]] < SentCap
                     THEN [sent EXCEPT ![cur[r]] = @ + 1] ELSE sent
          /\ SetItem(r, cur[r], IF answered THEN MarkSent(mem[r][cur[r]])
                                ELSE [mem[r][cur[r]] EXCEPT !.tg = "retryable"])
    BY DEF SendApproval
  <1>3. sent' \in [Items -> 0..SentCap]
    BY <1>2, BoundAssumption DEF TypeOK
  <1>4. [mem[r][cur[r]] EXCEPT !.tg = "retryable"].attempts = mem[r][cur[r]].attempts
    BY <1>1 DEF Item
  <1>5. QED
    BY <1>1, <1>2, <1>3, <1>4, MarkSentType

LEMMA GotoType ==
  ASSUME TypeOK, NEW r \in Runs, NEW p \in Points, NEW i \in Items \cup {NoItem},
         NEW left \in SUBSET Items, Goto(r, p, i, left)
  PROVE  /\ pc' \in [Runs -> Points] /\ cur' \in [Runs -> Items \cup {NoItem}]
         /\ todo' \in [Runs -> SUBSET Items]
         /\ pc'[r] = p /\ cur'[r] = i /\ todo'[r] = left
         /\ \A s \in Runs \ {r} : pc'[s] = pc[s] /\ cur'[s] = cur[s] /\ todo'[s] = todo[s]
  BY DEF Goto, TypeOK

\* One run's step leaves the other runs' places and copies alone.
LEMMA StepInHand ==
  ASSUME TypeInv, NEW r \in Runs,
         \A s \in Runs \ {r} : pc'[s] = pc[s] /\ cur'[s] = cur[s] /\ mem'[s] = mem[s],
         batch' = batch, updates' = updates,
         pc'[r] \in {"locked", "submitted"} =>
           cur'[r] \in Items /\ mem'[r][cur'[r]].decision = "publishing",
         pc'[r] \in {"resending", "sending"} => cur'[r] \in Items
  PROVE  InHand'
  BY DEF TypeInv, InHand

\* The state file and the world keep their types when a copy is saved.
LEMMA SaveType ==
  ASSUME NEW r \in Runs, SaveState(r), mem' \in [Runs -> [Items -> Item]],
         memOffset[r] \in Nat
  PROVE  disk' \in [Items -> Item] /\ diskOffset' \in Nat
  BY DEF SaveState

LEMMA LeaveType ==
  ASSUME TypeInv, NEW r \in Runs, Leave(r), updates' = updates
  PROVE  /\ pc' \in [Runs -> Points] /\ cur' \in [Runs -> Items \cup {NoItem}]
         /\ todo' \in [Runs -> SUBSET Items] /\ mem' \in [Runs -> [Items -> Item]]
         /\ memOffset' \in [Runs -> Nat] /\ batch' \in [Runs -> Nat]
         /\ InHand'
  <1>1. Blank \in [Items -> Item]
    BY DEF Blank, NewItem, Item, Decisions, TelegramStatus
  <1>2. updates \in Seq(Items \X {"approve", "reject"}) /\ Len(updates) \in Nat
    BY DEF TypeInv, TypeOK
  <1>3. QED
    BY <1>1, <1>2 DEF Leave, Goto, TypeInv, TypeOK, InHand, Points

LEMMA TypeInvInit == Init => TypeInv
  <1> SUFFICES ASSUME Init PROVE TypeInv
    OBVIOUS
  <1>1. Blank \in [Items -> Item]
    BY DEF Blank, NewItem, Item, Decisions, TelegramStatus
  <1>2. TypeOK
    BY <1>1, BoundAssumption DEF Init, TypeOK, Points
  <1>3. InHand
    BY DEF Init, InHand
  <1> QED
    BY <1>2, <1>3 DEF TypeInv

LEMMA TypeInvNext == TypeInv /\ [Next]_vars => TypeInv'
  <1> SUFFICES ASSUME TypeInv, [Next]_vars PROVE TypeInv'
    OBVIOUS
  <1> USE DEF TypeInv
  <1>1. ASSUME NEW r \in Runs, Begin(r) PROVE TypeInv'
    BY <1>1 DEF Begin, Goto, TypeOK, InHand, Points, diskVars, worldVars
  <1>2. ASSUME NEW r \in Runs, PollOk(r) PROVE TypeInv'
    <2>1. Forgotten(r) \in Nat /\ Len(updates) \in Nat
      BY ForgottenType DEF TypeOK
    <2>2. batch' \in [Runs -> Nat] /\ memOffset' \in [Runs -> Nat]
      BY <1>2, <2>1 DEF PollOk, TypeOK
    <2>3. TypeOK'
      <3>1. /\ Goto(r, "apply", NoItem, {})
            /\ confirmed' = Forgotten(r)
            /\ UNCHANGED <<mem, diskVars, updates, sent, replies, byHand, stale>>
        BY <1>2 DEF PollOk
      <3>2. pc' \in [Runs -> Points]
        BY <3>1 DEF Goto, TypeOK, Points
      <3>3. cur' \in [Runs -> Items \cup {NoItem}] /\ todo' \in [Runs -> SUBSET Items]
        BY <3>1 DEF Goto, TypeOK
      <3>4. UNCHANGED <<mem, disk, diskOffset, updates, sent, replies, byHand, stale>>
        BY <3>1 DEF diskVars
      <3> QED
        BY <2>1, <2>2, <3>1, <3>2, <3>3, <3>4 DEF TypeOK
    <2>4. \A s \in Runs : batch'[s] <= Len(updates)
      <3>1. batch \in [Runs -> Nat] /\ \A s \in Runs : batch[s] <= Len(updates)
        BY DEF TypeOK, InHand
      <3>2. batch' = batch \/ batch' = [batch EXCEPT ![r] = Len(updates)]
        BY <1>2 DEF PollOk
      <3> QED
        BY <3>1, <3>2, <2>1
    <2> QED
      BY <1>2, <2>3, <2>4 DEF PollOk, Goto, TypeOK, InHand
  <1>3. ASSUME NEW r \in Runs, PollFail(r) PROVE TypeInv'
    BY <1>3, ForgottenType DEF PollFail, Goto, TypeOK, InHand, Points, diskVars
  <1>4. ASSUME NEW r \in Runs, ApplyUpdate(r) PROVE TypeInv'
    <2> DEFINE k == memOffset[r] + 1
    <2>1. k \in 1..Len(updates)
      BY <1>4 DEF ApplyUpdate, TypeOK, InHand
    <2>2. updates[k] \in Items \X {"approve", "reject"}
      BY <2>1 DEF TypeOK
    <2>3. PICK i \in Items, action \in {"approve", "reject"} :
            i = updates[k][1] /\ action = updates[k][2]
      BY <2>2
    <2>4. PICK it : it = IF mem[r][i].decision = "unknown" THEN mem[r][i]
                         ELSE Callback(mem[r][i], k, action)
      OBVIOUS
    <2>5. it \in Item
      <3>1. mem[r][i] \in Item /\ k \in Nat
        BY <2>1 DEF TypeOK
      <3>2. Callback(mem[r][i], k, action) \in Item
        BY <3>1, CallbackType
      <3> QED
        BY <2>4, <3>1, <3>2
    <2>6. SetItem(r, i, it)
      BY <1>4, <2>3, <2>4 DEF ApplyUpdate
    <2>7. /\ mem' \in [Runs -> [Items -> Item]]
          /\ \A s \in Runs \ {r} : mem'[s] = mem[s]
      BY <2>5, <2>6, SetItemType
    <2>8. TypeOK'
      <3>1. memOffset' \in [Runs -> Nat]
        BY <1>4 DEF ApplyUpdate, TypeOK
      <3>2. UNCHANGED <<pc, cur, todo, batch, disk, diskOffset, stale, updates, confirmed,
                        sent, replies, byHand>>
        BY <1>4 DEF ApplyUpdate, diskVars, worldVars
      <3> HIDE DEF k
      <3> QED
        BY <2>7, <3>1, <3>2, SMTT(30) DEF TypeOK
    <2>9. InHand'
      BY <1>4, <2>7, StepInHand DEF ApplyUpdate, worldVars, TypeOK
    <2> QED
      BY <2>8, <2>9
  <1>5. ASSUME NEW r \in Runs, EndPoll(r) \/ EndPollPaused(r) PROVE TypeInv'
    <2>1. PICK left \in SUBSET Items : Goto(r, "publish", NoItem, left)
      BY <1>5 DEF EndPoll, EndPollPaused
    <2>2. UNCHANGED <<mem, memOffset, batch, diskVars, worldVars, stale>>
      BY <1>5 DEF EndPoll, EndPollPaused
    <2> QED
      BY <2>1, <2>2 DEF Goto, TypeOK, InHand, Points, diskVars, worldVars
  <1>6. ASSUME NEW r \in Runs, NEW i \in Items, LockItem(r, i) PROVE TypeInv'
    <2> DEFINE it == Acquire(mem[r][i], i \in stale)
    <2>1. it \in Item /\ it.decision = "publishing"
      <3>1. mem[r][i] \in Item /\ (i \in stale) \in BOOLEAN
        BY DEF TypeOK
      <3>2. Acquires(mem[r][i], i \in stale)
        BY <1>6 DEF LockItem
      <3> QED
        BY <3>1, <3>2, AcquireType
    <2> HIDE DEF it
    <2>2. SetItem(r, i, it) /\ Goto(r, "locked", i, todo[r] \ {i})
      BY <1>6 DEF LockItem, it
    <2>3. /\ mem' \in [Runs -> [Items -> Item]]
          /\ mem'[r] = [mem[r] EXCEPT ![i] = it]
          /\ \A s \in Runs \ {r} : mem'[s] = mem[s]
      BY <2>1, <2>2, SetItemType
    <2>4. mem'[r][i] = it
      BY <2>3 DEF TypeOK
    <2>5. /\ pc' \in [Runs -> Points] /\ cur' \in [Runs -> Items \cup {NoItem}]
          /\ todo' \in [Runs -> SUBSET Items] /\ pc'[r] = "locked" /\ cur'[r] = i
          /\ \A s \in Runs \ {r} : pc'[s] = pc[s] /\ cur'[s] = cur[s]
      <3>1. "locked" \in Points /\ todo[r] \ {i} \in SUBSET Items /\ TypeOK
        BY DEF TypeOK, Points
      <3> QED
        BY <2>2, <3>1, GotoType
    <2>6. disk' \in [Items -> Item] /\ diskOffset' \in Nat
      BY <1>6, <2>3, SaveType DEF LockItem, TypeOK
    <2>7. TypeOK'
      BY <1>6, <2>3, <2>5, <2>6 DEF LockItem, TypeOK, worldVars
    <2>8. InHand'
      BY <1>6, <2>1, <2>3, <2>4, <2>5, StepInHand DEF LockItem, worldVars
    <2> QED
      BY <2>7, <2>8
  <1>7. ASSUME NEW r \in Runs, NEW i \in Items, SkipItem(r, i) PROVE TypeInv'
    <2>1. Acquire(mem[r][i], i \in stale) \in Item
      <3>1. mem[r][i] \in Item /\ (i \in stale) \in BOOLEAN
        BY DEF TypeOK
      <3> QED
        BY <3>1, AcquireType
    <2>2. /\ mem' \in [Runs -> [Items -> Item]]
          /\ \A s \in Runs \ {r} : mem'[s] = mem[s]
      BY <1>7, <2>1, SetItemType DEF SkipItem
    <2> QED
      BY <1>7, <2>2 DEF SkipItem, Goto, TypeOK, InHand, Points, diskVars, worldVars
  <1>8. ASSUME NEW r \in Runs, NEW outcome \in {"ok", "unverified", "failed"},
               pc[r] \in {"locked", "submitted"}, Finished(r, outcome),
               UNCHANGED worldVars
        PROVE  TypeInv'
    <2>1. cur[r] \in Items /\ Complete(mem[r][cur[r]], outcome) \in Item
      BY <1>8, CompleteType DEF TypeOK, InHand
    <2>2. /\ mem' \in [Runs -> [Items -> Item]]
          /\ \A s \in Runs \ {r} : mem'[s] = mem[s]
      BY <1>8, <2>1, SetItemType DEF Finished
    <2> QED
      BY <1>8, <2>2 DEF Finished, Goto, TypeOK, InHand, Points, diskVars, worldVars
  <1>9. ASSUME NEW r \in Runs,
               FailBeforeSubmit(r) \/ FindReply(r) \/ Verify(r)
        PROVE  TypeInv'
    BY <1>8, <1>9 DEF FailBeforeSubmit, FindReply, Verify
  <1>10. ASSUME NEW r \in Runs, StopPublishing(r) PROVE TypeInv'
    <2>1. cur[r] \in Items /\ Complete(mem[r][cur[r]], "failed") \in Item
      BY <1>10, CompleteType DEF TypeOK, InHand, StopPublishing
    <2>2. disk' \in [Items -> Item] /\ diskOffset' \in Nat
      BY <1>10, <2>1 DEF StopPublishing, TypeOK
    <2> QED
      BY <1>10, <2>2, LeaveType DEF StopPublishing, TypeOK, worldVars
  <1>11. ASSUME NEW r \in Runs, Submit(r) PROVE TypeInv'
    <2>1. cur[r] \in Items
      BY <1>11 DEF Submit, InHand
    <2>2. replies' \in [Items -> Nat]
      BY <1>11, <2>1 DEF Submit, TypeOK
    <2> QED
      BY <1>11, <2>1, <2>2 DEF Submit, Goto, TypeOK, InHand, Points, diskVars
  <1>12. ASSUME NEW r \in Runs, EndPublish(r) PROVE TypeInv'
    BY <1>12 DEF EndPublish, Ranked, Goto, TypeOK, InHand, Points, diskVars, worldVars
  <1>13. ASSUME NEW r \in Runs, NEW i \in Items, RetrySave(r, i) PROVE TypeInv'
    BY <1>13 DEF RetrySave, SaveState, Goto, TypeOK, InHand, Points, worldVars
  <1>14. ASSUME NEW r \in Runs, RetrySend(r) \/ SendNew(r) PROVE TypeInv'
    <2>1. cur[r] \in Items /\ SendApproval(r)
      BY <1>14 DEF RetrySend, SendNew, InHand
    <2>2. PICK it \in Item : SetItem(r, cur[r], it) /\ sent' \in [Items -> 0..SentCap]
      BY <2>1, SendApprovalType
    <2>3. /\ mem' \in [Runs -> [Items -> Item]]
          /\ \A s \in Runs \ {r} : mem'[s] = mem[s]
      BY <2>1, <2>2, SetItemType
    <2>4. PICK p \in {"retried", "register"} : Goto(r, p, NoItem, todo[r])
      BY <1>14 DEF RetrySend, SendNew
    <2>5. UNCHANGED <<memOffset, batch, diskVars, updates, confirmed, replies, byHand, stale>>
      BY <1>14 DEF RetrySend, SendNew
    <2> QED
      BY <2>2, <2>3, <2>4, <2>5 DEF Goto, TypeOK, InHand, Points, diskVars
  <1>15. ASSUME NEW r \in Runs, EndRetry(r) PROVE TypeInv'
    BY <1>15 DEF EndRetry, SaveState, Goto, TypeOK, InHand, Points, diskVars, worldVars
  <1>16. ASSUME NEW r \in Runs, ScanOk(r) PROVE TypeInv'
    BY <1>16 DEF ScanOk, Goto, TypeOK, InHand, Points, diskVars, worldVars
  <1>17. ASSUME NEW r \in Runs, NEW i \in Items, Register(r, i) PROVE TypeInv'
    <2>1. /\ mem' \in [Runs -> [Items -> Item]]
          /\ \A s \in Runs \ {r} : mem'[s] = mem[s]
      BY <1>17, NewItemType, SetItemType DEF Register
    <2>2. disk' \in [Items -> Item] /\ diskOffset' \in Nat
      BY <1>17, <2>1, SaveType DEF Register, TypeOK
    <2> QED
      BY <1>17, <2>1, <2>2 DEF Register, Goto, TypeOK, InHand, Points, worldVars
  <1>18. ASSUME NEW r \in Runs, ScanStop(r) \/ Finish(r) PROVE TypeInv'
    <2>1. SaveAndLeave(r) /\ UNCHANGED <<worldVars, stale>>
      BY <1>18 DEF ScanStop, Finish
    <2>2. disk' \in [Items -> Item] /\ diskOffset' \in Nat
      BY <2>1 DEF SaveAndLeave, TypeOK
    <2> QED
      BY <2>1, <2>2, LeaveType DEF SaveAndLeave, TypeOK, worldVars
  <1>19. ASSUME NEW r \in Runs, Abort(r) PROVE TypeInv'
    BY <1>19, LeaveType DEF Abort, TypeOK, diskVars, worldVars
  <1>20. ASSUME NEW i \in Items, Age(i) \/ AnswerByHand(i) PROVE TypeInv'
    <2>1. CASE Age(i)
      BY <2>1 DEF Age, TypeOK, InHand, runVars, diskVars, worldVars
    <2>2. CASE AnswerByHand(i)
      <3>1. byHand' \in [Items -> 0..1]
        BY <2>2 DEF AnswerByHand, TypeOK
      <3> QED
        BY <2>2, <3>1 DEF AnswerByHand, TypeOK, InHand, runVars, diskVars
    <2> QED
      BY <1>20, <2>1, <2>2
  <1>21. ASSUME NEW i \in Items, NEW action \in {"approve", "reject"}, Press(i, action)
         PROVE  TypeInv'
    <2>1. /\ updates' \in Seq(Items \X {"approve", "reject"})
          /\ Len(updates') = Len(updates) + 1
      BY <1>21 DEF Press, TypeOK
    <2>2. \A s \in Runs : batch[s] <= Len(updates')
      BY <2>1 DEF TypeOK, InHand
    <2> QED
      BY <1>21, <2>1, <2>2 DEF Press, TypeOK, InHand, runVars, diskVars
  <1>22. CASE UNCHANGED vars
    BY <1>22 DEF vars, runVars, diskVars, worldVars, TypeOK, InHand
  <1>23. ASSUME NEW r \in Runs, RunStep(r) PROVE TypeInv'
    BY <1>23, <1>2, <1>3, <1>4, <1>5, <1>6, <1>7, <1>9, <1>10, <1>11, <1>12,
       <1>13, <1>14, <1>15, <1>16, <1>17, <1>18 DEF RunStep
  <1> QED
    BY <1>1, <1>19, <1>20, <1>21, <1>22, <1>23 DEF Next

(***************************************************************************)
(* Every variable keeps its type.  An item is being published exactly when *)
(* its last publish attempt is open, in every run's copy and in the file,  *)
(* whatever the points at which runs end.                                  *)
(***************************************************************************)
THEOREM TypeCorrect == Spec => []TypeOK
  <1>1. TypeInv => TypeOK
    BY DEF TypeInv
  <1>2. QED
    BY <1>1, TypeInvInit, TypeInvNext, PTL DEF Spec

----------------------------------------------------------------------------
(* The publish attempt is written ahead of the click.                      *)

\* An item that was ever tried, or may be, was approved among the first n
\* presses; one that is not in the file was never tried.
Owed(it, i, n) ==
  /\ it.decision = "unknown" => it.attempts = 0
  /\ it.attempts > 0 \/ it.decision \in {"approved", "publishing"}
       => Pressed(i, "approve", n)

OneRun == \A r, s \in Runs : pc[r] # "idle" /\ pc[s] # "idle" => r = s

FileOK ==
  \A i \in Items : /\ Owed(disk[i], i, diskOffset)
                   /\ disk[i].attempts <= MaxAttempts
                   /\ replies[i] <= disk[i].attempts

\* A run's copy agrees with the file on the attempts at every step.
CopyOK ==
  \A r \in Runs : pc[r] # "idle" =>
    \A i \in Items : /\ mem[r][i].attempts = disk[i].attempts
                     /\ Owed(mem[r][i], i, memOffset[r])

NewOnly ==
  \A r \in Runs : pc[r] \in {"register", "sending"} =>
    \A i \in todo[r] : mem[r][i].decision = "unknown"

\* While the lock is held and the click is still to come, the attempt on disk
\* is one more than the replies.
Ahead == \A r \in Runs : pc[r] = "locked" => replies[cur[r]] < disk[cur[r]].attempts

PublishInv == TypeInv /\ OneRun /\ FileOK /\ CopyOK /\ NewOnly /\ Ahead

LEMMA OwedMonotone ==
  ASSUME NEW it \in Item, NEW i \in Items, NEW m \in Nat, NEW n \in Nat, m <= n,
         Owed(it, i, m)
  PROVE  Owed(it, i, n)
  BY DEF Owed, Pressed

LEMMA OwedPress ==
  ASSUME TypeOK, NEW it, NEW i \in Items, NEW n \in Nat, Owed(it, i, n),
         NEW p \in Items \X {"approve", "reject"}, updates' = Append(updates, p)
  PROVE  Owed(it, i, n)'
  <1>1. Pressed(i, "approve", n) => Pressed(i, "approve", n)'
    <2>1. updates \in Seq(Items \X {"approve", "reject"})
      BY DEF TypeOK
    <2>2. /\ Len(updates') = Len(updates) + 1 /\ Len(updates) \in Nat
          /\ \A k \in 1..Len(updates) : updates'[k] = updates[k]
      BY <2>1
    <2>3. ASSUME Pressed(i, "approve", n) PROVE Pressed(i, "approve", n)'
      <3>1. PICK k \in 1..n : k <= Len(updates) /\ updates[k] = <<i, "approve">>
        BY <2>3 DEF Pressed
      <3>2. k <= Len(updates') /\ updates'[k] = <<i, "approve">>
        BY <2>2, <3>1
      <3> QED
        BY <3>1, <3>2 DEF Pressed
    <2> QED
      BY <2>3
  <1>2. QED
    BY <1>1 DEF Owed

\* A press adds to what is owed exactly what it decides.
LEMMA CallbackOwed ==
  ASSUME TypeOK, NEW it \in Item, it.decision # "unknown", NEW k \in 1..Len(updates),
         NEW i \in Items, NEW action \in {"approve", "reject"}, updates[k] = <<i, action>>,
         Owed(it, i, k - 1)
  PROVE  Owed(Callback(it, k, action), i, k)
  <1> DEFINE new == Callback(it, k, action)
  <1>1. k \in Nat /\ k - 1 \in Nat /\ k - 1 <= k
    BY DEF TypeOK
  <1>2. Owed(it, i, k)
    BY <1>1, OwedMonotone
  <1>3. new.attempts = it.attempts /\ new \in Item
    BY <1>1, CallbackType
  <1>4. new.decision = it.decision \/ new.decision = "rejected"
          \/ (new.decision = "approved" /\ action = "approve")
    BY DEF Callback, Item
  <1>5. action = "approve" => Pressed(i, "approve", k)
    BY <1>1 DEF Pressed
  <1> HIDE DEF new
  <1>6. Owed(new, i, k)
    BY <1>2, <1>3, <1>4, <1>5 DEF Owed
  <1> QED
    BY <1>6 DEF new

LEMMA RecoveredOwed ==
  ASSUME NEW it \in Item, NEW isStale \in BOOLEAN, NEW i \in Items, NEW n \in Nat,
         Owed(it, i, n)
  PROVE  Owed(Recovered(it, isStale), i, n)
  BY RecoveredType DEF Recovered, CloseAttempt, Owed, Item

LEMMA AcquireOwed ==
  ASSUME NEW it \in Item, NEW isStale \in BOOLEAN, NEW i \in Items, NEW n \in Nat,
         Owed(it, i, n)
  PROVE  Owed(Acquire(it, isStale), i, n)
  <1>1. PICK rec : rec = Recovered(it, isStale)
    OBVIOUS
  <1>2. rec \in Item /\ Owed(rec, i, n)
    BY <1>1, RecoveredType, RecoveredOwed
  <1>3. CASE rec.decision # "approved"
    <2>1. Acquire(it, isStale) = rec
      BY <1>1, <1>3 DEF Acquire
    <2> QED
      BY <2>1, <1>2
  <1>4. CASE rec.decision = "approved"
    <2>1. Pressed(i, "approve", n)
      BY <1>2, <1>4 DEF Owed
    <2>2. Acquire(it, isStale).decision \in {"publish_failed", "publishing"}
      BY <1>1, <1>2, <1>4 DEF Acquire, Item
    <2> QED
      BY <2>1, <2>2 DEF Owed
  <1> QED
    BY <1>3, <1>4

LEMMA CompleteOwed ==
  ASSUME NEW it \in Item, it.decision = "publishing", NEW i \in Items, NEW n \in Nat,
         NEW outcome \in {"ok", "unverified", "failed"}, Owed(it, i, n)
  PROVE  Owed(Complete(it, outcome), i, n)
  <1>1. Complete(it, outcome).decision # "unknown"
    BY DEF Complete, CloseAttempt, Item
  <1>2. QED
    BY <1>1 DEF Owed

LEMMA SendOwed ==
  ASSUME NEW it \in Item, NEW i \in Items, NEW n \in Nat, Owed(it, i, n)
  PROVE  /\ Owed(MarkSent(it), i, n)
         /\ Owed([it EXCEPT !.tg = "retryable"], i, n)
         /\ (MarkSent(it).decision = "unknown") <=> (it.decision = "unknown")
  BY DEF MarkSent, Owed, Item

\* One run is active, so a step of it has to keep only what concerns it.
LEMMA ActiveStep ==
  ASSUME PublishInv, TypeInv', NEW r \in Runs, pc[r] # "idle",
         \A s \in Runs \ {r} : pc'[s] = pc[s],
         FileOK',
         pc'[r] # "idle" => \A i \in Items : /\ mem'[r][i].attempts = disk'[i].attempts
                                             /\ Owed(mem[r][i], i, memOffset[r])',
         pc'[r] \in {"register", "sending"} =>
           \A i \in todo'[r] : mem'[r][i].decision = "unknown",
         pc'[r] = "locked" => replies'[cur'[r]] < disk'[cur'[r]].attempts
  PROVE  PublishInv'
  <1>1. \A s \in Runs \ {r} : pc'[s] = "idle"
    BY DEF PublishInv, OneRun
  <1>2. OneRun'
    BY <1>1 DEF OneRun
  <1>3. CopyOK' /\ NewOnly' /\ Ahead'
    BY <1>1 DEF CopyOK, NewOnly, Ahead
  <1>4. QED
    BY <1>2, <1>3 DEF PublishInv

LEMMA FileSame ==
  ASSUME FileOK, UNCHANGED <<disk, diskOffset, replies, updates>>
  PROVE  FileOK'
  BY DEF FileOK, Owed, Pressed

\* Saving a copy that agrees with the file on the attempts keeps the file good.
LEMMA FileSaved ==
  ASSUME PublishInv, NEW r \in Runs, UNCHANGED <<replies, updates>>,
         \A i \in Items : /\ disk'[i].attempts = disk[i].attempts
                          /\ Owed(disk[i], i, diskOffset)'
  PROVE  FileOK'
  BY DEF PublishInv, FileOK

\* A step that changes one item of the copy, and neither the file nor the world.
LEMMA CopyStep ==
  ASSUME PublishInv, TypeInv', NEW r \in Runs, pc[r] # "idle",
         \A s \in Runs \ {r} : pc'[s] = pc[s],
         UNCHANGED <<disk, diskOffset, replies, updates, memOffset>>,
         NEW i \in Items, NEW it \in Item,
         mem'[r] = [mem[r] EXCEPT ![i] = it],
         it.attempts = mem[r][i].attempts, Owed(it, i, memOffset[r]),
         pc'[r] # "locked",
         pc'[r] \in {"register", "sending"} =>
           \A j \in todo'[r] : mem'[r][j].decision = "unknown"
  PROVE  PublishInv'
  <1>1. mem[r] \in [Items -> Item]
    BY DEF PublishInv, TypeInv, TypeOK
  <1>2. \A j \in Items : mem'[r][j] = IF j = i THEN it ELSE mem[r][j]
    BY <1>1
  <1>3. \A j \in Items : /\ mem[r][j].attempts = disk[j].attempts
                         /\ Owed(mem[r][j], j, memOffset[r])
    BY DEF PublishInv, CopyOK
  <1>4. \A j \in Items : mem'[r][j].attempts = disk'[j].attempts
    BY <1>2, <1>3
  <1>5. \A j \in Items : Owed(mem[r][j], j, memOffset[r])'
    <2> SUFFICES ASSUME NEW j \in Items PROVE Owed(mem[r][j], j, memOffset[r])'
      OBVIOUS
    <2>1. CASE j = i
      BY <1>2, <2>1 DEF Owed, Pressed
    <2>2. CASE j # i
      <3>1. mem'[r][j] = mem[r][j] /\ Owed(mem[r][j], j, memOffset[r])
        BY <1>2, <1>3, <2>2
      <3> QED
        BY <3>1 DEF Owed, Pressed
    <2> QED
      BY <2>1, <2>2
  <1>6. FileOK'
    BY FileSame DEF PublishInv
  <1>7. QED
    BY <1>4, <1>5, <1>6, ActiveStep

\* A step that moves the run on, and changes nothing that is owed.
LEMMA QuietStep ==
  ASSUME PublishInv, TypeInv', NEW r \in Runs, pc[r] # "idle",
         \A s \in Runs \ {r} : pc'[s] = pc[s],
         UNCHANGED <<disk, diskOffset, replies, updates, mem, memOffset>>,
         pc'[r] # "locked",
         pc'[r] \in {"register", "sending"} =>
           \A j \in todo'[r] : mem'[r][j].decision = "unknown"
  PROVE  PublishInv'
  <1>1. \A j \in Items : /\ mem[r][j].attempts = disk[j].attempts
                         /\ Owed(mem[r][j], j, memOffset[r])
    BY DEF PublishInv, CopyOK
  <1>2. \A j \in Items : Owed(mem[r][j], j, memOffset[r])'
    BY <1>1 DEF Owed, Pressed
  <1>3. FileOK'
    BY FileSame DEF PublishInv
  <1>4. QED
    BY <1>1, <1>2, <1>3, ActiveStep

LEMMA PublishInvInit == Init => PublishInv
  <1> SUFFICES ASSUME Init PROVE PublishInv
    OBVIOUS
  <1>1. TypeInv
    BY TypeInvInit
  <1>2. FileOK
    <2> SUFFICES ASSUME NEW i \in Items
                 PROVE  /\ Owed(disk[i], i, diskOffset) /\ disk[i].attempts <= MaxAttempts
                        /\ replies[i] <= disk[i].attempts
      BY DEF FileOK
    <2>1. disk[i] = NewItem("unknown") /\ replies[i] = 0
      BY DEF Init, Blank
    <2>2. NewItem("unknown").decision = "unknown" /\ NewItem("unknown").attempts = 0
      BY DEF NewItem
    <2>3. PICK a : a = disk[i].attempts
      OBVIOUS
    <2>4. a = 0 /\ disk[i].decision = "unknown" /\ MaxAttempts \in Nat
      BY <2>1, <2>2, <2>3, AttemptAssumption
    <2>5. ~(a > 0) /\ a <= MaxAttempts /\ replies[i] <= a
      BY <2>1, <2>4
    <2> QED
      BY <2>3, <2>4, <2>5 DEF Owed
  <1>3. OneRun /\ CopyOK /\ NewOnly /\ Ahead
    BY DEF Init, OneRun, CopyOK, NewOnly, Ahead
  <1> QED
    BY <1>1, <1>2, <1>3 DEF PublishInv

LEMMA PublishInvNext ==
  ASSUME Exclusive, PublishInv, [Next]_vars
  PROVE  PublishInv'
  <1>1. TypeInv'
    BY TypeInvNext DEF PublishInv
  <1> USE <1>1
  <1>a. TypeOK /\ InHand /\ FileOK /\ CopyOK
    BY DEF PublishInv, TypeInv
  <1>2. ASSUME NEW r \in Runs, Begin(r) PROVE PublishInv'
    <2>1. /\ \A s \in Runs : pc[s] = "idle"
          /\ pc'[r] = "poll"
          /\ \A s \in Runs \ {r} : pc'[s] = "idle"
      BY <1>2, <1>a DEF Begin, Goto, TypeOK
    <2>2. mem'[r] = disk /\ memOffset'[r] = diskOffset
      BY <1>2, <1>a DEF Begin, TypeOK
    <2>3. UNCHANGED <<disk, diskOffset, replies, updates>>
      BY <1>2 DEF Begin, diskVars, worldVars
    <2>4. FileOK'
      BY <2>3, <1>a, FileSame
    <2>5. CopyOK'
      BY <2>1, <2>2, <2>3, <2>4 DEF CopyOK, FileOK, Owed, Pressed
    <2>6. OneRun' /\ NewOnly' /\ Ahead'
      BY <2>1 DEF OneRun, NewOnly, Ahead
    <2> QED
      BY <2>4, <2>5, <2>6 DEF PublishInv
  <1>3. ASSUME NEW r \in Runs, PollOk(r) \/ PollFail(r) PROVE PublishInv'
    <2>1. /\ pc[r] # "idle" /\ pc'[r] = "apply"
          /\ \A s \in Runs \ {r} : pc'[s] = pc[s]
      BY <1>3, <1>a DEF PollOk, PollFail, Goto, TypeOK
    <2>2. UNCHANGED <<disk, diskOffset, replies, updates, mem>>
      BY <1>3 DEF PollOk, PollFail, diskVars
    <2>3. memOffset'[r] >= memOffset[r] /\ memOffset'[r] \in Nat /\ memOffset[r] \in Nat
      BY <1>3, <1>a, ForgottenType DEF PollOk, PollFail, TypeOK
    <2>4. ASSUME NEW i \in Items PROVE Owed(mem[r][i], i, memOffset[r])'
      <3>1. mem[r][i] \in Item /\ Owed(mem[r][i], i, memOffset[r])
        BY <2>1, <1>a DEF TypeOK, CopyOK
      <3>2. Owed(mem[r][i], i, memOffset'[r])
        BY <3>1, <2>3, OwedMonotone
      <3> QED
        BY <3>2, <2>2 DEF Owed, Pressed
    <2>5. FileOK'
      BY <2>2, <1>a, FileSame
    <2>6. \A i \in Items : mem'[r][i].attempts = disk'[i].attempts
      BY <2>1, <2>2, <1>a DEF CopyOK
    <2> QED
      BY <2>1, <2>4, <2>5, <2>6, ActiveStep
  <1>4. ASSUME NEW r \in Runs, ApplyUpdate(r) PROVE PublishInv'
    <2> DEFINE k == memOffset[r] + 1
    <2>1. k \in 1..Len(updates) /\ memOffset[r] \in Nat /\ k - 1 = memOffset[r]
      <3>1. memOffset[r] \in Nat /\ batch[r] \in Nat /\ Len(updates) \in Nat
        BY <1>a DEF TypeOK
      <3>2. memOffset[r] < batch[r] /\ batch[r] <= Len(updates)
        BY <1>4, <1>a DEF ApplyUpdate, InHand
      <3> QED
        BY <3>1, <3>2
    <2>2. updates[k] \in Items \X {"approve", "reject"}
      BY <2>1, <1>a DEF TypeOK
    <2>3. PICK i \in Items, action \in {"approve", "reject"} : updates[k] = <<i, action>>
      BY <2>2
    <2>4. PICK it : it = IF mem[r][i].decision = "unknown" THEN mem[r][i]
                         ELSE Callback(mem[r][i], k, action)
      OBVIOUS
    <2>5. pc[r] = "apply" /\ mem[r][i] \in Item /\ Owed(mem[r][i], i, memOffset[r])
      BY <1>4, <1>a DEF ApplyUpdate, TypeOK, CopyOK
    <2>6. it \in Item /\ it.attempts = mem[r][i].attempts /\ Owed(it, i, k)
      <3>1. CASE mem[r][i].decision = "unknown"
        BY <3>1, <2>1, <2>4, <2>5, OwedMonotone
      <3>2. CASE mem[r][i].decision # "unknown"
        <4>1. Owed(mem[r][i], i, k - 1)
          BY <2>1, <2>5
        <4>2. k \in Nat
          BY <2>1
        <4> HIDE DEF k
        <4>3. it = Callback(mem[r][i], k, action)
          BY <3>2, <2>4
        <4>4. it \in Item /\ it.attempts = mem[r][i].attempts
          BY <4>2, <4>3, <2>5, CallbackType
        <4>5. Owed(it, i, k)
          BY <3>2, <4>1, <4>3, <2>1, <2>3, <2>5, <1>a, CallbackOwed
        <4> QED
          BY <4>4, <4>5
      <3> QED
        BY <3>1, <3>2
    <2>7. SetItem(r, i, it)
      BY <1>4, <2>3, <2>4 DEF ApplyUpdate
    <2>8. mem'[r] = [mem[r] EXCEPT ![i] = it] /\ memOffset'[r] = k
      <3>1. mem'[r] = [mem[r] EXCEPT ![i] = it]
        BY <2>6, <2>7, <1>a, SetItemType
      <3>2. memOffset'[r] = k
        BY <1>4, <1>a DEF ApplyUpdate, TypeOK
      <3> QED
        BY <3>1, <3>2
    <2>9. UNCHANGED <<disk, diskOffset, replies, updates, pc, todo, cur>>
      BY <1>4 DEF ApplyUpdate, diskVars, worldVars
    <2>10. ASSUME NEW j \in Items
           PROVE  mem'[r][j].attempts = disk'[j].attempts /\ Owed(mem[r][j], j, memOffset[r])'
      <3>1. /\ mem[r][j] \in Item /\ mem[r][j].attempts = disk[j].attempts
            /\ Owed(mem[r][j], j, memOffset[r])
        BY <2>5, <1>a DEF TypeOK, CopyOK
      <3>2. Owed(mem[r][j], j, k)
        BY <3>1, <2>1, OwedMonotone
      <3>3. mem'[r][j] = IF j = i THEN it ELSE mem[r][j]
        BY <2>8, <1>a DEF TypeOK
      <3>4. mem'[r][j].attempts = disk[j].attempts /\ Owed(mem'[r][j], j, k)
        BY <3>1, <3>2, <3>3, <2>6
      <3> HIDE DEF k
      <3> QED
        BY <3>4, <2>8, <2>9 DEF Owed, Pressed
    <2>11. FileOK'
      BY <2>9, <1>a, FileSame
    <2> HIDE DEF k
    <2> QED
      BY <2>5, <2>9, <2>10, <2>11, ActiveStep
  <1>5. ASSUME NEW r \in Runs, EndPoll(r) \/ EndPollPaused(r) \/ EndPublish(r) \/ ScanOk(r)
        PROVE  PublishInv'
    <2>1. /\ pc[r] # "idle"
          /\ pc'[r] \in {"publish", "retry", "register"}
          /\ \A s \in Runs \ {r} : pc'[s] = pc[s]
          /\ pc'[r] = "register" => \A j \in todo'[r] : mem[r][j].decision = "unknown"
      BY <1>5, <1>a DEF EndPoll, EndPollPaused, EndPublish, Ranked, ScanOk, Goto, TypeOK
    <2>2. UNCHANGED <<disk, diskOffset, replies, updates, mem, memOffset>>
      BY <1>5 DEF EndPoll, EndPollPaused, EndPublish, ScanOk, diskVars, worldVars
    <2> QED
      BY <2>1, <2>2, QuietStep
  <1>6. ASSUME NEW r \in Runs, NEW i \in Items, LockItem(r, i) PROVE PublishInv'
    <2> DEFINE it == Acquire(mem[r][i], i \in stale)
    <2>1. pc[r] = "publish" /\ Acquires(mem[r][i], i \in stale)
      BY <1>6 DEF LockItem
    <2>2. mem[r] \in [Items -> Item] /\ memOffset[r] \in Nat /\ (i \in stale) \in BOOLEAN
      BY <1>a DEF TypeOK
    <2>3. \A j \in Items : /\ mem[r][j].attempts = disk[j].attempts
                           /\ Owed(mem[r][j], j, memOffset[r])
      BY <2>1, <1>a DEF CopyOK
    <2>4. /\ it \in Item /\ Owed(it, i, memOffset[r])
          /\ it.attempts = mem[r][i].attempts + 1
          /\ mem[r][i].attempts < MaxAttempts
      <3>1. mem[r][i] \in Item /\ Owed(mem[r][i], i, memOffset[r])
        BY <2>2, <2>3
      <3>2. Owed(it, i, memOffset[r])
        BY <3>1, <2>2, AcquireOwed
      <3> QED
        BY <3>1, <3>2, <2>1, <2>2, AcquireType
    <2>5. /\ SetItem(r, i, it) /\ Goto(r, "locked", i, todo[r] \ {i})
          /\ UNCHANGED <<memOffset, batch, worldVars>>
          /\ disk' = mem'[r] /\ diskOffset' = memOffset[r]
      BY <1>6 DEF LockItem, SaveState
    <2> HIDE DEF it
    <2>6. mem'[r] = [mem[r] EXCEPT ![i] = it]
      BY <2>4, <2>5, <1>a, SetItemType
    <2>7. \A j \in Items : mem'[r][j] = IF j = i THEN it ELSE mem[r][j]
      BY <2>2, <2>6
    <2>8. /\ pc'[r] = "locked" /\ cur'[r] = i
          /\ \A s \in Runs \ {r} : pc'[s] = pc[s]
      BY <2>5, <1>a DEF Goto, TypeOK
    <2>9. UNCHANGED <<replies, updates, memOffset>>
      BY <2>5 DEF worldVars
    <2>10. ASSUME NEW j \in Items
           PROVE  Owed(mem[r][j], j, memOffset[r])' /\ Owed(disk[j], j, diskOffset)'
      <3>1. Owed(mem'[r][j], j, memOffset[r])
        BY <2>3, <2>4, <2>7
      <3> QED
        BY <3>1, <2>5, <2>9 DEF Owed, Pressed
    <2>11. ASSUME NEW j \in Items
           PROVE  disk'[j].attempts <= MaxAttempts /\ replies'[j] <= disk'[j].attempts
      <3>1. /\ disk[j].attempts \in Nat /\ replies[j] \in Nat /\ MaxAttempts \in Nat
            /\ disk[j].attempts <= MaxAttempts /\ replies[j] <= disk[j].attempts
        BY <1>a, AttemptAssumption DEF TypeOK, Item, FileOK
      <3>2. disk'[j].attempts = IF j = i THEN disk[j].attempts + 1 ELSE disk[j].attempts
        BY <2>3, <2>4, <2>5, <2>7
      <3> QED
        BY <3>1, <3>2, <2>3, <2>4, <2>9
    <2>12. replies'[i] < disk'[i].attempts
      <3>1. replies[i] <= disk[i].attempts /\ replies[i] \in Nat /\ disk[i].attempts \in Nat
        BY <1>a DEF TypeOK, Item, FileOK
      <3>2. disk'[i].attempts = disk[i].attempts + 1
        BY <2>3, <2>4, <2>5, <2>7
      <3> QED
        BY <3>1, <3>2, <2>9
    <2>13. FileOK'
      BY <2>10, <2>11 DEF FileOK
    <2> QED
      BY <2>1, <2>5, <2>8, <2>10, <2>12, <2>13, ActiveStep
  <1>7. ASSUME NEW r \in Runs, NEW i \in Items, SkipItem(r, i) PROVE PublishInv'
    <2> DEFINE it == Acquire(mem[r][i], i \in stale)
    <2>1. /\ pc[r] = "publish" /\ mem[r][i] \in Item /\ memOffset[r] \in Nat
          /\ Owed(mem[r][i], i, memOffset[r])
          /\ (i \in stale) \in BOOLEAN
          /\ ~Acquires(mem[r][i], i \in stale)
      <3>1. pc[r] = "publish" /\ ~Acquires(mem[r][i], i \in stale)
        BY <1>7 DEF SkipItem
      <3>2. mem[r][i] \in Item /\ memOffset[r] \in Nat
        BY <1>a DEF TypeOK
      <3>3. Owed(mem[r][i], i, memOffset[r])
        BY <3>1, <1>a DEF CopyOK
      <3> QED
        BY <3>1, <3>2, <3>3
    <2>2. it \in Item /\ it.attempts = mem[r][i].attempts /\ Owed(it, i, memOffset[r])
      BY <2>1, AcquireType, AcquireOwed
    <2> HIDE DEF it
    <2>3. SetItem(r, i, it) /\ Goto(r, "publish", NoItem, todo[r] \ {i})
      BY <1>7 DEF SkipItem, it
    <2>4. mem'[r] = [mem[r] EXCEPT ![i] = it]
      BY <2>2, <2>3, <1>a, SetItemType
    <2>5. pc'[r] = "publish" /\ \A s \in Runs \ {r} : pc'[s] = pc[s]
      BY <2>3, <1>a DEF Goto, TypeOK
    <2>6. UNCHANGED <<disk, diskOffset, replies, updates, memOffset>>
      BY <1>7 DEF SkipItem, diskVars, worldVars
    <2> QED
      BY <2>1, <2>2, <2>4, <2>5, <2>6, CopyStep
  <1>8. ASSUME NEW r \in Runs, NEW outcome \in {"ok", "unverified", "failed"},
               pc[r] \in {"locked", "submitted"}, Finished(r, outcome), UNCHANGED worldVars
        PROVE  PublishInv'
    <2> DEFINE it == Complete(mem[r][cur[r]], outcome)
    <2>1. /\ cur[r] \in Items /\ mem[r][cur[r]] \in Item /\ memOffset[r] \in Nat
          /\ mem[r][cur[r]].decision = "publishing"
          /\ Owed(mem[r][cur[r]], cur[r], memOffset[r])
      BY <1>8, <1>a DEF InHand, TypeOK, CopyOK
    <2>2. /\ it \in Item /\ it.attempts = mem[r][cur[r]].attempts
          /\ Owed(it, cur[r], memOffset[r])
      BY <2>1, CompleteType, CompleteOwed
    <2> HIDE DEF it
    <2>3. SetItem(r, cur[r], it) /\ Goto(r, "publish", NoItem, todo[r])
      BY <1>8 DEF Finished, it
    <2>4. mem'[r] = [mem[r] EXCEPT ![cur[r]] = it]
      BY <2>1, <2>2, <2>3, <1>a, SetItemType
    <2>5. pc'[r] = "publish" /\ \A s \in Runs \ {r} : pc'[s] = pc[s]
      BY <2>3, <1>a DEF Goto, TypeOK
    <2>6. UNCHANGED <<disk, diskOffset, replies, updates, memOffset>>
      BY <1>8 DEF Finished, diskVars, worldVars
    <2> QED
      BY <1>8, <2>1, <2>2, <2>4, <2>5, <2>6, CopyStep
  <1>9. ASSUME NEW r \in Runs, FailBeforeSubmit(r) \/ FindReply(r) \/ Verify(r)
        PROVE  PublishInv'
    BY <1>8, <1>9 DEF FailBeforeSubmit, FindReply, Verify
  <1>10. ASSUME NEW r \in Runs, StopPublishing(r) PROVE PublishInv'
    <2> DEFINE it == Complete(mem[r][cur[r]], "failed")
    <2>1. pc[r] = "locked" /\ cur[r] \in Items /\ mem[r][cur[r]].decision = "publishing"
      BY <1>10, <1>a DEF StopPublishing, InHand
    <2>2. mem[r] \in [Items -> Item] /\ memOffset[r] \in Nat
      BY <1>a DEF TypeOK
    <2>3. \A j \in Items : /\ mem[r][j].attempts = disk[j].attempts
                           /\ Owed(mem[r][j], j, memOffset[r])
      BY <2>1, <1>a DEF CopyOK
    <2>4. it.attempts = mem[r][cur[r]].attempts /\ Owed(it, cur[r], memOffset[r])
      <3>1. mem[r][cur[r]] \in Item /\ Owed(mem[r][cur[r]], cur[r], memOffset[r])
        BY <2>1, <2>2, <2>3
      <3> QED
        BY <3>1, <2>1, <2>2, CompleteType, CompleteOwed
    <2>5. /\ disk' = [mem[r] EXCEPT ![cur[r]] = it] /\ diskOffset' = memOffset[r]
          /\ Leave(r) /\ UNCHANGED worldVars
      BY <1>10 DEF StopPublishing
    <2> HIDE DEF it
    <2>6. \A j \in Items : disk'[j] = IF j = cur[r] THEN it ELSE mem[r][j]
      BY <2>2, <2>5
    <2>7. UNCHANGED <<replies, updates>> /\ pc'[r] = "idle"
          /\ \A s \in Runs \ {r} : pc'[s] = pc[s]
      BY <2>5, <1>a DEF Leave, Goto, worldVars, TypeOK
    <2>8. \A j \in Items : disk'[j].attempts = disk[j].attempts
      BY <2>3, <2>4, <2>6
    <2>9. \A j \in Items : Owed(disk'[j], j, memOffset[r])
      BY <2>3, <2>4, <2>6
    <2>10. \A j \in Items : Owed(disk[j], j, diskOffset)'
      BY <2>9, <2>5, <2>7 DEF Owed, Pressed
    <2>11. FileOK'
      BY <2>7, <2>8, <2>10, FileSaved
    <2> QED
      BY <2>1, <2>7, <2>11, ActiveStep
  <1>11. ASSUME NEW r \in Runs, Submit(r) PROVE PublishInv'
    <2>1. pc[r] = "locked" /\ cur[r] \in Items /\ replies[cur[r]] < disk[cur[r]].attempts
      BY <1>11, <1>a DEF Submit, InHand, PublishInv, Ahead
    <2>2. /\ UNCHANGED <<disk, diskOffset, updates, mem, memOffset>>
          /\ pc'[r] = "submitted" /\ \A s \in Runs \ {r} : pc'[s] = pc[s]
      BY <1>11, <1>a DEF Submit, Goto, TypeOK, diskVars
    <2>3. ASSUME NEW j \in Items PROVE replies'[j] <= disk'[j].attempts
      <3>1. /\ replies[j] \in Nat /\ replies[cur[r]] \in Nat /\ disk[j].attempts \in Nat
            /\ replies[j] <= disk[j].attempts
        BY <2>1, <1>a DEF TypeOK, Item, FileOK
      <3>2. PICK landed \in {0, 1} : replies' = [replies EXCEPT ![cur[r]] = @ + landed]
        BY <1>11 DEF Submit
      <3>3. replies'[j] = IF j = cur[r] THEN replies[j] + landed ELSE replies[j]
        BY <3>2, <1>a DEF TypeOK
      <3> QED
        BY <3>1, <3>3, <2>1, <2>2
    <2>4. FileOK'
      BY <2>2, <2>3, <1>a DEF FileOK, Owed, Pressed
    <2>5. \A j \in Items : /\ mem[r][j].attempts = disk[j].attempts
                           /\ Owed(mem[r][j], j, memOffset[r])
      BY <2>1, <1>a DEF CopyOK
    <2>6. \A j \in Items : Owed(mem[r][j], j, memOffset[r])'
      BY <2>5, <2>2 DEF Owed, Pressed
    <2> QED
      BY <2>1, <2>2, <2>4, <2>5, <2>6, ActiveStep
  <1>12. ASSUME NEW r \in Runs, pc[r] # "idle", SaveState(r), UNCHANGED <<mem, memOffset>>,
                UNCHANGED <<replies, updates>>,
                \A s \in Runs \ {r} : pc'[s] = pc[s], pc'[r] \in {"resending", "scan"}
         PROVE  PublishInv'
    <2>1. \A j \in Items : /\ mem[r][j].attempts = disk[j].attempts
                           /\ Owed(mem[r][j], j, memOffset[r])
      BY <1>12, <1>a DEF CopyOK
    <2>2. \A j \in Items : /\ Owed(mem[r][j], j, memOffset[r])'
                           /\ Owed(disk[j], j, diskOffset)'
      BY <2>1, <1>12 DEF SaveState, Owed, Pressed
    <2>3. \A j \in Items : /\ disk'[j].attempts = disk[j].attempts
                           /\ mem'[r][j].attempts = disk'[j].attempts
      BY <2>1, <1>12 DEF SaveState
    <2>4. FileOK'
      BY <2>2, <2>3, <1>12, FileSaved
    <2> QED
      BY <2>2, <2>3, <2>4, <1>12, ActiveStep
  <1>13. ASSUME NEW r \in Runs, NEW i \in Items, RetrySave(r, i) PROVE PublishInv'
    <2>1. /\ pc[r] # "idle" /\ pc'[r] = "resending"
          /\ \A s \in Runs \ {r} : pc'[s] = pc[s]
      BY <1>13, <1>a DEF RetrySave, Goto, TypeOK
    <2> QED
      BY <2>1, <1>12, <1>13 DEF RetrySave, worldVars
  <1>14. ASSUME NEW r \in Runs, EndRetry(r) PROVE PublishInv'
    <2>1. /\ pc[r] # "idle" /\ pc'[r] = "scan"
          /\ \A s \in Runs \ {r} : pc'[s] = pc[s]
      BY <1>14, <1>a DEF EndRetry, Goto, TypeOK
    <2>2. CASE SaveState(r)
      BY <2>1, <2>2, <1>12, <1>14 DEF EndRetry, worldVars
    <2>3. CASE UNCHANGED diskVars
      BY <2>1, <2>3, <1>14, QuietStep DEF EndRetry, worldVars, diskVars
    <2> QED
      BY <2>2, <2>3, <1>14 DEF EndRetry
  <1>15. ASSUME NEW r \in Runs, RetrySend(r) \/ SendNew(r) PROVE PublishInv'
    <2>1. pc[r] \in {"resending", "sending"} /\ cur[r] \in Items /\ SendApproval(r)
      BY <1>15, <1>a DEF RetrySend, SendNew, InHand
    <2>2. /\ mem[r][cur[r]] \in Item /\ memOffset[r] \in Nat
          /\ Owed(mem[r][cur[r]], cur[r], memOffset[r])
      BY <2>1, <1>a DEF TypeOK, CopyOK
    <2>3. PICK it \in {MarkSent(mem[r][cur[r]]), [mem[r][cur[r]] EXCEPT !.tg = "retryable"]} :
            SetItem(r, cur[r], it)
      BY <2>1 DEF SendApproval
    <2>4. /\ it \in Item /\ it.attempts = mem[r][cur[r]].attempts
          /\ Owed(it, cur[r], memOffset[r])
          /\ mem[r][cur[r]].decision = "unknown" => it.decision = "unknown"
      <3>1. [mem[r][cur[r]] EXCEPT !.tg = "retryable"].attempts = mem[r][cur[r]].attempts
            /\ [mem[r][cur[r]] EXCEPT !.tg = "retryable"].decision = mem[r][cur[r]].decision
        BY <2>2 DEF Item
      <3>2. CASE it = MarkSent(mem[r][cur[r]])
        BY <3>2, <2>1, <2>2, MarkSentType, SendOwed
      <3>3. CASE it = [mem[r][cur[r]] EXCEPT !.tg = "retryable"]
        BY <3>1, <3>3, <2>1, <2>2, MarkSentType, SendOwed
      <3> QED
        BY <3>2, <3>3, <2>3
    <2>5. mem'[r] = [mem[r] EXCEPT ![cur[r]] = it]
      BY <2>1, <2>3, <2>4, <1>a, SetItemType
    <2>6. /\ UNCHANGED <<disk, diskOffset, replies, updates, memOffset>>
          /\ pc'[r] \in {"retried", "register"} /\ todo'[r] = todo[r]
          /\ pc'[r] = "register" => pc[r] = "sending"
          /\ \A s \in Runs \ {r} : pc'[s] = pc[s]
      BY <1>15, <1>a DEF RetrySend, SendNew, Goto, TypeOK, diskVars
    <2>7. pc'[r] = "register" => \A j \in todo'[r] : mem'[r][j].decision = "unknown"
      BY <2>4, <2>5, <2>6, <1>a DEF PublishInv, NewOnly, TypeOK
    <2> QED
      BY <2>1, <2>4, <2>5, <2>6, <2>7, CopyStep
  <1>16. ASSUME NEW r \in Runs, NEW i \in Items, Register(r, i) PROVE PublishInv'
    <2> DEFINE it == NewItem("proposed")
    <2>1. /\ pc[r] = "register" /\ mem[r] \in [Items -> Item] /\ it \in Item
          /\ \A j \in todo[r] : mem[r][j].decision = "unknown"
          /\ i \in todo[r]
      BY <1>16, <1>a, NewItemType DEF Register, TypeOK, PublishInv, NewOnly
    <2>2. \A j \in Items : /\ mem[r][j].attempts = disk[j].attempts
                           /\ Owed(mem[r][j], j, memOffset[r])
      BY <2>1, <1>a DEF CopyOK
    <2>3. it.attempts = mem[r][i].attempts /\ Owed(it, i, memOffset[r])
      BY <2>1, <2>2 DEF Owed, NewItem
    <2>4. /\ SetItem(r, i, it) /\ Goto(r, "sending", i, todo[r] \ {i})
          /\ disk' = mem'[r] /\ diskOffset' = memOffset[r]
          /\ UNCHANGED <<memOffset, worldVars>>
      BY <1>16 DEF Register, SaveState
    <2> HIDE DEF it
    <2>5. mem'[r] = [mem[r] EXCEPT ![i] = it]
      BY <2>1, <2>4, <1>a, SetItemType
    <2>6. \A j \in Items : mem'[r][j] = IF j = i THEN it ELSE mem[r][j]
      BY <2>1, <2>5
    <2>7. /\ pc'[r] = "sending" /\ todo'[r] = todo[r] \ {i}
          /\ \A s \in Runs \ {r} : pc'[s] = pc[s]
          /\ UNCHANGED <<replies, updates>>
      BY <2>4, <1>a DEF Goto, TypeOK, worldVars
    <2>8. \A j \in Items : Owed(mem'[r][j], j, memOffset[r])
      BY <2>2, <2>3, <2>6
    <2>9. \A j \in Items : /\ Owed(mem[r][j], j, memOffset[r])'
                           /\ Owed(disk[j], j, diskOffset)'
      BY <2>8, <2>4, <2>7 DEF Owed, Pressed
    <2>10. \A j \in Items : /\ disk'[j].attempts = disk[j].attempts
                            /\ mem'[r][j].attempts = disk'[j].attempts
      BY <2>2, <2>3, <2>4, <2>6
    <2>11. FileOK'
      BY <2>7, <2>9, <2>10, FileSaved
    <2>12. \A j \in todo'[r] : mem'[r][j].decision = "unknown"
      BY <2>1, <2>6, <2>7, <1>a DEF TypeOK
    <2> QED
      BY <2>1, <2>7, <2>9, <2>10, <2>11, <2>12, ActiveStep
  <1>17. ASSUME NEW r \in Runs, ScanStop(r) \/ Finish(r) PROVE PublishInv'
    <2>1. /\ pc[r] # "idle" /\ Leave(r) /\ UNCHANGED worldVars
          /\ disk' = mem[r] /\ diskOffset' = memOffset[r]
      BY <1>17 DEF ScanStop, Finish, SaveAndLeave
    <2>2. \A j \in Items : /\ mem[r][j].attempts = disk[j].attempts
                           /\ Owed(mem[r][j], j, memOffset[r])
      BY <2>1, <1>a DEF CopyOK
    <2>3. UNCHANGED <<replies, updates>> /\ pc'[r] = "idle"
          /\ \A s \in Runs \ {r} : pc'[s] = pc[s]
      BY <2>1, <1>a DEF Leave, Goto, worldVars, TypeOK
    <2>4. \A j \in Items : disk'[j].attempts = disk[j].attempts /\ Owed(disk[j], j, diskOffset)'
      BY <2>1, <2>2, <2>3 DEF Owed, Pressed
    <2>5. FileOK'
      BY <2>3, <2>4, FileSaved
    <2> QED
      BY <2>1, <2>3, <2>5, ActiveStep
  <1>18. ASSUME NEW r \in Runs, Abort(r) PROVE PublishInv'
    <2>1. UNCHANGED <<disk, diskOffset, replies, updates>> /\ pc'[r] = "idle" /\ pc[r] # "idle"
          /\ \A s \in Runs \ {r} : pc'[s] = pc[s]
      BY <1>18, <1>a DEF Abort, Leave, Goto, worldVars, diskVars, TypeOK
    <2> QED
      BY <2>1, <1>a, FileSame, ActiveStep
  <1>19. ASSUME NEW i \in Items, NEW action \in {"approve", "reject"}, Press(i, action)
         PROVE  PublishInv'
    <2>1. updates' = Append(updates, <<i, action>>)
      BY <1>19 DEF Press
    <2>2. UNCHANGED <<disk, diskOffset, replies, mem, memOffset, pc, cur, todo>>
      BY <1>19 DEF Press, runVars, diskVars
    <2>3. ASSUME NEW it, NEW j \in Items, NEW n \in Nat, Owed(it, j, n)
          PROVE  Owed(it, j, n)'
      BY <2>1, <2>3, <1>a, OwedPress
    <2>4. ASSUME NEW j \in Items PROVE Owed(disk[j], j, diskOffset)'
      <3>1. PICK it \in Item, n \in Nat : it = disk[j] /\ n = diskOffset
        BY <1>a DEF TypeOK
      <3>2. Owed(it, j, n)'
        BY <3>1, <2>3, <1>a DEF FileOK
      <3> QED
        BY <3>1, <3>2, <2>2 DEF Owed, Pressed
    <2>5. ASSUME NEW r \in Runs, NEW j \in Items, pc[r] # "idle"
          PROVE  Owed(mem[r][j], j, memOffset[r])'
      <3>1. PICK it \in Item, n \in Nat : it = mem[r][j] /\ n = memOffset[r]
        BY <1>a DEF TypeOK
      <3>2. Owed(it, j, n)'
        BY <3>1, <2>3, <2>5, <1>a DEF CopyOK
      <3> QED
        BY <3>1, <3>2, <2>2 DEF Owed, Pressed
    <2>6. FileOK'
      BY <2>2, <2>4, <1>a DEF FileOK
    <2>7. CopyOK'
      BY <2>2, <2>5, <1>a DEF CopyOK
    <2>8. OneRun' /\ NewOnly' /\ Ahead'
      BY <2>2 DEF PublishInv, OneRun, NewOnly, Ahead
    <2> QED
      BY <2>6, <2>7, <2>8 DEF PublishInv
  <1>20. CASE UNCHANGED vars \/ \E i \in Items : Age(i) \/ AnswerByHand(i)
    <2>1. UNCHANGED <<disk, diskOffset, replies, updates, mem, memOffset, pc, cur, todo>>
      BY <1>20 DEF vars, Age, AnswerByHand, runVars, diskVars, worldVars
    <2> QED
      BY <2>1, <1>a DEF PublishInv, OneRun, FileOK, CopyOK, NewOnly, Ahead, Owed, Pressed
  <1>21. ASSUME NEW r \in Runs, RunStep(r) PROVE PublishInv'
    BY <1>21, <1>3, <1>4, <1>5, <1>6, <1>7, <1>9, <1>10, <1>11, <1>13, <1>14, <1>15,
       <1>16, <1>17 DEF RunStep
  <1> QED
    BY <1>2, <1>18, <1>19, <1>20, <1>21 DEF Next

(***************************************************************************)
(* The publish lock is written ahead of the click: with one run at a time  *)
(* the file never records fewer attempts than LinkedIn received replies,   *)
(* nor more than the limit, wherever the runs end and whether or not the   *)
(* page shows the replies of earlier runs.                                 *)
(***************************************************************************)
THEOREM WriteAhead == ASSUME Exclusive PROVE Spec => []RepliesWithinAttempts
  <1>1. PublishInv => RepliesWithinAttempts
    BY DEF PublishInv, FileOK, RepliesWithinAttempts
  <1>2. PublishInv /\ [Next]_vars => PublishInv'
    BY PublishInvNext
  <1>3. QED
    BY <1>1, <1>2, PublishInvInit, PTL DEF Spec

(***************************************************************************)
(* Nothing is posted that the owner did not approve: a reply LinkedIn      *)
(* received has an "approve" press among those the state file has read.    *)
(***************************************************************************)
THEOREM OnlyApprovedPosted == ASSUME Exclusive PROVE Spec => []PostedOnlyApproved
  <1>1. PublishInv => PostedOnlyApproved
    <2> SUFFICES ASSUME PublishInv, NEW i \in Items, replies[i] > 0
                 PROVE  Pressed(i, "approve", diskOffset)
      BY DEF PostedOnlyApproved
    <2>1. /\ replies[i] \in Nat /\ disk[i].attempts \in Nat
          /\ replies[i] <= disk[i].attempts /\ Owed(disk[i], i, diskOffset)
      BY DEF PublishInv, TypeInv, TypeOK, Item, FileOK
    <2>2. disk[i].attempts > 0
      BY <2>1
    <2> QED
      BY <2>1, <2>2 DEF Owed
  <1>2. PublishInv /\ [Next]_vars => PublishInv'
    BY PublishInvNext
  <1>3. QED
    BY <1>1, <1>2, PublishInvInit, PTL DEF Spec

----------------------------------------------------------------------------
(* What the file and a run's copy say of the presses and of LinkedIn.      *)

Presses == Seq(Items \X {"approve", "reject"})

\* Press k is a rejection of i, and no approval of i came before it.
RejectedFirst(u, i, k) ==
  u[k] = <<i, "reject">> /\ \A j \in 1..k : u[j] # <<i, "approve">>

\* The record of item i in a copy that has read the first n of the presses u is
\* true: s requests for i reached the owner, p replies reached LinkedIn.
Honest(it, i, n, u, s, p) ==
  /\ it.decision = "published" => p > 0
  /\ it.seen \subseteq 1..n /\ \A k \in 1..n : u[k][1] = i => k \in it.seen
  /\ \A k \in 1..n : RejectedFirst(u, i, k) =>
       it.attempts = 0 /\ it.decision \in {"rejected", "published", "publish_failed"}
  /\ it.decision = "unknown" => s = 0 /\ \A k \in 1..Len(u) : u[k][1] # i
  /\ it.decision \in {"unknown", "proposed", "sent_to_telegram", "approved"} =>
       it.attempts < MaxAttempts

\* Reading a press of i ...
LEMMA HonestCallback ==
  ASSUME NEW it \in Item, it.decision # "unknown", NEW u \in Presses, NEW k \in 1..Len(u),
         NEW i \in Items, NEW action \in {"approve", "reject"}, u[k] = <<i, action>>,
         NEW s, NEW p, Honest(it, i, k - 1, u, s, p),
         \/ it.attempts = 0 /\ it.decision \notin {"approved", "publishing"}
         \/ \E j \in 1..(k - 1) : u[j] = <<i, "approve">>
  PROVE  Honest(Callback(it, k, action), i, k, u, s, p)
  <1> DEFINE new == Callback(it, k, action)
             asked == {"proposed", "sent_to_telegram"}
  <1>1. k \in Nat /\ k - 1 \in Nat /\ Len(u) \in Nat /\ 1..k = (1..(k - 1)) \cup {k}
        /\ k \notin 1..(k - 1)
    BY DEF Presses
  <1>2. new \in Item /\ new.attempts = it.attempts
    BY <1>1, CallbackType
  <1>3. k \notin it.seen
    BY <1>1 DEF Honest
  <1>4. new.seen = it.seen \cup {k}
    BY <1>3 DEF Callback, Item
  <1>5. /\ new.decision \in {it.decision, "approved", "rejected"}
        /\ new.decision = "approved" => it.decision \in asked \cup {"approved"}
        /\ it.decision \in {"rejected", "published", "publish_failed"} => new.decision = it.decision
        /\ (action = "reject" /\ it.decision \in asked) => new.decision = "rejected"
    BY <1>3 DEF Callback, Item
  <1> HIDE DEF new
  <1>6. new.seen \subseteq 1..k /\ \A j \in 1..k : u[j][1] = i => j \in new.seen
    BY <1>1, <1>4 DEF Honest
  <1>7. ASSUME NEW j \in 1..k, RejectedFirst(u, i, j)
        PROVE  new.attempts = 0 /\ new.decision \in {"rejected", "published", "publish_failed"}
    <2>1. CASE j \in 1..(k - 1)
      BY <1>2, <1>5, <1>7, <2>1 DEF Honest
    <2>2. CASE j = k
      <3>1. action = "reject" /\ \A m \in 1..(k - 1) : u[m] # <<i, "approve">>
        BY <1>1, <1>7, <2>2 DEF RejectedFirst
      <3>2. it.attempts = 0 /\ it.decision \notin {"approved", "publishing"}
        BY <3>1
      <3>3. it.decision \in asked \cup {"rejected", "published", "publish_failed"}
        BY <3>2 DEF Item, Decisions
      <3> QED
        BY <1>2, <1>5, <3>1, <3>2, <3>3
    <2> QED
      BY <1>1, <2>1, <2>2
  <1>8. new.decision \in {"unknown", "proposed", "sent_to_telegram", "approved"} =>
          it.attempts < MaxAttempts
    BY <1>5 DEF Honest
  <1>9. new.decision # "unknown" /\ (new.decision = "published" => p > 0)
    BY <1>5 DEF Honest
  <1>10. Honest(new, i, k, u, s, p)
    BY <1>2, <1>6, <1>7, <1>8, <1>9 DEF Honest
  <1> QED
    BY <1>10 DEF new

\* ... leaves what the copy says of the other items true.
LEMMA HonestOther ==
  ASSUME NEW it, NEW u \in Presses, NEW k \in 1..Len(u), NEW i, u[k][1] # i,
         NEW s, NEW p, Honest(it, i, k - 1, u, s, p)
  PROVE  Honest(it, i, k, u, s, p)
  <1>1. k \in Nat /\ 1..k = (1..(k - 1)) \cup {k}
    BY DEF Presses
  <1>2. ~RejectedFirst(u, i, k)
    BY DEF RejectedFirst
  <1> QED
    BY <1>1, <1>2 DEF Honest

\* acquire_publish_lock, complete_publish_attempt and the sending of a request.
LEMMA HonestAcquire ==
  ASSUME NEW it \in Item, NEW isStale \in BOOLEAN, NEW i, NEW n, NEW u, NEW s, NEW p,
         Honest(it, i, n, u, s, p)
  PROVE  Honest(Acquire(it, isStale), i, n, u, s, p)
  <1> DEFINE new == Acquire(it, isStale)
             rec == Recovered(it, isStale)
  <1>1. new = it \/ (/\ it.decision \in {"approved", "publishing"} /\ new.seen = it.seen
                     /\ new.decision \in {"publishing", "publish_failed"})
    <2>1. rec = it \/ (/\ it.decision = "publishing" /\ rec.decision = "approved"
                       /\ rec.seen = it.seen /\ rec \in Item)
      BY RecoveredType DEF Recovered, CloseAttempt, Item
    <2> HIDE DEF rec
    <2>2. new = CASE rec.decision # "approved" -> rec
                  [] rec.decision = "approved" /\ rec.attempts >= MaxAttempts ->
                       [rec EXCEPT !.decision = "publish_failed"]
                  [] OTHER -> [rec EXCEPT !.decision = "publishing", !.attempts = @ + 1, !.open = TRUE]
      BY DEF Acquire, rec
    <2>3. rec.decision = "approved" => new.seen = rec.seen /\ new.decision \in {"publishing", "publish_failed"}
      BY <2>1, <2>2 DEF Item
    <2> HIDE DEF new
    <2> QED
      BY <2>1, <2>2, <2>3
  <1> HIDE DEF new
  <1>2. Honest(new, i, n, u, s, p)
    BY <1>1 DEF Honest
  <1> QED
    BY <1>2 DEF new

LEMMA HonestComplete ==
  ASSUME NEW it \in Item, it.decision = "publishing", NEW i, NEW n, NEW u, NEW s, NEW p,
         NEW outcome \in {"ok", "unverified", "failed"}, outcome = "ok" => p > 0,
         Honest(it, i, n, u, s, p)
  PROVE  /\ Honest(Complete(it, outcome), i, n, u, s, p)
         /\ Complete(it, outcome).decision \in {"approved", "published", "publish_failed"}
         /\ outcome # "failed" => Complete(it, outcome).decision \in {"published", "publish_failed"}
  <1> DEFINE new == Complete(it, outcome)
  <1>1. CloseAttempt(it).attempts = it.attempts /\ CloseAttempt(it).seen = it.seen
        /\ it.attempts \in Nat /\ MaxAttempts \in Nat
    BY AttemptAssumption DEF CloseAttempt, Item
  <1>2. /\ new.seen = it.seen
        /\ new.decision \in {"approved", "published", "publish_failed"}
        /\ new.decision = "published" => outcome = "ok"
        /\ outcome # "failed" => new.decision # "approved"
        /\ new.decision = "approved" => ~(CloseAttempt(it).attempts >= MaxAttempts)
    BY DEF Complete, CloseAttempt, Item
  <1>3. new.attempts = it.attempts
    BY CompleteType
  <1> HIDE DEF new
  <1>4. Honest(new, i, n, u, s, p)
    BY <1>1, <1>2, <1>3 DEF Honest
  <1> QED
    BY <1>2, <1>4 DEF new

LEMMA HonestSend ==
  ASSUME NEW it \in Item, it.decision = "proposed", NEW i, NEW n, NEW u, NEW s, NEW p, NEW t,
         Honest(it, i, n, u, s, p)
  PROVE  /\ Honest(MarkSent(it), i, n, u, t, p)
         /\ Honest([it EXCEPT !.tg = "retryable"], i, n, u, t, p)
         /\ MarkSent(it).decision = "sent_to_telegram"
         /\ [it EXCEPT !.tg = "retryable"].decision = "proposed"
  <1>1. ASSUME NEW new \in {MarkSent(it), [it EXCEPT !.tg = "retryable"]}
        PROVE  Honest(new, i, n, u, t, p)
    <2>1. /\ new.decision \in {"proposed", "sent_to_telegram"}
          /\ new.attempts = it.attempts /\ new.seen = it.seen
      BY DEF MarkSent, Item
    <2> QED
      BY <2>1 DEF Honest
  <1>2. /\ MarkSent(it).decision = "sent_to_telegram"
        /\ [it EXCEPT !.tg = "retryable"].decision = "proposed"
    BY DEF MarkSent, Item
  <1> QED
    BY <1>1, <1>2

\* A comment that is not in the file has no request and no press.
LEMMA HonestNew ==
  ASSUME NEW it \in Item, it.decision = "unknown", NEW i \in Items, NEW u \in Presses,
         NEW n \in 0..Len(u), NEW s, NEW p, Honest(it, i, n, u, s, p)
  PROVE  Honest(NewItem("proposed"), i, n, u, s, p)
  <1>1. \A k \in 1..n : k \in 1..Len(u) /\ u[k][1] # i
    BY DEF Honest, Presses
  <1>2. \A k \in 1..n : ~RejectedFirst(u, i, k)
    BY <1>1 DEF RejectedFirst
  <1>3. /\ NewItem("proposed").decision = "proposed" /\ NewItem("proposed").attempts = 0
        /\ NewItem("proposed").seen = {}
    BY DEF NewItem
  <1>4. 0 < MaxAttempts
    BY AttemptAssumption
  <1> QED
    BY <1>1, <1>2, <1>3, <1>4 DEF Honest

\* More replies, and more requests for an item in the file, change nothing.
LEMMA HonestWorld ==
  ASSUME NEW it, NEW i, NEW n, NEW u, NEW s, NEW p \in Nat, NEW t, NEW q \in Nat, q >= p,
         it.decision = "unknown" => t = s, Honest(it, i, n, u, s, p)
  PROVE  Honest(it, i, n, u, t, q)
  BY DEF Honest

\* A press that is not read yet.
LEMMA HonestPress ==
  ASSUME NEW it, NEW i, NEW u \in Presses, NEW n \in 0..Len(u), NEW s \in Nat, NEW p,
         NEW j \in Items, NEW action \in {"approve", "reject"}, (j = i) => s > 0,
         Honest(it, i, n, u, s, p)
  PROVE  Honest(it, i, n, Append(u, <<j, action>>), s, p)
  <1> DEFINE v == Append(u, <<j, action>>)
  <1>1. /\ Len(u) \in Nat /\ Len(v) = Len(u) + 1 /\ v[Len(u) + 1] = <<j, action>>
        /\ \A k \in 1..Len(u) : v[k] = u[k]
    BY DEF Presses
  <1> HIDE DEF v
  <1>2. \A k \in 1..n : k \in 1..Len(u) /\ v[k] = u[k] /\ \A m \in 1..k : v[m] = u[m]
    BY <1>1
  <1>3. \A k \in 1..n : RejectedFirst(v, i, k) => RejectedFirst(u, i, k)
    BY <1>2 DEF RejectedFirst
  <1>4. it.decision = "unknown" => s = 0 /\ \A k \in 1..Len(v) : v[k][1] # i
    <2> SUFFICES ASSUME it.decision = "unknown", NEW k \in 1..Len(v) PROVE s = 0 /\ v[k][1] # i
      BY DEF Honest
    <2>1. s = 0 /\ j # i
      BY DEF Honest
    <2>2. k \in 1..Len(u) \/ k = Len(u) + 1
      BY <1>1
    <2> QED
      BY <1>1, <2>1, <2>2 DEF Honest
  <1>5. Honest(it, i, n, v, s, p)
    BY <1>2, <1>3, <1>4 DEF Honest
  <1> QED
    BY <1>5 DEF v

\* What a copy may show of an item after the poll, where the file showed d ...
Polled(d, m) ==
  \/ m = d
  \/ d \in {"proposed", "sent_to_telegram"} /\ m \in {"approved", "rejected"}
  \/ d = "approved" /\ m = "rejected"

\* ... and at any point of the run.
Shows(d, m) ==
  \/ Polled(d, m)
  \/ d = "unknown" /\ m = "proposed"
  \/ d = "proposed" /\ m = "sent_to_telegram"
  \/ d = "publishing" /\ m \in {"approved", "published", "publish_failed"}

\* The run's copy is one move ahead of the file, and where the item in hand or
\* the items left to visit stand.
Phase(r) ==
  /\ \A i \in Items : Shows(disk[i].decision, mem[r][i].decision)
  /\ pc[r] \in {"poll", "apply"} => \A i \in Items : Polled(disk[i].decision, mem[r][i].decision)
  /\ pc[r] \in {"publish", "locked", "submitted"} =>
       \A i \in todo[r] : Polled(disk[i].decision, mem[r][i].decision)
  /\ pc[r] \in {"retry", "retried", "resending"} => \A i \in todo[r] : mem[r][i].decision = "proposed"
  /\ pc[r] \in {"locked", "submitted"} => disk[cur[r]].decision = "publishing"
  /\ pc[r] \in {"resending", "sending"} =>
       disk[cur[r]].decision = "proposed" /\ mem[r][cur[r]].decision = "proposed"
  /\ pc[r] \in {"locked", "submitted", "resending", "sending"} => cur[r] \notin todo[r]
  /\ pc[r] = "poll" => memOffset[r] = diskOffset

Phases == \A r \in Runs : pc[r] # "idle" => Phase(r)

\* Telegram has confirmed no press that the file has not read.
Offsets ==
  /\ confirmed <= diskOffset /\ diskOffset <= Len(updates)
  /\ \A r \in Runs : pc[r] # "idle" => confirmed <= memOffset[r] /\ memOffset[r] <= Len(updates)

FileHonest == \A i \in Items : Honest(disk[i], i, diskOffset, updates, sent[i], replies[i] + byHand[i])

CopyHonest ==
  \A r \in Runs : pc[r] # "idle" =>
    \A i \in Items : Honest(mem[r][i], i, memOffset[r], updates, sent[i], replies[i] + byHand[i])

HonestInv == PublishInv /\ Offsets /\ FileHonest /\ CopyHonest /\ Phases

\* One run is active, so a step of it has to keep only what concerns it.
LEMMA ActiveHonest ==
  ASSUME HonestInv, PublishInv', NEW r \in Runs, pc[r] # "idle",
         \A s \in Runs \ {r} : pc'[s] = pc[s],
         confirmed' <= diskOffset' /\ diskOffset' <= Len(updates'),
         \A i \in Items : Honest(disk'[i], i, diskOffset', updates', sent'[i], replies'[i] + byHand'[i]),
         pc'[r] # "idle" =>
           /\ confirmed' <= memOffset'[r] /\ memOffset'[r] <= Len(updates')
           /\ \A i \in Items : Honest(mem'[r][i], i, memOffset'[r], updates', sent'[i], replies'[i] + byHand'[i])
           /\ Phase(r)'
  PROVE  HonestInv'
  <1>1. \A s \in Runs : pc'[s] # "idle" => s = r
    BY DEF HonestInv, PublishInv, OneRun
  <1>2. Offsets'
    BY <1>1 DEF Offsets
  <1>3. FileHonest' /\ CopyHonest'
    BY <1>1 DEF FileHonest, CopyHonest
  <1>4. Phases'
    BY <1>1 DEF Phases
  <1> QED
    BY <1>2, <1>3, <1>4 DEF HonestInv

\* A step that changes item i of the copy, and not the file.
LEMMA CopyHonestStep ==
  ASSUME HonestInv, PublishInv', NEW r \in Runs, pc[r] # "idle",
         \A s \in Runs \ {r} : pc'[s] = pc[s],
         UNCHANGED <<disk, diskOffset, updates, confirmed, replies, byHand, memOffset>>,
         NEW i \in Items, NEW it \in Item,
         mem'[r] = [mem[r] EXCEPT ![i] = it],
         \A j \in Items \ {i} : sent'[j] = sent[j],
         Honest(it, i, memOffset[r], updates, sent'[i], replies[i] + byHand[i]),
         Honest(disk[i], i, diskOffset, updates, sent'[i], replies[i] + byHand[i]),
         Phase(r)'
  PROVE  HonestInv'
  <1>1. mem[r] \in [Items -> Item]
    BY DEF HonestInv, PublishInv, TypeInv, TypeOK
  <1>2. \A j \in Items : mem'[r][j] = IF j = i THEN it ELSE mem[r][j]
    BY <1>1
  <1>3. \A j \in Items : /\ Honest(mem[r][j], j, memOffset[r], updates, sent[j], replies[j] + byHand[j])
                         /\ Honest(disk[j], j, diskOffset, updates, sent[j], replies[j] + byHand[j])
    BY DEF HonestInv, FileHonest, CopyHonest
  <1>4. ASSUME NEW j \in Items
        PROVE  /\ Honest(mem'[r][j], j, memOffset'[r], updates', sent'[j], replies'[j] + byHand'[j])
               /\ Honest(disk'[j], j, diskOffset', updates', sent'[j], replies'[j] + byHand'[j])
    <2>1. CASE j = i
      BY <1>2, <2>1
    <2>2. CASE j # i
      BY <1>2, <1>3, <2>2
    <2> QED
      BY <2>1, <2>2
  <1>5. /\ confirmed' <= diskOffset' /\ diskOffset' <= Len(updates')
        /\ confirmed' <= memOffset'[r] /\ memOffset'[r] <= Len(updates')
    BY DEF HonestInv, Offsets
  <1> QED
    BY <1>4, <1>5, ActiveHonest

\* A step that changes neither the copy nor the file.
LEMMA QuietHonestStep ==
  ASSUME HonestInv, PublishInv', NEW r \in Runs, pc[r] # "idle",
         \A s \in Runs \ {r} : pc'[s] = pc[s],
         UNCHANGED <<disk, diskOffset, updates, confirmed, sent, replies, byHand, mem, memOffset>>,
         Phase(r)'
  PROVE  HonestInv'
  <1>1. \A j \in Items : /\ Honest(mem[r][j], j, memOffset[r], updates, sent[j], replies[j] + byHand[j])
                         /\ Honest(disk[j], j, diskOffset, updates, sent[j], replies[j] + byHand[j])
    BY DEF HonestInv, FileHonest, CopyHonest
  <1>2. ASSUME NEW j \in Items
        PROVE  /\ Honest(mem'[r][j], j, memOffset'[r], updates', sent'[j], replies'[j] + byHand'[j])
               /\ Honest(disk'[j], j, diskOffset', updates', sent'[j], replies'[j] + byHand'[j])
    BY <1>1
  <1>3. /\ confirmed' <= diskOffset' /\ diskOffset' <= Len(updates')
        /\ confirmed' <= memOffset'[r] /\ memOffset'[r] <= Len(updates')
    BY DEF HonestInv, Offsets
  <1> QED
    BY <1>2, <1>3, ActiveHonest

\* A step that writes the copy.
LEMMA SavedHonestStep ==
  ASSUME HonestInv, PublishInv', NEW r \in Runs, pc[r] # "idle",
         \A s \in Runs \ {r} : pc'[s] = pc[s],
         UNCHANGED <<updates, confirmed, sent, replies, byHand>>,
         \A j \in Items : Honest(disk'[j], j, memOffset[r], updates, sent[j], replies[j] + byHand[j]),
         diskOffset' = memOffset[r],
         pc'[r] # "idle" => disk' = mem'[r] /\ memOffset' = memOffset /\ Phase(r)'
  PROVE  HonestInv'
  <1>1. ASSUME NEW j \in Items
        PROVE  Honest(disk'[j], j, diskOffset', updates', sent'[j], replies'[j] + byHand'[j])
    OBVIOUS
  <1>2. ASSUME NEW j \in Items, pc'[r] # "idle"
        PROVE  Honest(mem'[r][j], j, memOffset'[r], updates', sent'[j], replies'[j] + byHand'[j])
    BY <1>1, <1>2
  <1>3. confirmed' <= diskOffset' /\ diskOffset' <= Len(updates')
    BY DEF HonestInv, Offsets
  <1>4. pc'[r] # "idle" => confirmed' <= memOffset'[r] /\ memOffset'[r] <= Len(updates')
    BY <1>3
  <1> QED
    BY <1>1, <1>2, <1>3, <1>4, ActiveHonest

LEMMA HonestInit == Init => HonestInv
  <1> SUFFICES ASSUME Init PROVE HonestInv
    OBVIOUS
  <1>1. PublishInv
    BY PublishInvInit
  <1>2. confirmed = 0 /\ diskOffset = 0 /\ updates = << >> /\ Len(updates) = 0
    BY DEF Init
  <1>3. Offsets /\ CopyHonest /\ Phases
    BY <1>2 DEF Init, Offsets, CopyHonest, Phases
  <1>4. ASSUME NEW i \in Items PROVE Honest(disk[i], i, diskOffset, updates, sent[i], replies[i] + byHand[i])
    <2>1. disk[i] = NewItem("unknown") /\ sent[i] = 0
      BY DEF Init, Blank
    <2>2. /\ NewItem("unknown").decision = "unknown" /\ NewItem("unknown").attempts = 0
          /\ NewItem("unknown").seen = {}
      BY DEF NewItem
    <2>3. 0 < MaxAttempts /\ 1..0 = {}
      BY AttemptAssumption
    <2> QED
      BY <1>2, <2>1, <2>2, <2>3 DEF Honest
  <1> QED
    BY <1>1, <1>3, <1>4 DEF HonestInv, FileHonest

LEMMA PolledCallback ==
  ASSUME NEW it \in Item, NEW k \in Nat, NEW action \in {"approve", "reject"}, NEW d,
         Polled(d, it.decision)
  PROVE  Polled(d, Callback(it, k, action).decision)
  BY DEF Callback, Polled, Item

\* An item passed over in the publish loop.
LEMMA SkippedShows ==
  ASSUME NEW it \in Item, NEW isStale \in BOOLEAN, ~Acquires(it, isStale),
         it.decision = "approved" => it.attempts < MaxAttempts,
         NEW d, Polled(d, it.decision)
  PROVE  Shows(d, Acquire(it, isStale).decision)
  <1> DEFINE rec == Recovered(it, isStale)
  <1>1. /\ rec \in Item /\ rec.attempts = it.attempts
        /\ rec = it \/ (it.decision = "publishing" /\ rec.decision = "approved")
    <2>1. rec = it \/ (it.decision = "publishing" /\ rec.decision = "approved")
      BY DEF Recovered, CloseAttempt, Item
    <2> QED
      BY <2>1, RecoveredType
  <1> HIDE DEF rec
  <1>2. CASE rec.decision # "approved"
    <2>1. Acquire(it, isStale) = rec
      BY <1>2 DEF Acquire, rec
    <2> QED
      BY <2>1, <1>1, <1>2 DEF Shows
  <1>3. CASE rec.decision = "approved"
    <2>1. ~(rec.attempts < MaxAttempts)
      BY <1>3 DEF Acquires, rec
    <2>2. it.decision = "publishing"
      BY <2>1, <1>1, <1>3
    <2>3. rec.attempts >= MaxAttempts
      BY <2>1, <1>1, AttemptAssumption DEF Item
    <2>4. Acquire(it, isStale) = [rec EXCEPT !.decision = "publish_failed"]
      BY <2>3, <1>3 DEF Acquire, rec
    <2>5. Acquire(it, isStale).decision = "publish_failed"
      BY <2>4, <1>1 DEF Item
    <2> QED
      BY <2>2, <2>5 DEF Polled, Shows
  <1> QED
    BY <1>2, <1>3

LEMMA HonestNext ==
  ASSUME Exclusive, HonestInv, [Next]_vars
  PROVE  HonestInv'
  <1>1. PublishInv'
    BY PublishInvNext DEF HonestInv
  <1> USE <1>1
  <1>a. TypeOK /\ InHand /\ OneRun /\ CopyOK
    BY DEF HonestInv, PublishInv, TypeInv
  <1>b. \A i \in Items : /\ disk[i] \in Item /\ sent[i] \in Nat
                         /\ replies[i] \in Nat /\ byHand[i] \in Nat
                         /\ Honest(disk[i], i, diskOffset, updates, sent[i], replies[i] + byHand[i])
    <2>1. \A i \in Items : /\ disk[i] \in Item /\ sent[i] \in Nat
                           /\ replies[i] \in Nat /\ byHand[i] \in Nat
      <3>1. byHand \in [Items -> 0..1]
        BY <1>a DEF TypeOK
      <3>2. \A i \in Items : disk[i] \in Item /\ sent[i] \in Nat /\ replies[i] \in Nat
        BY <1>a DEF TypeOK
      <3> QED
        BY <3>1, <3>2
    <2>2. \A i \in Items : Honest(disk[i], i, diskOffset, updates, sent[i], replies[i] + byHand[i])
      BY DEF HonestInv, FileHonest
    <2> QED
      BY <2>1, <2>2
  <1>c. ASSUME NEW r \in Runs, pc[r] # "idle"
        PROVE  /\ Phase(r) /\ mem[r] \in [Items -> Item] /\ memOffset[r] \in Nat
               /\ todo[r] \in SUBSET Items
               /\ \A i \in Items : Honest(mem[r][i], i, memOffset[r], updates, sent[i], replies[i] + byHand[i])
    BY <1>a, <1>c DEF HonestInv, CopyHonest, Phases, TypeOK
  <1>d. updates \in Presses /\ Len(updates) \in Nat /\ diskOffset \in Nat /\ confirmed \in Nat
        /\ confirmed <= diskOffset /\ diskOffset <= Len(updates)
    BY <1>a DEF HonestInv, Offsets, Presses, TypeOK
  <1>2. ASSUME NEW r \in Runs, Begin(r) PROVE HonestInv'
    <2>1. /\ \A s \in Runs : pc[s] = "idle"
          /\ pc'[r] = "poll" /\ \A s \in Runs \ {r} : pc'[s] = "idle"
      BY <1>2, <1>a DEF Begin, Goto, TypeOK
    <2>2. mem'[r] = disk /\ memOffset'[r] = diskOffset
      BY <1>2, <1>a DEF Begin, TypeOK
    <2>3. UNCHANGED <<disk, diskOffset, updates, confirmed, sent, replies, byHand>>
      BY <1>2 DEF Begin, diskVars, worldVars
    <2>4. FileHonest' /\ CopyHonest'
      BY <1>b, <2>1, <2>2, <2>3 DEF FileHonest, CopyHonest
    <2>5. Offsets'
      BY <1>d, <2>1, <2>2, <2>3 DEF Offsets
    <2>6. Phases'
      BY <2>1, <2>2, <2>3 DEF Phases, Phase, Shows, Polled
    <2> QED
      BY <2>4, <2>5, <2>6 DEF HonestInv
  <1>3. ASSUME NEW r \in Runs, PollOk(r) \/ PollFail(r) PROVE HonestInv'
    <2>1. /\ pc[r] = "poll" /\ pc'[r] = "apply"
          /\ \A s \in Runs \ {r} : pc'[s] = pc[s]
      BY <1>3, <1>a DEF PollOk, PollFail, Goto, TypeOK
    <2>2. UNCHANGED <<disk, diskOffset, replies, byHand, sent, updates, mem>>
      BY <1>3 DEF PollOk, PollFail, diskVars
    <2>3. memOffset[r] = diskOffset /\ Forgotten(r) = diskOffset
      BY <2>1, <1>c, <1>d DEF Phase, Forgotten
    <2>4. memOffset'[r] = diskOffset /\ confirmed' <= diskOffset
      BY <1>3, <2>3, <1>a, <1>d DEF PollOk, PollFail, TypeOK
    <2>5. Phase(r)'
      BY <2>1, <2>2, <1>c DEF Phase, Shows
    <2>6. ASSUME NEW j \in Items
          PROVE  /\ Honest(mem'[r][j], j, memOffset'[r], updates', sent'[j], replies'[j] + byHand'[j])
                 /\ Honest(disk'[j], j, diskOffset', updates', sent'[j], replies'[j] + byHand'[j])
      BY <1>b, <1>c, <2>1, <2>2, <2>3, <2>4
    <2> QED
      BY <2>1, <2>2, <2>4, <2>5, <2>6, <1>d, ActiveHonest
  <1>4. ASSUME NEW r \in Runs, ApplyUpdate(r) PROVE HonestInv'
    <2> DEFINE k == memOffset[r] + 1
    <2>1. /\ pc[r] = "apply" /\ k \in 1..Len(updates) /\ k - 1 = memOffset[r]
          /\ memOffset'[r] = k /\ k <= Len(updates) /\ confirmed <= k
      <3>1. memOffset[r] \in Nat /\ batch[r] \in Nat /\ Len(updates) \in Nat /\ pc[r] = "apply"
        BY <1>4, <1>a DEF ApplyUpdate, TypeOK
      <3>2. memOffset[r] < batch[r] /\ batch[r] <= Len(updates)
        BY <1>4, <1>a DEF ApplyUpdate, InHand
      <3>3. memOffset'[r] = k
        BY <1>4, <1>a DEF ApplyUpdate, TypeOK
      <3>4. confirmed <= memOffset[r]
        BY <3>1 DEF HonestInv, Offsets
      <3> QED
        BY <3>1, <3>2, <3>3, <3>4, <1>d
    <2>2. updates[k] \in Items \X {"approve", "reject"}
      BY <2>1, <1>a DEF TypeOK
    <2>3. PICK i \in Items, action \in {"approve", "reject"} : updates[k] = <<i, action>>
      BY <2>2
    <2>4. /\ mem[r] \in [Items -> Item] /\ Phase(r)
          /\ \A j \in Items : Honest(mem[r][j], j, k - 1, updates, sent[j], replies[j] + byHand[j])
      BY <1>c, <2>1
    <2>5. mem[r][i].decision # "unknown"
      BY <2>1, <2>3, <2>4 DEF Honest
    <2>6. PICK it : it = Callback(mem[r][i], k, action)
      OBVIOUS
    <2>7. SetItem(r, i, it)
      BY <1>4, <2>3, <2>5, <2>6 DEF ApplyUpdate
    <2>8. Owed(mem[r][i], i, k - 1)
      BY <2>1, <1>a DEF CopyOK
    <2>9. \/ mem[r][i].attempts = 0 /\ mem[r][i].decision \notin {"approved", "publishing"}
          \/ \E j \in 1..(k - 1) : updates[j] = <<i, "approve">>
      <3>1. mem[r][i].attempts \in Nat
        BY <2>4 DEF Item
      <3> QED
        BY <2>8, <3>1 DEF Owed, Pressed
    <2>10. Honest(it, i, k, updates, sent[i], replies[i] + byHand[i])
      <3>1. PICK old \in Item : old = mem[r][i]
        BY <2>4
      <3>2. Honest(old, i, k - 1, updates, sent[i], replies[i] + byHand[i]) /\ old.decision # "unknown"
        BY <2>4, <2>5, <3>1
      <3>3. \/ old.attempts = 0 /\ old.decision \notin {"approved", "publishing"}
            \/ \E j \in 1..(k - 1) : updates[j] = <<i, "approve">>
        BY <2>9, <3>1
      <3> HIDE DEF k
      <3>4. Honest(Callback(old, k, action), i, k, updates, sent[i], replies[i] + byHand[i])
        BY <2>1, <2>3, <3>2, <3>3, <1>d, HonestCallback
      <3> QED
        BY <2>6, <3>1, <3>4
    <2>11. it \in Item /\ Polled(disk[i].decision, it.decision)
      <3>1. k \in Nat
        BY <2>1
      <3>2. Polled(disk[i].decision, mem[r][i].decision)
        BY <2>1, <2>4 DEF Phase
      <3>3. PICK old \in Item : old = mem[r][i]
        BY <2>4
      <3> HIDE DEF k
      <3>4. Callback(old, k, action) \in Item
        BY <3>1, CallbackType
      <3>5. Polled(disk[i].decision, Callback(old, k, action).decision)
        BY <3>1, <3>2, <3>3, PolledCallback
      <3> QED
        BY <3>3, <3>4, <3>5, <2>6
    <2>12. \A j \in Items : mem'[r][j] = IF j = i THEN it ELSE mem[r][j]
      <3>1. mem'[r] = [mem[r] EXCEPT ![i] = it]
        BY <2>7, <2>11, <1>a, SetItemType
      <3> QED
        BY <2>4, <3>1
    <2>13. ASSUME NEW j \in Items
           PROVE  Honest(mem'[r][j], j, k, updates, sent[j], replies[j] + byHand[j])
      <3>1. CASE j = i
        BY <2>10, <2>12, <3>1
      <3>2. CASE j # i
        <4>1. updates[k][1] # j
          BY <2>3, <3>2
        <4> HIDE DEF k
        <4> QED
          BY <2>1, <2>4, <2>12, <3>2, <4>1, <1>d, HonestOther
      <3> QED
        BY <3>1, <3>2
    <2>14. /\ UNCHANGED <<disk, diskOffset, updates, confirmed, sent, replies, byHand>>
           /\ pc' = pc /\ todo' = todo /\ cur' = cur
      BY <1>4 DEF ApplyUpdate, diskVars, worldVars
    <2>15. Phase(r)'
      BY <2>1, <2>4, <2>11, <2>12, <2>14 DEF Phase, Shows
    <2>16. ASSUME NEW j \in Items
           PROVE  /\ Honest(mem'[r][j], j, memOffset'[r], updates', sent'[j], replies'[j] + byHand'[j])
                  /\ Honest(disk'[j], j, diskOffset', updates', sent'[j], replies'[j] + byHand'[j])
      BY <2>1, <2>13, <2>14, <1>b
    <2> HIDE DEF k
    <2> QED
      BY <2>1, <2>14, <2>15, <2>16, <1>d, ActiveHonest
  <1>5. ASSUME NEW r \in Runs, EndPoll(r) \/ EndPollPaused(r) PROVE HonestInv'
    <2>1. /\ pc[r] = "apply" /\ pc'[r] = "publish" /\ todo'[r] \in SUBSET Items
          /\ \A s \in Runs \ {r} : pc'[s] = pc[s]
      BY <1>5, <1>a DEF EndPoll, EndPollPaused, Goto, TypeOK
    <2>2. UNCHANGED <<disk, diskOffset, updates, confirmed, sent, replies, byHand, mem, memOffset>>
      BY <1>5 DEF EndPoll, EndPollPaused, diskVars, worldVars
    <2>3. Phase(r)'
      BY <2>1, <2>2, <1>c DEF Phase
    <2> QED
      BY <2>1, <2>2, <2>3, QuietHonestStep
  <1>6. ASSUME NEW r \in Runs, NEW i \in Items, LockItem(r, i) PROVE HonestInv'
    <2>0. (i \in stale) \in BOOLEAN
      OBVIOUS
    <2>1. PICK isStale, it : isStale \in BOOLEAN /\ isStale = (i \in stale) /\ it = Acquire(mem[r][i], isStale)
      BY <2>0, Zenon
    <2>2. /\ pc[r] = "publish" /\ SetItem(r, i, it) /\ Acquires(mem[r][i], isStale)
          /\ disk' = mem'[r] /\ diskOffset' = memOffset[r] /\ Goto(r, "locked", i, todo[r] \ {i})
          /\ UNCHANGED <<updates, confirmed, sent, replies, byHand, memOffset>>
      BY <1>6, <2>1 DEF LockItem, SaveState, worldVars
    <2>3. it \in Item /\ it.decision = "publishing"
      <3>1. mem[r][i] \in Item
        BY <1>a DEF TypeOK
      <3> QED
        BY <2>1, <2>2, <3>1, AcquireType
    <2>4. Honest(it, i, memOffset[r], updates, sent[i], replies[i] + byHand[i])
      <3>1. PICK old \in Item : old = mem[r][i]
        BY <1>a DEF TypeOK
      <3>2. Honest(old, i, memOffset[r], updates, sent[i], replies[i] + byHand[i])
        BY <3>1, <2>2, <1>c
      <3> QED
        BY <2>1, <3>1, <3>2, HonestAcquire
    <2>5. \A j \in Items : mem'[r][j] = IF j = i THEN it ELSE mem[r][j]
      <3>1. mem'[r] = [mem[r] EXCEPT ![i] = it]
        BY <2>2, <2>3, <1>a, SetItemType
      <3> QED
        BY <2>2, <3>1, <1>c
    <2>6. ASSUME NEW j \in Items
          PROVE  Honest(disk'[j], j, memOffset[r], updates, sent[j], replies[j] + byHand[j])
      BY <2>2, <2>4, <2>5, <1>c
    <2>7. /\ pc'[r] = "locked" /\ cur'[r] = i /\ todo'[r] = todo[r] \ {i}
          /\ \A s \in Runs \ {r} : pc'[s] = pc[s]
      BY <2>2, <1>a DEF Goto, TypeOK
    <2>8. todo'[r] \subseteq Items
      BY <2>2, <2>7, <1>c
    <2>9. Phase(r)'
      BY <2>2, <2>3, <2>5, <2>7, <2>8 DEF Phase, Shows, Polled
    <2> QED
      BY <2>2, <2>6, <2>7, <2>9, SavedHonestStep
  <1>7. ASSUME NEW r \in Runs, NEW i \in Items, SkipItem(r, i) PROVE HonestInv'
    <2>0. (i \in stale) \in BOOLEAN
      OBVIOUS
    <2>1. PICK isStale, it : isStale \in BOOLEAN /\ isStale = (i \in stale) /\ it = Acquire(mem[r][i], isStale)
      BY <2>0, Zenon
    <2>2. /\ pc[r] = "publish" /\ i \in todo[r] /\ SetItem(r, i, it)
          /\ ~Acquires(mem[r][i], isStale) /\ Goto(r, "publish", NoItem, todo[r] \ {i})
      BY <1>7, <2>1 DEF SkipItem
    <2>3. PICK old \in Item : old = mem[r][i]
      BY <1>a DEF TypeOK
    <2>4. Honest(old, i, memOffset[r], updates, sent[i], replies[i] + byHand[i])
      BY <2>2, <2>3, <1>c
    <2>5. it \in Item /\ Honest(it, i, memOffset[r], updates, sent[i], replies[i] + byHand[i])
      BY <2>1, <2>3, <2>4, HonestAcquire, AcquireType
    <2>6. Shows(disk[i].decision, it.decision)
      <3>1. Polled(disk[i].decision, old.decision)
        BY <2>2, <2>3, <1>c DEF Phase
      <3>2. old.decision = "approved" => old.attempts < MaxAttempts
        BY <2>4 DEF Honest
      <3> QED
        BY <2>1, <2>2, <2>3, <3>1, <3>2, SkippedShows
    <2>7. mem'[r] = [mem[r] EXCEPT ![i] = it]
      BY <2>2, <2>5, <1>a, SetItemType
    <2>8. /\ pc'[r] = "publish" /\ todo'[r] = todo[r] \ {i}
          /\ \A s \in Runs \ {r} : pc'[s] = pc[s]
      BY <2>2, <1>a DEF Goto, TypeOK
    <2>9. UNCHANGED <<disk, diskOffset, updates, confirmed, sent, replies, byHand, memOffset>>
      BY <1>7 DEF SkipItem, diskVars, worldVars
    <2>10. \A j \in Items : mem'[r][j] = IF j = i THEN it ELSE mem[r][j]
      BY <2>2, <2>7, <1>c
    <2>11. Phase(r)'
      BY <2>2, <2>6, <2>8, <2>9, <2>10, <1>c DEF Phase
    <2> QED
      BY <1>b, <2>2, <2>5, <2>7, <2>8, <2>9, <2>11, CopyHonestStep
  <1>8. ASSUME NEW r \in Runs, NEW outcome \in {"ok", "unverified", "failed"},
               pc[r] \in {"locked", "submitted"}, Finished(r, outcome), UNCHANGED worldVars,
               outcome = "ok" => replies[cur[r]] + byHand[cur[r]] > 0
        PROVE  HonestInv'
    <2>1. PICK it : it = Complete(mem[r][cur[r]], outcome)
      OBVIOUS
    <2>2. cur[r] \in Items /\ cur[r] \notin todo[r] /\ disk[cur[r]].decision = "publishing"
      BY <1>8, <1>a, <1>c DEF InHand, Phase
    <2>3. PICK old \in Item : old = mem[r][cur[r]] /\ old.decision = "publishing"
      BY <1>8, <2>2, <1>a DEF TypeOK, InHand
    <2>4. /\ it \in Item
          /\ it.decision \in {"approved", "published", "publish_failed"}
          /\ Honest(it, cur[r], memOffset[r], updates, sent[cur[r]], replies[cur[r]] + byHand[cur[r]])
      <3>1. Honest(old, cur[r], memOffset[r], updates, sent[cur[r]], replies[cur[r]] + byHand[cur[r]])
        BY <1>8, <2>2, <2>3, <1>c
      <3> QED
        BY <1>8, <2>1, <2>3, <3>1, HonestComplete, CompleteType
    <2>5. SetItem(r, cur[r], it) /\ Goto(r, "publish", NoItem, todo[r])
      BY <1>8, <2>1 DEF Finished
    <2>6. mem'[r] = [mem[r] EXCEPT ![cur[r]] = it]
      BY <2>2, <2>4, <2>5, <1>a, SetItemType
    <2>7. /\ pc'[r] = "publish" /\ todo'[r] = todo[r]
          /\ \A s \in Runs \ {r} : pc'[s] = pc[s]
      BY <2>5, <1>a DEF Goto, TypeOK
    <2>8. UNCHANGED <<disk, diskOffset, updates, confirmed, sent, replies, byHand, memOffset>>
      BY <1>8 DEF Finished, diskVars, worldVars
    <2>9. \A j \in Items : mem'[r][j] = IF j = cur[r] THEN it ELSE mem[r][j]
      BY <1>8, <2>6, <1>c
    <2>10. Phase(r)'
      BY <1>8, <2>2, <2>4, <2>7, <2>8, <2>9, <1>c DEF Phase, Shows
    <2> QED
      BY <1>8, <1>b, <2>2, <2>4, <2>6, <2>7, <2>8, <2>10, CopyHonestStep
  <1>9. ASSUME NEW r \in Runs, FailBeforeSubmit(r) \/ FindReply(r) \/ Verify(r)
        PROVE  HonestInv'
    BY <1>8, <1>9 DEF FailBeforeSubmit, FindReply, Verify, OwnerReplyExists
  <1>10. ASSUME NEW r \in Runs, StopPublishing(r) PROVE HonestInv'
    <2>1. PICK it : it = Complete(mem[r][cur[r]], "failed")
      OBVIOUS
    <2>2. pc[r] = "locked" /\ cur[r] \in Items
      BY <1>10, <1>a DEF StopPublishing, InHand
    <2>3. PICK old \in Item : old = mem[r][cur[r]] /\ old.decision = "publishing"
      BY <2>2, <1>a DEF TypeOK, InHand
    <2>4. Honest(it, cur[r], memOffset[r], updates, sent[cur[r]], replies[cur[r]] + byHand[cur[r]])
      <3>1. Honest(old, cur[r], memOffset[r], updates, sent[cur[r]], replies[cur[r]] + byHand[cur[r]])
        BY <2>2, <2>3, <1>c
      <3> QED
        BY <2>1, <2>3, <3>1, HonestComplete
    <2>5. /\ disk' = [mem[r] EXCEPT ![cur[r]] = it] /\ diskOffset' = memOffset[r]
          /\ Leave(r) /\ UNCHANGED worldVars
      BY <1>10, <2>1 DEF StopPublishing
    <2>6. \A j \in Items : disk'[j] = IF j = cur[r] THEN it ELSE mem[r][j]
      BY <2>2, <2>5, <1>c
    <2>7. UNCHANGED <<updates, confirmed, sent, replies, byHand>> /\ pc'[r] = "idle"
          /\ \A s \in Runs \ {r} : pc'[s] = pc[s]
      BY <2>5, <1>a DEF Leave, Goto, worldVars, TypeOK
    <2>8. ASSUME NEW j \in Items
          PROVE  Honest(disk'[j], j, memOffset[r], updates, sent[j], replies[j] + byHand[j])
      BY <2>2, <2>4, <2>6, <1>c
    <2> QED
      BY <2>2, <2>5, <2>7, <2>8, SavedHonestStep
  <1>11. ASSUME NEW r \in Runs, Submit(r) PROVE HonestInv'
    <2>1. /\ pc[r] = "locked" /\ cur[r] \in Items
          /\ UNCHANGED <<mem, memOffset, disk, diskOffset, updates, confirmed, sent, byHand>>
      BY <1>11, <1>a DEF Submit, InHand, diskVars
    <2>2. /\ pc'[r] = "submitted" /\ cur'[r] = cur[r] /\ todo'[r] = todo[r]
          /\ \A s \in Runs \ {r} : pc'[s] = pc[s]
      BY <1>11, <1>a DEF Submit, Goto, TypeOK
    <2>3. PICK landed \in {0, 1} : replies' = [replies EXCEPT ![cur[r]] = @ + landed]
      BY <1>11 DEF Submit
    <2>4. \A j \in Items : replies'[j] \in Nat /\ replies'[j] >= replies[j]
      BY <2>3, <1>a DEF TypeOK
    <2>5. Phase(r)'
      BY <2>1, <2>2, <1>c DEF Phase
    <2>6. ASSUME NEW j \in Items
          PROVE  /\ Honest(mem'[r][j], j, memOffset'[r], updates', sent'[j], replies'[j] + byHand'[j])
                 /\ Honest(disk'[j], j, diskOffset', updates', sent'[j], replies'[j] + byHand'[j])
      <3>1. /\ Honest(mem[r][j], j, memOffset[r], updates, sent[j], replies[j] + byHand[j])
            /\ Honest(disk[j], j, diskOffset, updates, sent[j], replies[j] + byHand[j])
            /\ replies[j] + byHand[j] \in Nat /\ replies'[j] + byHand'[j] \in Nat
            /\ replies'[j] + byHand'[j] >= replies[j] + byHand[j]
        BY <1>b, <1>c, <2>1, <2>4
      <3>2. /\ Honest(mem[r][j], j, memOffset[r], updates, sent[j], replies'[j] + byHand'[j])
            /\ Honest(disk[j], j, diskOffset, updates, sent[j], replies'[j] + byHand'[j])
        BY <3>1, HonestWorld
      <3> QED
        BY <2>1, <3>2
    <2>7. /\ confirmed' <= diskOffset' /\ diskOffset' <= Len(updates')
          /\ confirmed' <= memOffset'[r] /\ memOffset'[r] <= Len(updates')
      BY <2>1 DEF HonestInv, Offsets
    <2> QED
      BY <2>1, <2>2, <2>5, <2>6, <2>7, ActiveHonest
  <1>12. ASSUME NEW r \in Runs, pc[r] \notin {"idle"}, pc'[r] \in {"retry", "resending", "scan", "register"},
                \A s \in Runs \ {r} : pc'[s] = pc[s],
                UNCHANGED <<updates, confirmed, sent, replies, byHand, mem, memOffset>>,
                SaveState(r) \/ UNCHANGED diskVars,
                pc'[r] = "resending" => SaveState(r) /\ cur'[r] \notin todo'[r]
                                        /\ mem[r][cur'[r]].decision = "proposed",
                pc'[r] \in {"retry", "resending"} => \A i \in todo'[r] : mem[r][i].decision = "proposed"
         PROVE  HonestInv'
    <2>1. CASE SaveState(r)
      <3>1. disk' = mem'[r] /\ diskOffset' = memOffset[r] /\ mem' = mem
        BY <1>12, <2>1 DEF SaveState
      <3>2. \A j \in Items : Honest(disk'[j], j, memOffset[r], updates, sent[j], replies[j] + byHand[j])
        BY <1>12, <1>c, <3>1
      <3>3. Phase(r)'
        BY <1>12, <3>1 DEF Phase, Shows, Polled
      <3> QED
        BY <1>12, <3>1, <3>2, <3>3, SavedHonestStep
    <2>2. CASE ~SaveState(r)
      <3>1. UNCHANGED <<disk, diskOffset>> /\ pc'[r] # "resending"
        BY <1>12, <2>2 DEF diskVars
      <3>2. \A i \in Items : Shows(disk[i].decision, mem[r][i].decision)
        BY <1>12, <1>c DEF Phase
      <3>3. Phase(r)'
        BY <1>12, <3>1, <3>2 DEF Phase
      <3> QED
        BY <1>12, <3>1, <3>3, QuietHonestStep
    <2> QED
      BY <2>1, <2>2
  <1>13. ASSUME NEW r \in Runs, EndPublish(r) PROVE HonestInv'
    <2>1. /\ pc[r] = "publish" /\ pc'[r] = "retry"
          /\ todo'[r] \subseteq {i \in Items : Retryable(mem[r][i])}
          /\ \A s \in Runs \ {r} : pc'[s] = pc[s]
      BY <1>13, <1>a DEF EndPublish, Ranked, Goto, TypeOK
    <2>2. \A i \in todo'[r] : mem[r][i].decision = "proposed"
      BY <2>1 DEF Retryable
    <2>3. UNCHANGED <<diskVars, updates, confirmed, sent, replies, byHand, mem, memOffset>>
      BY <1>13 DEF EndPublish, worldVars
    <2> QED
      BY <2>1, <2>2, <2>3, <1>12
  <1>14. ASSUME NEW r \in Runs, NEW i \in Items, RetrySave(r, i) PROVE HonestInv'
    <2>1. /\ pc[r] \in {"retry", "retried"} /\ i \in todo[r] /\ SaveState(r)
          /\ UNCHANGED <<updates, confirmed, sent, replies, byHand, mem, memOffset>>
      BY <1>14 DEF RetrySave, worldVars
    <2>2. /\ pc'[r] = "resending" /\ cur'[r] = i /\ todo'[r] = todo[r] \ {i}
          /\ \A s \in Runs \ {r} : pc'[s] = pc[s]
      BY <1>14, <1>a DEF RetrySave, Goto, TypeOK
    <2>3. \A j \in todo[r] : mem[r][j].decision = "proposed"
      BY <2>1, <1>c DEF Phase
    <2> QED
      BY <2>1, <2>2, <2>3, <1>12
  <1>15. ASSUME NEW r \in Runs, EndRetry(r) PROVE HonestInv'
    <2>1. /\ pc[r] \in {"retry", "retried"} /\ pc'[r] = "scan"
          /\ \A s \in Runs \ {r} : pc'[s] = pc[s]
      BY <1>15, <1>a DEF EndRetry, Goto, TypeOK
    <2>2. /\ UNCHANGED <<updates, confirmed, sent, replies, byHand, mem, memOffset>>
          /\ SaveState(r) \/ UNCHANGED diskVars
      BY <1>15 DEF EndRetry, worldVars
    <2> QED
      BY <2>1, <2>2, <1>12
  <1>16. ASSUME NEW r \in Runs, ScanOk(r) PROVE HonestInv'
    <2>1. /\ pc[r] = "scan" /\ pc'[r] = "register"
          /\ \A s \in Runs \ {r} : pc'[s] = pc[s]
      BY <1>16, <1>a DEF ScanOk, Goto, TypeOK
    <2>2. UNCHANGED <<diskVars, updates, confirmed, sent, replies, byHand, mem, memOffset>>
      BY <1>16 DEF ScanOk, worldVars
    <2> QED
      BY <2>1, <2>2, <1>12
  <1>17. ASSUME NEW r \in Runs, RetrySend(r) \/ SendNew(r) PROVE HonestInv'
    <2>1. pc[r] \in {"resending", "sending"} /\ cur[r] \in Items /\ SendApproval(r)
      BY <1>17, <1>a DEF RetrySend, SendNew, InHand
    <2>2. PICK old \in Item : old = mem[r][cur[r]]
      BY <2>1, <1>a DEF TypeOK
    <2>3. /\ old.decision = "proposed" /\ disk[cur[r]].decision = "proposed" /\ cur[r] \notin todo[r]
          /\ Honest(old, cur[r], memOffset[r], updates, sent[cur[r]], replies[cur[r]] + byHand[cur[r]])
      BY <2>1, <2>2, <1>c DEF Phase
    <2>4. PICK it \in {MarkSent(old), [old EXCEPT !.tg = "retryable"]} : SetItem(r, cur[r], it)
      BY <2>1, <2>2 DEF SendApproval
    <2>5. \A j \in Items \ {cur[r]} : sent'[j] = sent[j]
      BY <2>1, <1>a DEF SendApproval, TypeOK
    <2>6. /\ it \in Item /\ it.decision \in {"proposed", "sent_to_telegram"}
          /\ Honest(it, cur[r], memOffset[r], updates, sent'[cur[r]], replies[cur[r]] + byHand[cur[r]])
      <3>1. it \in Item
        BY MarkSentType
      <3>2. PICK i, n, s, t, p : /\ i = cur[r] /\ n = memOffset[r] /\ s = sent[cur[r]]
                                 /\ t = sent'[cur[r]] /\ p = replies[cur[r]] + byHand[cur[r]]
        OBVIOUS
      <3>3. Honest(old, i, n, updates, s, p)
        BY <2>3, <3>2
      <3>4. /\ Honest(MarkSent(old), i, n, updates, t, p)
            /\ Honest([old EXCEPT !.tg = "retryable"], i, n, updates, t, p)
            /\ MarkSent(old).decision = "sent_to_telegram"
            /\ [old EXCEPT !.tg = "retryable"].decision = "proposed"
        BY <2>3, <3>3, HonestSend
      <3> QED
        BY <2>4, <3>1, <3>2, <3>4
    <2>7. Honest(disk[cur[r]], cur[r], diskOffset, updates, sent'[cur[r]], replies[cur[r]] + byHand[cur[r]])
      <3>1. Honest(disk[cur[r]], cur[r], diskOffset, updates, sent[cur[r]], replies[cur[r]] + byHand[cur[r]])
        BY <1>b, <2>1
      <3>2. /\ replies[cur[r]] + byHand[cur[r]] \in Nat
            /\ replies[cur[r]] + byHand[cur[r]] >= replies[cur[r]] + byHand[cur[r]]
        BY <1>b, <2>1
      <3> QED
        BY <2>3, <3>1, <3>2, HonestWorld
    <2>8. mem'[r] = [mem[r] EXCEPT ![cur[r]] = it]
      BY <2>1, <2>4, <2>6, <1>a, SetItemType
    <2>9. \A j \in Items : mem'[r][j] = IF j = cur[r] THEN it ELSE mem[r][j]
      BY <2>1, <2>8, <1>c
    <2>10. /\ UNCHANGED <<disk, diskOffset, replies, byHand, updates, confirmed, memOffset>>
           /\ pc'[r] \in {"retried", "register"} /\ todo'[r] = todo[r]
           /\ pc'[r] = "retried" => pc[r] = "resending"
           /\ \A s \in Runs \ {r} : pc'[s] = pc[s]
      BY <1>17, <1>a DEF RetrySend, SendNew, Goto, TypeOK, diskVars
    <2>11. \A j \in Items : Shows(disk[j].decision, mem'[r][j].decision)
      BY <2>1, <2>3, <2>6, <2>9, <1>c DEF Phase, Shows, Polled
    <2>12. pc'[r] = "retried" => \A j \in todo[r] : mem'[r][j].decision = "proposed"
      BY <2>1, <2>3, <2>9, <2>10, <1>c DEF Phase
    <2>13. Phase(r)'
      BY <2>10, <2>11, <2>12 DEF Phase
    <2> QED
      BY <2>1, <2>5, <2>6, <2>7, <2>8, <2>10, <2>13, CopyHonestStep
  <1>18. ASSUME NEW r \in Runs, NEW i \in Items, Register(r, i) PROVE HonestInv'
    <2>1. PICK it \in Item : it = NewItem("proposed")
      BY NewItemType
    <2>2. /\ pc[r] = "register" /\ i \in todo[r] /\ mem[r][i].decision = "unknown"
      BY <1>18 DEF Register, HonestInv, PublishInv, NewOnly
    <2>3. /\ SetItem(r, i, it) /\ disk' = mem'[r] /\ diskOffset' = memOffset[r]
          /\ Goto(r, "sending", i, todo[r] \ {i})
          /\ UNCHANGED <<updates, confirmed, sent, replies, byHand, memOffset>>
      BY <1>18, <2>1 DEF Register, SaveState, worldVars
    <2>4. Honest(it, i, memOffset[r], updates, sent[i], replies[i] + byHand[i])
      <3>1. PICK old \in Item : old = mem[r][i]
        BY <1>a DEF TypeOK
      <3>2. Honest(old, i, memOffset[r], updates, sent[i], replies[i] + byHand[i])
        BY <2>2, <3>1, <1>c
      <3>3. memOffset[r] \in 0..Len(updates)
        BY <2>2, <1>c, <1>d DEF HonestInv, Offsets
      <3> QED
        BY <2>1, <2>2, <3>1, <3>2, <3>3, <1>d, HonestNew
    <2>5. mem'[r] = [mem[r] EXCEPT ![i] = it]
      BY <2>3, <1>a, SetItemType
    <2>6. \A j \in Items : mem'[r][j] = IF j = i THEN it ELSE mem[r][j]
      BY <2>2, <2>5, <1>c
    <2>7. \A j \in Items : Honest(disk'[j], j, memOffset[r], updates, sent[j], replies[j] + byHand[j])
      BY <2>2, <2>3, <2>4, <2>6, <1>c
    <2>8. /\ pc'[r] = "sending" /\ cur'[r] = i /\ todo'[r] = todo[r] \ {i}
          /\ \A s \in Runs \ {r} : pc'[s] = pc[s]
      BY <2>3, <1>a DEF Goto, TypeOK
    <2>9. it.decision = "proposed"
      BY <2>1 DEF NewItem
    <2>10. Phase(r)'
      BY <2>3, <2>6, <2>8, <2>9 DEF Phase, Shows, Polled
    <2> QED
      BY <2>2, <2>3, <2>7, <2>8, <2>10, SavedHonestStep
  <1>19. ASSUME NEW r \in Runs, ScanStop(r) \/ Finish(r) PROVE HonestInv'
    <2>1. /\ pc[r] # "idle" /\ Leave(r) /\ UNCHANGED worldVars
          /\ disk' = mem[r] /\ diskOffset' = memOffset[r]
      BY <1>19 DEF ScanStop, Finish, SaveAndLeave
    <2>2. UNCHANGED <<updates, confirmed, sent, replies, byHand>> /\ pc'[r] = "idle"
          /\ \A s \in Runs \ {r} : pc'[s] = pc[s]
      BY <2>1, <1>a DEF Leave, Goto, worldVars, TypeOK
    <2>3. \A j \in Items : Honest(disk'[j], j, memOffset[r], updates, sent[j], replies[j] + byHand[j])
      BY <2>1, <1>c
    <2> QED
      BY <2>1, <2>2, <2>3, SavedHonestStep
  <1>20. ASSUME NEW r \in Runs, Abort(r) PROVE HonestInv'
    <2>1. /\ pc[r] # "idle" /\ pc'[r] = "idle" /\ \A s \in Runs \ {r} : pc'[s] = pc[s]
          /\ UNCHANGED <<disk, diskOffset, updates, confirmed, sent, replies, byHand>>
      BY <1>20, <1>a DEF Abort, Leave, Goto, worldVars, diskVars, TypeOK
    <2>2. \A j \in Items : Honest(disk'[j], j, diskOffset', updates', sent'[j], replies'[j] + byHand'[j])
      BY <2>1, <1>b
    <2>3. confirmed' <= diskOffset' /\ diskOffset' <= Len(updates')
      BY <2>1, <1>d
    <2> QED
      BY <2>1, <2>2, <2>3, ActiveHonest
  <1>21. ASSUME NEW i \in Items, NEW action \in {"approve", "reject"}, Press(i, action)
         PROVE  HonestInv'
    <2>1. /\ updates' = Append(updates, <<i, action>>) /\ sent[i] > 0
          /\ UNCHANGED <<disk, diskOffset, confirmed, sent, replies, byHand, mem, memOffset, pc, cur, todo>>
      BY <1>21 DEF Press, runVars, diskVars
    <2>2. Len(updates') = Len(updates) + 1
      BY <2>1, <1>d DEF Presses
    <2>3. Offsets'
      <3>1. ASSUME NEW r \in Runs, pc[r] # "idle"
            PROVE  confirmed <= memOffset[r] /\ memOffset[r] <= Len(updates')
        BY <1>c, <1>d, <2>2, <3>1 DEF HonestInv, Offsets
      <3>2. diskOffset <= Len(updates')
        BY <1>d, <2>2
      <3> QED
        BY <1>d, <2>1, <3>1, <3>2 DEF Offsets
    <2>4. ASSUME NEW it \in Item, NEW j \in Items, NEW n \in 0..Len(updates),
                 Honest(it, j, n, updates, sent[j], replies[j] + byHand[j])
          PROVE  Honest(it, j, n, updates', sent'[j], replies'[j] + byHand'[j])
      <3>1. sent[j] \in Nat
        BY <1>b
      <3> QED
        BY <2>1, <2>4, <3>1, <1>d, HonestPress
    <2>5. FileHonest'
      <3> SUFFICES ASSUME NEW j \in Items
                   PROVE  Honest(disk'[j], j, diskOffset', updates', sent'[j], replies'[j] + byHand'[j])
        BY DEF FileHonest
      <3>1. diskOffset \in 0..Len(updates)
        BY <1>d
      <3> QED
        BY <1>b, <2>1, <2>4, <3>1
    <2>6. CopyHonest'
      <3> SUFFICES ASSUME NEW r \in Runs, pc'[r] # "idle", NEW j \in Items
                   PROVE  Honest(mem'[r][j], j, memOffset'[r], updates', sent'[j], replies'[j] + byHand'[j])
        BY DEF CopyHonest
      <3>1. memOffset[r] \in 0..Len(updates) /\ mem[r][j] \in Item
        BY <1>c, <1>d, <2>1 DEF HonestInv, Offsets
      <3> QED
        BY <1>c, <2>1, <2>4, <3>1
    <2>7. Phases'
      BY <2>1 DEF HonestInv, Phases, Phase
    <2> QED
      BY <2>3, <2>5, <2>6, <2>7 DEF HonestInv
  <1>24. ASSUME NEW i \in Items, AnswerByHand(i) PROVE HonestInv'
    <2>1. /\ UNCHANGED <<disk, diskOffset, updates, confirmed, sent, replies>>
          /\ UNCHANGED <<mem, memOffset, pc, cur, todo>>
      BY <1>24 DEF AnswerByHand, runVars, diskVars
    <2>2. \A j \in Items : /\ replies[j] + byHand[j] \in Nat /\ replies'[j] + byHand'[j] \in Nat
                           /\ replies'[j] + byHand'[j] >= replies[j] + byHand[j]
      <3>1. \A j \in Items : replies[j] \in Nat /\ byHand[j] \in 0..1
        BY <1>a DEF TypeOK
      <3>2. \A j \in Items : byHand'[j] = IF j = i THEN 1 ELSE byHand[j]
        BY <1>24, <1>a DEF AnswerByHand, TypeOK
      <3> QED
        BY <2>1, <3>1, <3>2
    <2>3. FileHonest'
      <3>1. \A j \in Items : Honest(disk[j], j, diskOffset, updates, sent[j], replies'[j] + byHand'[j])
        BY <2>2, <1>b, HonestWorld
      <3> QED
        BY <2>1, <3>1 DEF FileHonest
    <2>4. CopyHonest'
      <3>1. \A r \in Runs : pc[r] # "idle" => \A j \in Items :
              Honest(mem[r][j], j, memOffset[r], updates, sent[j], replies'[j] + byHand'[j])
        BY <2>2, <1>c, HonestWorld
      <3> QED
        BY <2>1, <3>1 DEF CopyHonest
    <2>5. Offsets'
      BY <2>1 DEF HonestInv, Offsets
    <2>6. Phases'
      BY <2>1 DEF HonestInv, Phases, Phase
    <2> QED
      BY <2>3, <2>4, <2>5, <2>6 DEF HonestInv
  <1>22. CASE UNCHANGED vars \/ \E i \in Items : Age(i)
    <2>1. /\ UNCHANGED <<disk, diskOffset, updates, confirmed, sent, replies, byHand>>
          /\ UNCHANGED <<mem, memOffset, pc, cur, todo>>
      BY <1>22 DEF vars, Age, runVars, diskVars, worldVars
    <2>2. Offsets' /\ FileHonest' /\ CopyHonest'
      BY <2>1 DEF HonestInv, Offsets, FileHonest, CopyHonest
    <2>3. Phases'
      BY <2>1 DEF HonestInv, Phases, Phase
    <2> QED
      BY <2>2, <2>3 DEF HonestInv
  <1>23. ASSUME NEW r \in Runs, RunStep(r) PROVE HonestInv'
    BY <1>23, <1>3, <1>4, <1>5, <1>6, <1>7, <1>9, <1>10, <1>11, <1>13, <1>14, <1>15, <1>16,
       <1>17, <1>18, <1>19 DEF RunStep
  <1> QED
    BY <1>2, <1>20, <1>21, <1>22, <1>23, <1>24 DEF Next

(***************************************************************************)
(* No press of the owner is lost: one that Telegram will not return again  *)
(* is in the file's item, whichever runs died with an answer of getUpdates *)
(* in memory (1990-2024 and every save of the state).                      *)
(***************************************************************************)
THEOREM PressesAreKept == ASSUME Exclusive PROVE Spec => []NoPressLost
  <1>1. HonestInv => NoPressLost
    <2> SUFFICES ASSUME HonestInv, NEW k \in 1..Len(updates), k <= diskOffset \/ k <= confirmed
                 PROVE  k \in disk[updates[k][1]].seen
      BY DEF NoPressLost
    <2>1. updates[k][1] \in Items
      BY DEF HonestInv, PublishInv, TypeInv, TypeOK
    <2>2. k \in 1..diskOffset
      BY DEF HonestInv, Offsets, PublishInv, TypeInv, TypeOK
    <2> QED
      BY <2>1, <2>2 DEF HonestInv, FileHonest, Honest
  <1>2. HonestInv /\ [Next]_vars => HonestInv'
    BY HonestNext
  <1> QED
    BY <1>1, <1>2, HonestInit, PTL DEF Spec

(***************************************************************************)
(* "published" is a reply on LinkedIn, a run's or one written by hand, and *)
(* a comment the owner rejected before approving it never gets one of a    *)
(* run, through late, repeated and contradicting presses and runs that die *)
(* (1067-1078, 1990-2024, 2034-2090).                                      *)
(***************************************************************************)
THEOREM DecisionsAndPosts == ASSUME Exclusive PROVE Spec => []PostsFollowDecisions
  <1>1. HonestInv => PublishedIsPosted
    BY DEF HonestInv, FileHonest, Honest, PublishedIsPosted
  <1>2. HonestInv => RejectedFirstIsNeverPosted
    <2> SUFFICES ASSUME HonestInv, NEW i \in Items, NEW k \in 1..Len(updates),
                        updates[k] = <<i, "reject">>, \A j \in 1..k : updates[j] # <<i, "approve">>
                 PROVE  replies[i] = 0
      BY DEF RejectedFirstIsNeverPosted
    <2>1. /\ disk[i].attempts \in Nat /\ replies[i] \in Nat /\ diskOffset \in Nat
          /\ replies[i] <= disk[i].attempts /\ Owed(disk[i], i, diskOffset)
          /\ Honest(disk[i], i, diskOffset, updates, sent[i], replies[i] + byHand[i])
      BY DEF HonestInv, FileHonest, PublishInv, FileOK, TypeInv, TypeOK, Item
    <2>2. CASE k <= diskOffset
      <3>1. k \in 1..diskOffset /\ RejectedFirst(updates, i, k)
        BY <2>1, <2>2 DEF RejectedFirst
      <3>2. disk[i].attempts = 0
        BY <2>1, <3>1 DEF Honest
      <3> QED
        BY <2>1, <3>2
    <2>3. CASE k > diskOffset
      <3>1. ~Pressed(i, "approve", diskOffset)
        BY <2>1, <2>3 DEF Pressed
      <3>2. ~(disk[i].attempts > 0)
        BY <2>1, <3>1 DEF Owed
      <3> QED
        BY <2>1, <3>2
    <2> QED
      BY <2>1, <2>2, <2>3
  <1>3. HonestInv /\ [Next]_vars => HonestInv'
    BY HonestNext
  <1>4. HonestInv => PostsFollowDecisions
    BY <1>1, <1>2 DEF PostsFollowDecisions
  <1> QED
    BY <1>3, <1>4, HonestInit, PTL DEF Spec

----------------------------------------------------------------------------
(* The run implements ReplyLifecycle.                                      *)

LEMMA ShownIsMove ==
  ASSUME NEW d \in Decisions, NEW m \in Decisions, Shows(d, m)
  PROVE  Stage(m) = Stage(d) \/ <<Stage(d), Stage(m)>> \in Lifecycle!Moves
  BY DEF Shows, Polled, Stage, Decisions, Lifecycle!Moves

\* An item is saved as the file had it or one move on.
LEMMA SavedMove ==
  ASSUME NEW i \in Items, disk[i] \in Item, disk'[i] \in Item,
         Shows(disk[i].decision, disk'[i].decision), disk'[i].attempts = disk[i].attempts
  PROVE  Lifecycle!Saved(i)
  <1>1. disk[i].decision \in Decisions /\ disk'[i].decision \in Decisions
    BY DEF Item
  <1>2. \/ Stage(disk'[i].decision) = Stage(disk[i].decision)
        \/ <<Stage(disk[i].decision), Stage(disk'[i].decision)>> \in Lifecycle!Moves
    BY <1>1, ShownIsMove
  <1> QED
    BY <1>2 DEF Lifecycle!Saved

LEMMA SavedStep ==
  ASSUME \A i \in Items : Lifecycle!Saved(i), UNCHANGED replies
  PROVE  Lifecycle!LifecycleNext
  BY DEF Lifecycle!LifecycleNext, Lifecycle!Save

\* Every step is a save of such items, the submission of a reply for the item
\* that the file shows as being published, or nothing the lifecycle sees.
LEMMA LifecycleStep ==
  ASSUME Exclusive, HonestInv, [Next]_vars
  PROVE  [Lifecycle!LifecycleNext]_(Lifecycle!lifecycleVars)
  <1>a. TypeOK /\ InHand /\ CopyOK /\ Ahead /\ \A i \in Items : disk[i] \in Item
    BY DEF HonestInv, PublishInv, TypeInv, TypeOK
  <1>b. TypeInv'
    BY TypeInvNext DEF HonestInv, PublishInv
  <1>c. \A i \in Items : disk'[i] \in Item
    BY <1>b DEF TypeInv, TypeOK
  <1>d. ASSUME NEW r \in Runs, pc[r] # "idle"
        PROVE  /\ Phase(r) /\ mem[r] \in [Items -> Item]
               /\ \A i \in Items : mem[r][i].attempts = disk[i].attempts
    BY <1>a, <1>d DEF HonestInv, Phases, CopyOK, TypeOK
  <1>1. ASSUME UNCHANGED <<disk, replies>>
        PROVE  UNCHANGED Lifecycle!lifecycleVars
    BY <1>1 DEF Lifecycle!lifecycleVars
  <1>2. ASSUME NEW r \in Runs, pc[r] # "idle", disk' = mem[r], UNCHANGED replies
        PROVE  Lifecycle!LifecycleNext
    <2>1. ASSUME NEW i \in Items PROVE Lifecycle!Saved(i)
      BY <1>a, <1>c, <1>d, <1>2, SavedMove DEF Phase
    <2> QED
      BY <1>2, <2>1, SavedStep
  <1>3. ASSUME NEW r \in Runs, NEW i \in Items, LockItem(r, i) PROVE Lifecycle!LifecycleNext
    <2>0. (i \in stale) \in BOOLEAN
      OBVIOUS
    <2>1. PICK isStale, it : isStale \in BOOLEAN /\ isStale = (i \in stale) /\ it = Acquire(mem[r][i], isStale)
      BY <2>0, Zenon
    <2>2. /\ pc[r] = "publish" /\ i \in todo[r] /\ SetItem(r, i, it) /\ Acquires(mem[r][i], isStale)
          /\ disk' = mem'[r] /\ UNCHANGED replies
      BY <1>3, <2>1 DEF LockItem, SaveState, worldVars
    <2>3. PICK old \in Item : old = mem[r][i]
      BY <1>a DEF TypeOK
    <2>4. /\ it \in Item /\ it.decision = "publishing" /\ it.attempts = old.attempts + 1
          /\ old.attempts < MaxAttempts
      BY <2>1, <2>2, <2>3, AcquireType
    <2>5. \A j \in Items : disk'[j] = IF j = i THEN it ELSE mem[r][j]
      <3>1. mem'[r] = [mem[r] EXCEPT ![i] = it]
        BY <2>2, <2>4, <1>a, SetItemType
      <3> QED
        BY <2>2, <3>1, <1>d
    <2>6. disk[i].decision \in {"proposed", "sent_to_telegram", "approved", "publishing"}
      <3>1. Polled(disk[i].decision, old.decision)
        BY <2>2, <2>3, <1>d DEF Phase
      <3>2. old.decision \in {"approved", "publishing"}
        BY <2>1, <2>2, <2>3 DEF Acquires, Recovered, CloseAttempt, Item
      <3> QED
        BY <3>1, <3>2 DEF Polled
    <2>7. Lifecycle!Saved(i)
      <3>1. disk'[i].attempts = disk[i].attempts + 1 /\ disk[i].attempts < MaxAttempts
        BY <2>2, <2>3, <2>4, <2>5, <1>d
      <3>2. /\ Stage(disk[i].decision) \in {"proposed", "asked", "approved", "publishing"}
            /\ Stage(disk'[i].decision) = "publishing"
        BY <2>4, <2>5, <2>6 DEF Stage
      <3> QED
        BY <3>1, <3>2 DEF Lifecycle!Saved, Lifecycle!Lockable
    <2>8. ASSUME NEW j \in Items, j # i PROVE Lifecycle!Saved(j)
      BY <1>a, <1>c, <1>d, <2>2, <2>5, <2>8, SavedMove DEF Phase
    <2> QED
      BY <2>2, <2>7, <2>8, SavedStep
  <1>4. ASSUME NEW r \in Runs, StopPublishing(r) PROVE Lifecycle!LifecycleNext
    <2>1. PICK it : it = Complete(mem[r][cur[r]], "failed")
      OBVIOUS
    <2>2. /\ pc[r] = "locked" /\ cur[r] \in Items /\ disk' = [mem[r] EXCEPT ![cur[r]] = it]
          /\ UNCHANGED replies
      BY <1>4, <2>1, <1>a DEF StopPublishing, InHand, worldVars
    <2>3. PICK old \in Item : old = mem[r][cur[r]] /\ old.decision = "publishing"
      BY <2>2, <1>a DEF TypeOK, InHand
    <2>4. it.attempts = old.attempts /\ it.decision \in {"approved", "publish_failed"}
      BY <2>1, <2>3, CompleteType DEF Complete, CloseAttempt, Item
    <2>5. \A j \in Items : disk'[j] = IF j = cur[r] THEN it ELSE mem[r][j]
      BY <2>2, <1>d
    <2>6. ASSUME NEW j \in Items PROVE Lifecycle!Saved(j)
      <3>1. disk'[j].attempts = disk[j].attempts
        BY <2>2, <2>3, <2>4, <2>5, <1>d
      <3>2. disk[cur[r]].decision = "publishing"
        BY <2>2, <1>d DEF Phase
      <3>3. Shows(disk[j].decision, disk'[j].decision)
        BY <2>2, <2>4, <2>5, <3>2, <1>d DEF Phase, Shows
      <3> QED
        BY <1>a, <1>c, <3>1, <3>3, SavedMove
    <2> QED
      BY <2>2, <2>6, SavedStep
  <1>5. ASSUME NEW r \in Runs, NEW i \in Items, Register(r, i) PROVE Lifecycle!LifecycleNext
    <2>1. PICK it \in Item : it = NewItem("proposed")
      BY NewItemType
    <2>2. /\ pc[r] = "register" /\ mem[r][i].decision = "unknown" /\ mem[r][i].attempts = 0
      BY <1>5, <1>a DEF Register, HonestInv, PublishInv, NewOnly, CopyOK, Owed
    <2>3. SetItem(r, i, it) /\ disk' = mem'[r] /\ UNCHANGED replies
      BY <1>5, <2>1 DEF Register, SaveState, worldVars
    <2>4. \A j \in Items : disk'[j] = IF j = i THEN it ELSE mem[r][j]
      <3>1. mem'[r] = [mem[r] EXCEPT ![i] = it]
        BY <2>3, <1>a, SetItemType
      <3> QED
        BY <2>2, <2>3, <3>1, <1>d
    <2>5. it.decision = "proposed" /\ it.attempts = 0
      BY <2>1 DEF NewItem
    <2>6. disk[i].decision = "unknown"
      BY <2>2, <1>d DEF Phase, Shows, Polled
    <2>7. ASSUME NEW j \in Items PROVE Lifecycle!Saved(j)
      <3>1. disk'[j].attempts = disk[j].attempts
        BY <2>2, <2>4, <2>5, <1>d
      <3>2. Shows(disk[j].decision, disk'[j].decision)
        BY <2>2, <2>4, <2>5, <2>6, <1>d DEF Phase, Shows
      <3> QED
        BY <1>a, <1>c, <3>1, <3>2, SavedMove
    <2> QED
      BY <2>3, <2>7, SavedStep
  <1>6. ASSUME NEW r \in Runs, Submit(r)
        PROVE  Lifecycle!LifecycleNext \/ UNCHANGED Lifecycle!lifecycleVars
    <2>1. /\ pc[r] = "locked" /\ cur[r] \in Items /\ UNCHANGED disk
          /\ replies[cur[r]] < disk[cur[r]].attempts
      BY <1>6, <1>a DEF Submit, InHand, Ahead, diskVars
    <2>2. disk[cur[r]].decision = "publishing"
      BY <2>1, <1>d DEF Phase
    <2>3. PICK landed \in {0, 1} : replies' = [replies EXCEPT ![cur[r]] = @ + landed]
      BY <1>6 DEF Submit
    <2>4. replies \in [Items -> Nat]
      BY <1>a DEF TypeOK
    <2>5. CASE landed = 0
      <3>1. replies' = replies
        BY <2>1, <2>3, <2>4, <2>5
      <3> QED
        BY <2>1, <3>1, <1>1
    <2>6. CASE landed = 1
      <3>1. replies' = [replies EXCEPT ![cur[r]] = @ + 1]
        BY <2>3, <2>6
      <3>2. Lifecycle!Post(cur[r])
        BY <2>1, <2>2, <3>1 DEF Lifecycle!Post, Stage
      <3> QED
        BY <2>1, <3>2 DEF Lifecycle!LifecycleNext
    <2> QED
      BY <2>5, <2>6
  <1>7. ASSUME NEW r \in Runs,
               ScanStop(r) \/ Finish(r) \/ EndRetry(r) \/ \E i \in Items : RetrySave(r, i)
        PROVE  Lifecycle!LifecycleNext \/ UNCHANGED Lifecycle!lifecycleVars
    <2>1. pc[r] # "idle" /\ UNCHANGED replies /\ (disk' = mem[r] \/ UNCHANGED disk)
      BY <1>7
         DEF ScanStop, Finish, EndRetry, RetrySave, SaveAndLeave, SaveState, worldVars, diskVars
    <2> QED
      BY <2>1, <1>1, <1>2
  <1>8. ASSUME NEW r \in Runs,
               \/ PollOk(r) \/ PollFail(r) \/ ApplyUpdate(r) \/ EndPoll(r) \/ EndPollPaused(r)
               \/ \E i \in Items : SkipItem(r, i)
               \/ FailBeforeSubmit(r) \/ FindReply(r) \/ Verify(r) \/ EndPublish(r)
               \/ RetrySend(r) \/ ScanOk(r) \/ SendNew(r) \/ Begin(r) \/ Abort(r)
        PROVE  UNCHANGED Lifecycle!lifecycleVars
    <2>1. UNCHANGED <<disk, replies>>
      BY <1>8 DEF PollOk, PollFail, ApplyUpdate, EndPoll, EndPollPaused, SkipItem, FailBeforeSubmit,
           FindReply, Verify, Finished, EndPublish, RetrySend, ScanOk, SendNew, Begin, Abort,
           diskVars, worldVars
    <2> QED
      BY <2>1, <1>1
  <1>9. ASSUME \/ UNCHANGED vars
               \/ \E i \in Items : Age(i) \/ AnswerByHand(i) \/ \E action \in {"approve", "reject"} : Press(i, action)
        PROVE  UNCHANGED Lifecycle!lifecycleVars
    BY <1>9, <1>1 DEF vars, Age, AnswerByHand, Press, diskVars, worldVars
  <1>10. ASSUME NEW r \in Runs, RunStep(r)
         PROVE  Lifecycle!LifecycleNext \/ UNCHANGED Lifecycle!lifecycleVars
    BY <1>10, <1>3, <1>4, <1>5, <1>6, <1>7, <1>8 DEF RunStep
  <1> QED
    BY <1>8, <1>9, <1>10 DEF Next

(***************************************************************************)
(* What the file and LinkedIn show through crashes and lost saves is a     *)
(* behaviour of the lifecycle the header promises (95-106).                *)
(***************************************************************************)
THEOREM ImplementsLifecycle == ASSUME Exclusive PROVE Spec => LifecycleImplemented
  <1>1. Init => Lifecycle!LifecycleInit
    BY DEF Init, Blank, NewItem, Stage, Lifecycle!LifecycleInit
  <1>2. HonestInv /\ [Next]_vars => HonestInv'
    BY HonestNext
  <1>3. HonestInv /\ [Next]_vars => [Lifecycle!LifecycleNext]_(Lifecycle!lifecycleVars)
    BY LifecycleStep
  <1> QED
    BY <1>1, <1>2, <1>3, HonestInit, PTL DEF Spec, LifecycleImplemented, Lifecycle!LifecycleSpec

----------------------------------------------------------------------------
(* One reply per comment.                                                  *)

Gone == {"published", "publish_failed"}

\* The run knows that the item was, or may be, replied to.
Known(r, i) ==
  \/ mem[r][i].decision \in Gone
  \/ pc[r] = "submitted" /\ cur[r] = i

\* A comment with a reply has one, and the run, or else the file, knows of it;
\* but for those whose reply went out in a run that died.
ToldInv ==
  \A i \in Items \ forgotten : replies[i] > 0 =>
    /\ replies[i] = 1
    /\ \A r \in Runs : pc[r] # "idle" => Known(r, i)
    /\ (\A r \in Runs : pc[r] = "idle") => disk[i].decision \in Gone

\* A step of the active run that sends no reply and forgets nothing.
LEMMA ToldStep ==
  ASSUME HonestInv, ToldInv, NEW r \in Runs, pc[r] # "idle",
         \A s \in Runs \ {r} : pc'[s] = pc[s], pc'[r] # "idle",
         UNCHANGED <<replies, forgotten>>,
         \A i \in Items : Known(r, i) => Known(r, i)'
  PROVE  ToldInv'
  <1>1. \A s \in Runs : pc'[s] # "idle" => s = r
    BY DEF HonestInv, PublishInv, OneRun
  <1> SUFFICES ASSUME NEW i \in Items \ forgotten, replies[i] > 0
               PROVE  replies[i] = 1 /\ \A s \in Runs : pc'[s] # "idle" => Known(s, i)'
    BY DEF ToldInv
  <1>2. replies[i] = 1 /\ Known(r, i)'
    BY DEF ToldInv
  <1> QED
    BY <1>1, <1>2

\* The active run ends and every reply it knows of is in the file.
LEMMA ToldEnd ==
  ASSUME HonestInv, ToldInv, NEW r \in Runs, pc[r] # "idle", pc[r] # "submitted",
         \A s \in Runs \ {r} : pc'[s] = pc[s], pc'[r] = "idle",
         UNCHANGED <<replies, forgotten>>,
         \A i \in Items : mem[r][i].decision \in Gone => disk'[i].decision \in Gone
  PROVE  ToldInv'
  <1>1. \A s \in Runs : pc'[s] = "idle"
    BY DEF HonestInv, PublishInv, OneRun
  <1>2. ASSUME NEW i \in Items \ forgotten, replies[i] > 0
        PROVE  replies[i] = 1 /\ disk'[i].decision \in Gone
    BY <1>2 DEF ToldInv, Known
  <1> QED
    BY <1>1, <1>2 DEF ToldInv

LEMMA ToldNext ==
  ASSUME Exclusive, HonestInv, HonestInv', ToldInv, [MCNext]_<<vars, forgotten>>
  PROVE  ToldInv'
  <1>a. TypeOK /\ InHand /\ OneRun
    BY DEF HonestInv, PublishInv, TypeInv
  <1>c. ASSUME NEW r \in Runs, pc[r] # "idle"
        PROVE  Phase(r) /\ mem[r] \in [Items -> Item]
    BY <1>a, <1>c DEF HonestInv, Phases, TypeOK
  <1>1. ASSUME NEW r \in Runs, Begin(r), UNCHANGED forgotten PROVE ToldInv'
    <2>1. /\ \A s \in Runs : pc[s] = "idle"
          /\ \A s \in Runs \ {r} : pc'[s] = "idle"
          /\ mem'[r] = disk /\ pc'[r] = "poll" /\ UNCHANGED replies
      BY <1>1, <1>a DEF Begin, Goto, TypeOK, worldVars
    <2>2. ASSUME NEW i \in Items \ forgotten, replies[i] > 0
          PROVE  replies[i] = 1 /\ disk[i].decision \in Gone
      BY <2>1, <2>2 DEF ToldInv
    <2>3. ASSUME NEW i \in Items \ forgotten, replies[i] > 0
          PROVE  replies[i] = 1 /\ Known(r, i)'
      BY <2>1, <2>2, <2>3 DEF Known
    <2> QED
      BY <1>1, <2>1, <2>3 DEF ToldInv
  <1>2. ASSUME NEW r \in Runs, pc[r] \notin {"idle", "submitted"}, pc'[r] # "idle",
               \A s \in Runs \ {r} : pc'[s] = pc[s], UNCHANGED <<replies, forgotten>>,
               NEW i \in Items, NEW it, mem[r][i].decision \in Gone => it.decision \in Gone,
               mem'[r] = [mem[r] EXCEPT ![i] = it]
        PROVE  ToldInv'
    <2>1. \A j \in Items : mem'[r][j] = IF j = i THEN it ELSE mem[r][j]
      BY <1>2, <1>c
    <2>2. \A j \in Items : Known(r, j) => Known(r, j)'
      BY <1>2, <2>1 DEF Known
    <2> QED
      BY <1>2, <2>2, ToldStep
  <1>3. ASSUME NEW r \in Runs, pc[r] \notin {"idle", "submitted"}, pc'[r] # "idle",
               \A s \in Runs \ {r} : pc'[s] = pc[s], UNCHANGED <<replies, forgotten, mem>>
        PROVE  ToldInv'
    BY <1>3, ToldStep DEF Known
  <1>4. ASSUME NEW r \in Runs, UNCHANGED forgotten,
               \/ PollOk(r) \/ PollFail(r) \/ EndPoll(r) \/ EndPollPaused(r) \/ EndPublish(r)
               \/ EndRetry(r) \/ ScanOk(r) \/ \E i \in Items : RetrySave(r, i)
        PROVE  ToldInv'
    <2>1. /\ pc[r] \notin {"idle", "submitted"} /\ pc'[r] # "idle"
          /\ \A s \in Runs \ {r} : pc'[s] = pc[s]
      BY <1>4, <1>a DEF PollOk, PollFail, EndPoll, EndPollPaused, EndPublish, EndRetry, ScanOk,
           RetrySave, Goto, TypeOK
    <2>2. UNCHANGED <<replies, mem>>
      BY <1>4 DEF PollOk, PollFail, EndPoll, EndPollPaused, EndPublish, EndRetry, ScanOk, RetrySave,
           worldVars
    <2> QED
      BY <1>3, <1>4, <2>1, <2>2
  <1>5. ASSUME NEW r \in Runs, ApplyUpdate(r), UNCHANGED forgotten PROVE ToldInv'
    <2> DEFINE k == memOffset[r] + 1
    <2>1. /\ pc[r] = "apply" /\ k \in 1..Len(updates) /\ pc' = pc /\ UNCHANGED replies
      <3>1. memOffset[r] \in Nat /\ batch[r] \in Nat /\ Len(updates) \in Nat
        BY <1>a DEF TypeOK
      <3>2. /\ pc[r] = "apply" /\ pc' = pc /\ UNCHANGED replies
            /\ memOffset[r] < batch[r] /\ batch[r] <= Len(updates)
        BY <1>5, <1>a DEF ApplyUpdate, InHand, worldVars
      <3> QED
        BY <3>1, <3>2
    <2>2. updates[k] \in Items \X {"approve", "reject"}
      BY <2>1, <1>a DEF TypeOK
    <2>3. PICK i \in Items, action \in {"approve", "reject"} : updates[k] = <<i, action>>
      BY <2>2
    <2>4. PICK old \in Item : old = mem[r][i]
      BY <1>a DEF TypeOK
    <2>5. PICK it : it = IF old.decision = "unknown" THEN old ELSE Callback(old, k, action)
      OBVIOUS
    <2>6. SetItem(r, i, it)
      BY <1>5, <2>3, <2>4, <2>5 DEF ApplyUpdate
    <2>7. mem'[r] = [mem[r] EXCEPT ![i] = it]
      BY <2>6, <1>a DEF SetItem, TypeOK
    <2>8. old.decision \in Gone => it.decision \in Gone
      BY <2>5 DEF Callback, Item, Gone
    <2> QED
      BY <1>2, <1>5, <2>1, <2>4, <2>7, <2>8
  <1>6. ASSUME NEW r \in Runs, NEW i \in Items, LockItem(r, i) \/ SkipItem(r, i), UNCHANGED forgotten
        PROVE  ToldInv'
    <2>0. (i \in stale) \in BOOLEAN
      OBVIOUS
    <2>1. PICK isStale, it : isStale \in BOOLEAN /\ isStale = (i \in stale) /\ it = Acquire(mem[r][i], isStale)
      BY <2>0, Zenon
    <2>2. /\ pc[r] = "publish" /\ SetItem(r, i, it) /\ UNCHANGED replies
      BY <1>6, <2>1 DEF LockItem, SkipItem, worldVars
    <2>3. pc'[r] # "idle" /\ \A s \in Runs \ {r} : pc'[s] = pc[s]
      BY <1>6, <1>a DEF LockItem, SkipItem, Goto, TypeOK
    <2>4. mem'[r] = [mem[r] EXCEPT ![i] = it]
      BY <2>2, <1>a DEF SetItem, TypeOK
    <2>5. mem[r][i].decision \in Gone => it = mem[r][i]
      BY <2>1 DEF Acquire, Recovered, Gone
    <2> QED
      BY <1>2, <1>6, <2>2, <2>3, <2>4, <2>5
  <1>7. ASSUME NEW r \in Runs, FailBeforeSubmit(r) \/ FindReply(r), UNCHANGED forgotten
        PROVE ToldInv'
    <2>1. PICK it : SetItem(r, cur[r], it) /\ Goto(r, "publish", NoItem, todo[r])
      BY <1>7 DEF FailBeforeSubmit, FindReply, Finished
    <2>2. /\ pc[r] = "locked" /\ cur[r] \in Items /\ UNCHANGED replies
          /\ mem[r][cur[r]].decision = "publishing"
      BY <1>7, <1>a DEF FailBeforeSubmit, FindReply, InHand, worldVars
    <2>3. /\ pc'[r] = "publish" /\ \A s \in Runs \ {r} : pc'[s] = pc[s]
          /\ mem'[r] = [mem[r] EXCEPT ![cur[r]] = it]
      BY <2>1, <1>a DEF Goto, SetItem, TypeOK
    <2>4. mem[r][cur[r]].decision \notin Gone
      BY <2>2 DEF Gone
    <2> QED
      BY <1>2, <1>7, <2>2, <2>3, <2>4
  <1>8. ASSUME NEW r \in Runs, Verify(r), UNCHANGED forgotten PROVE ToldInv'
    <2>1. PICK outcome \in {"ok", "unverified"} : Finished(r, outcome)
      BY <1>8 DEF Verify
    <2>2. /\ pc[r] = "submitted" /\ cur[r] \in Items /\ UNCHANGED replies
          /\ mem[r][cur[r]].decision = "publishing"
      BY <1>8, <1>a DEF Verify, InHand, worldVars
    <2>3. PICK old \in Item : old = mem[r][cur[r]] /\ old.decision = "publishing"
      BY <2>2, <1>a DEF TypeOK
    <2>4. PICK it : it = Complete(old, outcome) /\ SetItem(r, cur[r], it)
      BY <2>1, <2>3 DEF Finished
    <2>5. it.decision \in Gone
      BY <2>3, <2>4 DEF Complete, CloseAttempt, Item, Gone
    <2>6. pc'[r] = "publish" /\ \A s \in Runs \ {r} : pc'[s] = pc[s]
      BY <2>1, <1>a DEF Finished, Goto, TypeOK
    <2>7. \A j \in Items : mem'[r][j] = IF j = cur[r] THEN it ELSE mem[r][j]
      BY <2>2, <2>4, <1>a DEF SetItem, TypeOK
    <2>8. \A j \in Items : Known(r, j) => Known(r, j)'
      BY <2>5, <2>7 DEF Known
    <2> QED
      BY <1>8, <2>2, <2>6, <2>8, ToldStep
  <1>9. ASSUME NEW r \in Runs, Submit(r), UNCHANGED forgotten PROVE ToldInv'
    <2>1. /\ pc[r] = "locked" /\ cur[r] \in Items /\ UNCHANGED mem
          /\ mem[r][cur[r]].decision = "publishing"
      BY <1>9, <1>a DEF Submit, InHand
    <2>2. /\ pc'[r] = "submitted" /\ cur'[r] = cur[r]
          /\ \A s \in Runs \ {r} : pc'[s] = "idle"
      BY <1>9, <2>1, <1>a DEF Submit, Goto, TypeOK, OneRun
    <2>3. PICK landed \in {0, 1} : replies' = [replies EXCEPT ![cur[r]] = @ + landed]
      BY <1>9 DEF Submit
    <2>4. \A j \in Items : /\ replies[j] \in Nat
                           /\ replies'[j] = IF j = cur[r] THEN replies[j] + landed ELSE replies[j]
      BY <2>3, <1>a DEF TypeOK
    <2>5. cur[r] \in forgotten \/ replies[cur[r]] = 0
      BY <2>1, <2>4 DEF ToldInv, Known, Gone
    <2>6. ASSUME NEW j \in Items \ forgotten, replies'[j] > 0
          PROVE  replies'[j] = 1 /\ Known(r, j)'
      <3>1. CASE j = cur[r]
        BY <2>2, <2>4, <2>5, <2>6, <3>1 DEF Known
      <3>2. CASE j # cur[r]
        BY <2>1, <2>2, <2>4, <2>6, <3>2 DEF ToldInv, Known
      <3> QED
        BY <3>1, <3>2
    <2> QED
      BY <1>9, <2>2, <2>6 DEF ToldInv
  <1>10. ASSUME NEW r \in Runs, StopPublishing(r), UNCHANGED forgotten PROVE ToldInv'
    <2>1. PICK it : disk' = [mem[r] EXCEPT ![cur[r]] = it]
      BY <1>10 DEF StopPublishing
    <2>2. /\ pc[r] = "locked" /\ cur[r] \in Items /\ UNCHANGED replies
          /\ mem[r][cur[r]].decision \notin Gone
      BY <1>10, <1>a DEF StopPublishing, InHand, worldVars, Gone
    <2>3. pc'[r] = "idle" /\ \A s \in Runs \ {r} : pc'[s] = pc[s]
      BY <1>10, <1>a DEF StopPublishing, Leave, Goto, TypeOK
    <2>4. \A i \in Items : mem[r][i].decision \in Gone => disk'[i].decision \in Gone
      BY <2>1, <2>2, <1>c
    <2> QED
      BY <1>10, <2>2, <2>3, <2>4, ToldEnd
  <1>11. ASSUME NEW r \in Runs, RetrySend(r) \/ SendNew(r), UNCHANGED forgotten PROVE ToldInv'
    <2>1. PICK it : SetItem(r, cur[r], it)
      BY <1>11 DEF RetrySend, SendNew, SendApproval
    <2>2. pc[r] \in {"resending", "sending"} /\ cur[r] \in Items /\ UNCHANGED replies
      BY <1>11, <1>a DEF RetrySend, SendNew, InHand
    <2>3. mem[r][cur[r]].decision \notin Gone
      BY <2>2, <1>c DEF Phase, Gone
    <2>4. /\ pc'[r] # "idle" /\ \A s \in Runs \ {r} : pc'[s] = pc[s]
          /\ mem'[r] = [mem[r] EXCEPT ![cur[r]] = it]
      BY <1>11, <2>1, <1>a DEF RetrySend, SendNew, Goto, SetItem, TypeOK
    <2> QED
      BY <1>2, <1>11, <2>2, <2>3, <2>4
  <1>12. ASSUME NEW r \in Runs, NEW i \in Items, Register(r, i), UNCHANGED forgotten PROVE ToldInv'
    <2>1. /\ pc[r] = "register" /\ mem[r][i].decision \notin Gone /\ UNCHANGED replies
      BY <1>12 DEF Register, HonestInv, PublishInv, NewOnly, Gone, worldVars
    <2>2. PICK it : SetItem(r, i, it)
      BY <1>12 DEF Register
    <2>3. /\ pc'[r] # "idle" /\ \A s \in Runs \ {r} : pc'[s] = pc[s]
          /\ mem'[r] = [mem[r] EXCEPT ![i] = it]
      BY <1>12, <2>2, <1>a DEF Register, Goto, SetItem, TypeOK
    <2> QED
      BY <1>2, <1>12, <2>1, <2>3
  <1>13. ASSUME NEW r \in Runs, ScanStop(r) \/ Finish(r), UNCHANGED forgotten PROVE ToldInv'
    <2>1. /\ pc[r] \in {"scan", "register"} /\ disk' = mem[r] /\ UNCHANGED replies
          /\ pc'[r] = "idle" /\ \A s \in Runs \ {r} : pc'[s] = pc[s]
      BY <1>13, <1>a DEF ScanStop, Finish, SaveAndLeave, Leave, Goto, worldVars, TypeOK
    <2> QED
      BY <1>13, <2>1, ToldEnd
  <1>14. ASSUME NEW r \in Runs, Abort(r),
                forgotten' = forgotten \cup
                  {i \in Items : replies[i] > 0 /\ disk[i].decision = "publishing"}
         PROVE  ToldInv'
    <2>1. /\ pc[r] # "idle" /\ pc'[r] = "idle" /\ UNCHANGED <<replies, disk>>
          /\ \A s \in Runs : pc'[s] = "idle"
      BY <1>14, <1>a DEF Abort, Leave, Goto, worldVars, diskVars, TypeOK, OneRun
    <2>2. ASSUME NEW i \in Items \ forgotten', replies[i] > 0
          PROVE  replies[i] = 1 /\ disk[i].decision \in Gone
      <3>1. i \in Items \ forgotten /\ disk[i].decision # "publishing"
        BY <1>14, <2>2
      <3>2. replies[i] = 1 /\ Known(r, i)
        BY <2>1, <2>2, <3>1 DEF ToldInv
      <3>3. mem[r][i].decision \in Gone
        BY <2>1, <3>1, <3>2, <1>c DEF Known, Phase
      <3>4. disk[i].decision = mem[r][i].decision
        BY <2>1, <3>1, <3>3, <1>c DEF Phase, Shows, Polled, Gone
      <3> QED
        BY <3>2, <3>3, <3>4
    <2> QED
      BY <2>1, <2>2 DEF ToldInv
  <1>15. ASSUME UNCHANGED forgotten,
                \/ UNCHANGED vars
                \/ \E i \in Items : Age(i) \/ AnswerByHand(i) \/ \E action \in {"approve", "reject"} : Press(i, action)
         PROVE  ToldInv'
    <2>1. UNCHANGED <<disk, replies, mem, pc, cur>>
      BY <1>15 DEF vars, Age, AnswerByHand, Press, runVars, diskVars, worldVars
    <2> QED
      BY <1>15, <2>1 DEF ToldInv, Known
  <1>16. ASSUME NEW r \in Runs, RunStep(r), UNCHANGED forgotten PROVE ToldInv'
    BY <1>16, <1>4, <1>5, <1>6, <1>7, <1>8, <1>9, <1>10, <1>11, <1>12, <1>13 DEF RunStep
  <1> QED
    BY <1>1, <1>14, <1>15, <1>16 DEF MCNext

(***************************************************************************)
(* A comment gets one reply at most, even if LinkedIn never shows it,      *)
(* unless a run died between a click and the next save (2073-2090).        *)
(***************************************************************************)
THEOREM OneReply == ASSUME Exclusive PROVE MCSpec => []NoSecondReply
  <1>1. MCInit => HonestInv /\ ToldInv
    <2>1. MCInit => HonestInv
      BY HonestInit DEF MCInit
    <2>2. MCInit => ToldInv
      BY DEF MCInit, Init, ToldInv
    <2> QED
      BY <2>1, <2>2
  <1>2. HonestInv /\ ToldInv /\ [MCNext]_<<vars, forgotten>> => HonestInv' /\ ToldInv'
    <2> SUFFICES ASSUME HonestInv, ToldInv, [MCNext]_<<vars, forgotten>>
          PROVE HonestInv' /\ ToldInv'
      OBVIOUS
    <2>1. [Next]_vars
      BY DEF MCNext, Next
    <2>2. HonestInv'
      BY <2>1, HonestNext
    <2> QED
      BY <2>2, ToldNext
  <1>3. HonestInv /\ ToldInv => NoSecondReply
    <2> SUFFICES ASSUME HonestInv, ToldInv, NEW i \in Items \ forgotten PROVE replies[i] <= 1
      BY DEF NoSecondReply
    <2>1. replies[i] \in Nat
      BY DEF HonestInv, PublishInv, TypeInv, TypeOK
    <2> QED
      BY <2>1 DEF ToldInv
  <1> QED
    BY <1>1, <1>2, <1>3, PTL DEF MCSpec

=============================================================================
