--------------------------- MODULE ReplyLifecycle ---------------------------
(***************************************************************************)
(* What the Commentator service promises about the replies it posts, seen  *)
(* from outside: the persisted stage of each found comment, the number of  *)
(* publish attempts recorded for it and the number of replies actually     *)
(* submitted to LinkedIn.  The header comment of linkedin_commentator.py   *)
(* (lines 95-106) states these rules; Commentator.tla is shown to          *)
(* implement them through crashes, restarts and lost saves.                *)
(***************************************************************************)
EXTENDS Naturals

CONSTANTS Items, MaxAttempts

VARIABLES stage, attempts, posted

lifecycleVars == <<stage, attempts, posted>>

\* The moves one save of the state file may show for one comment.
Moves ==
  {<<"unknown", "proposed">>,
   <<"proposed", "asked">>, <<"proposed", "approved">>, <<"proposed", "rejected">>,
   <<"asked", "approved">>, <<"asked", "rejected">>,
   <<"approved", "rejected">>,
   <<"publishing", "approved">>, <<"publishing", "published">>,
   <<"publishing", "publish_failed">>}

\* The stages a publish lock may be taken from: those a poll can turn into an
\* approval in the same run, and a stale lock.
Lockable == {"proposed", "asked", "approved", "publishing"}

LifecycleInit ==
  /\ stage = [i \in Items |-> "unknown"]
  /\ attempts = [i \in Items |-> 0]
  /\ posted = [i \in Items |-> 0]

\* How one comment may look after a save: as before, one move on, or locked
\* for one more recorded attempt.
Saved(i) ==
  \/ stage'[i] = stage[i] /\ attempts'[i] = attempts[i]
  \/ <<stage[i], stage'[i]>> \in Moves /\ attempts'[i] = attempts[i]
  \/ /\ stage[i] \in Lockable
     /\ stage'[i] = "publishing"
     /\ attempts[i] < MaxAttempts
     /\ attempts'[i] = attempts[i] + 1

Save ==
  /\ \A i \in Items : Saved(i)
  /\ UNCHANGED posted

\* A reply is submitted only while the lock for it is on disk.
Post(i) ==
  /\ stage[i] = "publishing"
  /\ posted[i] < attempts[i]
  /\ posted' = [posted EXCEPT ![i] = @ + 1]
  /\ UNCHANGED <<stage, attempts>>

LifecycleNext == Save \/ \E i \in Items : Post(i)

LifecycleSpec == LifecycleInit /\ [][LifecycleNext]_lifecycleVars
=============================================================================
