---------------------------- MODULE RuntimeLock ----------------------------
(***************************************************************************)
(* scripts/linkedin_runtime_lock.py: the wrapper every worker container    *)
(* starts its real work under.  One wrapper process takes an exclusive     *)
(* flock on a file of a volume all containers share, writes its identity   *)
(* into that file, starts the worker as the leader of a new session,       *)
(* forwards TERM/INT to the worker's process group and exits with the      *)
(* worker's code, which closes the file and so frees the lock.             *)
(*                                                                         *)
(* The kernel's flock is one variable: it is free, or held by the open     *)
(* file of one wrapper, and it is freed when that wrapper's process is     *)
(* gone for whatever reason.  The worker's descriptors do not include the  *)
(* lock file (Python opens it close-on-exec), so the worker never keeps it.*)
(***************************************************************************)
EXTENDS Naturals

CONSTANTS
  Wrappers,     \* wrapper invocations, of any container
  Procs,        \* the processes of one worker's group
  Leader,       \* the group's leader, the one wrapper's direct child
  NoWrapper,    \* no holder, no metadata
  PollBudget    \* polls of a busy lock before the deadline (0: no waiting)

\* What the instances assume of the constants.
Sound ==
  /\ NoWrapper \notin Wrappers
  /\ Leader \in Procs
  /\ PollBudget \in Nat

VARIABLES
  pc,         \* where each wrapper is in main / _run_child
  lock,       \* the holder of the flock
  owner,      \* whose identity the lock file's text names
  polls,      \* failed polls so far
  pending,    \* _pending_signal is set
  group,      \* live processes of the wrapper's worker
  signalled,  \* processes of that group a forwarded signal reached
  alone,      \* history: a signal met the leader and not its group
  code        \* what the wrapper's exit reports

vars == <<pc, lock, owner, polls, pending, group, signalled, alone, code>>

(***************************************************************************)
(* "started"   file not open yet       "polling"   in _acquire_lock        *)
(* "acquired"  flock taken             "described" metadata written        *)
(* "armed"     handlers installed      "forked"    _child is set           *)
(* "grouped"   _child_pgid is set      "waiting"   in _child.wait()        *)
(* "reaped"    the wait returned       "restored"  old handlers are back   *)
(* "exited"    file closed, returned   "dead"      ended by TERM or INT    *)
(* "killed"    ended by SIGKILL                                            *)
(***************************************************************************)
Gone      == {"exited", "dead", "killed"}
HasFork   == {"forked", "grouped", "waiting"}
Handling  == {"armed", "reaped"} \cup HasFork
Holding   == {"acquired", "described", "restored"} \cup Handling
PC        == {"started", "polling"} \cup Holding \cup Gone

TypeOK ==
  /\ pc \in [Wrappers -> PC]
  /\ lock \in Wrappers \cup {NoWrapper}
  /\ owner \in Wrappers \cup {NoWrapper}
  /\ polls \in [Wrappers -> 0..PollBudget]
  /\ pending \in [Wrappers -> BOOLEAN]
  /\ group \in [Wrappers -> SUBSET Procs]
  /\ signalled \in [Wrappers -> SUBSET Procs]
  /\ alone \in [Wrappers -> BOOLEAN]
  /\ code \in [Wrappers -> {"none", "busy", "child", "signal"}]

Init ==
  /\ pc = [w \in Wrappers |-> "started"]
  /\ lock = NoWrapper
  /\ owner = NoWrapper
  /\ polls = [w \in Wrappers |-> 0]
  /\ pending = [w \in Wrappers |-> FALSE]
  /\ group = [w \in Wrappers |-> {}]
  /\ signalled = [w \in Wrappers |-> {}]
  /\ alone = [w \in Wrappers |-> FALSE]
  /\ code = [w \in Wrappers |-> "none"]

Goto(w, from, to) == pc[w] = from /\ pc' = [pc EXCEPT ![w] = to]

\* The lock once wrapper w no longer has the file open.
ReleasedBy(w) == IF lock = w THEN NoWrapper ELSE lock

----------------------------------------------------------------------------
(* The wrapper's own steps.                                                *)

\* main opens the file "a+": the text of the present holder is kept.
OpenFile(w) ==
  /\ Goto(w, "started", "polling")
  /\ UNCHANGED <<lock, owner, polls, pending, group, signalled, code, alone>>

TakeLock(w) ==
  /\ Goto(w, "polling", "acquired")
  /\ lock = NoWrapper
  /\ lock' = w
  /\ UNCHANGED <<owner, polls, pending, group, signalled, code, alone>>

\* The lock is held and there is time left: sleep and poll again.
PollAgain(w) ==
  /\ pc[w] = "polling"
  /\ lock # NoWrapper
  /\ polls[w] < PollBudget
  /\ polls' = [polls EXCEPT ![w] = @ + 1]
  /\ UNCHANGED <<pc, lock, owner, pending, group, signalled, code, alone>>

\* "busy lock=...; child not started; exiting 0"
GiveUp(w) ==
  /\ Goto(w, "polling", "exited")
  /\ lock # NoWrapper
  /\ polls[w] = PollBudget
  /\ code' = [code EXCEPT ![w] = "busy"]
  /\ UNCHANGED <<lock, owner, polls, pending, group, signalled, alone>>

WriteOwner(w) ==
  /\ Goto(w, "acquired", "described")
  /\ owner' = w
  /\ UNCHANGED <<lock, polls, pending, group, signalled, code, alone>>

InstallHandlers(w) ==
  /\ Goto(w, "described", "armed")
  /\ UNCHANGED <<lock, owner, polls, pending, group, signalled, code, alone>>

\* Popen(start_new_session=True): the leader runs in a group of its own.
StartChild(w) ==
  /\ Goto(w, "armed", "forked")
  /\ group' = [group EXCEPT ![w] = {Leader}]
  /\ UNCHANGED <<lock, owner, polls, pending, signalled, code, alone>>

LearnGroup(w) ==
  /\ Goto(w, "forked", "grouped")
  /\ UNCHANGED <<lock, owner, polls, pending, group, signalled, code, alone>>

\* Mutant: _run_child goes straight from Popen to wait().
ForwardNothing(w) ==
  /\ Goto(w, "grouped", "waiting")
  /\ UNCHANGED <<lock, owner, polls, pending, group, signalled, code, alone>>

\* A signal that came before the group was known is sent again, to all of it.
\* _forward_signal polls the child first, and skips a leader that has ended.
ForwardPending(w) ==
  /\ Goto(w, "grouped", "waiting")
  /\ IF pending[w] /\ Leader \in group[w]
     THEN /\ signalled' = [signalled EXCEPT ![w] = @ \cup group[w]]
          /\ alone' = [alone EXCEPT ![w] = FALSE]
     ELSE UNCHANGED <<signalled, alone>>
  /\ UNCHANGED <<lock, owner, polls, pending, group, code>>

\* wait() returns when the leader is gone, whoever is left in its group.
ReapChild(w) ==
  /\ Goto(w, "waiting", "reaped")
  /\ Leader \notin group[w]
  /\ code' = [code EXCEPT ![w] = "child"]
  /\ UNCHANGED <<lock, owner, polls, pending, group, signalled, alone>>

RestoreHandlers(w) ==
  /\ Goto(w, "reaped", "restored")
  /\ UNCHANGED <<lock, owner, polls, pending, group, signalled, code, alone>>

CloseFile(w) ==
  /\ Goto(w, "restored", "exited")
  /\ lock' = ReleasedBy(w)
  /\ UNCHANGED <<owner, polls, pending, group, signalled, code, alone>>

----------------------------------------------------------------------------
(* Signals to the wrapper, and the worker's processes.                     *)

\* Mutant: the handler only records the signal.
ReachedNobody(w) == {}

\* Mutant: the signal goes to the child and not to its group.
ReachedChild(w) == group[w] \cap {Leader}

\* Whom _forward_signal reaches: nobody before _child is set, the child alone
\* before _child_pgid is set, then the group.  Inside wait() the poll cannot
\* take Popen's lock, so it reports a live child even when the leader is gone.
Reached(w) ==
  CASE pc[w] = "forked"  -> group[w] \cap {Leader}
    [] pc[w] = "grouped" -> IF Leader \in group[w] THEN group[w] ELSE {}
    [] pc[w] = "waiting" -> group[w]
    [] OTHER             -> {}

\* TERM or INT while _forward_signal is the handler.
HandleSignal(w) ==
  /\ pc[w] \in Handling
  /\ pending' = [pending EXCEPT ![w] = TRUE]
  /\ signalled' = [signalled EXCEPT ![w] = @ \cup Reached(w)]
  /\ alone' = [alone EXCEPT ![w] = @ \/ pc[w] = "forked"]
  /\ UNCHANGED <<pc, lock, owner, polls, group, code>>

\* A wrapper that dies by a signal closes its file; the worker is untouched.
Die(w, how) ==
  /\ pc' = [pc EXCEPT ![w] = how]
  /\ lock' = ReleasedBy(w)
  /\ code' = [code EXCEPT ![w] = "signal"]
  /\ UNCHANGED <<owner, polls, pending, group, signalled, alone>>

\* TERM or INT with Python's default disposition.
DieOfSignal(w) == pc[w] \notin Handling \cup Gone /\ Die(w, "dead")

\* SIGKILL, as sent by the scheduler's container cleanup or the OOM killer.
Kill(w) == pc[w] \notin Gone /\ Die(w, "killed")

\* A worker process that got no signal yet starts another one.
Fork(w, p) ==
  /\ p \in Procs \ group[w]
  /\ \E q \in group[w] : q \notin signalled[w]
  /\ p # Leader
  /\ p \notin signalled[w]
  /\ group' = [group EXCEPT ![w] = @ \cup {p}]
  /\ UNCHANGED <<pc, lock, owner, polls, pending, signalled, code, alone>>

\* A worker process ends, by itself or of a forwarded signal.  The leader is
\* run_unlocked.sh, which waits for the pipelines it starts: by itself it ends
\* as the last one.
EndProc(w, p) ==
  /\ p \in group[w]
  /\ p = Leader => group[w] = {Leader} \/ Leader \in signalled[w]
  /\ group' = [group EXCEPT ![w] = @ \ {p}]
  /\ UNCHANGED <<pc, lock, owner, polls, pending, signalled, code, alone>>

\* A signal that does not come from the wrapper ends the leader alone: that of
\* the scheduler's cleanup, whose patterns name run_unlocked.sh and the wrapper
\* but not every worker script, or the OOM killer's.
StrikeLeader(w) ==
  /\ Leader \in group[w]
  /\ group' = [group EXCEPT ![w] = @ \ {Leader}]
  /\ alone' = [alone EXCEPT ![w] = TRUE]
  /\ UNCHANGED <<pc, lock, owner, polls, pending, signalled, code>>

----------------------------------------------------------------------------
OwnStep(w) ==
  \/ OpenFile(w) \/ TakeLock(w) \/ PollAgain(w) \/ GiveUp(w)
  \/ WriteOwner(w) \/ InstallHandlers(w) \/ StartChild(w)
  \/ LearnGroup(w) \/ ForwardPending(w) \/ ReapChild(w)
  \/ RestoreHandlers(w) \/ CloseFile(w)

SignalStep(w) == HandleSignal(w) \/ DieOfSignal(w) \/ Kill(w)

Next ==
  \E w \in Wrappers :
    \/ OwnStep(w)
    \/ SignalStep(w)
    \/ StrikeLeader(w)
    \/ \E p \in Procs : Fork(w, p) \/ EndProc(w, p)

Spec == Init /\ [][Next]_vars

(***************************************************************************)
(* A wrapper is scheduled by its kernel, and a worker process that a TERM  *)
(* or INT reached ends: no worker installs a handler of its own.  Nothing  *)
(* says that a worker without a signal ends.                               *)
(***************************************************************************)
Fairness ==
  /\ \A w \in Wrappers : WF_vars(OwnStep(w))
  /\ \A w \in Wrappers : \A p \in Procs :
       WF_vars(p \in signalled[w] /\ EndProc(w, p))

FairSpec == Spec /\ Fairness

----------------------------------------------------------------------------
(* Properties.                                                             *)

\* The flock names exactly the wrapper that is between taking and closing.
LockMatchesHolder ==
  \A w \in Wrappers : lock = w <=> pc[w] \in Holding

\* A worker whose leader lives and whose wrapper was not killed runs under the
\* lock (linkedin_runtime_lock.py:134-141: the file stays open around
\* _run_child).
WorkerUnderLock ==
  \A w \in Wrappers : Leader \in group[w] /\ pc[w] # "killed" => lock = w

\* A worker that may go on although its wrapper's lock is free: the wrapper was
\* ended by SIGKILL, or a signal met the leader and not the rest, or all that is
\* left of it has got TERM or INT and is about to end.
LeftBehind(w) ==
  \/ pc[w] = "killed"
  \/ /\ Leader \notin group[w]
     /\ alone[w] \/ group[w] \subseteq signalled[w]

\* README.md:52, "the queue remains serial and protected by the existing
\* host/shared worker locks": processes of two workers, whether the leading
\* script or the python that drives the browser, are alive together only when
\* one of the workers was left behind in one of these three ways.  That a signal
\* the wrapper forwards leaves nobody behind but those it reached rests on the
\* whole group being signalled, also by a signal that came early (lines 91-120).
OneWorkerAtATime ==
  \A v, w \in Wrappers :
    group[v] # {} /\ group[w] # {} /\ v # w => LeftBehind(v) \/ LeftBehind(w)

\* While a worker runs under its wrapper, the lock file's text names that
\* wrapper: a contender that merely opens the file does not damage it.
OwnerTextIsHolder ==
  \A w \in Wrappers :
    pc[w] \in Holding \ {"acquired"} => lock = w /\ owner = w

\* No signal is lost in the window between installing the handlers and
\* learning the group: once the wrapper waits with a pending signal and the
\* leader lives, every process of the group got it (lines 119-120).
PendingReachedGroup ==
  \A w \in Wrappers :
    pc[w] = "waiting" /\ pending[w] /\ Leader \in group[w]
      => group[w] \subseteq signalled[w]

\* A wrapper that caught a signal ends, and its lock with it.
SignalledWrapperEnds ==
  \A w \in Wrappers : pending[w] ~> pc[w] \in Gone /\ lock # w
=============================================================================
