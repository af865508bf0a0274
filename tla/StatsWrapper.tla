---------------------------- MODULE StatsWrapper ----------------------------
(***************************************************************************)
(* scripts/launchd/hermes_stats_launchd_{daily,weekly}.sh: launchd, or     *)
(* somebody by hand, starts a wrapper, which runs the status bot once,     *)
(* under a lock that is a directory with the wrapper's pid in it.  The two *)
(* scripts differ in the period, and with it in the lock; this is one of   *)
(* them.  A wrapper here is one process, and starts once.  rm -rf lists    *)
(* the directory, unlinks what it found by its path, and removes the       *)
(* directory if it is empty then; printing to a file is one step.  Exit    *)
(* codes and the status file, which no wrapper reads, are left out.        *)
(***************************************************************************)
EXTENDS FiniteSets

CONSTANTS
  Wrappers,  \* the wrappers, and their pids
  NoPid,
  Reused     \* pids that the system gives to some other process afterwards

\* What the instances assume of the constants.
Sound == NoPid \notin Wrappers /\ Reused \subseteq Wrappers

VARIABLES
  dir,       \* does LOCK_DIR exist?
  pidIn,     \* LOCK_DIR/pid
  stamped,   \* is there a LOCK_DIR/started_at?
  pc,        \* where each wrapper is
  found,     \* existing_pid, from its reading to its use
  rm,        \* its rm -rf, if one is at work, and the files that has still to unlink
  left,
  trap,      \* the cleanup it is in: of a signal, or at its exit
  bot,       \* each wrapper's child, hermes_container_status_bot.py
  mishaps    \* what has happened so far: "overlap", a wrapper started while another
             \* one was taking the lock; "term", the holder got SIGTERM or SIGINT

own == <<found, bot>>
lock == <<dir, pidIn, stamped>>
removal == <<rm, left, trap>>
vars == <<lock, pc, own, removal, mishaps>>

----------------------------------------------------------------------------
Pids == Wrappers \cup {NoPid}
Files == {"pid", "started_at"}
Taking == {"mkdir", "look", "decide", "remove", "again", "own", "stamp"}
Running == {"spawn", "watch", "reap", "status"}
Points == {"idle", "locked", "exit", "gone", "killed"} \cup Taking \cup Running

\* Types; only a lock that is there has files in it.
TypeOK ==
  /\ dir \in BOOLEAN /\ pidIn \in Pids /\ stamped \in BOOLEAN
  /\ (pidIn # NoPid => dir) /\ (stamped => dir)
  /\ pc \in [Wrappers -> Points] /\ found \in [Wrappers -> Pids]
  /\ rm \in [Wrappers -> {"none", "list", "unlink"}] /\ left \in [Wrappers -> SUBSET Files]
  /\ trap \in [Wrappers -> {"none", "signal", "exit"}]
  /\ bot \in [Wrappers -> {"none", "running", "ended"}]
  /\ mishaps \subseteq {"overlap", "term"}

Init ==
  /\ dir = FALSE /\ pidIn = NoPid /\ stamped = FALSE
  /\ pc = [w \in Wrappers |-> "idle"] /\ found = [w \in Wrappers |-> NoPid]
  /\ rm = [w \in Wrappers |-> "none"] /\ left = [w \in Wrappers |-> {}]
  /\ trap = [w \in Wrappers |-> "none"]
  /\ bot = [w \in Wrappers |-> "none"] /\ mishaps = {}

Alive(w) == pc[w] \notin {"idle", "gone", "killed"}

\* bash goes on with the script when rm, and with it the handler, has ended.
At(w, point) == pc[w] = point /\ rm[w] = "none"
Go(w, point) == pc' = [pc EXCEPT ![w] = point]

----------------------------------------------------------------------------
(* Taking the lock.                                                        *)

Start(w) ==
  /\ At(w, "idle") /\ Go(w, "mkdir")
  /\ mishaps' = IF \E v \in Wrappers : pc[v] \in Taking THEN mishaps \cup {"overlap"} ELSE mishaps
  /\ UNCHANGED <<lock, own, removal>>

\* mkdir "$LOCK_DIR": the first one goes on to look at the pid when it fails; with
\* the second one set -e ends the wrapper.
MakeDir(w, at, otherwise) ==
  /\ At(w, at) /\ Go(w, IF dir THEN otherwise ELSE "own")
  /\ dir' = TRUE
  /\ UNCHANGED <<pidIn, stamped, own, removal, mishaps>>

FirstMakeDir(w) == MakeDir(w, "mkdir", "look")
SecondMakeDir(w) == MakeDir(w, "again", "exit")

\* existing_pid=$(cat "$LOCK_DIR/pid" || true)
Look(w) ==
  /\ At(w, "look") /\ Go(w, "decide")
  /\ found' = [found EXCEPT ![w] = pidIn]
  /\ UNCHANGED <<lock, bot, removal, mishaps>>

\* [[ -n "$existing_pid" ]] && kill -0 "$existing_pid", after which the variable is
\* not used again.
Runs(pid) == pid # NoPid /\ (Alive(pid) \/ pid \in Reused)

\* A wrapper that runs: write_status and exit 75.  Otherwise rm -rf "$LOCK_DIR".
Decide(w) ==
  /\ At(w, "decide") /\ found' = [found EXCEPT ![w] = NoPid]
  /\ IF Runs(found[w]) THEN Go(w, "locked") /\ UNCHANGED rm
     ELSE Go(w, "remove") /\ rm' = [rm EXCEPT ![w] = "list"]
  /\ UNCHANGED <<lock, bot, left, trap, mishaps>>

\* printf > "$LOCK_DIR/pid": there is no lock to write it to if another wrapper
\* has removed it, and set -e ends this one.
Own(w) ==
  /\ At(w, "own")
  /\ IF dir THEN Go(w, "stamp") /\ pidIn' = w ELSE Go(w, "exit") /\ UNCHANGED pidIn
  /\ UNCHANGED <<dir, stamped, own, removal, mishaps>>

\* printf > "$LOCK_DIR/started_at"
Stamp(w) ==
  /\ At(w, "stamp")
  /\ IF dir THEN Go(w, "spawn") /\ stamped' = TRUE ELSE Go(w, "exit") /\ UNCHANGED stamped
  /\ UNCHANGED <<dir, pidIn, own, removal, mishaps>>

----------------------------------------------------------------------------
(* Running the bot, under set +e.                                          *)

Spawn(w) ==
  /\ At(w, "spawn") /\ Go(w, "watch")
  /\ bot' = [bot EXCEPT ![w] = "running"]
  /\ UNCHANGED <<lock, found, removal, mishaps>>

BotEnds(w) ==
  /\ bot[w] = "running" /\ bot' = [bot EXCEPT ![w] = "ended"]
  /\ UNCHANGED <<lock, pc, found, removal, mishaps>>

\* After kill -TERM, two seconds and kill -KILL.
Stopped(state) == IF state = "running" THEN "ended" ELSE state

\* TIMEOUT_SECONDS have passed and the bot has not ended.
Timeout(w) ==
  /\ At(w, "watch") /\ bot[w] = "running" /\ Go(w, "reap")
  /\ bot' = [bot EXCEPT ![w] = Stopped(@)]
  /\ UNCHANGED <<lock, found, removal, mishaps>>

\* kill -0 "$child_pid" fails.
BotGone(w) ==
  /\ At(w, "watch") /\ bot[w] # "running" /\ Go(w, "reap")
  /\ UNCHANGED <<lock, own, removal, mishaps>>

\* wait "$child_pid"
Reap(w) ==
  /\ At(w, "reap") /\ bot[w] # "running" /\ Go(w, "status")
  /\ UNCHANGED <<lock, own, removal, mishaps>>

\* write_status, at the end or when the lock is taken.
WriteStatus(w) ==
  /\ At(w, "status") \/ At(w, "locked")
  /\ Go(w, "exit")
  /\ UNCHANGED <<lock, own, removal, mishaps>>

----------------------------------------------------------------------------
(* cleanup and the signals.                                                *)

\* Mutant: whoever ends removes the lock.
MineAny(w) == TRUE

\* [[ "$(cat "$LOCK_DIR/pid")" == "$$" ]]
Mine(w) == pidIn = w

Cleanup(w, how) ==
  /\ trap' = [trap EXCEPT ![w] = how] /\ rm' = [rm EXCEPT ![w] = "list"]
  /\ UNCHANGED left

\* trap cleanup EXIT
Exit(w) ==
  /\ At(w, "exit")
  /\ IF Mine(w) THEN Cleanup(w, "exit") /\ UNCHANGED pc ELSE Go(w, "gone") /\ UNCHANGED removal
  /\ UNCHANGED <<lock, own, mishaps>>

\* trap cleanup INT TERM: the handler does not exit, so the script goes on.
Term(w) ==
  /\ Alive(w) /\ rm[w] = "none" /\ Mine(w) /\ Cleanup(w, "signal")
  /\ mishaps' = mishaps \cup {"term"}
  /\ UNCHANGED <<lock, pc, own>>

\* SIGKILL, or the host: the bot may go on alone.
Kill(w) ==
  /\ Alive(w) /\ Go(w, "killed")
  /\ rm' = [rm EXCEPT ![w] = "none"] /\ left' = [left EXCEPT ![w] = {}]
  /\ trap' = [trap EXCEPT ![w] = "none"]
  /\ UNCHANGED <<lock, own, mishaps>>

----------------------------------------------------------------------------
(* rm -rf "$LOCK_DIR".                                                     *)

\* Mutant: rm -f "$LOCK_DIR/pid" and rmdir.
ListingPid == {"pid"}

Listing == {f \in Files : IF f = "pid" THEN pidIn # NoPid ELSE stamped}

\* What follows rm: set -e ends the wrapper when it has failed, but not from before
\* the bot is spawned until it has been waited for.
RmEnds(w, done) ==
  /\ rm' = [rm EXCEPT ![w] = "none"] /\ trap' = [trap EXCEPT ![w] = "none"] /\ UNCHANGED left
  /\ \E unchecked \in {{"watch", "reap"}, {"spawn", "watch", "reap"}} :
       pc' = [pc EXCEPT ![w] =
                CASE trap[w] = "exit" -> "gone"
                  [] trap[w] # "exit" /\ ~done /\ @ \notin unchecked -> "exit"
                  [] trap[w] = "none" /\ done -> "again"
                  [] OTHER -> @]

RmLists(w) ==
  /\ rm[w] = "list"
  /\ IF dir
     THEN /\ left' = [left EXCEPT ![w] = Listing] /\ rm' = [rm EXCEPT ![w] = "unlink"]
          /\ UNCHANGED <<pc, trap>>
     ELSE RmEnds(w, TRUE)
  /\ UNCHANGED <<lock, own, mishaps>>

RmUnlinks(w) ==
  /\ rm[w] = "unlink"
  /\ \E f \in left[w] :
       /\ left' = [left EXCEPT ![w] = @ \ {f}]
       /\ pidIn' = IF f = "pid" THEN NoPid ELSE pidIn
       /\ stamped' = (stamped /\ f = "pid")
  /\ UNCHANGED <<dir, pc, own, rm, trap, mishaps>>

\* A directory that is not there any more is no error.
RmRemovesDir(w) ==
  /\ rm[w] = "unlink" /\ left[w] = {}
  /\ LET empty == pidIn = NoPid /\ ~stamped
     IN RmEnds(w, empty) /\ dir' = (dir /\ ~empty)
  /\ UNCHANGED <<pidIn, stamped, own, mishaps>>

----------------------------------------------------------------------------
Step(w) ==
  \/ FirstMakeDir(w) \/ Look(w) \/ Decide(w) \/ SecondMakeDir(w) \/ Own(w) \/ Stamp(w)
  \/ Spawn(w) \/ BotGone(w) \/ Reap(w) \/ WriteStatus(w) \/ Exit(w)
  \/ RmLists(w) \/ RmUnlinks(w) \/ RmRemovesDir(w)

Next ==
  \E w \in Wrappers :
    Start(w) \/ Step(w) \/ BotEnds(w) \/ Timeout(w) \/ Term(w) \/ Kill(w)

Spec == Init /\ [][Next]_vars

----------------------------------------------------------------------------
(* Properties.                                                             *)

Killed == \E w \in Wrappers : pc[w] = "killed"

\* Two bots would send the report twice: the lock is for one at a time, whoever
\* comes and goes meanwhile, a wrapper that found the lock taken included
\* (lines 56-84); unless one was killed, a holder got a signal, whose handler
\* frees the lock and returns to the script, or two were taking the lock at once.
OneBot ==
  mishaps = {} /\ ~Killed =>
    \A v, w \in Wrappers : bot[v] = "running" /\ bot[w] = "running" => v = w

\* Whoever gets a signal, and whatever rm is at work meanwhile, once all have ended,
\* and none by SIGKILL, nobody's lock is left (lines 56-61), unless two were taking
\* the lock at once: then rm -rf of the one may unlink the pid of the other, which
\* does not know its lock any more.
LockIsFreed ==
  "overlap" \notin mishaps /\ (\A w \in Wrappers : pc[w] \in {"idle", "gone"}) => ~dir
=============================================================================
