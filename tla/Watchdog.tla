------------------------------ MODULE Watchdog ------------------------------
(***************************************************************************)
(* scripts/hermes_zero_watchdog.py and hermes_zero_repair_runner.py: after *)
(* a report that shows no useful output of a service, the watchdog marks   *)
(* the service as launched and spawns a runner, which has Hermes repair    *)
(* one service after the other.  A marker is there to keep later watchdogs *)
(* from launching the same repair again.                                   *)
(***************************************************************************)
EXTENDS Integers, FiniteSets, SequencesExt, FiniteSetsExt

CONSTANTS
  Services,     \* whose output may be zero
  Watchdogs,    \* bound: watchdogs at a time
  Periods,      \* a subset of {"daily", "weekly"}
  TTL,          \* [daily, weekly]: how long a marker is recent: 12 and 24 hours
  MaxTime,      \* bound: ticks
  MaxLaunches,  \* bound: runners
  FaultSets     \* the sets of faults that are followed

\* Everything goes down; Telegram cannot be reached; Hermes raises, or runs into
\* its timeout.
AllFaults == {"crash", "telegram", "hermes"}

\* What the constants have to be.
Sound ==
  /\ IsFiniteSet(Services) /\ Periods \subseteq {"daily", "weekly"}
  /\ FaultSets \subseteq SUBSET AllFaults
  /\ \A p \in Periods : TTL[p] \in Nat \ {0}
  /\ MaxTime \in Nat /\ MaxLaunches \in Nat

VARIABLES
  mishaps,   \* the faults that may happen; never changes
  time,      \* ticks since Monday's report
  markers,   \* the marker files: label, service, launched_at
  watchdog,  \* each watchdog's pc, selection, and markers still to write
  runners,   \* the runners spawned so far
  skipped    \* services a watchdog has reported as recently launched

vars == <<mishaps, time, markers, watchdog, runners, skipped>>

----------------------------------------------------------------------------
Time == 0..MaxTime

\* A daily label shows the minute the window ends, here the tick.  A weekly label
\* shows the week, which is the same throughout.
Label == [period : Periods, at : Time \cup {-1}]

Marker == [label : Label, service : Services, at : Time]
Idle == [pc |-> "idle", label |-> <<>>, selected |-> {}, write |-> {}]

\* at: the time of the spawn; queue: the services to come; tried: those that
\* Hermes was run for.
Runner == [period : Periods, at : Time, services : SUBSET Services,
           queue : Seq(Services), tried : SUBSET Services, gone : BOOLEAN]

\* Types; a runner has tried what has left its queue.
TypeOK ==
  /\ mishaps \in FaultSets /\ time \in Time /\ markers \subseteq Marker
  /\ DOMAIN watchdog = Watchdogs
  /\ \A w \in Watchdogs :
       \/ watchdog[w] = Idle
       \/ /\ watchdog[w].pc \in {"mark", "spawn"} /\ watchdog[w].label \in Label
          /\ watchdog[w].write \subseteq watchdog[w].selected
          /\ watchdog[w].selected \subseteq Services /\ watchdog[w].selected # {}
  /\ \A r \in DOMAIN runners : runners[r] \in Runner /\ Len(runners) <= MaxLaunches
  /\ \A r \in DOMAIN runners : ToSet(runners[r].queue) = runners[r].services \ runners[r].tried
  /\ skipped \subseteq [period : Periods, service : Services, at : Time]

Init ==
  /\ mishaps \in FaultSets /\ time = 0 /\ markers = {} /\ skipped = {}
  /\ watchdog = [w \in Watchdogs |-> Idle] /\ runners = <<>>

----------------------------------------------------------------------------
(* The watchdog.                                                           *)

\* Mutant: the shorter time for both.
RecentShort(m) == time - m.at < Min(Range(TTL))

\* recently_launched
Recent(m) == time - m.at < TTL[m.label.period]

LabelOf(period) == [period |-> period, at |-> IF period = "daily" THEN time ELSE -1]

\* state_key: one file for a label and a service.
Marked(label) == {s \in Services : \E m \in markers : m.label = label /\ m.service = s /\ Recent(m)}

\* not selected
Nothing(selected) == selected = {}

\* collect, find_triggers and the choice: the services without output whose
\* marker is not recent.  ConnectMan's output counts in weekly reports only.
Select(w, period) ==
  /\ watchdog[w] = Idle
  /\ \E triggers \in SUBSET {s \in Services : s = "connectman" => period = "weekly"} :
       /\ triggers # {}
       /\ LET label == LabelOf(period)
              selected == triggers \ Marked(label)
          IN /\ watchdog' = [watchdog EXCEPT ![w] =
                   IF Nothing(selected) THEN Idle
                   ELSE [pc |-> "mark", label |-> label, selected |-> selected, write |-> selected]]
             /\ skipped' = skipped \cup
                  {[period |-> period, service |-> s, at |-> time] : s \in triggers \cap Marked(label)}
  /\ UNCHANGED <<mishaps, time, markers, runners>>

\* One marker file; launched_at is the time of the choice.
WriteMarker(w) ==
  /\ watchdog[w].pc = "mark"
  /\ \E s \in watchdog[w].write :
       /\ markers' = {m \in markers : m.label # watchdog[w].label \/ m.service # s}
                       \cup {[label |-> watchdog[w].label, service |-> s, at |-> time]}
       /\ watchdog' = [watchdog EXCEPT ![w].write = @ \ {s},
                         ![w].pc = IF watchdog[w].write = {s} THEN "spawn" ELSE "mark"]
  /\ UNCHANGED <<mishaps, time, runners, skipped>>

\* spawn_runner: one runner, in a session of its own, for all that is selected.
Spawn(w) ==
  /\ watchdog[w].pc = "spawn" /\ Len(runners) < MaxLaunches
  /\ runners' = Append(runners,
       [period |-> watchdog[w].label.period, at |-> time, services |-> watchdog[w].selected,
        queue |-> SetToSeq(watchdog[w].selected), tried |-> {}, gone |-> FALSE])
  /\ watchdog' = [watchdog EXCEPT ![w] = Idle]
  /\ UNCHANGED <<mishaps, time, markers, skipped>>

----------------------------------------------------------------------------
(* The runner.                                                             *)

\* The message about a repair, or about its failure, is sent from the except
\* clause again; if that fails too, the exception leaves main.
GoesOn(raised, unsent) == ~unsent

\* run_hermes for one service, and the message.
Repair(r) ==
  /\ ~runners[r].gone /\ runners[r].queue # <<>>
  /\ \E raised \in {FALSE} \cup {"hermes" \in mishaps}, unsent \in {FALSE} \cup {"telegram" \in mishaps} :
       runners' = [runners EXCEPT ![r].tried = @ \cup {Head(runners[r].queue)},
                                  ![r].queue = Tail(@), ![r].gone = ~GoesOn(raised, unsent)]
  /\ UNCHANGED <<mishaps, time, markers, watchdog, skipped>>

----------------------------------------------------------------------------
(* The Mac goes down, and with it every process; time.                     *)

Crash ==
  /\ "crash" \in mishaps
  /\ watchdog' = [w \in Watchdogs |-> Idle]
  /\ runners' = [r \in DOMAIN runners |-> [runners[r] EXCEPT !.gone = TRUE]]
  /\ UNCHANGED <<mishaps, time, markers, skipped>>

\* A watchdog takes minutes.
Tick ==
  /\ time < MaxTime /\ \A w \in Watchdogs : watchdog[w] = Idle
  /\ time' = time + 1 /\ UNCHANGED <<mishaps, markers, watchdog, runners, skipped>>

RunnerStep == \E r \in DOMAIN runners : Repair(r)

Next ==
  \/ \E w \in Watchdogs :
       (\E period \in Periods : Select(w, period)) \/ WriteMarker(w) \/ Spawn(w)
  \/ RunnerStep \/ Crash \/ Tick

Spec == Init /\ [][Next]_vars

----------------------------------------------------------------------------
(* Properties.                                                             *)

\* Two weekly launches for one service lie at least TTL apart: that is what
\* --force would ignore ("Ignore recent launch state",
\* hermes_zero_watchdog.py:102).  Of daily launches it is not so: no daily label
\* comes again, and no daily marker is ever found.
LaunchedOnce ==
  \A q, r \in DOMAIN runners :
    q < r /\ runners[q].period = "weekly" /\ runners[r].period = "weekly"
          /\ runners[q].services \cap runners[r].services # {}
      => runners[r].at - runners[q].at >= TTL["weekly"]

\* "triggers exist but recently launched" (hermes_zero_watchdog.py:146) is said of
\* services for which a runner was spawned, unless everything went down between
\* the marker and the spawn.
SkippedWereLaunched ==
  "crash" \notin mishaps =>
    \A s \in skipped : \E r \in DOMAIN runners :
      runners[r].period = s.period /\ s.service \in runners[r].services /\ runners[r].at <= s.at

\* A marker stands for one launch: one at least, and no second one while it is
\* recent, over watchdogs that crash, or find it again.
OneLaunchPerMarker == LaunchedOnce /\ SkippedWereLaunched
=============================================================================
