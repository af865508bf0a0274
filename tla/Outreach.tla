------------------------------ MODULE Outreach ------------------------------
(***************************************************************************)
(* What a worker that approaches many targets promises, seen from outside: *)
(* how often each was acted upon on LinkedIn, and which ones the worker's  *)
(* own files say are dealt with.  SendMan.tla (messages to people) is      *)
(* shown to implement it, through stops, failures and crashes.             *)
(***************************************************************************)
EXTENDS Naturals

CONSTANT Targets

VARIABLES acted, noted

outreachVars == <<acted, noted>>

OutreachInit == acted = [t \in Targets |-> 0] /\ noted = {}

\* Acting is for a target that was never acted upon and is not dealt with.
Act(t) ==
  /\ t \notin noted /\ acted[t] = 0
  /\ acted' = [acted EXCEPT ![t] = 1]
  /\ UNCHANGED noted

\* A target is dealt with once and for all, acted upon or not.
Note(t) == noted' = noted \cup {t} /\ UNCHANGED acted

OutreachNext == \E t \in Targets : Act(t) \/ Note(t)

OutreachSpec == OutreachInit /\ [][OutreachNext]_outreachVars
=============================================================================
