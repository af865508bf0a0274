----------------------------- MODULE ConnectMan -----------------------------
(***************************************************************************)
(* services/ConnectMan/scripts/linkedin_outreach.py: a run goes through    *)
(* people-search pages and invites the people whose card shows an allowed  *)
(* place.  The places of the Connect buttons are read once per page and    *)
(* clicked later by their coordinates.  In "soft_recruiter" mode a run     *)
(* opens each profile in the same tab first and comes back to the page.    *)
(*                                                                         *)
(* The runtime lock (RuntimeLock.tla) makes it one run at a time.  A run   *)
(* here is not a DRY_RUN, which clicks nothing.                            *)
(***************************************************************************)
EXTENDS Integers, FiniteSets

CONSTANTS
  People, NoOne,
  Allowed,        \* people whose card passes blocked_by_filters
  Spots, NoSpot,  \* places on a page where a Connect button may be
  Modes,          \* does LINKEDIN_CONNECT_MODE say soft_recruiter?
  MaxConnects,    \* MAX_CONNECTS, or SOFT_CONNECT_MAX cut to 5
  MaxViews,       \* SOFT_PROFILE_VIEW_MAX cut to 15
  MaxPages        \* MAX_PAGES, over all searches

ASSUME PeopleAssumption == /\ NoOne \notin People /\ Allowed \subseteq People
                           /\ NoSpot \notin Spots /\ IsFiniteSet(People)
ASSUME NumberAssumption == MaxConnects \in Nat /\ MaxViews \in Nat /\ MaxPages \in Nat
ASSUME ModeAssumption == Modes \subseteq BOOLEAN

VARIABLES
  layout,   \* whose Connect button is at a place of the page
  modal,    \* whose invitation dialog is open
  coming,   \* people whose dialog was asked for and is not there yet
  stray,    \* did a dialog of this run, open or coming, outlive its candidate?
  shown,    \* does LinkedIn show a stop?
  late,     \* clicks for an invitation since it began to
  pc,
  soft,     \* the run's mode: soft_recruiter, not standard
  st,       \* the status: sent, skipped, errors, profiles_viewed, ...
  fresh,    \* people with an invitation of this run
  found,    \* the coordinates read from the page, per person
  todo, cur,\* candidates left; the one in hand
  seen      \* seen_names, seen_profiles

dialogs == <<modal, coming, stray>>
linkedIn == <<layout, dialogs, shown, late, fresh>>
cursor == <<found, todo, cur, seen, soft>>
vars == <<linkedIn, pc, st, cursor>>

----------------------------------------------------------------------------
Points == {"idle", "open", "search", "page", "candidate", "view", "return", "filter",
           "click", "clicked", "checked", "submitted"}

\* None; the reasons of a normal end; or a stop, an invalid context, a crash.
StopReasons == {"none", "completed", "no_next_page", "stop", "context", "exception"}

Status == [sent : SUBSET People, skipped : SUBSET People, errors : SUBSET People,
           viewed : Nat, pages : Nat, stop : StopReasons]

Layouts ==
  {f \in [Spots -> People \cup {NoOne}] :
     \A a, b \in Spots : a # b /\ f[a] = f[b] => f[a] = NoOne}

\* Types; a run records at most as many invitations as it may send, and looks
\* at no more pages and profiles than it may.
TypeOK ==
  /\ layout \in Layouts
  /\ modal \in People \cup {NoOne} /\ coming \subseteq People /\ stray \in BOOLEAN
  /\ fresh \subseteq People
  /\ shown \in BOOLEAN /\ late \in Nat /\ pc \in Points /\ soft \in Modes /\ st \in Status
  /\ found \in [People -> Spots \cup {NoSpot}]
  /\ todo \subseteq People /\ cur \in People \cup {NoOne} /\ seen \subseteq People
  /\ Cardinality(st.sent) <= MaxConnects
  /\ st.pages <= MaxPages /\ st.viewed <= MaxViews

NewStatus == [sent |-> {}, skipped |-> {}, errors |-> {}, viewed |-> 0, pages |-> 0,
              stop |-> "none"]

Init ==
  /\ layout = [s \in Spots |-> NoOne]
  /\ modal = NoOne /\ coming = {} /\ stray = FALSE
  /\ fresh = {} /\ shown = FALSE /\ late = 0
  /\ pc = "idle" /\ st = NewStatus
  /\ found = [p \in People |-> NoSpot] /\ todo = {} /\ cur = NoOne /\ seen = {}
  /\ soft \in Modes

----------------------------------------------------------------------------
(* A run's beginning and its ends.                                         *)

Begin ==
  /\ pc = "idle" /\ pc' = "open" /\ st' = NewStatus /\ soft' \in Modes
  /\ fresh' = {} /\ seen' = {} /\ todo' = {} /\ cur' = NoOne /\ stray' = FALSE
  /\ UNCHANGED <<layout, modal, coming, shown, late, found>>

\* The page is closed, the reason is in the status.
End(reason) ==
  /\ pc' = "idle" /\ modal' = NoOne /\ coming' = {}
  /\ st' = [st EXCEPT !.stop = reason]
  /\ UNCHANGED <<layout, stray, shown, late, fresh, cursor>>

\* connect_browser: exactly one persistent context, and a page of our own.
ConnectBrowser ==
  /\ pc = "open"
  /\ \/ pc' = "search" /\ UNCHANGED <<linkedIn, st, cursor>>
     \/ End("context")

\* page.goto of a search; an exception of it ends the process.
OpenSearch ==
  /\ pc = "search"
  /\ \/ /\ pc' = "page" /\ layout' \in Layouts /\ modal' = NoOne /\ coming' = {}
        /\ UNCHANGED <<stray, shown, late, fresh, st, cursor>>
     \/ End("exception")

\* The process is killed, or the container stops.
Crash == pc # "idle" /\ End("exception")

\* mark_stop.
Stop == End("stop")

----------------------------------------------------------------------------
(* A page.                                                                 *)

\* len(status["sent"]) >= MAX_CONNECTS, which ends a standard run.
Full == Cardinality(st.sent) >= MaxConnects

Viewed == soft /\ st.viewed >= MaxViews

\* get_connect_candidates, get_people_candidates: the coordinates of now.
Coordinates ==
  [p \in People |-> IF \E s \in Spots : layout[s] = p
                    THEN CHOOSE s \in Spots : layout[s] = p ELSE NoSpot]

\* The head of the loop over pages.  A standard run ends when it is full; a
\* soft one goes on viewing.
LoadPage ==
  /\ pc = "page"
  /\ IF st.pages >= MaxPages \/ Viewed \/ (Full /\ ~soft)
     THEN End(IF soft THEN "completed" ELSE "none")
     ELSE IF shown THEN Stop
     ELSE /\ pc' = "candidate"
          /\ st' = [st EXCEPT !.pages = @ + 1]
          /\ found' = Coordinates
          /\ todo' = {p \in People : Coordinates[p] # NoSpot}
          /\ UNCHANGED <<linkedIn, cur, seen, soft>>

\* Mutant: the place on the card is not looked at.
BlockedByFiltersNot(p) == FALSE

\* blocked_by_filters, location_match: by the card's text.
BlockedByFilters(p) == p \notin Allowed

Take(p) ==
  /\ pc = "candidate" /\ p \in todo
  /\ todo' = todo \ {p} /\ cur' = p /\ seen' = seen \cup {p}
  /\ UNCHANGED <<linkedIn, found, soft>>

SkipIt(p) == pc' = "candidate" /\ st' = [st EXCEPT !.skipped = @ \cup {p}]

\* The next candidate of a standard run: one seen before is passed over.
StandardCandidate(p) ==
  /\ ~soft /\ ~Full /\ Take(p)
  /\ CASE p \in seen -> pc' = "candidate" /\ UNCHANGED st
       [] p \notin seen /\ BlockedByFilters(p) -> SkipIt(p)
       [] OTHER -> pc' = "click" /\ UNCHANGED st

\* The next candidate of a soft run, best score first; candidate_blocked_for_view
\* and score_recruiter_candidate may rule out anybody.
SoftCandidate(p) ==
  /\ soft /\ ~Viewed /\ Take(p)
  /\ IF p \in seen THEN pc' = "candidate" /\ UNCHANGED st
     ELSE \/ pc' = "view" /\ UNCHANGED st
          \/ SkipIt(p)

\* The page changes under the dialogs, or is drawn anew around them.
Redrawn ==
  /\ layout' \in Layouts
  /\ \/ modal' = NoOne /\ coming' = {}
     \/ UNCHANGED <<modal, coming>>

\* The page's candidates are done: the next page, in soft mode also the next
\* search.
NextPage ==
  /\ pc = "candidate" /\ (todo = {} \/ Viewed \/ (Full /\ ~soft))
  /\ IF Viewed \/ st.pages >= MaxPages \/ (Full /\ ~soft)
     THEN End(IF soft THEN "completed" ELSE "none")
     ELSE IF shown THEN Stop
     ELSE \/ /\ pc' = "page" /\ Redrawn
             /\ UNCHANGED <<stray, shown, late, fresh, st, cursor>>
          \/ End(IF soft THEN "completed" ELSE "no_next_page")
          \/ /\ soft /\ pc' = "search"
             /\ UNCHANGED <<linkedIn, st, cursor>>

----------------------------------------------------------------------------
(* Soft mode: the profile is opened in the tab of the search.              *)

\* goto, stop check, profiles_viewed; an exception is noted and the candidate
\* stays in hand.
ViewProfile ==
  /\ pc = "view"
  /\ \/ /\ ~shown /\ pc' = "return" /\ st' = [st EXCEPT !.viewed = @ + 1]
        /\ UNCHANGED <<linkedIn, cursor>>
     \/ shown /\ Stop
     \/ /\ pc' = "return" /\ st' = [st EXCEPT !.errors = @ \cup {cur}]
        /\ UNCHANGED <<linkedIn, cursor>>

\* The way back: the search is loaded anew, in whatever order it now has, or
\* (with an entry in errors) the tab stays with the profile.
ReturnToSearch ==
  /\ pc = "return" /\ pc' = "filter" /\ Redrawn
  /\ \/ UNCHANGED st
     \/ st' = [st EXCEPT !.errors = @ \cup {cur}]
  /\ UNCHANGED <<stray, shown, late, fresh, cursor>>

\* The filters before a soft invitation: the number sent, the place, the score.
SoftFilter ==
  /\ pc = "filter"
  /\ \/ Full /\ pc' = "candidate" /\ UNCHANGED st
     \/ ~Full /\ pc' = "candidate" /\ st' = [st EXCEPT !.skipped = @ \cup {cur}]
     \/ ~Full /\ ~BlockedByFilters(cur) /\ pc' = "click" /\ UNCHANGED st
  /\ UNCHANGED <<linkedIn, cursor>>

----------------------------------------------------------------------------
(* An invitation.                                                          *)

Invite(p) ==
  /\ fresh' = fresh \cup {p}
  /\ layout' = [s \in Spots |-> IF layout[s] = p THEN NoOne ELSE layout[s]]

Click == late' = IF shown THEN late + 1 ELSE late

\* page.mouse.click at the coordinates: a dialog is asked for, or LinkedIn invites
\* at once, or nothing happens; an open dialog is in the way, or closes.
ClickConnect ==
  /\ pc = "click" /\ pc' = "clicked" /\ Click
  /\ LET hit == layout[found[cur]]
     IN \/ UNCHANGED <<layout, modal, coming, fresh>>
        \/ /\ modal # NoOne /\ modal' = NoOne
           /\ UNCHANGED <<layout, coming, fresh>>
        \/ /\ hit # NoOne /\ modal = NoOne /\ coming' = coming \cup {hit}
           /\ UNCHANGED <<layout, modal, fresh>>
        \/ /\ hit # NoOne /\ modal = NoOne /\ Invite(hit)
           /\ UNCHANGED <<modal, coming>>
  /\ UNCHANGED <<stray, shown, st, cursor>>

\* A dialog that was asked for opens: before the check, before the search for
\* Send, or when its candidate is long done with.
DialogOpens(p) ==
  /\ pc # "idle" /\ p \in coming /\ modal = NoOne
  /\ modal' = p /\ coming' = coming \ {p}
  /\ UNCHANGED <<layout, stray, shown, late, fresh, pc, st, cursor>>

\* Mutant: nothing is checked between the two clicks.
StopAfterConnectNot == FALSE

\* detect_stop between the click on Connect and the click on Send.
StopAfterConnect == shown

StopBeforeSend ==
  /\ pc = "clicked"
  /\ IF StopAfterConnect THEN Stop
     ELSE pc' = "checked" /\ UNCHANGED <<linkedIn, st, cursor>>

\* click_send_without_note returned True: Send of whatever dialog is open.
ClickSend ==
  /\ pc = "checked" /\ modal # NoOne /\ Click
  /\ pc' = "submitted" /\ modal' = NoOne /\ Invite(modal)
  /\ UNCHANGED <<coming, stray, shown, st, cursor>>

\* The dialogs after page.keyboard.press("Escape"), whose failure is passed over:
\* an open one is closed or stays, one that is coming still comes.
Escaped == modal' \in {NoOne, modal} /\ UNCHANGED coming

\* The candidate is done with.
Done == pc' = "candidate" /\ stray' = (stray \/ modal' # NoOne \/ coming' # {})

\* No usable Send button: a skip.
NoSendButton ==
  /\ pc = "checked" /\ Escaped /\ Done
  /\ st' = [st EXCEPT !.skipped = @ \cup {cur}]
  /\ UNCHANGED <<layout, shown, late, fresh, cursor>>

\* Mutant: an exception is passed over.
ErrorsNot == st.errors

\* status["errors"].append
Errors == st.errors \cup {cur}

\* An exception of Playwright: at the click on Connect, on the way to Send, or
\* at the click on Send though it went out.
ClickFails ==
  /\ pc \in {"click", "checked", "submitted"} /\ Escaped /\ Done
  /\ st' = [st EXCEPT !.errors = Errors]
  /\ UNCHANGED <<layout, shown, late, fresh, cursor>>

StopAfterSend == pc = "submitted" /\ shown /\ Stop

RecordSent ==
  /\ pc = "submitted" /\ ~shown
  /\ UNCHANGED <<layout, modal, coming, shown, late, fresh, cursor>>
  /\ Done /\ st' = [st EXCEPT !.sent = @ \cup {cur}]

\* LinkedIn starts to show a stop, and shows it until the next run.
ShowStop ==
  /\ pc # "idle" /\ ~shown /\ shown' = TRUE
  /\ UNCHANGED <<layout, dialogs, late, fresh, pc, st, cursor>>

LiftStop ==
  /\ pc = "idle" /\ shown /\ shown' = FALSE /\ late' = 0
  /\ UNCHANGED <<layout, dialogs, fresh, pc, st, cursor>>

----------------------------------------------------------------------------
RunStep ==
  \/ ConnectBrowser \/ OpenSearch \/ LoadPage \/ NextPage
  \/ \E p \in People : StandardCandidate(p) \/ SoftCandidate(p)
  \/ ViewProfile \/ ReturnToSearch \/ SoftFilter
  \/ ClickConnect \/ StopBeforeSend \/ ClickSend \/ NoSendButton \/ ClickFails
  \/ StopAfterSend \/ RecordSent

Next ==
  \/ Begin \/ RunStep \/ Crash
  \/ (\E p \in People : DialogOpens(p)) \/ ShowStop \/ LiftStop

Spec == Init /\ [][Next]_vars

----------------------------------------------------------------------------
(* Properties.                                                             *)

\* "Connect requests are allowed only when the visible candidate card
\* explicitly contains Spain, Portugal, or United Kingdom/UK"
\* (linkedin_outreach.py:196-197): whoever a standard run invites has such a
\* card.  (A soft run may click where somebody else's button is by then.)
InvitedAreAllowed == ~soft => fresh \subseteq Allowed

\* Whoever a standard run reports as invited was invited, unless a dialog of the
\* run outlived its candidate (it opened after the one look for Send, or Escape
\* failed): then Send may have been that dialog's, and the entry bears the name
\* of the next candidate (linkedin_outreach.py:379-381, 524-562).
SentAreInvited == ~soft /\ ~stray => st.sent \subseteq fresh

\* Even so a standard run reports no more invitations than it sent: every entry
\* in sent stands for another person's dialog.
SentAreCounted == ~soft => Cardinality(st.sent) <= Cardinality(fresh)

\* An invitation that went out in a standard run is among its entries, as sent,
\* skipped or failed; only the candidate in hand may lack one.
InvitesAreAccounted ==
  ~soft => fresh \subseteq st.sent \cup st.skipped \cup st.errors \cup {cur}

\* In soft mode the entry may bear another name, but there is one: a run sends
\* no more invitations than it has entries, the candidate in hand aside.
InvitesUnderEntries ==
  Cardinality(fresh) <= Cardinality((st.sent \cup st.skipped \cup st.errors) \ {cur}) + 1

\* A stop ends the run: two clicks at most are made after LinkedIn began to show
\* it (Send, just after the check, whose exception hides the check after it, and
\* the next candidate's Connect), if the page's text can be read.
StopHalts == late <= 2

\* The entries of a run's status and the invitations that went out account for
\* each other, whatever dialogs, early or late, buttons and exceptions come
\* between them.
EntriesMatchInvitations ==
  SentAreInvited /\ SentAreCounted /\ InvitesAreAccounted /\ InvitesUnderEntries
=============================================================================
