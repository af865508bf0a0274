-------------------------- MODULE ConnectMan_proofs --------------------------
(***************************************************************************)
(* Theorems about ConnectMan: whom a run invites, how its entries and the  *)
(* invitations account for each other, and that a stop ends it, for any    *)
(* people, places, limits and modes.                                       *)
(***************************************************************************)
EXTENDS ConnectMan, FiniteSetTheorems, TLAPS

----------------------------------------------------------------------------
(* Types, and the candidate in hand.                                       *)

InHand == {"view", "return", "filter", "click", "clicked", "checked", "submitted"}
Inviting == {"click", "clicked", "checked", "submitted"}

\* The entries of the run's status.
Entries == st.sent \cup st.skipped \cup st.errors

\* The candidate in hand and the candidates left have coordinates; an entry is of
\* somebody seen; below the limits while a profile or an invitation is under way.
Cursor ==
  /\ pc \in InHand => cur \in People /\ cur \in seen /\ found[cur] # NoSpot
  /\ \A p \in todo : found[p] # NoSpot
  /\ Entries \subseteq seen
  /\ pc \in Inviting => ~Full
  /\ pc = "view" => st.viewed < MaxViews
  /\ ~soft => pc \notin {"view", "return", "filter"}

TypeInv == TypeOK /\ Cursor

\* The dialogs of the run, and everybody who has one or an invitation.
Open == coming \cup ({modal} \ {NoOne})
Claimed == fresh \cup Open

\* In a standard run the page stays as it was read, but for the buttons of people
\* invited since: a click at somebody's coordinates meets that person or nobody.
Aim ==
  /\ ~soft /\ pc \in {"candidate"} \cup Inviting =>
       \A p \in People : found[p] # NoSpot => layout[found[p]] \in {p, NoOne}
  /\ pc \in Inviting => cur \in Allowed

Hit == layout[found[cur]]

\* Even a dialog that comes late is that of an allowed person.
Clean == ~soft => Claimed \subseteq Allowed

\* As long as no dialog has outlived its candidate, one is there between the two
\* clicks and the entry only, and in a standard run it is the candidate's.
Tidy ==
  /\ pc = "idle" => Open = {}
  /\ ~stray /\ pc \notin {"clicked", "checked", "submitted"} => Open = {}
  /\ ~stray /\ ~soft => Open \subseteq {cur}

\* In a standard run: who has a dialog or an invitation has an entry, but for the
\* candidate in hand between the click and the entry; nobody has two; and while the
\* run is tidy, who is entered as sent is invited.
Books ==
  ~soft =>
    /\ Claimed \subseteq Entries \cup {cur}
    /\ pc \notin {"clicked", "checked", "submitted", "idle"} => Claimed \subseteq Entries
    /\ pc = "click" => cur \notin Entries
    /\ modal \notin coming /\ Open \cap fresh = {}
    /\ ~stray => st.sent \subseteq fresh /\ (pc = "submitted" => cur \in fresh)

\* Every entry in sent, made or due, stands for an invitation.
SentCount ==
  ~soft => /\ Cardinality(st.sent) <= Cardinality(fresh)
           /\ pc = "submitted" => Cardinality(st.sent) + 1 <= Cardinality(fresh)

\* In numbers, for both modes: each candidate adds one dialog or invitation at most.
Count ==
  /\ pc \in {"open", "search", "page", "candidate"} => Cardinality(Claimed) <= Cardinality(Entries)
  /\ pc \in {"view", "return", "filter", "click"} => Cardinality(Claimed) <= Cardinality(Entries \ {cur})
  /\ Cardinality(Claimed) <= Cardinality(Entries \ {cur}) + 1

\* Clicks after a stop: none before the check between the clicks, one before the next
\* candidate's.
Late ==
  /\ ~shown \/ pc = "checked" => late = 0
  /\ pc \in {"candidate", "view", "return", "filter", "click", "submitted"} => late <= 1
  /\ late <= 2

LEMMA TypeInit == Init => TypeInv
<1> SUFFICES ASSUME Init PROVE TypeInv
  OBVIOUS
<1>1. layout \in Layouts
  BY DEF Init, Layouts
<1>2. Cardinality({}) = 0
  BY FS_EmptySet
<1>3. st \in Status /\ Entries = {} /\ Cardinality(st.sent) <= MaxConnects
  BY <1>2, NumberAssumption DEF Init, NewStatus, Status, StopReasons, Entries
<1>4. /\ found \in [People -> Spots \cup {NoSpot}]
      /\ st.pages <= MaxPages /\ st.viewed <= MaxViews
  BY NumberAssumption DEF Init, NewStatus
<1>5. TypeOK
  BY <1>1, <1>3, <1>4 DEF Init, TypeOK, Points
<1>6. Cursor
  BY <1>3 DEF Init, Cursor, InHand, Inviting
<1> QED
  BY <1>5, <1>6 DEF TypeInv

\* The updates of a status.
LEMMA StatusUpdates ==
  ASSUME NEW r \in Status, NEW p \in People
  PROVE  /\ [r EXCEPT !.sent = @ \cup {p}] \in Status
         /\ [r EXCEPT !.skipped = @ \cup {p}] \in Status
         /\ [r EXCEPT !.errors = @ \cup {p}] \in Status
         /\ [r EXCEPT !.viewed = @ + 1] \in Status
         /\ [r EXCEPT !.pages = @ + 1] \in Status
         /\ \A reason \in StopReasons : [r EXCEPT !.stop = reason] \in Status
<1> DEFINE Sets == SUBSET People
<1>1. Status = [sent : Sets, skipped : Sets, errors : Sets, viewed : Nat, pages : Nat,
                stop : StopReasons]
  BY DEF Status
<1>2. /\ r.sent \cup {p} \in Sets /\ r.skipped \cup {p} \in Sets /\ r.errors \cup {p} \in Sets
      /\ r.viewed + 1 \in Nat /\ r.pages + 1 \in Nat
  BY DEF Status
<1> HIDE DEF Sets
<1> QED BY <1>1, <1>2

LEMMA InviteLayout ==
  ASSUME layout \in Layouts, NEW p, Invite(p)
  PROVE  layout' \in Layouts /\ \A s \in Spots : layout'[s] \in {layout[s], NoOne}
BY DEF Layouts, Invite

LEMMA CoordinatesType ==
  ASSUME layout \in Layouts
  PROVE  /\ Coordinates \in [People -> Spots \cup {NoSpot}]
         /\ \A p \in People : Coordinates[p] # NoSpot => layout[Coordinates[p]] = p
BY PeopleAssumption DEF Coordinates

LEMMA SentCounted ==
  ASSUME TypeInv, ~Full, cur \in People
  PROVE  Cardinality(st.sent \cup {cur}) <= MaxConnects
<1>1. st.sent \subseteq People /\ IsFiniteSet(st.sent)
  BY PeopleAssumption, FS_Subset DEF TypeInv, TypeOK, Status
<1>2. Cardinality(st.sent) \in Nat /\ Cardinality(st.sent) < MaxConnects
  BY <1>1, FS_CardinalityType, NumberAssumption DEF Full
<1>3. Cardinality(st.sent \cup {cur}) <= Cardinality(st.sent) + 1
  <2>1. Cardinality(st.sent \cup {cur}) = IF cur \in st.sent THEN Cardinality(st.sent) ELSE Cardinality(st.sent) + 1
    BY <1>1, FS_AddElement, Zenon
  <2> QED BY <1>2, <2>1
<1>4. Cardinality(st.sent \cup {cur}) \in Nat
  BY <1>1, FS_AddElement, FS_CardinalityType
<1> QED BY <1>2, <1>3, <1>4, NumberAssumption

\* An entry for the candidate in hand, or a page or profile more.
LEMMA EndType == ASSUME TypeInv, NEW reason \in StopReasons, End(reason) PROVE TypeInv'
<1>1. /\ st' \in Status /\ Entries' = Entries
      /\ st'.sent = st.sent /\ st'.viewed = st.viewed /\ st'.pages = st.pages
  BY StatusUpdates, PeopleAssumption DEF End, TypeInv, TypeOK, Status, Entries
<1> QED
  BY <1>1 DEF End, cursor, TypeInv, TypeOK, Cursor, InHand, Inviting, Points

LEMMA BeginType == ASSUME TypeInv, Begin PROVE TypeInv'
<1>1. st' \in Status /\ Entries' = {} /\ st'.sent = {} /\ st'.viewed = 0 /\ st'.pages = 0
  BY DEF Begin, NewStatus, Status, StopReasons, Entries
<1>2. Cardinality(st'.sent) <= MaxConnects
  BY <1>1, FS_EmptySet, NumberAssumption
<1>0. /\ layout' \in Layouts /\ modal' \in People \cup {NoOne} /\ coming' \subseteq People
      /\ shown' \in BOOLEAN /\ late' \in Nat /\ found' \in [People -> Spots \cup {NoSpot}]
  BY DEF Begin, TypeInv, TypeOK
<1>a. /\ stray' \in BOOLEAN /\ fresh' \subseteq People /\ pc' \in Points /\ soft' \in Modes
      /\ todo' \subseteq People /\ cur' \in People \cup {NoOne} /\ seen' \subseteq People
  BY DEF Begin, Points
<1>3. TypeOK'
  BY <1>0, <1>a, <1>1, <1>2, NumberAssumption DEF TypeOK
<1>4. Cursor'
  BY <1>1 DEF Begin, Cursor, InHand, Inviting
<1> QED BY <1>3, <1>4 DEF TypeInv

LEMMA PageType ==
  ASSUME TypeInv, ConnectBrowser \/ OpenSearch \/ LoadPage \/ NextPage PROVE TypeInv'
<1> USE DEF TypeInv, TypeOK, Cursor, InHand, Inviting, Points, linkedIn, dialogs, cursor
<1>1. CASE ConnectBrowser
  BY <1>1, EndType DEF ConnectBrowser, StopReasons, Entries
<1>2. CASE OpenSearch
  BY <1>2, EndType DEF OpenSearch, StopReasons, Entries
<1>3. CASE LoadPage
  <2>1. ASSUME pc' = "candidate", st' = [st EXCEPT !.pages = @ + 1], found' = Coordinates,
               todo' = {p \in People : Coordinates[p] # NoSpot}, st.pages < MaxPages,
               UNCHANGED <<linkedIn, cur, seen, soft>>
        PROVE TypeInv'
    <3>1. /\ st' \in Status /\ Entries' = Entries /\ st'.sent = st.sent
          /\ st'.viewed = st.viewed /\ st'.pages <= MaxPages
      BY <2>1, NumberAssumption DEF Status, Entries
    <3>2. found' \in [People -> Spots \cup {NoSpot}] /\ todo' \subseteq People
          /\ \A p \in todo' : found'[p] # NoSpot
      BY <2>1, CoordinatesType
    <3> QED BY <2>1, <3>1, <3>2
  <2>2. CASE st.pages >= MaxPages \/ Viewed \/ (Full /\ ~soft) \/ shown
    BY <1>3, <2>2, EndType DEF LoadPage, Stop, StopReasons
  <2>3. st.pages \in Nat
    BY DEF Status
  <2> QED BY <1>3, <2>1, <2>2, <2>3, NumberAssumption DEF LoadPage
<1>4. CASE NextPage
  BY <1>4, EndType DEF NextPage, Redrawn, Stop, StopReasons, Entries
<1> QED BY <1>1, <1>2, <1>3, <1>4

LEMMA CandidateType ==
  ASSUME TypeInv, NEW p \in People, StandardCandidate(p) \/ SoftCandidate(p) PROVE TypeInv'
<1> USE DEF TypeInv, TypeOK, Cursor, InHand, Inviting, Points, linkedIn, dialogs
<1>1. /\ pc = "candidate" /\ todo' = todo \ {p} /\ cur' = p /\ seen' = seen \cup {p}
      /\ UNCHANGED <<linkedIn, found, soft>> /\ found[p] # NoSpot
  BY DEF StandardCandidate, SoftCandidate, Take
<1>2. CASE pc' = "candidate" /\ UNCHANGED st
  BY <1>1, <1>2 DEF Entries
<1>3. CASE SkipIt(p)
  <2>1. /\ st' \in Status /\ Entries' = Entries \cup {p} /\ st'.sent = st.sent
        /\ st'.viewed = st.viewed /\ st'.pages = st.pages
    BY <1>3 DEF SkipIt, Status, Entries
  <2> QED BY <1>1, <1>3, <2>1 DEF SkipIt
<1>4. CASE pc' = "click" /\ UNCHANGED st /\ ~soft /\ ~Full
  BY <1>1, <1>4 DEF Entries, Full
<1>5. CASE pc' = "view" /\ UNCHANGED st /\ soft /\ ~Viewed
  <2>1. st.viewed < MaxViews
    BY <1>5, NumberAssumption DEF Viewed, Status
  <2> QED BY <1>1, <1>5, <2>1 DEF Entries
<1> QED
  BY <1>2, <1>3, <1>4, <1>5 DEF StandardCandidate, SoftCandidate

\* An entry for the candidate in hand, or none.
LEMMA EntryType ==
  ASSUME TypeInv, pc \in InHand, pc' = "candidate", UNCHANGED cursor,
         layout' \in Layouts, modal' \in People \cup {NoOne}, coming' \subseteq People,
         stray' \in BOOLEAN, late' \in Nat, UNCHANGED <<shown, fresh>>,
         \/ UNCHANGED st
         \/ st' = [st EXCEPT !.skipped = @ \cup {cur}]
         \/ st' = [st EXCEPT !.errors = @ \cup {cur}]
         \/ ~Full /\ st' = [st EXCEPT !.sent = @ \cup {cur}]
  PROVE  TypeInv'
<1>1. cur \in People /\ cur \in seen
  BY DEF TypeInv, Cursor
<1>2. st' \in Status /\ st'.viewed = st.viewed /\ st'.pages = st.pages
  <2>1. st \in Status
    BY DEF TypeInv, TypeOK
  <2>2. st' \in Status
    BY <1>1, <2>1, StatusUpdates
  <2>3. st'.viewed = st.viewed /\ st'.pages = st.pages
    BY <2>1 DEF Status
  <2> QED BY <2>2, <2>3
<1>3. Entries' \subseteq Entries \cup {cur}
  BY DEF Entries, TypeInv, TypeOK, Status
<1>4. Cardinality(st'.sent) <= MaxConnects
  BY <1>1, SentCounted DEF TypeInv, TypeOK, Status
<1> QED
  BY <1>1, <1>2, <1>3, <1>4 DEF TypeInv, TypeOK, Cursor, InHand, Inviting, Points, cursor

LEMMA ProfileType ==
  ASSUME TypeInv, ViewProfile \/ ReturnToSearch \/ SoftFilter PROVE TypeInv'
<1> USE DEF TypeInv, TypeOK, Cursor, InHand, Inviting, Points, linkedIn, dialogs, cursor
<1>1. CASE ViewProfile
  <2>1. CASE pc' = "return" /\ st' = [st EXCEPT !.viewed = @ + 1] /\ UNCHANGED <<linkedIn, cursor>>
    <3>1. /\ st' \in Status /\ Entries' = Entries /\ st'.sent = st.sent
          /\ st'.viewed <= MaxViews /\ st'.pages = st.pages
      BY <1>1, <2>1, NumberAssumption DEF ViewProfile, Status, Entries
    <3> QED BY <1>1, <2>1, <3>1 DEF ViewProfile
  <2>2. CASE /\ pc' = "return" /\ st' = [st EXCEPT !.errors = @ \cup {cur}]
             /\ UNCHANGED <<linkedIn, cursor>>
    <3>1. /\ st' \in Status /\ Entries' = Entries \cup {cur} /\ st'.sent = st.sent
          /\ st'.viewed = st.viewed /\ st'.pages = st.pages
      BY <1>1, <2>2 DEF ViewProfile, Status, Entries
    <3> QED BY <1>1, <2>2, <3>1 DEF ViewProfile
  <2> QED BY <1>1, <2>1, <2>2, EndType DEF ViewProfile, Stop, StopReasons
<1>2. CASE ReturnToSearch
  <2>1. /\ st' \in Status /\ Entries' \subseteq Entries \cup {cur} /\ st'.sent = st.sent
        /\ st'.viewed = st.viewed /\ st'.pages = st.pages
    BY <1>2 DEF ReturnToSearch, Status, Entries
  <2> QED BY <1>2, <2>1 DEF ReturnToSearch, Redrawn
<1>3. CASE SoftFilter
  <2>1. CASE pc' = "candidate"
    BY <1>3, <2>1, EntryType DEF SoftFilter
  <2>2. CASE ~Full /\ pc' = "click" /\ UNCHANGED st
    BY <1>3, <2>2 DEF SoftFilter, Entries, Full
  <2> QED BY <1>3, <2>1, <2>2 DEF SoftFilter
<1> QED BY <1>1, <1>2, <1>3

LEMMA InvitationType ==
  ASSUME TypeInv,
         ClickConnect \/ StopBeforeSend \/ ClickSend \/ NoSendButton \/ ClickFails
         \/ StopAfterSend \/ RecordSent
  PROVE  TypeInv'
<1> USE DEF TypeInv, TypeOK, Cursor, InHand, Inviting, Points, linkedIn, dialogs, cursor
<1>1. CASE ClickConnect
  <2> DEFINE hit == layout[found[cur]]
  <2>1. hit \in People \cup {NoOne}
    BY <1>1, PeopleAssumption DEF ClickConnect, Layouts
  <2>2. layout' \in Layouts
    BY <1>1, InviteLayout DEF ClickConnect
  <2>3. modal' \in People \cup {NoOne} /\ fresh' \subseteq People /\ coming' \subseteq People
    BY <1>1, <2>1 DEF ClickConnect, Invite
  <2>4. late' \in Nat
    BY <1>1 DEF ClickConnect, Click
  <2> QED BY <1>1, <2>2, <2>3, <2>4 DEF ClickConnect, Entries, Full
<1>2. CASE StopBeforeSend
  BY <1>2, EndType DEF StopBeforeSend, Stop, StopReasons, Entries, Full
<1>3. CASE ClickSend
  <2>1. layout' \in Layouts
    BY <1>3, InviteLayout DEF ClickSend
  <2>2. modal' = NoOne /\ fresh' \subseteq People
    BY <1>3 DEF ClickSend, Invite
  <2>3. late' \in Nat
    BY <1>3 DEF ClickSend, Click
  <2> QED BY <1>3, <2>1, <2>2, <2>3 DEF ClickSend, Entries, Full
<1>4. CASE NoSendButton
  BY <1>4, EntryType DEF NoSendButton, Escaped, Done
<1>5. CASE ClickFails
  <2>1. st' = [st EXCEPT !.errors = @ \cup {cur}]
    BY <1>5 DEF ClickFails, Errors
  <2> QED BY <1>5, <2>1, EntryType DEF ClickFails, Escaped, Done
<1>6. CASE StopAfterSend
  BY <1>6, EndType DEF StopAfterSend, Stop, StopReasons
<1>7. CASE RecordSent
  BY <1>7, EntryType DEF RecordSent, Done
<1> QED BY <1>1, <1>2, <1>3, <1>4, <1>5, <1>6, <1>7

LEMMA TypeStep == TypeInv /\ [Next]_vars => TypeInv'
<1> SUFFICES ASSUME TypeInv, [Next]_vars PROVE TypeInv'
  OBVIOUS
<1>1. ASSUME UNCHANGED <<layout, stray, fresh, pc, st, cursor>>, modal' \in People \cup {NoOne},
             coming' \subseteq People, shown' \in BOOLEAN, late' \in Nat
      PROVE  TypeInv'
  BY <1>1 DEF TypeInv, TypeOK, Cursor, InHand, Inviting, Points, cursor, Entries, Full
<1>2. CASE UNCHANGED vars
  BY <1>1, <1>2 DEF vars, linkedIn, dialogs, TypeInv, TypeOK
<1>3. CASE ShowStop \/ LiftStop
  <2>1. shown' \in BOOLEAN
    BY <1>3 DEF ShowStop, LiftStop
  <2>2. late' = late \/ late' = 0
    BY <1>3 DEF ShowStop, LiftStop
  <2>3. late' \in Nat
    BY <2>2 DEF TypeInv, TypeOK
  <2>4. UNCHANGED <<layout, dialogs, fresh, pc, st, cursor>>
    BY <1>3 DEF ShowStop, LiftStop
  <2> QED BY <1>1, <2>1, <2>3, <2>4 DEF dialogs, TypeInv, TypeOK
<1>4. CASE Crash
  BY <1>4, EndType DEF Crash, StopReasons
<1>5. ASSUME NEW p \in People, DialogOpens(p) PROVE TypeInv'
  BY <1>1, <1>5 DEF DialogOpens, TypeInv, TypeOK
<1> QED
  BY <1>2, <1>3, <1>4, <1>5, BeginType, PageType, CandidateType, ProfileType, InvitationType
  DEF Next, RunStep

\* Types; a run records at most MaxConnects invitations and looks at no more pages and
\* profiles than it may (linkedin_outreach.py: MAX_CONNECTS, MAX_PAGES).
THEOREM TypeCorrect == Spec => []TypeOK
<1>1. TypeInv => TypeOK
  BY DEF TypeInv
<1> QED BY <1>1, TypeInit, TypeStep, PTL DEF Spec

----------------------------------------------------------------------------
(* Whom a run invites.                                                     *)

\* No invitation is under way: Aim says nothing.
LEMMA AwayAim == ASSUME pc' \notin {"candidate"} \cup Inviting PROVE Aim'
BY DEF Aim, Inviting

LEMMA EndAim == ASSUME NEW reason, End(reason) PROVE Aim'
BY AwayAim DEF End, Inviting

\* Back to the next candidate, on the same page.
LEMMA BackAim ==
  ASSUME TypeInv, Aim, pc \in Inviting \cup {"candidate", "filter"}, pc' = "candidate",
         UNCHANGED <<layout, found, soft>>
  PROVE  Aim'
BY DEF Aim, Inviting, TypeInv, Cursor

LEMMA PageAim ==
  ASSUME TypeInv, Begin \/ ConnectBrowser \/ OpenSearch \/ LoadPage \/ NextPage PROVE Aim'
<1>1. CASE Begin \/ ConnectBrowser \/ OpenSearch
  BY <1>1, EndAim, AwayAim DEF Begin, ConnectBrowser, OpenSearch, Inviting
<1>2. CASE LoadPage
  <2>1. ASSUME pc' = "candidate", found' = Coordinates, UNCHANGED <<linkedIn, soft>>
        PROVE Aim'
    <3>1. \A p \in People : found'[p] # NoSpot => layout'[found'[p]] = p
      BY <2>1, CoordinatesType DEF TypeInv, TypeOK, linkedIn
    <3> QED BY <2>1, <3>1 DEF Aim, Inviting
  <2> QED BY <1>2, <2>1, EndAim DEF LoadPage, Stop
<1>3. CASE NextPage
  BY <1>3, EndAim, AwayAim DEF NextPage, Stop, Inviting
<1> QED BY <1>1, <1>2, <1>3

LEMMA CandidateAim ==
  ASSUME TypeInv, Aim, NEW p \in People, StandardCandidate(p) \/ SoftCandidate(p) PROVE Aim'
<1>1. pc = "candidate" /\ cur' = p /\ UNCHANGED <<layout, found, soft>>
  BY DEF StandardCandidate, SoftCandidate, Take, linkedIn
<1>2. CASE pc' = "candidate"
  BY <1>1, <1>2, BackAim DEF Inviting
<1>3. CASE pc' = "view"
  BY <1>3, AwayAim DEF Inviting
<1>4. CASE pc' = "click" /\ p \in Allowed
  BY <1>1, <1>4 DEF Aim, Inviting
<1> QED
  BY <1>2, <1>3, <1>4 DEF StandardCandidate, SoftCandidate, SkipIt, BlockedByFilters

LEMMA ProfileAim ==
  ASSUME TypeInv, Aim, ViewProfile \/ ReturnToSearch \/ SoftFilter PROVE Aim'
<1>1. CASE ViewProfile \/ ReturnToSearch
  BY <1>1, EndAim, AwayAim DEF ViewProfile, ReturnToSearch, Stop, Inviting
<1>2. CASE SoftFilter
  <2>1. soft /\ UNCHANGED <<layout, found, soft, cur>> /\ pc = "filter"
    BY <1>2 DEF SoftFilter, TypeInv, Cursor, linkedIn, cursor
  <2>2. pc' = "candidate" \/ (pc' = "click" /\ cur \in Allowed)
    BY <1>2, <2>1 DEF SoftFilter, BlockedByFilters, TypeInv, TypeOK, Cursor, InHand
  <2> QED BY <2>1, <2>2, BackAim DEF Aim, Inviting
<1> QED BY <1>1, <1>2

\* A click at the candidate's coordinates meets the candidate, in a standard run.
LEMMA HitIsCandidate ==
  ASSUME TypeInv, Aim, pc \in Inviting
  PROVE  Hit \in People \cup {NoOne} /\ (~soft => Hit \in {cur, NoOne})
BY DEF Hit, Aim, TypeInv, TypeOK, Layouts, Cursor, InHand, Inviting

\* An invitation takes buttons away, whoever it is of.
LEMMA InviteAim ==
  ASSUME TypeInv, Aim, UNCHANGED layout \/ (\E p : Invite(p)),
         pc \in Inviting, pc' \in Inviting, UNCHANGED cursor
  PROVE  Aim'
<1>1. ASSUME ~soft, NEW q \in People, found[q] # NoSpot PROVE layout'[found'[q]] \in {q, NoOne}
  <2>1. found[q] \in Spots /\ layout[found[q]] \in {q, NoOne}
    BY <1>1 DEF TypeInv, TypeOK, Aim, Inviting
  <2>2. layout'[found[q]] \in {layout[found[q]], NoOne}
    BY <2>1, InviteLayout DEF TypeInv, TypeOK
  <2> QED BY <2>1, <2>2 DEF cursor
<1> QED BY <1>1 DEF Aim, cursor, Inviting

LEMMA InvitationAim ==
  ASSUME TypeInv, Aim,
         ClickConnect \/ StopBeforeSend \/ ClickSend \/ NoSendButton \/ ClickFails
         \/ StopAfterSend \/ RecordSent
  PROVE  Aim'
<1>1. CASE ClickConnect
  <2>1. pc = "click" /\ pc' = "clicked" /\ UNCHANGED cursor
    BY <1>1 DEF ClickConnect
  <2>2. UNCHANGED layout \/ Invite(layout[found[cur]])
    BY <1>1 DEF ClickConnect
  <2> QED BY <2>1, <2>2, InviteAim DEF Inviting
<1>2. CASE StopBeforeSend
  BY <1>2, EndAim, InviteAim DEF StopBeforeSend, Stop, linkedIn, Inviting
<1>3. CASE ClickSend
  BY <1>3, InviteAim DEF ClickSend, Inviting
<1>4. CASE NoSendButton \/ ClickFails \/ RecordSent
  BY <1>4, BackAim DEF NoSendButton, ClickFails, RecordSent, Done, cursor, Inviting
<1>5. CASE StopAfterSend
  BY <1>5, EndAim DEF StopAfterSend, Stop
<1> QED BY <1>1, <1>2, <1>3, <1>4, <1>5

LEMMA AimStep == TypeInv /\ Aim /\ [Next]_vars => Aim'
<1> SUFFICES ASSUME TypeInv, Aim, [Next]_vars PROVE Aim'
  OBVIOUS
<1>1. CASE UNCHANGED <<layout, pc, cursor>>
  BY <1>1 DEF Aim, cursor, Inviting
<1>2. CASE UNCHANGED vars \/ ShowStop \/ LiftStop \/ (\E p \in People : DialogOpens(p))
  BY <1>1, <1>2 DEF vars, linkedIn, ShowStop, LiftStop, DialogOpens
<1>3. CASE Crash
  BY <1>3, EndAim DEF Crash
<1> QED
  BY <1>2, <1>3, PageAim, CandidateAim, ProfileAim, InvitationAim DEF Next, RunStep

----------------------------------------------------------------------------
(* What a step does to the dialogs, the invitations and the entries.       *)

Fixed == UNCHANGED <<cur, soft, stray>>
SameBooks == fresh' = fresh /\ Entries' = Entries /\ st'.sent = st.sent
Around == {"open", "search", "page", "candidate"}

Begun ==
  /\ pc = "idle" /\ pc' = "open" /\ UNCHANGED <<modal, coming>> /\ stray' = FALSE
  /\ fresh' = {} /\ Entries' = {} /\ st'.sent = {}

Ended == pc' = "idle" /\ modal' = NoOne /\ coming' = {} /\ Fixed /\ SameBooks

\* Between candidates, between the clicks, or outside the run: a dialog may open or go.
Moved ==
  /\ Fixed /\ SameBooks
  /\ pc' = pc \/ (pc \in Around /\ pc' \in Around) \/ (pc = "clicked" /\ pc' = "checked")
  /\ Open' \subseteq Open /\ (modal \notin coming => modal' \notin coming')

Picked(p) ==
  /\ pc = "candidate" /\ cur' = p /\ UNCHANGED <<modal, coming, fresh, soft, stray>>
  /\ st'.sent = st.sent
  /\ \/ pc' = "candidate" /\ (Entries' = Entries \/ Entries' = Entries \cup {p})
     \/ pc' \in {"view", "click"} /\ Entries' = Entries /\ p \notin Entries

Viewing ==
  /\ soft /\ pc \in {"view", "return", "filter"} /\ Open' \subseteq Open /\ fresh' = fresh /\ Fixed
  /\ \/ pc' \in {"return", "filter", "click"} /\ Entries' \ {cur} = Entries \ {cur}
     \/ pc' = "candidate" /\ (Entries' = Entries \/ Entries' = Entries \cup {cur})

Clicked ==
  /\ pc = "click" /\ pc' = "clicked" /\ Fixed /\ Entries' = Entries /\ st'.sent = st.sent
  /\ \/ fresh' = fresh /\ coming' = coming /\ modal' \in {NoOne, modal}
     \/ /\ Hit # NoOne /\ modal = NoOne /\ modal' = NoOne
        /\ coming' = coming \cup {Hit} /\ fresh' = fresh
     \/ /\ Hit # NoOne /\ modal = NoOne /\ modal' = NoOne
        /\ coming' = coming /\ fresh' = fresh \cup {Hit}

SendClicked ==
  /\ pc = "checked" /\ pc' = "submitted" /\ Fixed /\ Entries' = Entries /\ st'.sent = st.sent
  /\ modal # NoOne /\ modal' = NoOne /\ coming' = coming /\ fresh' = fresh \cup {modal}

Entered ==
  /\ pc \in {"click", "checked", "submitted"} /\ pc' = "candidate"
  /\ UNCHANGED <<coming, fresh, cur, soft>> /\ modal' \in {NoOne, modal}
  /\ stray' = (stray \/ modal' # NoOne \/ coming' # {})
  /\ Entries' = Entries \cup {cur}
  /\ st'.sent = st.sent \/ (pc = "submitted" /\ st'.sent = st.sent \cup {cur})

Step ==
  \/ Begun \/ Ended \/ Moved \/ (\E p \in People : Picked(p)) \/ Viewing
  \/ Clicked \/ SendClicked \/ Entered

LEMMA EndStep == ASSUME TypeInv, NEW reason, End(reason) PROVE Step
BY DEF End, cursor, Entries, TypeInv, TypeOK, Status, Ended, Fixed, SameBooks, Step

\* The layout of a page is no matter here.
LEMMA MoveStep ==
  ASSUME TypeInv, UNCHANGED cursor, UNCHANGED <<stray, fresh, st>>,
         \/ UNCHANGED <<modal, coming>>
         \/ modal' = NoOne /\ coming' = {}
         \/ \E p \in coming : modal = NoOne /\ modal' = p /\ coming' = coming \ {p},
         pc' = pc \/ (pc \in Around /\ pc' \in Around) \/ (pc = "clicked" /\ pc' = "checked")
  PROVE  Step
<1>1. Fixed /\ SameBooks
  BY DEF cursor, Fixed, SameBooks, Entries
<1>2. Open' \subseteq Open /\ (modal \notin coming => modal' \notin coming')
  BY DEF Open
<1> QED BY <1>1, <1>2 DEF Moved, Step

LEMMA PageStep ==
  ASSUME TypeInv, Begin \/ ConnectBrowser \/ OpenSearch \/ LoadPage \/ NextPage PROVE Step
<1> USE DEF linkedIn, dialogs, Around
<1>1. CASE Begin
  BY <1>1 DEF Begin, NewStatus, Entries, Begun, Step
<1>2. CASE ConnectBrowser \/ OpenSearch
  BY <1>2, EndStep, MoveStep DEF ConnectBrowser, OpenSearch
<1>3. CASE LoadPage
  <2>1. ASSUME pc' = "candidate", st' = [st EXCEPT !.pages = @ + 1],
               UNCHANGED <<linkedIn, cur, seen, soft>>
        PROVE  Step
    <3>1. Entries' = Entries /\ st'.sent = st.sent
      BY <2>1 DEF Entries, TypeInv, TypeOK, Status
    <3>2. Open' = Open
      BY <2>1 DEF Open
    <3> QED BY <1>3, <2>1, <3>1, <3>2 DEF LoadPage, Moved, Fixed, SameBooks, Step
  <2> QED BY <1>3, <2>1, EndStep DEF LoadPage, Stop
<1>4. CASE NextPage
  BY <1>4, EndStep, MoveStep DEF NextPage, Redrawn, Stop
<1> QED BY <1>1, <1>2, <1>3, <1>4

\* Somebody seen before is passed over, so one that is in hand has no entry yet.
LEMMA CandidateStep ==
  ASSUME TypeInv, NEW p \in People, StandardCandidate(p) \/ SoftCandidate(p) PROVE Step
<1>1. pc = "candidate" /\ cur' = p /\ UNCHANGED <<modal, coming, stray, fresh, soft>>
  BY DEF StandardCandidate, SoftCandidate, Take, linkedIn, dialogs
<1>2. /\ pc' = "candidate" /\ UNCHANGED st => Entries' = Entries /\ st'.sent = st.sent
      /\ SkipIt(p) => pc' = "candidate" /\ Entries' = Entries \cup {p} /\ st'.sent = st.sent
  BY DEF SkipIt, Entries, TypeInv, TypeOK, Status
<1>3. pc' \in {"view", "click"} /\ UNCHANGED st /\ p \notin seen =>
        Entries' = Entries /\ p \notin Entries /\ st'.sent = st.sent
  BY DEF Entries, TypeInv, Cursor
<1>4. \/ pc' = "candidate" /\ UNCHANGED st
      \/ SkipIt(p)
      \/ pc' \in {"view", "click"} /\ UNCHANGED st /\ p \notin seen
  BY DEF StandardCandidate, SoftCandidate
<1>5. Picked(p)
  BY <1>1, <1>2, <1>3, <1>4 DEF Picked
<1> QED BY <1>5 DEF Step

LEMMA ProfileStep ==
  ASSUME TypeInv, ViewProfile \/ ReturnToSearch \/ SoftFilter PROVE Step
<1> USE DEF linkedIn, dialogs, cursor
<1>1. CASE pc' = "idle"
  BY <1>1, EndStep DEF ViewProfile, ReturnToSearch, SoftFilter, Stop
<1>2. ASSUME pc' # "idle" PROVE Step
  <2>1. /\ soft /\ pc \in {"view", "return", "filter"} /\ fresh' = fresh /\ Fixed
    BY <1>2 DEF ViewProfile, ReturnToSearch, SoftFilter, Stop, End, Fixed, TypeInv, Cursor
  <2>2. Open' \subseteq Open
    BY <1>2 DEF ViewProfile, ReturnToSearch, SoftFilter, Redrawn, Stop, End, Open
  <2>3. /\ Entries' = Entries \/ Entries' = Entries \cup {cur}
        /\ Entries' \ {cur} = Entries \ {cur}
    BY <1>2 DEF ViewProfile, ReturnToSearch, SoftFilter, Stop, End, Entries, TypeInv, TypeOK, Status
  <2>4. pc' \in {"return", "filter", "click", "candidate"}
    BY <1>2 DEF ViewProfile, ReturnToSearch, SoftFilter, Stop, End
  <2> QED BY <2>1, <2>2, <2>3, <2>4 DEF Viewing, Step
<1> QED BY <1>1, <1>2

LEMMA InvitationStep ==
  ASSUME TypeInv,
         ClickConnect \/ StopBeforeSend \/ ClickSend \/ NoSendButton \/ ClickFails
         \/ StopAfterSend \/ RecordSent
  PROVE  Step
<1>1. CASE ClickConnect
  <2>1. /\ pc = "click" /\ pc' = "clicked" /\ Fixed /\ Entries' = Entries /\ st'.sent = st.sent
    BY <1>1 DEF ClickConnect, cursor, Fixed, Entries
  <2>2. \/ fresh' = fresh /\ coming' = coming /\ modal' \in {NoOne, modal}
        \/ /\ Hit # NoOne /\ modal = NoOne /\ modal' = NoOne
           /\ coming' = coming \cup {Hit} /\ fresh' = fresh
        \/ /\ Hit # NoOne /\ modal = NoOne /\ modal' = NoOne
           /\ coming' = coming /\ fresh' = fresh \cup {Hit}
    BY <1>1 DEF ClickConnect, Invite, Hit
  <2> QED BY <2>1, <2>2 DEF Clicked, Step
<1>2. CASE StopBeforeSend
  BY <1>2, EndStep, MoveStep DEF StopBeforeSend, Stop, linkedIn, dialogs
<1>3. CASE ClickSend
  BY <1>3 DEF ClickSend, Invite, cursor, Fixed, Entries, SendClicked, Step
<1>4. CASE NoSendButton \/ ClickFails \/ RecordSent
  <2>1. /\ pc \in {"click", "checked", "submitted"} /\ pc' = "candidate"
        /\ UNCHANGED <<coming, fresh, cur, soft>> /\ modal' \in {NoOne, modal}
        /\ stray' = (stray \/ modal' # NoOne \/ coming' # {})
    BY <1>4 DEF NoSendButton, ClickFails, RecordSent, Escaped, Done, cursor
  <2>2. /\ Entries' = Entries \cup {cur}
        /\ st'.sent = st.sent \/ (pc = "submitted" /\ st'.sent = st.sent \cup {cur})
    BY <1>4 DEF NoSendButton, ClickFails, RecordSent, Errors, Entries, TypeInv, TypeOK, Status
  <2> QED BY <2>1, <2>2 DEF Entered, Step
<1>5. CASE StopAfterSend
  BY <1>5, EndStep DEF StopAfterSend, Stop
<1> QED BY <1>1, <1>2, <1>3, <1>4, <1>5

LEMMA EveryStep == TypeInv /\ [Next]_vars => Step
<1> SUFFICES ASSUME TypeInv, [Next]_vars PROVE Step
  OBVIOUS
<1>1. CASE UNCHANGED vars \/ ShowStop \/ LiftStop \/ (\E p \in People : DialogOpens(p))
  BY <1>1, MoveStep DEF vars, linkedIn, dialogs, ShowStop, LiftStop, DialogOpens
<1>2. CASE Crash
  BY <1>2, EndStep DEF Crash
<1> QED
  BY <1>1, <1>2, PageStep, CandidateStep, ProfileStep, InvitationStep DEF Next, RunStep

----------------------------------------------------------------------------
(* The dialogs, and who has them.                                          *)

LEMMA TidyStep == TypeInv /\ Aim /\ Tidy /\ [Next]_vars => Tidy'
<1> SUFFICES ASSUME TypeInv, Aim, Tidy, Step PROVE Tidy'
  BY EveryStep
<1>1. CASE Begun
  BY <1>1 DEF Begun, Tidy, Open
<1>2. CASE Ended
  BY <1>2 DEF Ended, Tidy, Open
<1>3. CASE Moved
  BY <1>3 DEF Moved, Fixed, Around, Tidy
<1>4. ASSUME NEW p \in People, Picked(p) PROVE Tidy'
  BY <1>4 DEF Picked, Tidy, Open
<1>5. CASE Viewing
  BY <1>5 DEF Viewing, Fixed, Tidy
<1>6. CASE Clicked
  <2>1. ~soft => Hit \in {cur, NoOne}
    BY <1>6, HitIsCandidate DEF Clicked, Inviting
  <2>2. ~stray => Open = {}
    BY <1>6 DEF Clicked, Tidy
  <2>3. Open' \subseteq Open \/ (Hit # NoOne /\ Open' \subseteq Open \cup {Hit})
    BY <1>6 DEF Clicked, Open
  <2> QED BY <1>6, <2>1, <2>2, <2>3 DEF Clicked, Fixed, Tidy
<1>7. CASE SendClicked
  BY <1>7 DEF SendClicked, Fixed, Tidy, Open
<1>8. CASE Entered
  BY <1>8 DEF Entered, Tidy, Open
<1> QED BY <1>1, <1>2, <1>3, <1>4, <1>5, <1>6, <1>7, <1>8 DEF Step

LEMMA CleanStep == TypeInv /\ Aim /\ Tidy /\ Clean /\ [Next]_vars => Clean'
<1> SUFFICES ASSUME TypeInv, Aim, Tidy, Clean, Step PROVE Clean'
  BY EveryStep
<1>1. CASE Begun
  BY <1>1 DEF Begun, Tidy, Clean, Claimed, Open
<1>2. CASE Ended
  BY <1>2 DEF Ended, Fixed, SameBooks, Clean, Claimed, Open
<1>3. CASE Moved
  BY <1>3 DEF Moved, Fixed, SameBooks, Clean, Claimed
<1>4. ASSUME NEW p \in People, Picked(p) PROVE Clean'
  BY <1>4 DEF Picked, Clean, Claimed, Open
<1>5. CASE Viewing
  BY <1>5 DEF Viewing, Fixed, Clean
<1>6. CASE Clicked
  <2>1. cur \in Allowed /\ (~soft => Hit \in {cur, NoOne})
    BY <1>6, HitIsCandidate DEF Clicked, Inviting, Aim
  <2>2. Claimed' \subseteq Claimed \/ (Hit # NoOne /\ Claimed' \subseteq Claimed \cup {Hit})
    BY <1>6 DEF Clicked, Claimed, Open
  <2> QED BY <1>6, <2>1, <2>2 DEF Clicked, Fixed, Clean
<1>7. CASE SendClicked
  BY <1>7 DEF SendClicked, Fixed, Clean, Claimed, Open
<1>8. CASE Entered
  BY <1>8 DEF Entered, Clean, Claimed, Open
<1> QED BY <1>1, <1>2, <1>3, <1>4, <1>5, <1>6, <1>7, <1>8 DEF Step

LEMMA DialogsInit == Init => TypeInv /\ Aim /\ Tidy /\ Clean
BY TypeInit DEF Init, Aim, Tidy, Clean, Claimed, Open, Inviting

\* Whoever a standard run invites has an allowed place on the card, though a dialog that
\* comes late is answered in another candidate's turn (linkedin_outreach.py:196-197:
\* "Connect requests are allowed only when the visible candidate card explicitly
\* contains Spain, Portugal, or United Kingdom/UK").
THEOREM OnlyAllowedInvited == Spec => []InvitedAreAllowed
<1>1. Clean => InvitedAreAllowed
  BY DEF Clean, Claimed, InvitedAreAllowed
<1> QED
  BY <1>1, DialogsInit, TypeStep, AimStep, TidyStep, CleanStep, PTL DEF Spec

----------------------------------------------------------------------------
(* Entries and invitations, person by person.                              *)

LEMMA BooksStep == TypeInv /\ TypeInv' /\ Aim /\ Tidy /\ Books /\ [Next]_vars => Books'
<1> SUFFICES ASSUME TypeInv, TypeInv', Aim, Tidy, Books, Step PROVE Books'
  BY EveryStep
<1> USE DEF Fixed, SameBooks
<1>0. NoOne \notin coming /\ NoOne \notin coming'
  BY PeopleAssumption DEF TypeInv, TypeOK
<1>1. CASE Begun
  BY <1>0, <1>1 DEF Begun, Tidy, Books, Claimed, Open
<1>2. CASE Ended
  BY <1>2 DEF Ended, Books, Claimed, Open
<1>3. CASE Moved
  BY <1>3 DEF Moved, Around, Books, Claimed
<1>4. ASSUME NEW p \in People, Picked(p) PROVE Books'
  BY <1>4 DEF Picked, Books, Claimed, Open
<1>5. CASE Viewing
  BY <1>5 DEF Viewing, Books
<1>6. CASE Clicked
  <2> SUFFICES ASSUME ~soft PROVE Books'
    BY <1>6 DEF Clicked, Books
  <2>1. /\ Hit \in {cur, NoOne} /\ cur \notin Entries
        /\ Claimed \subseteq Entries /\ cur \notin Claimed
    BY <1>6, HitIsCandidate DEF Clicked, Inviting, Books
  <2>2. Claimed' \subseteq Claimed \cup {cur} /\ fresh \subseteq fresh' /\ Open' \cap fresh' = {}
    BY <1>6, <2>1 DEF Clicked, Books, Claimed, Open
  <2>3. modal' \notin coming'
    BY <1>0, <1>6 DEF Clicked, Books
  <2> QED BY <1>6, <2>1, <2>2, <2>3 DEF Clicked, Books
<1>7. CASE SendClicked
  <2> SUFFICES ASSUME ~soft PROVE Books'
    BY <1>7 DEF SendClicked, Books
  <2>1. Claimed' = Claimed /\ Open' \cap fresh' = {} /\ modal' \notin coming'
    BY <1>0, <1>7 DEF SendClicked, Books, Claimed, Open
  <2>2. ~stray => modal = cur
    BY <1>7 DEF SendClicked, Tidy, Open
  <2> QED BY <1>7, <2>1, <2>2 DEF SendClicked, Books
<1>8. CASE Entered
  <2> SUFFICES ASSUME ~soft PROVE Books'
    BY <1>8 DEF Entered, Books
  <2>1. Open' \subseteq Open /\ Claimed' \subseteq Claimed /\ modal' \notin coming'
    BY <1>0, <1>8 DEF Entered, Books, Claimed, Open
  <2>2. ~stray' => st'.sent \subseteq fresh'
    BY <1>8 DEF Entered, Books
  <2> QED BY <1>8, <2>1, <2>2 DEF Entered, Books
<1> QED BY <1>1, <1>2, <1>3, <1>4, <1>5, <1>6, <1>7, <1>8 DEF Step

----------------------------------------------------------------------------
(* Entries and invitations, in number.                                     *)

LEMMA Without ==
  ASSUME NEW S, NEW x, IsFiniteSet(S)
  PROVE  /\ Cardinality(S) \in Nat /\ Cardinality(S \ {x}) \in Nat
         /\ Cardinality(S \ {x}) <= Cardinality(S)
         /\ Cardinality(S) <= Cardinality(S \ {x}) + 1
         /\ Cardinality(S \cup {x}) = Cardinality(S \ {x}) + 1
<1>1. /\ Cardinality(S) \in Nat
      /\ IsFiniteSet(S \ {x}) /\ Cardinality(S \ {x}) \in Nat
      /\ Cardinality(S \ {x}) = IF x \in S THEN Cardinality(S) - 1 ELSE Cardinality(S)
  BY FS_CardinalityType, FS_RemoveElement
<1>2. Cardinality((S \ {x}) \cup {x}) = Cardinality(S \ {x}) + 1
  BY <1>1, FS_AddElement
<1>3. (S \ {x}) \cup {x} = S \cup {x}
  OBVIOUS
<1> QED BY <1>1, <1>2, <1>3

\* One member more or less.
LEMMA OneMore ==
  ASSUME NEW S, NEW T, NEW x, IsFiniteSet(S), T \subseteq S \cup {x}
  PROVE  Cardinality(T) \in Nat /\ Cardinality(T) <= Cardinality(S) + 1
<1>0. /\ Cardinality(S) \in Nat /\ Cardinality(S \ {x}) <= Cardinality(S)
      /\ Cardinality(S \ {x}) \in Nat /\ Cardinality(S \cup {x}) = Cardinality(S \ {x}) + 1
  BY Without
<1>1. IsFiniteSet(S \cup {x})
  BY FS_AddElement
<1>2. Cardinality(S \cup {x}) <= Cardinality(S) + 1
  BY <1>0
<1>3. Cardinality(T) \in Nat /\ Cardinality(T) <= Cardinality(S \cup {x})
  BY <1>1, FS_Subset, FS_CardinalityType
<1> QED BY <1>0, <1>2, <1>3

LEMMA NoMore ==
  ASSUME NEW S, NEW T, IsFiniteSet(S), T \subseteq S
  PROVE  Cardinality(T) \in Nat /\ Cardinality(T) <= Cardinality(S)
BY FS_Subset, FS_CardinalityType

LEMMA TypeEntries ==
  TypeInv => IsFiniteSet(Entries) /\ IsFiniteSet(Claimed) /\ IsFiniteSet(fresh) /\ IsFiniteSet(st.sent)
<1>1. TypeInv => /\ Entries \subseteq People /\ Claimed \subseteq People
                 /\ fresh \subseteq People /\ st.sent \subseteq People
  BY DEF TypeInv, TypeOK, Entries, Claimed, Open, Status
<1> QED BY <1>1, FS_Subset, PeopleAssumption

LEMMA SentStep == TypeInv /\ Books /\ SentCount /\ [Next]_vars => SentCount'
<1> SUFFICES ASSUME TypeInv, Books, SentCount, Step PROVE SentCount'
  BY EveryStep
<1> USE DEF Fixed, SameBooks
<1>0. /\ Cardinality(st.sent) \in Nat /\ Cardinality(fresh) \in Nat
      /\ Cardinality(st.sent \cup {cur}) <= Cardinality(st.sent) + 1
      /\ Cardinality(st.sent \cup {cur}) \in Nat
  BY TypeEntries, FS_CardinalityType, OneMore
<1>1. CASE Begun
  <2>1. Cardinality({}) = 0
    BY FS_EmptySet
  <2> QED BY <1>1, <2>1 DEF Begun, SentCount
<1>2. CASE Ended
  BY <1>2 DEF Ended, SentCount
<1>3. CASE Moved
  BY <1>3 DEF Moved, Around, SentCount
<1>4. ASSUME NEW p \in People, Picked(p) PROVE SentCount'
  BY <1>4 DEF Picked, SentCount
<1>5. CASE Viewing
  BY <1>5 DEF Viewing, SentCount
<1>6. CASE Clicked
  <2>1. Cardinality(fresh) <= Cardinality(fresh') /\ Cardinality(fresh') \in Nat
    <3>1. IsFiniteSet(fresh') /\ fresh \subseteq fresh'
      BY <1>6, TypeEntries, FS_AddElement DEF Clicked
    <3> QED BY <3>1, NoMore, FS_CardinalityType
  <2> QED BY <1>0, <1>6, <2>1 DEF Clicked, SentCount
<1>7. CASE SendClicked
  <2>1. ~soft => modal \notin fresh
    BY <1>7 DEF SendClicked, Books, Open
  <2>2. ~soft => Cardinality(fresh') = Cardinality(fresh) + 1
    BY <1>7, <2>1, TypeEntries, FS_AddElement DEF SendClicked
  <2> QED BY <1>0, <1>7, <2>2 DEF SendClicked, SentCount
<1>8. CASE Entered
  <2> SUFFICES ASSUME ~soft PROVE SentCount'
    BY <1>8 DEF Entered, SentCount
  <2>1. Cardinality(st'.sent) <= Cardinality(fresh')
    <3>1. CASE st'.sent = st.sent
      BY <1>8, <3>1 DEF Entered, SentCount
    <3>2. CASE pc = "submitted" /\ st'.sent = st.sent \cup {cur}
      BY <1>0, <1>8, <3>2 DEF Entered, SentCount
    <3> QED BY <1>8, <3>1, <3>2 DEF Entered
  <2> QED BY <1>8, <2>1 DEF Entered, SentCount
<1> QED BY <1>1, <1>2, <1>3, <1>4, <1>5, <1>6, <1>7, <1>8 DEF Step

LEMMA CountStep == TypeInv /\ Tidy /\ Count /\ [Next]_vars => Count'
<1> SUFFICES ASSUME TypeInv, Tidy, Count, Step PROVE Count'
  BY EveryStep
<1> USE DEF Fixed, SameBooks
<1> DEFINE n == Cardinality(Claimed)
           m == Cardinality(Entries)
           k == Cardinality(Entries \ {cur})
<1>0. n \in Nat /\ m \in Nat /\ k \in Nat /\ k <= m /\ m <= k + 1
  BY TypeEntries, FS_CardinalityType, Without
<1>a. n <= k + 1
  BY DEF Count
<1>b. \A S : S \subseteq Claimed => Cardinality(S) \in Nat /\ Cardinality(S) <= n
  BY TypeEntries, NoMore
\* Entries enough for one dialog or invitation each, whoever is in hand.
<1>c. ASSUME Claimed' \subseteq Claimed, n <= Cardinality(Entries'), IsFiniteSet(Entries'),
             pc' \notin {"view", "return", "filter", "click"}
      PROVE  Count'
  <2>1. Cardinality(Claimed') \in Nat /\ Cardinality(Claimed') <= n
    BY <1>b, <1>c
  <2>2. /\ Cardinality(Entries') \in Nat /\ Cardinality(Entries' \ {cur'}) \in Nat
        /\ Cardinality(Entries') <= Cardinality(Entries' \ {cur'}) + 1
    BY <1>c, Without
  <2> HIDE DEF n
  <2> QED BY <1>0, <1>c, <2>1, <2>2 DEF Count
<1>1. CASE Begun
  <2>1. Claimed' = {} /\ Entries' = {} /\ Entries' \ {cur'} = {} /\ pc' = "open"
    BY <1>1 DEF Begun, Tidy, Claimed, Open
  <2>2. Cardinality({}) = 0
    BY FS_EmptySet
  <2> QED BY <2>1, <2>2 DEF Count
<1>2. CASE Ended
  <2>1. Claimed' \subseteq Claimed /\ Entries' \ {cur'} = Entries \ {cur} /\ pc' = "idle"
    BY <1>2 DEF Ended, Claimed, Open
  <2>2. Cardinality(Claimed') \in Nat /\ Cardinality(Claimed') <= n
    BY <1>b, <2>1
  <2> QED BY <1>0, <1>a, <2>1, <2>2 DEF Count
<1>3. CASE Moved
  <2>1. Claimed' \subseteq Claimed /\ Entries' = Entries /\ Entries' \ {cur'} = Entries \ {cur}
    BY <1>3 DEF Moved, Claimed
  <2>2. Cardinality(Claimed') \in Nat /\ Cardinality(Claimed') <= n
    BY <1>b, <2>1
  <2>3. pc' = pc \/ (pc \in Around /\ pc' \in Around) \/ (pc = "clicked" /\ pc' = "checked")
    BY <1>3 DEF Moved
  <2> QED BY <1>0, <1>a, <2>1, <2>2, <2>3 DEF Around, Count
<1>4. ASSUME NEW p \in People, Picked(p) PROVE Count'
  <2>1. Claimed' = Claimed /\ n <= m /\ cur' = p
    BY <1>4 DEF Picked, Claimed, Open, Count
  <2>2. IsFiniteSet(Entries') /\ m <= Cardinality(Entries')
    <3>1. IsFiniteSet(Entries) /\ IsFiniteSet(Entries')
      BY <1>4, TypeEntries, FS_AddElement DEF Picked
    <3>2. Entries \subseteq Entries'
      BY <1>4 DEF Picked
    <3> QED BY <3>1, <3>2, NoMore
  <2>3. CASE pc' = "candidate"
    <3>1. n <= Cardinality(Entries')
      BY <1>0, <2>1, <2>2, FS_CardinalityType
    <3> QED BY <1>c, <2>1, <2>2, <2>3, <3>1
  <2>4. CASE pc' \in {"view", "click"} /\ Entries' = Entries /\ p \notin Entries
    <3>1. Entries' \ {cur'} = Entries
      BY <2>1, <2>4
    <3> QED BY <1>0, <2>1, <2>4, <3>1 DEF Count
  <2> QED BY <1>4, <2>3, <2>4 DEF Picked
<1>5. CASE Viewing
  <2>1. Claimed' \subseteq Claimed /\ n <= k /\ cur' = cur
    BY <1>5 DEF Viewing, Claimed, Count
  <2>2. CASE pc' \in {"return", "filter", "click"} /\ Entries' \ {cur} = Entries \ {cur}
    <3>1. Cardinality(Claimed') \in Nat /\ Cardinality(Claimed') <= n
      BY <1>b, <2>1
    <3> QED BY <1>0, <2>1, <2>2, <3>1 DEF Count
  <2>3. CASE pc' = "candidate" /\ (Entries' = Entries \/ Entries' = Entries \cup {cur})
    <3>1. IsFiniteSet(Entries') /\ m <= Cardinality(Entries')
      <4>1. IsFiniteSet(Entries') /\ Entries \subseteq Entries'
        BY <2>3, TypeEntries, FS_AddElement
      <4> QED BY <4>1, NoMore
    <3>2. n <= Cardinality(Entries')
      BY <1>0, <2>1, <3>1, FS_CardinalityType
    <3> QED BY <1>c, <2>1, <2>3, <3>1, <3>2
  <2> QED BY <1>5, <2>2, <2>3 DEF Viewing
<1>6. CASE Clicked
  <2>1. /\ n <= k /\ Entries' \ {cur'} = Entries \ {cur} /\ pc' = "clicked"
        /\ Claimed' \subseteq Claimed \cup {Hit}
    BY <1>6 DEF Clicked, Claimed, Open, Count
  <2>2. Cardinality(Claimed') \in Nat /\ Cardinality(Claimed') <= n + 1
    BY <2>1, TypeEntries, OneMore
  <2> QED BY <1>0, <2>1, <2>2 DEF Count
<1>7. CASE SendClicked
  <2>1. Claimed' = Claimed /\ Entries' \ {cur'} = Entries \ {cur} /\ pc' = "submitted"
    BY <1>7 DEF SendClicked, Claimed, Open
  <2> QED BY <1>a, <2>1 DEF Count
<1>8. CASE Entered
  <2>1. /\ Claimed' \subseteq Claimed /\ Entries' = Entries \cup {cur} /\ pc' = "candidate"
    BY <1>8 DEF Entered, Claimed, Open
  <2>2. IsFiniteSet(Entries') /\ Cardinality(Entries') = k + 1
    BY <2>1, TypeEntries, Without, FS_AddElement
  <2>3. n <= Cardinality(Entries')
    BY <1>0, <1>a, <2>2
  <2> QED BY <1>c, <2>1, <2>2, <2>3
<1> QED BY <1>1, <1>2, <1>3, <1>4, <1>5, <1>6, <1>7, <1>8 DEF Step

LEMMA BooksInit == Init => Books /\ SentCount /\ Count
<1> SUFFICES ASSUME Init PROVE Books /\ SentCount /\ Count
  OBVIOUS
<1>1. Entries = {} /\ st.sent = {} /\ Entries \ {cur} = {} /\ Claimed = {} /\ Open = {} /\ fresh = {}
  BY DEF Init, Entries, Claimed, Open, NewStatus
<1>2. Cardinality({}) = 0
  BY FS_EmptySet
<1>3. Books
  BY <1>1 DEF Init, Books
<1> QED BY <1>1, <1>2, <1>3 DEF Init, SentCount, Count

\* The entries of a run and the invitations that went out account for each other
\* (linkedin_outreach.py:524-562): in a standard run person by person as long as no
\* dialog outlived its candidate, and always in number; in a soft run, which may click
\* where somebody else has come to stand, in number.
THEOREM EntriesAndInvitations == Spec => []EntriesMatchInvitations
<1>1. TypeInv /\ Books /\ SentCount /\ Count => EntriesMatchInvitations
  <2> SUFFICES ASSUME TypeInv, Books, SentCount, Count PROVE EntriesMatchInvitations
    OBVIOUS
  <2>1. SentAreInvited /\ SentAreCounted /\ InvitesAreAccounted
    BY DEF Books, SentCount, SentAreInvited, SentAreCounted, InvitesAreAccounted, Claimed, Entries
  <2>2. Cardinality(fresh) \in Nat /\ Cardinality(fresh) <= Cardinality(Claimed)
    BY TypeEntries, NoMore DEF Claimed
  <2>3. Cardinality(Claimed) \in Nat /\ Cardinality(Entries \ {cur}) \in Nat
    BY TypeEntries, FS_CardinalityType, Without
  <2>4. Cardinality(fresh) <= Cardinality(Entries \ {cur}) + 1
    BY <2>2, <2>3 DEF Count
  <2> QED BY <2>1, <2>4 DEF InvitesUnderEntries, EntriesMatchInvitations, Entries
<1>2. Init => TypeInv /\ Aim /\ Tidy /\ Books /\ SentCount /\ Count
  BY DialogsInit, BooksInit
<1> QED
  BY <1>1, <1>2, TypeStep, AimStep, TidyStep, BooksStep, SentStep, CountStep, PTL DEF Spec

----------------------------------------------------------------------------
(* Stops.                                                                  *)

LEMMA EndLate == ASSUME Late, NEW reason, End(reason) PROVE Late'
BY DEF End, Late

LEMMA LateStep == TypeInv /\ Late /\ [Next]_vars => Late'
<1> SUFFICES ASSUME TypeInv, Late, [Next]_vars PROVE Late'
  OBVIOUS
<1> USE DEF linkedIn, dialogs, cursor
<1>0. late \in Nat
  BY DEF TypeInv, TypeOK
<1>1. CASE UNCHANGED vars \/ ShowStop \/ LiftStop
  BY <1>0, <1>1 DEF vars, ShowStop, LiftStop, Late
<1>2. CASE Crash \/ Begin \/ ConnectBrowser \/ OpenSearch
  BY <1>2, EndLate DEF Crash, Begin, ConnectBrowser, OpenSearch, Late
<1>3. CASE LoadPage \/ NextPage
  BY <1>0, <1>3, EndLate DEF LoadPage, NextPage, Stop, Late
<1>4. ASSUME NEW p \in People, StandardCandidate(p) \/ SoftCandidate(p) PROVE Late'
  <2>1. pc = "candidate" /\ pc' \in {"candidate", "click", "view"} /\ UNCHANGED <<late, shown>>
    BY <1>4 DEF StandardCandidate, SoftCandidate, Take, SkipIt
  <2> QED BY <2>1 DEF Late
<1>5. CASE ViewProfile \/ ReturnToSearch \/ SoftFilter
  BY <1>5, EndLate DEF ViewProfile, ReturnToSearch, SoftFilter, Stop, Late
<1>6. CASE ClickConnect
  <2>1. /\ pc = "click" /\ pc' = "clicked" /\ UNCHANGED shown
        /\ late' = IF shown THEN late + 1 ELSE late
    BY <1>6 DEF ClickConnect, Click
  <2> QED BY <1>0, <2>1 DEF Late
<1>7. CASE StopBeforeSend
  BY <1>7, EndLate DEF StopBeforeSend, StopAfterConnect, Stop, Late
<1>8. CASE ClickSend
  <2>1. /\ pc = "checked" /\ pc' = "submitted" /\ UNCHANGED shown
        /\ late' = IF shown THEN late + 1 ELSE late
    BY <1>8 DEF ClickSend, Click
  <2> QED BY <1>0, <2>1 DEF Late
<1>9. CASE NoSendButton \/ ClickFails \/ StopAfterSend \/ RecordSent
  BY <1>0, <1>9, EndLate DEF NoSendButton, ClickFails, StopAfterSend, RecordSent, Done, Stop, Late
<1>10. ASSUME NEW p \in People, DialogOpens(p) PROVE Late'
  BY <1>10 DEF DialogOpens, Late
<1> QED
  BY <1>1, <1>2, <1>3, <1>4, <1>5, <1>6, <1>7, <1>8, <1>9, <1>10 DEF Next, RunStep

\* A stop ends the run: after LinkedIn began to show it two clicks for an invitation are
\* made at most, Send's, and the next candidate's when Send's raised.
THEOREM StopsTheRun == Spec => []StopHalts
<1>1. Init => Late
  BY DEF Init, Late
<1>2. Late => StopHalts
  BY DEF Late, StopHalts
<1> QED BY <1>1, <1>2, TypeInit, TypeStep, LateStep, PTL DEF Spec
=============================================================================
