--------------------------- MODULE Hermes_proofs ---------------------------
(***************************************************************************)
(* Theorems about the Hermes scripts: the ledgers of HermesStats, for      *)
(* weeks of any length and any number of days and actions; the markers of  *)
(* Watchdog (Dog), for any services, times and numbers of launches; and    *)
(* the lock directory of StatsWrapper (Wrap), for any number of shells     *)
(* that run its script.                                                    *)
(***************************************************************************)
EXTENDS MCHermesStats, MCStatsWrapper, Sequences, FiniteSetTheorems, TLAPS

----------------------------------------------------------------------------
(* HermesStats: the calendar.                                              *)

\* A day lies between the first and the last of its week.
LEMMA WeekBounds ==
  ASSUME NEW d \in Nat \ {0}
  PROVE  /\ WeekOf(d) \in Nat \ {0}
         /\ (WeekOf(d) - 1) * Week + 1 <= d /\ d <= WeekOf(d) * Week
<1> DEFINE q == (d - 1) \div Week
<1>1. d - 1 \in Nat /\ Week \in Nat \ {0}
  BY BoundAssumption
<1>2. q \in Nat /\ q * Week <= d - 1 /\ d - 1 < q * Week + Week
  BY <1>1, Z3
<1>3. (q + 1) * Week = q * Week + Week
  BY <1>1, <1>2, Z3
<1> HIDE DEF q
<1>4. WeekOf(d) = q + 1 /\ (q + 1) - 1 = q /\ q * Week \in Nat
  BY <1>1, <1>2 DEF WeekOf, q
<1> QED BY <1>1, <1>2, <1>3, <1>4

LEMMA Times ==
  ASSUME NEW m \in Nat, NEW n \in Nat, m <= n
        PROVE m * Week <= n * Week /\ m * Week \in Nat /\ n * Week \in Nat
BY BoundAssumption

LEMMA WeekOrder ==
  ASSUME NEW d \in Nat \ {0}, NEW w \in Nat \ {0}
  PROVE  /\ (w - 1) * Week + 1 <= d <=> w <= WeekOf(d)
         /\ d <= w * Week <=> WeekOf(d) <= w
<1> DEFINE v == WeekOf(d)
<1>1. v \in Nat \ {0} /\ (v - 1) * Week + 1 <= d /\ d <= v * Week
  BY WeekBounds
<1> HIDE DEF v
<1>2. Week \in Nat \ {0}
  BY BoundAssumption
<1>3. (w - 1) * Week \in Nat /\ w * Week \in Nat /\ (v - 1) * Week \in Nat /\ v * Week \in Nat
  BY <1>1, <1>2, Times
<1>4. w <= v => (w - 1) * Week <= (v - 1) * Week
  BY <1>1, Times
<1>5. v <= w => v * Week <= w * Week
  BY <1>1, Times
<1>6. v < w => v * Week <= (w - 1) * Week
  BY <1>1, Times
<1>7. w < v => w * Week <= (v - 1) * Week
  BY <1>1, Times
<1>8. /\ (w - 1) * Week + 1 <= d <=> w <= v
      /\ d <= w * Week <=> v <= w
  BY <1>1, <1>3, <1>4, <1>5, <1>6, <1>7
<1> QED BY <1>8 DEF v

----------------------------------------------------------------------------
(* HermesStats: types, and the reports of past weeks.                      *)

LEMMA Calendar ==
  ASSUME NEW s \in Slot
  PROVE  /\ s \in Nat \ {0} /\ DayOf(s) \in Day /\ DayOf(s) \in Nat \ {0}
         /\ Morning(DayOf(s)) <= s /\ s <= Morning(DayOf(s)) + 2
         /\ Morning(DayOf(s)) = 3 * DayOf(s) - 2
<1>1. MaxDay \in Nat \ {0} /\ s \in Int /\ 1 <= s /\ s <= 3 * MaxDay
  BY BoundAssumption DEF Slot
<1> QED BY <1>1 DEF DayOf, Day, Morning

LEMMA WeeksAreNumbers == Weeks \subseteq Nat \ {0}
<1> SUFFICES ASSUME NEW d \in Day PROVE WeekOf(d) \in Nat \ {0}
  BY DEF Weeks
<1> QED BY BoundAssumption, WeekBounds DEF Day

\* TypeOK, and that a week which is reported is over, its days before the one in
\* hand have their ledgers, and those of a reported week are all there.
HermesInv ==
  /\ TypeOK
  /\ daily \in [Day -> Ledger] /\ IsFiniteSet(acts)
  /\ report # NoReport =>
       /\ report.week \in Weeks /\ report.week < WeekOf(Today)
       /\ (report.week - 1) * Week + 1 <= report.day
       /\ \A d \in DaysOf(report.week) : d < report.day => daily[d] # NoLedger
  /\ \A w \in Weeks : weekly[w] # -1 =>
       w < WeekOf(Today) /\ \A d \in DaysOf(w) : daily[d] # NoLedger

LEMMA FiniteSlots == IsFiniteSet(Slot) /\ \A s \in SUBSET Slot : IsFiniteSet(s)
<1>1. IsFiniteSet(Slot)
  BY BoundAssumption, FS_Interval DEF Slot
<1> QED BY <1>1, FS_Subset

LEMMA HermesInit == Init => HermesInv
<1> SUFFICES ASSUME Init PROVE HermesInv
  OBVIOUS
<1>1. 1 \in Slot
  BY BoundAssumption DEF Slot
<1>2. NoLedger \in Ledger /\ NoReport \in Report
  BY DEF NoLedger, Ledger, NoReport, Report
<1>3. PICK s \in Settings : service = s.service /\ faults = s.faults
  BY DEF Init
<1>4. s = [service |-> s.service, faults |-> s.faults]
  BY <1>3, SettingAssumption DEF Setting
<1>5. [service |-> service, faults |-> faults] \in Settings
  BY <1>3, <1>4
<1>6. weekly \in [Weeks -> {-1}] /\ daily \in [Day -> {NoLedger}] /\ report = NoReport
      /\ acts = {} /\ printed = {} /\ progress = {} /\ now = 1
  BY DEF Init
<1>7. TypeOK
  <2>1. NoLedger.counted = {}
    BY DEF NoLedger
  <2>2. weekly \in [Weeks -> Nat \cup {-1}]
    BY <1>6
  <2>3. DOMAIN daily = Day /\ \A d \in Day : daily[d] = NoLedger
    BY <1>6
  <2> QED BY <1>1, <1>2, <1>5, <1>6, <2>1, <2>2, <2>3 DEF TypeOK
<1> QED BY <1>2, <1>6, <1>7, FS_EmptySet DEF HermesInv

\* What is counted has happened.
LEMMA StatsAreActs ==
  ASSUME HermesInv, NEW window, NEW dates PROVE Stats(window, dates) \subseteq acts
<1>1. progress \subseteq acts
  BY DEF HermesInv, TypeOK
<1>2. JobSeekerStats(window) \subseteq acts
  BY <1>1 DEF JobSeekerStats, Logged, Recorded
<1>3. service \in Services
  BY SettingAssumption DEF HermesInv, TypeOK, Setting
<1>4. /\ ConnectManStats(window) \subseteq acts /\ SendManStats(window) \subseteq acts
      /\ PostLikerStats(dates) \subseteq acts
  BY DEF ConnectManStats, SendManStats, PostLikerStats
<1> QED BY <1>2, <1>3, <1>4 DEF Stats, Services

\* A ledger made for a day, in a report or afterwards.
LEMMA LedgerType ==
  ASSUME HermesInv, NEW window, NEW dates, NEW after \in BOOLEAN
  PROVE  LET l == [counted |-> Stats(window, dates), made |-> now, backfilled |-> after]
         IN l \in Ledger /\ l.counted \subseteq acts /\ l # NoLedger
<1>1. Stats(window, dates) \subseteq acts /\ acts \subseteq Action
  BY StatsAreActs DEF HermesInv, TypeOK
<1>2. now \in Slot /\ now # 0
  BY Calendar DEF HermesInv, TypeOK
<1> QED BY <1>1, <1>2 DEF Ledger, NoLedger

LEMMA DailyReportInv == ASSUME HermesInv, DailyReport PROVE HermesInv'
<1> DEFINE l == [counted |-> Stats(LastDay, {Today - 1, Today}), made |-> now,
                 backfilled |-> FALSE]
<1>1. daily' = [daily EXCEPT ![Today] = l]
      /\ UNCHANGED <<service, faults, now, acts, printed, progress, weekly, report>>
  BY DEF DailyReport, LedgerDay
<1>2. now \in Slot /\ Today \in Day /\ Today \in Nat
  BY Calendar DEF HermesInv, TypeOK, Today
<1>4. l \in Ledger /\ l.counted \subseteq acts /\ l # NoLedger
  BY LedgerType
<1> HIDE DEF l
<1>5. /\ daily' \in [Day -> Ledger] /\ DOMAIN daily' = Day
      /\ \A d \in Day : daily'[d] \in Ledger /\ daily'[d].counted \subseteq acts
      /\ \A d \in Day : daily'[d] # NoLedger => d <= Today
      /\ \A d \in Day : daily[d] # NoLedger => daily'[d] # NoLedger
  BY <1>1, <1>2, <1>4 DEF HermesInv, TypeOK
<1>6. Today' = Today
  BY <1>1 DEF Today
<1>7. TypeOK'
  BY <1>1, <1>5, <1>6 DEF HermesInv, TypeOK
<1>8. \A w : DaysOf(w) \subseteq Day
  BY DEF DaysOf
<1> QED BY <1>1, <1>5, <1>6, <1>7, <1>8 DEF HermesInv

LEMMA WeeklyReportInv == ASSUME HermesInv, WeeklyReport PROVE HermesInv'
<1> DEFINE w == WeekOf(Today) - 1
           first == (w - 1) * Week + 1
<1>1. report' = [week |-> w, day |-> first, sum |-> 0] /\ WeekOf(Today) > 1
      /\ UNCHANGED <<service, faults, now, acts, printed, progress, daily, weekly>>
  BY DEF WeeklyReport
<1>2. now \in Slot /\ Today \in Day /\ Today \in Nat \ {0}
  BY Calendar DEF HermesInv, TypeOK, Today
<1>3. WeekOf(Today) \in Nat \ {0} /\ w \in Nat \ {0} /\ w + 1 = WeekOf(Today)
  BY <1>1, <1>2, WeekBounds
<1>4. first \in Nat \ {0} /\ (w - 1) * Week \in Nat /\ w * Week \in Nat
      /\ w * Week = (w - 1) * Week + Week /\ Week \in Nat \ {0}
  BY <1>3, BoundAssumption, Times
<1>5. first <= Today
  BY <1>2, <1>3, WeekOrder
<1>6. first \in Day /\ WeekOf(first) = w
  <2>1. first \in Day
    <3>1. Today <= MaxDay /\ MaxDay \in Nat
      BY <1>2, BoundAssumption DEF Day
    <3> HIDE DEF first
    <3> QED BY <1>2, <1>4, <1>5, <3>1 DEF Day
  <2>2. w <= WeekOf(first) /\ WeekOf(first) <= w
    BY <1>3, <1>4, WeekOrder
  <2>3. WeekOf(first) \in Nat
    BY <1>4, WeekBounds
  <2> QED BY <1>3, <2>1, <2>2, <2>3
<1>7. w \in Weeks
  BY <1>6 DEF Weeks
<1> HIDE DEF w, first
<1>8. \A d \in DaysOf(w) : ~(d < first)
  <2> SUFFICES ASSUME NEW d \in Day, WeekOf(d) = w PROVE ~(d < first)
    BY DEF DaysOf
  <2>1. d \in Nat \ {0}
    BY BoundAssumption DEF Day
  <2>2. (w - 1) * Week + 1 <= d
    BY <1>3, <2>1, WeekOrder
  <2> QED BY <1>4, <2>1, <2>2 DEF first
<1>9. report'.week = w /\ report'.day = first /\ report' \in Report
  BY <1>1, <1>6, <1>7 DEF Report
<1>10. Today' = Today
  BY <1>1 DEF Today
<1>11. TypeOK'
  BY <1>1, <1>9, <1>10 DEF HermesInv, TypeOK
<1>12. (w - 1) * Week + 1 <= first /\ w < WeekOf(Today)
  BY <1>3, <1>4, <1>6 DEF first
<1> QED BY <1>1, <1>7, <1>8, <1>9, <1>10, <1>11, <1>12 DEF HermesInv

LEMMA WeeklyDayInv == ASSUME HermesInv, WeeklyDay PROVE HermesInv'
<1> DEFINE day == report.day
           l == LedgerOf(day)
<1>1. /\ report # NoReport /\ day \in DaysOf(report.week)
      /\ daily' = [daily EXCEPT ![day] = l]
      /\ report' = [report EXCEPT !.day = @ + 1, !.sum = @ + Cardinality(l.counted)]
      /\ UNCHANGED <<service, faults, now, acts, printed, progress, weekly>>
  BY DEF WeeklyDay
<1>2. day \in Day /\ WeekOf(day) = report.week /\ report \in Report /\ day \in Nat \ {0}
  BY <1>1, BoundAssumption DEF HermesInv, TypeOK, DaysOf, Day
<1>3. l \in Ledger /\ l.counted \subseteq acts /\ l # NoLedger
  <2>1. CASE daily[day] # NoLedger
    BY <1>2, <2>1 DEF LedgerOf, HermesInv, TypeOK
  <2>2. CASE daily[day] = NoLedger
    <3> DEFINE slots == {s \in Slot : DayOf(s) = day}
    <3>1. l = [counted |-> Stats(slots, {day}), made |-> now, backfilled |-> TRUE]
      BY <2>2 DEF LedgerOf, Backfilled
    <3> QED BY <3>1, LedgerType
  <2> QED BY <2>1, <2>2
<1>4. IsFiniteSet(l.counted) /\ Cardinality(l.counted) \in Nat
  BY <1>3, FS_Subset, FS_CardinalityType DEF HermesInv
<1> HIDE DEF l
<1>5. /\ report'.week = report.week /\ report'.day = day + 1 /\ report' \in Report
  <2>1. day + 1 \in Day \cup {MaxDay + 1, 0}
    BY <1>2, BoundAssumption DEF Day
  <2>2. report.week \in Weeks \cup {0} /\ report.sum \in Nat
        /\ report.sum + Cardinality(l.counted) \in Nat
    BY <1>2, <1>4 DEF Report
  <2>3. report' = [week |-> report.week, day |-> day + 1, sum |-> report.sum + Cardinality(l.counted)]
    BY <1>1, <1>2 DEF Report
  <2> QED BY <2>1, <2>2, <2>3 DEF Report
<1>6. now \in Slot /\ Today \in Nat \ {0} /\ Today' = Today
  BY <1>1, Calendar DEF HermesInv, TypeOK, Today
<1>7. day <= Today
  <2>1. report.week < WeekOf(Today) /\ report.week \in Nat \ {0} /\ WeekOf(Today) \in Nat
    BY <1>1, <1>6, WeeksAreNumbers, WeekBounds DEF HermesInv
  <2>2. day <= report.week * Week /\ (WeekOf(Today) - 1) * Week + 1 <= Today
    BY <1>2, <1>6, WeekBounds
  <2>3. report.week * Week <= (WeekOf(Today) - 1) * Week
    BY <2>1, Times
  <2>4. report.week * Week \in Nat /\ (WeekOf(Today) - 1) * Week \in Nat
    BY <2>1, Times
  <2> QED BY <1>2, <1>6, <2>2, <2>3, <2>4
<1>8. /\ daily' \in [Day -> Ledger] /\ DOMAIN daily' = Day
      /\ \A d \in Day : daily'[d] \in Ledger /\ daily'[d].counted \subseteq acts
      /\ \A d \in Day : daily'[d] # NoLedger => d <= Today
      /\ \A d \in Day : daily[d] # NoLedger => daily'[d] # NoLedger
      /\ daily'[day] # NoLedger
  BY <1>1, <1>2, <1>3, <1>7 DEF HermesInv, TypeOK
<1>9. TypeOK'
  BY <1>1, <1>5, <1>6, <1>8 DEF HermesInv, TypeOK
<1>10. \A d \in DaysOf(report.week) : d < day + 1 => daily'[d] # NoLedger
  <2> SUFFICES ASSUME NEW d \in Day, d \in DaysOf(report.week), d < day + 1
               PROVE  daily'[d] # NoLedger
    BY DEF DaysOf
  <2>1. d \in Int
    BY DEF Day
  <2>2. d = day \/ d < day
    BY <1>2, <2>1
  <2> QED BY <1>1, <1>8, <2>2 DEF HermesInv
<1>11. (report.week - 1) * Week + 1 <= day + 1
  <2>1. report.week \in Nat \ {0} /\ (report.week - 1) * Week + 1 <= day
    BY <1>1, WeeksAreNumbers DEF HermesInv
  <2>2. (report.week - 1) * Week \in Nat
    BY <2>1, Times
  <2> QED BY <1>2, <2>1, <2>2
<1>12. \A w : DaysOf(w) \subseteq Day
  BY DEF DaysOf
<1> QED
  BY <1>1, <1>5, <1>6, <1>8, <1>9, <1>10, <1>11, <1>12 DEF HermesInv

LEMMA WriteWeeklyInv == ASSUME HermesInv, WriteWeekly PROVE HermesInv'
<1>1. /\ report # NoReport /\ report.day \notin DaysOf(report.week) /\ report' = NoReport
      /\ weekly' = [weekly EXCEPT ![report.week] = report.sum]
      /\ UNCHANGED <<service, faults, now, acts, printed, progress, daily>>
  BY DEF WriteWeekly
<1>2. /\ report \in Report /\ report.week \in Weeks /\ report.week < WeekOf(Today)
      /\ (report.week - 1) * Week + 1 <= report.day
      /\ \A d \in DaysOf(report.week) : d < report.day => daily[d] # NoLedger
  BY <1>1 DEF HermesInv, TypeOK
<1>3. report.week \in Nat \ {0} /\ (report.week - 1) * Week \in Nat
  <2>1. report.week \in Weeks
    BY <1>2
  <2>2. report.week \in Nat \ {0} /\ report.week - 1 \in Nat
    <3> DEFINE w == report.week
    <3>1. w \in Weeks
      BY <2>1
    <3> HIDE DEF w
    <3>2. w \in Nat \ {0} /\ w - 1 \in Nat
      BY <3>1, WeeksAreNumbers
    <3> QED BY <3>2 DEF w
  <2> QED BY <2>2, Times
<1>4. report.day \in Nat \ {0} /\ (report.day \notin Day => report.day = MaxDay + 1)
  <2>1. report.day \in Nat
    BY <1>2, BoundAssumption DEF Report, Day
  <2> QED BY <1>2, <1>3, <2>1 DEF Report
<1>5. \A d \in DaysOf(report.week) : d < report.day
  <2> SUFFICES ASSUME NEW d \in Day, WeekOf(d) = report.week PROVE d < report.day
    BY DEF DaysOf
  <2>1. d \in Nat \ {0} /\ d <= MaxDay /\ MaxDay \in Nat
    BY BoundAssumption DEF Day
  <2>2. CASE report.day \notin Day
    BY <1>4, <2>1, <2>2
  <2>3. CASE report.day \in Day
    <3>1. report.week <= WeekOf(report.day) /\ WeekOf(report.day) # report.week
      BY <1>1, <1>2, <1>3, <1>4, <2>3, WeekOrder DEF DaysOf
    <3>2. ~(report.day <= report.week * Week)
      BY <1>3, <1>4, <3>1, WeekOrder, WeekBounds
    <3>3. d <= report.week * Week
      BY <2>1, WeekBounds
    <3>4. report.week * Week \in Nat
      BY <1>3, Times
    <3> QED BY <1>4, <2>1, <3>2, <3>3, <3>4
  <2> QED BY <2>2, <2>3
<1>6. \A d \in DaysOf(report.week) : daily[d] # NoLedger
  BY <1>2, <1>5
<1>7. weekly' \in [Weeks -> Nat \cup {-1}] /\ NoReport \in Report
  BY <1>1, <1>2 DEF HermesInv, TypeOK, Report, NoReport
<1>8. Today' = Today
  BY <1>1 DEF Today
<1>9. TypeOK'
  BY <1>1, <1>7, <1>8 DEF HermesInv, TypeOK
<1>10. \A w \in Weeks : weekly'[w] # -1 =>
         w < WeekOf(Today) /\ \A d \in DaysOf(w) : daily[d] # NoLedger
  BY <1>1, <1>2, <1>6 DEF HermesInv, TypeOK
<1> QED BY <1>1, <1>8, <1>9, <1>10 DEF HermesInv

\* An action is that of a run which has begun.
LEMMA ActEffect ==
  ASSUME HermesInv, Act
  PROVE  \E a \in Action :
           /\ acts' = acts \cup {a} /\ progress' = progress \cup {a}
           /\ a.at = now /\ a.run <= now /\ ("spanning" \notin faults => a.run = now)
           /\ (a.soft => service = "connectman") /\ Follows(a)
           /\ UNCHANGED <<service, faults, now, printed, daily, weekly, report>>
<1>1. PICK run \in Slot, soft \in BOOLEAN :
        LET a == [at |-> now, run |-> run, soft |-> soft]
        IN /\ run = now \/ ("spanning" \in faults /\ run = now - 1)
           /\ soft => service = "connectman"
           /\ a \notin acts /\ Follows(a)
           /\ acts' = acts \cup {a} /\ progress' = progress \cup {a}
  BY DEF Act
<1> DEFINE a == [at |-> now, run |-> run, soft |-> soft]
<1>2. now \in Slot /\ now \in Nat
  BY Calendar DEF HermesInv, TypeOK
<1>3. a \in Action /\ a.at = now /\ a.run = run /\ a.soft = soft
  BY <1>2 DEF Action
<1>4. acts' = acts \cup {a} /\ progress' = progress \cup {a} /\ Follows(a)
  BY <1>1
<1> HIDE DEF a
<1>5. a.run <= now /\ ("spanning" \notin faults => a.run = now) /\ (a.soft => service = "connectman")
  BY <1>1, <1>2, <1>3
<1> QED BY <1>3, <1>4, <1>5 DEF Act

LEMMA ActInv == ASSUME HermesInv, Act PROVE HermesInv'
<1>1. PICK a \in Action :
        /\ acts' = acts \cup {a} /\ progress' = progress \cup {a}
        /\ a.at = now /\ a.run <= now
        /\ UNCHANGED <<service, faults, now, printed, daily, weekly, report>>
  BY ActEffect, Zenon
<1>2. IsFiniteSet(acts')
  BY <1>1, FS_AddElement DEF HermesInv
<1>3. Today' = Today /\ now \in Nat
  BY <1>1, Calendar DEF Today, HermesInv, TypeOK
<1>4. TypeOK'
  BY <1>1, <1>3 DEF HermesInv, TypeOK
<1> QED BY <1>1, <1>2, <1>3, <1>4 DEF HermesInv

LEMMA TickInv == ASSUME HermesInv, Tick PROVE HermesInv'
<1>1. now' = now + 1 /\ now' \in Slot /\ now \in Slot
      /\ UNCHANGED <<service, faults, acts, printed, progress, daily, weekly, report>>
  BY DEF Tick, HermesInv, TypeOK
<1>2. Today \in Nat \ {0} /\ Today' \in Nat \ {0} /\ Today' \in Day /\ Today <= Today'
  <2>1. Today \in Nat \ {0} /\ Today' \in Nat \ {0} /\ Today' \in Day
    BY <1>1, Calendar DEF Today
  <2>2. now \in Nat
    BY <1>1, Calendar
  <2> QED BY <1>1, <2>1, <2>2 DEF Today, DayOf
<1>3. WeekOf(Today) <= WeekOf(Today') /\ WeekOf(Today) \in Nat /\ WeekOf(Today') \in Nat
  <2>1. WeekOf(Today) \in Nat \ {0} /\ (WeekOf(Today) - 1) * Week + 1 <= Today
        /\ (WeekOf(Today) - 1) * Week \in Nat /\ WeekOf(Today') \in Nat
    BY <1>2, WeekBounds, Times
  <2>2. (WeekOf(Today) - 1) * Week + 1 <= Today'
    BY <1>2, <2>1
  <2> QED BY <1>2, <2>1, <2>2, WeekOrder
<1>4. \A w \in Weeks : w < WeekOf(Today) => w < WeekOf(Today')
  BY <1>3, WeeksAreNumbers
<1>5. \A d \in Day : d <= Today => d <= Today'
  BY <1>2 DEF Day
<1>6. \A a \in acts : a.run <= a.at /\ a.at <= now'
  <2>1. \A a \in acts : a.at \in Int
    BY BoundAssumption DEF HermesInv, TypeOK, Action, Slot
  <2> QED BY <1>1, <2>1, Calendar DEF HermesInv, TypeOK
<1>7. WeekOf(Today)' = WeekOf(Today')
  BY DEF WeekOf
<1>8. TypeOK'
  BY <1>1, <1>5, <1>6 DEF HermesInv, TypeOK
<1> QED BY <1>1, <1>4, <1>7, <1>8 DEF HermesInv

LEMMA HermesStep == HermesInv /\ [Next]_vars => HermesInv'
<1> SUFFICES ASSUME HermesInv, [Next]_vars PROVE HermesInv'
  OBVIOUS
<1>1. CASE UNCHANGED vars
  <2>1. UNCHANGED <<service, faults, now, acts, printed, progress, daily, weekly, report>> /\ Today' = Today
    BY <1>1 DEF vars, Today
  <2> QED BY <2>1 DEF HermesInv, TypeOK
<1>2. CASE KillReport
  <2>1. UNCHANGED <<service, faults, now, acts, printed, progress, daily, weekly>> /\ Today' = Today
        /\ report' = NoReport /\ NoReport \in Report
    BY <1>2 DEF KillReport, Today, Report, NoReport
  <2>2. TypeOK'
    BY <2>1 DEF HermesInv, TypeOK
  <2> QED BY <2>1, <2>2 DEF HermesInv
<1>3. CASE Prune
  <2>1. UNCHANGED <<service, faults, now, acts, printed, daily, weekly, report>> /\ Today' = Today
        /\ progress' \subseteq progress
    BY <1>3 DEF Prune, Today
  <2>2. TypeOK'
    BY <2>1 DEF HermesInv, TypeOK
  <2> QED BY <2>1, <2>2 DEF HermesInv
<1>4. CASE EndRun
  <2>1. UNCHANGED <<service, faults, now, acts, progress, daily, weekly, report>> /\ Today' = Today
        /\ printed' \subseteq printed \cup {a.run : a \in acts}
    BY <1>4 DEF EndRun, Today
  <2>2. printed' \subseteq Slot
    BY <2>1 DEF HermesInv, TypeOK, Action
  <2>3. TypeOK'
    BY <2>1, <2>2 DEF HermesInv, TypeOK
  <2> QED BY <2>1, <2>3 DEF HermesInv
<1> QED
  BY <1>1, <1>2, <1>3, <1>4, DailyReportInv, WeeklyReportInv, WeeklyDayInv, WriteWeeklyInv, ActInv,
     TickInv DEF Next

\* The variables have their types, what is counted has happened, and no ledger is
\* ahead of the date, for weeks of any length, any days and any faults.
THEOREM HermesTypes == Spec => []TypeOK
<1>1. HermesInv => TypeOK
  BY DEF HermesInv
<1> QED BY <1>1, HermesInit, HermesStep, PTL DEF Spec

\* A report alone changes ledgers: a daily one that of today, a weekly one those
\* that were missing.
LEMMA LedgersChange ==
  ASSUME HermesInv, [Next]_vars, NEW d \in Day, daily'[d] # daily[d]
  PROVE  \/ DailyReport /\ d = Today
         \/ WeeklyDay /\ d = report.day /\ daily[d] = NoLedger
<1>1. CASE DailyReport
  BY <1>1 DEF DailyReport, LedgerDay, HermesInv
<1>2. CASE WeeklyDay
  BY <1>2 DEF WeeklyDay, LedgerOf, HermesInv
<1>3. CASE ~DailyReport /\ ~WeeklyDay
  <2>1. daily' = daily
    BY <1>3 DEF Next, vars, WeeklyReport, WriteWeekly, KillReport, Act, EndRun, Prune, Tick
  <2> QED BY <2>1
<1> QED BY <1>1, <1>2, <1>3

LEMMA Stays ==
  ASSUME HermesInv, [Next]_vars, NEW w \in Weeks, weekly[w] # -1, NEW d \in DaysOf(w)
  PROVE  daily'[d] = daily[d]
<1>1. d \in Day /\ WeekOf(d) = w
  BY DEF DaysOf
<1>2. daily[d] # NoLedger /\ w < WeekOf(Today)
  BY DEF HermesInv
<1>3. d # Today
  <2>1. w \in Nat
    BY WeeksAreNumbers
  <2> QED BY <1>1, <1>2, <2>1
<1> QED BY <1>1, <1>2, <1>3, LedgersChange

\* A week that was reported stays as it was, whatever is missed, run again, killed
\* or pruned.
THEOREM ReportedWeeksAreKept == Spec => ReportedWeeksStay
<1> DEFINE Kept == \A w \in Weeks : weekly[w] # -1 => \A d \in DaysOf(w) : daily'[d] = daily[d]
<1>1. HermesInv /\ [Next]_vars => [Kept]_vars
  BY Stays
<1> QED
  BY <1>1, HermesInit, HermesStep, PTL DEF Spec, ReportedWeeksStay

----------------------------------------------------------------------------
(* HermesStats: what the ledgers count.                                    *)

\* What one ledger counts, against what was done in its 24 hours.
Truly(l) ==
  /\ l.counted \subseteq {a \in acts : ~a.soft /\ a.at \in DayUpTo(l.made)}
  /\ \A a \in acts : ~a.soft /\ a.at \in DayUpTo(l.made) /\ a \notin l.counted =>
       service = "connectman" /\ (Overwritten(a) \/ a.run < l.made - 3)

\* PostLiker's: the runs of the day and of the one before.
ByDate(l, d) == \A a \in acts : a.at < l.made /\ DayOf(a.run) \in {d - 1, d} => a \in l.counted

\* Neither source of JobSeeker's has too much, and one of them has it all; a report's
\* ledger is that of its day, and tells the truth.
Exact ==
  /\ "spanning" \notin faults => \A a \in acts : a.run = a.at
  /\ "pruned" \notin faults => progress = acts
  /\ \A a \in acts : a.soft => service = "connectman"
  /\ \A d \in Day : Daily(d) =>
       /\ DayOf(daily[d].made) = d /\ daily[d].made <= now
       /\ service # "postliker" /\ ~NoSource => Truly(daily[d])
       /\ service = "postliker" => ByDate(daily[d], d)

LEMMA ExactInit == Init => Exact
<1> SUFFICES ASSUME Init PROVE Exact
  OBVIOUS
<1>1. acts = {} /\ progress = {} /\ \A d \in Day : ~Daily(d)
  BY DEF Init, Daily
<1> QED BY <1>1 DEF Exact

LEMMA ActionTimes ==
  ASSUME HermesInv, NEW a \in acts
  PROVE  /\ a.at \in Slot /\ a.run \in Slot /\ a.at \in Int /\ a.run \in Int /\ now \in Int
         /\ a.run <= a.at /\ a.at <= now
BY Calendar DEF HermesInv, TypeOK, Action

\* The window of a report: what was done in it is counted, unless it is left out,
\* and nothing else.
LEMMA StatsAreExact ==
  ASSUME HermesInv, Exact, SlotBegins, service # "postliker", ~NoSource
  PROVE  LET c == Stats(LastDay, {Today - 1, Today})
         IN /\ c \subseteq {a \in acts : ~a.soft /\ a.at \in LastDay}
            /\ \A a \in acts : ~a.soft /\ a.at \in LastDay /\ a \notin c =>
                 service = "connectman" /\ (Overwritten(a) \/ a.run < now - 3)
<1> DEFINE all == {a \in acts : a.at \in LastDay}
<1>1. service \in Services /\ ("spanning" \in faults => service \in {"jobseeker", "connectman"})
  BY SettingAssumption DEF HermesInv, TypeOK, Setting
<1>2. progress \subseteq acts /\ IsFiniteSet(acts)
  BY DEF HermesInv, TypeOK
<1>3. IsFiniteSet(all)
  BY <1>2, FS_Subset
<1>4. CASE service = "jobseeker"
  <2>1. Logged(LastDay) \subseteq all
    <3> SUFFICES ASSUME NEW a \in acts, a.run \in LastDay PROVE a.at \in LastDay
      BY DEF Logged
    <3>1. a.at # now
      BY DEF SlotBegins
    <3> QED BY <3>1, ActionTimes DEF LastDay, DayUpTo
  <2>2. Recorded(LastDay) \subseteq all
    BY <1>2 DEF Recorded
  <2>3. Logged(LastDay) = all \/ Recorded(LastDay) = all
    <3>1. CASE "spanning" \notin faults
      BY <3>1 DEF Exact, Logged
    <3>2. CASE "pruned" \notin faults
      BY <3>2 DEF Exact, Recorded
    <3> QED BY <3>1, <3>2 DEF NoSource
  <2>4. /\ IsFiniteSet(Logged(LastDay)) /\ IsFiniteSet(Recorded(LastDay))
        /\ Cardinality(Logged(LastDay)) \in Nat /\ Cardinality(Recorded(LastDay)) \in Nat
        /\ Cardinality(all) \in Nat
        /\ Cardinality(Logged(LastDay)) <= Cardinality(all)
        /\ Cardinality(Recorded(LastDay)) <= Cardinality(all)
        /\ Cardinality(Logged(LastDay)) = Cardinality(all) => Logged(LastDay) = all
    BY <1>3, <2>1, <2>2, FS_Subset, FS_CardinalityType
  <2>5. Stats(LastDay, {Today - 1, Today}) = JobSeekerStats(LastDay)
    BY <1>4 DEF Stats
  <2>6. \A a \in acts : ~a.soft
    BY <1>4 DEF Exact
  <2> DEFINE L == Logged(LastDay)
             R == Recorded(LastDay)
  <2>7. JobSeekerStats(LastDay) = IF Cardinality(L) >= Cardinality(R) THEN L ELSE R
    BY DEF JobSeekerStats
  <2> HIDE DEF L, R, all
  <2>8. JobSeekerStats(LastDay) = all
    <3>1. CASE L = all
      BY <2>4, <2>7, <3>1 DEF L, R
    <3>2. CASE R = all /\ L # all
      <4>1. Cardinality(L) \in Nat /\ Cardinality(all) \in Nat
            /\ Cardinality(L) <= Cardinality(all) /\ Cardinality(L) # Cardinality(all)
        BY <2>4, <3>2 DEF L
      <4> QED BY <2>7, <3>2, <4>1
    <3> QED BY <2>3, <3>1, <3>2 DEF L, R
  <2> QED BY <2>5, <2>6, <2>8 DEF all
<1>5. CASE service = "connectman"
  <2>1. Stats(LastDay, {Today - 1, Today}) = ConnectManStats(LastDay)
    BY <1>5 DEF Stats
  <2>2. ASSUME NEW a \in acts, ~a.soft, a.at \in LastDay, a \notin ConnectManStats(LastDay)
        PROVE  Overwritten(a) \/ a.run < now - 3
    <3>1. CASE a.run \notin LastDay
      BY <2>2, <3>1, ActionTimes DEF LastDay, DayUpTo
    <3>2. CASE a.run \notin printed /\ ~Latest(a)
      <4>1. PICK b \in acts : ~(b.run <= a.run)
        BY <3>2 DEF Latest
      <4> QED BY <3>2, <4>1, ActionTimes DEF Overwritten
    <3> QED BY <2>2, <3>1, <3>2 DEF ConnectManStats
  <2> QED BY <1>5, <2>1, <2>2 DEF ConnectManStats
<1>6. CASE service = "sendman"
  <2>1. \A a \in acts : ~a.soft
    BY <1>6 DEF Exact
  <2> QED BY <1>6, <2>1 DEF Stats, SendManStats
<1> QED BY <1>1, <1>4, <1>5, <1>6 DEF Services

LEMMA DailyReportExact ==
  ASSUME HermesInv, Exact, DailyReport PROVE Exact'
<1> DEFINE l == [counted |-> Stats(LastDay, {Today - 1, Today}), made |-> now,
                 backfilled |-> FALSE]
<1>1. daily' = [daily EXCEPT ![Today] = l] /\ SlotBegins
      /\ UNCHANGED <<service, faults, now, acts, printed, progress, weekly, report>>
  BY DEF DailyReport, LedgerDay
<1>2. l.counted = Stats(LastDay, {Today - 1, Today}) /\ l.made = now
  OBVIOUS
<1>3. now \in Slot /\ Today \in Day /\ Today = DayOf(now) /\ now \in Int
  BY Calendar DEF HermesInv, TypeOK, Today
<1> HIDE DEF l
<1>4. \A d \in Day : daily'[d] = IF d = Today THEN l ELSE daily[d]
  BY <1>1, <1>3 DEF HermesInv
<1>5. ASSUME service # "postliker", ~NoSource PROVE Truly(l)
  BY <1>1, <1>2, <1>5, StatsAreExact DEF Truly, LastDay
<1>6. ASSUME service = "postliker" PROVE ByDate(l, Today)
  BY <1>2, <1>6 DEF ByDate, Stats, PostLikerStats
<1>7. ASSUME NEW d \in Day, Daily(d)'
      PROVE  /\ DayOf(daily'[d].made) = d /\ daily'[d].made <= now
             /\ service # "postliker" /\ ~NoSource => Truly(daily'[d])
             /\ service = "postliker" => ByDate(daily'[d], d)
  <2>1. CASE d = Today
    BY <1>2, <1>3, <1>4, <1>5, <1>6, <2>1
  <2>2. CASE d # Today
    <3>1. daily'[d] = daily[d]
      BY <1>4, <2>2
    <3> QED BY <1>7, <3>1 DEF Exact, Daily
  <2> QED BY <2>1, <2>2
<1>8. /\ NoSource' = NoSource
      /\ \A m : Truly(m)' <=> Truly(m)
      /\ \A m, d : ByDate(m, d)' <=> ByDate(m, d)
  BY <1>1 DEF NoSource, Truly, Overwritten, ByDate
<1> QED BY <1>1, <1>7, <1>8 DEF Exact

LEMMA WeeklyDayExact ==
  ASSUME HermesInv, Exact, WeeklyDay PROVE Exact'
<1>1. /\ report.day \in DaysOf(report.week)
      /\ daily' = [daily EXCEPT ![report.day] = LedgerOf(report.day)]
      /\ UNCHANGED <<service, faults, now, acts, printed, progress, weekly>>
  BY DEF WeeklyDay
<1>2. report.day \in Day
  BY <1>1 DEF DaysOf
<1>3. \A d \in Day : daily'[d] # daily[d] => daily'[d].backfilled
  BY <1>1, <1>2 DEF LedgerOf, Backfilled, HermesInv
<1>4. \A d \in Day : Daily(d)' => Daily(d) /\ daily'[d] = daily[d]
  BY <1>3 DEF Daily
<1>5. /\ NoSource' = NoSource
      /\ \A m : Truly(m)' <=> Truly(m)
      /\ \A m, d : ByDate(m, d)' <=> ByDate(m, d)
  BY <1>1 DEF NoSource, Truly, Overwritten, ByDate
<1> QED BY <1>1, <1>4, <1>5 DEF Exact

\* What is done or ends after a report does not touch its ledger.
LEMMA ActKeepsTruth ==
  ASSUME HermesInv, Act, NEW l \in Ledger, l.made <= now
  PROVE  /\ Truly(l) => Truly(l)'
         /\ \A d : ByDate(l, d) => ByDate(l, d)'
<1>1. PICK a \in Action :
        /\ acts' = acts \cup {a} /\ a.at = now /\ UNCHANGED <<service, now, printed>>
  BY ActEffect, Zenon
<1>2. now \in Int /\ l.made \in Int
  BY Calendar DEF HermesInv, TypeOK, Ledger, Slot
<1>3. a.at \notin DayUpTo(l.made) /\ ~(a.at < l.made)
  BY <1>1, <1>2 DEF DayUpTo
<1>4. \A b : Overwritten(b) => Overwritten(b)'
  BY <1>1 DEF Overwritten
<1> QED BY <1>1, <1>3, <1>4 DEF Truly, ByDate

LEMMA EndRunKeepsTruth ==
  ASSUME HermesInv, EndRun, NEW l
  PROVE  Truly(l) => Truly(l)'
<1>1. PICK c \in acts : Latest(c) /\ printed' = printed \cup {c.run}
  BY DEF EndRun
<1>2. UNCHANGED <<service, acts>>
  BY DEF EndRun
<1>3. ASSUME NEW b \in acts, Overwritten(b) PROVE Overwritten(b)'
  <2>1. PICK e \in acts : b.run < e.run
    BY <1>3 DEF Overwritten
  <2>2. e.run <= c.run
    BY <1>1 DEF Latest
  <2>3. b.run \in Int /\ e.run \in Int /\ c.run \in Int
    BY ActionTimes
  <2> QED BY <1>1, <1>2, <1>3, <2>1, <2>2, <2>3 DEF Overwritten
<1> QED BY <1>2, <1>3 DEF Truly

LEMMA ActExact == ASSUME HermesInv, Exact, Act PROVE Exact'
<1>1. PICK a \in Action :
        /\ acts' = acts \cup {a} /\ progress' = progress \cup {a}
        /\ a.at = now /\ ("spanning" \notin faults => a.run = now)
        /\ (a.soft => service = "connectman")
        /\ UNCHANGED <<service, faults, now, daily>>
  BY ActEffect, Zenon
<1>2. NoSource' = NoSource /\ \A d : Daily(d)' = Daily(d)
  BY <1>1 DEF NoSource, Daily
<1>3. \A d \in Day : daily[d] \in Ledger
  BY DEF HermesInv
<1>4. ASSUME NEW d \in Day, Daily(d)
      PROVE  /\ Truly(daily[d]) => Truly(daily[d])'
             /\ ByDate(daily[d], d) => ByDate(daily[d], d)'
  <2>1. PICK l \in Ledger : l = daily[d]
    BY <1>3
  <2>2. l = daily'[d] /\ l.made <= now
    BY <1>1, <1>4, <2>1 DEF Exact
  <2>3. (Truly(l) => Truly(l)') /\ (ByDate(l, d) => ByDate(l, d)')
    BY <2>2, ActKeepsTruth
  <2> QED BY <2>1, <2>2, <2>3 DEF Truly, ByDate
<1> QED BY <1>1, <1>2, <1>4 DEF Exact

LEMMA EndRunExact == ASSUME HermesInv, Exact, EndRun PROVE Exact'
<1>1. UNCHANGED <<service, faults, now, acts, progress, daily>>
  BY DEF EndRun
<1>2. NoSource' = NoSource /\ \A d : Daily(d)' = Daily(d)
  BY <1>1 DEF NoSource, Daily
<1>3. ASSUME NEW d \in Day
      PROVE  /\ Truly(daily[d]) => Truly(daily[d])'
             /\ ByDate(daily[d], d) => ByDate(daily[d], d)'
  <2>1. PICK l : l = daily[d]
    OBVIOUS
  <2>2. l = daily'[d]
    BY <1>1, <2>1
  <2>3. Truly(l) => Truly(l)'
    BY EndRunKeepsTruth
  <2> QED BY <1>1, <2>1, <2>2, <2>3 DEF Truly, ByDate
<1> QED BY <1>1, <1>2, <1>3 DEF Exact

LEMMA TickExact == ASSUME HermesInv, Exact, Tick PROVE Exact'
<1>1. now' = now + 1 /\ now \in Slot /\ now \in Int
      /\ UNCHANGED <<service, faults, acts, printed, progress, daily, weekly, report>>
  BY Calendar DEF Tick, HermesInv, TypeOK
<1>2. \A d \in Day : daily[d].made \in Int
  BY DEF HermesInv, Ledger, Slot
<1>3. /\ NoSource' = NoSource
      /\ \A d \in Day : Daily(d)' = Daily(d)
      /\ \A d \in Day : Truly(daily[d])' <=> Truly(daily[d])
      /\ \A d \in Day : ByDate(daily[d], d)' <=> ByDate(daily[d], d)
  BY <1>1 DEF NoSource, Daily, Truly, Overwritten, ByDate
<1>4. \A d \in Day : daily[d].made <= now => daily[d].made <= now'
  BY <1>1, <1>2
<1> QED BY <1>1, <1>3, <1>4 DEF Exact

LEMMA ExactStep == HermesInv /\ Exact /\ [Next]_vars => Exact'
<1> SUFFICES ASSUME HermesInv, Exact, [Next]_vars PROVE Exact'
  OBVIOUS
<1>1. CASE UNCHANGED <<service, faults, now, acts, printed, progress, daily>>
  <2>1. /\ NoSource' = NoSource /\ \A d \in Day : Daily(d)' = Daily(d)
        /\ \A d \in Day : Truly(daily[d])' <=> Truly(daily[d])
        /\ \A d \in Day : ByDate(daily[d], d)' <=> ByDate(daily[d], d)
    BY <1>1 DEF NoSource, Daily, Truly, Overwritten, ByDate
  <2> QED BY <1>1, <2>1 DEF Exact
<1>2. CASE Prune
  <2>1. UNCHANGED <<service, faults, now, acts, printed, daily>> /\ "pruned" \in faults
    BY <1>2 DEF Prune
  <2>2. /\ NoSource' = NoSource /\ \A d \in Day : Daily(d)' = Daily(d)
        /\ \A d \in Day : Truly(daily[d])' <=> Truly(daily[d])
        /\ \A d \in Day : ByDate(daily[d], d)' <=> ByDate(daily[d], d)
    BY <2>1 DEF NoSource, Daily, Truly, Overwritten, ByDate
  <2> QED BY <2>1, <2>2 DEF Exact
<1>3. CASE WeeklyReport \/ WriteWeekly \/ KillReport \/ UNCHANGED vars
  <2>1. UNCHANGED <<service, faults, now, acts, printed, progress, daily>>
    BY <1>3 DEF WeeklyReport, WriteWeekly, KillReport, vars
  <2> QED BY <1>1, <2>1
<1> QED
  BY <1>2, <1>3, DailyReportExact, WeeklyDayExact, ActExact, EndRunExact, TickExact DEF Next

LEMMA AlwaysExact == Spec => [](HermesInv /\ Exact)
BY HermesInit, HermesStep, ExactInit, ExactStep, PTL DEF Spec

\* A daily ledger counts what was done in its 24 hours and nothing else, with one of
\* JobSeeker's sources incomplete but not both, and without those runs of
\* ConnectMan's that were overwritten or had begun before.
THEOREM LedgersTellTheTruth == Spec => []LedgersAreTrue
<1>1. ASSUME HermesInv, Exact PROVE LedgersAreTrue
  <2> SUFFICES ASSUME service # "postliker", ~NoSource, NEW d \in Day, Daily(d)
               PROVE  /\ daily[d].counted \subseteq Done(d)
                      /\ \A a \in Done(d) \ daily[d].counted : LeftOut(a, d)
    BY DEF LedgersAreTrue
  <2>1. Truly(daily[d])
    BY <1>1 DEF Exact
  <2> QED BY <2>1 DEF Truly, Done, LeftOut
<1> QED BY <1>1, AlwaysExact, PTL

\* Whenever the reports are launched: ledgers made a day apart or more share no
\* action, and those made a day apart or less leave none out between them.
THEOREM EachInOneLedger == Spec => []InOneLedger
<1>1. ASSUME HermesInv, Exact PROVE InOneLedger
  <2> SUFFICES ASSUME ~NoSource, NEW d \in Day, NEW e \in Day, d < e, Daily(d), Daily(e)
               PROVE  /\ service # "postliker" /\ daily[e].made >= daily[d].made + 3 =>
                           daily[d].counted \cap daily[e].counted = {}
                      /\ daily[e].made <= daily[d].made + 3 =>
                           \A a \in acts : ~a.soft /\ daily[d].made <= a.at /\ a.at < daily[e].made =>
                             a \in daily[e].counted \/ LeftOut(a, e)
    BY DEF InOneLedger
  <2>1. /\ daily[d].made \in Int /\ daily[e].made \in Int /\ d \in Int /\ e \in Int
        /\ DayOf(daily[d].made) = d /\ DayOf(daily[e].made) = e
    BY <1>1 DEF HermesInv, Ledger, Slot, Exact, Day
  <2>2. ASSUME service # "postliker", daily[e].made >= daily[d].made + 3,
               NEW a \in daily[d].counted, a \in daily[e].counted
        PROVE  FALSE
    <3>1. Truly(daily[d]) /\ Truly(daily[e])
      BY <1>1, <2>2 DEF Exact
    <3>2. a \in acts /\ a.at \in DayUpTo(daily[d].made) /\ a.at \in DayUpTo(daily[e].made)
      BY <2>2, <3>1 DEF Truly
    <3>3. a.at \in Int /\ a.at < daily[d].made /\ daily[e].made - 3 <= a.at
      BY <1>1, <3>2, ActionTimes DEF DayUpTo
    <3> QED BY <2>1, <2>2, <3>3
  <2>3. ASSUME daily[e].made <= daily[d].made + 3, NEW a \in acts, ~a.soft,
               daily[d].made <= a.at, a.at < daily[e].made
        PROVE  a \in daily[e].counted \/ LeftOut(a, e)
    <3>1. a.at \in Slot /\ a.at \in Int
      BY <1>1, ActionTimes
    <3>2. CASE service # "postliker"
      <4>1. Truly(daily[e])
        BY <1>1, <3>2 DEF Exact
      <4>2. a.at \in DayUpTo(daily[e].made)
        BY <2>1, <2>3, <3>1 DEF DayUpTo
      <4> QED BY <2>3, <4>1, <4>2 DEF Truly, LeftOut
    <3>3. CASE service = "postliker"
      <4>1. ByDate(daily[e], e)
        BY <1>1, <3>3 DEF Exact
      <4>2. a.run = a.at
        BY <1>1, <3>3, SettingAssumption DEF Exact, HermesInv, TypeOK, Setting
      <4>3. DayOf(a.at) \in {e - 1, e}
        BY <2>1, <2>3, <3>1 DEF DayOf
      <4> QED BY <2>3, <4>1, <4>2, <4>3 DEF ByDate
    <3> QED BY <3>2, <3>3
  <2> QED BY <2>2, <2>3
<1> QED BY <1>1, AlwaysExact, PTL

----------------------------------------------------------------------------
(* Watchdog: types.                                                        *)

\* The library's finite sets are those of the instance.
LEMMA SameCard == \A S : Dog!Cardinality(S) = Cardinality(S)
BY DEF Dog!Cardinality, Cardinality

LEMMA SameFinite == \A S : Dog!IsFiniteSet(S) <=> IsFiniteSet(S)
BY DEF Dog!IsFiniteSet, IsFiniteSet

\* A queue has each of its services once.
LEMMA QueueOf ==
  ASSUME NEW S, IsFiniteSet(S)
  PROVE  /\ Dog!SetToSeq(S) \in Seq(S) /\ Dog!IsInjective(Dog!SetToSeq(S))
         /\ Dog!ToSet(Dog!SetToSeq(S)) = S
<1> DEFINE n == Cardinality(S)
           q == Dog!SetToSeq(S)
<1>1. n \in Nat /\ ExistsBijection(1..n, S)
  BY FS_CardinalityType
<1>2. PICK f \in [1..n -> S] : IsInjective(f)
  BY <1>1 DEF ExistsBijection, Bijection, Injection
<1>3. q \in [1..n -> S] /\ Dog!IsInjective(q)
  <2> HIDE DEF n
  <2>1. q = CHOOSE g \in [1..n -> S] : Dog!IsInjective(g)
    BY SameCard DEF Dog!SetToSeq, n
  <2>2. Dog!IsInjective(f)
    BY <1>2 DEF Dog!IsInjective, IsInjective
  <2> HIDE DEF q
  <2> QED BY <1>2, <2>1, <2>2
<1> HIDE DEF q
<1>4. IsFiniteSet(1..n) /\ Cardinality(1..n) = n
  BY <1>1, FS_Interval
<1>5. q \in Injection(1..n, S)
  BY <1>3 DEF Injection, Dog!IsInjective, IsInjective
<1>6. q \in Surjection(1..n, S)
  BY <1>4, <1>5, FS_Injection
<1>7. \A s \in S : \E i \in 1..n : q[i] = s
  BY <1>6 DEF Surjection
<1>8. q \in Seq(S) /\ DOMAIN q = 1..n
  BY <1>1, <1>3
<1>9. Dog!ToSet(q) = S
  BY <1>3, <1>7, <1>8 DEF Dog!ToSet
<1> QED BY <1>3, <1>8, <1>9 DEF q

Busy == [pc : {"mark", "spawn"}, label : Dog!Label, selected : SUBSET Repaired,
         write : SUBSET Repaired]

\* TypeOK, with what it does not say of a watchdog's record, and the queues of the
\* runners, which have no service twice.
DogInv ==
  /\ Dog!TypeOK
  /\ watchdog \in [Watchdogs -> {Dog!Idle} \cup Busy]
  /\ \A w \in Watchdogs : watchdog[w].pc = "spawn" => watchdog[w].write = {}
  /\ runners \in Seq(Dog!Runner)
  /\ \A r \in DOMAIN runners : Dog!IsInjective(runners[r].queue)

LEMMA DogTypeInit == Dog!Init => DogInv
<1> SUFFICES ASSUME Dog!Init PROVE DogInv
  OBVIOUS
<1>1. 0 \in Dog!Time
  BY RepairAssumption DEF Dog!Sound, Dog!Time
<1>2. DOMAIN runners = {} /\ Len(runners) = 0 /\ runners \in Seq(Dog!Runner)
  BY DEF Dog!Init
<1> QED
  BY <1>1, <1>2, RepairAssumption
  DEF Dog!Init, DogInv, Dog!TypeOK, Dog!Idle, Dog!Sound

\* A repair takes its service from the queue.
LEMMA RepairOne ==
  ASSUME NEW r \in Dog!Runner, r.queue # <<>>, Dog!IsInjective(r.queue), NEW gone \in BOOLEAN,
         Dog!ToSet(r.queue) = r.services \ r.tried
  PROVE  LET s == [r EXCEPT !.tried = @ \cup {Head(r.queue)}, !.queue = Tail(@), !.gone = gone]
         IN /\ s \in Dog!Runner /\ Dog!IsInjective(s.queue)
            /\ Dog!ToSet(s.queue) = s.services \ s.tried
            /\ s.period = r.period /\ s.at = r.at /\ s.services = r.services
<1> DEFINE q == r.queue
           s == [r EXCEPT !.tried = @ \cup {Head(r.queue)}, !.queue = Tail(@), !.gone = gone]
<1>1. q \in Seq(Repaired) /\ q # <<>> /\ r.services \in SUBSET Repaired
      /\ r.tried \in SUBSET Repaired /\ r.period \in Periods /\ r.at \in Dog!Time
  BY DEF Dog!Runner
<1>2. /\ s.tried = r.tried \cup {Head(q)} /\ s.queue = Tail(q) /\ s.gone = gone
      /\ s.period = r.period /\ s.at = r.at /\ s.services = r.services
  BY DEF Dog!Runner
<1>3. /\ Tail(q) \in Seq(Repaired) /\ Head(q) \in Repaired /\ Head(q) = q[1]
      /\ Len(q) \in Nat \ {0} /\ DOMAIN q = 1..Len(q) /\ DOMAIN Tail(q) = 1..(Len(q) - 1)
      /\ \A i \in 1..(Len(q) - 1) : Tail(q)[i] = q[i + 1]
  BY <1>1
<1> HIDE DEF q, s
<1>4. s \in Dog!Runner
  BY <1>3 DEF Dog!Runner, s, q
<1>5. \A i, j \in DOMAIN q : q[i] = q[j] => i = j
  BY DEF Dog!IsInjective, q
<1>6. Dog!IsInjective(Tail(q))
  <2> SUFFICES ASSUME NEW i \in 1..(Len(q) - 1), NEW j \in 1..(Len(q) - 1), Tail(q)[i] = Tail(q)[j]
               PROVE  i = j
    BY <1>3 DEF Dog!IsInjective
  <2> QED BY <1>3, <1>5
<1>7. Dog!ToSet(Tail(q)) = Dog!ToSet(q) \ {Head(q)}
  <2>1. ASSUME NEW x \in Dog!ToSet(Tail(q)) PROVE x \in Dog!ToSet(q) \ {Head(q)}
    <3>1. PICK i \in 1..(Len(q) - 1) : x = q[i + 1]
      BY <1>3, <2>1 DEF Dog!ToSet
    <3>2. i + 1 \in DOMAIN q /\ 1 \in DOMAIN q /\ i + 1 # 1
      BY <1>3
    <3> QED BY <1>3, <1>5, <3>1, <3>2 DEF Dog!ToSet
  <2>2. ASSUME NEW x \in Dog!ToSet(q) \ {Head(q)} PROVE x \in Dog!ToSet(Tail(q))
    <3>1. PICK i \in 1..Len(q) : x = q[i]
      BY <1>3, <2>2 DEF Dog!ToSet
    <3>2. i - 1 \in 1..(Len(q) - 1) /\ Tail(q)[i - 1] = x
      BY <1>3, <2>2, <3>1
    <3> QED BY <1>3, <3>2 DEF Dog!ToSet
  <2> QED BY <2>1, <2>2
<1>8. Dog!ToSet(s.queue) = s.services \ s.tried
  <2>1. Dog!ToSet(q) = r.services \ r.tried
    BY DEF q
  <2> QED BY <1>2, <1>7, <2>1
<1>9. Dog!IsInjective(s.queue)
  BY <1>2, <1>6
<1> QED BY <1>2, <1>4, <1>8, <1>9 DEF s

LEMMA SelectType ==
  ASSUME DogInv, NEW w \in Watchdogs, NEW period \in Periods, Dog!Select(w, period) PROVE DogInv'
<1>1. PICK triggers \in SUBSET {s \in Repaired : s = "connectman" => period = "weekly"} :
        LET label == Dog!LabelOf(period)
            selected == triggers \ Dog!Marked(label)
        IN /\ watchdog' = [watchdog EXCEPT ![w] =
                   IF Dog!Nothing(selected) THEN Dog!Idle
                   ELSE [pc |-> "mark", label |-> label, selected |-> selected, write |-> selected]]
           /\ skipped' = skipped \cup
                  {[period |-> period, service |-> s, at |-> time] : s \in triggers \cap Dog!Marked(label)}
  BY DEF Dog!Select
<1> DEFINE label == Dog!LabelOf(period)
           selected == triggers \ Dog!Marked(label)
           busy == [pc |-> "mark", label |-> label, selected |-> selected, write |-> selected]
<1>2. time \in Dog!Time /\ label \in Dog!Label
  BY DEF DogInv, Dog!TypeOK, Dog!LabelOf, Dog!Label
<1>3. selected \in SUBSET Repaired /\ (~Dog!Nothing(selected) => selected # {})
  BY DEF Dog!Nothing
<1>4. busy \in Busy
  BY <1>2, <1>3 DEF Busy
<1>5. /\ busy.pc = "mark" /\ busy.label = label /\ busy.selected = selected /\ busy.write = selected
      /\ Dog!Idle.pc = "idle"
  BY DEF Dog!Idle
<1>6. /\ skipped' \subseteq [period : Periods, service : Repaired, at : Dog!Time]
      /\ UNCHANGED <<mishaps, time, markers, runners>>
  BY <1>1, <1>2 DEF DogInv, Dog!TypeOK, Dog!Select
<1>7. \/ watchdog' = [watchdog EXCEPT ![w] = Dog!Idle]
      \/ watchdog' = [watchdog EXCEPT ![w] = busy] /\ selected # {}
  BY <1>1, <1>3
<1> HIDE DEF label, selected, busy
<1>8. /\ DOMAIN watchdog' = Watchdogs
      /\ watchdog' \in [Watchdogs -> {Dog!Idle} \cup Busy]
      /\ \A v \in Watchdogs : watchdog'[v].pc = "spawn" => watchdog'[v].write = {}
  BY <1>4, <1>5, <1>7 DEF DogInv
<1>9. \A v \in Watchdogs :
         \/ watchdog'[v] = Dog!Idle
         \/ /\ watchdog'[v].pc \in {"mark", "spawn"} /\ watchdog'[v].label \in Dog!Label
            /\ watchdog'[v].write \subseteq watchdog'[v].selected
            /\ watchdog'[v].selected \subseteq Repaired /\ watchdog'[v].selected # {}
  BY <1>2, <1>3, <1>5, <1>7 DEF DogInv, Dog!TypeOK
<1> QED BY <1>6, <1>8, <1>9 DEF DogInv, Dog!TypeOK

LEMMA WriteMarkerType ==
  ASSUME DogInv, NEW w \in Watchdogs, Dog!WriteMarker(w) PROVE DogInv'
<1>1. PICK s \in watchdog[w].write :
       /\ markers' = {m \in markers : m.label # watchdog[w].label \/ m.service # s}
                       \cup {[label |-> watchdog[w].label, service |-> s, at |-> time]}
       /\ watchdog' = [watchdog EXCEPT ![w].write = @ \ {s},
                         ![w].pc = IF watchdog[w].write = {s} THEN "spawn" ELSE "mark"]
  BY DEF Dog!WriteMarker
<1>2. watchdog[w] \in Busy /\ watchdog[w] # Dog!Idle /\ watchdog[w].pc = "mark"
  BY DEF Dog!WriteMarker, DogInv, Dog!Idle
<1> DEFINE after == [watchdog[w] EXCEPT !.write = @ \ {s},
                       !.pc = IF watchdog[w].write = {s} THEN "spawn" ELSE "mark"]
<1>3. /\ after \in Busy /\ after.write = watchdog[w].write \ {s}
      /\ after.label = watchdog[w].label /\ after.selected = watchdog[w].selected
      /\ after.pc \in {"mark", "spawn"} /\ (after.pc = "spawn" => after.write = {})
  BY <1>2 DEF Busy
<1>4. watchdog' = [watchdog EXCEPT ![w] = after]
  BY <1>1 DEF DogInv
<1> HIDE DEF after
<1>5. time \in Dog!Time /\ watchdog[w].label \in Dog!Label /\ s \in Repaired
  BY <1>2 DEF DogInv, Dog!TypeOK, Busy
<1>6. markers' \subseteq Dog!Marker
  BY <1>1, <1>5 DEF DogInv, Dog!TypeOK, Dog!Marker
<1>7. UNCHANGED <<mishaps, time, runners, skipped>>
  BY DEF Dog!WriteMarker
<1>8. \A v \in Watchdogs :
         \/ watchdog'[v] = Dog!Idle
         \/ /\ watchdog'[v].pc \in {"mark", "spawn"} /\ watchdog'[v].label \in Dog!Label
            /\ watchdog'[v].write \subseteq watchdog'[v].selected
            /\ watchdog'[v].selected \subseteq Repaired /\ watchdog'[v].selected # {}
  BY <1>2, <1>3, <1>4 DEF DogInv, Dog!TypeOK
<1>9. /\ DOMAIN watchdog' = Watchdogs
      /\ watchdog' \in [Watchdogs -> {Dog!Idle} \cup Busy]
      /\ \A v \in Watchdogs : watchdog'[v].pc = "spawn" => watchdog'[v].write = {}
  BY <1>3, <1>4 DEF DogInv
<1> QED BY <1>6, <1>7, <1>8, <1>9 DEF DogInv, Dog!TypeOK

\* What a watchdog spawns.
Spawned(w) ==
  [period |-> watchdog[w].label.period, at |-> time, services |-> watchdog[w].selected,
   queue |-> Dog!SetToSeq(watchdog[w].selected), tried |-> {}, gone |-> FALSE]

LEMMA SpawnEffect ==
  ASSUME DogInv, NEW w \in Watchdogs, Dog!Spawn(w)
  PROVE  /\ watchdog[w] \in Busy /\ watchdog[w].pc = "spawn" /\ watchdog[w].write = {}
         /\ watchdog' = [watchdog EXCEPT ![w] = Dog!Idle]
         /\ UNCHANGED <<mishaps, time, markers, skipped>>
         /\ Spawned(w) \in Dog!Runner
         /\ Len(runners) \in Nat /\ Len(runners) + 1 <= MaxLaunches
         /\ Len(runners') = Len(runners) + 1
         /\ DOMAIN runners = 1..Len(runners) /\ DOMAIN runners' = 1..(Len(runners) + 1)
         /\ \A i \in 1..Len(runners) : runners'[i] = runners[i]
         /\ runners'[Len(runners) + 1] = Spawned(w)
         /\ runners' \in Seq(Dog!Runner)
<1>1. watchdog[w] \in Busy /\ watchdog[w].pc = "spawn" /\ watchdog[w].write = {}
  BY DEF Dog!Spawn, DogInv, Dog!Idle
<1>2. watchdog[w].selected \in SUBSET Repaired /\ watchdog[w].label \in Dog!Label
  BY <1>1 DEF Busy
<1>3. IsFiniteSet(watchdog[w].selected)
  <2>1. IsFiniteSet(Repaired)
    BY RepairAssumption, SameFinite DEF Dog!Sound
  <2> QED BY <1>2, <2>1, FS_Subset
<1>4. Dog!SetToSeq(watchdog[w].selected) \in Seq(Repaired)
  <2>1. Dog!SetToSeq(watchdog[w].selected) \in Seq(watchdog[w].selected)
    BY <1>3, QueueOf
  <2> QED BY <1>2, <2>1
<1>5. time \in Dog!Time /\ watchdog[w].label.period \in Periods
  BY <1>2 DEF DogInv, Dog!TypeOK, Dog!Label
<1>6. Spawned(w) \in Dog!Runner
  BY <1>2, <1>4, <1>5 DEF Spawned, Dog!Runner
<1>7. runners \in Seq(Dog!Runner) /\ runners' = Append(runners, Spawned(w))
      /\ Len(runners) < MaxLaunches /\ MaxLaunches \in Nat
  BY RepairAssumption DEF DogInv, Dog!Spawn, Spawned, Dog!Sound
<1>8. /\ watchdog' = [watchdog EXCEPT ![w] = Dog!Idle]
      /\ UNCHANGED <<mishaps, time, markers, skipped>>
  BY DEF Dog!Spawn
<1> QED BY <1>1, <1>6, <1>7, <1>8

LEMMA SpawnType ==
  ASSUME DogInv, NEW w \in Watchdogs, Dog!Spawn(w) PROVE DogInv'
<1> DEFINE r == Spawned(w)
           n == Len(runners)
<1>1. /\ watchdog' = [watchdog EXCEPT ![w] = Dog!Idle]
      /\ UNCHANGED <<mishaps, time, markers, skipped>>
      /\ r \in Dog!Runner /\ n \in Nat /\ n + 1 <= MaxLaunches /\ Len(runners') = n + 1
      /\ DOMAIN runners = 1..n /\ DOMAIN runners' = 1..(n + 1)
      /\ \A i \in 1..n : runners'[i] = runners[i]
      /\ runners'[n + 1] = r /\ runners' \in Seq(Dog!Runner)
      /\ watchdog[w] \in Busy
  BY SpawnEffect
<1>2. Dog!IsInjective(r.queue) /\ Dog!ToSet(r.queue) = r.services \ r.tried
  <2>1. IsFiniteSet(watchdog[w].selected)
    BY <1>1, RepairAssumption, SameFinite, FS_Subset DEF Dog!Sound, Busy
  <2>2. r.queue = Dog!SetToSeq(watchdog[w].selected) /\ r.services = watchdog[w].selected
        /\ r.tried = {}
    BY DEF Spawned
  <2> QED BY <2>1, <2>2, QueueOf
<1> HIDE DEF r, n
<1>3. \A i \in 1..(n + 1) : i \in 1..n \/ i = n + 1
  BY <1>1
<1>4. \A i \in DOMAIN runners' :
         /\ runners'[i] \in Dog!Runner /\ Dog!IsInjective(runners'[i].queue)
         /\ Dog!ToSet(runners'[i].queue) = runners'[i].services \ runners'[i].tried
  BY <1>1, <1>2, <1>3 DEF DogInv, Dog!TypeOK
<1>5. /\ DOMAIN watchdog' = Watchdogs
      /\ watchdog' \in [Watchdogs -> {Dog!Idle} \cup Busy]
      /\ \A v \in Watchdogs : watchdog'[v].pc = "spawn" => watchdog'[v].write = {}
  BY <1>1 DEF DogInv, Dog!Idle
<1>6. \A v \in Watchdogs :
         \/ watchdog'[v] = Dog!Idle
         \/ /\ watchdog'[v].pc \in {"mark", "spawn"} /\ watchdog'[v].label \in Dog!Label
            /\ watchdog'[v].write \subseteq watchdog'[v].selected
            /\ watchdog'[v].selected \subseteq Repaired /\ watchdog'[v].selected # {}
  BY <1>1 DEF DogInv, Dog!TypeOK
<1> QED BY <1>1, <1>4, <1>5, <1>6 DEF DogInv, Dog!TypeOK

\* The runners go on, or go down, as what they were spawned for.
SameRunners ==
  /\ DOMAIN runners' = DOMAIN runners
  /\ \A r \in DOMAIN runners :
       /\ runners'[r].period = runners[r].period /\ runners'[r].at = runners[r].at
       /\ runners'[r].services = runners[r].services

LEMMA RunnersType ==
  ASSUME DogInv, Dog!RunnerStep \/ Dog!Crash
  PROVE  /\ SameRunners /\ Len(runners') = Len(runners) /\ runners' \in Seq(Dog!Runner)
         /\ \A r \in DOMAIN runners' :
              /\ runners'[r] \in Dog!Runner /\ Dog!IsInjective(runners'[r].queue)
              /\ Dog!ToSet(runners'[r].queue) = runners'[r].services \ runners'[r].tried
<1>1. /\ runners \in Seq(Dog!Runner) /\ DOMAIN runners = 1..Len(runners) /\ Len(runners) \in Nat
      /\ \A r \in DOMAIN runners :
           /\ runners[r] \in Dog!Runner /\ Dog!IsInjective(runners[r].queue)
           /\ Dog!ToSet(runners[r].queue) = runners[r].services \ runners[r].tried
  BY DEF DogInv, Dog!TypeOK
<1>2. CASE Dog!RunnerStep
  <2>1. PICK r \in DOMAIN runners : Dog!Repair(r)
    BY <1>2 DEF Dog!RunnerStep
  <2>2. PICK gone \in BOOLEAN :
          runners' = [runners EXCEPT ![r].tried = @ \cup {Head(runners[r].queue)},
                                     ![r].queue = Tail(@), ![r].gone = gone]
    BY <2>1 DEF Dog!Repair, Dog!GoesOn
  <2> DEFINE s == [runners[r] EXCEPT !.tried = @ \cup {Head(runners[r].queue)},
                                     !.queue = Tail(@), !.gone = gone]
  <2>3. runners' = [runners EXCEPT ![r] = s]
    BY <2>1, <2>2
  <2>4. /\ s \in Dog!Runner /\ Dog!IsInjective(s.queue)
        /\ Dog!ToSet(s.queue) = s.services \ s.tried
        /\ s.period = runners[r].period /\ s.at = runners[r].at
        /\ s.services = runners[r].services
    <3>1. runners[r] \in Dog!Runner /\ runners[r].queue # <<>>
          /\ Dog!IsInjective(runners[r].queue)
          /\ Dog!ToSet(runners[r].queue) = runners[r].services \ runners[r].tried
      BY <1>1, <2>1 DEF Dog!Repair
    <3> QED BY <3>1, RepairOne
  <2> HIDE DEF s
  <2>5. DOMAIN runners' = DOMAIN runners /\ Len(runners') = Len(runners)
        /\ runners' \in Seq(Dog!Runner)
    BY <1>1, <2>3, <2>4
  <2>6. \A q \in DOMAIN runners : runners'[q] = IF q = r THEN s ELSE runners[q]
    BY <1>1, <2>3
  <2> QED BY <1>1, <2>4, <2>5, <2>6 DEF SameRunners
<1>3. CASE Dog!Crash
  <2>1. runners' = [r \in 1..Len(runners) |-> [runners[r] EXCEPT !.gone = TRUE]]
    BY <1>1, <1>3 DEF Dog!Crash
  <2>2. \A r \in 1..Len(runners) :
          /\ runners'[r] \in Dog!Runner
          /\ runners'[r].period = runners[r].period /\ runners'[r].at = runners[r].at
          /\ runners'[r].services = runners[r].services
          /\ runners'[r].queue = runners[r].queue /\ runners'[r].tried = runners[r].tried
    BY <1>1, <2>1 DEF Dog!Runner
  <2>3. runners' \in [1..Len(runners) -> Dog!Runner]
    BY <2>1, <2>2
  <2>4. runners' \in Seq(Dog!Runner) /\ Len(runners') = Len(runners)
        /\ DOMAIN runners' = 1..Len(runners)
    BY <1>1, <2>3
  <2> QED BY <1>1, <2>2, <2>4 DEF SameRunners
<1> QED BY <1>2, <1>3

LEMMA DogTypeStep == DogInv /\ [Dog!Next]_(Dog!vars) => DogInv'
<1> SUFFICES ASSUME DogInv, [Dog!Next]_(Dog!vars) PROVE DogInv'
  OBVIOUS
<1>1. CASE UNCHANGED Dog!vars
  BY <1>1 DEF Dog!vars, DogInv, Dog!TypeOK
<1>2. CASE Dog!RunnerStep
  <2>1. UNCHANGED <<mishaps, time, markers, watchdog, skipped>>
    BY <1>2 DEF Dog!RunnerStep, Dog!Repair
  <2> QED BY <1>2, <2>1, RunnersType DEF DogInv, Dog!TypeOK
<1>3. CASE Dog!Crash
  <2>1. UNCHANGED <<mishaps, time, markers, skipped>>
        /\ watchdog' = [w \in Watchdogs |-> Dog!Idle] /\ Dog!Idle.pc = "idle"
    BY <1>3 DEF Dog!Crash, Dog!Idle
  <2> QED BY <1>3, <2>1, RunnersType DEF DogInv, Dog!TypeOK
<1>4. CASE Dog!Tick
  <2>1. time' \in Dog!Time
    BY <1>4, RepairAssumption DEF DogInv, Dog!TypeOK, Dog!Tick, Dog!Time, Dog!Sound
  <2> QED BY <1>4, <2>1 DEF DogInv, Dog!TypeOK, Dog!Tick
<1> QED
  BY <1>1, <1>2, <1>3, <1>4, SelectType, WriteMarkerType, SpawnType DEF Dog!Next

\* The variables have their types, a watchdog marks what it has chosen and nothing
\* else, and a runner has tried what has left its queue, in every reachable state.
THEOREM DogTypes == Dog!Spec => []Dog!TypeOK
<1>1. DogInv => Dog!TypeOK
  BY DEF DogInv
<1> QED BY <1>1, DogTypeInit, DogTypeStep, PTL DEF Dog!Spec

----------------------------------------------------------------------------
(* Watchdog: one launch per marker.                                        *)

\* One watchdog at a time: hermes_stats_weekly.sh starts one and waits for it.
OneWatchdog == \A v, w \in Watchdogs : v = w

\* What a watchdog at work has chosen and marked, now.
Chosen(w, s) == watchdog[w] # Dog!Idle /\ s \in watchdog[w].selected
Written(w, s) == Chosen(w, s) /\ s \notin watchdog[w].write
MarkedAt(label, s, at) == \E m \in markers : m.label = label /\ m.service = s /\ m.at >= at

ThisWeek == [period |-> "weekly", at |-> -1]

\* Every weekly launch has a marker that is no older; so whatever a watchdog has
\* chosen for a week, its last launch is TTL ago, and stays so until it spawns.
Spaced ==
  /\ Dog!LaunchedOnce
  /\ \A r \in DOMAIN runners : runners[r].at <= time
  /\ \A r \in DOMAIN runners : runners[r].period = "weekly" =>
       \A s \in runners[r].services : MarkedAt(ThisWeek, s, runners[r].at)
  /\ \A w \in Watchdogs, s \in Repaired :
       Chosen(w, s) /\ watchdog[w].label.period = "weekly" =>
         /\ watchdog[w].label = ThisWeek
         /\ Written(w, s) => MarkedAt(ThisWeek, s, time)
         /\ \A r \in DOMAIN runners :
              runners[r].period = "weekly" /\ s \in runners[r].services =>
                time - runners[r].at >= TTL["weekly"]

LEMMA SpacedInit == Dog!Init => Spaced
<1> SUFFICES ASSUME Dog!Init PROVE Spaced
  OBVIOUS
<1>1. DOMAIN runners = {} /\ \A w \in Watchdogs : watchdog[w] = Dog!Idle
  BY DEF Dog!Init
<1> QED BY <1>1 DEF Spaced, Dog!LaunchedOnce, Chosen

LEMMA SelectSpaced ==
  ASSUME DogInv, Spaced, NEW w \in Watchdogs, NEW period \in Periods, Dog!Select(w, period)
  PROVE  Spaced'
<1> DEFINE label == Dog!LabelOf(period)
<1>1. PICK triggers \in SUBSET Repaired :
        LET selected == triggers \ Dog!Marked(label)
        IN watchdog' = [watchdog EXCEPT ![w] =
                   IF Dog!Nothing(selected) THEN Dog!Idle
                   ELSE [pc |-> "mark", label |-> label, selected |-> selected, write |-> selected]]
  BY DEF Dog!Select
<1> DEFINE selected == triggers \ Dog!Marked(label)
           busy == [pc |-> "mark", label |-> label, selected |-> selected, write |-> selected]
<1>2. UNCHANGED <<mishaps, time, markers, runners>>
  BY DEF Dog!Select
<1>3. /\ watchdog \in [Watchdogs -> {Dog!Idle} \cup Busy]
      /\ watchdog' = [watchdog EXCEPT ![w] = Dog!Idle] \/ watchdog' = [watchdog EXCEPT ![w] = busy]
  BY <1>1 DEF DogInv
<1>4. busy.label = label /\ busy.selected = selected /\ busy.write = selected
  OBVIOUS
<1>5. label.period = period /\ (period = "weekly" => label = ThisWeek)
  BY DEF Dog!LabelOf, ThisWeek
<1>6. time \in Int /\ \A r \in DOMAIN runners : runners[r].at \in Int
  BY RepairAssumption DEF DogInv, Dog!TypeOK, Dog!Time, Dog!Runner, Dog!Sound
<1>7. \A m \in markers : m.at \in Int /\ m.label.period \in Periods
  BY RepairAssumption DEF DogInv, Dog!TypeOK, Dog!Time, Dog!Marker, Dog!Label, Dog!Sound
<1>8. ASSUME NEW s \in selected, period = "weekly",
             NEW r \in DOMAIN runners, runners[r].period = "weekly", s \in runners[r].services
      PROVE  time - runners[r].at >= TTL["weekly"]
  <2>1. PICK m \in markers : m.label = label /\ m.service = s /\ m.at >= runners[r].at
    BY <1>5, <1>8 DEF Spaced, MarkedAt
  <2>2. s \in Repaired /\ ~Dog!Recent(m)
    BY <2>1 DEF Dog!Marked
  <2>3. ~(time - m.at < TTL["weekly"])
    BY <1>5, <1>8, <2>1, <2>2 DEF Dog!Recent
  <2>4. TTL["weekly"] \in Int
    BY <1>7, <1>5, <1>8, <2>1, RepairAssumption DEF Dog!Sound
  <2> QED BY <1>6, <1>7, <2>1, <2>3, <2>4
<1> HIDE DEF label, selected, busy
<1>9. \A v \in Watchdogs, s \in Repaired :
        (Chosen(v, s) /\ watchdog[v].label.period = "weekly" =>
         /\ watchdog[v].label = ThisWeek
         /\ Written(v, s) => MarkedAt(ThisWeek, s, time)
         /\ \A r \in DOMAIN runners :
              runners[r].period = "weekly" /\ s \in runners[r].services =>
                time - runners[r].at >= TTL["weekly"])'
  <2> SUFFICES ASSUME NEW v \in Watchdogs, NEW s \in Repaired, Chosen(v, s)',
                      watchdog'[v].label.period = "weekly"
               PROVE  /\ watchdog'[v].label = ThisWeek
                      /\ Written(v, s)' => MarkedAt(ThisWeek, s, time)'
                      /\ \A r \in DOMAIN runners :
                           runners[r].period = "weekly" /\ s \in runners[r].services =>
                             time - runners[r].at >= TTL["weekly"]
    BY <1>2 DEF ThisWeek
  <2>1. CASE v = w
    <3>1. watchdog'[v] = busy
      BY <1>3, <2>1 DEF Chosen
    <3>2. s \in selected /\ period = "weekly" /\ ~Written(v, s)'
      BY <1>4, <1>5, <3>1 DEF Chosen, Written
    <3> QED BY <1>4, <1>5, <1>8, <3>1, <3>2
  <2>2. CASE v # w
    <3>1. watchdog'[v] = watchdog[v]
      BY <1>3, <2>2
    <3>2. Chosen(v, s) /\ (Written(v, s)' => Written(v, s))
          /\ (MarkedAt(ThisWeek, s, time) => MarkedAt(ThisWeek, s, time)')
      BY <1>2, <3>1 DEF Chosen, Written, MarkedAt, Dog!Idle, ThisWeek
    <3> QED BY <3>1, <3>2 DEF Spaced
  <2> QED BY <2>1, <2>2
<1>10. (/\ Dog!LaunchedOnce
        /\ \A r \in DOMAIN runners : runners[r].at <= time
        /\ \A r \in DOMAIN runners : runners[r].period = "weekly" =>
             \A s \in runners[r].services : MarkedAt(ThisWeek, s, runners[r].at))'
  BY <1>2 DEF Spaced, Dog!LaunchedOnce, MarkedAt, ThisWeek
<1> QED BY <1>9, <1>10 DEF Spaced

LEMMA TimesAreNumbers ==
  ASSUME DogInv
  PROVE  time \in Int /\ \A r \in DOMAIN runners : runners[r].at \in Int
BY RepairAssumption DEF DogInv, Dog!TypeOK, Dog!Time, Dog!Runner, Dog!Sound

LEMMA WriteMarkerSpaced ==
  ASSUME OneWatchdog, DogInv, Spaced, NEW w \in Watchdogs, Dog!WriteMarker(w) PROVE Spaced'
<1>1. PICK t \in watchdog[w].write :
       /\ markers' = {m \in markers : m.label # watchdog[w].label \/ m.service # t}
                       \cup {[label |-> watchdog[w].label, service |-> t, at |-> time]}
       /\ watchdog' = [watchdog EXCEPT ![w].write = @ \ {t},
                         ![w].pc = IF watchdog[w].write = {t} THEN "spawn" ELSE "mark"]
  BY DEF Dog!WriteMarker
<1>2. watchdog[w] \in Busy /\ watchdog[w] # Dog!Idle /\ watchdog[w].pc = "mark"
  BY DEF Dog!WriteMarker, DogInv, Dog!Idle
<1>3. /\ watchdog'[w].label = watchdog[w].label /\ watchdog'[w].selected = watchdog[w].selected
      /\ watchdog'[w].write = watchdog[w].write \ {t} /\ watchdog'[w] # Dog!Idle
  BY <1>1, <1>2 DEF Busy, DogInv, Dog!Idle
<1>4. UNCHANGED <<time, runners>>
  BY DEF Dog!WriteMarker
<1>5. time \in Int /\ \A r \in DOMAIN runners : runners[r].at \in Int /\ runners[r].at <= time
  BY TimesAreNumbers DEF Spaced
<1>6. \A v \in Watchdogs : v = w
  BY DEF OneWatchdog
<1>7. ASSUME NEW s \in Repaired, Chosen(w, s)', watchdog'[w].label.period = "weekly"
      PROVE  /\ watchdog'[w].label = ThisWeek
             /\ Written(w, s)' => MarkedAt(ThisWeek, s, time)'
             /\ \A r \in DOMAIN runners :
                  runners[r].period = "weekly" /\ s \in runners[r].services =>
                    time - runners[r].at >= TTL["weekly"]
  <2>1. Chosen(w, s)
    BY <1>2, <1>3, <1>7 DEF Chosen
  <2>2. watchdog[w].label = ThisWeek
    BY <1>3, <1>7, <2>1 DEF Spaced
  <2>3. ASSUME Written(w, s)' PROVE MarkedAt(ThisWeek, s, time)'
    <3>1. CASE s = t
      <4> DEFINE m == [label |-> watchdog[w].label, service |-> t, at |-> time]
      <4>1. m \in markers' /\ m.label = ThisWeek /\ m.service = s /\ m.at = time
        BY <1>1, <2>2, <3>1
      <4> QED BY <1>4, <1>5, <4>1 DEF MarkedAt, ThisWeek
    <3>2. CASE s # t
      <4>1. Written(w, s)
        BY <1>3, <2>1, <2>3, <3>2 DEF Written
      <4>2. MarkedAt(ThisWeek, s, time)
        BY <1>3, <1>7, <2>1, <4>1 DEF Spaced
      <4>3. (MarkedAt(ThisWeek, s, time))' <=> \E m \in markers' : m.label = ThisWeek /\ m.service = s /\ m.at >= time
        BY <1>4 DEF MarkedAt, ThisWeek
      <4>4. PICK m \in markers : m.label = ThisWeek /\ m.service = s /\ m.at >= time
        BY <4>2 DEF MarkedAt
      <4> QED BY <1>1, <3>2, <4>3, <4>4
    <3> QED BY <3>1, <3>2
  <2> QED BY <1>3, <1>7, <2>1, <2>2, <2>3 DEF Spaced
<1>8. ASSUME NEW r \in DOMAIN runners, runners[r].period = "weekly", NEW s \in runners[r].services
      PROVE  \E m \in markers' : m.label = ThisWeek /\ m.service = s /\ m.at >= runners[r].at
  <2>1. PICK m \in markers : m.label = ThisWeek /\ m.service = s /\ m.at >= runners[r].at
    BY <1>8 DEF Spaced, MarkedAt
  <2>2. CASE m \in markers'
    BY <2>1, <2>2
  <2>3. CASE m \notin markers'
    <3> DEFINE f == [label |-> watchdog[w].label, service |-> t, at |-> time]
    <3>1. m.label = watchdog[w].label /\ m.service = t
      BY <1>1, <2>3
    <3>2. f \in markers' /\ f.label = m.label /\ f.service = m.service /\ f.at = time
      BY <1>1, <3>1
    <3> HIDE DEF f
    <3> QED BY <1>5, <2>1, <3>2
  <2> QED BY <2>2, <2>3
<1>9. \A v \in Watchdogs, s \in Repaired :
        (Chosen(v, s) /\ watchdog[v].label.period = "weekly" =>
         /\ watchdog[v].label = ThisWeek
         /\ Written(v, s) => MarkedAt(ThisWeek, s, time)
         /\ \A r \in DOMAIN runners :
              runners[r].period = "weekly" /\ s \in runners[r].services =>
                time - runners[r].at >= TTL["weekly"])'
  BY <1>4, <1>6, <1>7 DEF ThisWeek
<1>10. (\A r \in DOMAIN runners : runners[r].period = "weekly" =>
          \A s \in runners[r].services : MarkedAt(ThisWeek, s, runners[r].at))'
  BY <1>4, <1>8 DEF MarkedAt, ThisWeek
<1>11. (/\ Dog!LaunchedOnce
        /\ \A r \in DOMAIN runners : runners[r].at <= time)'
  BY <1>4 DEF Spaced, Dog!LaunchedOnce
<1> QED BY <1>9, <1>10, <1>11 DEF Spaced

LEMMA SpawnSpaced ==
  ASSUME OneWatchdog, DogInv, Spaced, NEW w \in Watchdogs, Dog!Spawn(w) PROVE Spaced'
<1> DEFINE n == Len(runners)
           r0 == Spawned(w)
<1>1. /\ watchdog' = [watchdog EXCEPT ![w] = Dog!Idle]
      /\ UNCHANGED <<mishaps, time, markers, skipped>>
      /\ n \in Nat /\ DOMAIN runners = 1..n /\ DOMAIN runners' = 1..(n + 1)
      /\ \A i \in 1..n : runners'[i] = runners[i]
      /\ runners'[n + 1] = r0
      /\ watchdog[w] \in Busy /\ watchdog[w].write = {} /\ watchdog[w].pc = "spawn"
  BY SpawnEffect
<1>2. /\ r0.period = watchdog[w].label.period /\ r0.at = time
      /\ r0.services = watchdog[w].selected /\ r0.services \subseteq Repaired
  BY <1>1 DEF Spawned, Busy
<1> HIDE DEF n, r0
<1>3. time \in Int /\ \A r \in DOMAIN runners : runners[r].at \in Int /\ runners[r].at <= time
  BY TimesAreNumbers DEF Spaced
<1>4. \A i \in DOMAIN runners' : i \in 1..n \/ i = n + 1
  BY <1>1
<1>5. \A v \in Watchdogs : watchdog'[v] = Dog!Idle
  BY <1>1 DEF OneWatchdog, DogInv
<1>6. \A s \in r0.services : Chosen(w, s) /\ Written(w, s)
  BY <1>1, <1>2 DEF Chosen, Written, Dog!Idle
<1>7. ASSUME r0.period = "weekly", NEW s \in r0.services
      PROVE  /\ MarkedAt(ThisWeek, s, time)
             /\ \A r \in DOMAIN runners :
                  runners[r].period = "weekly" /\ s \in runners[r].services =>
                    time - runners[r].at >= TTL["weekly"]
  BY <1>2, <1>6, <1>7 DEF Spaced
<1>8. Dog!LaunchedOnce'
  <2> SUFFICES ASSUME NEW q \in DOMAIN runners', NEW r \in DOMAIN runners', q < r,
                      runners'[q].period = "weekly", runners'[r].period = "weekly",
                      runners'[q].services \cap runners'[r].services # {}
               PROVE  runners'[r].at - runners'[q].at >= TTL["weekly"]
    BY DEF Dog!LaunchedOnce
  <2>1. q \in 1..n
    BY <1>1, <1>4
  <2>2. CASE r \in 1..n
    BY <1>1, <2>1, <2>2 DEF Spaced, Dog!LaunchedOnce
  <2>3. CASE r = n + 1
    <3>1. PICK s \in r0.services : s \in runners[q].services
      BY <1>1, <2>1, <2>3
    <3> QED BY <1>1, <1>2, <1>7, <2>1, <2>3, <3>1
  <2> QED BY <1>4, <2>2, <2>3
<1>9. \A r \in DOMAIN runners' : runners'[r].at <= time
  BY <1>1, <1>2, <1>3, <1>4
<1>10. ASSUME NEW r \in DOMAIN runners', runners'[r].period = "weekly",
              NEW s \in runners'[r].services
       PROVE  \E m \in markers : m.label = ThisWeek /\ m.service = s /\ m.at >= runners'[r].at
  <2>1. CASE r \in 1..n
    BY <1>1, <1>10, <2>1 DEF Spaced, MarkedAt
  <2>2. CASE r = n + 1
    BY <1>1, <1>2, <1>7, <1>10, <2>2 DEF MarkedAt
  <2> QED BY <1>4, <2>1, <2>2
<1>11. (\A r \in DOMAIN runners : runners[r].period = "weekly" =>
          \A s \in runners[r].services : MarkedAt(ThisWeek, s, runners[r].at))'
  BY <1>1, <1>10 DEF MarkedAt, ThisWeek
<1>12. \A v \in Watchdogs : \A s : ~Chosen(v, s)'
  BY <1>5 DEF Chosen, Dog!Idle
<1> QED BY <1>1, <1>8, <1>9, <1>11, <1>12 DEF Spaced

\* What the runners do, and what goes down with the Mac, launches nothing.
LEMMA RunnersSpaced ==
  ASSUME DogInv, Spaced, SameRunners, UNCHANGED <<time, markers>>,
         \/ UNCHANGED watchdog
         \/ \A w \in Watchdogs : watchdog'[w] = Dog!Idle
  PROVE  Spaced'
<1>1. /\ DOMAIN runners' = DOMAIN runners
      /\ \A r \in DOMAIN runners :
           /\ runners'[r].period = runners[r].period /\ runners'[r].at = runners[r].at
           /\ runners'[r].services = runners[r].services
  BY DEF SameRunners
<1>2. Dog!LaunchedOnce' /\ \A r \in DOMAIN runners' : runners'[r].at <= time'
  BY <1>1 DEF Spaced, Dog!LaunchedOnce
<1>3. \A s, at : (\E m \in markers' : m.label = ThisWeek /\ m.service = s /\ m.at >= at)
                   <=> MarkedAt(ThisWeek, s, at)
  BY DEF MarkedAt
<1>4. \A r \in DOMAIN runners' : runners'[r].period = "weekly" =>
        \A s \in runners'[r].services :
          \E m \in markers' : m.label = ThisWeek /\ m.service = s /\ m.at >= runners'[r].at
  BY <1>1, <1>3 DEF Spaced
<1>5. \A v \in Watchdogs : \A s : Chosen(v, s)' => Chosen(v, s) /\ watchdog'[v] = watchdog[v]
  BY DEF Chosen, Dog!Idle
<1>6. \A v \in Watchdogs, s \in Repaired :
        Chosen(v, s)' /\ watchdog'[v].label.period = "weekly" =>
         /\ watchdog'[v].label = ThisWeek
         /\ Written(v, s)' => \E m \in markers' : m.label = ThisWeek /\ m.service = s /\ m.at >= time'
         /\ \A r \in DOMAIN runners' :
              runners'[r].period = "weekly" /\ s \in runners'[r].services =>
                time' - runners'[r].at >= TTL["weekly"]
  BY <1>1, <1>3, <1>5 DEF Spaced, Written
<1>7. /\ (\A r \in DOMAIN runners : runners[r].period = "weekly" =>
            \A s \in runners[r].services : MarkedAt(ThisWeek, s, runners[r].at))'
      /\ \A v \in Watchdogs, s \in Repaired :
           (Chosen(v, s) /\ watchdog[v].label.period = "weekly" =>
            /\ watchdog[v].label = ThisWeek
            /\ Written(v, s) => MarkedAt(ThisWeek, s, time)
            /\ \A r \in DOMAIN runners :
                 runners[r].period = "weekly" /\ s \in runners[r].services =>
                   time - runners[r].at >= TTL["weekly"])'
  BY <1>4, <1>6 DEF MarkedAt, ThisWeek
<1> QED BY <1>2, <1>7 DEF Spaced

LEMMA TickSpaced == ASSUME DogInv, Spaced, Dog!Tick PROVE Spaced'
<1>1. /\ \A w \in Watchdogs : watchdog'[w] = Dog!Idle
      /\ time' = time + 1 /\ UNCHANGED <<markers, runners>>
  BY DEF Dog!Tick
<1>2. time \in Int /\ \A r \in DOMAIN runners : runners[r].at \in Int /\ runners[r].at <= time
  BY TimesAreNumbers DEF Spaced
<1>3. \A v \in Watchdogs : \A s : ~Chosen(v, s)'
  BY <1>1 DEF Chosen, Dog!Idle
<1>4. (\A r \in DOMAIN runners : runners[r].period = "weekly" =>
         \A s \in runners[r].services : MarkedAt(ThisWeek, s, runners[r].at))'
  BY <1>1 DEF Spaced, MarkedAt, ThisWeek
<1>5. Dog!LaunchedOnce' /\ \A r \in DOMAIN runners' : runners'[r].at <= time'
  BY <1>1, <1>2 DEF Spaced, Dog!LaunchedOnce
<1> QED BY <1>3, <1>4, <1>5 DEF Spaced

LEMMA SpacedStep ==
  OneWatchdog /\ DogInv /\ Spaced /\ [Dog!Next]_(Dog!vars) => Spaced'
<1> SUFFICES ASSUME OneWatchdog, DogInv, Spaced, [Dog!Next]_(Dog!vars) PROVE Spaced'
  OBVIOUS
<1>1. CASE UNCHANGED Dog!vars \/ Dog!RunnerStep
  <2>1. SameRunners /\ UNCHANGED <<time, markers, watchdog>>
    BY <1>1, RunnersType DEF Dog!vars, SameRunners, Dog!RunnerStep, Dog!Repair
  <2> QED BY <2>1, RunnersSpaced
<1>2. CASE Dog!Crash
  <2>1. SameRunners /\ UNCHANGED <<time, markers>> /\ \A w \in Watchdogs : watchdog'[w] = Dog!Idle
    BY <1>2, RunnersType DEF Dog!Crash
  <2> QED BY <2>1, RunnersSpaced
<1> QED
  BY <1>1, <1>2, SelectSpaced, WriteMarkerSpaced, SpawnSpaced, TickSpaced DEF Dog!Next

\* A marker speaks of a runner that was spawned by then, unless a watchdog has yet
\* to spawn it; and a watchdog that finds one has nothing to spawn itself.
Launched(period, s, at) ==
  \E r \in DOMAIN runners :
    runners[r].period = period /\ s \in runners[r].services /\ runners[r].at <= at

Told ==
  "crash" \notin mishaps =>
    /\ \A s \in skipped : Launched(s.period, s.service, s.at)
    /\ \A m \in markers : m.at <= time
    /\ \A m \in markers :
         \/ Launched(m.label.period, m.service, m.at)
         \/ m.at = time /\ \E w \in Watchdogs : watchdog[w].label = m.label /\ Written(w, m.service)

LEMMA ToldInit == Dog!Init => Told
BY DEF Dog!Init, Told

LEMMA SelectTold ==
  ASSUME OneWatchdog, DogInv, Told, NEW w \in Watchdogs, NEW period \in Periods,
         Dog!Select(w, period)
  PROVE  Told'
<1> SUFFICES ASSUME "crash" \notin mishaps
             PROVE  /\ \A s \in skipped' : Launched(s.period, s.service, s.at)'
                    /\ \A m \in markers' : m.at <= time'
                    /\ \A m \in markers' : Launched(m.label.period, m.service, m.at)'
  BY DEF Told, Dog!Select
<1> DEFINE label == Dog!LabelOf(period)
<1>1. PICK triggers \in SUBSET Repaired :
        skipped' = skipped \cup
          {[period |-> period, service |-> s, at |-> time] : s \in triggers \cap Dog!Marked(label)}
  BY DEF Dog!Select
<1>2. UNCHANGED <<mishaps, time, markers, runners>>
  BY DEF Dog!Select
<1>3. label.period = period
  BY DEF Dog!LabelOf
<1> HIDE DEF label
<1>4. \A v \in Watchdogs : \A s : ~Written(v, s)
  <2>1. watchdog[w] = Dog!Idle
    BY DEF Dog!Select
  <2> QED BY <2>1 DEF OneWatchdog, Written, Chosen
<1>5. \A m \in markers : Launched(m.label.period, m.service, m.at)
  BY <1>4 DEF Told
<1>6. \A p, s, at : Launched(p, s, at)' <=> Launched(p, s, at)
  BY <1>2 DEF Launched
<1>7. time \in Int /\ (\A r \in DOMAIN runners : runners[r].at \in Int)
      /\ \A m \in markers : m.at \in Int /\ m.at <= time
  <2>1. \A m \in markers : m.at \in Int
    BY RepairAssumption DEF DogInv, Dog!TypeOK, Dog!Time, Dog!Marker, Dog!Sound
  <2> QED BY <2>1, TimesAreNumbers DEF Told
<1>8. ASSUME NEW s \in Dog!Marked(label) PROVE Launched(period, s, time)
  <2>1. PICK m \in markers : m.label = label /\ m.service = s
    BY DEF Dog!Marked
  <2>2. Launched(period, s, m.at)
    BY <1>3, <1>5, <2>1
  <2> QED BY <1>7, <2>1, <2>2 DEF Launched
<1>9. \A s \in skipped' : Launched(s.period, s.service, s.at)
  BY <1>1, <1>8 DEF Told
<1> QED BY <1>2, <1>5, <1>6, <1>7, <1>9

LEMMA WriteMarkerTold ==
  ASSUME DogInv, Told, NEW w \in Watchdogs, Dog!WriteMarker(w) PROVE Told'
<1> SUFFICES ASSUME "crash" \notin mishaps
             PROVE  /\ \A s \in skipped' : Launched(s.period, s.service, s.at)'
                    /\ \A m \in markers' : m.at <= time'
                    /\ \A m \in markers' :
                         \/ Launched(m.label.period, m.service, m.at)'
                         \/ m.at = time' /\ \E v \in Watchdogs :
                              watchdog'[v].label = m.label /\ Written(v, m.service)'
  BY DEF Told, Dog!WriteMarker
<1>1. PICK t \in watchdog[w].write :
       /\ markers' = {m \in markers : m.label # watchdog[w].label \/ m.service # t}
                       \cup {[label |-> watchdog[w].label, service |-> t, at |-> time]}
       /\ watchdog' = [watchdog EXCEPT ![w].write = @ \ {t},
                         ![w].pc = IF watchdog[w].write = {t} THEN "spawn" ELSE "mark"]
  BY DEF Dog!WriteMarker
<1>2. UNCHANGED <<mishaps, time, runners, skipped>>
  BY DEF Dog!WriteMarker
<1>3. watchdog[w] \in Busy /\ watchdog[w] # Dog!Idle
  BY DEF Dog!WriteMarker, DogInv, Dog!Idle
<1>4. /\ watchdog'[w].label = watchdog[w].label /\ watchdog'[w].selected = watchdog[w].selected
      /\ watchdog'[w].write = watchdog[w].write \ {t} /\ watchdog'[w] # Dog!Idle
      /\ \A v \in Watchdogs : v # w => watchdog'[v] = watchdog[v]
  BY <1>1, <1>3 DEF Busy, DogInv, Dog!Idle
<1>5. \A p, s, at : Launched(p, s, at)' <=> Launched(p, s, at)
  BY <1>2 DEF Launched
<1>6. \A v \in Watchdogs : \A s : Written(v, s) => Written(v, s)' /\ watchdog'[v].label = watchdog[v].label
  BY <1>4 DEF Written, Chosen, Dog!Idle
<1>7. Written(w, t)'
  <2>1. t \in watchdog[w].selected
    BY <1>3 DEF DogInv, Dog!TypeOK
  <2> QED BY <1>4, <2>1 DEF Written, Chosen, Dog!Idle
<1>8. ASSUME NEW m \in markers'
      PROVE  \/ Launched(m.label.period, m.service, m.at)
             \/ m.at = time /\ \E v \in Watchdogs :
                  watchdog'[v].label = m.label /\ Written(v, m.service)'
  <2>1. CASE m \in markers
    <3>1. \/ Launched(m.label.period, m.service, m.at)
          \/ m.at = time /\ \E v \in Watchdogs : watchdog[v].label = m.label /\ Written(v, m.service)
      BY <2>1 DEF Told
    <3> QED BY <1>6, <3>1
  <2>2. CASE m = [label |-> watchdog[w].label, service |-> t, at |-> time]
    <3>1. m.label = watchdog'[w].label /\ m.service = t /\ m.at = time
      BY <1>4, <2>2
    <3> QED BY <1>7, <3>1
  <2> QED BY <1>1, <2>1, <2>2
<1>9. time \in Int
  BY TimesAreNumbers
<1>10. \A m \in markers' : m.at <= time
  BY <1>1, <1>9 DEF Told
<1> QED BY <1>2, <1>5, <1>8, <1>10 DEF Told

LEMMA SpawnTold ==
  ASSUME DogInv, Told, NEW w \in Watchdogs, Dog!Spawn(w) PROVE Told'
<1> SUFFICES ASSUME "crash" \notin mishaps
             PROVE  /\ \A s \in skipped' : Launched(s.period, s.service, s.at)'
                    /\ \A m \in markers' : m.at <= time'
                    /\ \A m \in markers' :
                         \/ Launched(m.label.period, m.service, m.at)'
                         \/ m.at = time' /\ \E v \in Watchdogs :
                              watchdog'[v].label = m.label /\ Written(v, m.service)'
  BY DEF Told, Dog!Spawn
<1> DEFINE n == Len(runners)
           r0 == Spawned(w)
<1>1. /\ watchdog' = [watchdog EXCEPT ![w] = Dog!Idle]
      /\ UNCHANGED <<mishaps, time, markers, skipped>>
      /\ n \in Nat /\ DOMAIN runners = 1..n /\ DOMAIN runners' = 1..(n + 1)
      /\ \A i \in 1..n : runners'[i] = runners[i]
      /\ runners'[n + 1] = r0
  BY SpawnEffect
<1>2. /\ r0.period = watchdog[w].label.period /\ r0.at = time
      /\ r0.services = watchdog[w].selected
  BY DEF Spawned
<1>3. time \in Int
  BY TimesAreNumbers
<1> HIDE DEF n, r0
<1>4. \A p, s, at : Launched(p, s, at) => Launched(p, s, at)'
  <2> SUFFICES ASSUME NEW p, NEW s, NEW at, Launched(p, s, at) PROVE Launched(p, s, at)'
    OBVIOUS
  <2>1. PICK r \in 1..n : runners[r].period = p /\ s \in runners[r].services /\ runners[r].at <= at
    BY <1>1 DEF Launched
  <2>2. r \in DOMAIN runners' /\ runners'[r] = runners[r]
    BY <1>1, <2>1
  <2> QED BY <2>1, <2>2 DEF Launched
<1>5. \A p, s, at : p = watchdog[w].label.period /\ s \in watchdog[w].selected /\ at = time
                      => Launched(p, s, at)'
  <2>1. n + 1 \in DOMAIN runners'
    BY <1>1
  <2> QED BY <1>1, <1>2, <1>3, <2>1 DEF Launched
<1>6. ASSUME NEW m \in markers
      PROVE  \/ Launched(m.label.period, m.service, m.at)'
             \/ m.at = time' /\ \E v \in Watchdogs :
                  watchdog'[v].label = m.label /\ Written(v, m.service)'
  <2>1. CASE Launched(m.label.period, m.service, m.at)
    BY <1>4, <2>1
  <2>2. ASSUME m.at = time, NEW v \in Watchdogs, watchdog[v].label = m.label, Written(v, m.service)
        PROVE  \/ Launched(m.label.period, m.service, m.at)'
               \/ m.at = time' /\ \E u \in Watchdogs :
                    watchdog'[u].label = m.label /\ Written(u, m.service)'
    <3>1. CASE v = w
      <4>1. m.service \in watchdog[w].selected
        BY <2>2, <3>1 DEF Written, Chosen
      <4> QED BY <1>5, <2>2, <3>1, <4>1
    <3>2. CASE v # w
      <4>1. watchdog'[v] = watchdog[v]
        BY <1>1, <3>2 DEF DogInv
      <4>2. Written(v, m.service)'
        BY <2>2, <4>1 DEF Written, Chosen, Dog!Idle
      <4> QED BY <1>1, <2>2, <4>1, <4>2
    <3> QED BY <3>1, <3>2
  <2> QED BY <2>1, <2>2 DEF Told
<1> QED BY <1>1, <1>4, <1>6 DEF Told

LEMMA ToldStep == OneWatchdog /\ DogInv /\ Told /\ [Dog!Next]_(Dog!vars) => Told'
<1> SUFFICES ASSUME OneWatchdog, DogInv, Told, [Dog!Next]_(Dog!vars) PROVE Told'
  OBVIOUS
<1>0. CASE Dog!Crash
  BY <1>0 DEF Dog!Crash, Told
<1>1. CASE UNCHANGED Dog!vars \/ Dog!RunnerStep
  <2>1. SameRunners /\ UNCHANGED <<mishaps, time, markers, watchdog, skipped>>
    BY <1>1, RunnersType DEF Dog!vars, SameRunners, Dog!RunnerStep, Dog!Repair
  <2>2. \A p, s, at : Launched(p, s, at)' <=> Launched(p, s, at)
    BY <2>1 DEF Launched, SameRunners
  <2>3. \A v, s : Written(v, s)' <=> Written(v, s)
    BY <2>1 DEF Written, Chosen, Dog!Idle
  <2> QED BY <2>1, <2>2, <2>3 DEF Told
<1>2. ASSUME Dog!Tick, "crash" \notin mishaps PROVE Told'
  <2>1. UNCHANGED <<mishaps, markers, watchdog, runners, skipped>>
        /\ \A w \in Watchdogs : watchdog[w] = Dog!Idle
    BY <1>2 DEF Dog!Tick
  <2>2. \A p, s, at : Launched(p, s, at)' <=> Launched(p, s, at)
    BY <2>1 DEF Launched
  <2>3. \A m \in markers : Launched(m.label.period, m.service, m.at)
    <3>1. "crash" \notin mishaps /\ \A v \in Watchdogs : \A s : ~Written(v, s)
      BY <1>2, <2>1 DEF Written, Chosen
    <3> QED BY <3>1 DEF Told
  <2>4. \A m \in markers : m.at <= time'
    <3>1. time \in Int /\ time' = time + 1 /\ \A m \in markers : m.at \in Int
      BY <1>2, TimesAreNumbers, RepairAssumption
      DEF DogInv, Dog!TypeOK, Dog!Time, Dog!Marker, Dog!Sound, Dog!Tick
    <3> QED BY <1>2, <3>1 DEF Told
  <2> QED BY <2>1, <2>2, <2>3, <2>4 DEF Told
<1>3. CASE Dog!Tick /\ "crash" \in mishaps
  BY <1>3 DEF Dog!Tick, Told
<1> QED
  BY <1>0, <1>1, <1>2, <1>3, SelectTold, WriteMarkerTold, SpawnTold DEF Dog!Next

\* A marker stands for one launch: one at least, unless everything went down before
\* it, and no second one while it is recent, for any services, any times for which
\* a marker is recent, and whatever crashes or raises, with one watchdog at a time.
THEOREM OneLaunch == ASSUME OneWatchdog PROVE Dog!Spec => []OneLaunchPerMarker
<1>1. Dog!Init => DogInv /\ Spaced /\ Told
  BY DogTypeInit, SpacedInit, ToldInit
<1>2. DogInv /\ Spaced /\ Told /\ [Dog!Next]_(Dog!vars) => (DogInv /\ Spaced /\ Told)'
  BY DogTypeStep, SpacedStep, ToldStep
<1>3. Spaced /\ Told => OneLaunchPerMarker
  BY DEF Spaced, Told, Launched, OneLaunchPerMarker, Dog!OneLaunchPerMarker,
         Dog!SkippedWereLaunched
<1> QED BY <1>1, <1>2, <1>3, PTL DEF Dog!Spec

----------------------------------------------------------------------------
(* StatsWrapper: the shell script launchd starts the status bot with.      *)

----------------------------------------------------------------------------
(* StatsWrapper: types.                                                    *)

LEMMA WrapTypeInit == Wrap!Init => Wrap!TypeOK
<1> SUFFICES ASSUME Wrap!Init PROVE Wrap!TypeOK
  OBVIOUS
<1> USE WrapAssumption DEF Wrap!Sound, Wrap!Init, Wrap!Pids, Wrap!Points, Wrap!Taking, Wrap!Running,
   Wrap!Files
<1>1. /\ dir \in BOOLEAN /\ pidIn \in Wrap!Pids /\ stamped \in BOOLEAN
      /\ (pidIn # NoPid => dir) /\ (stamped => dir)
  OBVIOUS
<1>2. pc \in [Wrappers -> Wrap!Points] /\ found \in [Wrappers -> Wrap!Pids]
  OBVIOUS
<1>3. /\ rm \in [Wrappers -> {"none", "list", "unlink"}] /\ left \in [Wrappers -> SUBSET Wrap!Files]
      /\ trap \in [Wrappers -> {"none", "signal", "exit"}]
  OBVIOUS
<1>4. bot \in [Wrappers -> {"none", "running", "ended"}] /\ happened \subseteq {"overlap", "term"}
  OBVIOUS
<1> QED BY <1>1, <1>2, <1>3, <1>4 DEF Wrap!TypeOK

\* What follows rm is one of four places in the script.
LEMMA RmEndsAt ==
  ASSUME NEW w \in Wrappers, NEW done \in BOOLEAN, Wrap!TypeOK, Wrap!RmEnds(w, done)
  PROVE  /\ rm' = [rm EXCEPT ![w] = "none"] /\ trap' = [trap EXCEPT ![w] = "none"] /\ left' = left
         /\ \E next \in Wrap!Points :
              /\ pc' = [pc EXCEPT ![w] = next]
              /\ trap[w] = "exit" => next = "gone"
              /\ trap[w] = "none" /\ done => next = "again"
              /\ trap[w] # "exit" /\ ~done =>
                   next = "exit" \/ (next = pc[w] /\ pc[w] \in {"spawn", "watch", "reap"})
              /\ trap[w] = "signal" => next \in {"exit", pc[w]}
<1>1. PICK unchecked \in {{"watch", "reap"}, {"spawn", "watch", "reap"}} :
        pc' = [pc EXCEPT ![w] =
                 CASE trap[w] = "exit" -> "gone"
                   [] trap[w] # "exit" /\ ~done /\ @ \notin unchecked -> "exit"
                   [] trap[w] = "none" /\ done -> "again"
                   [] OTHER -> @]
  BY DEF Wrap!RmEnds
<1> DEFINE next == CASE trap[w] = "exit" -> "gone"
                     [] trap[w] # "exit" /\ ~done /\ pc[w] \notin unchecked -> "exit"
                     [] trap[w] = "none" /\ done -> "again"
                     [] OTHER -> pc[w]
<1>2. pc' = [pc EXCEPT ![w] = next]
  BY <1>1 DEF Wrap!TypeOK
<1>3. trap[w] \in {"none", "signal", "exit"} /\ pc[w] \in Wrap!Points
  BY DEF Wrap!TypeOK
<1>4. /\ trap[w] = "exit" => next = "gone"
      /\ trap[w] = "none" /\ done => next = "again"
      /\ trap[w] # "exit" /\ ~done =>
           next = "exit" \/ (next = pc[w] /\ pc[w] \in {"spawn", "watch", "reap"})
      /\ trap[w] = "signal" => next \in {"exit", pc[w]}
  <2>1. \A p \in unchecked : p \in {"spawn", "watch", "reap"}
    OBVIOUS
  <2>2. CASE trap[w] = "exit"
    BY <2>2
  <2>3. CASE trap[w] # "exit" /\ ~done /\ pc[w] \notin unchecked
    BY <2>3
  <2>4. CASE trap[w] = "none" /\ done
    BY <2>4
  <2>5. CASE trap[w] # "exit" /\ ~done /\ pc[w] \in unchecked
    <3>1. next = pc[w]
      BY <2>5
    <3> HIDE DEF next
    <3> QED BY <2>1, <2>5, <3>1
  <2>6. CASE trap[w] = "signal" /\ done
    BY <2>6
  <2> QED BY <1>3, <2>2, <2>3, <2>4, <2>5, <2>6
<1>5. next \in Wrap!Points
  BY <1>3, <1>4 DEF Wrap!Points, Wrap!Taking
<1> HIDE DEF next
<1> QED BY <1>2, <1>4, <1>5 DEF Wrap!RmEnds

LEMMA RmEndsTypes ==
  ASSUME NEW w \in Wrappers, NEW done \in BOOLEAN, Wrap!TypeOK, Wrap!RmEnds(w, done)
  PROVE  /\ rm' \in [Wrappers -> {"none", "list", "unlink"}]
         /\ left' \in [Wrappers -> SUBSET Wrap!Files]
         /\ trap' \in [Wrappers -> {"none", "signal", "exit"}] /\ pc' \in [Wrappers -> Wrap!Points]
<1>1. PICK next \in Wrap!Points : pc' = [pc EXCEPT ![w] = next]
  BY RmEndsAt
<1>2. rm' = [rm EXCEPT ![w] = "none"] /\ trap' = [trap EXCEPT ![w] = "none"] /\ left' = left
  BY RmEndsAt
<1> QED BY <1>1, <1>2 DEF Wrap!TypeOK

LEMMA WrapTypeStep == Wrap!TypeOK /\ [Wrap!Next]_(Wrap!vars) => Wrap!TypeOK'
<1> SUFFICES ASSUME Wrap!TypeOK, [Wrap!Next]_(Wrap!vars) PROVE Wrap!TypeOK'
  OBVIOUS
<1> USE WrapAssumption DEF Wrap!Sound, Wrap!Pids, Wrap!Points, Wrap!Taking, Wrap!Running,
            Wrap!Go, Wrap!At, Wrap!own, Wrap!lock, Wrap!removal
<1>1. CASE UNCHANGED Wrap!vars
  BY <1>1 DEF Wrap!vars, Wrap!TypeOK
<1>2. ASSUME NEW w \in Wrappers,
             Wrap!Start(w) \/ Wrap!Step(w) \/ Wrap!BotEnds(w) \/ Wrap!Timeout(w)
                 \/ Wrap!Term(w) \/ Wrap!Kill(w)
      PROVE Wrap!TypeOK'
  <2> USE DEF Wrap!TypeOK
  <2>1. CASE Wrap!Start(w) BY <2>1 DEF Wrap!Start
  <2>2. CASE Wrap!FirstMakeDir(w) \/ Wrap!SecondMakeDir(w)
    BY <2>2 DEF Wrap!FirstMakeDir, Wrap!SecondMakeDir, Wrap!MakeDir
  <2>3. CASE Wrap!Look(w) BY <2>3 DEF Wrap!Look
  <2>4. CASE Wrap!Decide(w) BY <2>4 DEF Wrap!Decide
  <2>5. CASE Wrap!Own(w) BY <2>5 DEF Wrap!Own
  <2>6. CASE Wrap!Stamp(w) BY <2>6 DEF Wrap!Stamp
  <2>7. CASE Wrap!Spawn(w) BY <2>7 DEF Wrap!Spawn
  <2>16. CASE Wrap!BotGone(w) BY <2>16 DEF Wrap!BotGone
  <2>17. CASE Wrap!BotEnds(w) BY <2>17 DEF Wrap!BotEnds
  <2>8. CASE Wrap!Timeout(w) BY <2>8 DEF Wrap!Timeout, Wrap!Stopped
  <2>9. CASE Wrap!Reap(w) BY <2>9 DEF Wrap!Reap
  <2>18. CASE Wrap!WriteStatus(w) BY <2>18 DEF Wrap!WriteStatus
  <2>10. CASE Wrap!Exit(w) BY <2>10 DEF Wrap!Exit, Wrap!Cleanup, Wrap!Mine
  <2>11. CASE Wrap!Term(w) BY <2>11 DEF Wrap!Term, Wrap!Cleanup, Wrap!Mine
  <2>12. CASE Wrap!Kill(w) BY <2>12 DEF Wrap!Kill
  <2>13. CASE Wrap!RmLists(w)
    <3>1. CASE dir
      BY <2>13, <3>1 DEF Wrap!RmLists, Wrap!Listing
    <3>2. CASE ~dir
      <4>1. Wrap!RmEnds(w, TRUE) /\ UNCHANGED <<dir, pidIn, stamped, found, bot, happened>>
        BY <2>13, <3>2 DEF Wrap!RmLists
      <4> QED BY <4>1, RmEndsTypes
    <3> QED BY <3>1, <3>2
  <2>14. CASE Wrap!RmUnlinks(w) BY <2>14 DEF Wrap!RmUnlinks
  <2>15. CASE Wrap!RmRemovesDir(w)
    <3> DEFINE empty == pidIn = NoPid /\ ~stamped
    <3>1. Wrap!RmEnds(w, empty) /\ dir' = (dir /\ ~empty) /\ empty \in BOOLEAN
          /\ UNCHANGED <<pidIn, stamped, found, bot, happened>>
      BY <2>15 DEF Wrap!RmRemovesDir
    <3>2. dir' \in BOOLEAN /\ (pidIn' # NoPid => dir') /\ (stamped' => dir')
      BY <3>1
    <3> HIDE DEF empty
    <3> QED BY <3>1, <3>2, RmEndsTypes
  <2> QED
    BY <1>2, <2>1, <2>2, <2>3, <2>4, <2>5, <2>6, <2>7, <2>8, <2>9, <2>10, <2>11, <2>12,
       <2>13, <2>14, <2>15, <2>16, <2>17, <2>18 DEF Wrap!Step
<1> QED BY <1>1, <1>2 DEF Wrap!Next

\* The variables have their types, and only a lock that is there has files in it,
\* in every reachable state of the wrappers.
THEOREM WrapTypes == WrapSpec => []Wrap!TypeOK
<1>1. /\ Wrap!Init => Wrap!TypeOK
      /\ Wrap!TypeOK /\ [Wrap!Next]_(Wrap!vars) => Wrap!TypeOK'
  BY WrapTypeInit, WrapTypeStep
<1> QED BY <1>1, PTL DEF WrapSpec, Wrap!Spec

----------------------------------------------------------------------------
(* StatsWrapper: nothing is left behind.                                   *)

\* Where a removal may be at work.
Shape ==
  \A w \in Wrappers :
    /\ rm[w] = "none" => trap[w] = "none"
    /\ pc[w] = "remove" <=> rm[w] # "none" /\ trap[w] = "none"
    /\ trap[w] = "exit" => pc[w] = "exit"
    /\ rm[w] # "none" => Wrap!Alive(w)

\* Nothing but the pid keeps this removal from removing the directory.
Clears(w) == rm[w] = "unlink" /\ (stamped => "started_at" \in left[w])

\* Two do not take it at once.
OneTaker == \A v, w \in Wrappers : pc[v] \in Wrap!Taking /\ pc[w] \in Wrap!Taking => v = w

\* The lock has the pid of a wrapper that knows it; what a taker has found, removed
\* or made is as it left it; and a pid is unlinked by its own wrapper only.
Knows(w) ==
  /\ pidIn = w => pc[w] \in {"stamp", "exit"} \cup Wrap!Running
  /\ pc[w] = "decide" => pidIn \in {found[w], NoPid}
  /\ pc[w] \in {"remove", "again", "own"} => pidIn = NoPid
  /\ pc[w] = "again" => ~dir
  /\ pc[w] = "stamp" /\ rm[w] = "none" => pidIn = w \/ ~dir

Removes(w) ==
  /\ trap[w] = "signal" => pc[w] \in {"stamp", "exit"} \cup Wrap!Running
  /\ trap[w] # "none" /\ rm[w] = "list" => pidIn = w
  /\ rm[w] = "unlink" /\ "pid" \in left[w] => trap[w] # "none" /\ pidIn = w
  /\ rm[w] = "unlink" /\ pidIn = w => "pid" \in left[w] /\ Clears(w)
  /\ rm[w] = "unlink" /\ pc[w] = "remove" => Clears(w)

\* A lock without a pid has somebody who writes one or will remove the directory.
LookedAfter ==
  dir /\ pidIn = NoPid => \E w \in Wrappers : pc[w] \in {"own", "remove"} \/ Clears(w)

LockFacts == OneTaker /\ (\A w \in Wrappers : Knows(w) /\ Removes(w)) /\ LookedAfter
LockInv == "overlap" \notin happened /\ ~Wrap!Killed => LockFacts

LEMMA LockInit == Wrap!Init => Shape /\ LockInv
<1> SUFFICES ASSUME Wrap!Init PROVE Shape /\ LockInv
  OBVIOUS
<1> USE WrapAssumption DEF Wrap!Sound, Wrap!Init
<1>1. Shape
  BY DEF Shape
<1>2. LockInv
  BY DEF LockInv, LockFacts, OneTaker, Knows, Removes, LookedAfter, Wrap!Taking, Wrap!Running
<1> QED BY <1>1, <1>2

LEMMA ShapeStep == Wrap!TypeOK /\ Shape /\ [Wrap!Next]_(Wrap!vars) => Shape'
<1> SUFFICES ASSUME Wrap!TypeOK, Shape, [Wrap!Next]_(Wrap!vars) PROVE Shape'
  OBVIOUS
<1> USE WrapAssumption DEF Wrap!Sound, Wrap!Go, Wrap!At, Wrap!Alive, Shape
<1>0. /\ rm \in [Wrappers -> {"none", "list", "unlink"}]
      /\ trap \in [Wrappers -> {"none", "signal", "exit"}] /\ pc \in [Wrappers -> Wrap!Points]
  BY DEF Wrap!TypeOK
<1>1. CASE UNCHANGED Wrap!vars
  BY <1>1 DEF Wrap!vars, Wrap!removal
<1>2. ASSUME NEW w \in Wrappers,
             Wrap!Start(w) \/ Wrap!Step(w) \/ Wrap!BotEnds(w) \/ Wrap!Timeout(w)
                 \/ Wrap!Term(w) \/ Wrap!Kill(w)
      PROVE Shape'
  <2>1. CASE \/ Wrap!Start(w) \/ Wrap!FirstMakeDir(w) \/ Wrap!SecondMakeDir(w) \/ Wrap!Look(w)
             \/ Wrap!Own(w) \/ Wrap!Stamp(w) \/ Wrap!Spawn(w) \/ Wrap!BotGone(w) \/ Wrap!BotEnds(w)
             \/ Wrap!Timeout(w) \/ Wrap!Reap(w) \/ Wrap!WriteStatus(w)
    <3>1. UNCHANGED <<rm, trap>>
      BY <2>1 DEF Wrap!removal, Wrap!Start, Wrap!FirstMakeDir, Wrap!SecondMakeDir, Wrap!MakeDir, Wrap!Look,
         Wrap!Own, Wrap!Stamp, Wrap!Spawn, Wrap!BotGone, Wrap!BotEnds, Wrap!Timeout, Wrap!Reap,
         Wrap!WriteStatus
    <3>2. \/ pc' = pc
          \/ /\ rm[w] = "none" /\ pc[w] # "remove"
             /\ \E p \in Wrap!Points \ {"remove"} : pc' = [pc EXCEPT ![w] = p]
      BY <2>1 DEF Wrap!Start, Wrap!FirstMakeDir, Wrap!SecondMakeDir, Wrap!MakeDir, Wrap!Look,
         Wrap!Own, Wrap!Stamp, Wrap!Spawn, Wrap!BotGone, Wrap!BotEnds, Wrap!Timeout, Wrap!Reap,
         Wrap!WriteStatus, Wrap!Points, Wrap!Taking, Wrap!Running
    <3> QED BY <1>0, <3>1, <3>2
  <2>2. CASE Wrap!Decide(w)
    BY <1>0, <2>2 DEF Wrap!Decide
  <2>3. CASE Wrap!Exit(w)
    BY <1>0, <2>3 DEF Wrap!Exit, Wrap!Cleanup, Wrap!removal
  <2>4. CASE Wrap!Term(w)
    BY <1>0, <2>4 DEF Wrap!Term, Wrap!Cleanup
  <2>5. CASE Wrap!Kill(w)
    BY <1>0, <2>5 DEF Wrap!Kill
  <2>6. CASE Wrap!RmUnlinks(w)
    BY <2>6 DEF Wrap!RmUnlinks
  <2>7. ASSUME NEW done \in BOOLEAN, Wrap!RmEnds(w, done), rm[w] # "none"
        PROVE  Shape'
    <3>1. PICK p \in Wrap!Points :
            /\ pc' = [pc EXCEPT ![w] = p]
            /\ trap[w] = "exit" => p = "gone"
            /\ trap[w] = "none" /\ done => p = "again"
            /\ trap[w] # "exit" /\ ~done => p = "exit" \/ (p = pc[w] /\ pc[w] \in {"spawn", "watch", "reap"})
            /\ trap[w] = "signal" => p \in {"exit", pc[w]}
      BY <2>7, RmEndsAt, Zenon
    <3>2. rm' = [rm EXCEPT ![w] = "none"] /\ trap' = [trap EXCEPT ![w] = "none"]
      BY <2>7, RmEndsAt
    <3>3. p # "remove"
      BY <1>0, <2>7, <3>1
    <3> QED BY <1>0, <3>1, <3>2, <3>3
  <2>8. CASE Wrap!RmLists(w)
    <3>1. CASE dir
      BY <1>0, <2>8, <3>1 DEF Wrap!RmLists
    <3>2. CASE ~dir
      BY <2>7, <2>8, <3>2 DEF Wrap!RmLists
    <3> QED BY <3>1, <3>2
  <2>9. CASE Wrap!RmRemovesDir(w)
    <3> DEFINE empty == pidIn = NoPid /\ ~stamped
    <3>1. Wrap!RmEnds(w, empty) /\ empty \in BOOLEAN /\ rm[w] # "none"
      BY <2>9 DEF Wrap!RmRemovesDir, Wrap!TypeOK
    <3> HIDE DEF empty
    <3> QED BY <2>7, <3>1
  <2> QED
    BY <1>2, <2>1, <2>2, <2>3, <2>4, <2>5, <2>6, <2>8, <2>9 DEF Wrap!Step
<1> QED BY <1>1, <1>2 DEF Wrap!Next

\* Neither an overlap nor a kill is forgotten.
LEMMA LockBefore ==
  ASSUME Wrap!TypeOK, Shape, LockInv, Wrap!Next, "overlap" \notin happened', ~Wrap!Killed'
  PROVE  LockFacts /\ ~Wrap!Killed /\ happened \subseteq happened'
<1> USE DEF Wrap!Go, Wrap!At
<1>1. PICK w \in Wrappers :
        Wrap!Start(w) \/ Wrap!Step(w) \/ Wrap!BotEnds(w) \/ Wrap!Timeout(w) \/ Wrap!Term(w) \/ Wrap!Kill(w)
  BY DEF Wrap!Next
<1>2. pc \in [Wrappers -> Wrap!Points] /\ (rm[w] # "none" => pc[w] # "killed")
  BY DEF Wrap!TypeOK, Shape, Wrap!Alive
<1>3. CASE Wrap!Start(w) \/ Wrap!BotEnds(w) \/ Wrap!Timeout(w) \/ Wrap!Term(w) \/ Wrap!Kill(w)
  <2>1. "overlap" \notin happened /\ happened \subseteq happened'
    BY <1>3 DEF Wrap!Start, Wrap!BotEnds, Wrap!Timeout, Wrap!Term, Wrap!Kill
  <2>2. ~Wrap!Killed
    BY <1>2, <1>3 DEF Wrap!Start, Wrap!BotEnds, Wrap!Timeout, Wrap!Term, Wrap!Kill, Wrap!Killed
  <2> QED BY <2>1, <2>2 DEF LockInv
<1>4. CASE \/ Wrap!FirstMakeDir(w) \/ Wrap!SecondMakeDir(w) \/ Wrap!Look(w) \/ Wrap!Decide(w)
           \/ Wrap!Own(w) \/ Wrap!Stamp(w) \/ Wrap!Spawn(w) \/ Wrap!BotGone(w) \/ Wrap!Reap(w)
           \/ Wrap!WriteStatus(w) \/ Wrap!Exit(w)
  <2>1. "overlap" \notin happened /\ happened \subseteq happened'
    BY <1>4 DEF Wrap!FirstMakeDir, Wrap!SecondMakeDir, Wrap!MakeDir, Wrap!Look, Wrap!Decide, Wrap!Own,
       Wrap!Stamp, Wrap!Spawn, Wrap!BotGone, Wrap!Reap, Wrap!WriteStatus, Wrap!Exit
  <2>2. pc[w] # "killed" /\ \A v \in Wrappers \ {w} : pc'[v] = pc[v]
    BY <1>2, <1>4 DEF Wrap!FirstMakeDir, Wrap!SecondMakeDir, Wrap!MakeDir, Wrap!Look, Wrap!Decide, Wrap!Own,
       Wrap!Stamp, Wrap!Spawn, Wrap!BotGone, Wrap!Reap, Wrap!WriteStatus, Wrap!Exit
  <2> QED BY <2>1, <2>2 DEF Wrap!Killed, LockInv
<1>5. CASE Wrap!RmLists(w) \/ Wrap!RmUnlinks(w) \/ Wrap!RmRemovesDir(w)
  <2>1. "overlap" \notin happened /\ happened \subseteq happened'
    BY <1>5 DEF Wrap!RmLists, Wrap!RmUnlinks, Wrap!RmRemovesDir
  <2>2. \A v \in Wrappers \ {w} : pc'[v] = pc[v]
    BY <1>2, <1>5 DEF Wrap!RmLists, Wrap!RmUnlinks, Wrap!RmRemovesDir, Wrap!RmEnds
  <2>3. pc[w] # "killed"
    BY <1>2, <1>5 DEF Wrap!RmLists, Wrap!RmUnlinks, Wrap!RmRemovesDir
  <2> QED BY <2>1, <2>2, <2>3 DEF Wrap!Killed, LockInv
<1> QED BY <1>1, <1>3, <1>4, <1>5 DEF Wrap!Step

LEMMA LockStep == Wrap!TypeOK /\ Shape /\ LockInv /\ [Wrap!Next]_(Wrap!vars) => LockInv'
<1> SUFFICES ASSUME Wrap!TypeOK, Shape, LockInv, [Wrap!Next]_(Wrap!vars),
                    "overlap" \notin happened', ~Wrap!Killed'
             PROVE  LockFacts'
  BY DEF LockInv
<1> USE WrapAssumption DEF Wrap!Sound, Wrap!Go, Wrap!At
<1>0. /\ rm \in [Wrappers -> {"none", "list", "unlink"}] /\ left \in [Wrappers -> SUBSET Wrap!Files]
      /\ trap \in [Wrappers -> {"none", "signal", "exit"}] /\ pc \in [Wrappers -> Wrap!Points]
      /\ found \in [Wrappers -> Wrap!Pids] /\ dir \in BOOLEAN /\ pidIn \in Wrap!Pids
      /\ stamped \in BOOLEAN /\ (pidIn # NoPid => dir) /\ (stamped => dir)
  BY DEF Wrap!TypeOK
<1>1. CASE UNCHANGED Wrap!vars
  <2>1. "overlap" \notin happened /\ ~Wrap!Killed
    BY <1>1 DEF Wrap!vars, Wrap!Killed
  <2> QED
    BY <1>1, <2>1 DEF LockInv, LockFacts, OneTaker, Knows, Removes, LookedAfter, Clears, Wrap!vars,
       Wrap!lock, Wrap!own, Wrap!removal
<1>2. ASSUME NEW w \in Wrappers,
             Wrap!Start(w) \/ Wrap!Step(w) \/ Wrap!BotEnds(w) \/ Wrap!Timeout(w)
                 \/ Wrap!Term(w) \/ Wrap!Kill(w)
      PROVE LockFacts'
  <2>0. LockFacts
    BY <1>2, LockBefore DEF Wrap!Next
  <2>a. OneTaker /\ (\A v \in Wrappers : Knows(v) /\ Removes(v)) /\ LookedAfter
    BY <2>0 DEF LockFacts
  <2> USE DEF LockFacts, OneTaker, Knows, Removes, LookedAfter, Clears
  <2>1. CASE Wrap!Kill(w)
    BY <1>0, <2>1 DEF Wrap!Kill, Wrap!Killed
  <2>2. CASE Wrap!Start(w)
    <3>1. ~ \E v \in Wrappers : pc[v] \in Wrap!Taking
      BY <2>2 DEF Wrap!Start
    <3>2. /\ pc' = [pc EXCEPT ![w] = "mkdir"] /\ pc[w] = "idle" /\ rm[w] = "none"
          /\ UNCHANGED <<dir, pidIn, stamped, found, rm, left, trap>>
      BY <2>2 DEF Wrap!Start, Wrap!lock, Wrap!own, Wrap!removal
    <3>3. OneTaker'
      BY <1>0, <3>1, <3>2
    <3>4. ASSUME NEW v \in Wrappers PROVE Knows(v)' /\ Removes(v)'
      BY <1>0, <2>a, <3>2 DEF Wrap!Running
    <3>5. LookedAfter'
      BY <1>0, <2>a, <3>2
    <3> QED BY <3>3, <3>4, <3>5
  <2>3. CASE Wrap!FirstMakeDir(w) \/ Wrap!SecondMakeDir(w)
    <3>1. /\ pc[w] \in {"mkdir", "again"} /\ rm[w] = "none" /\ dir'
          /\ \/ ~dir /\ pc' = [pc EXCEPT ![w] = "own"]
             \/ dir /\ pc[w] = "mkdir" /\ pc' = [pc EXCEPT ![w] = "look"]
             \/ dir /\ pc[w] = "again" /\ pc' = [pc EXCEPT ![w] = "exit"]
          /\ UNCHANGED <<pidIn, stamped, found, rm, left, trap>>
      BY <2>3 DEF Wrap!FirstMakeDir, Wrap!SecondMakeDir, Wrap!MakeDir, Wrap!own, Wrap!removal
    <3>2. pc[w] \in Wrap!Taking
      BY <3>1 DEF Wrap!Taking
    <3>3. OneTaker'
      BY <1>0, <2>a, <3>1, <3>2
    <3>4. ASSUME NEW v \in Wrappers PROVE Knows(v)' /\ Removes(v)'
      <4>1. CASE v = w
        BY <1>0, <2>a, <3>1, <4>1 DEF Wrap!Running
      <4>2. CASE v # w
        <5>1. pc'[v] = pc[v] /\ pc[v] \notin Wrap!Taking
          BY <1>0, <2>a, <3>1, <3>2, <4>2
        <5> QED BY <1>0, <2>a, <3>1, <4>2, <5>1 DEF Wrap!Taking
      <4> QED BY <4>1, <4>2
    <3>5. LookedAfter'
      BY <1>0, <2>a, <3>1
    <3> QED BY <3>3, <3>4, <3>5
  <2>4. CASE Wrap!Look(w)
    <3>1. /\ pc[w] = "look" /\ rm[w] = "none" /\ pc' = [pc EXCEPT ![w] = "decide"]
          /\ found' = [found EXCEPT ![w] = pidIn]
          /\ UNCHANGED <<dir, pidIn, stamped, rm, left, trap>>
      BY <2>4 DEF Wrap!Look, Wrap!lock, Wrap!removal
    <3>2. OneTaker'
      BY <1>0, <2>a, <3>1 DEF Wrap!Taking
    <3>3. ASSUME NEW v \in Wrappers PROVE Knows(v)' /\ Removes(v)'
      BY <1>0, <2>a, <3>1 DEF Wrap!Running
    <3>4. LookedAfter'
      BY <1>0, <2>a, <3>1
    <3> QED BY <3>2, <3>3, <3>4
  <2>5. CASE Wrap!Decide(w)
    <3>1. /\ pc[w] = "decide" /\ rm[w] = "none"
          /\ \/ pc' = [pc EXCEPT ![w] = "locked"] /\ rm' = rm
             \/ ~Wrap!Runs(found[w]) /\ pc' = [pc EXCEPT ![w] = "remove"] /\ rm' = [rm EXCEPT ![w] = "list"]
          /\ found' = [found EXCEPT ![w] = NoPid]
          /\ UNCHANGED <<dir, pidIn, stamped, left, trap>>
      BY <2>5 DEF Wrap!Decide, Wrap!lock
    <3>2. OneTaker'
      BY <1>0, <2>a, <3>1 DEF Wrap!Taking
    <3>3. ~Wrap!Runs(found[w]) => pidIn = NoPid
      <4>1. SUFFICES ASSUME ~Wrap!Runs(found[w]), pidIn # NoPid PROVE FALSE
        BY <1>0
      <4>2. pidIn = found[w] /\ pidIn \in Wrappers
        BY <1>0, <2>a, <3>1, <4>1 DEF Wrap!Pids
      <4>3. pc[pidIn] \in {"stamp", "exit"} \cup Wrap!Running
        BY <2>a, <4>2
      <4> QED BY <4>1, <4>2, <4>3 DEF Wrap!Runs, Wrap!Alive, Wrap!Running
    <3>4. trap[w] = "none" /\ pidIn # w
      BY <1>0, <2>a, <3>1 DEF Shape, Wrap!Running
    <3>5. ASSUME NEW v \in Wrappers PROVE Knows(v)' /\ Removes(v)'
      BY <1>0, <2>a, <3>1, <3>3, <3>4 DEF Wrap!Running
    <3>6. LookedAfter'
      BY <1>0, <2>a, <3>1
    <3> QED BY <3>2, <3>5, <3>6
  <2>6. CASE Wrap!Own(w)
    <3>1. /\ pc[w] = "own" /\ rm[w] = "none"
          /\ \/ dir /\ pc' = [pc EXCEPT ![w] = "stamp"] /\ pidIn' = w
             \/ ~dir /\ pc' = [pc EXCEPT ![w] = "exit"] /\ pidIn' = pidIn
          /\ UNCHANGED <<dir, stamped, found, rm, left, trap>>
      BY <2>6 DEF Wrap!Own, Wrap!own, Wrap!removal
    <3>2. pc[w] \in Wrap!Taking /\ pidIn = NoPid /\ w # NoPid
      BY <1>0, <2>a, <3>1 DEF Wrap!Taking
    <3>3. OneTaker'
      BY <1>0, <2>a, <3>1 DEF Wrap!Taking
    <3>4. ASSUME NEW v \in Wrappers PROVE Knows(v)' /\ Removes(v)'
      <4>1. CASE v = w
        BY <1>0, <2>a, <3>1, <3>2, <4>1 DEF Wrap!Running
      <4>2. CASE v # w
        <5>1. pc'[v] = pc[v] /\ pc[v] \notin Wrap!Taking
          BY <1>0, <2>a, <3>1, <3>2, <4>2
        <5>2. rm[v] = "list" => trap[v] = "none"
          BY <1>0, <2>a, <3>2, <4>2
        <5>3. rm[v] # "none" => trap[v] # "none"
          BY <5>1 DEF Shape, Wrap!Taking
        <5> QED BY <1>0, <2>a, <3>1, <3>2, <4>2, <5>1, <5>2, <5>3 DEF Wrap!Taking
      <4> QED BY <4>1, <4>2
    <3>5. LookedAfter'
      BY <1>0, <2>a, <3>1, <3>2
    <3> QED BY <3>3, <3>4, <3>5
  <2>7. CASE Wrap!Stamp(w)
    <3>1. /\ pc[w] = "stamp" /\ rm[w] = "none"
          /\ \/ dir /\ pc' = [pc EXCEPT ![w] = "spawn"] /\ stamped'
             \/ ~dir /\ pc' = [pc EXCEPT ![w] = "exit"] /\ stamped' = stamped
          /\ UNCHANGED <<dir, pidIn, found, rm, left, trap>>
      BY <2>7 DEF Wrap!Stamp, Wrap!own, Wrap!removal
    <3>2. dir => pidIn = w
      BY <2>a, <3>1
    <3>3. OneTaker'
      BY <1>0, <2>a, <3>1 DEF Wrap!Taking
    <3>4. ASSUME NEW v \in Wrappers PROVE Knows(v)' /\ Removes(v)'
      <4>1. CASE v = w
        BY <1>0, <2>a, <3>1, <3>2, <4>1 DEF Wrap!Running
      <4>2. CASE v # w
        <5>1. pc'[v] = pc[v] /\ pc[v] # "remove" /\ pidIn # v
          BY <1>0, <2>a, <3>1, <3>2, <4>2 DEF Wrap!Taking
        <5> QED BY <1>0, <2>a, <3>1, <3>2, <4>2, <5>1
      <4> QED BY <4>1, <4>2
    <3>5. LookedAfter'
      BY <1>0, <2>a, <3>1, <3>2
    <3> QED BY <3>3, <3>4, <3>5
  <2>8. CASE \/ Wrap!Spawn(w) \/ Wrap!BotGone(w) \/ Wrap!Reap(w) \/ Wrap!WriteStatus(w) \/ Wrap!BotEnds(w)
             \/ Wrap!Timeout(w)
    <3>1. UNCHANGED <<dir, pidIn, stamped, found, rm, left, trap>>
      BY <2>8 DEF Wrap!Spawn, Wrap!BotGone, Wrap!Reap, Wrap!WriteStatus, Wrap!BotEnds, Wrap!Timeout,
         Wrap!lock, Wrap!own, Wrap!removal
    <3>2. \/ pc' = pc
          \/ /\ pc[w] \in Wrap!Running \cup {"locked"} /\ rm[w] = "none"
             /\ \E p \in Wrap!Running \cup {"exit"} : pc' = [pc EXCEPT ![w] = p]
      BY <2>8 DEF Wrap!Spawn, Wrap!BotGone, Wrap!Reap, Wrap!WriteStatus, Wrap!BotEnds, Wrap!Timeout,
         Wrap!Running
    <3>3. CASE pc' = pc
      BY <2>a, <3>1, <3>3
    <3>4. ASSUME NEW p \in Wrap!Running \cup {"exit"}, pc' = [pc EXCEPT ![w] = p],
                 pc[w] \in Wrap!Running \cup {"locked"}, rm[w] = "none"
          PROVE  LockFacts'
      <4>1. p \notin Wrap!Taking /\ p \notin {"decide", "remove", "again", "own", "stamp"}
        BY <3>4 DEF Wrap!Running, Wrap!Taking
      <4>2. OneTaker'
        BY <1>0, <2>a, <3>4, <4>1
      <4>3. ASSUME NEW v \in Wrappers PROVE Knows(v)' /\ Removes(v)'
        <5>1. CASE v = w
          BY <1>0, <2>a, <3>1, <3>4, <4>1, <5>1
        <5>2. CASE v # w
          BY <1>0, <2>a, <3>1, <3>4, <5>2
        <5> QED BY <5>1, <5>2
      <4>4. pc[w] \notin {"own", "remove"}
        BY <3>4 DEF Wrap!Running
      <4>5. LookedAfter'
        BY <1>0, <2>a, <3>1, <3>4, <4>4
      <4> QED BY <4>2, <4>3, <4>5
    <3> QED BY <3>2, <3>3, <3>4
  <2>9. CASE Wrap!Exit(w)
    <3>1. /\ pc[w] = "exit" /\ rm[w] = "none"
          /\ \/ /\ pidIn = w /\ pc' = pc /\ rm' = [rm EXCEPT ![w] = "list"]
                /\ trap' = [trap EXCEPT ![w] = "exit"] /\ left' = left
             \/ pidIn # w /\ pc' = [pc EXCEPT ![w] = "gone"] /\ UNCHANGED <<rm, trap, left>>
          /\ UNCHANGED <<dir, pidIn, stamped, found>>
      BY <2>9 DEF Wrap!Exit, Wrap!Mine, Wrap!Cleanup, Wrap!lock, Wrap!own, Wrap!removal
    <3>2. OneTaker'
      BY <1>0, <2>a, <3>1 DEF Wrap!Taking
    <3>3. ASSUME NEW v \in Wrappers PROVE Knows(v)' /\ Removes(v)'
      <4>1. CASE pidIn = w
        BY <1>0, <2>a, <3>1, <4>1
      <4>2. CASE pidIn # w /\ v = w
        BY <1>0, <2>a, <3>1, <4>2 DEF Wrap!Running, Shape
      <4>3. CASE pidIn # w /\ v # w
        BY <1>0, <2>a, <3>1, <4>3
      <4> QED BY <4>1, <4>2, <4>3
    <3>4. LookedAfter'
      BY <1>0, <2>a, <3>1
    <3> QED BY <3>2, <3>3, <3>4
  <2>10. CASE Wrap!Term(w)
    <3>1. /\ rm[w] = "none" /\ pidIn = w /\ rm' = [rm EXCEPT ![w] = "list"]
          /\ trap' = [trap EXCEPT ![w] = "signal"]
          /\ UNCHANGED <<dir, pidIn, stamped, found, pc, left>>
      BY <2>10 DEF Wrap!Term, Wrap!Mine, Wrap!Cleanup, Wrap!lock, Wrap!own
    <3>2. OneTaker' /\ LookedAfter'
      BY <1>0, <2>a, <3>1
    <3>3. ASSUME NEW v \in Wrappers PROVE Knows(v)' /\ Removes(v)'
      BY <1>0, <2>a, <3>1
    <3> QED BY <3>2, <3>3
  <2>11. CASE Wrap!RmLists(w) /\ dir
    <3>1. /\ rm[w] = "list" /\ left' = [left EXCEPT ![w] = Wrap!Listing] /\ rm' = [rm EXCEPT ![w] = "unlink"]
          /\ UNCHANGED <<dir, pidIn, stamped, found, pc, trap>>
      BY <2>11 DEF Wrap!RmLists, Wrap!lock, Wrap!own
    <3>2. /\ "pid" \in Wrap!Listing <=> pidIn # NoPid
          /\ "started_at" \in Wrap!Listing <=> stamped
      BY DEF Wrap!Listing, Wrap!Files
    <3>3. trap[w] = "none" => pc[w] = "remove"
      BY <3>1 DEF Shape
    <3>4. OneTaker' /\ LookedAfter'
      BY <1>0, <2>a, <3>1, <3>2
    <3>5. ASSUME NEW v \in Wrappers PROVE Knows(v)' /\ Removes(v)'
      BY <1>0, <2>a, <3>1, <3>2, <3>3
    <3> QED BY <3>4, <3>5
  <2>12. CASE Wrap!RmUnlinks(w)
    <3>1. PICK f \in left[w] :
            /\ rm[w] = "unlink" /\ left' = [left EXCEPT ![w] = @ \ {f}]
            /\ pidIn' = IF f = "pid" THEN NoPid ELSE pidIn
            /\ stamped' = (stamped /\ f = "pid")
            /\ UNCHANGED <<dir, found, pc, rm, trap>>
      BY <2>12 DEF Wrap!RmUnlinks, Wrap!own
    <3>2. f \in {"pid", "started_at"}
      BY <1>0, <3>1 DEF Wrap!Files
    <3>3. OneTaker'
      BY <2>a, <3>1
    <3>4. f = "pid" => pidIn = w /\ Clears(w)
      BY <1>0, <2>a, <3>1
    <3>5. ASSUME NEW v \in Wrappers PROVE Knows(v)' /\ Removes(v)'
      <4>1. CASE f = "pid"
        BY <1>0, <2>a, <3>1, <3>4, <4>1
      <4>2. CASE f = "started_at"
        BY <1>0, <2>a, <3>1, <4>2
      <4> QED BY <3>2, <4>1, <4>2
    <3>6. LookedAfter'
      <4>1. CASE f = "pid"
        BY <1>0, <3>1, <3>4, <4>1
      <4>2. CASE f = "started_at"
        BY <1>0, <2>a, <3>1, <4>2
      <4> QED BY <3>2, <4>1, <4>2
    <3> QED BY <3>3, <3>5, <3>6
  <2>13. ASSUME NEW done \in BOOLEAN, Wrap!RmEnds(w, done), rm[w] # "none",
                UNCHANGED <<pidIn, stamped, found>>, dir' = (dir /\ ~done),
                done => pidIn = NoPid /\ ~stamped,
                ~done => rm[w] = "unlink" /\ left[w] = {} /\ (pidIn # NoPid \/ stamped)
         PROVE  LockFacts'
    <3>1. PICK p \in Wrap!Points :
            /\ pc' = [pc EXCEPT ![w] = p]
            /\ trap[w] = "exit" => p = "gone"
            /\ trap[w] = "none" /\ done => p = "again"
            /\ trap[w] # "exit" /\ ~done => p = "exit" \/ (p = pc[w] /\ pc[w] \in {"spawn", "watch", "reap"})
            /\ trap[w] = "signal" => p \in {"exit", pc[w]}
      BY <2>13, RmEndsAt, Zenon
    <3>2. rm' = [rm EXCEPT ![w] = "none"] /\ trap' = [trap EXCEPT ![w] = "none"] /\ left' = left
      BY <2>13, RmEndsAt
    <3>3. /\ trap[w] \in {"none", "signal", "exit"}
          /\ trap[w] = "none" <=> pc[w] = "remove"
          /\ trap[w] = "exit" => pc[w] = "exit"
      BY <1>0, <2>13 DEF Shape
    <3>4. pidIn # w /\ (trap[w] = "signal" => pc[w] \in {"stamp", "exit"} \cup Wrap!Running)
      BY <1>0, <2>a, <2>13
    <3>5. pc'[w] = p /\ \A v \in Wrappers \ {w} : pc'[v] = pc[v]
      BY <1>0, <3>1
    <3>6. p \in Wrap!Taking => pc[w] \in Wrap!Taking
      BY <3>1, <3>3 DEF Wrap!Taking
    <3>7. OneTaker'
      BY <2>a, <3>5, <3>6
    <3>8. p \in {"exit", "gone", "again", "stamp"} \cup Wrap!Running
      BY <3>1, <3>3, <3>4
    <3>9. (p = "again" => pidIn = NoPid) /\ (p \in {"again", "stamp"} => done)
      BY <2>a, <3>1, <3>3 DEF Wrap!Running
    <3>10. ASSUME NEW v \in Wrappers PROVE Knows(v)' /\ Removes(v)'
      <4>1. CASE v = w
        BY <1>0, <2>13, <3>2, <3>4, <3>5, <3>8, <3>9, <4>1 DEF Wrap!Running
      <4>2. CASE v # w
        BY <1>0, <2>a, <2>13, <3>2, <3>5, <4>2
      <4> QED BY <4>1, <4>2
    <3>11. LookedAfter'
      <4>1. CASE done
        BY <2>13, <4>1
      <4>2. SUFFICES ASSUME ~done, dir, pidIn = NoPid
                     PROVE  \E v \in Wrappers : pc'[v] \in {"own", "remove"} \/ Clears(v)'
        BY <2>13, <4>1
      <4>3. PICK v \in Wrappers : pc[v] \in {"own", "remove"} \/ Clears(v)
        BY <2>a, <4>2
      <4>4. ~Clears(w) /\ pc[w] \notin {"own", "remove"}
        BY <2>a, <2>13, <3>3, <3>4, <4>2 DEF Wrap!Running
      <4>5. v # w
        BY <4>3, <4>4
      <4> QED BY <1>0, <2>13, <3>2, <3>5, <4>3, <4>5
    <3> QED BY <3>7, <3>10, <3>11
  <2>14. CASE Wrap!RmLists(w) /\ ~dir
    <3>1. /\ Wrap!RmEnds(w, TRUE) /\ rm[w] # "none" /\ dir' = dir
          /\ UNCHANGED <<pidIn, stamped, found>>
      BY <2>14 DEF Wrap!RmLists, Wrap!lock, Wrap!own
    <3> QED BY <1>0, <2>13, <2>14, <3>1
  <2>15. CASE Wrap!RmRemovesDir(w)
    <3> DEFINE empty == pidIn = NoPid /\ ~stamped
    <3>1. /\ Wrap!RmEnds(w, empty) /\ dir' = (dir /\ ~empty) /\ empty \in BOOLEAN
          /\ rm[w] = "unlink" /\ left[w] = {} /\ UNCHANGED <<pidIn, stamped, found>>
      BY <2>15 DEF Wrap!RmRemovesDir, Wrap!own
    <3>2. (empty => pidIn = NoPid /\ ~stamped) /\ (~empty => pidIn # NoPid \/ stamped)
      OBVIOUS
    <3> HIDE DEF empty
    <3> QED BY <2>13, <3>1, <3>2
  <2> QED
    BY <1>2, <2>1, <2>2, <2>3, <2>4, <2>5, <2>6, <2>7, <2>8, <2>9, <2>10, <2>11, <2>12, <2>14, <2>15
       DEF Wrap!Step
<1> QED BY <1>1, <1>2 DEF Wrap!Next

\* Whatever signals come, and whatever rm is at work, once all wrappers have ended and
\* none was killed no lock is left, unless two were taking it at once: while it is
\* there it has the pid of somebody who will remove it, or somebody has still to write
\* or to remove it (cleanup, lines 56-61).
THEOREM LockFreed == WrapSpec => []LockIsFreed
<1>1. Wrap!Init => Wrap!TypeOK /\ Shape /\ LockInv
  BY WrapTypeInit, LockInit
<1>2. Wrap!TypeOK /\ Shape /\ LockInv /\ [Wrap!Next]_(Wrap!vars) => (Wrap!TypeOK /\ Shape /\ LockInv)'
  BY WrapTypeStep, ShapeStep, LockStep
<1>3. Wrap!TypeOK /\ Shape /\ LockInv => LockIsFreed
  <2> SUFFICES ASSUME Wrap!TypeOK, Shape, LockInv, "overlap" \notin happened,
                      \A w \in Wrappers : pc[w] \in {"idle", "gone"}, dir
               PROVE  FALSE
    BY DEF LockIsFreed, Wrap!LockIsFreed
  <2>1. ~Wrap!Killed
    BY DEF Wrap!Killed
  <2>2. (\A w \in Wrappers : Knows(w)) /\ LookedAfter
    BY <2>1 DEF LockInv, LockFacts
  <2>3. CASE pidIn = NoPid
    <3>1. PICK w \in Wrappers : pc[w] \in {"own", "remove"} \/ Clears(w)
      BY <2>2, <2>3 DEF LookedAfter
    <3>2. rm[w] # "none" => Wrap!Alive(w)
      BY DEF Shape
    <3> QED BY <3>1, <3>2 DEF Clears, Wrap!Alive
  <2>4. CASE pidIn # NoPid
    <3>1. pidIn \in Wrappers
      BY <2>4 DEF Wrap!TypeOK, Wrap!Pids
    <3>2. pc[pidIn] \in {"stamp", "exit"} \cup Wrap!Running
      BY <2>2, <3>1 DEF Knows
    <3> QED BY <3>1, <3>2 DEF Wrap!Running
  <2> QED BY <2>3, <2>4
<1> QED BY <1>1, <1>2, <1>3, PTL DEF WrapSpec, Wrap!Spec

----------------------------------------------------------------------------
(* StatsWrapper: one bot at a time.                                        *)

\* Undisturbed, a wrapper runs the bot with its pid in the lock, and no handler frees
\* that under it.
HoldsToRun ==
  happened = {} /\ ~Wrap!Killed =>
    \A w \in Wrappers : /\ pc[w] \in Wrap!Running => pidIn = w
                        /\ bot[w] = "running" => pc[w] = "watch"
                        /\ trap[w] # "signal"

LEMMA HoldsStep ==
  Wrap!TypeOK /\ Shape /\ LockInv /\ HoldsToRun /\ [Wrap!Next]_(Wrap!vars) => HoldsToRun'
<1> SUFFICES ASSUME Wrap!TypeOK, Shape, LockInv, HoldsToRun, [Wrap!Next]_(Wrap!vars),
                    happened' = {}, ~Wrap!Killed', NEW v \in Wrappers
             PROVE  /\ pc'[v] \in Wrap!Running => pidIn' = v
                    /\ bot'[v] = "running" => pc'[v] = "watch"
                    /\ trap'[v] # "signal"
  BY DEF HoldsToRun
<1> USE WrapAssumption DEF Wrap!Sound, Wrap!Go, Wrap!At
<1>0. /\ rm \in [Wrappers -> {"none", "list", "unlink"}] /\ left \in [Wrappers -> SUBSET Wrap!Files]
      /\ trap \in [Wrappers -> {"none", "signal", "exit"}] /\ pc \in [Wrappers -> Wrap!Points]
      /\ bot \in [Wrappers -> {"none", "running", "ended"}] /\ pidIn \in Wrap!Pids
      /\ (pidIn # NoPid => dir) /\ happened \subseteq {"overlap", "term"}
  BY DEF Wrap!TypeOK
<1>1. CASE UNCHANGED Wrap!vars
  <2>1. happened = {} /\ ~Wrap!Killed
    BY <1>1 DEF Wrap!vars, Wrap!Killed
  <2> QED BY <1>1, <2>1 DEF HoldsToRun, Wrap!vars, Wrap!lock, Wrap!own, Wrap!removal
<1>2. ASSUME NEW w \in Wrappers,
             Wrap!Start(w) \/ Wrap!Step(w) \/ Wrap!BotEnds(w) \/ Wrap!Timeout(w)
                 \/ Wrap!Term(w) \/ Wrap!Kill(w)
      PROVE  /\ pc'[v] \in Wrap!Running => pidIn' = v
             /\ bot'[v] = "running" => pc'[v] = "watch"
             /\ trap'[v] # "signal"
  <2>0. (\A u \in Wrappers : Knows(u) /\ Removes(u)) /\ ~Wrap!Killed /\ happened = {}
    BY <1>2, LockBefore DEF LockFacts, Wrap!Next
  <2>a. \A u \in Wrappers : /\ pc[u] \in Wrap!Running => pidIn = u
                            /\ bot[u] = "running" => pc[u] = "watch"
                            /\ trap[u] # "signal"
    BY <2>0 DEF HoldsToRun
  <2>1. CASE Wrap!Kill(w)
    BY <1>0, <2>1 DEF Wrap!Kill, Wrap!Killed
  <2>2. CASE Wrap!Term(w)
    BY <2>2 DEF Wrap!Term
  <2>3. CASE \/ Wrap!Start(w) \/ Wrap!FirstMakeDir(w) \/ Wrap!SecondMakeDir(w) \/ Wrap!Look(w)
             \/ Wrap!Decide(w)
    <3>1. /\ UNCHANGED <<pidIn, bot, trap>> /\ pc[w] # "watch"
          /\ \E p \in {"mkdir", "own", "look", "exit", "decide", "locked", "remove"} :
               pc' = [pc EXCEPT ![w] = p]
      BY <2>3 DEF Wrap!Start, Wrap!FirstMakeDir, Wrap!SecondMakeDir, Wrap!MakeDir, Wrap!Look, Wrap!Decide,
         Wrap!lock, Wrap!own, Wrap!removal
    <3> QED BY <1>0, <2>a, <3>1 DEF Wrap!Running
  <2>4. CASE Wrap!Own(w)
    <3>1. /\ pc[w] = "own" /\ UNCHANGED <<bot, trap>> /\ (pidIn' = w \/ pidIn' = pidIn)
          /\ \E p \in {"stamp", "exit"} : pc' = [pc EXCEPT ![w] = p]
      BY <2>4 DEF Wrap!Own, Wrap!own, Wrap!removal
    <3>2. pidIn = NoPid
      BY <2>0, <3>1 DEF Knows
    <3> QED BY <1>0, <2>a, <3>1, <3>2 DEF Wrap!Running
  <2>5. CASE Wrap!Stamp(w)
    <3>1. /\ pc[w] = "stamp" /\ rm[w] = "none" /\ UNCHANGED <<pidIn, bot, trap>>
          /\ \/ dir /\ pc' = [pc EXCEPT ![w] = "spawn"]
             \/ pc' = [pc EXCEPT ![w] = "exit"]
      BY <2>5 DEF Wrap!Stamp, Wrap!own, Wrap!removal
    <3>2. dir => pidIn = w
      BY <2>0, <3>1 DEF Knows
    <3> QED BY <1>0, <2>a, <3>1, <3>2 DEF Wrap!Running
  <2>6. CASE Wrap!Spawn(w) \/ Wrap!BotGone(w) \/ Wrap!Reap(w) \/ Wrap!BotEnds(w) \/ Wrap!Timeout(w)
    <3>1. /\ UNCHANGED <<pidIn, trap>> /\ \A u \in Wrappers \ {w} : pc'[u] = pc[u] /\ bot'[u] = bot[u]
      BY <1>0, <2>6 DEF Wrap!Spawn, Wrap!BotGone, Wrap!Reap, Wrap!BotEnds, Wrap!Timeout, Wrap!lock,
         Wrap!own, Wrap!removal
    <3>2. /\ pc[w] \in Wrap!Running \/ pc' = pc
          /\ bot'[w] = "running" => pc'[w] = "watch"
      BY <1>0, <2>a, <2>6 DEF Wrap!Spawn, Wrap!BotGone, Wrap!Reap, Wrap!BotEnds, Wrap!Timeout, Wrap!own,
         Wrap!Running, Wrap!Stopped
    <3> QED BY <2>a, <3>1, <3>2
  <2>7. CASE Wrap!WriteStatus(w)
    <3>1. pc[w] \in {"status", "locked"} /\ pc' = [pc EXCEPT ![w] = "exit"] /\ UNCHANGED <<pidIn, bot, trap>>
      BY <2>7 DEF Wrap!WriteStatus, Wrap!lock, Wrap!own, Wrap!removal
    <3> QED BY <1>0, <2>a, <3>1 DEF Wrap!Running
  <2>8. CASE Wrap!Exit(w)
    <3>1. /\ pc[w] = "exit" /\ (pc' = pc \/ pc' = [pc EXCEPT ![w] = "gone"]) /\ UNCHANGED <<pidIn, bot>>
          /\ trap' = trap \/ trap' = [trap EXCEPT ![w] = "exit"]
      BY <2>8 DEF Wrap!Exit, Wrap!Cleanup, Wrap!lock, Wrap!own, Wrap!removal
    <3> QED BY <1>0, <2>a, <3>1 DEF Wrap!Running
  <2>9. CASE Wrap!RmLists(w) /\ dir
    <3>1. UNCHANGED <<pidIn, bot, trap, pc>>
      BY <2>9 DEF Wrap!RmLists, Wrap!lock, Wrap!own
    <3> QED BY <2>a, <3>1
  <2>10. rm[w] # "none" => pc[w] \in {"remove", "exit"}
    BY <1>0, <2>a DEF Shape
  <2>11. CASE Wrap!RmUnlinks(w)
    <3>1. PICK f \in left[w] : pidIn' = IF f = "pid" THEN NoPid ELSE pidIn
      BY <2>11 DEF Wrap!RmUnlinks
    <3>2. rm[w] = "unlink" /\ UNCHANGED <<bot, trap, pc>>
      BY <2>11 DEF Wrap!RmUnlinks, Wrap!own
    <3>3. f = "pid" => pidIn = w /\ pc[w] \notin Wrap!Running
      BY <2>0, <2>10, <3>1, <3>2 DEF Removes, Wrap!Running
    <3> QED BY <2>a, <3>1, <3>2, <3>3
  <2>12. ASSUME NEW done \in BOOLEAN, Wrap!RmEnds(w, done), rm[w] # "none", UNCHANGED <<pidIn, bot>>
         PROVE  /\ pc'[v] \in Wrap!Running => pidIn' = v
                /\ bot'[v] = "running" => pc'[v] = "watch"
                /\ trap'[v] # "signal"
    <3>1. PICK p \in Wrap!Points :
            /\ pc' = [pc EXCEPT ![w] = p]
            /\ trap[w] = "exit" => p = "gone"
            /\ trap[w] = "none" /\ done => p = "again"
            /\ trap[w] # "exit" /\ ~done => p = "exit" \/ (p = pc[w] /\ pc[w] \in {"spawn", "watch", "reap"})
      BY <2>12, RmEndsAt, Zenon
    <3>2. p \notin Wrap!Running /\ pc[w] # "watch"
      BY <1>0, <2>a, <2>10, <2>12, <3>1 DEF Wrap!Running
    <3>3. trap' = [trap EXCEPT ![w] = "none"]
      BY <2>12, RmEndsAt
    <3> QED BY <1>0, <2>a, <2>12, <3>1, <3>2, <3>3
  <2>13. CASE Wrap!RmLists(w) /\ ~dir
    BY <2>12, <2>13 DEF Wrap!RmLists, Wrap!lock, Wrap!own
  <2>14. CASE Wrap!RmRemovesDir(w)
    <3> DEFINE empty == pidIn = NoPid /\ ~stamped
    <3>1. Wrap!RmEnds(w, empty) /\ empty \in BOOLEAN /\ rm[w] # "none" /\ UNCHANGED <<pidIn, bot>>
      BY <2>14 DEF Wrap!RmRemovesDir, Wrap!own
    <3> HIDE DEF empty
    <3> QED BY <2>12, <3>1
  <2> QED
    BY <1>2, <2>1, <2>2, <2>3, <2>4, <2>5, <2>6, <2>7, <2>8, <2>9, <2>11, <2>13, <2>14 DEF Wrap!Step
<1> QED BY <1>1, <1>2 DEF Wrap!Next

\* No two bots run together, whoever comes and goes and finds the lock taken
\* meanwhile, unless two were taking the lock at once, a holder got a signal or one
\* was killed: the bot of a wrapper runs only while the pid in the lock is its own
\* (lines 56-84).
THEOREM OneBotAtATime == WrapSpec => []OneBot
<1>1. Wrap!Init => Wrap!TypeOK /\ Shape /\ LockInv /\ HoldsToRun
  <2>1. Wrap!Init => HoldsToRun
    BY DEF Wrap!Init, HoldsToRun, Wrap!Running
  <2> QED BY <2>1, WrapTypeInit, LockInit
<1>2. Wrap!TypeOK /\ Shape /\ LockInv /\ HoldsToRun /\ [Wrap!Next]_(Wrap!vars)
        => (Wrap!TypeOK /\ Shape /\ LockInv /\ HoldsToRun)'
  BY WrapTypeStep, ShapeStep, LockStep, HoldsStep
<1>3. HoldsToRun => OneBot
  BY DEF HoldsToRun, OneBot, Wrap!OneBot, Wrap!Running
<1> QED BY <1>1, <1>2, <1>3, PTL DEF WrapSpec, Wrap!Spec

============================================================================
