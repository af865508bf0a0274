-------------------------- MODULE PostLiker_proofs --------------------------
(***************************************************************************)
(* Theorems about PostLiker: the day's target, that the status files tell  *)
(* no more than what happened, and that nothing is taken away, for any     *)
(* feed, authors, targets, rounds and stops.                               *)
(***************************************************************************)
EXTENDS PostLiker, FiniteSetTheorems, WellFoundedInduction, TLAPS

----------------------------------------------------------------------------
(* The feed.                                                               *)

LEMMA PostsAreNumbers ==
  /\ Cardinality(Posts) \in Nat /\ Posts = 1..Cardinality(Posts) /\ NoPost \notin Posts
  /\ \A n \in 0..Cardinality(Posts) : n \in Urls /\ 1..n \subseteq Posts
BY FeedAssumption, FS_CardinalityType DEF Urls, NoUrl, NoPost

\* The first of some posts.
LEMMA FirstPost ==
  ASSUME NEW S \in SUBSET Posts, S # {}
  PROVE  Min(S) \in S /\ \A q \in S : Min(S) <= q
<1>1. S \subseteq Nat
  BY PostsAreNumbers
<1>2. PICK m \in S : \A q \in S : <<q, m>> \notin OpToRel(<, Nat)
  BY <1>1, NatLessThanWellFounded, WFMin
<1>3. \A q \in S : m <= q
  <2>1. \A q \in S : <<q, m>> \in Nat \X Nat /\ <<q, m>>[1] = q /\ <<q, m>>[2] = m
    BY <1>1
  <2>2. \A q \in S : ~(q < m)
    BY <1>2, <2>1 DEF OpToRel
  <2> QED BY <1>1, <2>2
<1> QED BY <1>3 DEF Min

LEMMA KeyType ==
  ASSUME NEW p \in Posts PROVE Key(p) \in Posts \X {"href", "menu"}
<1>1. Min({q \in Posts : AuthorOf[q] = AuthorOf[p]}) \in Posts
  BY FirstPost
<1> QED BY <1>1 DEF Key

\* The button that is hit is a post's in the DOM whose menu matches.
LEMMA HitType ==
  ASSUME TypeOK, NEW p \in 1..run.loaded
  PROVE  Hit(p) \in 1..run.loaded /\ Matches(Hit(p), p) /\ Hit(p) <= p
<1>1. run.loaded \in Urls
  BY DEF TypeOK, Run
<1>2. 1..run.loaded \subseteq Posts
  BY <1>1, PostsAreNumbers DEF Urls, NoUrl
<1>3. /\ {q \in 1..run.loaded : Matches(q, p)} \in SUBSET Posts
      /\ p \in {q \in 1..run.loaded : Matches(q, p)}
  BY <1>2 DEF Matches
<1>4. /\ Hit(p) \in {q \in 1..run.loaded : Matches(q, p)}
      /\ \A q \in {q \in 1..run.loaded : Matches(q, p)} : Hit(p) <= q
  <2> DEFINE S == {q \in 1..run.loaded : Matches(q, p)}
  <2>1. Hit(p) = Min(S)
    BY DEF Hit
  <2> HIDE DEF S
  <2> QED BY <1>3, <2>1, FirstPost DEF S
<1> QED BY <1>3, <1>4

----------------------------------------------------------------------------
(* Types, and the post in hand.                                            *)

InHand == {"pick", "click", "clicked"}
Fresh == {"idle", "loop", "start", "open"}
Started == {"open", "scan", "post", "verify"} \cup InHand

\* The posts of a round and the post in hand are in the DOM; while a post is in hand
\* there is room for its entry, and once a click is due it is clear for what
\* reaction; what is verified was entered; a run that has not begun has no entries.
Cursor ==
  /\ pc \in Fresh => run.liked = {} /\ run.todo = {}
  /\ run.todo \subseteq 1..run.loaded
  /\ pc \in InHand => run.cur \in 1..run.loaded /\ Cardinality(run.liked) < run.max
  /\ pc \in {"click", "clicked"} => run.want # "none"
  /\ IsFiniteSet(run.liked)
  /\ run.unverified \subseteq run.liked /\ run.verified \subseteq run.liked

TypeInv == TypeOK /\ Cursor

LEMMA NewRunType ==
  ASSUME NEW n \in Nat, local \in Day PROVE NewRun(n) \in Run
<1>1. {} \in SUBSET Entry /\ {} \in SUBSET (Posts \X {"href", "menu"})
  OBVIOUS
<1> QED BY <1>1 DEF NewRun, Run, Reactions, Urls, NoUrl

LEMMA NewRunCursor ==
  ASSUME NEW n \in Nat, run' = NewRun(n), pc' \notin InHand
  PROVE  Cursor' /\ Cardinality(run'.liked) <= run'.max
<1>1. /\ run'.todo = {} /\ run'.liked = {} /\ run'.unverified = {} /\ run'.verified = {}
      /\ run'.max = n
  BY DEF NewRun
<1> QED BY <1>1, FS_EmptySet DEF Cursor, InHand, Fresh

\* A run with one field changed.
LEMMA NumberUpdate ==
  ASSUME NEW r \in Run, NEW v \in Nat
  PROVE  [r EXCEPT !.max = v] \in Run /\ [r EXCEPT !.rounds = v] \in Run /\ [r EXCEPT !.pos = v] \in Run
BY DEF Run

LEMMA UrlUpdate ==
  ASSUME NEW r \in Run, NEW v \in Urls
  PROVE  [r EXCEPT !.loaded = v] \in Run /\ [r EXCEPT !.url = v] \in Run
BY DEF Run

LEMMA SetUpdate ==
  ASSUME NEW r \in Run, NEW v \in SUBSET Posts
  PROVE  [r EXCEPT !.todo = v] \in Run /\ [r EXCEPT !.urls = v] \in Run
<1> DEFINE Sets == SUBSET Posts
<1>0. Run = [max : Nat, dir : Day, rounds : Nat, loaded : Urls, todo : Sets,
             snap : [Posts -> Reactions], pos : Nat, keys : SUBSET (Posts \X {"href", "menu"}),
             urls : Sets, moved : BOOLEAN, cur : Posts \cup {NoPost}, url : Urls,
             want : Reactions, label : Reactions, liked : SUBSET Entry,
             unverified : SUBSET Entry, verified : SUBSET Entry,
             stop : {"none", "blocked", "login"}, code : {0, 2, 12, 14}]
  BY DEF Run
<1>1. v \in Sets
  OBVIOUS
<1> HIDE DEF Sets
<1> QED BY <1>0, <1>1

LEMMA SnapUpdate ==
  ASSUME NEW r \in Run, NEW v \in [Posts -> Reactions] PROVE [r EXCEPT !.snap = v] \in Run
BY DEF Run

LEMMA KeysUpdate ==
  ASSUME NEW r \in Run, NEW v \in SUBSET (Posts \X {"href", "menu"})
  PROVE  [r EXCEPT !.keys = v] \in Run
BY DEF Run

LEMMA FlagUpdate ==
  ASSUME NEW r \in Run, NEW v \in BOOLEAN PROVE [r EXCEPT !.moved = v] \in Run
BY DEF Run

LEMMA PostUpdate ==
  ASSUME NEW r \in Run, NEW v \in Posts PROVE [r EXCEPT !.cur = v] \in Run
BY DEF Run

LEMMA KindUpdate ==
  ASSUME NEW r \in Run, NEW v \in Reactions
  PROVE  [r EXCEPT !.want = v] \in Run /\ [r EXCEPT !.label = v] \in Run
BY DEF Run

LEMMA EntriesUpdate ==
  ASSUME NEW r \in Run, NEW v \in SUBSET Entry
  PROVE  /\ [r EXCEPT !.liked = v] \in Run /\ [r EXCEPT !.unverified = v] \in Run
         /\ [r EXCEPT !.verified = v] \in Run
<1> DEFINE Lists == SUBSET Entry
<1>0. Run = [max : Nat, dir : Day, rounds : Nat, loaded : Urls, todo : SUBSET Posts,
             snap : [Posts -> Reactions], pos : Nat, keys : SUBSET (Posts \X {"href", "menu"}),
             urls : SUBSET Posts, moved : BOOLEAN, cur : Posts \cup {NoPost}, url : Urls,
             want : Reactions, label : Reactions, liked : Lists,
             unverified : Lists, verified : Lists,
             stop : {"none", "blocked", "login"}, code : {0, 2, 12, 14}]
  BY DEF Run
<1>1. v \in Lists
  OBVIOUS
<1> HIDE DEF Lists
<1> QED BY <1>0, <1>1

LEMMA EndUpdate ==
  ASSUME NEW r \in Run
  PROVE  /\ \A v \in {"none", "blocked", "login"} : [r EXCEPT !.stop = v] \in Run
         /\ \A v \in {0, 2, 12, 14} : [r EXCEPT !.code = v] \in Run
BY DEF Run

LEMMA TypeInit == Init => TypeInv
<1> SUFFICES ASSUME Init PROVE TypeInv
  OBVIOUS
<1>1. local \in Day /\ utc \in Day
  BY NumberAssumption DEF Init, Day
<1>2. run \in Run
  BY <1>1, NewRunType DEF Init
<1>3. /\ run.todo = {} /\ run.liked = {} /\ run.unverified = {} /\ run.verified = {}
      /\ run.max = 0
  BY DEF Init, NewRun
<1>4. Cardinality({}) = 0 /\ IsFiniteSet({})
  BY FS_EmptySet
<1>5. counted \in [Day -> Nat]
  BY NumberAssumption DEF Init
<1>6. reaction \in [Posts -> Reactions]
  BY DEF Init, Reactions
<1>7. Cursor
  BY <1>3, <1>4 DEF Cursor, InHand, Fresh, Init
<1> QED BY <1>1, <1>2, <1>3, <1>4, <1>5, <1>6, <1>7 DEF Init, TypeInv, TypeOK, Points

\* What the wrapper, the clock and LinkedIn do leaves a run alone or starts another.
LEMMA WrapperType ==
  ASSUME TypeInv, StartLoop \/ CheckTarget \/ AfterRun \/ Begin \/ Kill
  PROVE  TypeInv'
<1> USE DEF TypeInv, TypeOK, clock, world, linkedIn, Points
<1>1. CASE StartLoop
  BY <1>1 DEF StartLoop, Cursor, InHand, Fresh
<1>2. CASE CheckTarget
  <2>2. counted[utc] \in Nat /\ Remaining \in Int
    BY NumberAssumption DEF Remaining
  <2>1. /\ UNCHANGED <<clock, world, counted>> /\ pc = "loop" /\ pc' \in {"idle", "start"}
        /\ UNCHANGED run \/ (Remaining > 0 /\ run' = [run EXCEPT !.max = Remaining])
    BY <1>2, <2>2 DEF CheckTarget, Finish
  <2>3. loop' \in [attempts : Nat, ended : {"none", "target", "attempts", "block", "error"}]
    BY <1>2 DEF CheckTarget, Finish, Attempts
  <2>4. /\ run.liked = {} /\ run.todo = {} /\ run.unverified = {} /\ run.verified = {}
        /\ Cardinality({}) = 0
    BY <2>1, FS_EmptySet DEF Cursor, Fresh
  <2>5. run' \in Run
    <3>1. CASE Remaining > 0
      <4>1. Remaining \in Nat
        BY <2>2, <3>1
      <4> HIDE DEF TypeInv
      <4>2. [run EXCEPT !.max = Remaining] \in Run
        BY <4>1, NumberUpdate DEF TypeInv
      <4> QED BY <2>1, <4>2 DEF TypeInv
    <3> QED BY <2>1, <3>1
  <2>7. run'.max >= 0
    BY <2>5 DEF Run
  <2>6. run'.liked = {} /\ run'.todo = {} /\ run'.unverified = {} /\ run'.verified = {}
    <3> DEFINE new == [run EXCEPT !.max = Remaining]
    <3>1. /\ new.liked = run.liked /\ new.todo = run.todo
          /\ new.unverified = run.unverified /\ new.verified = run.verified
      BY DEF Run
    <3>2. run' = run \/ run' = new
      BY <2>1
    <3> HIDE DEF new
    <3> QED BY <2>4, <3>1, <3>2
  <2> QED BY <2>1, <2>3, <2>4, <2>5, <2>6, <2>7, FS_EmptySet DEF Cursor, InHand, Fresh
<1>3. CASE AfterRun
  <2>1. run' = NewRun(0) /\ run' \in Run
    BY <1>3, NewRunType DEF AfterRun
  <2>2. pc' \in {"idle", "loop"} /\ UNCHANGED <<clock, world, counted>>
    BY <1>3 DEF AfterRun, Finish
  <2>3. loop' \in [attempts : Nat, ended : {"none", "target", "attempts", "block", "error"}]
    BY <1>3 DEF AfterRun, Finish
  <2> QED BY <2>1, <2>2, <2>3, NewRunCursor DEF InHand, Fresh
<1>4. CASE Begin
  <2>1. run.max \in Nat
    BY DEF Run
  <2>2. run' = NewRun(run.max) /\ run' \in Run
    BY <1>4, <2>1, NewRunType DEF Begin
  <2> QED BY <1>4, <2>1, <2>2, NewRunCursor DEF Begin, InHand, Fresh
<1>5. CASE Kill
  <2>1. run' = NewRun(0) /\ run' \in Run
    BY <1>5, NewRunType DEF Kill
  <2> QED BY <1>5, <2>1, NewRunCursor DEF Kill, Finish, InHand, Fresh
<1> QED BY <1>1, <1>2, <1>3, <1>4, <1>5

\* The clock, and what LinkedIn shows.
LEMMA WorldType ==
  ASSUME TypeInv, NextUtcDay \/ NextLocalDay \/ ShowStop \/ LiftStop PROVE TypeInv'
<1> USE DEF TypeInv, TypeOK, Cursor, world, linkedIn, Day
<1>1. CASE NextUtcDay BY <1>1, NumberAssumption DEF NextUtcDay
<1>2. CASE NextLocalDay BY <1>2, NumberAssumption DEF NextLocalDay
<1>3. CASE ShowStop BY <1>3 DEF ShowStop, clock
<1>4. CASE LiftStop BY <1>4 DEF LiftStop, clock
<1> QED BY <1>1, <1>2, <1>3, <1>4

\* The same entries and the same place in the DOM.
SameEntries(r) ==
  /\ r.max = run.max /\ r.dir = run.dir /\ r.loaded = run.loaded /\ r.snap = run.snap
  /\ r.liked = run.liked /\ r.unverified = run.unverified /\ r.verified = run.verified
SameRun(r) == SameEntries(r) /\ r.todo = run.todo

LEMMA EndType ==
  ASSUME TypeInv, NEW r \in Run, SameRun(r), NEW c \in {0, 2, 12, 14}, End(r, c),
         UNCHANGED <<clock, world, counted, loop>>
  PROVE  TypeInv'
<1>1. run' = [r EXCEPT !.code = c] /\ run' \in Run
  BY EndUpdate DEF End
<1>2. SameRun(run')
  BY <1>1 DEF SameRun, SameEntries, Run
<1>3. pc' = "ended" /\ pc' \in Points
  BY DEF End, Points
<1> QED BY <1>1, <1>2, <1>3 DEF TypeInv, TypeOK, Cursor, InHand, Fresh, SameRun, SameEntries, clock, world, linkedIn

LEMMA SameSelf == SameRun(run)
BY DEF SameRun, SameEntries

\* A stop in the middle of run() ends it.
LEMMA StopEarlyType ==
  ASSUME TypeInv, StopEarly, shown # "none",
         UNCHANGED <<clock, world, counted, loop>>
  PROVE  TypeInv'
<1>1. shown \in {"blocked", "login"}
  BY FlagAssumption DEF TypeInv, TypeOK
<1>2. [run EXCEPT !.stop = shown] \in Run
  BY <1>1, EndUpdate DEF TypeInv, TypeOK
<1>4. SameRun([run EXCEPT !.stop = shown])
  BY DEF TypeInv, TypeOK, SameRun, SameEntries, Run
<1>3. StopCode(shown) \in {0, 2, 12, 14}
  BY <1>1 DEF StopCode
<1> QED BY <1>2, <1>3, <1>4, EndType DEF StopEarly

LEMMA SameWorld ==
  ASSUME TypeInv, UNCHANGED world
  PROVE  /\ UNCHANGED shown /\ reaction' \in [Posts -> Reactions]
         /\ made' \subseteq Posts /\ blind' \subseteq Posts
BY DEF TypeInv, TypeOK, world, linkedIn

\* A step that stays within the round and enters nothing.
LEMMA InRoundType ==
  ASSUME TypeInv, run' \in Run, pc' \in Points,
         pc' \notin Fresh,
         UNCHANGED <<clock, counted, loop, shown>>,
         reaction' \in [Posts -> Reactions], made' \subseteq Posts, blind' \subseteq Posts,
         run'.max = run.max, run'.liked = run.liked,
         run'.unverified \subseteq run.liked, run'.verified \subseteq run.liked,
         run'.todo \subseteq 1..run'.loaded,
         pc' \in InHand => run'.cur \in 1..run'.loaded /\ Cardinality(run.liked) < run.max,
         pc' \in {"click", "clicked"} => run'.want # "none"
  PROVE  TypeInv'
BY DEF TypeInv, TypeOK, Cursor, clock, world, linkedIn

LEMMA BeginsType ==
  ASSUME TypeInv, Raise \/ OpenFeed \/ CollectFeedPosts PROVE TypeInv'
<1>1. run \in Run
  BY DEF TypeInv, TypeOK
<1>2. CASE Raise
  BY <1>1, <1>2, SameSelf, EndType DEF Raise
<1>3. CASE OpenFeed
  <2>1. CASE shown # "none"
    BY <1>3, <2>1, StopEarlyType DEF OpenFeed
  <2>2. CASE shown = "none"
    <3>1. PICK n \in 1..Cardinality(Posts) : pc' = "scan" /\ run' = [run EXCEPT !.loaded = n]
      BY <1>3, <2>2 DEF OpenFeed
    <3>2. run' \in Run
      <4>1. n \in Urls
        BY PostsAreNumbers
      <4> QED BY <1>1, <3>1, <4>1, UrlUpdate
    <3>3. run'.todo = {}
      BY <1>1, <1>3, <3>1 DEF OpenFeed, TypeInv, Cursor, Fresh, Run
    <3>4. /\ run'.max = run.max /\ run'.liked = run.liked
          /\ run'.unverified = run.unverified /\ run'.verified = run.verified
      BY <1>1, <3>1 DEF Run
    <3>5. pc' = "scan" /\ UNCHANGED <<clock, world, counted, loop>>
      BY <1>3, <3>1 DEF OpenFeed
    <3>6. reaction' \in [Posts -> Reactions] /\ made' \subseteq Posts
      BY <3>5 DEF TypeInv, TypeOK, world, linkedIn
    <3>7. run'.unverified \subseteq run.liked /\ run'.verified \subseteq run.liked
      BY <3>4 DEF TypeInv, Cursor
    <3>8. pc' \in Points /\ pc' \notin Fresh /\ pc' \notin InHand /\ pc' \notin {"click", "clicked"}
      BY <3>5 DEF Points, InHand, Fresh
    <3>9. run'.todo \subseteq 1..run'.loaded
      BY <3>3
    <3>10. UNCHANGED <<clock, counted, loop>> /\ UNCHANGED world
      BY <3>5
    <3> QED
      BY <3>2, <3>4, <3>6, <3>7, <3>8, <3>9, <3>10, SameWorld, InRoundType
  <2> QED BY <2>1, <2>2
<1>4. CASE CollectFeedPosts
  <2>1. Collected \subseteq 1..run.loaded /\ Collected \subseteq Posts
    <3>1. 1..run.loaded \subseteq Posts
      BY <1>1, PostsAreNumbers DEF Run, Urls, NoUrl
    <3> QED BY <3>1 DEF Collected
  <2>2. run.rounds + 1 \in Nat /\ reaction \in [Posts -> Reactions]
    BY <1>1 DEF Run, TypeInv, TypeOK
  <2>3. run' = [run EXCEPT !.rounds = @ + 1, !.todo = Collected, !.snap = reaction, !.moved = FALSE]
    BY <1>4 DEF CollectFeedPosts
  <2>4. run' \in Run
    <3> DEFINE r1 == [run EXCEPT !.rounds = run.rounds + 1]
               r2 == [r1 EXCEPT !.todo = Collected]
               r3 == [r2 EXCEPT !.snap = reaction]
               r4 == [r3 EXCEPT !.moved = FALSE]
    <3>1. r1 \in Run BY <1>1, <2>2, NumberUpdate
    <3>2. r2 \in Run BY <3>1, <2>1, SetUpdate
    <3>3. r3 \in Run BY <3>2, <2>2, SnapUpdate
    <3>4. r4 \in Run BY <3>3, FlagUpdate
    <3>5. run' = r4 BY <2>3
    <3> QED BY <3>4, <3>5
  <2>5. /\ run'.max = run.max /\ run'.liked = run.liked /\ run'.todo = Collected
        /\ run'.loaded = run.loaded /\ run'.unverified = run.unverified
        /\ run'.verified = run.verified
    BY <1>1, <2>3 DEF Run
  <2> QED
    BY <1>4, <2>1, <2>4, <2>5, InRoundType
    DEF CollectFeedPosts, TypeInv, TypeOK, Cursor, Points, InHand, Fresh, clock, world, linkedIn
<1> QED BY <1>2, <1>3, <1>4

\* What becomes of the next post: it is passed over, or it is in hand, and then it had
\* no reaction when the round began.
Treated(p) ==
  /\ run' \in Run /\ SameEntries(run') /\ run'.todo = run.todo \ {p}
  /\ pc' \in {"post", "pick", "click"}
  /\ pc' \in InHand => run'.cur = p /\ NoReaction(p) /\ run'.label = "none"
  /\ pc' \in {"click", "clicked"} => run'.want # "none"

LEMMA NextPostEffect ==
  ASSUME TypeInv, NEW p \in run.todo, NextPost(p) PROVE Treated(p)
<1> DEFINE r == [[[run EXCEPT !.todo = run.todo \ {p}] EXCEPT !.keys = run.keys \cup {Key(p)}]
                   EXCEPT !.pos = run.pos + 1]
           Seen(url) == [r EXCEPT !.urls = r.urls \cup ({url} \ {NoUrl})]
           Taken(url, kind) ==
             [[[[Seen(url) EXCEPT !.cur = p] EXCEPT !.url = url] EXCEPT !.want = kind]
                EXCEPT !.label = "none"]
<1>1. run \in Run /\ p \in Posts /\ p \in 1..run.loaded
  BY PostsAreNumbers DEF TypeInv, TypeOK, Cursor, Run
<1>2. r \in Run
  <2>1. run.todo \ {p} \in SUBSET Posts /\ run.pos + 1 \in Nat
        /\ run.keys \cup {Key(p)} \in SUBSET (Posts \X {"href", "menu"})
    BY <1>1, KeyType DEF Run
  <2>2. [run EXCEPT !.todo = run.todo \ {p}] \in Run
    BY <1>1, <2>1, SetUpdate
  <2>3. [[run EXCEPT !.todo = run.todo \ {p}] EXCEPT !.keys = run.keys \cup {Key(p)}] \in Run
    BY <2>1, <2>2, KeysUpdate
  <2> QED BY <2>1, <2>3, NumberUpdate
<1>3. SameEntries(r) /\ r.todo = run.todo \ {p} /\ r.urls = run.urls
  BY <1>1 DEF Run, SameEntries
<1>4. ASSUME NEW url \in RecoverPostUrl(p)
      PROVE  /\ url \in Urls /\ Seen(url) \in Run
             /\ SameEntries(Seen(url)) /\ Seen(url).todo = run.todo \ {p}
  <2>1. url \in Urls
    BY <1>1, PostsAreNumbers DEF RecoverPostUrl, Urls, Run, NoUrl
  <2>2. r.urls \cup ({url} \ {NoUrl}) \in SUBSET Posts
    BY <1>2, <2>1 DEF Urls, Run
  <2>3. Seen(url) \in Run
    <3> HIDE DEF r
    <3> QED BY <1>2, <2>2, SetUpdate
  <2>4. SameEntries(Seen(url)) /\ Seen(url).todo = run.todo \ {p}
    <3> HIDE DEF r
    <3> QED BY <1>2, <1>3 DEF Run, SameEntries
  <2> HIDE DEF r, Seen
  <2> QED BY <2>1, <2>3, <2>4
<1>5. ASSUME NEW url \in RecoverPostUrl(p), NEW kind \in Kinds
      PROVE  /\ Taken(url, kind) \in Run /\ SameEntries(Taken(url, kind))
             /\ Taken(url, kind).todo = run.todo \ {p} /\ Taken(url, kind).cur = p
             /\ Taken(url, kind).want = kind /\ Taken(url, kind).label = "none"
  <2>1. kind \in Reactions /\ "none" \in Reactions
    BY KindAssumption DEF Reactions
  <2> DEFINE a == Seen(url)
             b == [a EXCEPT !.cur = p]
             c == [b EXCEPT !.url = url]
             d == [c EXCEPT !.want = kind]
  <2>2. Seen(url) \in Run /\ url \in Urls
    BY <1>4
  <2> HIDE DEF r, Seen
  <2>3. b \in Run BY <1>1, <2>2, PostUpdate
  <2>4. c \in Run BY <2>2, <2>3, UrlUpdate
  <2>5. d \in Run BY <2>1, <2>4, KindUpdate
  <2>6. Taken(url, kind) \in Run BY <2>1, <2>5, KindUpdate
  <2>7. /\ SameEntries(Taken(url, kind))
        /\ Taken(url, kind).todo = run.todo \ {p} /\ Taken(url, kind).cur = p
        /\ Taken(url, kind).want = kind /\ Taken(url, kind).label = "none"
    BY <1>4, <2>2 DEF Run, SameEntries
  <2> HIDE DEF a, Taken
  <2> QED BY <2>6, <2>7
<1>7. \/ pc' = "post" /\ (run' = [run EXCEPT !.todo = run.todo \ {p}] \/ run' = r)
      \/ pc' = "post" /\ (\E url \in RecoverPostUrl(p) : run' = Seen(url))
      \/ pc' \in {"click", "pick"}
         /\ \E url \in RecoverPostUrl(p), kind \in Kinds :
              run' = Taken(url, kind) /\ (pc' = "click" => kind = "Like") /\ NoReaction(p)
  <2> DEFINE ur == [run EXCEPT !.todo = @ \ {p}, !.keys = @ \cup {Key(p)}, !.pos = @ + 1]
             useen(url) == [ur EXCEPT !.urls = @ \cup ({url} \ {NoUrl})]
             utaken(url, kind) == [useen(url) EXCEPT !.cur = p, !.url = url,
                                                     !.want = kind, !.label = "none"]
  <2>1. ur = r
    BY <1>1 DEF Run
  <2>2. \A url : useen(url) = Seen(url)
    <3> HIDE DEF r, ur
    <3> QED BY <1>2, <2>1 DEF Run
  <2>3. \A url, kind : utaken(url, kind) = Taken(url, kind)
    <3> HIDE DEF r, ur, useen, Seen
    <3> QED BY <2>2
  <2>4. \/ pc' = "post" /\ (run' = [run EXCEPT !.todo = run.todo \ {p}] \/ run' = ur)
        \/ pc' = "post" /\ (\E url \in RecoverPostUrl(p) : run' = useen(url))
        \/ pc' \in {"click", "pick"}
           /\ \E url \in RecoverPostUrl(p), kind \in Kinds :
                run' = utaken(url, kind) /\ (pc' = "click" => kind = "Like") /\ NoReaction(p)
    <3>1. IF Key(p) \in run.keys
          THEN pc' = "post" /\ run' = [run EXCEPT !.todo = @ \ {p}]
          ELSE IF p \in Promoted \/ (ur.pos - 1) % Stride # 0
          THEN pc' = "post" /\ run' = ur
          ELSE \E url \in RecoverPostUrl(p), kind \in Kinds :
                 IF url \in run.urls \/ ~NoReaction(p)
                 THEN pc' = "post" /\ run' = useen(url)
                 ELSE /\ pc' = IF kind = "Like" THEN "click" ELSE "pick"
                      /\ run' = utaken(url, kind)
      BY ZenonT(30) DEF NextPost
    <3>2. [run EXCEPT !.todo = @ \ {p}] = [run EXCEPT !.todo = run.todo \ {p}]
      OBVIOUS
    <3> HIDE DEF r, ur, useen, utaken, Seen, Taken
    <3>3. ASSUME NEW url \in RecoverPostUrl(p), NEW kind \in Kinds,
                 pc' = IF kind = "Like" THEN "click" ELSE "pick", run' = utaken(url, kind),
                 NoReaction(p)
          PROVE <2>4!:
      BY <3>3
    <3> QED BY <3>1, <3>2, <3>3
  <2> HIDE DEF r, ur, useen, utaken, Seen, Taken
  <2> QED BY <2>1, <2>2, <2>3, <2>4
<1>8. CASE pc' = "post" /\ run' = [run EXCEPT !.todo = run.todo \ {p}]
  <2>1. run.todo \ {p} \in SUBSET Posts
    BY <1>1 DEF Run
  <2>2. run' \in Run
    BY <1>1, <1>8, <2>1, SetUpdate
  <2>3. SameEntries(run') /\ run'.todo = run.todo \ {p}
    BY <1>1, <1>8 DEF Run, SameEntries
  <2> QED BY <1>8, <2>2, <2>3 DEF Treated, InHand
<1> HIDE DEF r, Seen, Taken
<1>9. CASE pc' = "post" /\ run' = r
  BY <1>2, <1>3, <1>9 DEF Treated, InHand
<1>10. ASSUME NEW url \in RecoverPostUrl(p), pc' = "post", run' = Seen(url)
       PROVE  Treated(p)
  BY <1>4, <1>10 DEF Treated, InHand
<1>11. ASSUME NEW url \in RecoverPostUrl(p), NEW kind \in Kinds, run' = Taken(url, kind),
              pc' \in {"click", "pick"}, pc' = "click" => kind = "Like", NoReaction(p)
       PROVE  Treated(p)
  BY <1>5, <1>11 DEF Treated
<1> QED BY <1>7, <1>8, <1>9, <1>10, <1>11

LEMMA NextPostType ==
  ASSUME TypeInv, NEW p \in run.todo, NextPost(p) PROVE TypeInv'
<1>1. run \in Run /\ p \in 1..run.loaded
  BY DEF TypeInv, TypeOK, Cursor
<1>2. /\ pc = "post" /\ UNCHANGED <<clock, world, counted, loop>>
      /\ Cardinality(run.liked) < run.max
  <2>1. ~Full /\ pc = "post" /\ UNCHANGED <<clock, world, counted, loop>>
    BY DEF NextPost
  <2>2. Cardinality(run.liked) \in Nat /\ run.max \in Nat
    BY <1>1, FS_CardinalityType DEF TypeInv, Cursor, Run
  <2> QED BY <2>1, <2>2 DEF Full
<1>3. /\ run' \in Run /\ SameEntries(run') /\ run'.todo = run.todo \ {p}
      /\ pc' \in {"post", "pick", "click"} /\ (pc' \in InHand => run'.cur = p)
      /\ pc' \in {"click", "clicked"} => run'.want # "none"
  BY NextPostEffect DEF Treated
<1>4. /\ run'.unverified \subseteq run.liked /\ run'.verified \subseteq run.liked
      /\ run'.todo \subseteq 1..run'.loaded /\ run'.max = run.max /\ run'.liked = run.liked
      /\ pc' \in InHand => run'.cur \in 1..run'.loaded
  BY <1>1, <1>3 DEF TypeInv, Cursor, SameEntries
<1>5. pc' \in Points /\ pc' \notin Fresh
  BY <1>3 DEF Points, Fresh
<1>6. reaction' \in [Posts -> Reactions] /\ made' \subseteq Posts
  BY <1>2 DEF TypeInv, TypeOK, world, linkedIn
<1>7. UNCHANGED <<clock, counted, loop>> /\ UNCHANGED world
  BY <1>2
<1> QED BY <1>2, <1>3, <1>4, <1>5, <1>6, <1>7, SameWorld, InRoundType

\* LinkedIn's reactions keep their types.
LEMMA ReactType ==
  ASSUME TypeInv, NEW p \in Posts, NEW kind \in Reactions, React(p, kind)
  PROVE  reaction' \in [Posts -> Reactions] /\ made' \subseteq Posts /\ UNCHANGED shown
BY DEF React, TypeInv, TypeOK

LEMMA ReactionType ==
  ASSUME TypeInv, PickReaction \/ ClickLike PROVE TypeInv'
<1> DEFINE p == Hit(run.cur)
<1>1. run \in Run /\ pc \in InHand /\ UNCHANGED <<clock, counted, loop>>
  BY DEF PickReaction, ClickLike, InHand, TypeInv, TypeOK
<1>2. run.cur \in 1..run.loaded /\ Cardinality(run.liked) < run.max
  BY <1>1 DEF TypeInv, Cursor
<1>3. p \in Posts
  <2>1. p \in 1..run.loaded
    BY <1>2, HitType DEF TypeInv
  <2> QED BY <1>1, <2>1, PostsAreNumbers DEF Run, Urls, NoUrl
<1> HIDE DEF p
<1>4. /\ reaction' \in [Posts -> Reactions] /\ made' \subseteq Posts /\ UNCHANGED shown
  <2>1. CASE UNCHANGED linkedIn
    BY <2>1 DEF linkedIn, TypeInv, TypeOK
  <2>2. ASSUME NEW kind \in Reactions, React(p, kind) PROVE <1>4!:
    BY <1>3, <2>2, ReactType
  <2>3. "Like" \in Reactions /\ "none" \in Reactions
    BY DEF Reactions
  <2> QED BY <2>1, <2>2, <2>3 DEF PickReaction, ClickLike, p
<1>5. PICK label \in Labels(p) :
        \/ label # "none" /\ pc' = "clicked"
           /\ run' = [run EXCEPT !.moved = TRUE, !.label = label, !.want = label]
        \/ pc' = "click" /\ run' = [run EXCEPT !.moved = TRUE, !.want = "Like"]
        \/ pc' = "clicked" /\ run' = [run EXCEPT !.moved = TRUE, !.label = label]
           /\ pc = "click"
  BY DEF PickReaction, ClickLike, p
<1>6. label \in Reactions /\ "Like" \in Reactions
  BY <1>3, <1>4 DEF Labels, Reactions, TypeInv, TypeOK
<1>7. [run EXCEPT !.moved = TRUE] \in Run
  BY <1>1, FlagUpdate
<1>8. /\ [[run EXCEPT !.moved = TRUE] EXCEPT !.label = label] \in Run
      /\ [[[run EXCEPT !.moved = TRUE] EXCEPT !.label = label] EXCEPT !.want = label] \in Run
      /\ [[run EXCEPT !.moved = TRUE] EXCEPT !.want = "Like"] \in Run
  BY <1>6, <1>7, KindUpdate
<1>9. run' \in Run
  BY <1>5, <1>8
<1>10. /\ run'.max = run.max /\ run'.todo = run.todo /\ run'.loaded = run.loaded
       /\ run'.liked = run.liked /\ run'.cur = run.cur
       /\ run'.unverified = run.unverified /\ run'.verified = run.verified
       /\ run'.want # "none" \/ (run'.want = run.want /\ pc = "click")
       /\ pc' \in {"click", "clicked"}
  <2>1. CASE label # "none" /\ run' = [run EXCEPT !.moved = TRUE, !.label = label, !.want = label]
    BY <1>1, <1>5, <2>1 DEF Run
  <2>2. CASE pc' = "click" /\ run' = [run EXCEPT !.moved = TRUE, !.want = "Like"]
    BY <1>1, <2>2 DEF Run
  <2>3. CASE pc' = "clicked" /\ run' = [run EXCEPT !.moved = TRUE, !.label = label] /\ pc = "click"
    BY <1>1, <2>3 DEF Run
  <2> QED BY <1>5, <2>1, <2>2, <2>3
<1>11. run'.want # "none"
  BY <1>10 DEF TypeInv, Cursor
<1>12. /\ run'.unverified \subseteq run.liked /\ run'.verified \subseteq run.liked
       /\ run'.todo \subseteq 1..run'.loaded
  BY <1>10 DEF TypeInv, Cursor
<1>13. pc' \in Points /\ pc' \notin Fresh
  BY <1>10 DEF Points, Fresh
<1>14. blind' \subseteq Posts
  <2>1. blind' = blind \/ blind' = blind \cup {p}
    BY DEF PickReaction, ClickLike, p
  <2> QED BY <1>3, <2>1 DEF TypeInv, TypeOK
<1> QED
  BY <1>1, <1>2, <1>4, <1>9, <1>10, <1>11, <1>12, <1>13, <1>14, InRoundType

LEMMA RecordType == ASSUME TypeInv, Record PROVE TypeInv'
<1> DEFINE e == [post |-> run.cur, url |-> run.url, kind |-> run.want]
<1>1. run \in Run /\ pc = "clicked" /\ UNCHANGED <<clock, world, counted, loop>>
  BY DEF Record, TypeInv, TypeOK
<1>2. /\ run.cur \in Posts /\ Cardinality(run.liked) < run.max /\ IsFiniteSet(run.liked)
      /\ run.liked \subseteq Entry
  BY <1>1, PostsAreNumbers DEF TypeInv, Cursor, InHand, Run, Urls, NoUrl
<1>3. CASE shown # "none" /\ StopEarly
  BY <1>1, <1>3, StopEarlyType
<1>4. ASSUME NEW l \in SUBSET Entry, Done(l), IsFiniteSet(l), Cardinality(l) <= run.max,
             run.liked \subseteq l
      PROVE  TypeInv'
  <2>1. /\ [run EXCEPT !.cur = NoPost] \in Run
        /\ [[run EXCEPT !.cur = NoPost] EXCEPT !.url = NoUrl] \in Run
    BY <1>1 DEF Run, Urls
  <2>2. "none" \in Reactions
    BY DEF Reactions
  <2> DEFINE r == [[run EXCEPT !.cur = NoPost] EXCEPT !.url = NoUrl]
  <2>3. run' = [[[r EXCEPT !.want = "none"] EXCEPT !.label = "none"] EXCEPT !.liked = l]
    BY <1>4 DEF Done
  <2>4. r \in Run
    BY <2>1
  <2> HIDE DEF r
  <2>5. [r EXCEPT !.want = "none"] \in Run
    BY <2>2, <2>4, KindUpdate
  <2>6. [[r EXCEPT !.want = "none"] EXCEPT !.label = "none"] \in Run
    BY <2>2, <2>5, KindUpdate
  <2>7. run' \in Run
    BY <1>4, <2>3, <2>6, EntriesUpdate
  <2>8. /\ run'.max = run.max /\ run'.todo = run.todo /\ run'.loaded = run.loaded
        /\ run'.liked = l /\ run'.unverified = run.unverified /\ run'.verified = run.verified
        /\ pc' = "post"
    BY <1>1, <1>4 DEF Done, Run
  <2> QED
    BY <1>1, <1>4, <2>7, <2>8
    DEF TypeInv, TypeOK, Cursor, InHand, Fresh, Points, clock, world, linkedIn
<1>5. CASE Done(run.liked)
  BY <1>1, <1>2, <1>4, <1>5 DEF TypeInv, TypeOK
<1>6. CASE Done(run.liked \cup {e})
  <2> DEFINE l == run.liked \cup {e}
  <2>1. e \in Entry
    BY <1>1, <1>2 DEF Entry, Run
  <2>2. l \in SUBSET Entry /\ IsFiniteSet(l) /\ Cardinality(l) <= Cardinality(run.liked) + 1
    <3> HIDE DEF e
    <3>1. Cardinality(run.liked) \in Nat
      BY <1>2, FS_CardinalityType
    <3> QED BY <1>2, <2>1, <3>1, FS_AddElement
  <2>3. Cardinality(l) <= run.max
    <3>1. Cardinality(l) \in Nat /\ Cardinality(run.liked) \in Nat /\ run.max \in Nat
      BY <1>1, <1>2, <2>2, FS_CardinalityType DEF Run
    <3> QED BY <1>2, <2>2, <3>1
  <2> QED BY <1>4, <1>6, <2>2, <2>3
<1> QED BY <1>3, <1>5, <1>6 DEF Record

LEMMA RoundEndType == ASSUME TypeInv, Scroll \/ StartVerify PROVE TypeInv'
<1>1. /\ run \in Run /\ UNCHANGED <<clock, world, counted, loop>>
      /\ reaction' \in [Posts -> Reactions] /\ made' \subseteq Posts
  BY DEF Scroll, StartVerify, TypeInv, TypeOK, world, linkedIn
<1>2. CASE \E n \in run.loaded..Cardinality(Posts) :
             pc' = "scan" /\ run.todo = {} /\ run' = [run EXCEPT !.loaded = n]
  <2>1. PICK n \in run.loaded..Cardinality(Posts) :
          pc' = "scan" /\ run.todo = {} /\ run' = [run EXCEPT !.loaded = n]
    BY <1>2
  <2>2. n \in Urls
    <3>1. run.loaded \in Nat
      BY <1>1, PostsAreNumbers DEF Run, Urls, NoUrl
    <3> QED BY <3>1, PostsAreNumbers
  <2>3. run' \in Run
    BY <1>1, <2>1, <2>2, UrlUpdate
  <2>4. /\ run'.max = run.max /\ run'.todo = {} /\ run'.liked = run.liked
        /\ run'.unverified = run.unverified /\ run'.verified = run.verified
    BY <1>1, <2>1 DEF Run
  <2>5. /\ run'.unverified \subseteq run.liked /\ run'.verified \subseteq run.liked
        /\ run'.todo \subseteq 1..run'.loaded
    BY <2>4 DEF TypeInv, Cursor
  <2>6. pc' \in Points /\ pc' \notin Fresh /\ pc' \notin InHand /\ pc' \notin {"click", "clicked"}
    BY <2>1 DEF Points, InHand, Fresh
  <2> QED BY <1>1, <2>3, <2>4, <2>5, <2>6, SameWorld, InRoundType
<1>3. CASE pc' = "verify" /\ (run' = [run EXCEPT !.unverified = run.liked]
                              \/ (run' = [run EXCEPT !.stop = shown, !.unverified = run.liked]
                                  /\ shown # "none"))
  <2>1. run.liked \in SUBSET Entry
    BY <1>1 DEF Run
  <2>2. [run EXCEPT !.unverified = run.liked] \in Run
    BY <1>1, <2>1, EntriesUpdate
  <2>3. ASSUME shown # "none" PROVE [run EXCEPT !.stop = shown, !.unverified = run.liked] \in Run
    <3>1. [run EXCEPT !.stop = shown] \in Run
      BY <1>1, <2>3, FlagAssumption, EndUpdate DEF TypeInv, TypeOK
    <3>2. [[run EXCEPT !.stop = shown] EXCEPT !.unverified = run.liked] \in Run
      BY <2>1, <3>1, EntriesUpdate
    <3> QED BY <3>2
  <2>4. run' \in Run
    BY <1>3, <2>2, <2>3
  <2>5. /\ run'.max = run.max /\ run'.todo = run.todo /\ run'.loaded = run.loaded
        /\ run'.liked = run.liked /\ run'.unverified = run.liked /\ run'.verified = run.verified
    <3>1. CASE run' = [run EXCEPT !.unverified = run.liked]
      BY <1>1, <3>1 DEF Run
    <3>2. CASE run' = [run EXCEPT !.stop = shown, !.unverified = run.liked]
      BY <1>1, <3>2 DEF Run
    <3> QED BY <1>3, <3>1, <3>2
  <2>6. /\ run'.unverified \subseteq run.liked /\ run'.verified \subseteq run.liked
        /\ run'.todo \subseteq 1..run'.loaded
    BY <2>5 DEF TypeInv, Cursor
  <2>7. pc' \in Points /\ pc' \notin Fresh /\ pc' \notin InHand /\ pc' \notin {"click", "clicked"}
    BY <1>3 DEF Points, InHand, Fresh
  <2> QED BY <1>1, <2>4, <2>5, <2>6, <2>7, SameWorld, InRoundType
<1>4. CASE Scroll
  <2>1. PICK n \in run.loaded..Cardinality(Posts) :
          IF shown = "none"
          THEN pc' = "scan" /\ run' = [run EXCEPT !.loaded = n]
          ELSE pc' = "verify" /\ run' = [run EXCEPT !.stop = shown, !.unverified = run.liked]
    BY <1>4 DEF Scroll
  <2>2. run.todo = {}
    BY <1>4 DEF Scroll
  <2> QED BY <1>2, <1>3, <2>1, <2>2
<1>5. CASE StartVerify
  <2>1. pc' = "verify" /\ run' = [run EXCEPT !.unverified = run.liked]
    BY <1>5 DEF StartVerify
  <2> QED BY <1>3, <2>1
<1> QED BY <1>4, <1>5

LEMMA VerifyType ==
  ASSUME TypeInv, (\E e \in run.unverified : VerifyPost(e)) \/ FinishRun PROVE TypeInv'
<1>1. run \in Run /\ UNCHANGED <<clock, world, loop>>
  BY DEF VerifyPost, FinishRun, TypeInv, TypeOK
<1>2. ASSUME NEW e \in run.unverified, VerifyPost(e) PROVE TypeInv'
  <2> DEFINE done == [run EXCEPT !.unverified = run.unverified \ {e}]
  <2>1. /\ reaction' \in [Posts -> Reactions] /\ made' \subseteq Posts
        /\ UNCHANGED <<clock, counted, loop>> /\ UNCHANGED world /\ pc' = "verify"
    BY <1>2 DEF VerifyPost, TypeInv, TypeOK, world, linkedIn
  <2>2. /\ run.unverified \ {e} \in SUBSET Entry /\ run.verified \cup {e} \in SUBSET Entry
        /\ {} \in SUBSET Entry /\ "blocked" \in {"none", "blocked", "login"}
    BY <1>1 DEF Run
  <2>3. done \in Run
    BY <1>1, <2>2, EntriesUpdate
  <2>4. done.verified = run.verified
    BY <1>1 DEF Run
  <2>5. \/ run' = done \/ run' = [done EXCEPT !.verified = run.verified \cup {e}]
        \/ run' = [[run EXCEPT !.unverified = {}] EXCEPT !.stop = "blocked"]
    <3> HIDE DEF done
    <3> DEFINE d == [run EXCEPT !.unverified = @ \ {e}]
    <3>1. d = done
      BY DEF done
    <3>2. \/ run' = d \/ run' = [d EXCEPT !.verified = @ \cup {e}]
          \/ run' = [run EXCEPT !.unverified = {}, !.stop = "blocked"]
      BY <1>2 DEF VerifyPost
    <3> HIDE DEF d
    <3> QED BY <2>3, <2>4, <3>1, <3>2
  <2>6. run' \in Run
    <3> HIDE DEF done
    <3>1. [done EXCEPT !.verified = run.verified \cup {e}] \in Run
      BY <2>2, <2>3, EntriesUpdate
    <3>2. [run EXCEPT !.unverified = {}] \in Run
      BY <1>1, <2>2, EntriesUpdate
    <3>3. [[run EXCEPT !.unverified = {}] EXCEPT !.stop = "blocked"] \in Run
      BY <2>2, <3>2, EndUpdate
    <3> QED BY <2>3, <2>5, <3>1, <3>3
  <2>7. /\ run'.max = run.max /\ run'.todo = run.todo /\ run'.loaded = run.loaded
        /\ run'.liked = run.liked /\ run'.unverified \subseteq run.unverified
        /\ run'.verified \subseteq run.verified \cup {e}
    <3>1. /\ done.max = run.max /\ done.todo = run.todo /\ done.loaded = run.loaded
          /\ done.liked = run.liked /\ done.unverified = run.unverified \ {e}
      BY <1>1 DEF Run
    <3>2. CASE run' = [[run EXCEPT !.unverified = {}] EXCEPT !.stop = "blocked"]
      BY <1>1, <3>2 DEF Run
    <3> HIDE DEF done
    <3>3. CASE run' = [done EXCEPT !.verified = run.verified \cup {e}]
      BY <2>3, <3>1, <3>3 DEF Run
    <3> QED BY <2>4, <2>5, <3>1, <3>2, <3>3
  <2>8. /\ run'.unverified \subseteq run.liked /\ run'.verified \subseteq run.liked
        /\ run'.todo \subseteq 1..run'.loaded
    BY <2>7 DEF TypeInv, Cursor
  <2>9. pc' \in Points /\ pc' \notin Fresh /\ pc' \notin InHand /\ pc' \notin {"click", "clicked"}
    BY <2>1 DEF Points, InHand, Fresh
  <2> HIDE DEF done
  <2> QED BY <2>1, <2>6, <2>7, <2>8, <2>9, SameWorld, InRoundType
<1>3. CASE FinishRun
  <2>1. Cardinality(run.verified) \in Nat
    BY FS_Subset, FS_CardinalityType DEF TypeInv, Cursor
  <2>2. counted' \in [Day -> Nat]
    BY <1>1, <1>3, <2>1 DEF FinishRun, TypeInv, TypeOK, Run
  <2>3. StopCode(run.stop) \in {0, 2, 12, 14}
    BY <1>1 DEF StopCode, Run
  <2>4. run' = [run EXCEPT !.code = StopCode(run.stop)] /\ pc' = "ended"
    BY <1>3 DEF FinishRun, End
  <2>5. run' \in Run
    BY <1>1, <2>3, <2>4, EndUpdate
  <2>6. SameRun(run')
    BY <1>1, <2>4 DEF SameRun, SameEntries, Run
  <2> QED
    BY <1>1, <2>2, <2>4, <2>5, <2>6
    DEF TypeInv, TypeOK, Cursor, InHand, Fresh, Points, SameRun, SameEntries, clock, world, linkedIn
<1> QED BY <1>2, <1>3

LEMMA TypeStep == TypeInv /\ [Next]_vars => TypeInv'
<1>1. ASSUME TypeInv, UNCHANGED vars PROVE TypeInv'
  BY <1>1 DEF TypeInv, TypeOK, Cursor, vars, clock, world, linkedIn
<1> QED
  BY <1>1, WrapperType, WorldType, BeginsType, NextPostType, ReactionType, RecordType,
     RoundEndType, VerifyType
  DEF Next, LoopStep

\* The variables have their types, and a run enters no more reactions than --max-likes
\* asks for, in every reachable state (linkedin_like_posts.py: max_likes).
THEOREM TypeCorrect == Spec => []TypeOK
<1>1. TypeInv => TypeOK
  BY DEF TypeInv
<1> QED BY <1>1, TypeInit, TypeStep, PTL DEF Spec

----------------------------------------------------------------------------
(* The day's target.                                                       *)

\* Where both clocks show one date: what a run may still enter fits under the target
\* of the day its directory is named for, and under that of any later day, for which
\* nothing is counted yet.
Budget ==
  ~behind =>
    /\ local = utc
    /\ \A d \in Day : counted[d] <= Target /\ (d > utc => counted[d] = 0)
    /\ pc = "start" => counted[utc] + run.max <= Target
    /\ pc \in Started => run.dir <= utc /\ counted[run.dir] + run.max <= Target

LEMMA BudgetInit == Init => Budget
BY NumberAssumption DEF Init, Budget, Day, Started, InHand

\* A step within a run, or one that ends it without a status.
Within ==
  /\ UNCHANGED <<clock, counted>> /\ pc' # "start"
  /\ pc' \in Started => pc \in Started /\ run'.max = run.max /\ run'.dir = run.dir

LEMMA WithinBudget == ASSUME Budget, Within PROVE Budget'
BY DEF Budget, Within, clock

LEMMA EndWithin ==
  ASSUME NEW r, NEW c, End(r, c), UNCHANGED <<clock, counted>> PROVE Within
BY DEF End, Within, Started, InHand

LEMMA StopEarlyWithin == ASSUME StopEarly, UNCHANGED <<clock, counted>> PROVE Within
BY EndWithin DEF StopEarly

\* Most steps of a run are within it.
LEMMA RunWithin ==
  ASSUME TypeInv, Raise \/ OpenFeed \/ CollectFeedPosts \/ PickReaction \/ ClickLike \/ Record
                  \/ Scroll \/ StartVerify \/ (\E e \in run.unverified : VerifyPost(e))
  PROVE  Within
<1>0. run \in Run
  BY DEF TypeInv, TypeOK
<1> USE DEF Started, InHand
<1>1. CASE Raise
  BY <1>1, EndWithin DEF Raise
<1>2. CASE OpenFeed
  BY <1>0, <1>2, StopEarlyWithin DEF OpenFeed, Within, Run
<1>3. CASE CollectFeedPosts
  BY <1>0, <1>3 DEF CollectFeedPosts, Within, Run
<1>4. CASE PickReaction
  BY <1>0, <1>4 DEF PickReaction, Within, Run
<1>5. CASE ClickLike
  BY <1>0, <1>5 DEF ClickLike, Within, Run
<1>6. CASE Record
  <2>1. Done(run.liked) \/ (\E l : Done(l)) => Within
    BY <1>0, <1>6 DEF Record, Done, Within, Run
  <2> QED BY <1>6, <2>1, StopEarlyWithin DEF Record
<1>7. CASE Scroll
  BY <1>0, <1>7 DEF Scroll, Within, Run
<1>8. CASE StartVerify
  BY <1>0, <1>8 DEF StartVerify, Within, Run
<1>9. ASSUME NEW e \in run.unverified, VerifyPost(e) PROVE Within
  BY <1>0, <1>9 DEF VerifyPost, Within, Run
<1> QED BY <1>1, <1>2, <1>3, <1>4, <1>5, <1>6, <1>7, <1>8, <1>9

LEMMA NextPostWithin ==
  ASSUME TypeInv, NEW p \in run.todo, NextPost(p) PROVE Within
<1>1. run \in Run /\ pc = "post" /\ UNCHANGED <<clock, counted>>
  BY DEF NextPost, TypeInv, TypeOK
<1>2. pc' \in {"post", "pick", "click"} /\ SameEntries(run')
  BY NextPostEffect DEF Treated
<1> QED BY <1>1, <1>2 DEF SameEntries, Within, Started, InHand

LEMMA FinishBudget == ASSUME TypeInv, Budget, FinishRun PROVE Budget'
<1> SUFFICES ASSUME ~behind PROVE Budget'
  BY DEF FinishRun, Budget, clock
<1>1. /\ run \in Run /\ pc = "verify" /\ UNCHANGED <<behind, utc, local>> /\ pc' = "ended"
      /\ counted' = [counted EXCEPT ![run.dir] = @ + Cardinality(run.verified)]
      /\ counted \in [Day -> Nat] /\ run.dir \in Day /\ utc \in Day
  BY DEF FinishRun, End, clock, TypeInv, TypeOK, Run
<1>2. run.dir <= utc /\ counted[run.dir] + run.max <= Target
  BY <1>1 DEF Budget, Started
<1>3. Cardinality(run.verified) \in Nat /\ Cardinality(run.verified) <= run.max
  <2>1. IsFiniteSet(run.liked) /\ run.verified \subseteq run.liked /\ Cardinality(run.liked) <= run.max
    BY DEF TypeInv, TypeOK, Cursor
  <2>2. /\ IsFiniteSet(run.verified) /\ Cardinality(run.verified) <= Cardinality(run.liked)
    BY <2>1, FS_Subset
  <2>3. Cardinality(run.verified) \in Nat /\ Cardinality(run.liked) \in Nat /\ run.max \in Nat
    BY <1>1, <2>1, <2>2, FS_CardinalityType DEF Run
  <2> QED BY <2>1, <2>2, <2>3
<1>4. counted[run.dir] + Cardinality(run.verified) <= Target
  BY <1>1, <1>2, <1>3, NumberAssumption DEF Run
<1>5. \A d \in Day : counted'[d] <= Target /\ (d > utc => counted'[d] = 0)
  BY <1>1, <1>2, <1>4 DEF Budget, Day
<1> QED BY <1>1, <1>5 DEF Budget, Started, InHand

LEMMA BudgetStep == TypeInv /\ Budget /\ [Next]_vars => Budget'
<1> SUFFICES ASSUME TypeInv, Budget, [Next]_vars PROVE Budget'
  OBVIOUS
<1>0. run \in Run /\ counted \in [Day -> Nat] /\ utc \in Day /\ local \in Day
  BY DEF TypeInv, TypeOK
<1>1. CASE UNCHANGED <<clock, counted, pc, run>>
  BY <1>1 DEF Budget, clock
<1>2. CASE CheckTarget
  <2>1. counted[utc] \in Nat /\ Remaining \in Int /\ Remaining = Target - counted[utc]
    BY <1>0, NumberAssumption DEF Remaining
  <2>2. UNCHANGED <<clock, counted>> /\ pc' \in {"idle", "start"}
        /\ (pc' = "start" => run' = [run EXCEPT !.max = Remaining])
    BY <1>2, <2>1 DEF CheckTarget, Finish
  <2>3. pc' = "start" => run'.max = Remaining
    BY <1>0, <2>2 DEF Run
  <2> QED BY <2>1, <2>2, <2>3, NumberAssumption DEF Budget, clock, Started, InHand
<1>3. CASE Begin
  <2>1. /\ UNCHANGED <<clock, counted>> /\ pc = "start" /\ pc' = "open"
        /\ run'.max = run.max /\ run'.dir = local
    BY <1>3 DEF Begin, NewRun
  <2> QED BY <1>0, <2>1 DEF Budget, clock, Day
<1>4. CASE FinishRun
  BY <1>4, FinishBudget
<1>5. CASE NextUtcDay
  <2>1. /\ utc' = utc + 1 /\ utc' \in Day /\ local = utc /\ UNCHANGED <<behind, counted, pc, run>>
        /\ ~behind => local' = local + 1
    BY <1>0, <1>5, NumberAssumption DEF NextUtcDay, Day
  <2>2. ASSUME ~behind
        PROVE  counted[utc + 1] = 0 /\ (pc = "start" => run.max <= Target)
    <3>1. utc + 1 \in Day /\ utc + 1 > utc
      BY <1>0, <2>1 DEF Day
    <3>2. counted[utc + 1] = 0
      BY <2>2, <3>1 DEF Budget
    <3>3. run.max \in Nat /\ counted[utc] \in Nat
      BY <1>0 DEF Run
    <3> QED BY <2>2, <3>2, <3>3, NumberAssumption DEF Budget
  <2>3. \A d \in Day : d > utc' => d > utc
    BY <1>0, <2>1 DEF Day
  <2>4. ASSUME ~behind PROVE local' = utc'
    BY <2>1, <2>4
  <2>5. ASSUME ~behind, pc \in Started PROVE run.dir <= utc'
    BY <1>0, <2>1, <2>5 DEF Budget, Run, Day
  <2>6. ASSUME ~behind, pc = "start" PROVE counted[utc'] + run.max <= Target
    <3>1. run.max \in Nat
      BY <1>0 DEF Run
    <3> QED BY <2>1, <2>2, <2>6, <3>1, NumberAssumption
  <2>7. Started' = Started
    BY DEF Started, InHand
  <2> SUFFICES ASSUME ~behind PROVE Budget'
    BY <2>1 DEF Budget
  <2>8. \A d \in Day : counted'[d] <= Target /\ (d > utc' => counted'[d] = 0)
    BY <2>1, <2>3 DEF Budget
  <2>9. pc' \in Started' => run'.dir <= utc' /\ counted'[run'.dir] + run'.max <= Target
    BY <2>1, <2>5, <2>7 DEF Budget
  <2> QED BY <2>1, <2>4, <2>6, <2>8, <2>9 DEF Budget
<1>6. CASE NextLocalDay
  <2>1. local < utc /\ behind' = behind
    BY <1>6 DEF NextLocalDay
  <2>2. behind
    BY <1>0, <2>1 DEF Budget, Day
  <2> QED BY <2>1, <2>2 DEF Budget
<1>7. CASE Within
  BY <1>7, WithinBudget
<1>8. CASE StartLoop \/ AfterRun \/ Kill
  <2>1. UNCHANGED <<clock, counted>> /\ pc' \in {"idle", "loop"}
    BY <1>8 DEF StartLoop, AfterRun, Kill, Finish
  <2> QED BY <2>1, WithinBudget DEF Within, Started, InHand
<1>9. CASE ShowStop \/ LiftStop
  BY <1>1, <1>9 DEF ShowStop, LiftStop
<1>10. CASE UNCHANGED vars
  BY <1>1, <1>10 DEF vars
<1> QED
  BY <1>2, <1>3, <1>4, <1>5, <1>6, <1>7, <1>8, <1>9, <1>10, RunWithin, NextPostWithin
  DEF Next, LoopStep

\* No day has more verified reactions than LINKEDIN_LIKE_MAX where the container keeps
\* the date of UTC, over runs that are killed, stopped, started again or go past
\* midnight (run_unlocked.sh:52).
THEOREM TargetHolds == Spec => []CountedUnderTarget
<1>1. Budget => CountedUnderTarget
  BY DEF Budget, CountedUnderTarget
<1> QED BY <1>1, TypeInit, TypeStep, BudgetInit, BudgetStep, PTL DEF Spec

----------------------------------------------------------------------------
(* Reactions.                                                              *)

\* What a run holds of the feed: each post collected is the first with its key in the
\* DOM, so that its own button is the one that is found.
First(p) == \A q \in 1..(p - 1) : Key(q) # Key(p)

\* The posts still to come are as they were when the round began; and but for posts
\* on which the picker left a reaction unseen, the one in hand has no reaction before
\* the click, after it the label says what it has, if anything, and what is entered is
\* there.
Faithful ==
  /\ \A p \in run.todo : First(p)
  /\ pc \in InHand => First(run.cur)
  /\ OneButtonEach =>
       /\ \A p \in run.todo : run.snap[p] = reaction[p]
       /\ pc \in InHand => run.cur \notin run.todo
       /\ pc \in {"pick", "click"} /\ run.cur \notin blind => reaction[run.cur] = "none"
       /\ pc = "clicked" /\ run.cur \notin blind => run.label \in {"none", reaction[run.cur]}
       /\ \A e \in run.liked : e.kind # "none" /\ (e.post \notin blind => reaction[e.post] = e.kind)

\* The button found for a post is its own.
LEMMA OwnButton ==
  ASSUME TypeOK, OneButtonEach, NEW p \in 1..run.loaded, First(p) PROVE Hit(p) = p
<1>1. run.loaded \in Nat /\ 1..run.loaded \subseteq Posts
  BY PostsAreNumbers DEF TypeOK, Run, Urls, NoUrl
<1>2. Hit(p) \in 1..run.loaded /\ Matches(Hit(p), p) /\ Hit(p) <= p
  BY HitType
<1> SUFFICES ASSUME Hit(p) # p PROVE FALSE
  OBVIOUS
<1>3. Hit(p) \in 1..(p - 1) /\ Hit(p) \in Posts /\ p \in Posts
  BY <1>1, <1>2
<1>4. AuthorOf[Hit(p)] = AuthorOf[p] /\ p \notin Href /\ Hit(p) \notin Href
  <2>1. AuthorOf[Hit(p)] = AuthorOf[p] /\ p \notin Href
    BY <1>2, <1>3 DEF OneButtonEach
  <2>2. Matches(p, Hit(p))
    BY <2>1 DEF Matches
  <2> QED BY <1>3, <2>1, <2>2 DEF OneButtonEach
<1>5. {q \in Posts : AuthorOf[q] = AuthorOf[p]} = {q \in Posts : AuthorOf[q] = AuthorOf[Hit(p)]}
  BY <1>4
<1>6. Key(Hit(p)) = Key(p)
  <2> DEFINE h == Hit(p)
  <2> HIDE DEF h
  <2>1. h = Hit(p)
    BY DEF h
  <2> QED BY <1>4, <1>5, <2>1 DEF Key
<1> QED BY <1>3, <1>6 DEF First

LEMMA FaithfulInit == Init => Faithful
BY DEF Init, NewRun, Faithful, InHand

\* A step on which nothing on LinkedIn changes and no post is taken in hand.
Resting ==
  /\ UNCHANGED <<blind, reaction>> /\ pc' \notin InHand
  /\ run'.todo = {} \/ (run'.todo = run.todo /\ run'.snap = run.snap)
  /\ run'.liked = {} \/ run'.liked = run.liked

LEMMA RestingFaithful == ASSUME Faithful, Resting PROVE Faithful'
<1>1. /\ \A p \in run'.todo : First(p)
      /\ pc' \notin InHand /\ UNCHANGED <<blind, reaction>>
      /\ pc' \notin {"pick", "click", "clicked"}
  BY DEF Faithful, Resting, InHand
<1>2. ASSUME OneButtonEach
      PROVE  /\ \A p \in run'.todo : run'.snap[p] = reaction[p]
             /\ \A e \in run'.liked : e.kind # "none" /\ (e.post \notin blind => reaction[e.post] = e.kind)
  BY <1>2 DEF Faithful, Resting
<1>3. InHand' = InHand /\ OneButtonEach' = OneButtonEach /\ \A p : First(p)' = First(p)
  BY DEF InHand, OneButtonEach, Matches, First, Key
<1> QED BY <1>1, <1>2, <1>3 DEF Faithful

LEMMA EndResting ==
  ASSUME NEW r \in Run, NEW c, End(r, c), UNCHANGED <<clock, world>>,
         r.todo = run.todo, r.snap = run.snap, r.liked = run.liked
  PROVE  Resting
BY DEF End, Resting, InHand, Run, clock, world, linkedIn

LEMMA WrapperResting ==
  ASSUME TypeInv, StartLoop \/ CheckTarget \/ AfterRun \/ Begin \/ Kill PROVE Resting
<1>0. run \in Run
  BY DEF TypeInv, TypeOK
<1> USE DEF Resting, InHand, clock, world, linkedIn
<1>1. CASE StartLoop BY <1>1 DEF StartLoop
<1>2. CASE CheckTarget
  <2>1. UNCHANGED <<clock, world>> /\ pc' \in {"idle", "start"}
        /\ (run' = run \/ run' = [run EXCEPT !.max = Remaining])
    BY <1>2 DEF CheckTarget, Finish
  <2>2. run'.todo = run.todo /\ run'.snap = run.snap /\ run'.liked = run.liked
    BY <1>0, <2>1 DEF Run
  <2> QED BY <2>1, <2>2
<1>3. CASE AfterRun BY <1>3 DEF AfterRun, Finish, NewRun
<1>4. CASE Begin BY <1>4 DEF Begin, NewRun
<1>5. CASE Kill BY <1>5 DEF Kill, Finish, NewRun
<1> QED BY <1>1, <1>2, <1>3, <1>4, <1>5

LEMMA StopEarlyResting ==
  ASSUME TypeInv, StopEarly, UNCHANGED <<clock, world>> PROVE Resting
<1>1. pc' = "ended" /\ run' = [[run EXCEPT !.stop = shown] EXCEPT !.code = StopCode(shown)]
  BY DEF StopEarly, End
<1>2. run'.todo = run.todo /\ run'.snap = run.snap /\ run'.liked = run.liked
  BY <1>1 DEF TypeInv, TypeOK, Run
<1> QED BY <1>1, <1>2 DEF Resting, InHand, clock, world, linkedIn

LEMMA RunResting ==
  ASSUME TypeInv, Raise \/ OpenFeed \/ Scroll \/ StartVerify
                  \/ (\E e \in run.unverified : VerifyPost(e)) \/ FinishRun
  PROVE  Resting
<1>0. run \in Run
  BY DEF TypeInv, TypeOK
<1>1. CASE Raise BY <1>0, <1>1, EndResting DEF Raise
<1>2. CASE FinishRun BY <1>0, <1>2, EndResting DEF FinishRun
<1> USE DEF Resting, InHand, clock, world, linkedIn
<1>3. CASE OpenFeed
  <2>1. ASSUME NEW n, pc' = "scan", run' = [run EXCEPT !.loaded = n] PROVE Resting
    BY <1>0, <1>3, <2>1 DEF OpenFeed, Run
  <2> QED BY <1>3, <2>1, StopEarlyResting DEF OpenFeed
<1>4. CASE Scroll BY <1>0, <1>4 DEF Scroll, Run
<1>5. CASE StartVerify BY <1>0, <1>5 DEF StartVerify, Run
<1>6. ASSUME NEW e \in run.unverified, VerifyPost(e) PROVE Resting
  BY <1>0, <1>6 DEF VerifyPost, Run
<1> QED BY <1>1, <1>2, <1>3, <1>4, <1>5, <1>6

\* Constant-level parts of the invariant.
LEMMA FeedIsFixed ==
  InHand' = InHand /\ OneButtonEach' = OneButtonEach /\ \A p : First(p)' = First(p)
BY DEF InHand, OneButtonEach, Matches, First, Key

LEMMA CollectFaithful == ASSUME TypeInv, Faithful, CollectFeedPosts PROVE Faithful'
<1>1. /\ run \in Run /\ pc' = "post" /\ UNCHANGED <<blind, reaction>>
      /\ run' = [run EXCEPT !.rounds = @ + 1, !.todo = Collected, !.snap = reaction, !.moved = FALSE]
  BY DEF CollectFeedPosts, TypeInv, TypeOK, world, linkedIn
<1>2. run'.todo = Collected /\ run'.snap = reaction /\ run'.liked = run.liked
  BY <1>1 DEF Run
<1>3. \A p \in Collected : First(p)
  BY DEF Collected, First
<1>4. pc' \notin InHand /\ pc' \notin {"pick", "click", "clicked"}
  BY <1>1 DEF InHand
<1>5. ASSUME OneButtonEach
      PROVE  \A e \in run'.liked : e.kind # "none" /\ (e.post \notin blind => reaction[e.post] = e.kind)
  BY <1>2, <1>5 DEF Faithful
<1> QED BY <1>1, <1>2, <1>3, <1>4, <1>5, FeedIsFixed DEF Faithful

LEMMA NextPostFaithful ==
  ASSUME TypeInv, Faithful, NEW p \in run.todo, NextPost(p) PROVE Faithful'
<1>1. UNCHANGED <<blind, reaction>>
  BY DEF NextPost, clock, world, linkedIn
<1>2. /\ run'.todo = run.todo \ {p} /\ run'.snap = run.snap /\ run'.liked = run.liked
      /\ pc' \in {"post", "pick", "click"}
      /\ pc' \in InHand => run'.cur = p /\ NoReaction(p)
  BY NextPostEffect DEF Treated, SameEntries
<1>3. /\ \A q \in run'.todo : First(q)
      /\ pc' \in InHand => First(run'.cur)
  BY <1>2 DEF Faithful
<1>4. ASSUME OneButtonEach
      PROVE  /\ \A q \in run'.todo : run'.snap[q] = reaction[q]
             /\ pc' \in InHand => run'.cur \notin run'.todo /\ reaction[run'.cur] = "none"
             /\ \A e \in run'.liked : e.kind # "none" /\ (e.post \notin blind => reaction[e.post] = e.kind)
  <2>1. run.snap[p] = reaction[p]
    BY <1>4 DEF Faithful
  <2> QED BY <1>2, <1>4, <2>1 DEF Faithful, NoReaction
<1>5. pc' \in {"pick", "click"} => pc' \in InHand
  BY DEF InHand
<1>6. pc' # "clicked"
  BY <1>2
<1> QED BY <1>1, <1>3, <1>4, <1>5, <1>6, FeedIsFixed DEF Faithful

\* What the two clicks do: the post in hand gets or loses a reaction, or nothing
\* happens; the label read tells of it, or is an old one, or nothing is read.  If the
\* picker's reaction is not seen, the post is blind from then on.
LEMMA ReactEffect ==
  ASSUME TypeInv, Faithful, PickReaction \/ ClickLike
  PROVE  /\ pc \in {"pick", "click"} /\ pc' \in {"click", "clicked"}
         /\ run'.todo = run.todo /\ run'.snap = run.snap /\ run'.liked = run.liked
         /\ run'.cur = run.cur /\ run.cur \in Posts /\ blind \subseteq blind'
         /\ OneButtonEach =>
              /\ \A q \in Posts : q # run.cur => reaction'[q] = reaction[q]
              /\ run.cur \notin blind => reaction'[run.cur] # "none" \/ reaction' = reaction
              /\ pc' = "clicked" => run'.label \in {"none", reaction[run.cur], reaction'[run.cur]}
              /\ pc' = "click" /\ run.cur \notin blind' => reaction'[run.cur] = "none"
<1>1. /\ run \in Run /\ pc \in InHand /\ reaction \in [Posts -> Reactions]
      /\ pc \in {"pick", "click"} /\ pc' \in {"click", "clicked"}
  BY DEF PickReaction, ClickLike, InHand, TypeInv, TypeOK
<1>2. run.cur \in 1..run.loaded /\ run.cur \in Posts /\ First(run.cur)
  BY <1>1, PostsAreNumbers DEF TypeInv, Cursor, Run, Urls, NoUrl, Faithful
<1>3. PICK label \in Labels(Hit(run.cur)) :
        \/ /\ pc' = "clicked"
           /\ run' = [run EXCEPT !.moved = TRUE, !.label = label, !.want = label]
        \/ /\ label = "none" /\ pc = "pick" /\ pc' = "click"
           /\ run' = [run EXCEPT !.moved = TRUE, !.want = "Like"]
           /\ reaction'[Hit(run.cur)] # "none" => Hit(run.cur) \in blind'
        \/ pc' = "clicked" /\ run' = [run EXCEPT !.moved = TRUE, !.label = label]
  BY DEF PickReaction, ClickLike
<1>4. /\ run'.todo = run.todo /\ run'.snap = run.snap /\ run'.liked = run.liked
      /\ run'.cur = run.cur /\ (pc' = "clicked" => run'.label = label)
  <2>1. CASE pc' = "clicked" /\ run' = [run EXCEPT !.moved = TRUE, !.label = label, !.want = label]
    BY <1>1, <2>1 DEF Run
  <2>2. CASE pc' = "click" /\ run' = [run EXCEPT !.moved = TRUE, !.want = "Like"]
    BY <1>1, <2>2 DEF Run
  <2>3. CASE pc' = "clicked" /\ run' = [run EXCEPT !.moved = TRUE, !.label = label]
    BY <1>1, <2>3 DEF Run
  <2> QED BY <1>3, <2>1, <2>2, <2>3
<1>5. blind \subseteq blind'
  BY DEF PickReaction, ClickLike
<1>6. ASSUME OneButtonEach
      PROVE  /\ \A q \in Posts : q # run.cur => reaction'[q] = reaction[q]
             /\ run.cur \notin blind => reaction'[run.cur] # "none" \/ reaction' = reaction
             /\ pc' = "clicked" => run'.label \in {"none", reaction[run.cur], reaction'[run.cur]}
             /\ pc' = "click" /\ run.cur \notin blind' => reaction'[run.cur] = "none"
  <2>1. Hit(run.cur) = run.cur
    BY <1>2, <1>6, OwnButton DEF TypeInv
  <2>2. run.cur \notin blind => reaction[run.cur] = "none"
    BY <1>1, <1>6 DEF Faithful
  <2>3. \/ reaction' = reaction
        \/ \E kind \in Reactions \ {"none"} : reaction' = [reaction EXCEPT ![run.cur] = kind]
        \/ reaction[run.cur] # "none" /\ reaction' = [reaction EXCEPT ![run.cur] = "none"]
    <3>1. CASE PickReaction
      BY <2>1, <3>1 DEF PickReaction, React, linkedIn
    <3>2. CASE ClickLike
      <4>1. "Like" \in Reactions \ {"none"}
        BY DEF Reactions
      <4>2. UNCHANGED reaction \/ React(run.cur, IF reaction[run.cur] = "none" THEN "Like" ELSE "none")
        BY <2>1, <3>2 DEF ClickLike, linkedIn
      <4> QED BY <4>1, <4>2 DEF React
    <3> QED BY <3>1, <3>2
  <2>4. /\ \A q \in Posts : q # run.cur => reaction'[q] = reaction[q]
        /\ run.cur \notin blind => reaction'[run.cur] # "none" \/ reaction' = reaction
    BY <1>1, <1>2, <2>2, <2>3
  <2>5. label \in {"none", reaction[run.cur], reaction'[run.cur]}
    BY <1>3, <2>1 DEF Labels
  <2>6. pc' = "click" /\ run.cur \notin blind' => reaction'[run.cur] = "none"
    BY <1>3, <2>1
  <2> QED BY <1>4, <2>4, <2>5, <2>6
<1> QED BY <1>1, <1>2, <1>4, <1>5, <1>6

LEMMA ReactFaithful == ASSUME TypeInv, Faithful, PickReaction \/ ClickLike PROVE Faithful'
<1>1. /\ pc \in {"pick", "click"} /\ pc \in InHand /\ pc' \in {"click", "clicked"}
      /\ run'.todo = run.todo /\ run'.snap = run.snap /\ run'.liked = run.liked
      /\ run'.cur = run.cur /\ run.cur \in Posts /\ blind \subseteq blind'
  BY ReactEffect DEF InHand
<1>2. First(run'.cur) /\ \A p \in run'.todo : First(p)
  BY <1>1 DEF Faithful
<1>3. ASSUME OneButtonEach
      PROVE  /\ \A p \in run'.todo : run'.snap[p] = reaction'[p]
             /\ run'.cur \notin run'.todo
             /\ pc' = "click" /\ run'.cur \notin blind' => reaction'[run'.cur] = "none"
             /\ pc' = "clicked" /\ run'.cur \notin blind' => run'.label \in {"none", reaction'[run'.cur]}
             /\ \A e \in run'.liked : e.kind # "none" /\ (e.post \notin blind' => reaction'[e.post] = e.kind)
  <2>1. /\ \A p \in run.todo : run.snap[p] = reaction[p]
        /\ run.cur \notin run.todo /\ (run.cur \notin blind => reaction[run.cur] = "none")
        /\ \A e \in run.liked : e.kind # "none" /\ (e.post \notin blind => reaction[e.post] = e.kind)
    BY <1>1, <1>3 DEF Faithful
  <2>2. /\ \A q \in Posts : q # run.cur => reaction'[q] = reaction[q]
        /\ run.cur \notin blind => reaction'[run.cur] # "none" \/ reaction' = reaction
        /\ pc' = "clicked" => run'.label \in {"none", reaction[run.cur], reaction'[run.cur]}
        /\ pc' = "click" /\ run.cur \notin blind' => reaction'[run.cur] = "none"
    BY <1>3, ReactEffect
  <2>3. run.todo \subseteq Posts /\ \A e \in run.liked : e.post \in Posts
    BY DEF TypeInv, TypeOK, Run, Entry
  <2>4. \A p \in run.todo : run.snap[p] = reaction'[p]
    BY <2>1, <2>2, <2>3
  <2>5. ASSUME NEW e \in run.liked, e.post \notin blind' PROVE reaction'[e.post] = e.kind
    <3>1. reaction[e.post] = e.kind /\ e.kind # "none" /\ e.post \in Posts
      BY <1>1, <2>1, <2>3, <2>5
    <3>2. e.post # run.cur
      BY <1>1, <2>1, <2>5, <3>1
    <3> QED BY <2>2, <3>1, <3>2
  <2> QED BY <1>1, <2>1, <2>2, <2>4, <2>5
<1> QED BY <1>1, <1>2, <1>3, FeedIsFixed DEF Faithful

\* The outcomes of Record: the run ends, or the next post's turn comes with the entry
\* or without.
LEMMA RecordEffect ==
  ASSUME TypeInv, Record
  PROVE  /\ pc = "clicked" /\ pc \in InHand /\ UNCHANGED <<clock, world, counted>>
         /\ \/ Resting
            \/ /\ pc' = "post" /\ Confirmed /\ run'.todo = run.todo /\ run'.snap = run.snap
               /\ run'.liked = run.liked \cup {[post |-> run.cur, url |-> run.url, kind |-> run.want]}
<1> DEFINE e == [post |-> run.cur, url |-> run.url, kind |-> run.want]
<1>1. run \in Run /\ pc = "clicked" /\ UNCHANGED <<clock, world, counted>>
  BY DEF Record, TypeInv, TypeOK
<1>2. CASE StopEarly
  BY <1>1, <1>2, StopEarlyResting DEF InHand
<1>3. ASSUME NEW l, Done(l)
      PROVE  pc' = "post" /\ run'.todo = run.todo /\ run'.snap = run.snap /\ run'.liked = l
  BY <1>1, <1>3 DEF Done, Run
<1>4. CASE Done(run.liked)
  BY <1>1, <1>3, <1>4 DEF Resting, InHand, world, linkedIn
<1>5. CASE Confirmed /\ Done(run.liked \cup {e})
  BY <1>1, <1>3, <1>5 DEF InHand
<1> QED BY <1>2, <1>4, <1>5 DEF Record

LEMMA RecordFaithful == ASSUME TypeInv, Faithful, Record PROVE Faithful'
<1> DEFINE e == [post |-> run.cur, url |-> run.url, kind |-> run.want]
<1>1. pc = "clicked" /\ UNCHANGED <<blind, reaction>>
  BY RecordEffect DEF world, linkedIn
<1>2. CASE Resting
  BY <1>2, RestingFaithful
<1>3. CASE /\ pc' = "post" /\ Confirmed /\ run'.todo = run.todo /\ run'.snap = run.snap
           /\ run'.liked = run.liked \cup {e}
  <2>1. pc' \notin InHand /\ pc' \notin {"pick", "click", "clicked"}
    BY <1>3 DEF InHand
  <2>2. e.post = run.cur /\ e.kind = run.want /\ run.want # "none"
    BY <1>1 DEF TypeInv, Cursor
  <2> HIDE DEF e
  <2>3. ASSUME OneButtonEach
        PROVE  /\ \A p \in run'.todo : run'.snap[p] = reaction[p]
               /\ \A f \in run'.liked : f.kind # "none" /\ (f.post \notin blind => reaction[f.post] = f.kind)
    BY <1>1, <1>3, <2>2, <2>3 DEF Faithful, Confirmed
  <2>4. \A p \in run'.todo : First(p)
    BY <1>3 DEF Faithful
  <2> QED BY <1>1, <2>1, <2>3, <2>4, FeedIsFixed DEF Faithful
<1> QED BY <1>2, <1>3, RecordEffect

LEMMA FaithfulStep == TypeInv /\ Faithful /\ [Next]_vars => Faithful'
<1> SUFFICES ASSUME TypeInv, Faithful, [Next]_vars PROVE Faithful'
  OBVIOUS
<1>1. CASE UNCHANGED <<blind, reaction, pc, run>>
  BY <1>1, FeedIsFixed DEF Faithful
<1>2. CASE NextUtcDay \/ NextLocalDay \/ ShowStop \/ LiftStop \/ UNCHANGED vars
  BY <1>1, <1>2 DEF NextUtcDay, NextLocalDay, ShowStop, LiftStop, vars, clock, world, linkedIn
<1>3. CASE Resting
  BY <1>3, RestingFaithful
<1> QED
  BY <1>2, <1>3, WrapperResting, RunResting, CollectFaithful, NextPostFaithful, ReactFaithful,
     RecordFaithful
  DEF Next, LoopStep

\* Two actions alone change reactions, and they click the button of a post that
\* the walk's snapshot, which still holds, shows without a reaction.
LEMMA OnlyAdds ==
  ASSUME TypeInv, Faithful, [Next]_vars, OneButtonEach, NEW p \in Posts \ blind,
         reaction[p] # "none"
  PROVE  reaction'[p] # "none"
<1>1. CASE UNCHANGED reaction
  BY <1>1
<1>2. CASE PickReaction \/ ClickLike
  BY <1>2, ReactEffect
<1>3. Record => UNCHANGED reaction
  BY RecordEffect DEF world, linkedIn
<1> QED
  BY <1>1, <1>2, <1>3, WrapperResting, RunResting
  DEF Next, LoopStep, Resting, CollectFeedPosts, NextPost, NextUtcDay, NextLocalDay,
      ShowStop, LiftStop, vars, clock, world, linkedIn

\* No step takes a reaction away, over kills, new runs, late labels and a menu that
\* does not open, for any feed whose posts can be told apart by their menus' labels;
\* but where the picker left a reaction that the program did not see, the Like button
\* is clicked after it and may take it away (linkedin_like_posts.py:467-495).
THEOREM NothingTakenAway == Spec => NeverUnlikes
<1> DEFINE Kept == OneButtonEach =>
                     \A p \in Posts \ blind : reaction[p] # "none" => reaction'[p] # "none"
<1>1. TypeInv /\ Faithful /\ [Next]_vars => [Kept]_vars
  BY OnlyAdds
<1> QED
  BY <1>1, TypeInit, TypeStep, FaithfulInit, FaithfulStep, PTL DEF Spec, NeverUnlikes

----------------------------------------------------------------------------
(* What is counted is different posts.                                     *)

\* Posts can be told apart, and no reaction of the picker went unseen.
Seen == OneButtonEach /\ blind = {}

\* The walk's snapshot holds; a reaction that the post in hand has was made by the
\* program, and the label is not an old one; the entries are of different posts that
\* have a reaction, and of others than the one in hand.
Tracked ==
  Seen =>
    /\ \A p \in run.todo : run.snap[p] = reaction[p]
    /\ pc \in InHand =>
         /\ run.cur \notin run.todo
         /\ reaction[run.cur] # "none" => run.cur \in made
         /\ \A e \in run.liked : e.post # run.cur
    /\ pc = "clicked" => run.label \in {"none", reaction[run.cur]}
    /\ \A e \in run.liked : e.post \in made /\ reaction[e.post] # "none"
    /\ \A e, f \in run.liked : e.post = f.post => e = f

\* The posts, each with the day on which it was counted, or 0: they have a reaction,
\* the program made it, and what a run still has in hand or in its list is not
\* counted yet.
Booked(on) ==
  /\ \A p \in Posts : on[p] # 0 => p \in made /\ reaction[p] # "none"
  /\ pc \in InHand => on[run.cur] = 0
  /\ pc # "ended" => \A e \in run.liked : on[e.post] = 0
  /\ \A d \in Day : counted[d] <= (IF d = 1 THEN Earlier ELSE 0)
                                + Cardinality({p \in Posts : on[p] = d})

Booking == [Posts -> 0..MaxDay]
Tallied == Seen => \E on \in Booking : Booked(on)

LEMMA TrackedInit == Init => Tracked
BY DEF Init, NewRun, Tracked, InHand

LEMMA TalliedInit == Init => Tallied
<1> SUFFICES ASSUME Init PROVE \E on \in Booking : Booked(on)
  BY DEF Tallied
<1> DEFINE on == [p \in Posts |-> 0]
<1>1. on \in Booking
  BY NumberAssumption DEF Booking
<1>2. \A d \in Day : {p \in Posts : on[p] = d} = {}
  BY DEF Day
<1>3. run.liked = {} /\ pc = "idle"
  BY DEF Init, NewRun
<1>4. \A d \in Day : counted[d] <= (IF d = 1 THEN Earlier ELSE 0)
                                + Cardinality({p \in Posts : on[p] = d})
  BY <1>2, FS_EmptySet, NumberAssumption DEF Init
<1>5. \A p \in Posts : on[p] = 0
  OBVIOUS
<1> HIDE DEF on
<1>6. Booked(on)
  BY <1>3, <1>4, <1>5 DEF Booked, InHand
<1> QED BY <1>1, <1>6

\* A resting step that neither counts nor goes on from a run's end with its entries.
Quiet ==
  /\ Resting /\ UNCHANGED <<made, counted>>
  /\ run'.liked = {} \/ pc # "ended"

LEMMA RestingTracked == ASSUME Tracked, Resting, made' = made PROVE Tracked'
<1> SUFFICES ASSUME Seen PROVE Tracked'
  BY FeedIsFixed DEF Tracked, Seen, Resting
<1>1. /\ \A p \in run'.todo : run'.snap[p] = reaction'[p]
      /\ \A e \in run'.liked : e.post \in made' /\ reaction'[e.post] # "none"
      /\ \A e, f \in run'.liked : e.post = f.post => e = f
  BY DEF Tracked, Resting
<1>2. pc' \notin InHand /\ pc' # "clicked"
  BY DEF Resting, InHand
<1> QED BY <1>1, <1>2, FeedIsFixed DEF Tracked

LEMMA QuietBooked == ASSUME NEW on \in Booking, Booked(on), Quiet PROVE Booked(on)'
<1>1. /\ \A p \in Posts : on[p] # 0 => p \in made' /\ reaction'[p] # "none"
      /\ \A d \in Day : counted'[d] <= (IF d = 1 THEN Earlier ELSE 0)
                                     + Cardinality({p \in Posts : on[p] = d})
  BY DEF Booked, Quiet, Resting
<1>2. \A e \in run'.liked : on[e.post] = 0
  BY DEF Booked, Quiet, Resting
<1>3. pc' \notin InHand
  BY DEF Quiet, Resting
<1> QED BY <1>1, <1>2, <1>3, FeedIsFixed DEF Booked

LEMMA QuietSteps ==
  ASSUME TypeInv,
         StartLoop \/ CheckTarget \/ AfterRun \/ Begin \/ Kill \/ Raise \/ OpenFeed
           \/ Scroll \/ StartVerify \/ (\E e \in run.unverified : VerifyPost(e))
  PROVE  Quiet
<1>1. Resting
  BY WrapperResting, RunResting
<1>2. UNCHANGED <<made, counted>>
  BY DEF StartLoop, CheckTarget, AfterRun, Begin, Kill, Raise, OpenFeed, Scroll, StartVerify,
         VerifyPost, world, linkedIn
<1>3. (AfterRun \/ Kill) => run'.liked = {}
  BY DEF AfterRun, Kill, NewRun
<1>4. ~(AfterRun \/ Kill) => pc # "ended"
  BY DEF StartLoop, CheckTarget, Begin, Raise, OpenFeed, Scroll, StartVerify, VerifyPost
<1> QED BY <1>1, <1>2, <1>3, <1>4 DEF Quiet

LEMMA CollectTallied ==
  ASSUME TypeInv, CollectFeedPosts
  PROVE  (Tracked => Tracked') /\ \A on \in Booking : Booked(on) => Booked(on)'
<1>1. /\ run \in Run /\ pc = "scan" /\ pc' = "post" /\ UNCHANGED <<world, counted>>
      /\ run' = [run EXCEPT !.rounds = @ + 1, !.todo = Collected, !.snap = reaction, !.moved = FALSE]
  BY DEF CollectFeedPosts, TypeInv, TypeOK
<1>2. run'.todo = Collected /\ run'.snap = reaction /\ run'.liked = run.liked
  BY <1>1 DEF Run
<1>3. /\ UNCHANGED <<reaction, made, blind, counted>>
      /\ pc' \notin InHand /\ pc' # "clicked" /\ pc # "ended"
  BY <1>1 DEF world, linkedIn, InHand
<1>4. Tracked => Tracked'
  BY <1>2, <1>3, FeedIsFixed DEF Tracked, Seen
<1>5. ASSUME NEW on \in Booking, Booked(on) PROVE Booked(on)'
  BY <1>2, <1>3, <1>5, FeedIsFixed DEF Booked
<1> QED BY <1>4, <1>5

LEMMA NextPostTallied ==
  ASSUME TypeInv, NEW p \in run.todo, NextPost(p), Tracked
  PROVE  Tracked' /\ (Seen => \A on \in Booking : Booked(on) => Booked(on)')
<1>1. UNCHANGED <<blind, reaction, made, counted>> /\ pc = "post" /\ p \in Posts
  BY DEF NextPost, world, linkedIn, TypeInv, TypeOK, Run
<1>2. /\ run'.todo = run.todo \ {p} /\ run'.snap = run.snap /\ run'.liked = run.liked
      /\ pc' \in {"post", "pick", "click"}
      /\ pc' \in InHand => run'.cur = p /\ run.snap[p] = "none"
  BY NextPostEffect DEF Treated, SameEntries, NoReaction
<1>3. ASSUME Seen
      PROVE  /\ \A q \in run'.todo : run'.snap[q] = reaction[q]
             /\ pc' \in InHand => run'.cur \notin run'.todo /\ reaction[run'.cur] = "none"
             /\ \A e \in run'.liked : e.post \in made /\ reaction[e.post] # "none"
             /\ \A e, f \in run'.liked : e.post = f.post => e = f
  <2>1. run.snap[p] = reaction[p]
    BY <1>3 DEF Tracked
  <2> QED BY <1>2, <1>3, <2>1 DEF Tracked
<1>4. pc' # "clicked"
  BY <1>2
<1>5. Tracked'
  <2> SUFFICES ASSUME Seen PROVE Tracked'
    BY <1>1, FeedIsFixed DEF Tracked, Seen
  <2>1. pc' \in InHand => \A e \in run'.liked : e.post # run'.cur
    BY <1>3
  <2> QED BY <1>1, <1>3, <1>4, <2>1, FeedIsFixed DEF Tracked
<1>6. ASSUME Seen, NEW on \in Booking, Booked(on) PROVE Booked(on)'
  <2>1. pc' \in InHand => on[run'.cur] = 0
    BY <1>1, <1>2, <1>3, <1>6 DEF Booked
  <2>2. \A e \in run'.liked : on[e.post] = 0
    BY <1>1, <1>2, <1>6 DEF Booked
  <2> QED BY <1>1, <1>6, <2>1, <2>2, FeedIsFixed DEF Booked
<1> QED BY <1>5, <1>6

\* What the program knows of a post it reacts to, when it saw all the picker did: the
\* post had no reaction, and has none now or one that the program made; the label read
\* is not an old one.
LEMMA OwnReaction ==
  ASSUME TypeInv, Faithful, PickReaction \/ ClickLike, OneButtonEach, blind' = {}
  PROVE  /\ Seen /\ run.cur \in Posts /\ UNCHANGED counted /\ made \subseteq made'
         /\ \A q \in Posts : q # run.cur => reaction'[q] = reaction[q]
         /\ reaction[run.cur] = "none" /\ (reaction'[run.cur] # "none" => run.cur \in made')
         /\ pc' = "clicked" => run'.label \in {"none", reaction'[run.cur]}
<1>1. /\ pc \in {"pick", "click"} /\ run.cur \in Posts /\ blind = {}
      /\ \A q \in Posts : q # run.cur => reaction'[q] = reaction[q]
      /\ pc' = "clicked" => run'.label \in {"none", reaction[run.cur], reaction'[run.cur]}
  BY ReactEffect
<1>2. reaction[run.cur] = "none"
  BY <1>1 DEF Faithful
<1>3. Hit(run.cur) = run.cur
  <2>1. run.cur \in 1..run.loaded /\ First(run.cur)
    BY <1>1 DEF TypeInv, Cursor, InHand, Faithful
  <2> QED BY <2>1, OwnButton DEF TypeInv
<1>4. UNCHANGED linkedIn \/ \E kind \in Reactions : React(run.cur, kind)
  <2>1. "Like" \in Reactions /\ "none" \in Reactions
    BY DEF Reactions
  <2> QED BY <1>3, <2>1 DEF PickReaction, ClickLike
<1>5. made \subseteq made' /\ (reaction'[run.cur] # "none" => run.cur \in made')
  <2>1. CASE UNCHANGED linkedIn
    BY <1>2, <2>1 DEF linkedIn
  <2>2. ASSUME NEW kind \in Reactions, React(run.cur, kind)
        PROVE  made \subseteq made' /\ (reaction'[run.cur] # "none" => run.cur \in made')
    <3>1. reaction'[run.cur] = kind
      BY <1>1, <2>2 DEF React, TypeInv, TypeOK
    <3> QED BY <2>2, <3>1 DEF React
  <2> QED BY <1>4, <2>1, <2>2
<1>6. UNCHANGED counted
  BY DEF PickReaction, ClickLike
<1> QED BY <1>1, <1>2, <1>5, <1>6 DEF Seen

LEMMA ReactTallied ==
  ASSUME TypeInv, Faithful, Tracked, PickReaction \/ ClickLike
  PROVE  Tracked' /\ (Seen' => \A on \in Booking : Booked(on) => Booked(on)')
<1>1. /\ pc \in InHand /\ pc # "ended" /\ pc' \in {"click", "clicked"}
      /\ run'.todo = run.todo /\ run'.snap = run.snap /\ run'.liked = run.liked
      /\ run'.cur = run.cur
  BY ReactEffect DEF InHand
<1>2. Seen' => OneButtonEach /\ blind' = {}
  BY FeedIsFixed DEF Seen
<1>3. run.todo \subseteq Posts /\ \A e \in run.liked : e.post \in Posts
  BY DEF TypeInv, TypeOK, Run, Entry
<1>4. ASSUME Seen' PROVE Tracked'
  <2>1. Seen /\ \A q \in Posts : q # run.cur => reaction'[q] = reaction[q]
    BY <1>2, <1>4, OwnReaction
  <2>2. \A p \in run'.todo : run'.snap[p] = reaction'[p]
    BY <1>1, <1>3, <2>1 DEF Tracked
  <2>3. /\ run'.cur \notin run'.todo /\ (reaction'[run'.cur] # "none" => run'.cur \in made')
        /\ \A e \in run'.liked : e.post # run'.cur
    BY <1>1, <1>2, <1>4, <2>1, OwnReaction DEF Tracked
  <2>4. made \subseteq made'
    BY <1>2, <1>4, OwnReaction
  <2>5. /\ \A e \in run'.liked : e.post \in made' /\ reaction'[e.post] # "none"
        /\ \A e, f \in run'.liked : e.post = f.post => e = f
    BY <1>1, <1>3, <2>1, <2>4 DEF Tracked
  <2>6. pc' = "clicked" => run'.label \in {"none", reaction'[run'.cur]}
    BY <1>1, <1>2, <1>4, OwnReaction
  <2> QED BY <2>2, <2>3, <2>5, <2>6, FeedIsFixed DEF Tracked
<1>5. ASSUME Seen', NEW on \in Booking, Booked(on) PROVE Booked(on)'
  <2>1. on[run'.cur] = 0 /\ \A e \in run'.liked : on[e.post] = 0
    BY <1>1, <1>5 DEF Booked
  <2>2. /\ made \subseteq made' /\ UNCHANGED counted
        /\ \A q \in Posts : q # run.cur => reaction'[q] = reaction[q]
    BY <1>2, <1>5, OwnReaction
  <2>3. \A p \in Posts : on[p] # 0 => p \in made' /\ reaction'[p] # "none"
    BY <1>1, <1>5, <2>1, <2>2 DEF Booked
  <2> QED BY <1>5, <2>1, <2>2, <2>3, FeedIsFixed DEF Booked
<1>6. ~Seen' => Tracked'
  BY DEF Tracked
<1> QED BY <1>4, <1>5, <1>6

\* An entry is made when the label shows the reaction wanted.
LEMMA RecordTallied ==
  ASSUME TypeInv, Tracked, Record
  PROVE  Tracked' /\ (Seen => \A on \in Booking : Booked(on) => Booked(on)')
<1> DEFINE new == [post |-> run.cur, url |-> run.url, kind |-> run.want]
<1>1. pc = "clicked" /\ pc \in InHand /\ UNCHANGED <<made, reaction, blind, counted>>
  BY RecordEffect DEF world, linkedIn
<1>2. CASE Resting
  <2>1. Quiet
    BY <1>1, <1>2 DEF Quiet
  <2> QED BY <1>1, <1>2, <2>1, RestingTracked, QuietBooked
<1>3. CASE /\ pc' = "post" /\ Confirmed /\ run'.todo = run.todo /\ run'.snap = run.snap
           /\ run'.liked = run.liked \cup {new}
  <2>1. pc' \notin InHand /\ pc' # "clicked" /\ pc' # "ended" /\ pc # "ended"
    BY <1>1, <1>3 DEF InHand
  <2>2. new.post = run.cur /\ run.want # "none" /\ run.label = run.want
    BY <1>1, <1>3 DEF TypeInv, Cursor, Confirmed
  <2> HIDE DEF new
  <2>3. ASSUME Seen PROVE Tracked'
    <3>1. new.post \in made /\ reaction[new.post] # "none" /\ \A e \in run.liked : e.post # new.post
      BY <1>1, <2>2, <2>3 DEF Tracked
    <3>2. /\ \A p \in run'.todo : run'.snap[p] = reaction'[p]
          /\ \A e \in run'.liked : e.post \in made' /\ reaction'[e.post] # "none"
          /\ \A e, f \in run'.liked : e.post = f.post => e = f
      BY <1>1, <1>3, <2>3, <3>1 DEF Tracked
    <3> QED BY <2>1, <3>2, FeedIsFixed DEF Tracked
  <2>4. ASSUME Seen, NEW on \in Booking, Booked(on) PROVE Booked(on)'
    <3>1. \A e \in run'.liked : on[e.post] = 0
      BY <1>1, <1>3, <2>1, <2>2, <2>4 DEF Booked
    <3> QED BY <1>1, <2>1, <2>4, <3>1, FeedIsFixed DEF Booked
  <2>5. ~Seen => Tracked'
    BY <1>1, FeedIsFixed DEF Tracked, Seen
  <2> QED BY <2>3, <2>4, <2>5
<1> QED BY <1>2, <1>3, RecordEffect

\* The verified entries of a run, whose posts were not counted before, are counted on
\* the day of its run_dir.
LEMMA FinishBooks ==
  ASSUME TypeInv, Tracked, Seen, FinishRun, NEW on \in Booking, Booked(on)
  PROVE  \E m \in Booking : Booked(m)'
<1> DEFINE V == {e.post : e \in run.verified}
<1>1. /\ run \in Run /\ run.dir \in Day /\ run.verified \subseteq run.liked /\ IsFiniteSet(run.liked)
      /\ counted \in [Day -> Nat] /\ \A e \in run.verified : e.post \in Posts
  BY DEF TypeInv, TypeOK, Cursor, Run, Entry
<1>2. /\ UNCHANGED <<reaction, made>> /\ pc = "verify" /\ pc' = "ended"
      /\ counted' = [counted EXCEPT ![run.dir] = @ + Cardinality(run.verified)]
  BY DEF FinishRun, End, world, linkedIn
<1>3. V \subseteq Posts /\ IsFiniteSet(V) /\ IsFiniteSet(run.verified)
  <2>1. V \subseteq Posts /\ IsFiniteSet(run.verified)
    BY <1>1, FS_Subset
  <2> QED BY <2>1, FeedAssumption, FS_Subset
<1>4. Cardinality(run.verified) <= Cardinality(V)
  <2> DEFINE f == [e \in run.verified |-> e.post]
  <2>1. f \in [run.verified -> V]
    OBVIOUS
  <2>2. \A e, g \in run.verified : f[e] = f[g] => e = g
    BY <1>1 DEF Tracked
  <2> HIDE DEF f, V
  <2>3. f \in Injection(run.verified, V)
    BY <2>1, <2>2 DEF Injection, IsInjective
  <2> QED BY <1>3, <2>3, FS_Injection
<1>5. \A p \in V : on[p] = 0 /\ p \in made /\ reaction[p] # "none"
  BY <1>1, <1>2 DEF Booked, Tracked
<1> HIDE DEF V
<1>6. \E m \in Booking : \A p \in Posts : m[p] = IF p \in V THEN run.dir ELSE on[p]
  <2> DEFINE m == [p \in Posts |-> IF p \in V THEN run.dir ELSE on[p]]
  <2>1. m \in Booking
    BY <1>1 DEF Booking, Day
  <2> QED BY <2>1
<1>7. PICK m \in Booking : \A p \in Posts : m[p] = IF p \in V THEN run.dir ELSE on[p]
  BY <1>6
<1>8. \A p \in Posts : m[p] # 0 => p \in made' /\ reaction'[p] # "none"
  BY <1>2, <1>5, <1>7 DEF Booked
<1>9. ASSUME NEW d \in Day
      PROVE  counted'[d] <= (IF d = 1 THEN Earlier ELSE 0) + Cardinality({p \in Posts : m[p] = d})
  <2> DEFINE S == {p \in Posts : on[p] = d}
  <2>1. /\ counted[d] <= (IF d = 1 THEN Earlier ELSE 0) + Cardinality(S)
        /\ counted[d] \in Nat
    BY <1>1 DEF Booked
  <2>2. IsFiniteSet(S) /\ Cardinality(S) \in Nat
    <3>1. S \subseteq Posts
      OBVIOUS
    <3> QED BY <3>1, FeedAssumption, FS_Subset, FS_CardinalityType
  <2>3. CASE d # run.dir
    <3>1. {p \in Posts : m[p] = d} = S
      BY <1>5, <1>7, <2>3 DEF Day
    <3> QED BY <1>1, <1>2, <2>1, <2>3, <3>1
  <2>4. CASE d = run.dir
    <3>1. {p \in Posts : m[p] = d} = S \cup V /\ S \cap V = {}
      BY <1>3, <1>5, <1>7, <2>4 DEF Day
    <3> HIDE DEF S
    <3>2. Cardinality(S \cup V) = Cardinality(S) + Cardinality(V)
      <4>1. Cardinality({}) = 0 /\ Cardinality(V) \in Nat
        BY <1>3, FS_EmptySet, FS_CardinalityType
      <4>2. Cardinality(S \cup V) = Cardinality(S) + Cardinality(V) - Cardinality(S \cap V)
        BY <1>3, <2>2, FS_Union
      <4>3. Cardinality(S \cap V) = 0
        BY <3>1, <4>1
      <4> QED BY <2>2, <4>1, <4>2, <4>3
    <3>3. counted'[d] = counted[d] + Cardinality(run.verified)
      BY <1>1, <1>2, <2>4
    <3>4. Cardinality(V) \in Nat /\ Cardinality(run.verified) \in Nat
      BY <1>3, FS_CardinalityType
    <3> QED BY <1>4, <2>1, <2>2, <3>1, <3>2, <3>3, <3>4, NumberAssumption
  <2> QED BY <2>3, <2>4
<1>10. pc' \notin InHand
  BY <1>2 DEF InHand
<1> QED BY <1>2, <1>7, <1>8, <1>9, <1>10, FeedIsFixed DEF Booked

LEMMA TalliedStep ==
  TypeInv /\ Faithful /\ Tracked /\ Tallied /\ [Next]_vars => Tracked' /\ Tallied'
<1> SUFFICES ASSUME TypeInv, Faithful, Tracked, Tallied, [Next]_vars PROVE Tracked' /\ Tallied'
  OBVIOUS
<1>1. CASE UNCHANGED <<reaction, made, blind, counted, pc, run>>
  BY <1>1, FeedIsFixed DEF Tracked, Tallied, Booked, Seen
<1>2. CASE NextUtcDay \/ NextLocalDay \/ ShowStop \/ LiftStop \/ UNCHANGED vars
  BY <1>1, <1>2 DEF NextUtcDay, NextLocalDay, ShowStop, LiftStop, vars, world, linkedIn
<1>3. ASSUME Tracked', Seen' => Seen /\ \A on \in Booking : Booked(on) => Booked(on)'
      PROVE  Tracked' /\ Tallied'
  BY <1>3, FeedIsFixed DEF Tallied, Booking
<1>0. UNCHANGED blind => (Seen' <=> Seen)
  BY FeedIsFixed DEF Seen
<1>4. CASE Quiet
  BY <1>0, <1>3, <1>4, RestingTracked, QuietBooked DEF Quiet, Resting
<1>5. CASE CollectFeedPosts
  BY <1>0, <1>3, <1>5, CollectTallied DEF CollectFeedPosts, world
<1>6. CASE \E p \in run.todo : NextPost(p)
  BY <1>0, <1>3, <1>6, NextPostTallied DEF NextPost, world
<1>7. CASE PickReaction \/ ClickLike
  <2>1. Seen' => Seen
    BY <1>7, OwnReaction, FeedIsFixed DEF Seen
  <2> QED BY <1>3, <1>7, <2>1, ReactTallied
<1>8. CASE Record
  BY <1>0, <1>3, <1>8, RecordTallied DEF Record, world
<1>9. CASE FinishRun
  <2>1. Tracked'
    <3>1. made' = made
      BY <1>9 DEF FinishRun, world, linkedIn
    <3> QED BY <1>9, <3>1, RunResting, RestingTracked
  <2>2. Tallied'
    <3>1. UNCHANGED blind
      BY <1>9 DEF FinishRun, world
    <3> QED BY <1>0, <1>9, <3>1, FinishBooks, FeedIsFixed DEF Tallied, Booking
  <2> QED BY <2>1, <2>2
<1> QED
  BY <1>2, <1>4, <1>5, <1>6, <1>7, <1>8, <1>9, QuietSteps DEF Next, LoopStep

LEMMA TalliedCounts == ASSUME TypeInv, Tallied PROVE CountsAreReactions
<1> SUFFICES ASSUME OneButtonEach, blind = {}
             PROVE  \E on \in [made -> Day] :
                      \A d \in Day : counted[d] <= (IF d = 1 THEN Earlier ELSE 0)
                                                 + Cardinality({p \in made : on[p] = d})
  BY DEF CountsAreReactions
<1>1. PICK on \in Booking : Booked(on)
  BY DEF Tallied, Seen
<1> DEFINE m == [p \in made |-> IF on[p] = 0 THEN 1 ELSE on[p]]
<1>2. made \subseteq Posts /\ counted \in [Day -> Nat]
  BY DEF TypeInv, TypeOK
<1>3. m \in [made -> Day]
  BY <1>2, NumberAssumption DEF Booking, Day
<1>4. ASSUME NEW d \in Day
      PROVE  counted[d] <= (IF d = 1 THEN Earlier ELSE 0) + Cardinality({p \in made : m[p] = d})
  <2> DEFINE S == {p \in Posts : on[p] = d}
             T == {p \in made : m[p] = d}
  <2>1. S \subseteq T
    BY <1>1 DEF Booked, Day
  <2>2. IsFiniteSet(T)
    BY <1>2, FeedAssumption, FS_Subset
  <2>3. counted[d] <= (IF d = 1 THEN Earlier ELSE 0) + Cardinality(S)
    BY <1>1 DEF Booked
  <2> HIDE DEF S, T
  <2>4. Cardinality(S) <= Cardinality(T) /\ Cardinality(S) \in Nat /\ Cardinality(T) \in Nat
    BY <2>1, <2>2, FS_Subset, FS_CardinalityType
  <2>5. counted[d] <= (IF d = 1 THEN Earlier ELSE 0) + Cardinality(T)
    BY <1>2, <2>3, <2>4, NumberAssumption
  <2> QED BY <2>5 DEF T
<1> HIDE DEF m
<1> QED BY <1>3, <1>4

\* The status files tell no more than what happened: their counts of all days are of
\* different posts that the program reacted to, as long as it saw what the picker left,
\* and an entry is of a post that has that reaction, but for a post where it did not;
\* over killed, stopped and repeated runs and late labels, for any feed whose posts can
\* be told apart by their menus' labels.
THEOREM StatusTellsTruth == Spec => []StatusIsTrue
<1>1. TypeInv /\ Faithful /\ Tallied => StatusIsTrue
  BY TalliedCounts DEF StatusIsTrue, Faithful, EntriesAreReacted
<1> QED
  BY <1>1, TypeInit, TypeStep, FaithfulInit, FaithfulStep, TrackedInit, TalliedInit, TalliedStep,
     PTL DEF Spec
=============================================================================
