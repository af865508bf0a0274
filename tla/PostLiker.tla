----------------------------- MODULE PostLiker -----------------------------
(***************************************************************************)
(* services/PostLiker: run_unlocked.sh starts linkedin_like_posts.py again *)
(* and again until the day's target is verified; each run scrolls the feed *)
(* and reacts to every Stride-th post, then opens each post it reacted to  *)
(* and looks whether the reaction is there.                                *)
(*                                                                         *)
(* Posts are numbered in the order of the feed.  The container keeps local *)
(* time; the wrapper counts by the date in UTC.  SAFE_MODE and --no-verify *)
(* are not modelled, nor reactions made by hand while a run goes on.       *)
(***************************************************************************)
EXTENDS Integers, FiniteSets, FiniteSetsExt

CONSTANTS
  Posts,        \* 1..n, in the order of the feed
  AuthorOf,     \* the name in the label of a post's control menu
  PartOf,       \* the pairs of names of which the first one's label is a part of
                \* the second one's: "... by Google", "... by Google Cloud"
  Href,         \* the posts whose card shows the post's address
  Promoted,     \* the posts is_promoted_or_sponsored recognises
  Kinds,        \* what select_reaction may choose
  Stride,       \* 3 in the code
  Target,       \* LINKEDIN_LIKE_MAX
  Earlier,      \* reactions to other posts, already verified on the first day
  MaxAttempts,  \* LINKEDIN_LIKE_MAX_ATTEMPTS; 0 is "no limit"
  MaxRounds,    \* LINKEDIN_LIKE_MAX_SCROLLS
  StopsShown,   \* what LinkedIn may show instead of the feed
  Zones,        \* may the container's date be behind UTC's, as in the deployed zone?
  MaxDay,       \* bound: days
  MaxBlind      \* bound: posts on which the picker's reaction is not seen, once each

ASSUME FeedAssumption ==
  /\ IsFiniteSet(Posts) /\ Posts # {} /\ Posts = 1..Cardinality(Posts)
  /\ Href \subseteq Posts /\ Promoted \subseteq Posts
ASSUME KindAssumption == "Like" \in Kinds /\ Kinds \subseteq {"Like", "Celebrate"}
ASSUME NumberAssumption ==
  /\ Stride \in Nat \ {0} /\ Target \in Nat /\ Earlier \in 0..Target
  /\ MaxAttempts \in Nat /\ MaxRounds \in Nat /\ MaxDay \in Nat \ {0} /\ MaxBlind \in Nat
ASSUME FlagAssumption ==
  Zones \subseteq BOOLEAN /\ StopsShown \subseteq {"blocked", "login"}

VARIABLES
  behind,      \* the container's zone; this does not change
  utc, local,  \* today's date in UTC and in the container
  shown,       \* the stop LinkedIn shows, or "none"
  reaction,    \* LinkedIn: the account's reaction to each post
  made,        \* posts the program reacted to
  blind,       \* posts on which the picker left a reaction the program did not see
  counted,     \* verified entries in the status.json files, by the run_dir's date
  pc,          \* where the loop or its python run is
  loop,        \* the wrapper: attempts, and how it ended
  run          \* the python run

clock == <<behind, utc, local>>
linkedIn == <<shown, reaction, made>>
world == <<linkedIn, blind>>
vars == <<clock, world, counted, pc, loop, run>>

----------------------------------------------------------------------------
Day == 1..MaxDay
Reactions == {"none", "Like", "Celebrate"}
NoUrl == 0
Urls == Posts \cup {NoUrl}
NoPost == 0
Entry == [post : Posts, url : Urls, kind : Reactions]

\* max: --max-likes; dir: the date of run_dir; loaded: posts in the DOM; todo,
\* snap: the posts a round collected, and their labels then; pos: feed_position;
\* keys, urls: seen_post_keys, seen_urls; moved: was the page scrolled since?
Run == [max : Nat, dir : Day, rounds : Nat, loaded : Urls, todo : SUBSET Posts,
        snap : [Posts -> Reactions], pos : Nat,
        keys : SUBSET (Posts \X {"href", "menu"}), urls : SUBSET Posts,
        moved : BOOLEAN, cur : Posts \cup {NoPost}, url : Urls, want : Reactions,
        label : Reactions, liked : SUBSET Entry, unverified : SUBSET Entry,
        verified : SUBSET Entry, stop : {"none", "blocked", "login"},
        code : {0, 2, 12, 14}]

Points == {"idle", "loop", "start", "open", "scan", "post", "pick", "click",
           "clicked", "verify", "ended"}

\* Types; and no more entries than --max-likes asks for.
TypeOK ==
  /\ behind \in Zones /\ utc \in Day /\ local \in Day /\ local \in {utc, utc - 1}
  /\ shown \in {"none"} \cup StopsShown
  /\ reaction \in [Posts -> Reactions] /\ made \subseteq Posts /\ blind \subseteq Posts
  /\ counted \in [Day -> Nat] /\ pc \in Points
  /\ loop \in [attempts : Nat, ended : {"none", "target", "attempts", "block", "error"}]
  /\ run \in Run /\ Cardinality(run.liked) <= run.max

\* The state run() starts with (its argument; its run_dir by local date).
NewRun(n) ==
  [max |-> n, dir |-> local, rounds |-> 0, loaded |-> 0, todo |-> {},
   snap |-> [p \in Posts |-> "none"], pos |-> 0, keys |-> {}, urls |-> {},
   moved |-> FALSE, cur |-> NoPost, url |-> NoUrl, want |-> "none",
   label |-> "none", liked |-> {}, unverified |-> {}, verified |-> {},
   stop |-> "none", code |-> 0]

Init ==
  /\ behind \in Zones /\ utc = 1 /\ local = 1 /\ shown = "none" /\ made = {} /\ blind = {}
  /\ reaction \in [Posts -> {"none", "Like"}]
  /\ counted = [d \in Day |-> IF d = 1 THEN Earlier ELSE 0]
  /\ pc = "idle" /\ loop = [attempts |-> 0, ended |-> "none"]
  /\ run = NewRun(0)

----------------------------------------------------------------------------
(* The wrapper.                                                            *)

StartLoop ==
  /\ pc = "idle" /\ pc' = "loop" /\ loop' = [attempts |-> 0, ended |-> "none"]
  /\ UNCHANGED <<clock, world, counted, run>>

Finish(how) == pc' = "idle" /\ loop' = [loop EXCEPT !.ended = how]

\* Mutant: each run gets the whole target.
RemainingWhole == IF counted[utc] >= Target THEN 0 ELSE Target

\* remaining=$(( TARGET - current )), with verified_today's date.
Remaining == Target - counted[utc]

\* attempt=$(( attempt + 1 ))
Attempts == loop.attempts + 1

CheckTarget ==
  /\ pc = "loop"
  /\ CASE Remaining <= 0 -> Finish("target") /\ UNCHANGED run
       [] Remaining > 0 /\ MaxAttempts > 0 /\ Attempts > MaxAttempts ->
            Finish("attempts") /\ UNCHANGED run
       [] OTHER -> /\ pc' = "start" /\ run' = [run EXCEPT !.max = Remaining]
                   /\ loop' = [loop EXCEPT !.attempts = IF MaxAttempts = 0 THEN 0 ELSE Attempts]
  /\ UNCHANGED <<clock, world, counted>>

AfterRun ==
  /\ pc = "ended"
  /\ CASE counted[utc] >= Target -> Finish("target")
       [] counted[utc] < Target /\ run.code = 12 -> Finish("block")
       [] counted[utc] < Target /\ run.code \notin {0, 12} -> Finish("error")
       [] OTHER -> pc' = "loop" /\ UNCHANGED loop
  /\ run' = NewRun(0)
  /\ UNCHANGED <<clock, world, counted>>

----------------------------------------------------------------------------
(* A run's beginning and its ends.                                         *)

End(r, code) == pc' = "ended" /\ run' = [r EXCEPT !.code = code]

\* What main() makes of a stop_reason: "login_form" is not among the patterns.
StopCode(stop) == CASE stop = "none" -> 0 [] stop = "blocked" -> 12 [] stop = "login" -> 14

\* return status in the middle of run(): no status.json in run_dir.
StopEarly == End([run EXCEPT !.stop = shown], StopCode(shown))

Begin ==
  /\ pc = "start" /\ pc' = "open" /\ run' = NewRun(run.max)
  /\ UNCHANGED <<clock, world, counted, loop>>

\* An exception that reaches main(): no browser ("persistent context" or a
\* closed session), or outside the try around the click.
Raise ==
  /\ pc \in {"open", "scan", "post", "verify"}
  /\ \E code \in {14, 2} : End(run, code)
  /\ UNCHANGED <<clock, world, counted, loop>>

OpenFeed ==
  /\ pc = "open"
  /\ IF shown # "none" THEN StopEarly
     ELSE \E n \in 1..Cardinality(Posts) :
            pc' = "scan" /\ run' = [run EXCEPT !.loaded = n]
  /\ UNCHANGED <<clock, world, counted, loop>>

----------------------------------------------------------------------------
(* A round: what the page shows, collected once.                           *)

\* key: the address, else the label of the menu, which names the author.
Key(p) == IF p \in Href THEN <<p, "href">>
          ELSE <<Min({q \in Posts : AuthorOf[q] = AuthorOf[p]}), "menu">>

\* len(status["liked"]) >= max_likes
Full == Cardinality(run.liked) >= run.max

Collected ==
  {p \in 1..run.loaded : \A q \in 1..(p - 1) : Key(q) # Key(p)}

CollectFeedPosts ==
  /\ pc = "scan" /\ ~Full /\ run.rounds < MaxRounds
  /\ pc' = "post"
  /\ run' = [run EXCEPT !.rounds = @ + 1, !.todo = Collected, !.snap = reaction,
                        !.moved = FALSE]
  /\ UNCHANGED <<clock, world, counted, loop>>

\* What the menu opened at the post's old coordinates says: its own address,
\* none, or after the page moved whatever post is there now.
RecoverPostUrl(p) ==
  IF p \in Href THEN {p}
  ELSE {p, NoUrl} \cup (IF run.moved THEN 1..run.loaded ELSE {})

\* Mutant: a post with a reaction is a candidate too.
NoReactionAny(p) == TRUE

\* "noReaction" in the snapshot.
NoReaction(p) == run.snap[p] = "none"

\* The next post of the round: counted once by its key, then the reasons to
\* pass it over.
NextPost(p) ==
  /\ pc = "post" /\ p = Min(run.todo) /\ ~Full
  /\ LET r == [run EXCEPT !.todo = @ \ {p}, !.keys = @ \cup {Key(p)}, !.pos = @ + 1]
     IN IF Key(p) \in run.keys
        THEN pc' = "post" /\ run' = [run EXCEPT !.todo = @ \ {p}]
        ELSE IF p \in Promoted \/ (r.pos - 1) % Stride # 0
        THEN pc' = "post" /\ run' = r
        ELSE \E url \in RecoverPostUrl(p), kind \in Kinds :
               LET seen == [r EXCEPT !.urls = @ \cup ({url} \ {NoUrl})]
               IN IF url \in run.urls \/ ~NoReaction(p)
                  THEN pc' = "post" /\ run' = seen
                  ELSE /\ pc' = IF kind = "Like" THEN "click" ELSE "pick"
                       /\ run' = [seen EXCEPT !.cur = p, !.url = url,
                                              !.want = kind, !.label = "none"]
  /\ UNCHANGED <<clock, world, counted, loop>>

----------------------------------------------------------------------------
(* A reaction.                                                             *)

\* reaction_button_box, of a button and the post it is looked for: the menus have
\* the same label, or the post's key is its menu's label and holds the other one.
Matches(q, p) ==
  \/ AuthorOf[q] = AuthorOf[p]
  \/ p \notin Href /\ <<AuthorOf[q], AuthorOf[p]>> \in PartOf

\* Mutant: the last button that matches, not the first.
HitLast(p) == Max({q \in 1..run.loaded : Matches(q, p)})

\* The first button in the DOM that matches.
Hit(p) == Min({q \in 1..run.loaded : Matches(q, p)})

\* LinkedIn takes a reaction, or takes one away.
React(p, kind) ==
  /\ reaction' = [reaction EXCEPT ![p] = kind]
  /\ made' = IF kind = "none" THEN made ELSE made \cup {p}
  /\ UNCHANGED shown

\* What is read of the button's label after a click: what p has or, as the page
\* lags, had; nothing, when the button is not found or a call of Playwright fails.
Labels(p) == {"none", reaction[p], reaction'[p]}

\* The picker: it sets the reaction wanted, another one, or (no picker) none.
\* Another reaction than the wanted one is accepted when the label shows it; an
\* exception, also after the picker's click took effect, leads to the Like button.
PickReaction ==
  /\ pc = "pick"
  /\ LET p == Hit(run.cur)
     IN /\ \/ \E kind \in Reactions \ {"none"} : React(p, kind)
           \/ UNCHANGED linkedIn
        /\ \E label \in Labels(p) :
             \/ /\ label # "none" /\ pc' = "clicked" /\ UNCHANGED blind
                /\ run' = [run EXCEPT !.moved = TRUE, !.label = label, !.want = label]
             \/ /\ label = "none" /\ pc' = "click"
                /\ run' = [run EXCEPT !.moved = TRUE, !.want = "Like"]
                /\ IF reaction'[p] = "none" THEN UNCHANGED blind
                   ELSE p \notin blind /\ Cardinality(blind) < MaxBlind /\ blind' = blind \cup {p}
  /\ UNCHANGED <<clock, counted, loop>>

\* click_like_button: a click gives a Like, or takes a reaction away, or has
\* no effect (not found, not accepted); then the label is read.
ClickLike ==
  /\ pc = "click" /\ pc' = "clicked"
  /\ LET p == Hit(run.cur)
     IN /\ \/ React(p, IF reaction[p] = "none" THEN "Like" ELSE "none")
           \/ UNCHANGED linkedIn
        /\ \E label \in Labels(p) :
             run' = [run EXCEPT !.moved = TRUE, !.label = label]
  /\ UNCHANGED <<clock, blind, counted, loop>>

\* reaction_confirmed(aria, final_reaction)
Confirmed == run.label = run.want

\* The next post of the loop, with nothing in hand.
Done(liked) ==
  /\ pc' = "post"
  /\ run' = [run EXCEPT !.cur = NoPost, !.url = NoUrl, !.want = "none", !.label = "none",
                        !.liked = liked]

\* The stop check, then an entry in liked or in errors; or an exception on the
\* way, which is noted in errors.
Record ==
  /\ pc = "clicked"
  /\ \/ shown # "none" /\ StopEarly
     \/ /\ shown = "none" /\ Confirmed
        /\ Done(run.liked \cup {[post |-> run.cur, url |-> run.url, kind |-> run.want]})
     \/ shown = "none" /\ ~Confirmed /\ Done(run.liked)
     \/ Done(run.liked)
  /\ UNCHANGED <<clock, world, counted, loop>>

\* After the last post: the wheel, more posts, and the stop check, which here
\* leads to the verification.
Scroll ==
  /\ pc = "post" /\ run.todo = {} /\ ~Full
  /\ \E n \in run.loaded..Cardinality(Posts) :
       IF shown = "none"
       THEN pc' = "scan" /\ run' = [run EXCEPT !.loaded = n]
       ELSE pc' = "verify" /\ run' = [run EXCEPT !.stop = shown, !.unverified = run.liked]
  /\ UNCHANGED <<clock, world, counted, loop>>

StartVerify ==
  /\ \/ pc = "post" /\ Full
     \/ pc = "scan" /\ (Full \/ run.rounds >= MaxRounds)
  /\ pc' = "verify" /\ run' = [run EXCEPT !.unverified = run.liked]
  /\ UNCHANGED <<clock, world, counted, loop>>

----------------------------------------------------------------------------
(* Verification, and the end.                                              *)

\* An entry without an address was confirmed on the feed; else its page is
\* opened: the reaction is there, or not seen, or the page is a stop.
VerifyPost(e) ==
  /\ pc = "verify" /\ e \in run.unverified /\ UNCHANGED pc
  /\ LET done == [run EXCEPT !.unverified = @ \ {e}]
     IN IF e.url = NoUrl THEN run' = [done EXCEPT !.verified = @ \cup {e}]
        ELSE IF shown # "none"
        THEN run' = [run EXCEPT !.unverified = {}, !.stop = "blocked"]
        ELSE \/ reaction[e.url] = e.kind /\ run' = [done EXCEPT !.verified = @ \cup {e}]
             \/ run' = done
  /\ UNCHANGED <<clock, world, counted, loop>>

\* status.json in run_dir: from now on verified_today sees the run.
FinishRun ==
  /\ pc = "verify" /\ run.unverified = {}
  /\ counted' = [counted EXCEPT ![run.dir] = @ + Cardinality(run.verified)]
  /\ End(run, StopCode(run.stop))
  /\ UNCHANGED <<clock, world, loop>>

----------------------------------------------------------------------------
(* The rest of the world.                                                  *)

\* The scheduler's timeout and cleanup, or a restart: no status.json, no exit code.
Kill ==
  /\ pc # "idle" /\ Finish("error") /\ run' = NewRun(0)
  /\ UNCHANGED <<clock, world, counted>>

NextUtcDay ==
  /\ utc < MaxDay /\ local = utc /\ utc' = utc + 1
  /\ local' = IF behind THEN local ELSE local + 1
  /\ UNCHANGED <<behind, world, counted, pc, loop, run>>

NextLocalDay ==
  /\ local < utc /\ local' = local + 1
  /\ UNCHANGED <<behind, utc, world, counted, pc, loop, run>>

ShowStop ==
  /\ shown = "none" /\ shown' \in StopsShown
  /\ UNCHANGED <<clock, reaction, made, blind, counted, pc, loop, run>>

LiftStop ==
  /\ shown # "none" /\ pc = "idle" /\ shown' = "none"
  /\ UNCHANGED <<clock, reaction, made, blind, counted, pc, loop, run>>

LoopStep ==
  \/ CheckTarget \/ AfterRun \/ Begin \/ OpenFeed \/ CollectFeedPosts
  \/ \E p \in run.todo : NextPost(p)
  \/ PickReaction \/ ClickLike \/ Record \/ Scroll \/ StartVerify
  \/ \E e \in run.unverified : VerifyPost(e)
  \/ FinishRun

Next == StartLoop \/ LoopStep \/ Raise \/ Kill
        \/ NextUtcDay \/ NextLocalDay \/ ShowStop \/ LiftStop

Spec == Init /\ [][Next]_vars

----------------------------------------------------------------------------
(* Properties.                                                             *)

\* The wrapper stops at the target ("[DOD] PostLiker target reached",
\* run_unlocked.sh:52): no day has more verified reactions than LINKEDIN_LIKE_MAX,
\* as long as the container's date is the date in UTC.
CountedUnderTarget == ~behind => \A d \in Day : counted[d] <= Target

\* A post's button is found by the label of its menu only where that tells it from
\* the other posts': no label is a part of another's, and of the posts by one author
\* none shows its address (where one does, they have keys of their own but the label
\* in common, and the first one's button is clicked for the other).
OneButtonEach ==
  \A p, q \in Posts :
    p # q /\ Matches(q, p) => AuthorOf[p] = AuthorOf[q] /\ p \notin Href

\* What the status files count as verified are different posts the program
\* reacted to: they can be told apart, on each day some of those posts and on no
\* other day the same.  Nothing is counted twice, over runs that were killed,
\* stopped or started again (linkedin_like_posts.py:681-696, run_unlocked.sh:21-45),
\* as long as the program saw the reactions the picker left.
CountsAreReactions ==
  OneButtonEach /\ blind = {} =>
    \E on \in [made -> Day] :
      \A d \in Day : counted[d] <= (IF d = 1 THEN Earlier ELSE 0)
                                 + Cardinality({p \in made : on[p] = d})

\* An entry in "liked" is a post that has that reaction
\* (linkedin_like_posts.py:640-668), whatever the labels said in between; but for
\* posts on which the program did not see what the picker had done.
EntriesAreReacted ==
  OneButtonEach => \A e \in run.liked : e.post \notin blind => reaction[e.post] = e.kind

\* No step takes a reaction away: the button toggles, so a click too many would
\* (click_like_button, click_reaction_for_post).  It does so on one path alone: the
\* picker left a reaction, an exception or a late label hid it, and the Like button
\* was clicked after it (linkedin_like_posts.py:467-495).
NeverUnlikes ==
  [][OneButtonEach =>
       \A p \in Posts \ blind : reaction[p] # "none" => reaction'[p] # "none"]_vars

\* The status files, which the day's count is made of, tell no more than what
\* happened on LinkedIn, in number and post by post.
StatusIsTrue == CountsAreReactions /\ EntriesAreReacted
=============================================================================
