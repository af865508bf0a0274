--------------------------- MODULE Browser_proofs ---------------------------
(***************************************************************************)
(* Theorems about CentralAuth (what the backup holds, for any number of    *)
(* helpers, with crashes and failures) and about CdpProxy (what a handler  *)
(* leaves behind when it ends, for any number of chunks and any buffer).   *)
(***************************************************************************)
EXTENDS MCBrowser, TLAPS

Step(h) ==
  \/ Start(h) \/ Check(h) \/ Unlink(h) \/ Open(h) \/ Write(h) \/ Chmod(h) \/ Replace(h)
  \/ Close(h) \/ Crash(h)

Turn == \E state \in States : AccountTurns(state)

LEMMA NextIsSteps == Next <=> (\E h \in Helpers : Step(h)) \/ Turn
BY DEF Next, Step, Turn

----------------------------------------------------------------------------
(* Types.                                                                  *)

LEMMA TypeInit == Init => TypeOK
BY NothingAssumption DEF Init, TypeOK, States, Names, Points, Codes, Content, Blank

LEMMA TypeStep == TypeOK /\ [Next]_vars => TypeOK'
<1> SUFFICES ASSUME TypeOK, [Next]_vars PROVE TypeOK'
  OBVIOUS
<1> USE NothingAssumption DEF TypeOK, States, Names, Points, Codes, Go, Return
<1>1. CASE UNCHANGED vars
  BY <1>1 DEF vars
<1>2. CASE Turn
  BY <1>2 DEF Turn, AccountTurns
<1>3. ASSUME NEW h \in Helpers, Step(h) PROVE TypeOK'
  <2>1. CASE Start(h)
    <3>1. /\ pc' \in [Helpers -> Points] /\ code' \in [Helpers -> Codes]
          /\ page' \in [Helpers -> {"none", "open", "stuck"}]
      BY <2>1 DEF Start
    <3>2. met' \subseteq Helpers
      BY <2>1 DEF Start
    <3>3. UNCHANGED <<account, opened, tmp, backup, content, turned, hidden>>
      BY <2>1 DEF Start
    <3> QED BY <3>1, <3>2, <3>3
  <2>2. CASE Check(h) BY <2>2 DEF Check, CodeOfPage
  <2>3. CASE Unlink(h) BY <2>3 DEF Unlink
  <2>4. CASE Open(h)
    <3>1. CASE Return(h, "security") /\ UNCHANGED <<opened, tmp, backup, content>>
      BY <2>4, <3>1 DEF Open
    <3>2. CASE Opens(h) /\ Go(h, "write")
      <4>1. /\ opened' \in [Helpers -> Names] /\ opened'[h] \in Helpers
            /\ tmp' \in Names /\ backup' = backup
            /\ tmp' = opened'[h]
        BY <3>2 DEF Opens
      <4>2. PICK t \in {"partial", "mixed"} :
              content' = [content EXCEPT ![opened'[h]] = [text |-> t, session |-> account]]
        BY <2>4, <3>2 DEF Open
      <4>3. [text |-> t, session |-> account] \in Content
        BY DEF Content
      <4>4. content' \in [Helpers -> Content]
        BY <4>1, <4>2, <4>3
      <4>5. \A f \in {tmp', backup'} \ {Nothing} : content'[f].text # "none"
        BY <4>1, <4>2, <4>3
      <4> QED BY <2>4, <3>2, <4>1, <4>4, <4>5 DEF Open
    <3> QED BY <2>4, <3>1, <3>2 DEF Open
  <2>5. CASE Write(h)
    <3>1. CASE UNCHANGED content
      BY <2>5, <3>1 DEF Write
    <3>2. CASE content' = [content EXCEPT ![opened[h]].text = IF @ = "partial" THEN "whole" ELSE @]
      <4> DEFINE g(f) == [content[f] EXCEPT !.text = IF @ = "partial" THEN "whole" ELSE @]
      <4>1. \A f \in Helpers : content[f] \in Content
        OBVIOUS
      <4>2. \A f \in Helpers : g(f) \in Content /\ (content[f].text # "none" => g(f).text # "none")
        BY <4>1 DEF Content
      <4>3. content' = [f \in Helpers |-> IF f = opened[h] THEN g(f) ELSE content[f]]
        BY <3>2
      <4> HIDE DEF g
      <4>4. content' \in [Helpers -> Content]
        BY <4>1, <4>2, <4>3
      <4>5. \A f \in Helpers : content[f].text # "none" => content'[f].text # "none"
        BY <4>2, <4>3
      <4> QED BY <2>5, <4>4, <4>5 DEF Write
    <3> QED BY <2>5, <3>1, <3>2 DEF Write
  <2>6. CASE Chmod(h) BY <2>6 DEF Chmod
  <2>7. CASE Replace(h) BY <2>7 DEF Replace
  <2>8. CASE Close(h) BY <2>8 DEF Close
  <2>9. CASE Crash(h) BY <2>9 DEF Crash
  <2> QED BY <1>3, <2>1, <2>2, <2>3, <2>4, <2>5, <2>6, <2>7, <2>8, <2>9 DEF Step
<1> QED BY <1>1, <1>2, <1>3, NextIsSteps

\* The variables have their types, and a file with a name has been created, in
\* every reachable state of the helpers.
THEOREM TypeCorrect == Spec => []TypeOK
BY TypeInit, TypeStep, PTL DEF Spec

----------------------------------------------------------------------------
(* The backup is whole.                                                    *)

\* While no two helpers have met, one runs; until it opens its file no name leads
\* there, from then to the rename the temporary name does, and what it leaves there
\* when it fails is never renamed.
Alone ==
  /\ \A g, h \in Helpers : Running(g) /\ Running(h) => g = h
  /\ \A h \in Helpers : pc[h] \in {"idle", "check", "unlink", "open"} => tmp # h /\ backup # h
  /\ \A h \in Helpers : pc[h] = "open" => tmp = Nothing
  /\ \A h \in Helpers : pc[h] = "write" =>
       opened[h] = h /\ tmp = h /\ backup # h /\ content[h].text = "partial"
  /\ \A h \in Helpers : pc[h] \in {"chmod", "replace"} => tmp = h /\ content[h].text = "whole"
  /\ backup # Nothing => content[backup].text = "whole"

Exports == met = {} => Alone

LEMMA ExportsInit == Init => Exports
BY NothingAssumption DEF Init, Exports, Alone, Running

LEMMA ExportsStep == TypeOK /\ Exports /\ [Next]_vars => Exports'
<1> SUFFICES ASSUME TypeOK, Alone, [Next]_vars, met = {}, met' = {} PROVE Alone'
  <2>1. [Next]_vars /\ met' = {} => met = {}
    BY NextIsSteps DEF Step, Turn, vars, Start, Check, Unlink, Open, Write, Chmod, Replace,
                       Close, Crash, AccountTurns
  <2> QED BY <2>1 DEF Exports
<1> USE NothingAssumption DEF TypeOK, Names, Points, Alone, Running, Go, Return
<1>1. CASE UNCHANGED vars
  BY <1>1 DEF vars
<1>2. CASE Turn
  BY <1>2 DEF Turn, AccountTurns
<1>3. ASSUME NEW h \in Helpers, Step(h) PROVE Alone'
  <2>1. CASE Start(h)
    <3>1. \A g \in Helpers : ~Running(g)
      BY <2>1 DEF Start
    <3>2. /\ pc[h] = "idle" /\ pc'[h] \in {"check", "close"}
          /\ \A g \in Helpers \ {h} : pc'[g] = pc[g]
      BY <2>1 DEF Start
    <3>3. UNCHANGED <<account, opened, tmp, backup, content, turned, hidden>>
      BY <2>1 DEF Start
    <3> QED BY <3>1, <3>2, <3>3
  <2>2. CASE Check(h) BY <2>2 DEF Check, CodeOfPage
  <2>3. CASE Unlink(h) BY <2>3 DEF Unlink
  <2>4. CASE Open(h)
    <3>1. CASE Return(h, "security") /\ UNCHANGED <<opened, tmp, backup, content>>
      BY <2>4, <3>1 DEF Open
    <3>2. CASE Opens(h) /\ Go(h, "write")
      <4>1. pc[h] = "open" /\ tmp' = h /\ opened' = [opened EXCEPT ![h] = h] /\ backup' = backup
        BY <2>4, <3>2 DEF Open, Opens
      <4>2. {g \in Helpers : pc[g] = "write" /\ opened[g] = opened'[h]} = {}
        BY <4>1
      <4>3. content' = [content EXCEPT ![h] = [text |-> "partial", session |-> account]]
        BY <2>4, <3>2, <4>1, <4>2 DEF Open
      <4>4. content'[h].text = "partial" /\ \A f \in Helpers \ {h} : content'[f] = content[f]
        BY <4>3
      <4> QED BY <2>4, <3>2, <4>1, <4>4 DEF Open
    <3> QED BY <2>4, <3>1, <3>2 DEF Open
  <2>5. CASE Write(h)
    <3>1. CASE Return(h, "security") /\ UNCHANGED content
      BY <2>5, <3>1 DEF Write
    <3>2. CASE /\ Go(h, "chmod")
               /\ content' = [content EXCEPT ![opened[h]].text =
                                IF @ = "partial" THEN "whole" ELSE @]
      <4>1. pc[h] = "write" /\ opened[h] = h /\ tmp = h /\ backup # h
        BY <2>5 DEF Write
      <4>2. content'[h].text = "whole" /\ \A f \in Helpers \ {h} : content'[f] = content[f]
        BY <3>2, <4>1 DEF Content
      <4> QED BY <2>5, <3>2, <4>1, <4>2 DEF Write
    <3> QED BY <2>5, <3>1, <3>2 DEF Write
  <2>6. CASE Chmod(h) BY <2>6 DEF Chmod
  <2>7. CASE Replace(h) BY <2>7 DEF Replace
  <2>8. CASE Close(h) BY <2>8 DEF Close
  <2>9. CASE Crash(h) BY <2>9 DEF Crash
  <2> QED BY <1>3, <2>1, <2>2, <2>3, <2>4, <2>5, <2>6, <2>7, <2>8, <2>9 DEF Step
<1> QED BY <1>1, <1>2, <1>3, NextIsSteps

\* The backup is one whole snapshot at every moment, whatever crashes or fails, as
\* long as no two helpers have run at once (central_auth.py:7).
THEOREM BackupWhole == Spec => []WholeSnapshot
<1>1. Exports => WholeSnapshot
  BY DEF Exports, Alone, WholeSnapshot
<1> QED
  BY <1>1, TypeInit, TypeStep, ExportsInit, ExportsStep, PTL DEF Spec

----------------------------------------------------------------------------
(* The backup is of a signed-in account.                                   *)

\* While the account has stayed as it was checked and no wall was hidden, every file
\* that was written has the session of a signed-in account, also one that is partial
\* or mixed.
Signed ==
  /\ \A f \in Helpers : content[f].text # "none" => content[f].session # "none"
  /\ turned \cup hidden = {} => \A h \in Helpers : pc[h] \in {"unlink", "open"} => account = "in"
  /\ turned \cup hidden = {} => \A f \in Helpers : content[f].session \in {"none", "in"}

LEMMA SignedInit == Init => Signed
BY DEF Init, Signed, Blank

LEMMA SignedStep == TypeOK /\ Signed /\ [Next]_vars => Signed'
<1> SUFFICES ASSUME TypeOK, Signed, [Next]_vars PROVE Signed'
  OBVIOUS
<1> USE DEF TypeOK, Names, Points, Signed, Go, Return
<1>1. CASE UNCHANGED vars
  BY <1>1 DEF vars
<1>2. CASE Turn
  <2>1. PICK state \in States : AccountTurns(state)
    BY <1>2 DEF Turn
  <2>2. /\ turned' = turned \cup {h \in Helpers : pc[h] \in {"unlink", "open"}}
        /\ UNCHANGED <<pc, content, hidden>>
    BY <2>1 DEF AccountTurns
  <2> QED BY <2>2
<1>3. ASSUME NEW h \in Helpers, Step(h) PROVE Signed'
  <2>1. CASE Start(h) BY <2>1 DEF Start
  <2>2. CASE Check(h)
    <3>1. CASE Return(h, "security") /\ UNCHANGED hidden
      BY <2>2, <3>1 DEF Check
    <3>2. ASSUME NEW url \in {account, "in"}, NEW text \in States,
                 IF CodeOfPage(url, text) = "success" THEN Go(h, "unlink") /\ UNCHANGED code
                 ELSE Return(h, CodeOfPage(url, text)),
                 hidden' = hidden \cup {g \in {h} : account # "in" /\ url = "in" /\ text = "in"}
          PROVE  Signed'
      <4>1. UNCHANGED <<account, content, turned>>
        BY <2>2 DEF Check
      <4>2. CASE CodeOfPage(url, text) = "success"
        <5>1. url \notin {"out", "blocked"} /\ text \notin {"out", "blocked"}
          BY <4>2 DEF CodeOfPage
        <5>2. url = "in" /\ text = "in"
          BY <5>1 DEF States
        <5>3. hidden \subseteq hidden' /\ (hidden' = {} => account = "in")
          BY <3>2, <5>2
        <5> QED BY <3>2, <4>1, <4>2, <5>3
      <4>3. CASE CodeOfPage(url, text) # "success"
        <5>1. pc' = [pc EXCEPT ![h] = "close"] /\ hidden \subseteq hidden'
          BY <3>2, <4>3
        <5> QED BY <4>1, <5>1
      <4> QED BY <4>2, <4>3
    <3> QED BY <2>2, <3>1, <3>2 DEF Check
  <2>3. CASE Unlink(h) BY <2>3 DEF Unlink
  <2>4. CASE Open(h)
    <3>1. CASE Return(h, "security") /\ UNCHANGED <<opened, tmp, backup, content>>
      BY <2>4, <3>1 DEF Open
    <3>2. CASE Opens(h) /\ Go(h, "write")
      <4>1. opened'[h] \in Helpers
        BY <3>2, NothingAssumption DEF Opens
      <4>2. PICK t \in {"partial", "mixed"} :
              content' = [content EXCEPT ![opened'[h]] = [text |-> t, session |-> account]]
        BY <2>4, <3>2 DEF Open
      <4>3. \A f \in Helpers : content'[f] = content[f] \/ content'[f].session = account
        BY <4>1, <4>2
      <4>4. pc[h] = "open" /\ UNCHANGED <<account, turned, hidden>>
        BY <2>4 DEF Open
      <4>5. \A f \in Helpers : content'[f].text # "none" => content'[f].session # "none"
        BY <4>3, <4>4 DEF States
      <4> QED BY <3>2, <4>3, <4>4, <4>5
    <3> QED BY <2>4, <3>1, <3>2 DEF Open
  <2>5. CASE Write(h)
    <3>1. CASE UNCHANGED content
      BY <2>5, <3>1 DEF Write
    <3>2. CASE content' = [content EXCEPT ![opened[h]].text = IF @ = "partial" THEN "whole" ELSE @]
      <4>1. \A f \in Helpers : /\ content'[f].session = content[f].session
                               /\ content[f].text = "none" => content'[f].text = "none"
        BY <3>2 DEF Content
      <4> QED BY <2>5, <4>1 DEF Write
    <3> QED BY <2>5, <3>1, <3>2 DEF Write
  <2>6. CASE Chmod(h) BY <2>6 DEF Chmod
  <2>7. CASE Replace(h) BY <2>7 DEF Replace
  <2>8. CASE Close(h) BY <2>8 DEF Close
  <2>9. CASE Crash(h) BY <2>9 DEF Crash
  <2> QED BY <1>3, <2>1, <2>2, <2>3, <2>4, <2>5, <2>6, <2>7, <2>8, <2>9 DEF Step
<1> QED BY <1>1, <1>2, <1>3, NextIsSteps

\* The backup is of a signed-in account as long as the account has stayed as it was
\* checked and every wall could be seen, also when helpers overlap (central_auth.py:104).
THEOREM BackupSignedIn == Spec => []SignedInSnapshot
<1>1. TypeOK /\ Signed => SignedInSnapshot
  BY NothingAssumption DEF TypeOK, Signed, SignedInSnapshot, Names, Content
<1> QED
  BY <1>1, TypeInit, TypeStep, SignedInit, SignedStep, PTL DEF Spec

----------------------------------------------------------------------------
(* The page.                                                               *)

LEMMA ClosedInit == Init => OwnPageClosed
BY DEF Init, OwnPageClosed

LEMMA ClosedStep == TypeOK /\ OwnPageClosed /\ [Next]_vars => OwnPageClosed'
<1> SUFFICES ASSUME TypeOK, OwnPageClosed, [Next]_vars PROVE OwnPageClosed'
  OBVIOUS
<1> USE DEF TypeOK, Points, OwnPageClosed, Go, Return
<1>1. CASE UNCHANGED vars
  BY <1>1 DEF vars
<1>2. CASE Turn
  BY <1>2 DEF Turn, AccountTurns
<1>3. ASSUME NEW h \in Helpers, Step(h) PROVE OwnPageClosed'
  <2>1. CASE Start(h) BY <2>1 DEF Start
  <2>2. CASE Check(h) \/ Unlink(h) \/ Open(h) \/ Write(h)
    BY <2>2 DEF Check, Unlink, Open, Write
  <2>3. CASE Chmod(h) \/ Replace(h) \/ Crash(h)
    BY <2>3 DEF Chmod, Replace, Crash
  <2>4. CASE Close(h) BY <2>4 DEF Close
  <2> QED BY <1>3, <2>1, <2>2, <2>3, <2>4 DEF Step
<1> QED BY <1>1, <1>2, <1>3, NextIsSteps

\* Every helper that ends has closed its page, whichever way it ended, unless new_page or
\* page.close failed (central_auth.py:117-125).
THEOREM PagesClosed == Spec => []OwnPageClosed
BY TypeInit, TypeStep, ClosedInit, ClosedStep, PTL DEF Spec

----------------------------------------------------------------------------
(* CdpProxy.                                                               *)

Early == {"header", "connect", "ask", "answer", "reply"}
Late == {"close", "wait", "closeUp", "waitUp", "done"}

\* The chunk of the request, between its being read and being written.
Held(s) == IF s = "client" /\ handler = "connect" THEN 1 ELSE 0

\* What has been sent from one side and is still somewhere, or has arrived.
Carried(s) == delivered[Proxy!Other(s)] + outbox[Proxy!Other(s)] + inbox[s] + Held(s)

Bounded == \A s \in Proxy!Sides : Carried(s) <= sent[s]
Whole(s) == Carried(s) = sent[s]

Flow == Proxy!TypeOK /\ Bounded

LEMMA OtherSide ==
  /\ Proxy!Other("client") = "upstream" /\ Proxy!Other("upstream") = "client"
  /\ "client" \in Proxy!Sides /\ "upstream" \in Proxy!Sides
  /\ \A s \in Proxy!Sides : /\ s \in {"client", "upstream"} /\ Proxy!Other(s) \in Proxy!Sides
                      /\ Proxy!Other(s) # s /\ Proxy!Other(Proxy!Other(s)) = s
                      /\ \A t \in Proxy!Sides : t = s \/ t = Proxy!Other(s)
<1>1. Proxy!Other("client") = "upstream" /\ Proxy!Other("upstream") = "client"
  BY DEF Proxy!Other, Proxy!Sides
<1> QED BY <1>1 DEF Proxy!Sides

LEMMA FlowInit == Proxy!Sound /\ Proxy!Init => Flow
<1> SUFFICES ASSUME Proxy!Sound, Proxy!Init PROVE Flow
  OBVIOUS
<1>1. Proxy!TypeOK
  <2>1. \A x, y : Proxy!Both(x, y) = [s \in Proxy!Sides |-> IF s = "client" THEN x ELSE y]
    BY DEF Proxy!Both
  <2>2. /\ sent = [s \in Proxy!Sides |-> 0] /\ inbox = [s \in Proxy!Sides |-> 0]
        /\ outbox = [s \in Proxy!Sides |-> 0]
        /\ delivered = [s \in Proxy!Sides |-> 0] /\ err = [s \in Proxy!Sides |-> "none"]
        /\ pipe = [s \in Proxy!Sides |-> "none"]
    BY DEF Proxy!Init, Proxy!Both
  <2>3. /\ peer \in [Proxy!Sides -> {"absent", "up", "gone"}]
        /\ sock \in [Proxy!Sides -> {"none", "open", "closing", "closed"}]
    BY DEF Proxy!Init, Proxy!Both
  <2>4. 0 \in 0..MaxChunks
    BY DEF Proxy!Sound
  <2>5. handler = "header" /\ crossed = FALSE /\ raised = FALSE /\ upgrade \in BOOLEAN
    BY DEF Proxy!Init
  <2>6. /\ sent \in [Proxy!Sides -> 0..MaxChunks] /\ inbox \in [Proxy!Sides -> 0..MaxChunks]
        /\ outbox \in [Proxy!Sides -> 0..MaxChunks] /\ delivered \in [Proxy!Sides -> 0..MaxChunks]
    BY <2>2, <2>4
  <2>7. /\ err \in [Proxy!Sides -> {"none"} \cup Errors]
        /\ pipe \in [Proxy!Sides -> {"none", "read", "drain", "close", "wait", "ended"}]
    BY <2>2
  <2>8. /\ \A s \in Proxy!Sides : err[s] # "none" => sock[s] = "closed" /\ crossed
        /\ \A s \in Proxy!Sides : outbox[s] > 0 => sock[s] \in {"open", "closing"}
    BY <2>2
  <2> QED BY <2>3, <2>5, <2>6, <2>7, <2>8 DEF Proxy!TypeOK
<1>2. ASSUME NEW s \in Proxy!Sides PROVE Carried(s) = 0 /\ sent[s] = 0
  BY OtherSide DEF Proxy!Init, Proxy!Both, Carried, Held
<1> QED BY <1>1, <1>2 DEF Flow, Bounded

\* What the bound on chunks rests on: the numbers of chunks are so bounded.
LEMMA Small ==
  ASSUME Proxy!Sound, sent \in [Proxy!Sides -> 0..MaxChunks], Bounded,
         inbox \in [Proxy!Sides -> Nat], outbox \in [Proxy!Sides -> Nat], delivered \in [Proxy!Sides -> Nat]
  PROVE  /\ inbox \in [Proxy!Sides -> 0..MaxChunks] /\ outbox \in [Proxy!Sides -> 0..MaxChunks]
         /\ delivered \in [Proxy!Sides -> 0..MaxChunks]
<1>1. ASSUME NEW s \in Proxy!Sides
      PROVE  /\ inbox[s] \in 0..MaxChunks /\ outbox[s] \in 0..MaxChunks
             /\ delivered[s] \in 0..MaxChunks
  <2>1. Proxy!Other(s) \in Proxy!Sides /\ Proxy!Other(Proxy!Other(s)) = s
    BY OtherSide
  <2>2. /\ delivered[Proxy!Other(s)] + outbox[Proxy!Other(s)] + inbox[s] + Held(s) <= sent[s]
        /\ delivered[s] + outbox[s] + inbox[Proxy!Other(s)] + Held(Proxy!Other(s)) <= sent[Proxy!Other(s)]
    BY <2>1 DEF Bounded, Carried
  <2>3. Held(s) \in Nat /\ Held(Proxy!Other(s)) \in Nat
    BY DEF Held
  <2> QED BY <2>1, <2>2, <2>3 DEF Proxy!Sound
<1> QED BY <1>1

HandlerPoints == {"header", "connect", "ask", "answer", "reply", "pipes", "close", "wait", "closeUp", "waitUp", "done"}
PipePoints == {"none", "read", "drain", "close", "wait", "ended"}

\* No chunk moves.
LEMMA StillFlow ==
  ASSUME Flow, UNCHANGED <<sent, inbox, outbox, delivered, upgrade, err>>,
         peer' \in [Proxy!Sides -> {"absent", "up", "gone"}],
         sock' \in [Proxy!Sides -> {"none", "open", "closing", "closed"}],
         \A s \in Proxy!Sides : sock[s] # sock'[s] => outbox[s] = 0 \/ sock'[s] \in {"open", "closing"},
         \A s \in Proxy!Sides : sock[s] = "closed" => sock'[s] = "closed",
         crossed' = crossed, raised' \in BOOLEAN, handler' \in HandlerPoints,
         pipe' \in [Proxy!Sides -> PipePoints],
         handler' = "connect" => handler = "connect"
  PROVE  Flow'
<1>1. Proxy!TypeOK'
  BY DEF Flow, Proxy!TypeOK, HandlerPoints, PipePoints
<1>2. ASSUME NEW s \in Proxy!Sides PROVE Carried(s)' <= sent'[s]
  <2>1. Proxy!Other(s) \in Proxy!Sides /\ Carried(s) <= sent[s]
    BY OtherSide DEF Flow, Bounded
  <2>2. Held(s)' <= Held(s) /\ Held(s)' \in Nat /\ Held(s) \in Nat
    BY DEF Held
  <2>3. /\ delivered[Proxy!Other(s)] \in Nat /\ outbox[Proxy!Other(s)] \in Nat
        /\ inbox[s] \in Nat /\ sent[s] \in Nat
    BY <2>1 DEF Flow, Proxy!TypeOK
  <2> QED BY <2>1, <2>2, <2>3 DEF Carried
<1> QED BY <1>1, <1>2 DEF Flow, Bounded

\* A step that moves chunks: it is enough to say how many there are afterwards.
LEMMA MovedFlow ==
  ASSUME Proxy!Sound, Flow,
         sent' \in [Proxy!Sides -> 0..MaxChunks], inbox' \in [Proxy!Sides -> Nat],
         outbox' \in [Proxy!Sides -> Nat],
         delivered' \in [Proxy!Sides -> Nat], peer' \in [Proxy!Sides -> {"absent", "up", "gone"}],
         sock' \in [Proxy!Sides -> {"none", "open", "closing", "closed"}],
         err' \in [Proxy!Sides -> {"none"} \cup Errors],
         crossed' \in BOOLEAN, upgrade' = upgrade, raised' \in BOOLEAN, handler' \in HandlerPoints,
         pipe' \in [Proxy!Sides -> PipePoints],
         \A s \in Proxy!Sides : err'[s] # "none" => sock'[s] = "closed" /\ crossed',
         \A s \in Proxy!Sides : outbox'[s] > 0 => sock'[s] \in {"open", "closing"},
         \A s \in Proxy!Sides : Carried(s)' <= sent'[s]
  PROVE  Flow'
<1>1. Bounded'
  BY DEF Bounded
<1>2. /\ inbox' \in [Proxy!Sides -> 0..MaxChunks] /\ outbox' \in [Proxy!Sides -> 0..MaxChunks]
      /\ delivered' \in [Proxy!Sides -> 0..MaxChunks]
  <2>1. ASSUME NEW s \in Proxy!Sides
        PROVE  /\ inbox'[s] \in 0..MaxChunks /\ outbox'[s] \in 0..MaxChunks
               /\ delivered'[s] \in 0..MaxChunks
    <3>1. Proxy!Other(s) \in Proxy!Sides /\ Proxy!Other(Proxy!Other(s)) = s
      BY OtherSide
    <3>2. /\ delivered'[Proxy!Other(s)] + outbox'[Proxy!Other(s)] + inbox'[s] + Held(s)' <= sent'[s]
          /\ delivered'[s] + outbox'[s] + inbox'[Proxy!Other(s)] + Held(Proxy!Other(s))' <= sent'[Proxy!Other(s)]
      BY <3>1 DEF Carried
    <3>3. Held(s)' \in Nat /\ Held(Proxy!Other(s))' \in Nat
      BY DEF Held
    <3> QED BY <3>1, <3>2, <3>3 DEF Proxy!Sound
  <2> QED BY <2>1
<1>3. Proxy!TypeOK'
  BY <1>2 DEF Flow, Proxy!TypeOK, HandlerPoints, PipePoints
<1> QED BY <1>1, <1>3 DEF Flow

\* A chunk goes from one side's inbox to the other side's outbox.
LEMMA HandOn ==
  ASSUME Flow, NEW s \in Proxy!Sides, Proxy!Readable(s), Proxy!Take(s), Proxy!Put(Proxy!Other(s))
  PROVE  /\ inbox' \in [Proxy!Sides -> Nat] /\ outbox' \in [Proxy!Sides -> Nat]
         /\ inbox'[s] = inbox[s] - 1 /\ inbox'[Proxy!Other(s)] = inbox[Proxy!Other(s)]
         /\ outbox'[s] = outbox[s]
         /\ outbox'[Proxy!Other(s)] = IF sock[Proxy!Other(s)] = "open" THEN outbox[Proxy!Other(s)] + 1 ELSE outbox[Proxy!Other(s)]
<1>1. /\ Proxy!Other(s) \in Proxy!Sides /\ Proxy!Other(s) # s
      /\ \A t \in Proxy!Sides : t = s \/ t = Proxy!Other(s)
  BY OtherSide
<1>2. inbox \in [Proxy!Sides -> Nat] /\ outbox \in [Proxy!Sides -> Nat] /\ inbox[s] > 0
  BY DEF Flow, Proxy!TypeOK, Proxy!Readable
<1> HIDE DEF Flow
<1> QED BY <1>1, <1>2 DEF Proxy!Take, Proxy!Put

\* Closing a connection; where a pipe goes.
LEMMA SockCloses ==
  ASSUME Flow, NEW s \in Proxy!Sides, Proxy!CloseSock(s)
  PROVE  /\ sock' \in [Proxy!Sides -> {"none", "open", "closing", "closed"}]
         /\ sock'[s] = IF sock[s] = "open" THEN "closing" ELSE sock[s]
         /\ \A t \in Proxy!Sides : t # s => sock'[t] = sock[t]
BY DEF Flow, Proxy!TypeOK, Proxy!CloseSock

LEMMA PipeGoes ==
  ASSUME Flow, NEW s \in Proxy!Sides, NEW point \in PipePoints, Proxy!PipeTo(s, point)
  PROVE  /\ pipe' \in [Proxy!Sides -> PipePoints] /\ pipe'[s] = point
         /\ \A t \in Proxy!Sides : t # s => pipe'[t] = pipe[t]
BY DEF Flow, Proxy!TypeOK, Proxy!PipeTo, PipePoints

LEMMA PipeFlow == ASSUME Proxy!Sound, Flow, NEW s \in Proxy!Sides, Proxy!Pipe(s) PROVE Flow'
<1>1. /\ Proxy!Other(s) \in Proxy!Sides /\ Proxy!Other(s) # s
      /\ \A t \in Proxy!Sides : t = s \/ t = Proxy!Other(s)
  BY OtherSide
<1>2. /\ peer \in [Proxy!Sides -> {"absent", "up", "gone"}]
      /\ sock \in [Proxy!Sides -> {"none", "open", "closing", "closed"}]
      /\ raised \in BOOLEAN /\ handler \in HandlerPoints /\ crossed \in BOOLEAN
      /\ pipe \in [Proxy!Sides -> PipePoints] /\ err \in [Proxy!Sides -> {"none"} \cup Errors]
      /\ sent \in [Proxy!Sides -> 0..MaxChunks] /\ delivered \in [Proxy!Sides -> Nat]
  BY DEF Flow, Proxy!TypeOK, HandlerPoints, PipePoints
<1>3. CASE Proxy!PipeRead(s)
  <2>1. /\ inbox' \in [Proxy!Sides -> Nat] /\ outbox' \in [Proxy!Sides -> Nat]
        /\ inbox'[s] = inbox[s] - 1 /\ inbox'[Proxy!Other(s)] = inbox[Proxy!Other(s)]
        /\ outbox'[s] = outbox[s]
        /\ outbox'[Proxy!Other(s)] = IF sock[Proxy!Other(s)] = "open" THEN outbox[Proxy!Other(s)] + 1 ELSE outbox[Proxy!Other(s)]
    BY <1>3, HandOn DEF Proxy!PipeRead
  <2>2. /\ pipe' \in [Proxy!Sides -> PipePoints]
        /\ UNCHANGED <<Proxy!peers, sock, err, crossed, handler, raised>>
    BY <1>3, PipeGoes DEF Proxy!PipeRead, PipePoints
  <2>3. ASSUME NEW t \in Proxy!Sides PROVE Carried(t)' <= sent'[t]
    <3>1. /\ inbox[s] \in Nat /\ inbox[Proxy!Other(s)] \in Nat /\ outbox[s] \in Nat
          /\ outbox[Proxy!Other(s)] \in Nat
          /\ delivered[s] \in Nat /\ delivered[Proxy!Other(s)] \in Nat /\ sent[s] \in Nat
          /\ sent[Proxy!Other(s)] \in Nat
      BY <1>1 DEF Flow, Proxy!TypeOK
    <3>2. /\ delivered[Proxy!Other(s)] + outbox[Proxy!Other(s)] + inbox[s] + Held(s) <= sent[s]
          /\ delivered[s] + outbox[s] + inbox[Proxy!Other(s)] + Held(Proxy!Other(s)) <= sent[Proxy!Other(s)]
      BY <1>1, OtherSide DEF Flow, Bounded, Carried
    <3>3. /\ Held(s)' = Held(s) /\ Held(Proxy!Other(s))' = Held(Proxy!Other(s))
          /\ Held(s) \in Nat /\ Held(Proxy!Other(s)) \in Nat
      BY <2>2 DEF Held
    <3>4. UNCHANGED <<sent, delivered>>
      BY <2>2 DEF Proxy!peers
    <3>5. CASE t = s
      BY <2>1, <3>1, <3>2, <3>3, <3>4, <3>5 DEF Carried
    <3>6. CASE t = Proxy!Other(s)
      <4>1. Proxy!Other(t) = s
        BY <3>6, OtherSide
      <4> QED BY <2>1, <3>1, <3>2, <3>3, <3>4, <3>6, <4>1 DEF Carried
    <3> QED BY <1>1, <3>5, <3>6
  <2>4. \A t \in Proxy!Sides : outbox'[t] > 0 => sock'[t] \in {"open", "closing"}
    BY <1>1, <2>1, <2>2 DEF Flow, Proxy!TypeOK
  <2>5. \A t \in Proxy!Sides : err'[t] # "none" => sock'[t] = "closed" /\ crossed'
    BY <2>2 DEF Flow, Proxy!TypeOK
  <2> QED BY <1>2, <2>1, <2>2, <2>3, <2>4, <2>5, MovedFlow DEF Proxy!peers
<1>4. CASE Proxy!PipeReadEnds(s) \/ Proxy!PipeDrain(s) \/ Proxy!PipeWait(s)
  <2>1. /\ UNCHANGED <<Proxy!peers, inbox, outbox, sock, err, crossed, handler>>
        /\ \E point \in PipePoints : Proxy!PipeTo(s, point)
        /\ raised' \in BOOLEAN
    BY <1>2, <1>4 DEF Proxy!PipeReadEnds, Proxy!PipeDrain, Proxy!PipeWait, PipePoints
  <2>2. pipe' \in [Proxy!Sides -> PipePoints]
    BY <2>1, PipeGoes
  <2> QED BY <1>2, <2>1, <2>2, StillFlow DEF Proxy!peers
<1>5. CASE Proxy!PipeClose(s)
  <2>1. /\ UNCHANGED <<Proxy!peers, inbox, outbox, err, crossed, handler, raised>>
        /\ Proxy!CloseSock(Proxy!Other(s)) /\ Proxy!PipeTo(s, "wait")
    BY <1>5 DEF Proxy!PipeClose, Proxy!PipeCloses
  <2>2. pipe' \in [Proxy!Sides -> PipePoints]
    BY <2>1, PipeGoes DEF PipePoints
  <2>3. /\ sock' \in [Proxy!Sides -> {"none", "open", "closing", "closed"}]
        /\ sock'[Proxy!Other(s)] = IF sock[Proxy!Other(s)] = "open" THEN "closing" ELSE sock[Proxy!Other(s)]
        /\ sock'[s] = sock[s]
    BY <1>1, <2>1, SockCloses
  <2> QED BY <1>1, <1>2, <2>1, <2>2, <2>3, StillFlow DEF Proxy!peers
<1> QED BY <1>3, <1>4, <1>5 DEF Proxy!Pipe

\* Before the proxy has connected to Chromium nothing of that side exists.
Unopened ==
  handler \in {"header", "connect"} =>
    peer["upstream"] = "absent" /\ sent["upstream"] = 0 /\ sock["upstream"] = "none"

LEMMA UnopenedStep == ASSUME Proxy!TypeOK, Unopened, [Proxy!Next]_(Proxy!vars) PROVE Unopened'
<1> USE DEF Unopened
<1>1. CASE UNCHANGED Proxy!vars
  BY <1>1 DEF Proxy!vars, Proxy!peers
<1>2. CASE Proxy!Handler
  <2>1. handler' \in {"header", "connect"} => handler = "header" /\ handler' = "connect"
    BY <1>2 DEF Proxy!Handler, Proxy!ReadHeader, Proxy!Connect, Proxy!DrainRequest,
        Proxy!DrainAt, Proxy!ReadAnswer, Proxy!DrainAnswer, Proxy!Gather, Proxy!CloseClient,
                Proxy!WaitClient, Proxy!CloseUpstream, Proxy!WaitUpstream, Proxy!GoTo, Proxy!Raise, Proxy!AfterClient
  <2>2. handler = "header" => UNCHANGED <<Proxy!peers, sock>>
    BY <1>2 DEF Proxy!Handler, Proxy!ReadHeader, Proxy!Connect, Proxy!DrainRequest,
        Proxy!DrainAt, Proxy!ReadAnswer, Proxy!DrainAnswer, Proxy!Gather, Proxy!CloseClient,
                Proxy!WaitClient, Proxy!CloseUpstream, Proxy!WaitUpstream
  <2> QED BY <2>1, <2>2 DEF Proxy!peers
<1>3. CASE Proxy!Vanish
  BY <1>3, OtherSide DEF Proxy!Vanish, Proxy!Lost, Proxy!peers, Proxy!TypeOK
<1>4. ASSUME NEW s \in Proxy!Sides,
             Proxy!Pipe(s) \/ Proxy!Kernel(s) \/ Proxy!PeerSends(s) \/ Proxy!PeerCloses(s)
      PROVE Unopened'
  <2>1. CASE Proxy!Pipe(s)
    BY <2>1, OtherSide DEF Proxy!Pipe, Proxy!PipeRead, Proxy!PipeReadEnds, Proxy!PipeDrain,
        Proxy!PipeClose, Proxy!PipeWait, Proxy!PipeCloses, Proxy!CloseSock, Proxy!peers,
        Proxy!TypeOK
  <2>2. CASE Proxy!Kernel(s)
    BY <2>2, OtherSide DEF Proxy!Kernel, Proxy!Flush, Proxy!Reset, Proxy!CloseDone, Proxy!Lost,
        Proxy!peers, Proxy!TypeOK
  <2>3. CASE Proxy!PeerSends(s) \/ Proxy!PeerCloses(s)
    BY <2>3, OtherSide DEF Proxy!PeerSends, Proxy!PeerCloses, Proxy!TypeOK
  <2> QED BY <1>4, <2>1, <2>2, <2>3
<1> QED BY <1>1, <1>2, <1>3, <1>4 DEF Proxy!Next

\* The two directions, one by one.
LEMMA Numbers ==
  ASSUME Flow
  PROVE  /\ delivered["upstream"] + outbox["upstream"] + inbox["client"] + Held("client") <= sent["client"]
         /\ delivered["client"] + outbox["client"] + inbox["upstream"] <= sent["upstream"]
         /\ \A s \in Proxy!Sides : delivered[s] \in Nat /\ outbox[s] \in Nat /\ inbox[s] \in Nat /\ sent[s] \in Nat
<1>1. /\ delivered["upstream"] + outbox["upstream"] + inbox["client"] + Held("client") <= sent["client"]
      /\ delivered["client"] + outbox["client"] + inbox["upstream"] + Held("upstream") <= sent["upstream"]
  BY OtherSide DEF Flow, Bounded, Carried
<1>2. Held("upstream") = 0
      /\ \A s \in Proxy!Sides : delivered[s] \in Nat /\ outbox[s] \in Nat /\ inbox[s] \in Nat /\ sent[s] \in Nat
  BY DEF Held, Flow, Proxy!TypeOK
<1> QED BY <1>1, <1>2, OtherSide

LEMMA InNumbers ==
  ASSUME delivered'["upstream"] + outbox'["upstream"] + inbox'["client"] + Held("client")' <= sent'["client"],
         delivered'["client"] + outbox'["client"] + inbox'["upstream"] <= sent'["upstream"],
         delivered' \in [Proxy!Sides -> Nat], outbox' \in [Proxy!Sides -> Nat], inbox' \in [Proxy!Sides -> Nat]
  PROVE  \A s \in Proxy!Sides : Carried(s)' <= sent'[s]
<1>1. /\ delivered'["client"] \in Nat /\ outbox'["client"] \in Nat /\ inbox'["upstream"] \in Nat
      /\ Held("upstream")' = 0
  BY OtherSide DEF Held
<1>2. Carried("client")' <= sent'["client"] /\ Carried("upstream")' <= sent'["upstream"]
  BY <1>1, OtherSide DEF Carried
<1> QED BY <1>2, OtherSide

LEMMA FlowTypes ==
  ASSUME Flow
  PROVE  /\ peer \in [Proxy!Sides -> {"absent", "up", "gone"}] /\ sock \in [Proxy!Sides -> {"none", "open", "closing", "closed"}]
         /\ raised \in BOOLEAN /\ handler \in HandlerPoints /\ crossed \in BOOLEAN
         /\ upgrade \in BOOLEAN
         /\ pipe \in [Proxy!Sides -> PipePoints] /\ err \in [Proxy!Sides -> {"none"} \cup Errors]
         /\ sent \in [Proxy!Sides -> 0..MaxChunks] /\ delivered \in [Proxy!Sides -> Nat]
         /\ inbox \in [Proxy!Sides -> Nat] /\ outbox \in [Proxy!Sides -> Nat]
         /\ \A s \in Proxy!Sides : err[s] # "none" => sock[s] = "closed" /\ crossed
         /\ \A s \in Proxy!Sides : outbox[s] > 0 => sock[s] \in {"open", "closing"}
BY DEF Flow, Proxy!TypeOK, HandlerPoints, PipePoints

LEMMA ReadHeaderFlow == ASSUME Proxy!Sound, Flow, Proxy!ReadHeader PROVE Flow'
<1>1. CASE handler' = "connect"
  <2>1. /\ inbox["client"] > 0 /\ inbox' = [inbox EXCEPT !["client"] = @ - 1] /\ raised' = raised
        /\ handler = "header" /\ UNCHANGED <<Proxy!peers, outbox, sock, err, crossed, pipe>>
    BY <1>1 DEF Proxy!ReadHeader, Proxy!Readable, Proxy!Take, Proxy!GoTo, Proxy!Raise
  <2>2. /\ inbox'["client"] = inbox["client"] - 1 /\ inbox'["upstream"] = inbox["upstream"]
        /\ inbox' \in [Proxy!Sides -> Nat]
    BY <2>1, FlowTypes, OtherSide
  <2>3. Held("client") = 0 /\ Held("client")' = 1
    BY <1>1, <2>1 DEF Held
  <2>4. \A s \in Proxy!Sides : Carried(s)' <= sent'[s]
    BY <2>1, <2>2, <2>3, FlowTypes, Numbers, InNumbers, OtherSide DEF Proxy!peers
  <2> QED BY <1>1, <2>1, <2>2, <2>4, FlowTypes, MovedFlow DEF Proxy!peers, HandlerPoints
<1>2. CASE handler' # "connect"
  BY <1>2, FlowTypes, StillFlow DEF Proxy!ReadHeader, Proxy!GoTo, Proxy!Raise, HandlerPoints,
      Proxy!peers
<1> QED BY <1>1, <1>2

LEMMA ConnectFlow == ASSUME Proxy!Sound, Flow, Unopened, Proxy!Connect PROVE Flow'
<1>1. CASE handler' = "ask"
  <2>1. /\ sock' = [sock EXCEPT !["upstream"] = "open"]
        /\ peer' = [peer EXCEPT !["upstream"] = "up"]
        /\ outbox' = [outbox EXCEPT !["upstream"] = @ + 1]
        /\ handler = "connect" /\ raised' = raised
        /\ UNCHANGED <<sent, delivered, upgrade, inbox, err, crossed, pipe>>
    BY <1>1 DEF Proxy!Connect, Proxy!Raise, Proxy!GoTo
  <2>2. /\ outbox'["upstream"] = outbox["upstream"] + 1 /\ outbox'["client"] = outbox["client"]
        /\ outbox' \in [Proxy!Sides -> Nat]
        /\ sock' \in [Proxy!Sides -> {"none", "open", "closing", "closed"}]
        /\ sock'["upstream"] = "open" /\ sock'["client"] = sock["client"]
        /\ peer' \in [Proxy!Sides -> {"absent", "up", "gone"}]
    BY <2>1, FlowTypes, OtherSide
  <2>3. Held("client") = 1 /\ Held("client")' = 0
    BY <1>1, <2>1 DEF Held
  <2>4. \A s \in Proxy!Sides : Carried(s)' <= sent'[s]
    BY <2>1, <2>2, <2>3, FlowTypes, Numbers, InNumbers, OtherSide
  <2>5. /\ \A s \in Proxy!Sides : err'[s] # "none" => sock'[s] = "closed" /\ crossed'
        /\ \A s \in Proxy!Sides : outbox'[s] > 0 => sock'[s] \in {"open", "closing"}
    BY <2>1, <2>2, FlowTypes, OtherSide DEF Unopened
  <2> QED BY <1>1, <2>1, <2>2, <2>4, <2>5, FlowTypes, MovedFlow DEF HandlerPoints
<1>2. CASE handler' # "ask"
  BY <1>2, FlowTypes, StillFlow DEF Proxy!Connect, Proxy!GoTo, Proxy!Raise, HandlerPoints
<1> QED BY <1>1, <1>2

LEMMA ReadAnswerFlow == ASSUME Proxy!Sound, Flow, Proxy!ReadAnswer PROVE Flow'
<1>1. CASE handler' = "reply"
  <2>1. /\ Proxy!Readable("upstream") /\ Proxy!Take("upstream")
        /\ Proxy!Put(Proxy!Other("upstream"))
        /\ handler = "answer" /\ raised' = raised
        /\ UNCHANGED <<Proxy!peers, sock, err, crossed, pipe>>
    BY <1>1, OtherSide DEF Proxy!ReadAnswer, Proxy!Raise, Proxy!GoTo
  <2>2. /\ inbox' \in [Proxy!Sides -> Nat] /\ outbox' \in [Proxy!Sides -> Nat]
        /\ inbox'["upstream"] = inbox["upstream"] - 1 /\ inbox'["client"] = inbox["client"]
        /\ outbox'["upstream"] = outbox["upstream"]
        /\ outbox'["client"] = IF sock["client"] = "open" THEN outbox["client"] + 1 ELSE outbox["client"]
    BY <2>1, HandOn, OtherSide
  <2>3. Held("client") = 0 /\ Held("client")' = 0
    BY <1>1, <2>1 DEF Held
  <2>4. \A s \in Proxy!Sides : Carried(s)' <= sent'[s]
    BY <2>1, <2>2, <2>3, FlowTypes, Numbers, InNumbers, OtherSide DEF Proxy!peers
  <2>5. \A s \in Proxy!Sides : outbox'[s] > 0 => sock'[s] \in {"open", "closing"}
    BY <2>1, <2>2, FlowTypes, OtherSide
  <2> QED BY <1>1, <2>1, <2>2, <2>4, <2>5, FlowTypes, MovedFlow DEF Proxy!peers, HandlerPoints
<1>2. CASE handler' # "reply"
  BY <1>2, FlowTypes, StillFlow DEF Proxy!ReadAnswer, Proxy!GoTo, Proxy!Raise, HandlerPoints,
      Proxy!peers
<1> QED BY <1>1, <1>2

LEMMA OtherHandlerFlow ==
  ASSUME Proxy!Sound, Flow,
         \/ Proxy!DrainRequest \/ Proxy!DrainAnswer \/ Proxy!Gather
         \/ Proxy!CloseClient \/ Proxy!WaitClient \/ Proxy!CloseUpstream \/ Proxy!WaitUpstream
  PROVE  Flow'
<1>1. /\ UNCHANGED <<Proxy!peers, inbox, outbox, err, crossed>> /\ handler' # "connect"
  BY DEF Proxy!DrainRequest, Proxy!DrainAt, Proxy!DrainAnswer, Proxy!Gather, Proxy!CloseClient,
      Proxy!WaitClient, Proxy!CloseUpstream, Proxy!WaitUpstream, Proxy!GoTo, Proxy!Raise,
         Proxy!AfterClient
<1>2. handler' \in HandlerPoints /\ raised' \in BOOLEAN
  BY FlowTypes DEF Proxy!DrainRequest, Proxy!DrainAt, Proxy!DrainAnswer, Proxy!Gather,
      Proxy!CloseClient, Proxy!WaitClient, Proxy!CloseUpstream, Proxy!WaitUpstream,
         Proxy!GoTo, Proxy!Raise, Proxy!AfterClient, HandlerPoints
<1>3. pipe' \in [Proxy!Sides -> PipePoints]
  BY FlowTypes DEF Proxy!DrainRequest, Proxy!DrainAt, Proxy!DrainAnswer, Proxy!Gather,
      Proxy!CloseClient, Proxy!WaitClient, Proxy!CloseUpstream, Proxy!WaitUpstream,
         Proxy!Both, PipePoints
<1>4. sock' = sock \/ \E s \in Proxy!Sides : Proxy!CloseSock(s)
  BY OtherSide DEF Proxy!DrainRequest, Proxy!DrainAt, Proxy!DrainAnswer, Proxy!Gather,
      Proxy!CloseClient, Proxy!WaitClient, Proxy!CloseUpstream, Proxy!WaitUpstream
<1>5. /\ sock' \in [Proxy!Sides -> {"none", "open", "closing", "closed"}]
      /\ \A s \in Proxy!Sides : sock'[s] \in {sock[s], "closing"} /\ (sock[s] = "closed" => sock'[s] = "closed")
  BY <1>4, FlowTypes, SockCloses
<1> QED BY <1>1, <1>2, <1>3, <1>5, FlowTypes, StillFlow DEF Proxy!peers

LEMMA WorldFlow ==
  ASSUME Proxy!Sound, Flow, NEW s \in Proxy!Sides,
         Proxy!Kernel(s) \/ Proxy!Vanish \/ Proxy!PeerSends(s) \/ Proxy!PeerCloses(s)
  PROVE  Flow'
<1>1. /\ Proxy!Other(s) \in Proxy!Sides /\ Proxy!Other(s) # s
      /\ Proxy!Other(Proxy!Other(s)) = s /\ \A t \in Proxy!Sides : t = s \/ t = Proxy!Other(s)
  BY OtherSide
<1>2. \A t \in Proxy!Sides : Carried(t) <= sent[t] /\ Held(t) \in Nat
  BY DEF Flow, Bounded, Held
<1>3. CASE Proxy!PeerCloses(s)
  <2>1. peer' \in [Proxy!Sides -> {"absent", "up", "gone"}]
    BY <1>3, FlowTypes DEF Proxy!PeerCloses
  <2> QED BY <1>3, <2>1, FlowTypes, StillFlow DEF Proxy!PeerCloses
<1>4. CASE Proxy!PeerSends(s)
  <2>1. /\ UNCHANGED <<peer, delivered, upgrade, outbox, sock, err, crossed, handler, raised, pipe>>
        /\ sent[s] < MaxChunks /\ sent' = [sent EXCEPT ![s] = @ + 1]
        /\ inbox' = [inbox EXCEPT ![s] = IF sock[s] = "open" THEN @ + 1 ELSE @]
    BY <1>4 DEF Proxy!PeerSends
  <2>2. /\ inbox' \in [Proxy!Sides -> Nat] /\ sent' \in [Proxy!Sides -> 0..MaxChunks]
        /\ inbox'[s] <= inbox[s] + 1 /\ sent'[s] = sent[s] + 1
        /\ inbox'[Proxy!Other(s)] = inbox[Proxy!Other(s)]
        /\ sent'[Proxy!Other(s)] = sent[Proxy!Other(s)]
    BY <1>1, <2>1, FlowTypes DEF Proxy!Sound
  <2>3. ASSUME NEW t \in Proxy!Sides PROVE Carried(t)' <= sent'[t]
    <3>1. /\ delivered[Proxy!Other(t)] \in Nat /\ outbox[Proxy!Other(t)] \in Nat
          /\ inbox[t] \in Nat /\ sent[t] \in Nat
          /\ inbox'[t] \in Nat
      BY <2>2, OtherSide, FlowTypes
    <3>2. Held(t)' = Held(t)
      BY <2>1 DEF Held
    <3>3. inbox'[t] - inbox[t] <= sent'[t] - sent[t]
      BY <1>1, <2>2, <3>1, FlowTypes
    <3>4. sent'[t] \in Nat
      BY <2>2
    <3> QED BY <1>2, <2>1, <3>1, <3>2, <3>3, <3>4 DEF Carried
  <2> QED BY <2>1, <2>2, <2>3, FlowTypes, MovedFlow
<1>5. CASE Proxy!Flush(s)
  <2>1. /\ UNCHANGED <<peer, sent, upgrade, inbox, sock, err, crossed, handler, raised, pipe>>
        /\ outbox[s] > 0 /\ outbox' = [outbox EXCEPT ![s] = @ - 1]
        /\ delivered' = [delivered EXCEPT ![s] = @ + 1]
    BY <1>5 DEF Proxy!Flush
  <2>2. /\ outbox' \in [Proxy!Sides -> Nat] /\ delivered' \in [Proxy!Sides -> Nat]
        /\ \A t \in Proxy!Sides : outbox'[t] + delivered'[t] = outbox[t] + delivered[t] /\ outbox'[t] <= outbox[t]
    BY <2>1, FlowTypes
  <2>3. ASSUME NEW t \in Proxy!Sides PROVE Carried(t)' <= sent'[t]
    <3>1. /\ delivered[Proxy!Other(t)] \in Nat /\ outbox[Proxy!Other(t)] \in Nat
          /\ inbox[t] \in Nat /\ sent[t] \in Nat
          /\ delivered'[Proxy!Other(t)] \in Nat /\ outbox'[Proxy!Other(t)] \in Nat
          /\ outbox'[Proxy!Other(t)] + delivered'[Proxy!Other(t)] = outbox[Proxy!Other(t)] + delivered[Proxy!Other(t)]
      BY <2>2, OtherSide, FlowTypes
    <3>2. Held(t)' = Held(t)
      BY <2>1 DEF Held
    <3> QED BY <1>2, <2>1, <3>1, <3>2 DEF Carried
  <2>4. \A t \in Proxy!Sides : outbox'[t] > 0 => sock'[t] \in {"open", "closing"}
    BY <2>1, <2>2, FlowTypes
  <2> QED BY <2>1, <2>2, <2>3, <2>4, FlowTypes, MovedFlow
<1>6. ASSUME NEW t \in Proxy!Sides, NEW e \in Errors, Proxy!Lost(t, e) PROVE Flow'
  <2>1. /\ UNCHANGED <<Proxy!peers, handler, raised, pipe>> /\ crossed' = TRUE
        /\ inbox' = [inbox EXCEPT ![t] = 0] /\ outbox' = [outbox EXCEPT ![t] = 0]
        /\ sock' = [sock EXCEPT ![t] = "closed"] /\ err' = [err EXCEPT ![t] = e]
    BY <1>6 DEF Proxy!Lost
  <2>2. /\ inbox' \in [Proxy!Sides -> Nat] /\ outbox' \in [Proxy!Sides -> Nat]
        /\ \A r \in Proxy!Sides : inbox'[r] <= inbox[r] /\ outbox'[r] <= outbox[r]
        /\ sock' \in [Proxy!Sides -> {"none", "open", "closing", "closed"}]
        /\ err' \in [Proxy!Sides -> {"none"} \cup Errors]
    BY <2>1, FlowTypes
  <2>3. ASSUME NEW r \in Proxy!Sides PROVE Carried(r)' <= sent'[r]
    <3>1. /\ delivered[Proxy!Other(r)] \in Nat /\ outbox[Proxy!Other(r)] \in Nat
          /\ inbox[r] \in Nat /\ sent[r] \in Nat
          /\ inbox'[r] \in Nat /\ outbox'[Proxy!Other(r)] \in Nat
          /\ inbox'[r] <= inbox[r] /\ outbox'[Proxy!Other(r)] <= outbox[Proxy!Other(r)]
      BY <2>2, OtherSide, FlowTypes
    <3>2. Held(r)' = Held(r) /\ UNCHANGED <<sent, delivered>>
      BY <2>1 DEF Held, Proxy!peers
    <3> QED BY <1>2, <3>1, <3>2 DEF Carried
  <2>4. /\ \A r \in Proxy!Sides : err'[r] # "none" => sock'[r] = "closed" /\ crossed'
        /\ \A r \in Proxy!Sides : outbox'[r] > 0 => sock'[r] \in {"open", "closing"}
    BY <2>1, FlowTypes
  <2> QED BY <2>1, <2>2, <2>3, <2>4, FlowTypes, MovedFlow DEF Proxy!peers
<1>7. CASE Proxy!CloseDone(s)
  <2>1. /\ UNCHANGED <<Proxy!peers, outbox, err, crossed, handler, raised, pipe>>
        /\ sock[s] = "closing" /\ outbox[s] = 0 /\ sock' = [sock EXCEPT ![s] = "closed"]
        /\ \E n \in 0..inbox[s] : inbox' = [inbox EXCEPT ![s] = n]
    BY <1>7 DEF Proxy!CloseDone
  <2>2. /\ inbox' \in [Proxy!Sides -> Nat] /\ \A r \in Proxy!Sides : inbox'[r] <= inbox[r]
        /\ sock' \in [Proxy!Sides -> {"none", "open", "closing", "closed"}]
    BY <2>1, FlowTypes
  <2>3. ASSUME NEW r \in Proxy!Sides PROVE Carried(r)' <= sent'[r]
    <3>1. /\ delivered[Proxy!Other(r)] \in Nat /\ outbox[Proxy!Other(r)] \in Nat
          /\ inbox[r] \in Nat /\ sent[r] \in Nat
          /\ inbox'[r] \in Nat /\ inbox'[r] <= inbox[r]
      BY <2>2, OtherSide, FlowTypes
    <3>2. Held(r)' = Held(r) /\ UNCHANGED <<sent, delivered, outbox>>
      BY <2>1 DEF Held, Proxy!peers
    <3> QED BY <1>2, <3>1, <3>2 DEF Carried
  <2>4. /\ \A r \in Proxy!Sides : err'[r] # "none" => sock'[r] = "closed" /\ crossed'
        /\ \A r \in Proxy!Sides : outbox'[r] > 0 => sock'[r] \in {"open", "closing"}
    BY <2>1, FlowTypes
  <2> QED BY <2>1, <2>2, <2>3, <2>4, FlowTypes, MovedFlow DEF Proxy!peers
<1> QED BY <1>3, <1>4, <1>5, <1>6, <1>7, OtherSide DEF Proxy!Kernel, Proxy!Reset, Proxy!Vanish

LEMMA FlowStep ==
  ASSUME Proxy!Sound, Flow, Unopened, [Proxy!Next]_(Proxy!vars)
  PROVE Flow' /\ Unopened'
<1>1. Unopened'
  BY UnopenedStep DEF Flow
<1>2. CASE UNCHANGED Proxy!vars
  <2>1. UNCHANGED <<peer, sent, delivered, upgrade, inbox, outbox, sock, err, crossed, handler, raised, pipe>>
    BY <1>2 DEF Proxy!vars, Proxy!peers
  <2> QED BY <1>1, <2>1, FlowTypes, StillFlow
<1>3. CASE Proxy!Handler
  BY <1>1, <1>3, ReadHeaderFlow, ConnectFlow, ReadAnswerFlow, OtherHandlerFlow DEF Proxy!Handler
<1>4. CASE Proxy!Vanish
  BY <1>1, <1>4, WorldFlow, OtherSide
<1>5. ASSUME NEW s \in Proxy!Sides,
             Proxy!Pipe(s) \/ Proxy!Kernel(s) \/ Proxy!PeerSends(s) \/ Proxy!PeerCloses(s)
      PROVE Flow'
  BY <1>5, PipeFlow, WorldFlow
<1>6. Flow'
  BY <1>2, <1>3, <1>4, <1>5 DEF Proxy!Next
<1> QED BY <1>1, <1>6


----------------------------------------------------------------------------
(* Where the pipes are, and what the finally clause has closed.            *)

Phases ==
  /\ sock["client"] # "none"
  /\ \A s \in Proxy!Sides :
       /\ handler \in Early => pipe[s] = "none"
       /\ handler \in Late => pipe[s] \in {"none", "ended"}

Closing ==
  /\ handler = "wait" => sock["client"] # "open"
  /\ handler \in {"closeUp", "waitUp", "done"} => sock["client"] = "closed"
  /\ handler = "waitUp" => sock["upstream"] # "open"
  /\ handler = "done" => err["client"] = "unexpected" \/ sock["upstream"] \in {"none", "closed"}

\* Steps that are not the handler's.
Beside == Proxy!Vanish \/ \E s \in Proxy!Sides : Proxy!Pipe(s) \/ Proxy!Kernel(s) \/ Proxy!PeerSends(s) \/ Proxy!PeerCloses(s)

LEMMA BesideSteps ==
  ASSUME Flow, Beside
  PROVE  /\ handler' = handler /\ upgrade' = upgrade
         /\ \A s \in Proxy!Sides :
              /\ sock[s] = "closed" => sock'[s] = "closed"
              /\ sock'[s] = "open" => sock[s] = "open"
              /\ sock[s] = "none" <=> sock'[s] = "none"
              /\ peer'[s] \in {peer[s], "gone"} /\ (peer[s] # "up" => peer'[s] = peer[s])
         /\ err["client"] = "unexpected" => err'["client"] = "unexpected"
         /\ (\A s \in Proxy!Sides : pipe[s] \in {"none", "ended"}) => pipe' = pipe
<1> DEFINE Goal ==
         /\ handler' = handler /\ upgrade' = upgrade
         /\ \A s \in Proxy!Sides :
              /\ sock[s] = "closed" => sock'[s] = "closed"
              /\ sock'[s] = "open" => sock[s] = "open"
              /\ sock[s] = "none" <=> sock'[s] = "none"
              /\ peer'[s] \in {peer[s], "gone"} /\ (peer[s] # "up" => peer'[s] = peer[s])
         /\ err["client"] = "unexpected" => err'["client"] = "unexpected"
         /\ (\A s \in Proxy!Sides : pipe[s] \in {"none", "ended"}) => pipe' = pipe
<1>1. ASSUME NEW s \in Proxy!Sides, NEW e, Proxy!Lost(s, e), sock[s] \in {"open", "closing"}
      PROVE Goal
  <2>1. /\ UNCHANGED <<Proxy!peers, handler, raised, pipe>>
        /\ sock' = [sock EXCEPT ![s] = "closed"] /\ err' = [err EXCEPT ![s] = e]
    BY <1>1 DEF Proxy!Lost
  <2>2. s = "client" => err["client"] # "unexpected"
    BY <1>1, FlowTypes
  <2>3. /\ sock'[s] = "closed" /\ \A t \in Proxy!Sides : t # s => sock'[t] = sock[t]
        /\ s # "client" => err'["client"] = err["client"]
    BY <2>1, FlowTypes, OtherSide
  <2> QED BY <1>1, <2>1, <2>2, <2>3 DEF Proxy!peers
<1>2. ASSUME Proxy!Vanish PROVE Goal
  <2>1. /\ "client" \in Proxy!Sides /\ sock["client"] \in {"open", "closing"}
        /\ Proxy!Lost("client", "unexpected")
    BY <1>2, OtherSide DEF Proxy!Vanish
  <2>2. Goal
    <3> HIDE DEF Goal
    <3> QED BY <1>1, <2>1, Zenon
  <2> QED BY <2>2
<1>3. ASSUME NEW s \in Proxy!Sides, Proxy!Pipe(s) PROVE Goal
  <2>1. CASE Proxy!PipeRead(s) \/ Proxy!PipeReadEnds(s) \/ Proxy!PipeDrain(s) \/ Proxy!PipeWait(s)
    BY <2>1 DEF Proxy!PipeRead, Proxy!PipeReadEnds, Proxy!PipeDrain, Proxy!PipeWait, Proxy!peers
  <2>2. CASE Proxy!PipeClose(s)
    <3>1. /\ Proxy!CloseSock(Proxy!Other(s)) /\ pipe[s] = "close"
          /\ UNCHANGED <<Proxy!peers, err, handler>>
      BY <2>2 DEF Proxy!PipeClose, Proxy!PipeCloses
    <3>2. /\ sock'[Proxy!Other(s)] = IF sock[Proxy!Other(s)] = "open" THEN "closing" ELSE sock[Proxy!Other(s)]
          /\ \A t \in Proxy!Sides : t # Proxy!Other(s) => sock'[t] = sock[t]
      BY <3>1, SockCloses, OtherSide
    <3> QED BY <3>1, <3>2, OtherSide DEF Proxy!peers
  <2> QED BY <1>3, <2>1, <2>2 DEF Proxy!Pipe
<1>4. ASSUME NEW s \in Proxy!Sides, Proxy!Kernel(s) PROVE Goal
  <2>1. CASE Proxy!Flush(s)
    BY <2>1 DEF Proxy!Flush
  <2>2. CASE Proxy!Reset(s)
    BY <1>1, <2>2 DEF Proxy!Reset
  <2>3. CASE Proxy!CloseDone(s)
    <3>1. /\ UNCHANGED <<Proxy!peers, err, handler, pipe>>
          /\ sock[s] = "closing" /\ sock' = [sock EXCEPT ![s] = "closed"]
      BY <2>3 DEF Proxy!CloseDone
    <3>2. sock'[s] = "closed" /\ \A t \in Proxy!Sides : t # s => sock'[t] = sock[t]
      BY <3>1, FlowTypes
    <3> QED BY <3>1, <3>2 DEF Proxy!peers
  <2> QED BY <1>4, <2>1, <2>2, <2>3 DEF Proxy!Kernel
<1>5. ASSUME NEW s \in Proxy!Sides, Proxy!PeerSends(s) \/ Proxy!PeerCloses(s) PROVE Goal
  <2>1. CASE Proxy!PeerSends(s)
    BY <2>1 DEF Proxy!PeerSends
  <2>2. CASE Proxy!PeerCloses(s)
    <3>1. /\ UNCHANGED <<upgrade, err, sock, handler, pipe>>
          /\ peer[s] = "up" /\ peer' = [peer EXCEPT ![s] = "gone"]
      BY <2>2 DEF Proxy!PeerCloses
    <3>2. peer'[s] = "gone" /\ \A t \in Proxy!Sides : t # s => peer'[t] = peer[t]
      BY <3>1, FlowTypes
    <3> QED BY <3>1, <3>2
  <2> QED BY <1>5, <2>1, <2>2
<1>6. Goal
  <2> HIDE DEF Goal
  <2> QED BY <1>2, <1>3, <1>4, <1>5 DEF Beside
<1> QED BY <1>6

LEMMA PhasesStep == ASSUME Flow, Phases, [Proxy!Next]_(Proxy!vars) PROVE Phases'
<1>1. CASE UNCHANGED Proxy!vars
  BY <1>1 DEF Proxy!vars, Phases
<1>2. CASE Beside
  <2>1. handler' = handler /\ (sock["client"] # "none" => sock'["client"] # "none")
    BY <1>2, BesideSteps, OtherSide
  <2>2. handler \in Early \cup Late => \A s \in Proxy!Sides : pipe[s] \in {"none", "ended"}
    BY DEF Phases
  <2>3. handler \in Early \cup Late => pipe' = pipe
    BY <1>2, <2>2, BesideSteps
  <2> QED BY <2>1, <2>3 DEF Phases
<1>3. CASE Proxy!Handler
  <2>1. CASE Proxy!ReadHeader \/ Proxy!Connect \/ Proxy!DrainRequest \/ Proxy!ReadAnswer
    <3>1. UNCHANGED pipe /\ handler \in Early /\ handler' \in Early \cup {"close"}
      BY <2>1 DEF Proxy!ReadHeader, Proxy!Connect, Proxy!DrainRequest, Proxy!DrainAt,
          Proxy!ReadAnswer, Proxy!GoTo, Proxy!Raise, Early
    <3>2. sock'["client"] = sock["client"]
      BY <2>1, FlowTypes, OtherSide DEF Proxy!ReadHeader, Proxy!Connect, Proxy!DrainRequest,
          Proxy!DrainAt, Proxy!ReadAnswer
    <3> QED BY <3>1, <3>2 DEF Phases, Late, Early
  <2>2. CASE Proxy!DrainAnswer
    <3>1. /\ UNCHANGED sock /\ handler = "reply"
          /\ handler' = "pipes" \/ (handler' = "close" /\ pipe' = pipe)
      BY <2>2 DEF Proxy!DrainAnswer, Proxy!DrainAt, Proxy!GoTo, Proxy!Raise
    <3> QED BY <3>1 DEF Phases, Late, Early
  <2>3. CASE Proxy!Gather
    BY <2>3 DEF Proxy!Gather, Proxy!PipesDone, Proxy!GoTo, Phases, Late, Early
  <2>4. CASE Proxy!CloseClient \/ Proxy!WaitClient \/ Proxy!CloseUpstream \/ Proxy!WaitUpstream
    <3>1. UNCHANGED pipe /\ handler \in Late /\ handler' \in Late
      BY <2>4 DEF Proxy!CloseClient, Proxy!WaitClient, Proxy!CloseUpstream, Proxy!WaitUpstream,
          Proxy!GoTo, Proxy!AfterClient, Late
    <3>2. UNCHANGED sock \/ \E s \in Proxy!Sides : Proxy!CloseSock(s)
      BY <2>4, OtherSide DEF Proxy!CloseClient, Proxy!WaitClient, Proxy!CloseUpstream,
          Proxy!WaitUpstream
    <3>3. sock["client"] # "none" => sock'["client"] # "none"
      BY <3>2, FlowTypes, OtherSide DEF Proxy!CloseSock
    <3> QED BY <3>1, <3>3 DEF Phases, Late, Early
  <2> QED BY <1>3, <2>1, <2>2, <2>3, <2>4 DEF Proxy!Handler
<1> QED BY <1>1, <1>2, <1>3 DEF Proxy!Next, Beside

LEMMA ClosingStep == ASSUME Flow, Phases, Closing, [Proxy!Next]_(Proxy!vars) PROVE Closing'
<1>1. CASE UNCHANGED Proxy!vars
  BY <1>1 DEF Proxy!vars, Closing
<1>2. CASE Beside
  BY <1>2, BesideSteps, OtherSide DEF Closing
<1>3. CASE Proxy!Handler
  <2>1. CASE Proxy!ReadHeader \/ Proxy!Connect \/ Proxy!DrainRequest \/ Proxy!ReadAnswer \/ Proxy!DrainAnswer \/ Proxy!Gather
    <3>1. handler' \in Early \cup {"close", "pipes"}
      BY <2>1 DEF Proxy!ReadHeader, Proxy!Connect, Proxy!DrainRequest, Proxy!DrainAt,
          Proxy!ReadAnswer, Proxy!DrainAnswer, Proxy!Gather, Proxy!GoTo, Proxy!Raise, Early
    <3> QED BY <3>1 DEF Closing, Early
  <2>2. CASE Proxy!CloseClient
    <3>1. handler' = "wait" /\ Proxy!CloseSock("client")
      BY <2>2 DEF Proxy!CloseClient, Proxy!GoTo
    <3> QED BY <3>1, SockCloses, OtherSide DEF Closing
  <2>3. CASE Proxy!WaitClient
    <3>1. /\ sock' = sock /\ err' = err /\ sock["client"] = "closed"
          /\ \/ handler' = Proxy!AfterClient
             \/ handler' = "done" /\ err["client"] = "unexpected"
      BY <2>3 DEF Proxy!WaitClient, Proxy!Closed, Proxy!GoTo, Proxy!Expected
    <3> QED BY <3>1 DEF Closing, Proxy!AfterClient
  <2>4. CASE Proxy!CloseUpstream
    <3>1. handler = "closeUp" /\ handler' = "waitUp" /\ Proxy!CloseSock("upstream")
      BY <2>4 DEF Proxy!CloseUpstream, Proxy!GoTo
    <3> QED BY <3>1, SockCloses, OtherSide DEF Closing
  <2>5. CASE Proxy!WaitUpstream
    BY <2>5 DEF Proxy!WaitUpstream, Proxy!Closed, Closing
  <2> QED BY <1>3, <2>1, <2>2, <2>3, <2>4, <2>5 DEF Proxy!Handler
<1> QED BY <1>1, <1>2, <1>3 DEF Proxy!Next, Beside


----------------------------------------------------------------------------
(* What was sent is still under way, or has arrived.                       *)

Through(s) ==
  /\ Whole(s)
  /\ \/ /\ pipe[s] \in {"read", "drain"} /\ pipe[Proxy!Other(s)] \in {"read", "drain"}
        /\ sock[s] = "open" /\ sock[Proxy!Other(s)] = "open"
     \/ pipe[s] \in {"close", "wait", "ended"} /\ peer[s] = "gone" /\ inbox[s] = 0

WrittenOn(s) ==
  \/ peer[s] = "absent"
  \/ peer[s] = "gone" /\ delivered[Proxy!Other(s)] + outbox[Proxy!Other(s)] = sent[s]

EarlyWhole ==
  handler \in Early =>
    /\ sock["client"] = "open"
    /\ handler \notin {"header", "connect"} => sock["upstream"] = "open"
    /\ \A s \in Proxy!Sides : Whole(s)

PipesThrough == handler = "pipes" => \A s \in Proxy!Sides : peer[Proxy!Other(s)] = "up" => Through(s)

LateWritten ==
  handler \in Late /\ upgrade => \A s \in Proxy!Sides : peer[Proxy!Other(s)] = "up" => WrittenOn(s)

Unbroken == ~crossed => EarlyWhole /\ PipesThrough /\ LateWritten

\* The numbers of chunks one direction has.
LEMMA Direction ==
  ASSUME Flow, NEW s \in Proxy!Sides
  PROVE  /\ Proxy!Other(s) \in Proxy!Sides /\ Proxy!Other(s) # s /\ Proxy!Other(Proxy!Other(s)) = s
         /\ delivered[Proxy!Other(s)] \in Nat /\ outbox[Proxy!Other(s)] \in Nat /\ inbox[s] \in Nat
         /\ sent[s] \in Nat /\ Held(s) \in Nat
BY OtherSide, FlowTypes DEF Held

World(s) == Proxy!Flush(s) \/ Proxy!CloseDone(s) \/ Proxy!PeerSends(s) \/ Proxy!PeerCloses(s)

\* Without a reset and without a time-out, what is not the handler is a pipe, a
\* flush, the end of a close, or a peer.
LEMMA Quiet ==
  ASSUME Beside, crossed' = FALSE
  PROVE  crossed = FALSE /\ \E s \in Proxy!Sides : Proxy!Pipe(s) \/ World(s)
<1>1. ASSUME NEW s, NEW e, Proxy!Lost(s, e) PROVE FALSE
  BY <1>1 DEF Proxy!Lost
<1>2. ~Proxy!Vanish
  BY <1>1 DEF Proxy!Vanish
<1>3. ASSUME NEW s \in Proxy!Sides, Proxy!Pipe(s)
      PROVE  crossed = FALSE
  BY <1>3 DEF Proxy!Pipe, Proxy!PipeRead, Proxy!PipeReadEnds, Proxy!PipeDrain, Proxy!PipeClose,
      Proxy!PipeWait
<1>4. ASSUME NEW s \in Proxy!Sides, Proxy!Kernel(s) \/ Proxy!PeerSends(s) \/ Proxy!PeerCloses(s)
      PROVE  crossed = FALSE /\ World(s)
  <2>1. ~Proxy!Reset(s)
    BY <1>1 DEF Proxy!Reset
  <2> QED BY <1>4, <2>1 DEF Proxy!Kernel, World, Proxy!Flush, Proxy!CloseDone, Proxy!PeerSends,
      Proxy!PeerCloses
<1> QED BY <1>2, <1>3, <1>4 DEF Beside

\* What the peers and the kernel do to one direction's chunks.
LEMMA WorldCounts ==
  ASSUME Flow, NEW t \in Proxy!Sides, World(t), NEW s \in Proxy!Sides
  PROVE  /\ UNCHANGED <<upgrade, handler, raised, pipe>>
         /\ delivered'[Proxy!Other(s)] + outbox'[Proxy!Other(s)] = delivered[Proxy!Other(s)] + outbox[Proxy!Other(s)]
         /\ delivered'[Proxy!Other(s)] \in Nat /\ outbox'[Proxy!Other(s)] \in Nat
         /\ inbox'[s] \in Nat
         /\ peer[s] # "up" => sent'[s] = sent[s] /\ inbox'[s] <= inbox[s] /\ peer'[s] = peer[s]
         /\ peer[s] = "up" /\ sock[s] = "open" => inbox'[s] - inbox[s] = sent'[s] - sent[s]
         /\ sock[s] # "closing" => inbox'[s] >= inbox[s] /\ sock'[s] = sock[s]
         /\ sock[s] = "open" => inbox'[s] - inbox[s] = sent'[s] - sent[s]
         /\ sent'[s] \in Nat /\ Held(s)' = Held(s)
<1>1. /\ Proxy!Other(s) \in Proxy!Sides /\ delivered[Proxy!Other(s)] \in Nat
      /\ outbox[Proxy!Other(s)] \in Nat /\ inbox[s] \in Nat
      /\ sent[s] \in Nat
  BY Direction
<1>2. CASE Proxy!Flush(t)
  <2>1. /\ UNCHANGED <<peer, sent, upgrade, inbox, sock, handler, raised, pipe>> /\ outbox[t] > 0
        /\ outbox' = [outbox EXCEPT ![t] = @ - 1] /\ delivered' = [delivered EXCEPT ![t] = @ + 1]
    BY <1>2 DEF Proxy!Flush
  <2>2. /\ delivered'[Proxy!Other(s)] + outbox'[Proxy!Other(s)] = delivered[Proxy!Other(s)] + outbox[Proxy!Other(s)]
        /\ delivered'[Proxy!Other(s)] \in Nat /\ outbox'[Proxy!Other(s)] \in Nat
    BY <1>1, <2>1, FlowTypes
  <2> QED BY <1>1, <2>1, <2>2 DEF Held
<1>3. CASE Proxy!CloseDone(t)
  <2>1. /\ UNCHANGED <<Proxy!peers, outbox, handler, raised, pipe>>
        /\ sock[t] = "closing" /\ sock' = [sock EXCEPT ![t] = "closed"]
        /\ \E n \in 0..inbox[t] : inbox' = [inbox EXCEPT ![t] = n]
    BY <1>3 DEF Proxy!CloseDone
  <2>2. /\ inbox'[s] \in Nat /\ inbox'[s] <= inbox[s]
        /\ sock[s] # "closing" => inbox'[s] = inbox[s] /\ sock'[s] = sock[s]
    BY <1>1, <2>1, FlowTypes
  <2> QED BY <1>1, <2>1, <2>2 DEF Held, Proxy!peers
<1>4. CASE Proxy!PeerSends(t)
  <2>1. /\ UNCHANGED <<peer, delivered, upgrade, outbox, sock, handler, raised, pipe>>
        /\ peer[t] = "up"
        /\ sent' = [sent EXCEPT ![t] = @ + 1]
        /\ inbox' = [inbox EXCEPT ![t] = IF sock[t] = "open" THEN @ + 1 ELSE @]
    BY <1>4 DEF Proxy!PeerSends
  <2>2. CASE s = t
    <3>1. sent'[s] = sent[s] + 1 /\ inbox'[s] = IF sock[s] = "open" THEN inbox[s] + 1 ELSE inbox[s]
      BY <2>1, <2>2, FlowTypes
    <3> QED BY <1>1, <2>1, <2>2, <3>1 DEF Held
  <2>3. CASE s # t
    <3>1. sent'[s] = sent[s] /\ inbox'[s] = inbox[s]
      BY <2>1, <2>3, FlowTypes
    <3> QED BY <1>1, <2>1, <3>1 DEF Held
  <2> QED BY <2>2, <2>3
<1>5. CASE Proxy!PeerCloses(t)
  <2>1. /\ UNCHANGED <<sent, delivered, upgrade, inbox, outbox, sock, handler, raised, pipe>>
        /\ peer[t] = "up" /\ peer' = [peer EXCEPT ![t] = "gone"]
    BY <1>5 DEF Proxy!PeerCloses
  <2>2. peer[s] # "up" => peer'[s] = peer[s]
    BY <2>1, FlowTypes
  <2> QED BY <1>1, <2>1, <2>2 DEF Held
<1> QED BY <1>2, <1>3, <1>4, <1>5 DEF World

LEMMA EarlyStep ==
  ASSUME Flow, Unopened, Phases, handler \in Early, EarlyWhole, Beside, crossed' = FALSE
  PROVE  handler' = handler /\ EarlyWhole'
<1>1. PICK t \in Proxy!Sides : World(t)
  <2>1. \A t \in Proxy!Sides : ~Proxy!Pipe(t)
    BY DEF Phases, Proxy!Pipe, Proxy!PipeRead, Proxy!PipeReadEnds, Proxy!PipeDrain,
        Proxy!PipeClose, Proxy!PipeWait
  <2> QED BY <2>1, Quiet
<1>2. /\ sock["client"] = "open"
      /\ sock["upstream"] # "open" => sock["upstream"] = "none" /\ peer["upstream"] = "absent"
  BY DEF EarlyWhole, Unopened
<1>3. ASSUME NEW s \in Proxy!Sides PROVE sock'[s] = sock[s] /\ handler' = handler /\ Whole(s)'
  <2>1. sock[s] = "open" \/ (sock[s] = "none" /\ peer[s] = "absent")
    BY <1>2, OtherSide
  <2>2. /\ sock'[s] = sock[s] /\ handler' = handler /\ inbox'[s] - inbox[s] = sent'[s] - sent[s]
        /\ inbox'[s] \in Nat /\ sent'[s] \in Nat
    BY <1>1, <2>1, WorldCounts, Direction
  <2>3. /\ delivered'[Proxy!Other(s)] + outbox'[Proxy!Other(s)] = delivered[Proxy!Other(s)] + outbox[Proxy!Other(s)]
        /\ delivered'[Proxy!Other(s)] \in Nat /\ outbox'[Proxy!Other(s)] \in Nat
        /\ Held(s)' = Held(s)
    BY <1>1, WorldCounts
  <2>4. delivered[Proxy!Other(s)] + outbox[Proxy!Other(s)] + inbox[s] + Held(s) = sent[s]
    BY DEF EarlyWhole, Whole, Carried
  <2> QED BY <2>2, <2>3, <2>4, Direction DEF Whole, Carried
<1> QED BY <1>3, OtherSide DEF EarlyWhole

\* One direction while the pipes run.
LEMMA ThroughStep ==
  ASSUME Flow, handler = "pipes", NEW s \in Proxy!Sides, peer[Proxy!Other(s)] = "up",
         peer'[Proxy!Other(s)] = "up", Through(s),
         crossed = FALSE, NEW t \in Proxy!Sides, Proxy!Pipe(t) \/ World(t)
  PROVE  Through(s)'
<1>1. /\ Proxy!Other(s) \in Proxy!Sides /\ Proxy!Other(s) # s
      /\ Proxy!Other(Proxy!Other(s)) = s /\ (t = s \/ t = Proxy!Other(s))
      /\ delivered[Proxy!Other(s)] \in Nat /\ outbox[Proxy!Other(s)] \in Nat /\ inbox[s] \in Nat
      /\ sent[s] \in Nat /\ Held(s) = 0
      /\ delivered[Proxy!Other(s)] + outbox[Proxy!Other(s)] + inbox[s] = sent[s]
  BY Direction, OtherSide DEF Through, Whole, Carried, Held
<1>2. \A r \in Proxy!Sides : err[r] = "none"
  BY FlowTypes
<1>3. CASE World(t)
  <2>1. /\ pipe' = pipe /\ handler' = handler
        /\ delivered'[Proxy!Other(s)] + outbox'[Proxy!Other(s)] = delivered[Proxy!Other(s)] + outbox[Proxy!Other(s)]
        /\ delivered'[Proxy!Other(s)] \in Nat /\ outbox'[Proxy!Other(s)] \in Nat
        /\ inbox'[s] \in Nat /\ sent'[s] \in Nat
        /\ Held(s)' = 0
    BY <1>1, <1>3, WorldCounts
  <2>2. CASE sock[s] = "open" /\ sock[Proxy!Other(s)] = "open"
    <3>1. /\ inbox'[s] - inbox[s] = sent'[s] - sent[s] /\ sock'[s] = "open"
          /\ sock'[Proxy!Other(s)] = "open"
      BY <1>1, <1>3, <2>2, WorldCounts
    <3>2. peer[s] = "gone" => peer'[s] = "gone" /\ inbox'[s] <= inbox[s]
      BY <1>3, WorldCounts
    <3> QED BY <1>1, <2>1, <2>2, <3>1, <3>2 DEF Through, Whole, Carried
  <2>3. CASE ~(sock[s] = "open" /\ sock[Proxy!Other(s)] = "open")
    <3>1. pipe[s] \in {"close", "wait", "ended"} /\ peer[s] = "gone" /\ inbox[s] = 0
      BY <2>3 DEF Through
    <3>2. sent'[s] = sent[s] /\ inbox'[s] <= inbox[s] /\ peer'[s] = "gone"
      BY <1>3, <3>1, WorldCounts
    <3> QED BY <1>1, <2>1, <3>1, <3>2 DEF Through, Whole, Carried
  <2> QED BY <2>2, <2>3
<1>4. CASE Proxy!PipeRead(t)
  <2>1. /\ pipe[t] = "read" /\ Proxy!Readable(t) /\ Proxy!Take(t) /\ Proxy!Put(Proxy!Other(t))
        /\ Proxy!PipeTo(t, "drain")
        /\ UNCHANGED <<peer, sent, delivered, sock, handler>>
    BY <1>4 DEF Proxy!PipeRead, Proxy!peers
  <2>2. /\ inbox'[t] = inbox[t] - 1 /\ inbox'[Proxy!Other(t)] = inbox[Proxy!Other(t)]
        /\ inbox' \in [Proxy!Sides -> Nat]
        /\ outbox'[t] = outbox[t] /\ outbox' \in [Proxy!Sides -> Nat]
        /\ outbox'[Proxy!Other(t)] = IF sock[Proxy!Other(t)] = "open" THEN outbox[Proxy!Other(t)] + 1 ELSE outbox[Proxy!Other(t)]
    BY <2>1, HandOn
  <2>3. pipe'[t] = "drain" /\ \A r \in Proxy!Sides : r # t => pipe'[r] = pipe[r]
    BY <2>1, PipeGoes DEF PipePoints
  <2>4. Held(s)' = 0
    BY <2>1 DEF Held
  <2>5. CASE t = s
    <3>1. /\ sock[Proxy!Other(s)] = "open" /\ sock[s] = "open"
          /\ pipe[Proxy!Other(s)] \in {"read", "drain"}
      BY <2>1, <2>5 DEF Through
    <3> QED BY <1>1, <2>1, <2>2, <2>3, <2>4, <2>5, <3>1 DEF Through, Whole, Carried
  <2>6. CASE t = Proxy!Other(s)
    BY <1>1, <2>1, <2>2, <2>3, <2>4, <2>6 DEF Through, Whole, Carried
  <2> QED BY <1>1, <2>5, <2>6
<1>5. CASE Proxy!PipeReadEnds(t) \/ Proxy!PipeDrain(t) \/ Proxy!PipeClose(t) \/ Proxy!PipeWait(t)
  <2>1. UNCHANGED <<peer, sent, delivered, inbox, outbox, handler>>
    BY <1>5 DEF Proxy!PipeReadEnds, Proxy!PipeDrain, Proxy!PipeClose, Proxy!PipeWait, Proxy!peers
  <2>2. Whole(s)'
    BY <2>1 DEF Through, Whole, Carried, Held
  <2>3. \E point \in PipePoints : Proxy!PipeTo(t, point)
    BY <1>5 DEF Proxy!PipeReadEnds, Proxy!PipeDrain, Proxy!PipeClose, Proxy!PipeWait, PipePoints
  <2>4. pipe'[t] \in PipePoints /\ \A r \in Proxy!Sides : r # t => pipe'[r] = pipe[r]
    BY <2>3, PipeGoes
  <2>5. CASE Proxy!PipeReadEnds(t)
    <3>1. pipe'[t] = "close" /\ pipe[t] = "read" /\ Proxy!Ended(t) /\ UNCHANGED sock
      BY <1>2, <2>5, PipeGoes DEF Proxy!PipeReadEnds, PipePoints
    <3>2. CASE t = s
      BY <2>1, <2>2, <3>1, <3>2 DEF Through, Proxy!Ended
    <3>3. CASE t = Proxy!Other(s)
      BY <1>1, <2>1, <2>2, <2>4, <3>1, <3>3 DEF Through, Proxy!Ended
    <3> QED BY <1>1, <3>2, <3>3
  <2>6. CASE Proxy!PipeDrain(t)
    <3>1. /\ pipe[t] = "drain" /\ UNCHANGED sock
          /\ pipe'[t] = "read" \/ (pipe'[t] = "close" /\ sock[Proxy!Other(t)] = "closed")
      BY <2>6, PipeGoes DEF Proxy!PipeDrain, PipePoints, Proxy!Closed
    <3> QED BY <1>1, <2>1, <2>2, <2>4, <3>1 DEF Through
  <2>7. CASE Proxy!PipeClose(t)
    <3>1. pipe[t] = "close" /\ pipe'[t] = "wait"
      BY <2>7, PipeGoes DEF Proxy!PipeClose, PipePoints
    <3> QED BY <1>1, <2>1, <2>2, <2>4, <3>1 DEF Through
  <2>8. CASE Proxy!PipeWait(t)
    <3>1. pipe[t] = "wait" /\ pipe'[t] = "ended"
      BY <2>8, PipeGoes DEF Proxy!PipeWait, PipePoints
    <3> QED BY <1>1, <2>1, <2>2, <2>4, <3>1 DEF Through
  <2> QED BY <1>5, <2>5, <2>6, <2>7, <2>8
<1> QED BY <1>3, <1>4, <1>5 DEF Proxy!Pipe

LEMMA PipesStep ==
  ASSUME Flow, handler = "pipes", PipesThrough, Beside, crossed' = FALSE
  PROVE  handler' = handler /\ PipesThrough'
<1>1. PICK t \in Proxy!Sides : Proxy!Pipe(t) \/ World(t)
  BY Quiet
<1>2. /\ crossed = FALSE /\ handler' = handler
      /\ \A s \in Proxy!Sides : peer'[s] = "up" => peer[s] = "up"
  BY Quiet, BesideSteps
<1>3. ASSUME NEW s \in Proxy!Sides, peer'[Proxy!Other(s)] = "up" PROVE Through(s)'
  <2>1. peer[Proxy!Other(s)] = "up" /\ Through(s)
    BY <1>2, <1>3, OtherSide DEF PipesThrough
  <2> QED BY <1>1, <1>2, <1>3, <2>1, ThroughStep
<1> QED BY <1>2, <1>3 DEF PipesThrough

LEMMA LateStep ==
  ASSUME Flow, Phases, handler \in Late, LateWritten, Beside, crossed' = FALSE
  PROVE  handler' = handler /\ LateWritten'
<1>1. PICK t \in Proxy!Sides : World(t)
  <2>1. \A t \in Proxy!Sides : ~Proxy!Pipe(t)
    BY DEF Phases, Proxy!Pipe, Proxy!PipeRead, Proxy!PipeReadEnds, Proxy!PipeDrain,
        Proxy!PipeClose, Proxy!PipeWait
  <2> QED BY <2>1, Quiet
<1>2. /\ handler' = handler /\ upgrade' = upgrade
      /\ \A s \in Proxy!Sides : peer'[s] = "up" => peer[s] = "up"
  BY BesideSteps
<1>3. ASSUME NEW s \in Proxy!Sides, WrittenOn(s) PROVE WrittenOn(s)'
  BY <1>1, <1>3, WorldCounts DEF WrittenOn
<1> QED BY <1>2, <1>3, OtherSide DEF LateWritten

\* handle_client up to the pipes: each chunk it takes from one side it writes to
\* the other, and it raises only when a peer has gone or Chromium is not there.
LEMMA HandlerOpens ==
  ASSUME Flow, Unopened, Phases, Unbroken, crossed = FALSE,
         Proxy!ReadHeader \/ Proxy!Connect \/ Proxy!DrainRequest \/ Proxy!ReadAnswer \/ Proxy!DrainAnswer
  PROVE  EarlyWhole' /\ PipesThrough' /\ LateWritten'
<1>1. /\ handler \in Early /\ sock["client"] = "open"
      /\ handler \notin {"header", "connect"} => sock["upstream"] = "open"
      /\ Whole("client") /\ Whole("upstream")
  BY OtherSide DEF Proxy!ReadHeader, Proxy!Connect, Proxy!DrainRequest, Proxy!DrainAt,
      Proxy!ReadAnswer, Proxy!DrainAnswer, Early, Unbroken, EarlyWhole
<1>2. /\ delivered["upstream"] + outbox["upstream"] + inbox["client"] + Held("client") = sent["client"]
      /\ delivered["client"] + outbox["client"] + inbox["upstream"] = sent["upstream"]
      /\ \A s \in Proxy!Sides : delivered[s] \in Nat /\ outbox[s] \in Nat /\ inbox[s] \in Nat /\ sent[s] \in Nat
  <2>1. Held("upstream") = 0
    BY DEF Held
  <2> QED BY <1>1, <2>1, OtherSide, Numbers DEF Whole, Carried
<1>3. \A s \in Proxy!Sides : err[s] = "none" /\ err'[s] = "none"
  <2>1. err' = err
    BY DEF Proxy!ReadHeader, Proxy!Connect, Proxy!DrainRequest, Proxy!DrainAt, Proxy!ReadAnswer,
        Proxy!DrainAnswer
  <2> QED BY <2>1, FlowTypes
<1>4. ASSUME handler' \in Early, sock'["client"] = "open",
             handler' \notin {"header", "connect"} => sock'["upstream"] = "open",
             delivered'["upstream"] + outbox'["upstream"] + inbox'["client"] + Held("client")' = sent'["client"],
             delivered'["client"] + outbox'["client"] + inbox'["upstream"] = sent'["upstream"],
             delivered'["client"] \in Nat, outbox'["client"] \in Nat, inbox'["upstream"] \in Nat
      PROVE  EarlyWhole' /\ PipesThrough' /\ LateWritten'
  <2>1. Held("upstream")' = 0
    BY DEF Held
  <2>2. Whole("client")' /\ Whole("upstream")'
    BY <1>4, <2>1, OtherSide DEF Whole, Carried
  <2>3. handler' # "pipes" /\ handler' \notin Late
    BY <1>4 DEF Early, Late
  <2> QED BY <1>4, <2>2, <2>3, OtherSide DEF EarlyWhole, PipesThrough, LateWritten
<1>5. CASE Proxy!ReadHeader
  <2>1. CASE handler' = "connect"
    <3>1. /\ inbox["client"] > 0 /\ inbox' = [inbox EXCEPT !["client"] = @ - 1]
          /\ handler = "header" /\ UNCHANGED <<Proxy!peers, outbox, sock>>
      BY <1>5, <2>1 DEF Proxy!ReadHeader, Proxy!Readable, Proxy!Take, Proxy!GoTo, Proxy!Raise
    <3>2. inbox'["client"] = inbox["client"] - 1 /\ inbox'["upstream"] = inbox["upstream"]
      BY <3>1, FlowTypes, OtherSide
    <3>3. Held("client") = 0 /\ Held("client")' = 1
      BY <2>1, <3>1 DEF Held
    <3>4. delivered["upstream"] + outbox["upstream"] + (inbox["client"] - 1) + 1 = sent["client"]
      BY <1>2, <3>3, OtherSide
    <3> QED BY <1>1, <1>2, <1>4, <2>1, <3>1, <3>2, <3>3, <3>4, OtherSide DEF Proxy!peers, Early
  <2>2. CASE handler' # "connect"
    <3>1. /\ handler' = "close" /\ UNCHANGED Proxy!peers /\ Proxy!Ended("client")
          /\ handler = "header"
      BY <1>3, <1>5, <2>2, OtherSide DEF Proxy!ReadHeader, Proxy!GoTo, Proxy!Raise
    <3>2. peer'["client"] = "gone" /\ peer'["upstream"] = "absent"
      BY <1>1, <3>1 DEF Proxy!Ended, Unopened, Proxy!peers
    <3> QED BY <3>1, <3>2, OtherSide DEF EarlyWhole, PipesThrough, LateWritten, Early, WrittenOn
  <2> QED BY <2>1, <2>2
<1>6. CASE Proxy!Connect
  <2>1. CASE handler' = "ask"
    <3>1. /\ sock' = [sock EXCEPT !["upstream"] = "open"]
          /\ outbox' = [outbox EXCEPT !["upstream"] = @ + 1]
          /\ handler = "connect" /\ UNCHANGED <<sent, delivered, inbox>>
      BY <1>6, <2>1 DEF Proxy!Connect, Proxy!Raise, Proxy!GoTo
    <3>2. /\ outbox'["upstream"] = outbox["upstream"] + 1 /\ outbox'["client"] = outbox["client"]
          /\ sock'["upstream"] = "open" /\ sock'["client"] = sock["client"]
      BY <3>1, FlowTypes, OtherSide
    <3>3. Held("client") = 1 /\ Held("client")' = 0
      BY <2>1, <3>1 DEF Held
    <3>4. delivered["upstream"] + (outbox["upstream"] + 1) + inbox["client"] + 0 = sent["client"]
      BY <1>2, <3>3, OtherSide
    <3> QED BY <1>1, <1>2, <1>4, <2>1, <3>1, <3>2, <3>3, <3>4, OtherSide DEF Early
  <2>2. CASE handler' # "ask"
    <3>1. handler' = "close" /\ UNCHANGED <<peer, sent, delivered, upgrade>> /\ handler = "connect"
      BY <1>6, <2>2 DEF Proxy!Connect, Proxy!GoTo, Proxy!Raise
    <3>2. peer'["upstream"] = "absent"
      BY <3>1 DEF Unopened
    <3> QED BY <3>1, <3>2, OtherSide DEF EarlyWhole, PipesThrough, LateWritten, Early, WrittenOn
  <2> QED BY <2>1, <2>2
<1>7. CASE Proxy!DrainRequest
  <2>1. /\ handler = "ask" /\ handler' = "answer" /\ UNCHANGED <<Proxy!peers, inbox, outbox, sock>>
    BY <1>1, <1>7 DEF Proxy!DrainRequest, Proxy!DrainAt, Proxy!Closed, Proxy!GoTo
  <2>2. Held("client")' = Held("client")
    BY <2>1 DEF Held
  <2> QED BY <1>1, <1>2, <1>4, <2>1, <2>2, OtherSide DEF Proxy!peers, Early
<1>8. CASE Proxy!ReadAnswer
  <2>0. handler = "answer" /\ UNCHANGED <<Proxy!peers, sock>>
    BY <1>8 DEF Proxy!ReadAnswer
  <2>1. CASE handler' = "reply"
    <3>1. Proxy!Readable("upstream") /\ Proxy!Take("upstream") /\ Proxy!Put(Proxy!Other("upstream"))
      BY <1>8, <2>1, OtherSide DEF Proxy!ReadAnswer, Proxy!Raise, Proxy!GoTo
    <3>2. /\ inbox'["upstream"] = inbox["upstream"] - 1 /\ inbox'["client"] = inbox["client"]
          /\ outbox'["upstream"] = outbox["upstream"] /\ outbox'["client"] = outbox["client"] + 1
          /\ inbox'["upstream"] \in Nat
      BY <1>1, <3>1, HandOn, OtherSide
    <3>3. Held("client") = 0 /\ Held("client")' = 0
      BY <2>0, <2>1 DEF Held
    <3> QED BY <1>1, <1>2, <1>4, <2>0, <2>1, <3>2, <3>3, OtherSide DEF Proxy!peers, Early
  <2>2. CASE handler' # "reply"
    <3>1. handler' = "close" /\ Proxy!Ended("upstream") /\ UNCHANGED <<inbox, outbox>>
      BY <1>3, <1>8, <2>2, OtherSide DEF Proxy!ReadAnswer, Proxy!GoTo, Proxy!Raise
    <3>2. peer'["upstream"] = "gone" /\ inbox["upstream"] = 0
      BY <1>1, <2>0, <3>1 DEF Proxy!Ended, Proxy!peers
    <3>3. WrittenOn("upstream")'
      BY <1>2, <2>0, <3>1, <3>2, OtherSide DEF WrittenOn, Proxy!peers
    <3> QED BY <3>1, <3>2, <3>3, OtherSide DEF EarlyWhole, PipesThrough, LateWritten, Early
  <2> QED BY <2>1, <2>2
<1>9. CASE Proxy!DrainAnswer
  <2>1. /\ handler = "reply" /\ UNCHANGED <<Proxy!peers, inbox, outbox, sock>>
        /\ \/ upgrade /\ handler' = "pipes" /\ pipe' = Proxy!Both("read", "read")
           \/ ~upgrade /\ handler' = "close"
    BY <1>1, <1>9 DEF Proxy!DrainAnswer, Proxy!DrainAt, Proxy!Closed, Proxy!GoTo
  <2>2. ASSUME handler' = "pipes", NEW s \in Proxy!Sides PROVE Through(s)'
    <3>1. pipe' = [t \in Proxy!Sides |-> "read"]
      BY <2>1, <2>2 DEF Proxy!Both
    <3>2. Whole(s)' /\ sock'[s] = "open" /\ sock'[Proxy!Other(s)] = "open"
      <4>1. Held(s)' = Held(s)
        BY <2>1, <2>2 DEF Held
      <4>2. Whole(s)
        BY <1>1, OtherSide
      <4>3. Whole(s)'
        BY <2>1, <4>1, <4>2 DEF Whole, Carried, Proxy!peers
      <4> QED BY <1>1, <2>1, <4>3, OtherSide
    <3> QED BY <3>1, <3>2, OtherSide DEF Through
  <2> QED BY <2>1, <2>2 DEF EarlyWhole, PipesThrough, LateWritten, Early, Late, Proxy!peers
<1> QED BY <1>5, <1>6, <1>7, <1>8, <1>9

LEMMA HandlerCloses ==
  ASSUME Flow, Phases, Unbroken, crossed = FALSE,
         Proxy!Gather \/ Proxy!CloseClient \/ Proxy!WaitClient \/ Proxy!CloseUpstream \/ Proxy!WaitUpstream
  PROVE  EarlyWhole' /\ PipesThrough' /\ LateWritten'
<1>1. /\ UNCHANGED <<Proxy!peers, inbox, outbox>> /\ handler \in Late \cup {"pipes"}
      /\ handler' \in Late
  BY DEF Proxy!Gather, Proxy!CloseClient, Proxy!WaitClient, Proxy!CloseUpstream,
      Proxy!WaitUpstream, Proxy!GoTo, Proxy!AfterClient, Late
<1>2. ASSUME NEW s \in Proxy!Sides, peer[Proxy!Other(s)] = "up", upgrade PROVE WrittenOn(s)
  <2>1. CASE handler = "pipes"
    <3>1. Through(s) /\ pipe[s] = "ended"
      BY <1>2, <2>1 DEF Unbroken, PipesThrough, Proxy!Gather, Proxy!PipesDone, Proxy!CloseClient,
          Proxy!WaitClient, Proxy!CloseUpstream, Proxy!WaitUpstream
    <3>2. delivered[Proxy!Other(s)] + outbox[Proxy!Other(s)] + 0 + 0 = sent[s] /\ peer[s] = "gone"
      BY <2>1, <3>1 DEF Through, Whole, Carried, Held
    <3> QED BY <3>2, Direction DEF WrittenOn
  <2>2. CASE handler \in Late
    BY <1>2, <2>2 DEF Unbroken, LateWritten
  <2> QED BY <1>1, <2>1, <2>2
<1>3. \A s \in Proxy!Sides : WrittenOn(s) => WrittenOn(s)'
  BY <1>1 DEF WrittenOn, Proxy!peers
<1>4. handler' # "pipes" /\ handler' \notin Early
  BY <1>1 DEF Late, Early
<1> QED BY <1>1, <1>2, <1>3, <1>4 DEF EarlyWhole, PipesThrough, LateWritten, Proxy!peers

LEMMA UnbrokenStep ==
  ASSUME Flow, Unopened, Phases, Unbroken, [Proxy!Next]_(Proxy!vars),
         crossed' \in BOOLEAN PROVE Unbroken'
<1> SUFFICES ASSUME crossed' = FALSE PROVE EarlyWhole' /\ PipesThrough' /\ LateWritten'
  BY DEF Unbroken
<1>1. CASE UNCHANGED Proxy!vars
  <2>1. UNCHANGED <<peer, sent, delivered, upgrade, inbox, outbox, sock, crossed, handler, pipe>>
    BY <1>1 DEF Proxy!vars, Proxy!peers
  <2>2. EarlyWhole /\ PipesThrough /\ LateWritten
    BY <2>1 DEF Unbroken
  <2> QED BY <2>1, <2>2 DEF EarlyWhole, PipesThrough, LateWritten, Whole, Carried, Held, Through,
      WrittenOn
<1>2. CASE Proxy!Handler
  <2>1. crossed' = crossed
    BY <1>2 DEF Proxy!Handler, Proxy!ReadHeader, Proxy!Connect, Proxy!DrainRequest,
        Proxy!DrainAt, Proxy!ReadAnswer, Proxy!DrainAnswer, Proxy!Gather, Proxy!CloseClient,
                Proxy!WaitClient, Proxy!CloseUpstream, Proxy!WaitUpstream
  <2> QED BY <1>2, <2>1, HandlerOpens, HandlerCloses DEF Proxy!Handler
<1>3. CASE Beside
  <2>1. EarlyWhole /\ PipesThrough /\ LateWritten
    BY <1>3, Quiet DEF Unbroken
  <2>2. handler \in Early \cup Late \cup {"pipes"}
    BY FlowTypes DEF HandlerPoints, Early, Late
  <2>3. CASE handler \in Early
    <3>1. handler' = handler /\ EarlyWhole'
      BY <1>3, <2>1, <2>3, EarlyStep
    <3> QED BY <2>3, <3>1 DEF PipesThrough, LateWritten, Early, Late
  <2>4. CASE handler = "pipes"
    <3>1. handler' = handler /\ PipesThrough'
      BY <1>3, <2>1, <2>4, PipesStep
    <3> QED BY <2>4, <3>1 DEF EarlyWhole, LateWritten, Early, Late
  <2>5. CASE handler \in Late
    <3>1. handler' = handler /\ LateWritten'
      BY <1>3, <2>1, <2>5, LateStep
    <3> QED BY <2>5, <3>1 DEF EarlyWhole, PipesThrough, Early, Late
  <2> QED BY <2>2, <2>3, <2>4, <2>5
<1> QED BY <1>1, <1>2, <1>3 DEF Proxy!Next, Beside

ConnectionInv == Flow /\ Unopened /\ Phases /\ Closing /\ Unbroken

LEMMA ConnectionInit == ASSUME Proxy!Sound, Proxy!Init PROVE ConnectionInv
<1>1. Flow
  BY FlowInit
<1>2. /\ peer["upstream"] = "absent" /\ sock["client"] = "open" /\ sock["upstream"] = "none"
      /\ sent["upstream"] = 0 /\ handler = "header" /\ \A s \in Proxy!Sides : pipe[s] = "none"
  BY OtherSide DEF Proxy!Init, Proxy!Both
<1>3. Unopened /\ Phases /\ Closing
  BY <1>2 DEF Unopened, Phases, Closing, Late, Early
<1>4. \A s \in Proxy!Sides : Whole(s)
  BY OtherSide DEF Proxy!Init, Proxy!Both, Whole, Carried, Held
<1>5. Unbroken
  BY <1>2, <1>4 DEF Unbroken, EarlyWhole, PipesThrough, LateWritten, Late
<1> QED BY <1>1, <1>3, <1>5 DEF ConnectionInv

LEMMA ConnectionStep ==
  ASSUME Proxy!Sound, ConnectionInv, [Proxy!Next]_(Proxy!vars)
  PROVE ConnectionInv'
<1>1. Flow' /\ Unopened'
  BY FlowStep DEF ConnectionInv
<1>2. Phases' /\ Closing'
  BY PhasesStep, ClosingStep DEF ConnectionInv
<1>3. crossed' \in BOOLEAN
  BY <1>1 DEF Flow, Proxy!TypeOK
<1>4. Unbroken'
  BY <1>3, UnbrokenStep DEF ConnectionInv
<1> QED BY <1>1, <1>2, <1>4 DEF ConnectionInv

\* Once the handler has ended, what was written on has been flushed: the connections
\* are closed, and a closed one has nothing left to write.
LEMMA ConnectionEnds == ASSUME ConnectionInv PROVE Proxy!EndedClean
<1> SUFFICES ASSUME handler = "done" PROVE Proxy!EndedClean
  BY DEF Proxy!EndedClean, Proxy!BothClosed, Proxy!NothingDropped
<1>1. /\ sock["client"] = "closed"
      /\ (err["client"] = "unexpected" \/ sock["upstream"] \in {"none", "closed"})
  BY DEF ConnectionInv, Closing
<1>2. Proxy!BothClosed
  BY <1>1, OtherSide DEF Proxy!BothClosed
<1>3. ASSUME upgrade, ~crossed, NEW s \in Proxy!Sides, peer[s] = "gone", peer[Proxy!Other(s)] = "up"
      PROVE  delivered[Proxy!Other(s)] = sent[s]
  <2>1. WrittenOn(s)
    BY <1>3 DEF ConnectionInv, Unbroken, LateWritten, Late
  <2>2. outbox[Proxy!Other(s)] = 0
    BY <1>1, <1>3, OtherSide, FlowTypes DEF ConnectionInv
  <2> QED BY <1>3, <2>1, <2>2, Direction DEF WrittenOn, ConnectionInv
<1> QED BY <1>2, <1>3 DEF Proxy!EndedClean, Proxy!NothingDropped

LEMMA MCStep ==
  ASSUME ConnectionInv, [MCNext]_allVars PROVE ConnectionInv'
<1>1. CASE Proxy!Next
  BY <1>1, ProxyAssumption, ConnectionStep
<1>2. CASE UNCHANGED proxyVars
  <2>1. UNCHANGED Proxy!vars
    BY <1>2 DEF proxyVars, Proxy!vars, Proxy!peers
  <2> QED BY <2>1, ProxyAssumption, ConnectionStep
<1> QED BY <1>1, <1>2 DEF MCNext, Half, allVars

\* A handler that has ended, normally or not, has closed both connections (except
\* Chromium's, if the client's was lost with an error that guarded_close raises)
\* and dropped nothing that was sent to a peer that stayed
\* (cdp_proxy.py:46-81, 165-187).
THEOREM ConnectionsEndClean == MCSpec => []EndedClean
<1>1. MCInit => ConnectionInv
  BY ProxyAssumption, ConnectionInit DEF MCInit
<1>2. ConnectionInv => EndedClean
  BY ConnectionEnds DEF EndedClean
<1>3. MCSpec => MCInit /\ [][MCNext]_allVars
  BY PTL DEF MCSpec
<1> QED BY <1>1, <1>2, <1>3, MCStep, PTL
=============================================================================
