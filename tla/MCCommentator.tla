--------------------------- MODULE MCCommentator ---------------------------
(***************************************************************************)
(* Commentator on small instances, with a history variable: the comments   *)
(* whose reply went out in a run that died before the file knew how the    *)
(* attempt ended.  Bound: one comment is answered by hand.                 *)
(***************************************************************************)
EXTENDS Commentator, TLC

VARIABLE forgotten

AllPoints == Points \ {"idle"}

ItemSymmetry == Permutations(Items)

MCInit == Init /\ forgotten = {}

MCNext ==
  \/ /\ \E r \in Runs : Abort(r)
     /\ forgotten' = forgotten \cup
          {i \in Items : replies[i] > 0 /\ disk[i].decision = "publishing"}
  \/ /\ \/ \E r \in Runs : Begin(r) \/ RunStep(r)
        \/ \E i \in Items : \/ Age(i)
                            \/ byHand = [j \in Items |-> 0] /\ AnswerByHand(i)
                            \/ \E action \in {"approve", "reject"} : Press(i, action)
     /\ UNCHANGED forgotten

MCSpec == MCInit /\ [][MCNext]_<<vars, forgotten>>

\* A comment gets one reply at most, even if the page never shows it, unless a
\* run died between a click and the next save: a reply that was not seen after
\* the click is left to the owner (lines 2073-2075, 291-294).
NoSecondReply == \A i \in Items \ forgotten : replies[i] <= 1
=============================================================================
