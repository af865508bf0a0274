---------------------------- MODULE MCPostLiker ----------------------------
(***************************************************************************)
(* PostLiker on a small feed: the second and the third post are by the     *)
(* same author, whose menus bear the same label.                           *)
(***************************************************************************)
EXTENDS PostLiker

Feed == 1..3
Authors == [p \in Posts |-> IF p = 3 THEN 2 ELSE p]

\* The first post's label holds the others', but its key is its address.
Longer == {<<2, 1>>}
=============================================================================
