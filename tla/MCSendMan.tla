----------------------------- MODULE MCSendMan -----------------------------
(***************************************************************************)
(* SendMan on small instances.                                             *)
(***************************************************************************)
EXTENDS SendMan

CONSTANTS ann, bob

\* Everybody has a name of their own.
OwnNames == [p \in People |-> p]
=============================================================================
