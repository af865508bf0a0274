---------------------------- MODULE MCConnectMan ----------------------------
(***************************************************************************)
(* ConnectMan on small instances: not everybody's card shows an allowed    *)
(* place.                                                                  *)
(***************************************************************************)
EXTENDS ConnectMan, TLC

CONSTANTS a, b, c, top, bottom

AllowedSymmetry == Permutations(Allowed) \cup Permutations(Spots)
=============================================================================
