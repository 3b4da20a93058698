---------------------------- MODULE MCFrontSession ----------------------------
(***************************************************************************)
(* FrontSession for TLC: which tab is which, and which token came first,   *)
(* makes no difference.                                                    *)
(***************************************************************************)
EXTENDS FrontSession, TLC

Symmetry == Permutations(Tab) \cup Permutations(Token)
=============================================================================
