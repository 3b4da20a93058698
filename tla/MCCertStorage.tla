--------------------------- MODULE MCCertStorage ---------------------------
(***************************************************************************)
(* CertStorage for TLC.  The contents of four files times the contents a   *)
(* download read make the full graph too large, so a run counts the saves  *)
(* that began and stops at MaxSaves of them.                               *)
(***************************************************************************)
EXTENDS CertStorage, Naturals

CONSTANT MaxSaves   \* bound: saves that may begin in a behaviour

VARIABLE begun      \* the saves that have begun

MCInit == Init /\ begun = 0

Begins == \E w \in Writer : at[w] = "idle" /\ at'[w] # "idle"

MCNext ==
    /\ Next
    /\ begun' = IF Begins THEN begun + 1 ELSE begun
    /\ begun' <= MaxSaves

MCSpec == MCInit /\ [][MCNext]_<<vars, begun>>
=============================================================================
