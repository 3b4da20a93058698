------------------------------- MODULE LiveCert -------------------------------
(***************************************************************************)
(* What the client promises for the certificate of one alias, without      *)
(* dials, zips, files and hooks: expiries pass from the server to a stage  *)
(* and from there to the live endpoint.                                    *)
(*                                                                         *)
(* The stage may lose what it holds at any time.  What is put on it is     *)
(* from the server and, while the server offers later and later ones, does *)
(* not end before what is live.  The endpoint loads from the stage only.   *)
(***************************************************************************)
EXTENDS Naturals

CONSTANT Nothing   \* on the stage

VARIABLES
    offer,   \* the latest expiry the server has begun to save
    ordered, \* whether it has offered none out of order
    staged,  \* the expiry on the stage, or Nothing
    live     \* the expiry of the live certificate

liveVars == <<offer, ordered, staged, live>>

(* The client may find the live certificate on the stage when it starts.   *)
LiveInit ==
    /\ offer = 0 /\ ordered = TRUE
    /\ live \in Nat
    /\ staged \in {live, Nothing}

Issue ==
    /\ offer' \in Nat /\ offer' >= offer
    /\ ordered' \in {ordered, FALSE}
    /\ UNCHANGED <<staged, live>>

Stage ==
    /\ \/ staged' = Nothing
       \/ staged' \in (IF ordered THEN live ELSE 0)..offer
    /\ UNCHANGED <<offer, ordered, live>>

Load ==
    /\ staged # Nothing
    /\ live' = staged
    /\ UNCHANGED <<offer, ordered, staged>>

LiveNext == Issue \/ Stage \/ Load

LiveSpec == LiveInit /\ [][LiveNext]_liveVars
=============================================================================
