------------------------------- MODULE MCRenewal -------------------------------
(***************************************************************************)
(* Renewal for TLC, without the different ages of certificates that no     *)
(* renewal writes.                                                         *)
(***************************************************************************)
EXTENDS Renewal

MCInit == Init /\ \A a \in (Alias \ AutoRenew) \cup Incomplete : disk[a] = "none"

MCFairSpec ==
    /\ MCInit /\ [][Next]_vars
    /\ Running
    /\ \A a \in Probed : ComesDueLive(a)
=============================================================================
