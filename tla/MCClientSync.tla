---------------------------- MODULE MCClientSync ----------------------------
(***************************************************************************)
(* ClientSync for TLC: two bundles, the second of which ends later.  The   *)
(* server begins one save of each, in any order.  A web server that is     *)
(* restarted on half a copy does not go down between the dial and the end  *)
(* of the download: cert_update_dir does not change there, so it may as    *)
(* well go down before or after.                                           *)
(***************************************************************************)
EXTENDS ClientSync

CONSTANTS older, newer   \* model values, the members of Bundle

MCExpiry == [b \in Bundle |-> IF b = older THEN 1 ELSE 2]

VARIABLE tosave   \* bound: the bundles the server has not begun to save

MCInit == SyncInit /\ tosave = Bundle

MCNext ==
    \/ /\ Regular \/ Faults
       /\ up /\ step \in {"compare", "ask", "download"} => up'
       /\ UNCHANGED tosave
    \/ /\ NewSave
       /\ \E w \in Writer :
            at[w] = "idle" /\ bundle'[w] \in tosave /\ tosave' = tosave \ {bundle'[w]}

MCSpec == MCInit /\ [][MCNext]_<<allVars, tosave>> /\ SyncFairness

(* A certificate that stays on the server goes live once nothing fails any *)
(* more, whatever torn zips, copies cut short, failed hooks, crashes and   *)
(* saves out of order came before: a sync counts as done only when the     *)
(* live endpoint serves what the server has, so it is repeated until then. *)
(* The one way out is a web server that was restarted on half a copy:      *)
(* every sync gives up at its dial.                                        *)
Converges ==
    \A b \in HasChain :
        <>[](stored = b /\ Saving = {}) /\ <>[][Regular]_allVars =>
            <>[](~up \/ Expiry[live] >= Expiry[b])
=============================================================================
