------------------------------ MODULE MCDelivery ------------------------------
(***************************************************************************)
(* Delivery for TLC: days of a few ticks, up to a horizon.                 *)
(***************************************************************************)
EXTENDS Delivery

CONSTANT Horizon   \* the last instant

(* The clock goes back in the night of the second day.                     *)
MCZone == {[at |-> Day + 1, before |-> 1, after |-> 1 - Shift]}

MCNext == DeliveryNext /\ now' <= Horizon

MCSpec == DeliveryInit /\ [][MCNext]_deliveryVars
=============================================================================
