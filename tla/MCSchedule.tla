------------------------------ MODULE MCSchedule ------------------------------
(***************************************************************************)
(* Schedule for TLC: days of a few ticks, up to a horizon.                 *)
(***************************************************************************)
EXTENDS Schedule

CONSTANT Horizon   \* the last instant

(* The clock stays, goes forward or goes back, in the night of the second  *)
(* day, before, at or after the time of the check.                         *)
MCZone == {[at |-> Day + k, before |-> o, after |-> o + d] :
             k \in 0..2, o \in {0, 1}, d \in (-Shift)..Shift}

MCNext == Next /\ now' <= Horizon

MCSpec == Init /\ [][MCNext]_vars
=============================================================================
