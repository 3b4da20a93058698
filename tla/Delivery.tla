------------------------------- MODULE Delivery -------------------------------
(***************************************************************************)
(* Schedule with a client (client/main.go, core/client/sync.go): how long  *)
(* the live certificate lasts when the server renews one on its clock and  *)
(* the client fetches it on another.  ClientSync has the same client       *)
(* without time, with the files it copies and all that fails between two   *)
(* of them.                                                                *)
(*                                                                         *)
(* Schedule's remote is the live certificate.  Here a sync replaces it, or *)
(* somebody else, who may also take the endpoint away.  The web pages are  *)
(* left out.                                                               *)
(***************************************************************************)
EXTENDS Schedule

CONSTANTS
    Interval,   \* of the client, as configured or by default
    MaxSync     \* how long a sync takes at most

ASSUME DeliveryAssumption == Interval \in Nat /\ MaxSync \in Nat /\ MaxSync < Interval

VARIABLES
    step,      \* where the client is
    due,       \* when its ticker fires next
    asked,     \* when the last sync began
    got,       \* what it downloaded
    trouble    \* history: when something last failed, was down or not ours

client == <<step, due, asked, got>>
deliveryVars == <<vars, client, trouble>>

Syncing == {"ask", "fetch", "load"}
Up == place # Down /\ stopAt = None   \* whether the server answers

-----------------------------------------------------------------------------
DeliveryInit ==
    /\ Init
    /\ step = Down /\ due = 0 /\ asked = 0 /\ got = None
    /\ trouble = 0

(* main: the ticker runs from before the first sync on.                    *)
ClientStarts ==
    /\ step = Down
    /\ step' = "ask" /\ asked' = now /\ due' = now + Interval
    /\ UNCHANGED <<vars, got, trouble>>

(* Bug: the ticker is a timer.                                             *)
SyncStartsOnce ==
    /\ step = "idle" /\ now >= due
    /\ step' = "ask" /\ asked' = now
    /\ UNCHANGED <<vars, due, got, trouble>>

SyncStarts ==
    /\ step = "idle" /\ now >= due
    /\ step' = "ask" /\ asked' = now /\ due' = due + Interval
    /\ UNCHANGED <<vars, got, trouble>>

(* Bug: the client waits until the live certificate is over.               *)
BehindWhenOver == local # None /\ remote < local /\ remote <= now

(* Bug: the comparison is the other way round.                             *)
BehindSwapped == local # None /\ local < remote

(* need_update, of CheckHandler and of CheckLocal.                         *)
Behind == local # None /\ remote < local

(* Check or CheckLocal.  In the latter a certificate that is not on the    *)
(* server is an error.                                                     *)
Ask ==
    /\ step = "ask" /\ Up /\ remote # None
    /\ step' = IF Behind THEN "fetch" ELSE "idle"
    /\ UNCHANGED <<vars, due, asked, got, trouble>>

Fetch ==
    /\ step = "fetch" /\ Up /\ local # None
    /\ step' = "load" /\ got' = local
    /\ UNCHANGED <<vars, due, asked, trouble>>

(* The files are copied and the hook has the endpoint load them.           *)
Load ==
    /\ step = "load"
    /\ step' = "idle" /\ remote' = got /\ got' = None
    /\ UNCHANGED <<now, zone, local, place, ticker, fire, began, stopAt, since, shown,
                   due, asked, trouble>>

SyncFails ==
    /\ step \in Syncing
    /\ step' = "idle" /\ got' = None /\ trouble' = now
    /\ UNCHANGED <<vars, due, asked>>

ClientDies ==
    /\ step # Down
    /\ step' = Down /\ due' = 0 /\ asked' = 0 /\ got' = None /\ trouble' = now
    /\ UNCHANGED vars

-----------------------------------------------------------------------------
(* The server                                                              *)

Serve == (Start \/ Fire \/ Check \/ RoundEnds) /\ UNCHANGED <<client, trouble>>

Renew ==
    /\ RenewEnds \/ ExpireRenews
    /\ trouble' = IF local' = now + Life THEN trouble ELSE now
    /\ UNCHANGED client

ServerEnds == (Stop \/ Quit \/ Crash) /\ trouble' = now /\ UNCHANGED client

Elsewhere == EndpointChanges /\ trouble' = now /\ UNCHANGED client

(* Whether somebody has to do something.                                   *)
Out == ~Up \/ step = Down \/ remote = None

(* Time does not pass what is due in the client either, nor the end of a   *)
(* sync.                                                                   *)
Pass ==
    /\ Tick
    /\ step = "idle" => now < due
    /\ step \in Syncing => now < asked + MaxSync
    /\ trouble' = IF Out THEN now' ELSE trouble
    /\ UNCHANGED client

DeliveryNext ==
    \/ ClientStarts \/ SyncStarts \/ Ask \/ Fetch \/ Load \/ SyncFails \/ ClientDies
    \/ Serve \/ Renew \/ ServerEnds \/ Elsewhere \/ Pass

DeliverySpec == DeliveryInit /\ [][DeliveryNext]_deliveryVars

-----------------------------------------------------------------------------
(* Properties                                                              *)

(* Types.  The client's ticker is not behind, and no sync outlasts it.     *)
DeliveryTypeOK ==
    /\ TypeOK /\ shown = None
    /\ step \in {Down, "idle"} \cup Syncing
    /\ due \in Nat /\ asked \in 0..now /\ trouble \in 0..now
    /\ got \in Nat \cup {None} /\ (step = "load" <=> got # None)
    /\ step = "idle" => now <= due
    /\ step \in Syncing => now < due

(* A renewed certificate is live one interval and one sync later (sync.go: *)
(* 268-318), whatever is renewed while a sync runs: later than that the    *)
(* live one is behind that on the server only if something failed since.   *)
Follows ==
    (local # None /\ remote # None /\ remote < local) =>
        now <= Larger(trouble, local - Life) + Interval + MaxSync

(* How long the two clocks take for a certificate, from the worst moment,  *)
(* with a sync under way that brings an older one.                         *)
Delay == Gap + Interval + MaxSync + MaxSync

(* The live certificate never runs out as long as nothing fails: with a    *)
(* lead and a life longer than that delay, it is over only if less than    *)
(* the delay ago something failed, was down or was changed elsewhere.      *)
LiveInTime ==
    (Lead > Delay /\ Life > Delay /\ remote # None /\ now >= remote) =>
        now <= trouble + Delay
=============================================================================
