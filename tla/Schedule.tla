------------------------------- MODULE Schedule -------------------------------
(***************************************************************************)
(* When the scheduler (core/server/scheduler.go) looks at a certificate    *)
(* with auto_renew, over a clock, and when the web pages say it will.      *)
(* Renewal has the same code without time and with everything it shares.   *)
(*                                                                         *)
(* An instant is a number of ticks since a midnight in UTC; Day of them    *)
(* are 24 hours.  The server's wall clock differs from UTC by an offset,   *)
(* which may change once.  Others' certificates are in the time a round    *)
(* takes before and after the check of this one.  Nobody uploads it:       *)
(* FrontUploadHandler refuses that.                                        *)
(***************************************************************************)
EXTENDS Integers

CONSTANTS
    Day,
    CheckTime,        \* cert_check_time, or the default where it does not parse
    RenewalLeadDays,  \* as configured, 0 when it is not
    MaxRound,         \* how long CheckAllCerts takes at most
    Life,             \* of a certificate, from its issue
    Zone,             \* the local time zones considered
    Shift,            \* the largest change of the offset in them
    Expiry,           \* expiries found at first on disk, and at any time live
    None

ASSUME ScheduleAssumption ==
    /\ Day \in Nat \ {0} /\ CheckTime \in 0..(Day - 1)
    /\ RenewalLeadDays \in Int /\ Life \in Nat
    /\ MaxRound \in Nat /\ MaxRound < Day
    /\ Shift \in Nat
    /\ Zone \subseteq [at : Nat, before : Int, after : Int]
    /\ \A z \in Zone : z.after - z.before \in (-Shift)..Shift
    /\ Expiry \subseteq Nat
    /\ None \notin Int

VARIABLES
    now, zone,
    local,    \* when the certificate on disk ends
    remote,   \* when the one at domain_check does, None if out of reach
    place,    \* of the scheduler's goroutine
    ticker,   \* whether the ticker exists
    fire,     \* when the timer or the ticker fires next
    began,    \* when the last round did
    stopAt,   \* when Stop was called
    since,    \* history: the last call of RenewCert or start of the process
    shown     \* history: a renewal time shown to the admin and not passed yet

vars == <<now, zone, local, remote, place, ticker, fire, began, stopAt, since, shown>>
world == <<now, zone, remote>>

Waiting == {"timer", "ticker"}
Round == {"check", "renew", "rest"}   \* before, in and after the check
Down == "down"

Larger(a, b) == IF a >= b THEN a ELSE b

-----------------------------------------------------------------------------
(* The clock                                                               *)

Offset(t) == IF t < zone.at THEN zone.before ELSE zone.after
Wall(t) == t + Offset(t)

(* time.Date: the instant of a wall clock time.  The offset is looked up   *)
(* as if wall were UTC, and once more when that one is not valid there.    *)
Date(wall) ==
    LET first == wall - Offset(wall) IN
    IF Offset(first) = Offset(wall) THEN first ELSE wall - Offset(first)

(* nextRunAt: today's check, or 24 hours after it.  Today is one of the    *)
(* location its argument has, which is local for time.Now ...              *)
NextRunAt(from) ==
    LET today == Date(Wall(from) - (Wall(from) % Day) + CheckTime) IN
    IF today < from THEN today + Day ELSE today

(* ... and UTC for the NotAfter that crypto/x509 reads from a certificate. *)
NextRunAtUTC(from) ==
    LET today == from - (from % Day) + CheckTime IN
    IF today < from THEN today + Day ELSE today

GetRenewalLeadDays == IF RenewalLeadDays > 0 THEN RenewalLeadDays ELSE 10

(* Bug: the days are not turned into hours.                                *)
NeedsRenewalUnits(expiry) == expiry - now < GetRenewalLeadDays

Lead == GetRenewalLeadDays * Day

NeedsRenewal(expiry) == expiry - now < Lead

(* Bug: the lead is forgotten.                                             *)
ThresholdAtEnd(expiry) == expiry

Threshold(expiry) == expiry - Lead

(* Bug: the next check, due or not.                                        *)
ExpectedRenewAtNext(expiry) == NextRunAt(now)

(* The next check after the threshold in UTC, or after now by the server's *)
(* clock when the threshold is over: time.Now then replaces it.            *)
ExpectedRenewAt(expiry) ==
    IF Threshold(expiry) < now THEN NextRunAt(now) ELSE NextRunAtUTC(Threshold(expiry))

-----------------------------------------------------------------------------
Init ==
    /\ now = 0
    /\ zone \in Zone
    /\ local \in Expiry \cup {None}
    /\ remote \in Expiry \cup {None}
    /\ place = Down /\ ticker = FALSE /\ fire = 0 /\ began = 0
    /\ stopAt = None /\ since = 0 /\ shown = None

(* Start: the timer.  A delay below zero, as a change of the clock may     *)
(* bring it, is over at once.                                              *)
Start ==
    /\ place = Down
    /\ place' = "timer"
    /\ fire' = Larger(now, NextRunAt(now))
    /\ since' = now
    /\ UNCHANGED <<world, local, ticker, began, stopAt, shown>>

(* Bug: the ticker is another timer.                                       *)
FireOnce ==
    /\ place \in Waiting /\ now >= fire
    /\ place' = "check"
    /\ began' = now
    /\ UNCHANGED <<world, local, ticker, fire, stopAt, since, shown>>

(* The timer or the ticker fires, and the ticker goes on.                  *)
Fire ==
    /\ place \in Waiting /\ now >= fire
    /\ place' = "check"
    /\ began' = now
    /\ fire' = IF ticker THEN fire + Day ELSE fire
    /\ UNCHANGED <<world, local, ticker, stopAt, since, shown>>

(* A certificate that is not on disk is judged by the live one.            *)
ShouldRenew ==
    IF local # None THEN NeedsRenewal(local) ELSE remote # None => NeedsRenewal(remote)

(* checkAndRenewCert, up to the call of RenewCert.                         *)
Check ==
    /\ place = "check"
    /\ IF ShouldRenew
       THEN place' = "renew" /\ since' = now /\ shown' = None
       ELSE place' = "rest" /\ UNCHANGED <<since, shown>>
    /\ UNCHANGED <<world, local, ticker, fire, began, stopAt>>

(* How a renewal ends: it may fail, and may leave an empty file.           *)
Renewed ==
    /\ local' \in {now + Life, local, None}
    /\ shown' = IF local' = local THEN shown ELSE None

RenewEnds ==
    /\ place = "renew"
    /\ Renewed
    /\ place' = "rest"
    /\ UNCHANGED <<world, ticker, fire, began, stopAt, since>>

(* CheckAllCerts returns.  After the first round the ticker is created.    *)
RoundEnds ==
    /\ place = "rest"
    /\ place' = "ticker"
    /\ ticker' = TRUE
    /\ fire' = IF ticker THEN fire ELSE now + Day
    /\ UNCHANGED <<world, local, began, stopAt, since, shown>>

(* An expire request renews on its own, by the same decision.              *)
ExpireRenews ==
    /\ place # Down /\ stopAt = None
    /\ ShouldRenew
    /\ local' \in {now + Life, local, None}
    /\ since' = now
    /\ shown' = None
    /\ UNCHANGED <<world, place, ticker, fire, began, stopAt>>

(* FrontAliasListHandler and FrontCertInfoHandler: the expected renewal of *)
(* the certificate on disk, in the second one else of the live one.        *)
Look ==
    /\ place # Down /\ stopAt = None /\ shown = None
    /\ \/ local # None /\ shown' = ExpectedRenewAt(local)
       \/ local = None /\ remote # None /\ shown' = ExpectedRenewAt(remote)
    /\ UNCHANGED <<world, local, place, ticker, fire, began, stopAt, since>>

-----------------------------------------------------------------------------
(* The end of the process                                                  *)

Halt ==
    /\ place' = Down /\ ticker' = FALSE /\ fire' = 0 /\ began' = 0
    /\ stopAt' = None /\ since' = 0 /\ shown' = None
    /\ UNCHANGED <<world, local>>

(* ListenAndServe fails, and main calls Stop, which waits.                 *)
Stop ==
    /\ place # Down /\ stopAt = None
    /\ stopAt' = now
    /\ shown' = None
    /\ UNCHANGED <<world, local, place, ticker, fire, began, since>>

(* Bug: only the second select looks at stopChan.                          *)
StopSeenLate == stopAt # None /\ place = "ticker"

(* A select finds stopChan closed.                                         *)
StopSeen == stopAt # None /\ place \in Waiting

(* The goroutine returns, and main exits.  When the timer or the ticker is *)
(* due as well, select may take either.                                    *)
Quit == StopSeen /\ Halt

Crash == place # Down /\ Halt

-----------------------------------------------------------------------------
(* The world                                                               *)

EndpointChanges ==
    /\ remote' \in (Expiry \cup {None}) \ {remote}
    /\ shown' = IF local = None THEN None ELSE shown
    /\ UNCHANGED <<now, zone, local, place, ticker, fire, began, stopAt, since>>

(* Time does not pass what is due, nor the end of a round.                 *)
Tick ==
    /\ place \in Waiting => now < fire
    /\ place \in Round => now < began + MaxRound
    /\ ~StopSeen
    /\ now' = now + 1
    /\ UNCHANGED <<zone, local, remote, place, ticker, fire, began, stopAt, since, shown>>

Next ==
    \/ Start \/ Fire \/ Check \/ RenewEnds \/ RoundEnds
    \/ ExpireRenews \/ Look \/ Stop \/ Quit \/ Crash
    \/ EndpointChanges \/ Tick

Spec == Init /\ [][Next]_vars

-----------------------------------------------------------------------------
(* Properties                                                              *)

(* Types.  The goroutine does not wait for what is over, and in a round    *)
(* the ticker is set for a later one.                                      *)
TypeOK ==
    /\ now \in Nat /\ zone \in Zone
    /\ local \in Nat \cup {None} /\ remote \in Nat \cup {None}
    /\ place \in {Down} \cup Waiting \cup Round
    /\ ticker \in BOOLEAN /\ fire \in Nat /\ began \in 0..now
    /\ stopAt \in Nat \cup {None} /\ since \in 0..now
    /\ shown \in Int \cup {None}
    /\ place \in Waiting => now <= fire
    /\ place \in Round /\ ticker => now < fire

(* The longest a certificate may wait for its next check, whatever the     *)
(* time of the start, the length of the rounds and the change of the clock. *)
Gap == Day + MaxRound + Larger(Shift, MaxRound)

(* No certificate runs out for want of a check (scheduler.go:32-64, 134):  *)
(* when the lead is longer than that gap, a certificate is past its end    *)
(* only if less than the gap ago it was tried to renew, or the process was *)
(* not there yet.  The first round starts the 24 hours of the others when  *)
(* it ends, so the gap is longer than a day.                               *)
InTime ==
    (Lead > Gap /\ place # Down /\ local # None /\ now >= local) =>
        now - since <= Gap

(* The time shown for the next renewal (ExpectedRenewAt) is a time of day  *)
(* in UTC or by the server's clock; the checks by timer and ticker go by   *)
(* the start of the process.  Unless the process ends or the certificate   *)
(* changes, the renewal comes no later than a gap and a change of the      *)
(* clock after the time shown, whichever zone that was taken in.           *)
PromiseKept == shown # None => now <= shown + Gap + Shift

(* And no renewal is tried more than a day and such a change before it:    *)
(* in which zone the time of day was taken moves it by less than a day.    *)
NotEarly ==
    [][(shown # None /\ ((place = "check" /\ place' = "renew") \/ ExpireRenews)) =>
          now >= shown - Day - Shift]_vars

(* main waits in Stop for no more than one round: neither the 24 hours of  *)
(* the timer nor those of the ticker, nor a second round.                  *)
StopsSoon == stopAt # None => now <= stopAt + MaxRound
=============================================================================
