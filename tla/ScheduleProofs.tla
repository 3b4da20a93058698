---------------------------- MODULE ScheduleProofs ----------------------------
(***************************************************************************)
(* Theorems about Schedule, for days, rounds, leads, lives and changes of  *)
(* the clock of any length.  Everything rests on the instant by which the  *)
(* next check comes (Deadline): no time passes it, it is at most a gap     *)
(* away, and a check moves it by less than the lead.                       *)
(***************************************************************************)
EXTENDS Schedule, TLAPS

(* The next check comes by then.                                           *)
Deadline ==
    IF place \in Waiting THEN fire + MaxRound
    ELSE IF place = "check" THEN began + MaxRound
    ELSE IF ticker THEN fire + MaxRound
    ELSE began + MaxRound + Day + MaxRound

(* Where the timer and the ticker stand.                                   *)
Timing ==
    /\ place = "timer" => ~ticker /\ fire <= since + Day + Shift
    /\ place = "ticker" => ticker /\ fire <= began + MaxRound + Day
    /\ place \in Round => now <= began + MaxRound
    /\ place = "renew" => began <= since
    /\ (place \in Round /\ ticker) => fire = began + Day
    /\ place = Down => stopAt = None /\ shown = None /\ ~ticker
    /\ shown # None => stopAt = None

(* The next check comes less than a gap after the last attempt or before   *)
(* the certificate ends.                                                   *)
Checked ==
    (Lead > Gap /\ place # Down) =>
        Deadline <= since + Gap \/ (local # None => Deadline < local)

(* What was shown: the certificate it was computed from is still there,    *)
(* and its time is near that of the next check.                            *)
Shown ==
    shown # None =>
        /\ local # None \/ remote # None
        /\ Deadline <= shown + Gap + Shift
        /\ local # None => /\ Threshold(local) <= shown + Shift
                           /\ shown <= Larger(Threshold(local), now) + Day + Shift
        /\ local = None => /\ Threshold(remote) <= shown + Shift
                           /\ shown <= Larger(Threshold(remote), now) + Day + Shift

(* A round that runs while main waits in Stop began before.                *)
Stopping ==
    stopAt # None =>
        /\ now <= stopAt + MaxRound
        /\ place \in Waiting => now = stopAt \/ now < fire
        /\ place \in Round => began <= stopAt

IInv == TypeOK /\ Timing /\ Checked /\ Shown /\ Stopping

-----------------------------------------------------------------------------
(* Arithmetic of the clock                                                 *)

LEMMA LeadInt == Lead \in Int
  BY ScheduleAssumption DEF Lead, GetRenewalLeadDays

LEMMA GapNat == /\ Gap \in Nat
                /\ Gap >= Day + MaxRound + Shift
                /\ Gap >= Day + MaxRound + MaxRound
  BY ScheduleAssumption DEF Gap, Larger

(* time.Date takes one of the two offsets.                                 *)
LEMMA DateOffset ==
    ASSUME NEW w \in Int, zone \in Zone
    PROVE  Date(w) = w - zone.before \/ Date(w) = w - zone.after
  BY DEF Date, Offset

(* nextRunAt is within a change of the clock of its argument and the day   *)
(* after it.                                                               *)
LEMMA NextRunNear ==
    ASSUME NEW from \in Int, zone \in Zone
    PROVE  /\ NextRunAt(from) \in Int
           /\ from - Shift <= NextRunAt(from)
           /\ NextRunAt(from) <= from + Day + Shift
  <1> USE ScheduleAssumption
  <1>0. /\ zone.before \in Int /\ zone.after \in Int
        /\ zone.after - zone.before <= Shift /\ zone.before - zone.after <= Shift
    OBVIOUS
  <1> DEFINE r == Wall(from) % Day
             w == Wall(from) - r + CheckTime
  <1>1. Wall(from) = from + zone.before \/ Wall(from) = from + zone.after
    BY DEF Wall, Offset
  <1>2. Wall(from) \in Int
    BY <1>0, <1>1
  <1>3. r \in 0..(Day - 1)
    BY <1>2
  <1>4. w \in Int
    BY <1>2, <1>3
  <1>5. Date(w) = w - zone.before \/ Date(w) = w - zone.after
    BY <1>4, DateOffset
  <1>6. Date(w) \in Int /\ from - Day - Shift < Date(w) /\ Date(w) < from + Day + Shift
    <2> HIDE DEF r
    <2> QED BY <1>0, <1>1, <1>3, <1>5
  <1> HIDE DEF w, r
  <1>7. NextRunAt(from) = IF Date(w) < from THEN Date(w) + Day ELSE Date(w)
    BY DEF NextRunAt, w, r
  <1>8. QED
    BY <1>6, <1>7

(* The same in UTC, where no clock changes.                                *)
LEMMA NextRunNearUTC ==
    ASSUME NEW from \in Int
    PROVE  NextRunAtUTC(from) \in from..(from + Day - 1)
  <1> DEFINE r == from % Day
             today == from - r + CheckTime
  <1>1. r \in 0..(Day - 1)
    BY ScheduleAssumption
  <1> HIDE DEF r
  <1>2. today \in Int /\ from - Day < today /\ today <= from + Day - 1
    BY <1>1, ScheduleAssumption
  <1>3. NextRunAtUTC(from) = IF today < from THEN today + Day ELSE today
    BY DEF NextRunAtUTC, r
  <1> HIDE DEF today
  <1>4. QED
    BY <1>2, <1>3, ScheduleAssumption

LEMMA Division ==
    ASSUME NEW d \in Nat, d > 0, NEW x \in Int
    PROVE  \E k \in Int : x = k * d + (x % d)
  OBVIOUS

(* Times of day: an instant is a number of whole days and the rest, in one *)
(* way only.                                                               *)
LEMMA WholeDays ==
    ASSUME NEW x \in Int
    PROVE  x % Day \in 0..(Day - 1) /\ \E k \in Int : x = k * Day + (x % Day)
  <1>1. x % Day \in 0..(Day - 1)
    BY ScheduleAssumption
  <1>2. \E k \in Int : x = k * Day + (x % Day)
    <2>1. Day \in Nat /\ Day > 0
      BY ScheduleAssumption
    <2>2. QED
      BY <2>1, Division
  <1>3. QED
    BY <1>1, <1>2

LEMMA TimeOfDay ==
    ASSUME NEW k \in Int, NEW c \in 0..(Day - 1)
    PROVE  (k * Day + c) % Day = c
  <1>1. (Day * k + c) % Day = c
    BY ScheduleAssumption
  <1>2. Day * k = k * Day
    BY ScheduleAssumption
  <1>3. QED
    BY <1>1, <1>2

LEMMA DayApart ==
    ASSUME NEW x \in Int, NEW y \in Int, x < y, x % Day = y % Day
    PROVE  y - x >= Day
  <1> USE ScheduleAssumption
  <1>1. PICK k \in Int : x = k * Day + (x % Day)
    BY WholeDays
  <1>2. PICK l \in Int : y = l * Day + (y % Day)
    BY WholeDays
  <1>3. x % Day \in 0..(Day - 1)
    BY WholeDays
  <1> DEFINE c == x % Day
  <1> HIDE DEF c
  <1>4. x = k * Day + c /\ y = l * Day + c /\ c \in Int
    BY <1>1, <1>2, <1>3 DEF c
  <1>5. (l - k) * Day = y - x
    BY <1>4
  <1>6. l - k >= 1
    BY <1>5
  <1>7. (l - k) * Day >= Day
    BY <1>6
  <1>8. QED
    BY <1>5, <1>7

(* "returns the next moment >= from that matches scheduleTime"             *)
(* (scheduler.go:184): so it does for time.Now while the clock does not    *)
(* change, and it is the first one.  On a day of 25 hours it may answer a  *)
(* moment before from, and across a change one that does not match;        *)
(* NextRunNear is what holds then.                                         *)
THEOREM NextRunSteady ==
    ASSUME NEW from \in Int, zone \in Zone, zone.before = zone.after
    PROVE  /\ NextRunAt(from) \in from..(from + Day - 1)
           /\ Wall(NextRunAt(from)) % Day = CheckTime
           /\ \A t \in from..(NextRunAt(from) - 1) : Wall(t) % Day # CheckTime
  <1> USE ScheduleAssumption
  <1> DEFINE o == zone.before
             r == (from + o) % Day
             midnight == from + o - r
             today == midnight + CheckTime - o
             next == IF today < from THEN today + Day ELSE today
  <1>1. o \in Int /\ \A t \in Int : Offset(t) = o
    BY DEF Offset
  <1>2. /\ r \in 0..(Day - 1)
        /\ \E k \in Int : from + o = k * Day + r
    <2>1. from + o \in Int
      BY <1>1
    <2> HIDE DEF o
    <2>2. QED
      BY <2>1, WholeDays
  <1>3. PICK k \in Int : midnight = k * Day
    <2> HIDE DEF r, o
    <2>1. PICK k \in Int : from + o = k * Day + r
      BY <1>2
    <2>2. midnight = k * Day
      BY <1>1, <1>2, <2>1
    <2>3. QED
      BY <2>2
  <1>4. NextRunAt(from) = next
    <2>1. Wall(from) = from + o
      BY <1>1 DEF Wall
    <2>2. midnight + CheckTime \in Int
      BY <1>1, <1>2
    <2>3. Date(midnight + CheckTime) = today
      BY <1>1, <2>2 DEF Date
    <2>4. QED
      BY <2>1, <2>3 DEF NextRunAt
  <1>5. midnight \in Int /\ from + o - Day < midnight /\ midnight <= from + o
    <2> HIDE DEF r
    <2> QED BY <1>1, <1>2
  <1>6. /\ next \in from..(from + Day - 1)
        /\ \/ next + o = midnight + CheckTime
           \/ next + o = midnight + Day + CheckTime
    <2> HIDE DEF midnight, o
    <2> QED BY <1>1, <1>5
  <1>7. Wall(next) % Day = CheckTime
    <2> HIDE DEF midnight, next, o
    <2>1. Wall(next) = next + o
      BY <1>1, <1>6 DEF Wall
    <2>2. next + o = k * Day + CheckTime \/ next + o = (k + 1) * Day + CheckTime
      BY <1>3, <1>6
    <2>3. QED
      BY <2>1, <2>2, TimeOfDay
  <1>8. ASSUME NEW t \in from..(next - 1), Wall(t) % Day = CheckTime
        PROVE  FALSE
    <2> HIDE DEF next, o
    <2>1. Wall(t) = t + o /\ Wall(next) = next + o
      BY <1>1, <1>6 DEF Wall
    <2>2. Wall(next) - Wall(t) >= Day
      BY <1>1, <1>6, <1>7, <1>8, <2>1, DayApart
    <2>3. QED
      BY <1>1, <1>6, <2>1, <2>2
  <1>9. QED
    BY <1>4, <1>6, <1>7, <1>8

(* The time of day of the check, in UTC, is what nextRunAt gives there.    *)
LEMMA NextRunMatchesUTC ==
    ASSUME NEW from \in Int
    PROVE  \E k \in Int : NextRunAtUTC(from) = k * Day + CheckTime
  <1> USE ScheduleAssumption
  <1>1. PICK k \in Int : from = k * Day + (from % Day)
    BY WholeDays
  <1> DEFINE r == from % Day
  <1>2. r \in 0..(Day - 1)
    BY WholeDays
  <1>3. NextRunAtUTC(from) = IF from - r + CheckTime < from THEN from - r + CheckTime + Day
                             ELSE from - r + CheckTime
    BY DEF NextRunAtUTC
  <1>4. from = k * Day + r
    BY <1>1
  <1> HIDE DEF r
  <1>5. from - r + CheckTime = k * Day + CheckTime
    BY <1>2, <1>4
  <1>6. from - r + CheckTime + Day = (k + 1) * Day + CheckTime
    BY <1>2, <1>4
  <1>7. \/ NextRunAtUTC(from) = k * Day + CheckTime
        \/ NextRunAtUTC(from) = (k + 1) * Day + CheckTime
    BY <1>3, <1>5, <1>6
  <1>8. k + 1 \in Int
    OBVIOUS
  <1>9. QED
    BY <1>7, <1>8, Zenon

(* The comment adds "in the local time zone" (scheduler.go:184), and for   *)
(* the time shown for a certificate that is not due yet that is not so:    *)
(* wherever the clock differs from UTC by anything but whole days, it is   *)
(* never the time of the check there.                                      *)
THEOREM ShownElsewhere ==
    ASSUME NEW e \in Nat, now \in Nat, zone \in Zone, zone.before = zone.after,
           zone.before % Day # 0, Threshold(e) >= now
    PROVE  Wall(ExpectedRenewAt(e)) % Day # CheckTime
  <1> USE ScheduleAssumption
  <1> DEFINE o == zone.before
             s == ExpectedRenewAt(e)
  <1>1. Threshold(e) \in Int
    BY LeadInt DEF Threshold
  <1>2. s = NextRunAtUTC(Threshold(e))
    BY <1>1 DEF ExpectedRenewAt
  <1>3. PICK k \in Int : s = k * Day + CheckTime
    BY <1>1, <1>2, NextRunMatchesUTC
  <1>4. o \in Int /\ Wall(s) = s + o
    BY DEF Wall, Offset
  <1>5. ASSUME Wall(s) % Day = CheckTime PROVE FALSE
    <2> HIDE DEF o, s
    <2>1. s \in Int /\ Wall(s) \in Int
      BY <1>3, <1>4
    <2>2. PICK l \in Int : Wall(s) = l * Day + CheckTime
      BY <1>5, <2>1, WholeDays
    <2>3. o = (l - k) * Day
      BY <1>3, <1>4, <2>2
    <2>4. ((l - k) * Day + 0) % Day = 0
      BY TimeOfDay
    <2>5. (l - k) * Day + 0 = (l - k) * Day
      OBVIOUS
    <2>6. o % Day = 0
      BY <2>3, <2>4, <2>5
    <2>7. QED
      BY <2>6 DEF o
  <1>6. QED
    BY <1>5

(* What ExpectedRenewAt answers, for a certificate and a moment.           *)
LEMMA ExpectedNear ==
    ASSUME NEW e \in Nat, now \in Nat, zone \in Zone
    PROVE  /\ ExpectedRenewAt(e) \in Int
           /\ Threshold(e) <= ExpectedRenewAt(e) + Shift
           /\ now <= ExpectedRenewAt(e) + Shift
           /\ ExpectedRenewAt(e) <= Larger(Threshold(e), now) + Day + Shift
  <1> USE ScheduleAssumption
  <1>1. Threshold(e) \in Int
    BY LeadInt DEF Threshold
  <1>2. CASE Threshold(e) < now
    <2>1. ExpectedRenewAt(e) = NextRunAt(now)
      BY <1>2 DEF ExpectedRenewAt
    <2>2. /\ NextRunAt(now) \in Int /\ now - Shift <= NextRunAt(now)
          /\ NextRunAt(now) <= now + Day + Shift
      BY NextRunNear
    <2>3. QED
      BY <1>1, <1>2, <2>1, <2>2 DEF Larger
  <1>3. CASE ~(Threshold(e) < now)
    <2>1. ExpectedRenewAt(e) = NextRunAtUTC(Threshold(e))
      BY <1>3 DEF ExpectedRenewAt
    <2>2. NextRunAtUTC(Threshold(e)) \in Threshold(e)..(Threshold(e) + Day - 1)
      BY <1>1, NextRunNearUTC
    <2>3. QED
      BY <1>1, <1>3, <2>1, <2>2 DEF Larger
  <1>4. QED
    BY <1>2, <1>3

(* The next check is at most a gap away, and not over.                     *)
LEMMA DeadlineNear ==
    ASSUME IInv, place # Down
    PROVE  Deadline \in Int /\ now <= Deadline /\ Deadline <= now + Gap
  BY ScheduleAssumption, GapNat
  DEF IInv, TypeOK, Timing, Deadline, Waiting, Round, Down

-----------------------------------------------------------------------------
LEMMA InitInv == Init => IInv
  <1> SUFFICES ASSUME Init PROVE IInv
    OBVIOUS
  <1>1. local \in Nat \cup {None} /\ remote \in Nat \cup {None}
    BY ScheduleAssumption DEF Init
  <1>2. TypeOK
    <2>1. place = Down /\ place \notin Waiting /\ place \notin Round
      BY DEF Init, Waiting, Round, Down
    <2>2. now \in Nat /\ zone \in Zone /\ began \in 0..now /\ since \in 0..now
      BY DEF Init
    <2>3. /\ ticker \in BOOLEAN /\ fire \in Nat
          /\ stopAt \in Nat \cup {None} /\ shown \in Int \cup {None}
      BY DEF Init
    <2>4. QED
      BY <1>1, <2>1, <2>2, <2>3 DEF TypeOK
  <1>3. Timing /\ Checked /\ Shown /\ Stopping
    BY DEF Init, Timing, Checked, Shown, Stopping, Waiting, Round, Down
  <1>4. QED
    BY <1>2, <1>3 DEF IInv

(* The end of a process, by Quit or Crash.                                 *)
LEMMA HaltInv == IInv /\ Halt => IInv'
  BY ScheduleAssumption
  DEF Halt, world, IInv, TypeOK, Timing, Checked, Shown, Stopping, Waiting, Round, Down

LEMMA StartInv == IInv /\ Start => IInv'
  <1> SUFFICES ASSUME IInv, Start PROVE IInv'
    OBVIOUS
  <1> USE ScheduleAssumption
  <1>1. /\ NextRunAt(now) \in Int /\ NextRunAt(now) <= now + Day + Shift
        /\ fire' = Larger(now, NextRunAt(now))
    BY NextRunNear DEF IInv, TypeOK, Start
  <1>2. fire' \in Nat /\ now <= fire' /\ fire' <= now + Day + Shift
    BY <1>1 DEF Larger, IInv, TypeOK
  <1>3. TypeOK' /\ Timing'
    BY <1>2 DEF Start, world, IInv, TypeOK, Timing, Waiting, Round, Down
  <1>4. Checked'
    BY <1>2, GapNat DEF Start, world, IInv, TypeOK, Checked, Deadline, Waiting, Lead,
      GetRenewalLeadDays
  <1>5. Shown' /\ Stopping'
    BY DEF Start, world, IInv, Timing, Shown, Stopping
  <1>6. QED
    BY <1>3, <1>4, <1>5 DEF IInv

LEMMA FireInv == IInv /\ Fire => IInv'
  <1> SUFFICES ASSUME IInv, Fire PROVE IInv'
    OBVIOUS
  <1> USE ScheduleAssumption
  <1>1. now = fire /\ place' = "check" /\ began' = now
    BY DEF Fire, IInv, TypeOK
  <1>2. TypeOK' /\ Timing'
    BY <1>1 DEF Fire, world, IInv, TypeOK, Timing, Waiting, Round, Down
  <1>3. Deadline' = Deadline
    BY <1>1 DEF Fire, Deadline, Waiting
  <1>4. Checked'
    BY <1>3 DEF Fire, world, IInv, Checked, Waiting, Down, Lead, Gap, GetRenewalLeadDays,
      Larger
  <1>5. Shown'
    BY <1>3 DEF Fire, world, IInv, Shown, Threshold, Lead, Gap, GetRenewalLeadDays, Larger
  <1>6. Stopping'
    BY <1>1 DEF Fire, world, IInv, TypeOK, Stopping, Waiting, Round
  <1>7. QED
    BY <1>2, <1>4, <1>5, <1>6 DEF IInv

(* A check that renews is an attempt; one that does not has found the      *)
(* certificate a lead away from its end.                                   *)
LEMMA CheckInv == IInv /\ Check => IInv'
  <1> SUFFICES ASSUME IInv, Check PROVE IInv'
    OBVIOUS
  <1> USE ScheduleAssumption
  <1>1. place = "check" /\ place' \in {"renew", "rest"} /\ UNCHANGED <<fire, began, ticker>>
    BY DEF Check
  <1>2. TypeOK' /\ Timing'
    BY <1>1 DEF Check, world, IInv, TypeOK, Timing, Waiting, Round, Down
  <1>3. Deadline' \in Int /\ Deadline' <= now + Gap
    BY <1>1, GapNat DEF IInv, TypeOK, Timing, Deadline, Waiting, Round
  <1>4. Stopping'
    BY <1>1 DEF Check, world, IInv, Stopping, Waiting, Round
  <1>5. CASE ShouldRenew
    <2>1. since' = now /\ shown' = None
      BY <1>5 DEF Check
    <2>2. Checked'
      BY <1>3, <2>1 DEF Checked, Gap, Larger
    <2>3. Shown'
      BY <2>1 DEF Shown
    <2>4. QED
      BY <1>2, <1>4, <2>2, <2>3 DEF IInv
  <1>6. CASE ~ShouldRenew
    <2>1. UNCHANGED <<since, shown, now, local, remote>>
      BY <1>6 DEF Check, world
    <2>2. local # None => now + Lead <= local /\ now <= Threshold(local)
      BY <1>6, LeadInt DEF ShouldRenew, NeedsRenewal, Threshold, IInv, TypeOK
    <2>3. local = None => remote # None /\ now <= Threshold(remote)
      BY <1>6, LeadInt DEF ShouldRenew, NeedsRenewal, Threshold, IInv, TypeOK
    <2>4. Checked'
      <3>1. (Lead > Gap /\ local # None) => Deadline' < local
        BY <1>3, <2>2, LeadInt, GapNat DEF IInv, TypeOK
      <3>2. QED
        BY <2>1, <3>1 DEF Checked, Lead, GetRenewalLeadDays, Gap, Larger
    <2>5. Shown'
      <3>1. /\ local # None => Threshold(local) \in Int
            /\ local = None => Threshold(remote) \in Int
        BY <2>3, LeadInt DEF Threshold, IInv, TypeOK
      <3>2. shown # None => Deadline' <= shown + Gap + Shift
        BY <1>3, <2>2, <2>3, <3>1, GapNat DEF IInv, Shown, TypeOK
      <3>3. QED
        BY <2>1, <3>2
        DEF IInv, Shown, Threshold, Lead, GetRenewalLeadDays, Gap, Larger
    <2>6. QED
      BY <1>2, <1>4, <2>4, <2>5 DEF IInv
  <1>7. QED
    BY <1>5, <1>6

LEMMA RoundEndsInv == IInv /\ RoundEnds => IInv'
  <1> SUFFICES ASSUME IInv, RoundEnds PROVE IInv'
    OBVIOUS
  <1> USE ScheduleAssumption
  <1>1. TypeOK' /\ Timing'
    BY DEF RoundEnds, world, IInv, TypeOK, Timing, Waiting, Round, Down
  <1>2. Deadline' \in Int /\ Deadline \in Int /\ Deadline' <= Deadline
    BY DEF RoundEnds, IInv, TypeOK, Timing, Deadline, Waiting, Round
  <1>3. /\ UNCHANGED <<local, remote, now, since, shown>>
        /\ place # Down
    BY DEF RoundEnds, world, Down
  <1>4. Checked'
    BY <1>2, <1>3, GapNat DEF IInv, TypeOK, Checked, Lead, GetRenewalLeadDays, Gap, Larger
  <1>5. Shown'
    BY <1>2, <1>3, GapNat
    DEF IInv, TypeOK, Shown, Threshold, Lead, GetRenewalLeadDays, Gap, Larger
  <1>6. Stopping'
    BY DEF RoundEnds, world, IInv, TypeOK, Timing, Stopping, Waiting, Round
  <1>7. QED
    BY <1>1, <1>4, <1>5, <1>6 DEF IInv

(* A renewal that ends was called in this round, and the next check comes  *)
(* at most a gap after the beginning of the round.                         *)
LEMMA RenewEndsInv == IInv /\ RenewEnds => IInv'
  <1> SUFFICES ASSUME IInv, RenewEnds PROVE IInv'
    OBVIOUS
  <1> USE ScheduleAssumption
  <1>1. /\ place = "renew" /\ place' = "rest"
        /\ UNCHANGED <<now, zone, remote, ticker, fire, began, stopAt, since>>
        /\ local' \in {now + Life, local, None}
        /\ shown' = IF local' = local THEN shown ELSE None
    BY DEF RenewEnds, Renewed, world
  <1>2. TypeOK'
    BY <1>1 DEF IInv, TypeOK, Waiting, Round, Down
  <1>3. Timing'
    BY <1>1 DEF IInv, Timing, Waiting, Round, Down
  <1>4. Deadline' = Deadline /\ Deadline \in Int /\ Deadline <= since + Gap
    BY <1>1, GapNat DEF IInv, TypeOK, Timing, Deadline, Waiting, Round
  <1>5. Checked'
    BY <1>1, <1>4 DEF Checked, Gap, Larger
  <1>6. Shown'
    BY <1>1, <1>4 DEF IInv, Shown, Threshold, Lead, GetRenewalLeadDays, Gap, Larger
  <1>7. Stopping'
    BY <1>1 DEF IInv, Stopping, Waiting, Round
  <1>8. QED
    BY <1>2, <1>3, <1>5, <1>6, <1>7 DEF IInv

LEMMA ExpireRenewsInv == IInv /\ ExpireRenews => IInv'
  <1> SUFFICES ASSUME IInv, ExpireRenews PROVE IInv'
    OBVIOUS
  <1> USE ScheduleAssumption
  <1>1. /\ place # Down /\ stopAt = None /\ since' = now /\ shown' = None
        /\ UNCHANGED <<now, zone, remote, place, ticker, fire, began, stopAt>>
        /\ local' \in {now + Life, local, None}
    BY DEF ExpireRenews, world
  <1>2. TypeOK'
    BY <1>1 DEF IInv, TypeOK, Waiting, Round, Down
  <1>3. Timing'
    BY <1>1 DEF IInv, TypeOK, Timing, Waiting, Round, Down
  <1>4. Deadline' = Deadline /\ Deadline <= since' + Gap
    BY <1>1, DeadlineNear DEF Deadline
  <1>5. Checked'
    BY <1>4 DEF Checked, Gap, Larger
  <1>6. Shown' /\ Stopping'
    BY <1>1 DEF Shown, Stopping
  <1>7. QED
    BY <1>2, <1>3, <1>5, <1>6 DEF IInv

LEMMA LookInv == IInv /\ Look => IInv'
  <1> SUFFICES ASSUME IInv, Look PROVE IInv'
    OBVIOUS
  <1>1. /\ place # Down /\ stopAt = None
        /\ UNCHANGED <<now, zone, local, remote, place, ticker, fire, began, stopAt, since>>
    BY DEF Look, world
  <1>2. PICK e \in Nat : /\ shown' = ExpectedRenewAt(e)
                         /\ \/ local # None /\ e = local
                            \/ local = None /\ remote # None /\ e = remote
    BY DEF Look, IInv, TypeOK
  <1>3. PICK at \in Int : /\ shown' = at /\ now <= at + Shift
                          /\ Threshold(e) <= at + Shift
                          /\ at <= Larger(Threshold(e), now) + Day + Shift
    BY <1>2, ExpectedNear DEF IInv, TypeOK
  <1>4. TypeOK'
    BY <1>1, <1>3 DEF IInv, TypeOK, Waiting, Round, Down
  <1>5. Timing' /\ Stopping'
    BY <1>1 DEF IInv, Timing, Stopping
  <1>6. Deadline' = Deadline /\ Deadline \in Int /\ Deadline <= now + Gap
    BY <1>1, DeadlineNear DEF Deadline
  <1>7. Checked'
    BY <1>1 DEF IInv, Checked, Deadline, Lead, GetRenewalLeadDays, Gap, Larger
  <1>8. Shown'
    <2>1. Deadline <= at + Gap + Shift
      BY <1>3, <1>6, GapNat, ScheduleAssumption DEF IInv, TypeOK
    <2>2. QED
      BY <1>1, <1>2, <1>3, <1>6, <2>1
      DEF Shown, Threshold, Lead, GetRenewalLeadDays, Gap, Larger
  <1>9. QED
    BY <1>4, <1>5, <1>7, <1>8 DEF IInv

LEMMA StopInv == IInv /\ Stop => IInv'
  <1> SUFFICES ASSUME IInv, Stop PROVE IInv'
    OBVIOUS
  <1> USE ScheduleAssumption
  <1>1. /\ stopAt' = now /\ shown' = None /\ place # Down
        /\ UNCHANGED <<now, zone, local, remote, place, ticker, fire, began, since>>
    BY DEF Stop, world
  <1>2. TypeOK' /\ Stopping'
    BY <1>1 DEF IInv, TypeOK, Stopping, Waiting, Round, Down
  <1>3. Timing' /\ Shown'
    BY <1>1 DEF IInv, Timing, Shown
  <1>4. Checked'
    BY <1>1 DEF IInv, Checked, Deadline, Lead, GetRenewalLeadDays, Gap, Larger
  <1>5. QED
    BY <1>2, <1>3, <1>4 DEF IInv

LEMMA EndpointInv == IInv /\ EndpointChanges => IInv'
  <1> SUFFICES ASSUME IInv, EndpointChanges PROVE IInv'
    OBVIOUS
  <1>1. /\ UNCHANGED <<now, zone, local, place, ticker, fire, began, stopAt, since>>
        /\ shown' = IF local = None THEN None ELSE shown
    BY DEF EndpointChanges
  <1>2. remote' \in Nat \cup {None}
    BY ScheduleAssumption DEF EndpointChanges
  <1>3. TypeOK' /\ Timing' /\ Stopping'
    BY <1>1, <1>2 DEF IInv, TypeOK, Timing, Stopping
  <1>4. Checked' /\ Shown'
    BY <1>1 DEF IInv, Checked, Shown, Deadline, Threshold, Lead, GetRenewalLeadDays,
      Gap, Larger
  <1>5. QED
    BY <1>3, <1>4 DEF IInv

(* Time does not pass the next check.                                      *)
LEMMA TickInv == IInv /\ Tick => IInv'
  <1> SUFFICES ASSUME IInv, Tick PROVE IInv'
    OBVIOUS
  <1> USE ScheduleAssumption
  <1>1. /\ now' = now + 1
        /\ UNCHANGED <<zone, local, remote, place, ticker, fire, began, stopAt, since, shown>>
        /\ place \in Waiting => now < fire
        /\ place \in Round => now < began + MaxRound
        /\ stopAt # None => place \notin Waiting
    BY DEF Tick, StopSeen
  <1>2. TypeOK'
    BY <1>1 DEF IInv, TypeOK, Timing, Waiting, Round, Down
  <1>3. Timing'
    BY <1>1 DEF IInv, TypeOK, Timing, Waiting, Round, Down
  <1>4. Checked'
    BY <1>1 DEF IInv, Checked, Deadline, Lead, GetRenewalLeadDays, Gap, Larger
  <1>5. Shown'
    <2>1. \A e \in Nat : Threshold(e) \in Int
      BY LeadInt DEF Threshold
    <2>2. \A e \in Nat : Larger(Threshold(e), now) <= Larger(Threshold(e), now')
      BY <1>1, <2>1 DEF Larger, IInv, TypeOK
    <2>3. \A e \in Nat : Larger(Threshold(e), now) \in Int /\ Larger(Threshold(e), now') \in Int
      BY <1>1, <2>1 DEF Larger, IInv, TypeOK
    <2>4. QED
      BY <1>1, <2>1, <2>2, <2>3
      DEF IInv, TypeOK, Shown, Deadline, Threshold, Lead, GetRenewalLeadDays, Gap, Larger
  <1>6. Stopping'
    BY <1>1 DEF IInv, TypeOK, Timing, Stopping, Waiting, Round, Down
  <1>7. QED
    BY <1>2, <1>3, <1>4, <1>5, <1>6 DEF IInv

LEMMA InvStep == IInv /\ [Next]_vars => IInv'
  <1> SUFFICES ASSUME IInv, [Next]_vars PROVE IInv'
    OBVIOUS
  <1>1. CASE UNCHANGED vars
    BY <1>1 DEF vars, IInv, TypeOK, Timing, Checked, Shown, Stopping, Deadline, Threshold,
      Lead, GetRenewalLeadDays, Gap, Larger
  <1>2. CASE Next
    BY <1>2, StartInv, FireInv, CheckInv, RenewEndsInv, RoundEndsInv, ExpireRenewsInv,
      LookInv, StopInv, HaltInv, EndpointInv, TickInv
    DEF Next, Quit, Crash
  <1>3. QED
    BY <1>1, <1>2

-----------------------------------------------------------------------------
(* The invariant holds in every state.                                     *)
THEOREM Inductive == Spec => []IInv
  BY InitInv, InvStep, PTL DEF Spec

(* The types: no waiting for what is over.                                 *)
THEOREM TypeCorrect == Spec => []TypeOK
  <1>1. IInv => TypeOK
    BY DEF IInv
  <1>2. QED
    BY <1>1, Inductive, PTL

LEMMA InvInTime == IInv => InTime
  <1> SUFFICES ASSUME IInv, Lead > Gap, place # Down, local # None, now >= local
               PROVE  now - since <= Gap
    BY DEF InTime
  <1>1. Deadline \in Int /\ now <= Deadline
    BY DeadlineNear
  <1>2. Deadline <= since + Gap
    BY <1>1 DEF IInv, TypeOK, Checked
  <1>3. QED
    BY <1>1, <1>2, GapNat DEF IInv, TypeOK

(* No certificate runs out for want of a check, when the lead is longer    *)
(* than the gap between two checks (scheduler.go:134).                     *)
THEOREM InTimeHolds == Spec => []InTime
  BY InvInTime, Inductive, PTL

(* The renewal comes at most a gap and a change of the clock after the     *)
(* time ExpectedRenewAt gave.                                              *)
THEOREM PromiseKeptHolds == Spec => []PromiseKept
  <1>1. IInv => PromiseKept
    <2> SUFFICES ASSUME IInv, shown # None PROVE now <= shown + Gap + Shift
      BY DEF PromiseKept
    <2>1. Deadline \in Int /\ now <= Deadline /\ Deadline <= shown + Gap + Shift
      BY DeadlineNear DEF IInv, Timing, Shown
    <2>2. QED
      BY <2>1, GapNat, ScheduleAssumption DEF IInv, TypeOK
  <1>2. QED
    BY <1>1, Inductive, PTL

(* And no renewal is tried more than a day and such a change before it.    *)
THEOREM NotEarlyHolds == Spec => NotEarly
  <1>1. ASSUME IInv, [Next]_vars
        PROVE  [(shown # None /\ ((place = "check" /\ place' = "renew") \/ ExpireRenews)) =>
                  now >= shown - Day - Shift]_vars
    <2> SUFFICES ASSUME shown # None, Next,
                        (place = "check" /\ place' = "renew") \/ ExpireRenews
                 PROVE  now >= shown - Day - Shift
      BY <1>1 DEF vars
    <2> USE ScheduleAssumption
    <2>1. ShouldRenew
      <3>1. CASE ExpireRenews
        BY <3>1 DEF ExpireRenews
      <3>2. CASE place = "check" /\ place' = "renew"
        BY <3>2 DEF Next, Start, Fire, Check, RenewEnds, RoundEnds, Look, Stop, Quit, Crash,
          Halt, EndpointChanges, Tick, ExpireRenews, Waiting, Down
      <3>3. QED
        BY <3>1, <3>2
    <2>2. PICK e \in Nat : NeedsRenewal(e) /\ shown <= Larger(Threshold(e), now) + Day + Shift
      BY <1>1, <2>1 DEF ShouldRenew, IInv, TypeOK, Shown
    <2>3. Threshold(e) \in Int /\ Threshold(e) < now
      BY <1>1, <2>2, LeadInt DEF NeedsRenewal, Threshold, IInv, TypeOK
    <2>4. shown <= now + Day + Shift
      BY <1>1, <2>2, <2>3 DEF Larger, IInv, TypeOK
    <2>5. QED
      BY <1>1, <2>4 DEF IInv, TypeOK
  <1>2. QED
    BY <1>1, Inductive, PTL DEF Spec, NotEarly

LEMMA InvStopsSoon == IInv => StopsSoon
  BY DEF IInv, Stopping, StopsSoon

(* main waits in Stop for no more than one round.                          *)
THEOREM StopsSoonHolds == Spec => []StopsSoon
  BY InvStopsSoon, Inductive, PTL
=============================================================================
