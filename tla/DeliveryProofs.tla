---------------------------- MODULE DeliveryProofs ----------------------------
(***************************************************************************)
(* Theorems about Delivery, for clocks of any length.  The invariant of    *)
(* ScheduleProofs holds here too; to the instant by which the server has   *)
(* checked (Ends) comes the one by which the client has (Synced), and a    *)
(* certificate is good when it lasts until both have acted once more.      *)
(***************************************************************************)
EXTENDS Delivery, ScheduleProofs

(* The certificate on the server was checked by then, and renewed.         *)
Ends == IF place = "renew" THEN began + MaxRound ELSE Deadline

(* The sync that runs, or else the next one, is over by then.              *)
Synced == IF step = "idle" THEN due + MaxSync ELSE asked + MaxSync

Long == Lead > Delay /\ Life > Delay

(* Enough when the server answers a sync with it.                          *)
Good(expiry) ==
    Ends <= trouble + Gap + MaxSync \/ expiry > Ends + Interval + MaxSync

(* How long the certificate on the server has been there.                  *)
Renewal == Larger(trouble, local - Life)

Clocks ==
    /\ Out => trouble = now
    /\ step \in Syncing => now <= asked + MaxSync /\ due = asked + Interval
    /\ step = "idle" => due <= now + Interval
    /\ (step = "load" /\ local = None) => asked <= trouble

(* A newer certificate on the server is fetched in time.                   *)
Chase ==
    /\ (local # None /\ remote # None /\ remote < local /\ step # Down) =>
          Synced <= Renewal + Interval + MaxSync \/ (step = "load" /\ got < local)
    /\ (local # None /\ step = "load" /\ got < local) =>
          due <= Renewal + Interval

Stocked ==
    (Long /\ place # Down) =>
        /\ local # None => Good(local)
        /\ (local = None /\ remote # None) => Good(remote)

(* Something has just failed, or it does.                                  *)
JustNow == trouble = now

Carried ==
    (Long /\ step = "load") => got > due + MaxSync \/ due + MaxSync <= trouble + Delay

Lasting ==
    (Long /\ remote # None /\ step # Down) => remote > Synced \/ Synced <= trouble + Delay

DeliveryInv ==
    IInv /\ DeliveryTypeOK /\ Clocks /\ Chase /\ Stocked /\ Carried /\ Lasting

-----------------------------------------------------------------------------
LEMMA DelayNat == Delay \in Nat /\ Delay = Gap + Interval + MaxSync + MaxSync
  BY GapNat, DeliveryAssumption DEF Delay

(* The server checks at most a gap from now, and has not done so yet.      *)
LEMMA EndsNear ==
    ASSUME IInv, place # Down
    PROVE  Ends \in Int /\ now <= Ends /\ Ends <= now + Gap
  <1>1. Deadline \in Int /\ now <= Deadline /\ Deadline <= now + Gap
    BY DeadlineNear
  <1>2. place = "renew" => /\ began + MaxRound \in Int /\ now <= began + MaxRound
                           /\ began + MaxRound <= now + Gap
    BY ScheduleAssumption, GapNat DEF IInv, TypeOK, Timing, Round
  <1>3. QED
    BY <1>1, <1>2 DEF Ends

(* So does the client, at most an interval and a sync from now.            *)
LEMMA SyncedNear ==
    ASSUME DeliveryInv, step # Down
    PROVE  Synced \in Int /\ now <= Synced /\ Synced <= now + Interval + MaxSync
  BY DeliveryAssumption
  DEF DeliveryInv, IInv, TypeOK, DeliveryTypeOK, Clocks, Synced, Syncing

LEMMA RenewalInt ==
    ASSUME DeliveryInv, local # None
    PROVE  Renewal \in Int /\ trouble <= Renewal /\ local - Life <= Renewal
  BY ScheduleAssumption DEF DeliveryInv, IInv, TypeOK, DeliveryTypeOK, Renewal, Larger

-----------------------------------------------------------------------------
LEMMA DeliveryInitInv == DeliveryInit => DeliveryInv
  <1> SUFFICES ASSUME DeliveryInit PROVE DeliveryInv
    OBVIOUS
  <1>1. IInv
    BY InitInv DEF DeliveryInit
  <1>2. DeliveryTypeOK
    BY <1>1, ScheduleAssumption
    DEF DeliveryInit, Init, DeliveryTypeOK, IInv, Syncing, Down
  <1>3. Clocks /\ Chase /\ Stocked /\ Carried /\ Lasting
    BY DEF DeliveryInit, Init, Clocks, Chase, Stocked, Carried, Lasting, Syncing, Down
  <1>4. QED
    BY <1>1, <1>2, <1>3 DEF DeliveryInv

-----------------------------------------------------------------------------
LEMMA Same == Gap' = Gap /\ Long' = Long /\ Delay' = Delay
  BY DEF Long, Delay, Gap, Lead, GetRenewalLeadDays, Larger

(* When something has just failed there is time for everything.            *)
LEMMA Troubled ==
    (IInv /\ DeliveryTypeOK /\ Clocks /\ JustNow) =>
        Chase /\ Stocked /\ Carried /\ Lasting
  <1> SUFFICES ASSUME IInv, DeliveryTypeOK, Clocks, trouble = now
               PROVE  Chase /\ Stocked /\ Carried /\ Lasting
    BY DEF JustNow
  <1> USE ScheduleAssumption, DeliveryAssumption
  <1>1. now \in Nat /\ asked \in 0..now /\ due \in Nat /\ Gap \in Nat
    BY GapNat DEF IInv, TypeOK, DeliveryTypeOK
  <1>2. local # None => Renewal \in Int /\ now <= Renewal
    BY DEF Renewal, Larger, IInv, TypeOK
  <1>3. step # Down => Synced \in Int /\ Synced <= now + Interval + MaxSync
    BY <1>1 DEF DeliveryTypeOK, Clocks, Synced, Syncing
  <1>4. step = "load" => due <= now + Interval
    BY <1>1 DEF Clocks, Syncing
  <1>5. Chase
    BY <1>1, <1>2, <1>3, <1>4 DEF Chase
  <1>6. Stocked
    BY <1>1, EndsNear DEF Stocked, Good
  <1>7. Carried /\ Lasting
    BY <1>1, <1>3, <1>4, DelayNat DEF Carried, Lasting
  <1>8. QED
    BY <1>5, <1>6, <1>7

LEMMA TroubledNext ==
    ASSUME IInv', DeliveryTypeOK', Clocks', trouble' = now'
    PROVE  Chase' /\ Stocked' /\ Carried' /\ Lasting'
  <1>1. (IInv' /\ DeliveryTypeOK' /\ Clocks' /\ JustNow') =>
            Chase' /\ Stocked' /\ Carried' /\ Lasting'
    BY Troubled, PTL
  <1>2. QED
    BY <1>1 DEF JustNow

(* A step of the client alone.                                             *)
LEMMA ServerSame ==
    ASSUME DeliveryInv, UNCHANGED vars
    PROVE  IInv' /\ TypeOK' /\ shown' = None /\ Ends' = Ends /\ UNCHANGED <<now, local, remote>>
  <1>1. IInv'
    BY InvStep DEF DeliveryInv
  <1>2. QED
    BY <1>1 DEF DeliveryInv, DeliveryTypeOK, IInv, vars, Ends, Deadline

(* What is good on the server while a sync runs is good until the next     *)
(* sync is over.                                                           *)
LEMMA GoodForLive ==
    ASSUME DeliveryInv, Long, step \in Syncing, place # Down, NEW e \in Nat, Good(e)
    PROVE  e > due + MaxSync \/ due + MaxSync <= trouble + Delay
  <1>1. Ends \in Int /\ now <= Ends
    BY EndsNear DEF DeliveryInv
  <1>2. now \in Nat /\ asked \in 0..now /\ trouble \in 0..now /\ due = asked + Interval
    BY DEF DeliveryInv, IInv, TypeOK, DeliveryTypeOK, Clocks
  <1>3. QED
    BY <1>1, <1>2, DelayNat, GapNat, DeliveryAssumption DEF Good

(* A step of the server that changes no certificate.                       *)
LEMMA ClientSame ==
    ASSUME DeliveryInv, UNCHANGED <<client, trouble, local, remote>>
    PROVE  Chase' /\ Carried' /\ Lasting'
  <1>1. Synced' = Synced /\ Renewal' = Renewal
    BY DEF client, Synced, Renewal
  <1>2. QED
    BY <1>1, Same DEF client, DeliveryInv, Chase, Carried, Lasting

LEMMA ClientStartsInv == DeliveryInv /\ ClientStarts => DeliveryInv'
  <1> SUFFICES ASSUME DeliveryInv, ClientStarts PROVE DeliveryInv'
    OBVIOUS
  <1> USE ScheduleAssumption, DeliveryAssumption
  <1>1. trouble = now
    BY DEF DeliveryInv, Clocks, Out, ClientStarts
  <1>2. /\ step' = "ask" /\ asked' = now /\ due' = now + Interval
        /\ UNCHANGED vars /\ UNCHANGED <<got, trouble>> /\ step = Down
    BY DEF ClientStarts
  <1>3. /\ IInv' /\ TypeOK' /\ shown' = None /\ UNCHANGED <<now, local, remote>>
    BY <1>2, ServerSame
  <1>4. DeliveryTypeOK'
    BY <1>2, <1>3 DEF DeliveryInv, IInv, TypeOK, DeliveryTypeOK, Syncing, Down
  <1>5. Clocks'
    BY <1>1, <1>2, <1>3 DEF DeliveryInv, IInv, TypeOK, Clocks, Syncing
  <1>6. QED
    BY <1>1, <1>2, <1>3, <1>4, <1>5, TroubledNext DEF DeliveryInv

LEMMA SyncStartsInv == DeliveryInv /\ SyncStarts => DeliveryInv'
  <1> SUFFICES ASSUME DeliveryInv, SyncStarts PROVE DeliveryInv'
    OBVIOUS
  <1> USE ScheduleAssumption, DeliveryAssumption
  <1>1. /\ step = "idle" /\ step' = "ask" /\ asked' = now /\ due' = due + Interval
        /\ UNCHANGED vars /\ UNCHANGED <<got, trouble>> /\ step # Down
    BY DEF SyncStarts, Down
  <1>2. now = due
    BY <1>1 DEF SyncStarts, DeliveryInv, DeliveryTypeOK, IInv, TypeOK
  <1>3. /\ IInv' /\ TypeOK' /\ shown' = None /\ Ends' = Ends
        /\ UNCHANGED <<now, local, remote>>
    BY <1>1, ServerSame
  <1>4. DeliveryTypeOK'
    BY <1>1, <1>2, <1>3 DEF DeliveryInv, IInv, TypeOK, DeliveryTypeOK, Syncing, Down
  <1>5. Clocks'
    BY <1>1, <1>2, <1>3 DEF DeliveryInv, IInv, TypeOK, Clocks, Out, Up, Syncing, Down, vars
  <1>6. Synced' = Synced
    BY <1>1, <1>2 DEF Synced
  <1>7. Renewal' = Renewal
    BY <1>1, <1>3 DEF Renewal
  <1>8. Chase'
    BY <1>1, <1>3, <1>6, <1>7 DEF DeliveryInv, Chase
  <1>9. Stocked'
    BY <1>1, <1>3, Same DEF DeliveryInv, Stocked, Good, vars
  <1>10. Carried' /\ Lasting'
    BY <1>1, <1>3, <1>6, Same DEF DeliveryInv, Carried, Lasting
  <1>11. QED
    BY <1>3, <1>4, <1>5, <1>8, <1>9, <1>10 DEF DeliveryInv

(* A sync that finds the live certificate not behind leaves one that is as *)
(* good as that on the server, or the one the server judges by.            *)
LEMMA AskInv == DeliveryInv /\ Ask => DeliveryInv'
  <1> SUFFICES ASSUME DeliveryInv, Ask PROVE DeliveryInv'
    OBVIOUS
  <1> USE ScheduleAssumption, DeliveryAssumption
  <1>1. /\ step = "ask" /\ Up /\ remote # None
        /\ step' = IF Behind THEN "fetch" ELSE "idle"
        /\ UNCHANGED vars /\ UNCHANGED <<due, asked, got, trouble>> /\ step # Down
    BY DEF Ask, Down
  <1>2. /\ IInv' /\ TypeOK' /\ shown' = None /\ Ends' = Ends
        /\ UNCHANGED <<now, local, remote>>
    BY <1>1, ServerSame
  <1>3. now \in Nat /\ asked \in 0..now /\ now <= asked + MaxSync /\ due = asked + Interval
    BY <1>1 DEF DeliveryInv, IInv, TypeOK, DeliveryTypeOK, Clocks, Syncing
  <1>4. DeliveryTypeOK'
    BY <1>1, <1>2, <1>3 DEF DeliveryInv, IInv, TypeOK, DeliveryTypeOK, Syncing, Down
  <1>5. Clocks'
    BY <1>1, <1>2, <1>3 DEF DeliveryInv, IInv, TypeOK, Clocks, Out, Up, Syncing, Down, vars
  <1>6. Renewal' = Renewal
    BY <1>1, <1>2 DEF Renewal
  <1>7. Stocked'
    BY <1>1, <1>2, Same DEF DeliveryInv, Stocked, Good, vars
  <1>8. Carried'
    BY <1>1 DEF Carried
  <1>9. CASE Behind
    <2>1. step' = "fetch" /\ Synced' = Synced
      BY <1>1, <1>9 DEF Synced
    <2>2. Chase' /\ Lasting'
      BY <1>1, <1>2, <1>6, <2>1, Same DEF DeliveryInv, Chase, Lasting
    <2>3. QED
      BY <1>2, <1>4, <1>5, <1>7, <1>8, <2>2 DEF DeliveryInv
  <1>10. CASE ~Behind
    <2>1. step' = "idle" /\ Synced' = due + MaxSync
      BY <1>1, <1>10 DEF Synced
    <2>2. Chase'
      BY <1>1, <1>2, <1>10, <2>1 DEF Chase, Behind
    <2>3. ASSUME Long PROVE remote > due + MaxSync \/ due + MaxSync <= trouble + Delay
      <3>1. PICK e \in Nat : e <= remote /\ Good(e)
        BY <1>1, <1>10, <2>3 DEF DeliveryInv, Stocked, Up, Behind, IInv, TypeOK
      <3>2. e > due + MaxSync \/ due + MaxSync <= trouble + Delay
        BY <1>1, <2>3, <3>1, GoodForLive DEF Up, Syncing
      <3>3. QED
        BY <1>1, <1>3, <3>1, <3>2 DEF DeliveryInv, IInv, TypeOK
    <2>4. Lasting'
      BY <1>1, <1>2, <2>1, <2>3, Same DEF Lasting
    <2>5. QED
      BY <1>2, <1>4, <1>5, <1>7, <1>8, <2>2, <2>4 DEF DeliveryInv
  <1>11. QED
    BY <1>9, <1>10

LEMMA FetchInv == DeliveryInv /\ Fetch => DeliveryInv'
  <1> SUFFICES ASSUME DeliveryInv, Fetch PROVE DeliveryInv'
    OBVIOUS
  <1> USE ScheduleAssumption, DeliveryAssumption
  <1>1. /\ step = "fetch" /\ Up /\ local # None /\ step' = "load" /\ got' = local
        /\ UNCHANGED vars /\ UNCHANGED <<due, asked, trouble>> /\ step # Down
    BY DEF Fetch, Down
  <1>2. /\ IInv' /\ TypeOK' /\ shown' = None /\ Ends' = Ends
        /\ UNCHANGED <<now, local, remote>>
    BY <1>1, ServerSame
  <1>3. DeliveryTypeOK'
    BY <1>1, <1>2 DEF DeliveryInv, IInv, TypeOK, DeliveryTypeOK, Syncing, Down
  <1>4. Clocks'
    BY <1>1, <1>2 DEF DeliveryInv, IInv, TypeOK, Clocks, Out, Up, Syncing, Down, vars
  <1>5. Synced' = Synced /\ Renewal' = Renewal
    BY <1>1, <1>2 DEF Synced, Renewal
  <1>6. Chase'
    BY <1>1, <1>2, <1>5 DEF DeliveryInv, Chase, IInv, TypeOK
  <1>7. Stocked' /\ Lasting'
    BY <1>1, <1>2, <1>5, Same DEF DeliveryInv, Stocked, Good, Lasting, vars
  <1>8. Long => local > due + MaxSync \/ due + MaxSync <= trouble + Delay
    BY <1>1, GoodForLive DEF DeliveryInv, Stocked, Up, IInv, TypeOK, Syncing
  <1>9. Carried'
    BY <1>1, <1>8, Same DEF Carried
  <1>10. QED
    BY <1>2, <1>3, <1>4, <1>6, <1>7, <1>9 DEF DeliveryInv

(* What is loaded was good when it was fetched.  If the certificate on the *)
(* server is gone by now, it went while the sync was running.              *)
LEMMA LoadInv == DeliveryInv /\ Load => DeliveryInv'
  <1> SUFFICES ASSUME DeliveryInv, Load PROVE DeliveryInv'
    OBVIOUS
  <1> USE ScheduleAssumption, DeliveryAssumption
  <1>1. /\ step = "load" /\ step' = "idle" /\ remote' = got /\ got' = None
        /\ UNCHANGED <<now, zone, local, place, ticker, fire, began, stopAt, since, shown>>
        /\ UNCHANGED <<due, asked, trouble>> /\ step # Down
    BY DEF Load, Down
  <1>2. got \in Nat /\ shown = None
    BY <1>1 DEF DeliveryInv, DeliveryTypeOK
  <1>3. TypeOK'
    BY <1>1, <1>2 DEF DeliveryInv, IInv, TypeOK
  <1>4. IInv'
    BY <1>1, <1>2, <1>3
    DEF DeliveryInv, IInv, Timing, Checked, Shown, Stopping, Deadline, Lead,
      GetRenewalLeadDays, Gap, Larger
  <1>5. /\ now \in Nat /\ asked \in 0..now /\ trouble \in 0..now
        /\ now <= asked + MaxSync /\ due = asked + Interval
    BY <1>1 DEF DeliveryInv, IInv, TypeOK, DeliveryTypeOK, Clocks, Syncing
  <1>6. DeliveryTypeOK'
    BY <1>1, <1>2, <1>3, <1>5
    DEF DeliveryInv, IInv, TypeOK, DeliveryTypeOK, Syncing, Down
  <1>7. Clocks'
    BY <1>1, <1>2, <1>5 DEF DeliveryInv, Clocks, Out, Up, Syncing, Down
  <1>8. Synced' = due + MaxSync /\ Renewal' = Renewal /\ Ends' = Ends
    BY <1>1 DEF Synced, Renewal, Ends, Deadline
  <1>9. Chase'
    <2>1. ASSUME local # None, got < local PROVE Synced' <= Renewal' + Interval + MaxSync
      BY <1>1, <1>5, <1>8, <2>1, RenewalInt DEF DeliveryInv, Chase
    <2>2. QED
      BY <1>1, <2>1 DEF Chase
  <1>10. Stocked'
    <2>1. ASSUME Long, place # Down, local = None PROVE Ends <= trouble + Gap + MaxSync
      <3>1. Ends \in Int /\ Ends <= now + Gap
        BY <2>1, EndsNear DEF DeliveryInv
      <3>2. asked <= trouble
        BY <1>1, <2>1 DEF DeliveryInv, Clocks
      <3>3. QED
        BY <1>5, <3>1, <3>2, GapNat
    <2>2. QED
      BY <1>1, <1>8, <2>1, Same DEF DeliveryInv, Stocked, Good
  <1>11. Carried' /\ Lasting'
    BY <1>1, <1>8, Same DEF DeliveryInv, Carried, Lasting
  <1>12. QED
    BY <1>4, <1>6, <1>7, <1>9, <1>10, <1>11 DEF DeliveryInv

LEMMA SyncFailsInv == DeliveryInv /\ SyncFails => DeliveryInv'
  <1> SUFFICES ASSUME DeliveryInv, SyncFails PROVE DeliveryInv'
    OBVIOUS
  <1> USE ScheduleAssumption, DeliveryAssumption
  <1>1. /\ step \in Syncing /\ step' = "idle" /\ got' = None /\ trouble' = now
        /\ UNCHANGED vars /\ UNCHANGED <<due, asked>>
    BY DEF SyncFails
  <1>2. /\ IInv' /\ TypeOK' /\ shown' = None /\ UNCHANGED <<now, local, remote>>
    BY <1>1, ServerSame
  <1>3. DeliveryTypeOK'
    BY <1>1, <1>2 DEF DeliveryInv, IInv, TypeOK, DeliveryTypeOK, Syncing, Down
  <1>4. Clocks'
    BY <1>1, <1>2 DEF DeliveryInv, IInv, TypeOK, DeliveryTypeOK, Clocks, Syncing
  <1>5. QED
    BY <1>1, <1>2, <1>3, <1>4, TroubledNext DEF DeliveryInv

LEMMA ClientDiesInv == DeliveryInv /\ ClientDies => DeliveryInv'
  <1> SUFFICES ASSUME DeliveryInv, ClientDies PROVE DeliveryInv'
    OBVIOUS
  <1>1. /\ step' = Down /\ due' = 0 /\ asked' = 0 /\ got' = None /\ trouble' = now
        /\ UNCHANGED vars
    BY DEF ClientDies
  <1>2. /\ IInv' /\ TypeOK' /\ shown' = None /\ UNCHANGED <<now, local, remote>>
    BY <1>1, ServerSame
  <1>3. DeliveryTypeOK'
    BY <1>1, <1>2 DEF IInv, TypeOK, DeliveryTypeOK, Syncing, Down
  <1>4. Clocks'
    BY <1>1, <1>2 DEF Clocks, Syncing, Down
  <1>5. QED
    BY <1>1, <1>2, <1>3, <1>4, TroubledNext DEF DeliveryInv

-----------------------------------------------------------------------------
(* A step of the server leaves the client's types and clocks alone.        *)
LEMMA ClientTypes ==
    ASSUME DeliveryInv, TypeOK', shown' = None, UNCHANGED <<client, now>>,
           trouble' \in 0..now
    PROVE  DeliveryTypeOK'
  BY DEF client, DeliveryInv, IInv, TypeOK, DeliveryTypeOK, Syncing, Down

(* One at which something fails needs nothing more.                        *)
LEMMA FailingServer ==
    ASSUME DeliveryInv, IInv', shown' = None, UNCHANGED <<client, now>>, trouble' = now
    PROVE  DeliveryInv'
  <1>1. TypeOK' /\ now \in Nat
    BY DEF DeliveryInv, IInv, TypeOK
  <1>2. DeliveryTypeOK'
    BY <1>1, ClientTypes
  <1>3. Clocks'
    BY DEF client, DeliveryInv, IInv, TypeOK, DeliveryTypeOK, Clocks, Syncing
  <1>4. QED
    BY <1>2, <1>3, TroubledNext DEF DeliveryInv

(* A check finds the certificate a lead away from its end, or renews it.   *)
LEMMA ServeInv == DeliveryInv /\ Serve => DeliveryInv'
  <1> SUFFICES ASSUME DeliveryInv, Serve PROVE DeliveryInv'
    OBVIOUS
  <1> USE ScheduleAssumption, DeliveryAssumption
  <1>1. /\ UNCHANGED <<now, zone, local, remote, client, trouble, stopAt>>
        /\ Start \/ Fire \/ Check \/ RoundEnds
    BY DEF Serve, Start, Fire, Check, RoundEnds, world
  <1>2. IInv'
    BY <1>1, StartInv, FireInv, CheckInv, RoundEndsInv DEF DeliveryInv
  <1>3. shown' = None
    BY DEF Serve, Start, Fire, Check, RoundEnds, DeliveryInv, DeliveryTypeOK
  <1>4. TypeOK' /\ trouble \in 0..now
    BY <1>2 DEF IInv, DeliveryInv, DeliveryTypeOK
  <1>5. CASE Start
    <2>1. trouble = now
      BY <1>5 DEF Start, DeliveryInv, Clocks, Out, Up
    <2>2. QED
      BY <1>1, <1>2, <1>3, <2>1, FailingServer
  <1>6. CASE Fire \/ Check \/ RoundEnds
    <2>1. place # Down /\ place' # Down
      BY <1>6 DEF Fire, Check, RoundEnds, Waiting, Down
    <2>2. DeliveryTypeOK'
      BY <1>1, <1>3, <1>4, ClientTypes
    <2>3. Clocks'
      BY <1>1, <2>1 DEF client, DeliveryInv, Clocks, Out, Up
    <2>4. Chase' /\ Carried' /\ Lasting'
      BY <1>1, ClientSame
    <2>5. Ends \in Int /\ now <= Ends /\ Ends <= now + Gap
      BY <2>1, EndsNear DEF DeliveryInv
    <2>6. Stocked'
      <3>1. CASE Fire
        <4>1. Ends' = Ends
          BY <3>1 DEF Fire, Ends, Deadline, Waiting, DeliveryInv, IInv, TypeOK
        <4>2. QED
          BY <1>1, <2>1, <4>1, Same DEF DeliveryInv, Stocked, Good
      <3>2. CASE RoundEnds
        <4>1. PICK n \in Int : Ends' = n /\ n <= Ends
          <5>1. Ends' \in Int /\ Ends' <= Ends
            BY <3>2
            DEF RoundEnds, Ends, Deadline, Waiting, DeliveryInv, IInv, TypeOK, Timing, Round
          <5>2. QED
            BY <5>1
        <4>2. ASSUME NEW e \in Nat, Good(e)
              PROVE  n <= trouble + Gap + MaxSync \/ e > n + Interval + MaxSync
          BY <1>4, <2>5, <4>1, <4>2, GapNat DEF Good, DeliveryInv, IInv, TypeOK
        <4>3. QED
          BY <1>1, <2>1, <4>1, <4>2, Same DEF DeliveryInv, IInv, TypeOK, Stocked, Good
      <3>3. CASE Check /\ ShouldRenew
        <4>1. Ends' = Ends
          BY <3>3 DEF Check, Ends, Deadline, Waiting
        <4>2. QED
          BY <1>1, <2>1, <4>1, Same DEF DeliveryInv, Stocked, Good
      <3>4. CASE Check /\ ~ShouldRenew
        <4>1. PICK n \in Int : Ends' = n /\ n <= now + Gap
          <5>1. Ends' \in Int /\ Ends' <= now + Gap
            BY <3>4, GapNat
            DEF Check, Ends, Deadline, Waiting, DeliveryInv, IInv, TypeOK, Timing, Round
          <5>2. QED
            BY <5>1
        <4>2. /\ local # None => now + Lead <= local
              /\ local = None /\ remote # None => now + Lead <= remote
          BY <3>4, LeadInt DEF ShouldRenew, NeedsRenewal, DeliveryInv, IInv, TypeOK
        <4>3. ASSUME Long, NEW e \in Nat, now + Lead <= e
              PROVE  e > n + Interval + MaxSync
          BY <4>1, <4>3, LeadInt, DelayNat, GapNat DEF Long, DeliveryInv, IInv, TypeOK
        <4>4. QED
          BY <1>1, <4>1, <4>2, <4>3, Same DEF Stocked, Good, DeliveryInv, IInv, TypeOK
      <3>5. QED
        BY <1>6, <3>1, <3>2, <3>3, <3>4
    <2>7. QED
      BY <1>2, <2>2, <2>3, <2>4, <2>6 DEF DeliveryInv
  <1>7. QED
    BY <1>1, <1>5, <1>6

(* So does a certificate that is renewed; its life is long enough.         *)
LEMMA RenewInv == DeliveryInv /\ Renew => DeliveryInv'
  <1> SUFFICES ASSUME DeliveryInv, Renew PROVE DeliveryInv'
    OBVIOUS
  <1> USE ScheduleAssumption, DeliveryAssumption
  <1>1. /\ UNCHANGED <<now, zone, remote, client, stopAt>>
        /\ RenewEnds \/ ExpireRenews
        /\ place # Down /\ place' # Down
        /\ trouble' = IF local' = now + Life THEN trouble ELSE now
    BY DEF Renew, RenewEnds, ExpireRenews, world, Down
  <1>2. IInv'
    BY <1>1, RenewEndsInv, ExpireRenewsInv DEF DeliveryInv
  <1>3. shown' = None
    BY DEF Renew, RenewEnds, Renewed, ExpireRenews, DeliveryInv, DeliveryTypeOK
  <1>4. CASE local' # now + Life
    BY <1>1, <1>2, <1>3, <1>4, FailingServer
  <1>5. CASE local' = now + Life
    <2>1. /\ now \in Nat /\ trouble \in 0..now /\ trouble' = trouble /\ local' = now + Life
          /\ TypeOK'
      BY <1>1, <1>2, <1>5 DEF DeliveryInv, IInv, TypeOK, DeliveryTypeOK
    <2>2. local' # None
      BY <2>1
    <2>3. DeliveryTypeOK'
      BY <1>1, <1>3, <2>1, ClientTypes
    <2>4. Clocks'
      BY <1>1, <2>1, <2>2 DEF client, DeliveryInv, Clocks, Out, Up
    <2>5. PICK r \in Int : Renewal' = r /\ now <= r
      BY <2>1 DEF Renewal, Larger
    <2>6. Synced' = Synced /\ (step # Down => Synced \in Int /\ Synced <= now + Interval + MaxSync)
      BY <1>1, SyncedNear DEF client, Synced
    <2>7. step = "load" => due <= now + Interval
      BY DEF DeliveryInv, IInv, TypeOK, DeliveryTypeOK, Clocks, Syncing
    <2>8. Chase'
      <3>1. step # Down => Synced <= r + Interval + MaxSync
        BY <2>1, <2>5, <2>6
      <3>2. step = "load" => due <= r + Interval
        BY <2>1, <2>5, <2>7 DEF DeliveryInv, DeliveryTypeOK
      <3>3. QED
        BY <1>1, <2>5, <2>6, <3>1, <3>2 DEF Chase, client
    <2>9. PICK n \in Int : Ends' = n /\ n <= now + Gap
      <3>1. CASE RenewEnds
        <4>1. Ends' \in Int /\ Ends' <= now + Gap
          BY <3>1, GapNat
          DEF RenewEnds, world, Ends, Deadline, Waiting, DeliveryInv, IInv, TypeOK, Timing, Round
        <4>2. QED
          BY <3>1, <4>1
      <3>2. CASE ExpireRenews
        <4>1. Ends' = Ends
          BY <3>2 DEF ExpireRenews, Ends, Deadline
        <4>2. QED
          BY <1>1, <4>1, EndsNear DEF DeliveryInv
      <3>3. QED
        BY <1>1, <3>1, <3>2
    <2>10. Long => now + Life > n + Interval + MaxSync
      BY <2>1, <2>9, DelayNat, GapNat DEF Long
    <2>11. Stocked'
      BY <2>1, <2>2, <2>9, <2>10, Same DEF Stocked, Good
    <2>12. Carried' /\ Lasting'
      BY <1>1, <2>1, <2>6, Same DEF client, DeliveryInv, Carried, Lasting
    <2>13. QED
      BY <1>2, <2>3, <2>4, <2>8, <2>11, <2>12 DEF DeliveryInv
  <1>6. QED
    BY <1>4, <1>5

LEMMA ServerEndsInv == DeliveryInv /\ ServerEnds => DeliveryInv'
  <1> SUFFICES ASSUME DeliveryInv, ServerEnds PROVE DeliveryInv'
    OBVIOUS
  <1>1. UNCHANGED <<client, now>> /\ trouble' = now /\ shown' = None
    BY DEF ServerEnds, Stop, Quit, Crash, Halt, world
  <1>2. IInv'
    BY StopInv, HaltInv DEF ServerEnds, Quit, Crash, DeliveryInv
  <1>3. QED
    BY <1>1, <1>2, FailingServer

LEMMA ElsewhereInv == DeliveryInv /\ Elsewhere => DeliveryInv'
  <1> SUFFICES ASSUME DeliveryInv, Elsewhere PROVE DeliveryInv'
    OBVIOUS
  <1>1. UNCHANGED <<client, now>> /\ trouble' = now /\ shown' = None
    BY DEF Elsewhere, EndpointChanges, DeliveryInv, DeliveryTypeOK
  <1>2. IInv'
    BY EndpointInv DEF Elsewhere, DeliveryInv
  <1>3. QED
    BY <1>1, <1>2, FailingServer

(* Time passes neither the next check nor the next sync.                   *)
LEMMA PassInv == DeliveryInv /\ Pass => DeliveryInv'
  <1> SUFFICES ASSUME DeliveryInv, Pass PROVE DeliveryInv'
    OBVIOUS
  <1> USE ScheduleAssumption, DeliveryAssumption
  <1>1. /\ now' = now + 1 /\ UNCHANGED client
        /\ UNCHANGED <<zone, local, remote, place, ticker, fire, began, stopAt, since, shown>>
        /\ step = "idle" => now < due
        /\ step \in Syncing => now < asked + MaxSync
        /\ trouble' = IF Out THEN now' ELSE trouble
    BY DEF Pass, Tick
  <1>2. IInv'
    BY TickInv DEF Pass, DeliveryInv
  <1>3. DeliveryTypeOK'
    <2>1. now \in Nat /\ trouble \in 0..now /\ asked \in 0..now /\ due \in Nat /\ TypeOK'
      BY <1>2 DEF DeliveryInv, IInv, TypeOK, DeliveryTypeOK
    <2>2. step \in Syncing => now + 1 < due
      BY <1>1, <2>1 DEF DeliveryInv, Clocks
    <2>3. trouble' \in 0..now' /\ asked' \in 0..now' /\ due' \in Nat
      BY <1>1, <2>1 DEF client
    <2>4. step' = "idle" => now' <= due'
      BY <1>1, <2>1 DEF client
    <2>5. step' \in Syncing => now' < due'
      BY <1>1, <2>2 DEF client
    <2>6. QED
      BY <1>1, <2>1, <2>3, <2>4, <2>5 DEF client, DeliveryInv, DeliveryTypeOK
  <1>4. Clocks'
    BY <1>1
    DEF client, DeliveryInv, IInv, TypeOK, DeliveryTypeOK, Clocks, Out, Up, Syncing
  <1>5. CASE Out
    BY <1>1, <1>2, <1>3, <1>4, <1>5, TroubledNext DEF DeliveryInv
  <1>6. CASE ~Out
    <2>1. trouble' = trouble /\ Ends' = Ends
      BY <1>1, <1>6 DEF Ends, Deadline
    <2>2. Chase' /\ Carried' /\ Lasting'
      BY <1>1, <2>1, ClientSame
    <2>3. Stocked'
      BY <1>1, <2>1, Same DEF DeliveryInv, Stocked, Good
    <2>4. QED
      BY <1>2, <1>3, <1>4, <2>2, <2>3 DEF DeliveryInv
  <1>7. QED
    BY <1>5, <1>6

LEMMA DeliveryStep == DeliveryInv /\ [DeliveryNext]_deliveryVars => DeliveryInv'
  <1> SUFFICES ASSUME DeliveryInv, [DeliveryNext]_deliveryVars PROVE DeliveryInv'
    OBVIOUS
  <1>1. CASE UNCHANGED deliveryVars
    <2>1. UNCHANGED vars /\ UNCHANGED <<client, trouble>>
      BY <1>1 DEF deliveryVars
    <2>2. /\ IInv' /\ TypeOK' /\ shown' = None /\ Ends' = Ends
          /\ UNCHANGED <<now, local, remote, place, stopAt>>
      BY <2>1, ServerSame DEF vars
    <2>3. DeliveryTypeOK' /\ Clocks'
      BY <2>1, <2>2 DEF client, DeliveryInv, DeliveryTypeOK, Clocks, Out, Up
    <2>4. Chase' /\ Carried' /\ Lasting'
      BY <2>1, <2>2, ClientSame
    <2>5. Stocked'
      BY <2>1, <2>2, Same DEF DeliveryInv, Stocked, Good
    <2>6. QED
      BY <2>2, <2>3, <2>4, <2>5 DEF DeliveryInv
  <1>2. CASE DeliveryNext
    BY <1>2, ClientStartsInv, SyncStartsInv, AskInv, FetchInv, LoadInv, SyncFailsInv,
      ClientDiesInv, ServeInv, RenewInv, ServerEndsInv, ElsewhereInv, PassInv
    DEF DeliveryNext
  <1>3. QED
    BY <1>1, <1>2

-----------------------------------------------------------------------------
(* The invariant holds in every state.                                     *)
THEOREM DeliveryInductive == DeliverySpec => []DeliveryInv
  BY DeliveryInitInv, DeliveryStep, PTL DEF DeliverySpec

(* The types: no sync outlasts the client's ticker.                        *)
THEOREM DeliveryTypeCorrect == DeliverySpec => []DeliveryTypeOK
  <1>1. DeliveryInv => DeliveryTypeOK
    BY DEF DeliveryInv
  <1>2. QED
    BY <1>1, DeliveryInductive, PTL

(* A renewed certificate is live one interval and one sync later.          *)
THEOREM FollowsHolds == DeliverySpec => []Follows
  <1>1. DeliveryInv => Follows
    <2> SUFFICES ASSUME DeliveryInv, local # None, remote # None, remote < local
                 PROVE  now <= Larger(trouble, local - Life) + Interval + MaxSync
      BY DEF Follows
    <2> USE ScheduleAssumption, DeliveryAssumption
    <2>1. Renewal \in Int /\ trouble <= Renewal /\ now \in Nat /\ trouble \in Nat
      BY RenewalInt DEF DeliveryInv, IInv, TypeOK, DeliveryTypeOK
    <2>2. now <= Renewal + Interval + MaxSync
      <3>1. CASE step = Down
        BY <2>1, <3>1 DEF DeliveryInv, Clocks, Out
      <3>2. CASE step # Down
        <4>1. Synced \in Int /\ now <= Synced
          BY <3>2, SyncedNear
        <4>2. CASE Synced <= Renewal + Interval + MaxSync
          BY <2>1, <4>1, <4>2
        <4>3. CASE step = "load" /\ got < local
          <5>1. due <= Renewal + Interval /\ now < due /\ due \in Nat
            BY <4>3 DEF DeliveryInv, Chase, DeliveryTypeOK, Syncing
          <5>2. QED
            BY <2>1, <5>1
        <4>4. QED
          BY <3>2, <4>2, <4>3 DEF DeliveryInv, Chase
      <3>3. QED
        BY <3>1, <3>2
    <2>3. QED
      BY <2>2 DEF Renewal
  <1>2. QED
    BY <1>1, DeliveryInductive, PTL

(* The live certificate never runs out as long as nothing fails.           *)
THEOREM LiveInTimeHolds == DeliverySpec => []LiveInTime
  <1>1. DeliveryInv => LiveInTime
    <2> SUFFICES ASSUME DeliveryInv, Long, remote # None, now >= remote
                 PROVE  now <= trouble + Delay
      BY DEF LiveInTime, Long
    <2>1. now \in Nat /\ trouble \in Nat /\ remote \in Nat
      BY DEF DeliveryInv, IInv, TypeOK, DeliveryTypeOK
    <2>2. CASE step = Down
      BY <2>1, <2>2, DelayNat DEF DeliveryInv, Clocks, Out
    <2>3. CASE step # Down
      <3>1. Synced \in Int /\ now <= Synced
        BY <2>3, SyncedNear
      <3>2. Synced <= trouble + Delay
        BY <2>1, <2>3, <3>1 DEF DeliveryInv, Lasting
      <3>3. QED
        BY <2>1, <3>1, <3>2, DelayNat
    <2>4. QED
      BY <2>2, <2>3
  <1>2. QED
    BY <1>1, DeliveryInductive, PTL

-----------------------------------------------------------------------------
(* Delivery is a Schedule: the client is one of those who replace the live *)
(* certificate, with any expiry.                                           *)
Scheduler == INSTANCE Schedule WITH Expiry <- Nat

LEMMA SchedulerStep == DeliveryInv /\ [DeliveryNext]_deliveryVars => [Scheduler!Next]_vars
  <1> SUFFICES ASSUME DeliveryInv, [DeliveryNext]_deliveryVars
               PROVE  [Scheduler!Next]_vars
    OBVIOUS
  <1> USE DEF Scheduler!Next
  <1>1. CASE UNCHANGED vars
    BY <1>1
  <1>2. CASE Load
    <2>1. got \in Nat /\ shown = None
      BY <1>2 DEF Load, DeliveryInv, DeliveryTypeOK
    <2>2. CASE got = remote
      BY <1>2, <2>2 DEF Load, vars
    <2>3. CASE got # remote
      BY <1>2, <2>1, <2>3 DEF Load, Scheduler!EndpointChanges
    <2>4. QED
      BY <2>2, <2>3
  <1>3. CASE Serve
    <2>1. CASE Start
      BY <2>1 DEF Start, Scheduler!Start, world, Scheduler!world, NextRunAt,
        Scheduler!NextRunAt, Date, Scheduler!Date, Wall, Scheduler!Wall, Offset,
        Scheduler!Offset, Larger, Scheduler!Larger, Down, Scheduler!Down
    <2>2. CASE Fire
      BY <2>2 DEF Fire, Scheduler!Fire, world, Scheduler!world, Waiting, Scheduler!Waiting
    <2>3. CASE Check
      BY <2>3 DEF Check, Scheduler!Check, world, Scheduler!world, ShouldRenew,
        Scheduler!ShouldRenew, NeedsRenewal, Scheduler!NeedsRenewal, Lead, Scheduler!Lead,
        GetRenewalLeadDays, Scheduler!GetRenewalLeadDays
    <2>4. CASE RoundEnds
      BY <2>4 DEF RoundEnds, Scheduler!RoundEnds, world, Scheduler!world
    <2>5. QED
      BY <1>3, <2>1, <2>2, <2>3, <2>4 DEF Serve
  <1>4. CASE Renew
    <2>1. CASE RenewEnds
      BY <2>1 DEF RenewEnds, Scheduler!RenewEnds, Renewed, Scheduler!Renewed, world,
        Scheduler!world
    <2>2. CASE ExpireRenews
      BY <2>2 DEF ExpireRenews, Scheduler!ExpireRenews, world, Scheduler!world,
        ShouldRenew, Scheduler!ShouldRenew, NeedsRenewal, Scheduler!NeedsRenewal, Lead,
        Scheduler!Lead, GetRenewalLeadDays, Scheduler!GetRenewalLeadDays, Down,
        Scheduler!Down
    <2>3. QED
      BY <1>4, <2>1, <2>2 DEF Renew
  <1>5. CASE ServerEnds
    BY <1>5 DEF ServerEnds, Stop, Scheduler!Stop, Quit, Scheduler!Quit, Crash,
      Scheduler!Crash, Halt, Scheduler!Halt, StopSeen, Scheduler!StopSeen, world,
      Scheduler!world, Down, Scheduler!Down, Waiting, Scheduler!Waiting
  <1>6. CASE Elsewhere
    BY <1>6, ScheduleAssumption
    DEF Elsewhere, EndpointChanges, Scheduler!EndpointChanges
  <1>7. CASE Pass
    BY <1>7 DEF Pass, Tick, Scheduler!Tick, Waiting, Scheduler!Waiting, Round,
      Scheduler!Round, StopSeen, Scheduler!StopSeen
  <1>8. QED
    BY <1>1, <1>2, <1>3, <1>4, <1>5, <1>6, <1>7
    DEF DeliveryNext, ClientStarts, SyncStarts, Ask, Fetch, SyncFails, ClientDies,
      deliveryVars

(* The composed system implements Schedule, whose live certificate comes   *)
(* from anywhere: what is proved there of the server alone holds of the    *)
(* server with its client, which renews nothing and shows nothing.         *)
THEOREM ScheduleImplemented == DeliverySpec => Scheduler!Spec
  <1>1. DeliveryInit => Scheduler!Init
    BY ScheduleAssumption DEF DeliveryInit, Init, Scheduler!Init, Down, Scheduler!Down
  <1>2. DeliveryInv /\ [DeliveryNext]_deliveryVars => [Scheduler!Next]_(Scheduler!vars)
    BY SchedulerStep DEF Scheduler!vars, vars
  <1>3. QED
    BY <1>1, <1>2, DeliveryInductive, PTL DEF DeliverySpec, Scheduler!Spec

(* So no certificate on the server runs out for want of a check, and the   *)
(* server stops soon, whatever its client does and fails to do.            *)
THEOREM ServerInTime == DeliverySpec => [](InTime /\ StopsSoon)
  <1>1. DeliveryInv => InTime /\ StopsSoon
    BY InvInTime, InvStopsSoon DEF DeliveryInv
  <1>2. QED
    BY <1>1, DeliveryInductive, PTL
=============================================================================
