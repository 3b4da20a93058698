-------------------------- MODULE FrontSessionProofs --------------------------
(***************************************************************************)
(* Theorems about FrontSession, for any number of tabs and logins.  The    *)
(* invariant says where a token of a single login can be: once it left     *)
(* localStorage it is neither there again nor in an answer to a login on   *)
(* its way, and no two answers bring it.                                   *)
(***************************************************************************)
EXTENDS FrontSession, TLAPS

OnePlace ==
    /\ storage \in dropped => storage \in twice
    /\ \A t \in Tab : granted[t] \cap (dropped \cup {storage}) \subseteq twice
    /\ \A t, u \in Tab : t # u => granted[t] \cap granted[u] \subseteq twice

StorageIssued == storage \in issued \cup {NoToken}

IInv == TypeOK /\ StorageIssued /\ PagesGuarded /\ OnePlace

-----------------------------------------------------------------------------
(* Where a navigation leads, and that it keeps the types of what it sets.  *)
LEMMA NavigatesTypes ==
    ASSUME NEW t \in Tab, NEW to \in Work \cup {"login"}, NEW open \in SUBSET Maybe,
           TypeOK, store' \in [Tab -> Maybe], storage' \in Maybe,
           Navigates(t, to, open)
    PROVE  /\ page' \in [Tab -> Work \cup {"login", Closed}]
           /\ redirect' \in [Tab -> Work]
           /\ asked' \in [Tab -> SUBSET Maybe]
  <1>1. Lands(to, store'[t]) \in Work \cup {"login"}
    BY DEF Lands, Work
  <1>2. asked'[t] \subseteq Maybe /\ asked' = [asked EXCEPT ![t] = asked'[t]]
    BY DEF Navigates, Attached, TypeOK
  <1>3. redirect' = [redirect EXCEPT ![t] = redirect'[t]] /\ redirect'[t] \in Work
    BY DEF Navigates, TypeOK, Work
  <1>4. QED
    BY <1>1, <1>2, <1>3 DEF Navigates, TypeOK

(* The guard puts a tab on the page that fits its store.                   *)
LEMMA NavigatesGuarded ==
    ASSUME NEW t \in Tab, NEW to \in Work \cup {"login"}, NEW open,
           TypeOK, PagesGuarded, store' \in [Tab -> Maybe],
           \A u \in Tab \ {t} : store'[u] = store[u],
           Navigates(t, to, open)
    PROVE  PagesGuarded'
  <1>1. page'[t] = Lands(to, store'[t]) /\ \A u \in Tab \ {t} : page'[u] = page[u]
    BY DEF Navigates, TypeOK
  <1>2. /\ page'[t] \in Work => store'[t] # NoToken
        /\ page'[t] = "login" => store'[t] = NoToken
    BY <1>1 DEF Lands, Work
  <1>3. QED
    BY <1>1, <1>2 DEF PagesGuarded

(* What a navigation adds to the requests of a tab carries localStorage.   *)
LEMMA NavigatesAsks ==
    ASSUME NEW t \in Tab, NEW to, NEW open, TypeOK, open \subseteq asked[t],
           Navigates(t, to, open)
    PROVE  \A u \in Tab : asked'[u] \ asked[u] \subseteq {storage'}
  BY DEF Navigates, Attached, TypeOK

(* A step that puts into localStorage nothing, what is there already or a  *)
(* token this tab was granted, and takes that token out of its answers     *)
(* unless it is that of several, leaves every other token in one place.    *)
LEMMA PutKeepsOnePlace ==
    ASSUME NEW t \in Tab, NEW k \in Maybe, TypeOK, StorageIssued, OnePlace,
           k \in granted[t] \cup {storage, NoToken}, twice' = twice,
           \/ granted' = [granted EXCEPT ![t] = @ \ {k}]
           \/ k \in twice /\ UNCHANGED granted,
           Put(k)
    PROVE  OnePlace'
  <1> USE TokenAssumption DEF TypeOK
  <1>1. NoToken \notin dropped /\ \A u \in Tab : NoToken \notin granted[u]
    OBVIOUS
  <1>2. /\ storage' = k
        /\ dropped' = dropped \cup ({storage} \ {k, NoToken})
        /\ \A u \in Tab : granted'[u] \subseteq granted[u]
        /\ k \notin twice => k \notin granted'[t]
    BY DEF Put
  <1>3. storage' \in dropped' => storage' \in twice'
    BY <1>1, <1>2 DEF OnePlace
  <1>4. \A u \in Tab : k \in granted'[u] => k \in twice
    BY <1>1, <1>2 DEF OnePlace
  <1>5. ASSUME NEW u \in Tab
        PROVE  granted'[u] \cap (dropped' \cup {storage'}) \subseteq twice'
    BY <1>2, <1>4 DEF OnePlace
  <1>6. \A u, v \in Tab : u # v => granted'[u] \cap granted'[v] \subseteq twice'
    BY <1>2 DEF OnePlace
  <1>7. QED
    BY <1>3, <1>5, <1>6 DEF OnePlace

-----------------------------------------------------------------------------
LEMMA InitInv == Init => IInv
  BY TokenAssumption
  DEF Init, IInv, TypeOK, StorageIssued, PagesGuarded, OnePlace, Maybe, Work, Closed

LEMMA StepInv == IInv /\ [Next]_vars => IInv'
  <1> SUFFICES ASSUME IInv, [Next]_vars PROVE IInv'
    OBVIOUS
  <1> USE TokenAssumption DEF IInv
  <1>1. ASSUME NEW t \in Tab, Open(t) PROVE IInv'
    <2>1. /\ Persisted \in {storage, NoToken} /\ Persisted \in Maybe
          /\ store' \in [Tab -> Maybe]
          /\ \A u \in Tab \ {t} : store'[u] = store[u]
      BY <1>1 DEF Open, Persisted, TypeOK, Maybe
    <2>2. PICK to \in Work \cup {"login"} : Navigates(t, to, {})
      BY <1>1 DEF Open
    <2>3. storage' = Persisted /\ dropped' = dropped \cup ({storage} \ {Persisted, NoToken})
      BY <1>1 DEF Open, Put
    <2>4. UNCHANGED <<granted, issued, current, working, lapsed, twice>>
      BY <1>1 DEF Open, serverVars
    <2>5. TypeOK' /\ StorageIssued'
      <3>1. storage' \in Maybe
        BY <2>1, <2>3
      <3>2. dropped' \subseteq issued
        BY <2>3 DEF TypeOK, StorageIssued
      <3>3. QED
        BY <2>1, <2>2, <2>3, <2>4, <3>1, <3>2, NavigatesTypes DEF TypeOK, StorageIssued
    <2>6. PagesGuarded'
      BY <2>1, <2>2, NavigatesGuarded
    <2>7. Persisted \in granted[t] => Persisted \in twice
      BY <2>1 DEF OnePlace, TypeOK
    <2>8. \/ granted' = [granted EXCEPT ![t] = @ \ {Persisted}]
          \/ Persisted \in twice /\ UNCHANGED granted
      BY <2>4, <2>7 DEF TypeOK
    <2>9. Put(Persisted)
      BY <1>1 DEF Open
    <2>10. OnePlace'
      BY <2>1, <2>4, <2>8, <2>9, PutKeepsOnePlace
    <2>11. QED
      BY <2>5, <2>6, <2>10
  <1>2. ASSUME NEW t \in Tab, Close(t) PROVE IInv'
    <2>1. TypeOK' /\ StorageIssued'
      BY <1>2 DEF Close, serverVars, TypeOK, StorageIssued, Maybe, Work, Closed
    <2>2. PagesGuarded'
      BY <1>2 DEF Close, TypeOK, PagesGuarded, Work, Closed
    <2>3. OnePlace'
      BY <1>2 DEF Close, serverVars, TypeOK, OnePlace
    <2>4. QED
      BY <2>1, <2>2, <2>3
  <1>3. ASSUME NEW t \in Tab, Visit(t) PROVE IInv'
    <2>1. UNCHANGED <<storage, store, granted, dropped, issued, current, working, lapsed, twice>>
      BY <1>3 DEF Visit, serverVars
    <2>2. PICK to \in Work \cup {"login"} : Navigates(t, to, asked[t])
      BY <1>3 DEF Visit
    <2>3. asked[t] \in SUBSET Maybe /\ store' \in [Tab -> Maybe] /\ storage' \in Maybe
      BY <2>1 DEF TypeOK
    <2>4. TypeOK' /\ StorageIssued'
      BY <2>1, <2>2, <2>3, NavigatesTypes DEF TypeOK, StorageIssued
    <2>5. PagesGuarded'
      BY <2>1, <2>2, <2>3, NavigatesGuarded
    <2>6. OnePlace'
      BY <2>1 DEF OnePlace
    <2>7. QED
      BY <2>4, <2>5, <2>6
  <1>4. ASSUME NEW t \in Tab, Ask(t) PROVE IInv'
    BY <1>4 DEF Ask, Attached, serverVars, TypeOK, StorageIssued, PagesGuarded,
                OnePlace, Maybe
  <1>5. ASSUME NEW t \in Tab, Logout(t) PROVE IInv'
    <2>1. /\ storage' = NoToken /\ dropped' = dropped \cup ({storage} \ {NoToken})
          /\ UNCHANGED <<granted, issued, current, working, lapsed, twice>>
      BY <1>5 DEF Logout, Put, serverVars
    <2>2. /\ store' \in [Tab -> Maybe] /\ asked[t] \in SUBSET Maybe
          /\ \A u \in Tab \ {t} : store'[u] = store[u]
          /\ Navigates(t, "login", asked[t])
      BY <1>5 DEF Logout, TypeOK, Maybe
    <2>3. NoToken \in Maybe /\ dropped' \subseteq issued
      BY <2>1 DEF Maybe, TypeOK, StorageIssued
    <2>4. TypeOK' /\ StorageIssued'
      BY <2>1, <2>2, <2>3, NavigatesTypes DEF TypeOK, StorageIssued
    <2>5. PagesGuarded'
      BY <2>2, NavigatesGuarded
    <2>6. granted' = [granted EXCEPT ![t] = @ \ {NoToken}]
      BY <2>1 DEF TypeOK
    <2>7. OnePlace'
      BY <1>5, <2>1, <2>3, <2>6, PutKeepsOnePlace DEF Logout
    <2>8. QED
      BY <2>4, <2>5, <2>7
  <1>6. ASSUME NEW t \in Tab, Login(t) PROVE IInv'
    <2>1. PICK k \in IF current = NoToken THEN Token \ issued ELSE {current} :
            /\ issued' = issued \cup {k} /\ working' = working \cup {k}
            /\ current' = k /\ twice' = twice \cup ({k} \cap issued)
            /\ granted' = [granted EXCEPT ![t] = @ \cup {k}]
      BY <1>6 DEF Login
    <2>2. UNCHANGED <<storage, store, page, redirect, asked, lapsed, dropped>>
      BY <1>6 DEF Login
    <2>3. k \in Token /\ k \notin lapsed
      BY <2>1 DEF TypeOK
    <2>4. TypeOK' /\ StorageIssued' /\ PagesGuarded'
      BY <2>1, <2>2, <2>3 DEF TypeOK, StorageIssued, PagesGuarded
    <2>5. \/ k \in twice'
          \/ k \notin dropped \cup {storage} /\ \A u \in Tab : k \notin granted[u]
      BY <2>1, <2>3 DEF TypeOK, StorageIssued
    <2>6. OnePlace'
      BY <2>1, <2>2, <2>5 DEF OnePlace, TypeOK
    <2>7. QED
      BY <2>4, <2>6
  <1>7. ASSUME NEW t \in Tab, LoginAnswered(t) PROVE IInv'
    <2>1. PICK k \in granted[t] : /\ Put(k)
                                  /\ store' = [store EXCEPT ![t] = k]
                                  /\ \/ granted' = [granted EXCEPT ![t] = @ \ {k}]
                                     \/ k \in twice /\ UNCHANGED granted
      BY <1>7 DEF LoginAnswered
    <2> DEFINE to == IF page[t] = "login" THEN redirect[t] ELSE "download"
    <2>2. /\ Navigates(t, to, asked[t]) /\ to \in Work \cup {"login"}
          /\ UNCHANGED <<issued, current, working, lapsed, twice>>
      BY <1>7 DEF LoginAnswered, serverVars, TypeOK, Work
    <2>3. /\ k \in issued /\ k \in Maybe /\ asked[t] \in SUBSET Maybe
          /\ granted' \in [Tab -> SUBSET issued]
      BY <2>1 DEF TypeOK, Maybe
    <2>4. storage' = k /\ dropped' \subseteq issued
      BY <2>1 DEF Put, TypeOK, StorageIssued
    <2>5. store' \in [Tab -> Maybe] /\ \A u \in Tab \ {t} : store'[u] = store[u]
      BY <2>1, <2>3 DEF TypeOK
    <2> HIDE DEF to
    <2>6. TypeOK' /\ StorageIssued'
      BY <2>2, <2>3, <2>4, <2>5, NavigatesTypes DEF TypeOK, StorageIssued
    <2>7. PagesGuarded'
      BY <2>2, <2>5, NavigatesGuarded
    <2>8. OnePlace'
      BY <2>1, <2>2, <2>3, PutKeepsOnePlace
    <2>9. QED
      BY <2>6, <2>7, <2>8
  <1>8. ASSUME NEW t \in Tab, LoginFails(t) PROVE IInv'
    <2>1. TypeOK' /\ StorageIssued' /\ PagesGuarded'
      BY <1>8 DEF LoginFails, serverVars, TypeOK, StorageIssued, PagesGuarded
    <2>2. OnePlace'
      BY <1>8 DEF LoginFails, serverVars, OnePlace, TypeOK
    <2>3. QED
      BY <2>1, <2>2
  <1>9. ASSUME NEW t \in Tab, Answered(t) PROVE IInv'
    BY <1>9 DEF Answered, serverVars, TypeOK, StorageIssued, PagesGuarded, OnePlace
  <1>10. ASSUME NEW t \in Tab, Refused(t) PROVE IInv'
    <2>1. PICK open \in SUBSET asked[t] :
            IF page[t] = "login"
            THEN /\ asked' = [asked EXCEPT ![t] = open]
                 /\ UNCHANGED <<page, redirect>>
            ELSE Navigates(t, "login", open)
      BY <1>10 DEF Refused
    <2>2. Put(NoToken) /\ UNCHANGED <<store, granted, issued, current, working, lapsed, twice>>
      BY <1>10 DEF Refused, serverVars
    <2>3. /\ storage' = NoToken /\ storage' \in Maybe /\ dropped' \subseteq issued
          /\ store' \in [Tab -> Maybe] /\ open \in SUBSET Maybe
      BY <2>1, <2>2 DEF Put, TypeOK, StorageIssued, Maybe
    <2>4. /\ page' \in [Tab -> Work \cup {"login", Closed}]
          /\ redirect' \in [Tab -> Work]
          /\ asked' \in [Tab -> SUBSET Maybe]
          /\ PagesGuarded'
      <3>1. CASE page[t] = "login"
        BY <2>1, <2>2, <3>1 DEF TypeOK, PagesGuarded
      <3>2. CASE page[t] # "login"
        BY <2>1, <2>2, <2>3, <3>2, NavigatesTypes, NavigatesGuarded
      <3>3. QED
        BY <3>1, <3>2
    <2>5. TypeOK' /\ StorageIssued'
      BY <2>2, <2>3, <2>4 DEF TypeOK, StorageIssued
    <2>6. granted' = [granted EXCEPT ![t] = @ \ {NoToken}] /\ NoToken \in Maybe
      BY <2>2 DEF TypeOK, Maybe
    <2>7. OnePlace'
      BY <2>2, <2>6, PutKeepsOnePlace
    <2>8. QED
      BY <2>4, <2>5, <2>7
  <1>11. CASE Second \/ Lapse \/ Rekey
    BY <1>11 DEF Second, Lapse, Rekey, tabVars, TypeOK, StorageIssued, PagesGuarded, OnePlace
  <1>12. CASE UNCHANGED vars
    BY <1>12 DEF vars, tabVars, serverVars, TypeOK, StorageIssued, PagesGuarded, OnePlace
  <1>13. QED
    BY <1>1, <1>2, <1>3, <1>4, <1>5, <1>6, <1>7, <1>8, <1>9, <1>10, <1>11, <1>12
    DEF Next

LEMMA Invariant == Spec => []IInv
  BY InitInv, StepInv, PTL DEF Spec

(* TypeOK: the session stays within its types, and a token that works has  *)
(* been issued and is in its eight hours.                                  *)
THEOREM TypeCorrect == Spec => []TypeOK
  BY Invariant, PTL DEF IInv

(* PagesGuarded: through every bounce, logout and late answer, a work page *)
(* is shown only by a tab whose store has a token.                         *)
THEOREM PagesGuardedHolds == Spec => []PagesGuarded
  BY Invariant, PTL DEF IInv

(* LoggedOutEverywhere: no tab sends a token that has left localStorage,   *)
(* unless several logins were given it.  What a request carries is in      *)
(* localStorage when the step ends, and a token of one login dropped       *)
(* before is not: it was neither there nor granted.                        *)
THEOREM LoggedOutEverywhereHolds == Spec => LoggedOutEverywhere
  <1> DEFINE Sends == \A t \in Tab : (asked'[t] \ asked[t]) \cap dropped \subseteq twice
  <1>1. IInv /\ IInv' /\ [Next]_vars => Sends
    <2> SUFFICES ASSUME IInv, IInv', Next \/ UNCHANGED vars PROVE Sends
      OBVIOUS
    <2>1. \/ storage' \in dropped => storage' \in twice
          \/ UNCHANGED asked
      <3>1. dropped \subseteq dropped' /\ (twice' = twice \/ UNCHANGED asked)
        BY DEF Next, Open, Close, Visit, Ask, Logout, Login, LoginAnswered, LoginFails,
               Answered, Refused, Second, Lapse, Rekey, Put, vars, tabVars, serverVars
      <3>2. QED
        BY <3>1 DEF IInv, OnePlace
    <2>2. ASSUME NEW u \in Tab PROVE asked'[u] \ asked[u] \subseteq {storage'}
      <3>1. ASSUME NEW t \in Tab, Open(t) \/ Visit(t) \/ Logout(t) \/ LoginAnswered(t)
            PROVE  asked'[u] \ asked[u] \subseteq {storage'}
        <4>1. PICK to : Navigates(t, to, {}) \/ Navigates(t, to, asked[t])
          <5>1. CASE Open(t)
            BY <5>1 DEF Open
          <5>2. CASE Visit(t)
            BY <5>2 DEF Visit
          <5>3. CASE Logout(t)
            BY <5>3 DEF Logout
          <5>4. CASE LoginAnswered(t)
            BY <5>4 DEF LoginAnswered
          <5>5. QED
            BY <3>1, <5>1, <5>2, <5>3, <5>4
        <4>2. QED
          BY <4>1, NavigatesAsks DEF IInv
      <3>2. ASSUME NEW t \in Tab, Refused(t)
            PROVE  asked'[u] \ asked[u] \subseteq {storage'}
        <4>1. PICK open \in SUBSET asked[t] :
                \/ asked' = [asked EXCEPT ![t] = open]
                \/ Navigates(t, "login", open)
          BY <3>2 DEF Refused
        <4>2. QED
          BY <4>1, NavigatesAsks DEF IInv, TypeOK
      <3>3. ASSUME NEW t \in Tab, Close(t) \/ Ask(t) \/ Answered(t)
            PROVE  asked'[u] \ asked[u] \subseteq {storage'}
        BY <3>3 DEF Close, Ask, Answered, Attached, IInv, TypeOK
      <3>4. ASSUME NEW t \in Tab, Login(t) \/ LoginFails(t)
            PROVE  asked'[u] \ asked[u] \subseteq {storage'}
        BY <3>4 DEF Login, LoginFails
      <3>5. CASE Second \/ Lapse \/ Rekey \/ UNCHANGED vars
        BY <3>5 DEF Second, Lapse, Rekey, vars, tabVars
      <3>6. QED
        BY <3>1, <3>2, <3>3, <3>4, <3>5 DEF Next
    <2>3. QED
      BY <2>1, <2>2
  <1>2. QED
    BY <1>1, Invariant, PTL DEF Spec, LoggedOutEverywhere

(* WorkingKept: a session that works ends by a logout or by the refusal of *)
(* another token only.                                                     *)
THEOREM WorkingKeptHolds == Spec => WorkingKept
  <1> DEFINE Kept == (storage \in working /\ storage' = NoToken) =>
          \E t \in Tab : Logout(t) \/ (Refused(t) /\ asked[t] \ {storage} # {})
  <1>1. IInv /\ [Next]_vars => Kept
    <2> SUFFICES ASSUME IInv, Next \/ UNCHANGED vars,
                        storage \in working, storage' = NoToken
                 PROVE  \E t \in Tab : Logout(t) \/ (Refused(t) /\ asked[t] \ {storage} # {})
      OBVIOUS
    <2>1. storage \notin lapsed /\ storage # NoToken
      BY TokenAssumption DEF IInv, TypeOK
    <2>2. ASSUME NEW t \in Tab, Open(t) PROVE FALSE
      BY <2>1, <2>2 DEF Open, Put, Persisted
    <2>3. ASSUME NEW t \in Tab, LoginAnswered(t) PROVE FALSE
      BY <2>3, TokenAssumption DEF LoginAnswered, Put, IInv, TypeOK
    <2>4. ASSUME NEW t \in Tab, Refused(t) PROVE asked[t] \ {storage} # {}
      BY <2>4 DEF Refused
    <2>5. ASSUME NEW t \in Tab, Close(t) \/ Visit(t) \/ Ask(t) \/ Login(t)
                                \/ LoginFails(t) \/ Answered(t)
          PROVE  FALSE
      BY <2>1, <2>5 DEF Close, Visit, Ask, Login, LoginFails, Answered
    <2>6. CASE Second \/ Lapse \/ Rekey \/ UNCHANGED vars
      BY <2>1, <2>6 DEF Second, Lapse, Rekey, vars, tabVars
    <2>7. QED
      BY <2>2, <2>3, <2>4, <2>5, <2>6 DEF Next
  <1>2. QED
    BY <1>1, Invariant, PTL DEF Spec, WorkingKept
=============================================================================
