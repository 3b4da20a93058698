---------------------------- MODULE RenewalProofs ----------------------------
(***************************************************************************)
(* Proofs about Renewal, for every set of requests: the CNAME variable    *)
(* and the mutex are not left behind; the settings and waits of a renewal  *)
(* that overlaps with no other are its own, and it does not harm the       *)
(* process; a check that overlaps with no other of its certificate         *)
(* overwrites no fresh one.  The scheduler alone, one goroutine, overlaps  *)
(* with nothing.                                                           *)
(***************************************************************************)
EXTENDS Renewal, TLAPS

LEMMA ProcFacts == Scheduler \in Proc /\ Request \subseteq Proc
BY DEF Proc

(* The state a process starts in, and falls back to when it dies.          *)
LEMMA IdleTypes ==
    /\ IdleRequest \in ExpireRequests
    /\ [q \in Request |-> IdleRequest] \in [Request -> ExpireRequests]
    /\ [p \in Proc |-> "idle"] \in [Proc -> Place]
    /\ [p \in Proc |-> NoAlias] \in [Proc -> Alias \cup {NoAlias}]
    /\ [p \in Proc |-> "none"] \in [Proc -> Expiry]
    /\ [p \in Proc |-> 0] \in [Proc -> 0..MaxDomains]
    /\ [p \in Proc |-> "unread"] \in [Proc -> {"unread", "disabled", "enabled"}]
    /\ NewOnce \in [done : BOOLEAN, locked : BOOLEAN, waiters : Nat, woken : BOOLEAN]
<1>1. IdleRequest \in ExpireRequests
  BY DEF IdleRequest, ExpireRequests
<1>2. [q \in Request |-> IdleRequest] \in [Request -> ExpireRequests]
  BY <1>1
<1>3. QED
  BY <1>1, <1>2, RenewalAssumption DEF Place, Expiry, NewOnce

LEMMA DieTypes ==
    ASSUME TypeOK, NEW cause \in {"killed", "panic", "fatal"}, Die(cause)
    PROVE  TypeOK'
<1>1. /\ dead' \in {"no", "killed", "panic", "fatal"}
      /\ disk' \in [Alias -> Expiry]
      /\ round' \subseteq Alias
      /\ waited' \subseteq Proc /\ mixed' \subseteq Proc /\ met' \subseteq Proc
      /\ noCname' \in BOOLEAN /\ project' \in Alias \cup {NoAlias} /\ once' = NewOnce
  BY DEF Die, TypeOK
<1>2. /\ request' = [q \in Request |-> IdleRequest]
      /\ pc' = [p \in Proc |-> "idle"]
      /\ alias' = [p \in Proc |-> NoAlias]
      /\ local' = [p \in Proc |-> "none"]
      /\ left' = [p \in Proc |-> 0]
      /\ cname' = [p \in Proc |-> "unread"]
      /\ made' = [p \in Proc |-> NoAlias]
  BY DEF Die
<1>3. \A p \in Proc : pc'[p] = "idle" /\ alias'[p] = NoAlias
  BY <1>2
<1>4. \A p \in Proc : ~(pc'[p] \in Challenges)
  BY <1>3 DEF Challenges, OnceDo
<1>5. QED
  BY <1>1, <1>2, <1>3, <1>4, IdleTypes DEF TypeOK

(* The once, with its mutex locked, slept for or unlocked, is one.         *)
LEMMA OnceTypes ==
    ASSUME TypeOK, NEW p \in Proc,
           OnceLock(p) \/ OncePark(p) \/ OnceUnlock(p) \/ OnceHandOver(p)
    PROVE  once' \in [done : BOOLEAN, locked : BOOLEAN, waiters : Nat, woken : BOOLEAN]
<1>1. /\ once.waiters \in Nat
      /\ (IF pc[p] = "lock" THEN once.woken ELSE FALSE) \in BOOLEAN
  BY DEF TypeOK
<1>2. CASE OnceLock(p)
  <2>1. PICK b \in BOOLEAN : once' = [once EXCEPT !.locked = TRUE, !.woken = b]
    BY <1>1, <1>2 DEF OnceLock
  <2>2. QED
    BY <2>1 DEF TypeOK
<1>3. CASE OncePark(p)
  <2>1. PICK b \in BOOLEAN, n \in Nat :
           once' = [once EXCEPT !.waiters = n, !.woken = b]
    <3>1. once.waiters + 1 \in Nat
      BY <1>1
    <3>2. QED
      BY <1>1, <1>3, <3>1 DEF OncePark
  <2>2. QED
    BY <2>1 DEF TypeOK
<1>4. CASE OnceUnlock(p)
  <2>1. once' = [once EXCEPT !.locked = FALSE]
    BY <1>4 DEF OnceUnlock
  <2>2. QED
    BY <2>1 DEF TypeOK
<1>5. CASE OnceHandOver(p)
  <2>1. PICK n \in Nat :
           once' = [once EXCEPT !.locked = FALSE, !.waiters = n, !.woken = TRUE]
    <3>1. once.waiters - 1 \in Nat
      BY <1>1, <1>5 DEF OnceHandOver
    <3>2. QED
      BY <1>5, <3>1 DEF OnceHandOver
  <2>2. QED
    BY <2>1 DEF TypeOK
<1>6. QED
  BY <1>2, <1>3, <1>4, <1>5

(* Every step preserves the types.                                         *)
LEMMA TypeStep == TypeOK /\ [Next]_vars => TypeOK'
<1> SUFFICES ASSUME TypeOK, [Next]_vars PROVE TypeOK'
  OBVIOUS
<1> USE RenewalAssumption, ProcFacts
    DEF TypeOK, Expiry, Place, Renewing, Challenges, OnceDo, vars, goroutines, own,
        shared, elsewhere
<1>1. CASE RoundBegin
  BY <1>1 DEF RoundBegin
<1>2. CASE RoundNext
  BY <1>2 DEF RoundNext, Start
<1>3. ASSUME NEW p \in Proc, Check(p) PROVE TypeOK'
  <2>1. CASE Skip(p)
    BY <2>1 DEF Skip, Return
  <2>2. CASE ReadLocal(p)
    BY <2>2 DEF ReadLocal, Goto
  <2>3. CASE DecideRenew(p)
    BY <2>3 DEF DecideRenew, Goto
  <2>4. CASE DecideValid(p)
    BY <2>4 DEF DecideValid, Return
  <2>5. QED
    BY <1>3, <2>1, <2>2, <2>3, <2>4 DEF Check
<1>4. ASSUME NEW p \in Proc, Renew(p) PROVE TypeOK'
  <2>1. CASE RejectConfig(p)
    BY <2>1 DEF RejectConfig, Return
  <2>2. CASE SetEnv(p)
    BY <2>2 DEF SetEnv, Goto
  <2>3. CASE ResetOnce(p)
    BY <2>3, IdleTypes DEF ResetOnce, Goto
  <2>4. CASE Setup(p)
    BY <2>4 DEF Setup, Goto
  <2>5. CASE MakeProvider(p)
    BY <2>5 DEF MakeProvider, Goto
  <2>6. CASE Challenge(p)
    BY <2>6 DEF Challenge, Goto
  <2>7. CASE OnceTest(p)
    BY <2>7 DEF OnceTest, Goto
  <2>8. CASE OnceLock(p)
    <3>1. once' \in [done : BOOLEAN, locked : BOOLEAN, waiters : Nat, woken : BOOLEAN]
      BY <2>8, OnceTypes
    <3>2. QED
      BY <2>8, <3>1 DEF OnceLock, Tries, Goto
  <2>9. CASE OncePark(p)
    <3>1. once' \in [done : BOOLEAN, locked : BOOLEAN, waiters : Nat, woken : BOOLEAN]
      BY <2>9, OnceTypes
    <3>2. QED
      BY <2>9, <3>1 DEF OncePark, Tries, Goto
  <2>10. CASE Sleep(p)
    BY <2>10 DEF Sleep, Goto
  <2>11. CASE OnceUnlock(p)
    <3>1. once' \in [done : BOOLEAN, locked : BOOLEAN, waiters : Nat, woken : BOOLEAN]
      BY <2>11, OnceTypes
    <3>2. QED
      BY <2>11, <3>1 DEF OnceUnlock, Goto
  <2>12. CASE OnceHandOver(p)
    <3>1. once' \in [done : BOOLEAN, locked : BOOLEAN, waiters : Nat, woken : BOOLEAN]
      BY <2>12, OnceTypes
    <3>2. QED
      BY <2>12, <3>1 DEF OnceHandOver
  <2>13. CASE Fatal(p)
    BY <2>13, DieTypes DEF Fatal
  <2>14. CASE Poll(p)
    BY <2>14 DEF Poll, Goto
  <2>15. CASE Obtain(p)
    BY <2>15 DEF Obtain, Goto
  <2>16. CASE RenewFails(p)
    BY <2>16 DEF RenewFails, Goto
  <2>17. CASE SaveTruncate(p)
    BY <2>17 DEF SaveTruncate, Goto
  <2>18. CASE SaveFill(p)
    BY <2>18 DEF SaveFill, Goto
  <2>19. CASE SaveRest(p)
    BY <2>19 DEF SaveRest, Goto
  <2>20. CASE SaveFails(p)
    BY <2>20 DEF SaveFails, Goto
  <2>21. CASE UnsetEnv(p)
    BY <2>21 DEF UnsetEnv, Return
  <2>22. QED
    BY <1>4, <2>1, <2>2, <2>3, <2>4, <2>5, <2>6, <2>7, <2>8, <2>9, <2>10,
       <2>11, <2>12, <2>13, <2>14, <2>15, <2>16, <2>17, <2>18, <2>19, <2>20, <2>21 DEF Renew
<1>5. ASSUME NEW q \in Request, Expire(q) PROVE TypeOK'
  <2>0. request[q] \in ExpireRequests
    OBVIOUS
  <2>1. ASSUME NEW a \in Asked, NEW remote \in {"absent", "fresh", "due"},
               ExpireMiss(q, a, remote)
        PROVE  TypeOK'
    <3>1. [at |-> IF remote = "fresh" THEN "answer" ELSE "spawn",
           alias |-> a, given |-> remote # "absent"] \in ExpireRequests
      BY DEF ExpireRequests
    <3>2. request' \in [Request -> ExpireRequests]
      BY <2>1, <3>1 DEF ExpireMiss
    <3>3. QED
      BY <2>1, <3>2 DEF ExpireMiss
  <2>2. CASE ExpireSpawn(q)
    <3>1. [at |-> "answer", alias |-> request[q].alias,
           given |-> request[q].given] \in ExpireRequests
      BY <2>0, <2>2 DEF ExpireSpawn, ExpireRequests, IdleRequest
    <3>2. request' \in [Request -> ExpireRequests]
      BY <2>2, <3>1 DEF ExpireSpawn
    <3>3. request[q].alias \in Alias
      BY <2>0, <2>2 DEF ExpireSpawn, ExpireRequests, IdleRequest
    <3>4. QED
      BY <2>2, <3>2, <3>3 DEF ExpireSpawn, Start
  <2>3. CASE ExpireAnswer(q)
    <3>1. request' \in [Request -> ExpireRequests]
      BY <2>3, IdleTypes DEF ExpireAnswer
    <3>2. QED
      BY <2>3, <3>1 DEF ExpireAnswer
  <2>4. CASE ExpirePanic(q)
    BY <2>4, DieTypes DEF ExpirePanic
  <2>5. QED
    BY <1>5, <2>1, <2>2, <2>3, <2>4 DEF Expire
<1>6. ASSUME NEW a \in Alias, ComesDue(a) PROVE TypeOK'
  BY <1>6 DEF ComesDue
<1>7. CASE Crash
  BY <1>7, DieTypes DEF Crash
<1>8. CASE Restart
  BY <1>8 DEF Restart
<1>9. CASE UNCHANGED vars
  BY <1>9
<1>10. QED
  BY <1>1, <1>2, <1>3, <1>4, <1>5, <1>6, <1>7, <1>8, <1>9 DEF Next

LEMMA InitTypes == Init => TypeOK
<1> SUFFICES ASSUME Init PROVE TypeOK
  OBVIOUS
<1>1. /\ \A p \in Proc : pc[p] = "idle" /\ alias[p] = NoAlias
      /\ \A p \in Proc : ~(pc[p] \in Challenges)
  BY DEF Init, Challenges, OnceDo
<1>2. QED
  BY <1>1, IdleTypes DEF Init, TypeOK

(* The state stays within its types (TypeOK).                              *)
THEOREM TypeCorrect == Spec => []TypeOK
BY InitTypes, TypeStep, PTL DEF Spec

-----------------------------------------------------------------------------
(* The CNAME variable and the mutex, whatever renewals overlap.            *)

(* An expire request that is about to start its goroutine has none yet.    *)
SpawnIdle == \A q \in Request : request[q].at = "spawn" => pc[q] = "idle"

IInv == TypeOK /\ SpawnIdle /\ CnameAndMutexFreed

(* A step that neither sets the variable nor locks the mutex, and takes no *)
(* goroutine out of the stretch in which it would undo either.             *)
LEMMA StaysFreed ==
    ASSUME CnameAndMutexFreed, noCname' => noCname, once'.locked => once.locked,
           \A p \in Proc : alias[p] \in DisableCname /\ pc[p] \in Renewing
               => alias'[p] = alias[p] /\ pc'[p] \in Renewing,
           \A p \in Proc : pc[p] \in {"sleep", "unlock"}
               => pc'[p] \in {"sleep", "unlock"}
    PROVE  CnameAndMutexFreed'
BY DEF CnameAndMutexFreed

LEMMA DieFrees ==
    ASSUME NEW cause, Die(cause) PROVE SpawnIdle' /\ CnameAndMutexFreed'
BY DEF Die, SpawnIdle, CnameAndMutexFreed, IdleRequest, NewOnce

LEMMA CheckFrees ==
    ASSUME IInv, NEW p \in Proc, Check(p)
    PROVE  SpawnIdle' /\ CnameAndMutexFreed'
<1> USE DEF IInv, TypeOK, SpawnIdle, elsewhere, shared, own
<1>1. CASE Skip(p)
  <2>1. SpawnIdle'
    BY <1>1 DEF Skip, Return
  <2>2. CnameAndMutexFreed'
    BY <1>1, StaysFreed DEF Skip, Return, Renewing, Challenges, OnceDo
  <2>3. QED
    BY <2>1, <2>2
<1>2. CASE ReadLocal(p)
  <2>1. SpawnIdle'
    BY <1>2 DEF ReadLocal, Goto
  <2>2. CnameAndMutexFreed'
    BY <1>2, StaysFreed DEF ReadLocal, Goto, Renewing, Challenges, OnceDo
  <2>3. QED
    BY <2>1, <2>2
<1>3. CASE DecideRenew(p)
  <2>1. SpawnIdle'
    BY <1>3 DEF DecideRenew, Goto
  <2>2. CnameAndMutexFreed'
    BY <1>3, StaysFreed DEF DecideRenew, Goto, Renewing, Challenges, OnceDo
  <2>3. QED
    BY <2>1, <2>2
<1>4. CASE DecideValid(p)
  <2>1. SpawnIdle'
    BY <1>4 DEF DecideValid, Return
  <2>2. CnameAndMutexFreed'
    BY <1>4, StaysFreed DEF DecideValid, Return, Renewing, Challenges, OnceDo
  <2>3. QED
    BY <2>1, <2>2
<1>5. QED
  BY <1>1, <1>2, <1>3, <1>4 DEF Check

LEMMA RenewFrees ==
    ASSUME IInv, NEW p \in Proc, Renew(p)
    PROVE  SpawnIdle' /\ CnameAndMutexFreed'
<1> USE DEF IInv, TypeOK, SpawnIdle, elsewhere, shared, own
<1>1. CASE RejectConfig(p)
  <2>1. SpawnIdle'
    BY <1>1 DEF RejectConfig, Return
  <2>2. CnameAndMutexFreed'
    BY <1>1, StaysFreed DEF RejectConfig, Return, Renewing, Challenges, OnceDo
  <2>3. QED
    BY <2>1, <2>2
<1>2. CASE ResetOnce(p)
  <2>1. SpawnIdle'
    BY <1>2 DEF ResetOnce, Goto, NewOnce
  <2>2. CnameAndMutexFreed'
    BY <1>2, StaysFreed DEF ResetOnce, Goto, NewOnce, Renewing, Challenges, OnceDo
  <2>3. QED
    BY <2>1, <2>2
<1>3. CASE Setup(p)
  <2>1. SpawnIdle'
    BY <1>3 DEF Setup, Goto
  <2>2. CnameAndMutexFreed'
    BY <1>3, StaysFreed DEF Setup, Goto, Renewing, Challenges, OnceDo
  <2>3. QED
    BY <2>1, <2>2
<1>4. CASE MakeProvider(p)
  <2>1. SpawnIdle'
    BY <1>4 DEF MakeProvider, Goto
  <2>2. CnameAndMutexFreed'
    BY <1>4, StaysFreed DEF MakeProvider, Goto, Renewing, Challenges, OnceDo
  <2>3. QED
    BY <2>1, <2>2
<1>5. CASE Challenge(p)
  <2>1. SpawnIdle'
    BY <1>5 DEF Challenge, Goto
  <2>2. CnameAndMutexFreed'
    BY <1>5, StaysFreed DEF Challenge, Goto, Renewing, Challenges, OnceDo
  <2>3. QED
    BY <2>1, <2>2
<1>6. CASE OnceTest(p)
  <2>1. SpawnIdle'
    BY <1>6 DEF OnceTest, Goto
  <2>2. CnameAndMutexFreed'
    BY <1>6, StaysFreed DEF OnceTest, Goto, Renewing, Challenges, OnceDo
  <2>3. QED
    BY <2>1, <2>2
<1>7. CASE OncePark(p)
  <2>1. SpawnIdle'
    BY <1>7 DEF OncePark, Tries, Goto
  <2>2. CnameAndMutexFreed'
    BY <1>7, StaysFreed DEF OncePark, Tries, Goto, Renewing, Challenges, OnceDo
  <2>3. QED
    BY <2>1, <2>2
<1>8. CASE Sleep(p)
  <2>1. SpawnIdle'
    BY <1>8 DEF Sleep, Goto
  <2>2. CnameAndMutexFreed'
    BY <1>8, StaysFreed DEF Sleep, Goto, Renewing, Challenges, OnceDo
  <2>3. QED
    BY <2>1, <2>2
<1>9. CASE Poll(p)
  <2>1. SpawnIdle'
    BY <1>9 DEF Poll, Goto
  <2>2. CnameAndMutexFreed'
    BY <1>9, StaysFreed DEF Poll, Goto, Renewing, Challenges, OnceDo
  <2>3. QED
    BY <2>1, <2>2
<1>10. CASE Obtain(p)
  <2>1. SpawnIdle'
    BY <1>10 DEF Obtain, Goto
  <2>2. CnameAndMutexFreed'
    BY <1>10, StaysFreed DEF Obtain, Goto, Renewing, Challenges, OnceDo
  <2>3. QED
    BY <2>1, <2>2
<1>11. CASE RenewFails(p)
  <2>1. SpawnIdle'
    BY <1>11 DEF RenewFails, Goto
  <2>2. CnameAndMutexFreed'
    BY <1>11, StaysFreed DEF RenewFails, Goto, Renewing, Challenges, OnceDo
  <2>3. QED
    BY <2>1, <2>2
<1>12. CASE SaveTruncate(p)
  <2>1. SpawnIdle'
    BY <1>12 DEF SaveTruncate, Goto
  <2>2. CnameAndMutexFreed'
    BY <1>12, StaysFreed DEF SaveTruncate, Goto, Renewing, Challenges, OnceDo
  <2>3. QED
    BY <2>1, <2>2
<1>13. CASE SaveFill(p)
  <2>1. SpawnIdle'
    BY <1>13 DEF SaveFill, Goto
  <2>2. CnameAndMutexFreed'
    BY <1>13, StaysFreed DEF SaveFill, Goto, Renewing, Challenges, OnceDo
  <2>3. QED
    BY <2>1, <2>2
<1>14. CASE SaveRest(p)
  <2>1. SpawnIdle'
    BY <1>14 DEF SaveRest, Goto
  <2>2. CnameAndMutexFreed'
    BY <1>14, StaysFreed DEF SaveRest, Goto, Renewing, Challenges, OnceDo
  <2>3. QED
    BY <2>1, <2>2
<1>15. CASE SaveFails(p)
  <2>1. SpawnIdle'
    BY <1>15 DEF SaveFails, Goto
  <2>2. CnameAndMutexFreed'
    BY <1>15, StaysFreed DEF SaveFails, Goto, Renewing, Challenges, OnceDo
  <2>3. QED
    BY <2>1, <2>2
<1>16. CASE SetEnv(p)
  <2>1. SpawnIdle'
    BY <1>16 DEF SetEnv, Goto
  <2>2. CnameAndMutexFreed'
    BY <1>16 DEF SetEnv, Goto, Renewing, Challenges, OnceDo, CnameAndMutexFreed
  <2>3. QED
    BY <2>1, <2>2
<1>17. CASE OnceLock(p)
  <2>1. SpawnIdle'
    BY <1>17 DEF OnceLock, Tries, Goto
  <2>2. CnameAndMutexFreed'
    BY <1>17 DEF OnceLock, Tries, Goto, Renewing, Challenges, OnceDo, CnameAndMutexFreed
  <2>3. QED
    BY <2>1, <2>2
<1>18. CASE OnceUnlock(p)
  <2>1. SpawnIdle'
    BY <1>18 DEF OnceUnlock, Goto
  <2>2. CnameAndMutexFreed'
    BY <1>18 DEF OnceUnlock, Goto, Renewing, Challenges, OnceDo, CnameAndMutexFreed
  <2>3. QED
    BY <2>1, <2>2
<1>19. CASE OnceHandOver(p)
  <2>0. PICK s \in Proc : pc[s] = "parked" /\ pc' = [pc EXCEPT ![p] = "poll", ![s] = "woken"]
    BY <1>19 DEF OnceHandOver
  <2>1. SpawnIdle'
    BY <1>19, <2>0, ProcFacts DEF OnceHandOver
  <2>2. CnameAndMutexFreed'
    BY <1>19 DEF OnceHandOver, Renewing, Challenges, OnceDo, CnameAndMutexFreed
  <2>3. QED
    BY <2>1, <2>2
<1>20. CASE UnsetEnv(p)
  <2>1. SpawnIdle'
    BY <1>20 DEF UnsetEnv, Return
  <2>2. CnameAndMutexFreed'
    BY <1>20 DEF UnsetEnv, Return, Renewing, Challenges, OnceDo, CnameAndMutexFreed
  <2>3. QED
    BY <2>1, <2>2
<1>21. CASE Fatal(p)
  BY <1>21, DieFrees DEF Fatal
<1>22. QED
  BY <1>1, <1>2, <1>3, <1>4, <1>5, <1>6, <1>7, <1>8, <1>9, <1>10, <1>11,
     <1>12, <1>13, <1>14, <1>15, <1>16, <1>17, <1>18, <1>19, <1>20, <1>21
     DEF Renew

LEMMA ExpireFrees ==
    ASSUME IInv, NEW q \in Request, Expire(q)
    PROVE  SpawnIdle' /\ CnameAndMutexFreed'
<1> USE ProcFacts DEF IInv, TypeOK, elsewhere, goroutines, shared, own
<1>1. ASSUME NEW a \in Asked, NEW remote \in {"absent", "fresh", "due"},
             ExpireMiss(q, a, remote)
      PROVE  SpawnIdle' /\ CnameAndMutexFreed'
  <2>1. SpawnIdle'
    BY <1>1 DEF ExpireMiss, SpawnIdle
  <2>2. CnameAndMutexFreed'
    BY <1>1, StaysFreed DEF ExpireMiss
  <2>3. QED
    BY <2>1, <2>2
<1>2. CASE ExpireSpawn(q)
  <2>1. pc[q] = "idle"
    BY <1>2 DEF ExpireSpawn, SpawnIdle
  <2>2. SpawnIdle'
    BY <1>2, <2>1 DEF ExpireSpawn, Start, SpawnIdle
  <2>3. CnameAndMutexFreed'
    BY <1>2, <2>1, StaysFreed DEF ExpireSpawn, Start, Renewing, Challenges, OnceDo
  <2>4. QED
    BY <2>2, <2>3
<1>3. CASE ExpireAnswer(q)
  <2>1. SpawnIdle'
    BY <1>3 DEF ExpireAnswer, SpawnIdle, IdleRequest
  <2>2. CnameAndMutexFreed'
    BY <1>3, StaysFreed DEF ExpireAnswer
  <2>3. QED
    BY <2>1, <2>2
<1>4. CASE ExpirePanic(q)
  BY <1>4, DieFrees DEF ExpirePanic
<1>5. QED
  BY <1>1, <1>2, <1>3, <1>4 DEF Expire

LEMMA FreedStep == IInv /\ [Next]_vars => IInv'
<1> SUFFICES ASSUME IInv, [Next]_vars PROVE SpawnIdle' /\ CnameAndMutexFreed'
  BY TypeStep DEF IInv
<1> USE ProcFacts DEF vars, goroutines, elsewhere, shared, own
<1>1. CASE RoundBegin
  BY <1>1, StaysFreed DEF RoundBegin, IInv, SpawnIdle
<1>2. CASE RoundNext
  <2> USE RenewalAssumption DEF IInv, TypeOK
  <2>1. pc[Scheduler] = "idle"
    BY <1>2 DEF RoundNext
  <2>2. SpawnIdle'
    BY <1>2 DEF RoundNext, Start, SpawnIdle
  <2>3. CnameAndMutexFreed'
    BY <1>2, <2>1, StaysFreed DEF RoundNext, Start, Renewing, Challenges, OnceDo
  <2>4. QED
    BY <2>2, <2>3
<1>3. ASSUME NEW a \in Alias, ComesDue(a)
      PROVE  SpawnIdle' /\ CnameAndMutexFreed'
  BY <1>3, StaysFreed DEF ComesDue, IInv, SpawnIdle
<1>4. CASE Crash
  BY <1>4, DieFrees DEF Crash
<1>5. CASE Restart
  BY <1>5, StaysFreed DEF Restart, IInv, SpawnIdle
<1>6. CASE UNCHANGED vars
  BY <1>6, StaysFreed DEF IInv, SpawnIdle
<1>7. QED
  BY <1>1, <1>2, <1>3, <1>4, <1>5, <1>6, CheckFrees, RenewFrees, ExpireFrees
     DEF Next

LEMMA FreedAlways == Spec => []IInv
<1>1. Init => TypeOK
  BY InitTypes
<1>2. Init => SpawnIdle /\ CnameAndMutexFreed
  BY DEF Init, SpawnIdle, CnameAndMutexFreed, IdleRequest, NewOnce
<1>3. Init => IInv
  BY <1>1, <1>2 DEF IInv
<1>4. QED
  BY <1>3, FreedStep, PTL DEF Spec

(* Whatever renewals overlap, fail or die, the environment variable for    *)
(* CNAME support is set only while a renewal that unsets it runs, and the  *)
(* mutex of preCheckOnce locked only while a goroutine is inside that      *)
(* unlocks it.                                                             *)
THEOREM CnameAndMutexFreedHolds == Spec => []CnameAndMutexFreed
<1>1. IInv => CnameAndMutexFreed
  BY DEF IInv
<1>2. QED
  BY <1>1, FreedAlways, PTL

-----------------------------------------------------------------------------
(* A renewal that overlaps with no other has the process to itself.        *)

(* Overlapping renewals know of each other.                                *)
Solo ==
    \A p, q \in Proc :
        p # q /\ pc[p] \in Renewing /\ pc[q] \in Renewing => p \in mixed

(* Nothing is read, or made, for a goroutine outside a renewal.            *)
Unread ==
    \A p \in Proc : pc[p] \notin Renewing => cname[p] = "unread" /\ made[p] = NoAlias

(* The variables are those of renewal p; the once says done only after its *)
(* own sleep, and its mutex is locked when p is inside.                    *)
Owns(p) ==
    /\ alias[p] \in DisableCname => noCname
    /\ pc[p] = "provider" /\ alias[p] \in Google => project = alias[p]
    /\ EnvOwn(p)
    /\ pc[p] \in {"sleep", "unlock"} => once.locked
    /\ pc[p] # "reset" /\ once.done => p \in waited
    /\ pc[p] \in {"unlock", "poll", "obtain", "save", "fill", "rest"} => p \in waited
    /\ pc[p] \notin {"parked", "woken"}

Undisturbed == \A p \in Proc \ mixed : pc[p] \in Renewing => Owns(p)

OwnInv == Solo /\ Unread /\ Undisturbed

(* A step inside renewal p concerns p alone: whoever else renews is mixed. *)
LEMMA MovesInside ==
    ASSUME Solo, NEW p \in Proc, pc[p] \in Renewing,
           \A r \in Proc : r # p /\ pc'[r] \in Renewing => pc[r] \in Renewing,
           \A r \in mixed : r \in mixed' \/ (r = p /\ pc'[p] \notin Renewing),
           p \notin mixed' /\ pc'[p] \in Renewing => Owns(p)'
    PROVE  Solo' /\ Undisturbed'
BY DEF Solo, Undisturbed

(* A step outside all renewals changes nothing for them.                   *)
LEMMA MovesOutside ==
    ASSUME Solo, Undisturbed, UNCHANGED shared,
           \A r \in Proc : pc'[r] \in Renewing =>
               /\ pc'[r] = pc[r] /\ alias'[r] = alias[r]
               /\ cname'[r] = cname[r] /\ made'[r] = made[r]
               /\ r \in waited => r \in waited'
               /\ r \in mixed => r \in mixed'
    PROVE  Solo' /\ Undisturbed'
<1>1. Solo'
  BY DEF Solo
<1>2. ASSUME NEW r \in Proc, r \notin mixed', pc'[r] \in Renewing PROVE Owns(r)'
  <2>1. Owns(r)
    BY <1>2 DEF Undisturbed
  <2>2. QED
    BY <1>2, <2>1 DEF Owns, EnvOwn, shared
<1>3. QED
  BY <1>1, <1>2 DEF Undisturbed

(* Of a renewal that is not mixed, the variables and the mutex are its own *)
(* in both directions: nobody else is there to have set or locked them.    *)
LEMMA OwnsAll ==
    ASSUME IInv, OwnInv, NEW p \in Proc \ mixed, pc[p] \in Renewing
    PROVE  /\ Owns(p)
           /\ noCname <=> alias[p] \in DisableCname
           /\ once.locked <=> pc[p] \in {"sleep", "unlock"}
<1>1. \A q \in Proc : pc[q] \in Renewing => q = p
  BY DEF OwnInv, Solo
<1>2. Owns(p)
  BY DEF OwnInv, Undisturbed
<1>3. noCname => alias[p] \in DisableCname
  BY <1>1 DEF IInv, CnameAndMutexFreed
<1>4. once.locked => pc[p] \in {"sleep", "unlock"}
  BY <1>1 DEF IInv, CnameAndMutexFreed, Renewing, Challenges, OnceDo
<1>5. QED
  BY <1>2, <1>3, <1>4 DEF Owns

LEMMA DieOwn == ASSUME NEW cause, Die(cause) PROVE OwnInv'
<1>1. \A p \in Proc : pc'[p] \notin Renewing /\ cname'[p] = "unread" /\ made'[p] = NoAlias
  BY DEF Die, Renewing, Challenges, OnceDo
<1>2. QED
  BY <1>1 DEF OwnInv, Solo, Unread, Undisturbed

LEMMA CheckOwn ==
    ASSUME IInv, OwnInv, NEW p \in Proc, Check(p) \/ RejectConfig(p)
    PROVE  OwnInv'
<1> USE DEF IInv, OwnInv, TypeOK, Renewing, Challenges, OnceDo, elsewhere, shared, own
<1>1. CASE Skip(p)
  <2>1. Solo' /\ Undisturbed'
    BY <1>1, MovesOutside DEF Skip, Return
  <2>2. Unread'
    BY <1>1 DEF Skip, Return, Unread
  <2>3. QED
    BY <2>1, <2>2
<1>2. CASE ReadLocal(p)
  <2>1. Solo' /\ Undisturbed'
    BY <1>2, MovesOutside DEF ReadLocal, Goto
  <2>2. Unread'
    BY <1>2 DEF ReadLocal, Goto, Unread
  <2>3. QED
    BY <2>1, <2>2
<1>3. CASE DecideRenew(p)
  <2>1. Solo' /\ Undisturbed'
    BY <1>3, MovesOutside DEF DecideRenew, Goto
  <2>2. Unread'
    BY <1>3 DEF DecideRenew, Goto, Unread
  <2>3. QED
    BY <2>1, <2>2
<1>4. CASE DecideValid(p)
  <2>1. Solo' /\ Undisturbed'
    BY <1>4, MovesOutside DEF DecideValid, Return
  <2>2. Unread'
    BY <1>4 DEF DecideValid, Return, Unread
  <2>3. QED
    BY <2>1, <2>2
<1>5. CASE RejectConfig(p)
  <2>1. Solo' /\ Undisturbed'
    BY <1>5, MovesOutside DEF RejectConfig, Return
  <2>2. Unread'
    BY <1>5 DEF RejectConfig, Return, Unread
  <2>3. QED
    BY <2>1, <2>2
<1>6. QED
  BY <1>1, <1>2, <1>3, <1>4, <1>5 DEF Check

(* The setting begins: of a renewal that meets no other, with nothing left *)
(* behind by those before.                                                 *)
LEMMA SetEnvOwn ==
    ASSUME IInv, OwnInv, NEW p \in Proc, SetEnv(p)
    PROVE  OwnInv'
<1> DEFINE others == {q \in Proc : pc[q] \in Renewing}
<1>1. /\ pc[p] = "begin" /\ pc' = [pc EXCEPT ![p] = "reset"]
      /\ mixed' = IF others = {} THEN mixed ELSE mixed \cup others \cup {p}
      /\ noCname' = (noCname \/ alias[p] \in DisableCname)
      /\ UNCHANGED <<alias, cname, made, waited, once, project>>
  BY DEF SetEnv, Goto, own, elsewhere
<1>2. pc[p] \notin Renewing
  BY <1>1 DEF Renewing, Challenges, OnceDo
<1>3. \A r \in Proc : r # p => pc'[r] = pc[r]
  BY <1>1 DEF IInv, TypeOK
<1>4. pc'[p] = "reset" /\ "reset" \in Renewing
  BY <1>1 DEF IInv, TypeOK, Renewing
<1>5. Unread'
  BY <1>1, <1>3, <1>4 DEF OwnInv, Unread
<1>6. CASE others = {}
  <2>1. \A r \in Proc : pc'[r] \in Renewing => r = p
    BY <1>3, <1>6
  <2>2. noCname = FALSE /\ once.locked = FALSE
    <3>1. ~noCname /\ ~once.locked
      BY <1>6 DEF IInv, CnameAndMutexFreed, Renewing, Challenges, OnceDo
    <3>2. QED
      BY <3>1 DEF IInv, TypeOK
  <2>3. Owns(p)'
    BY <1>1, <1>2, <1>4, <2>2 DEF Owns, EnvOwn, OwnInv, Unread
  <2>4. Solo'
    BY <2>1 DEF Solo
  <2>5. QED
    BY <1>5, <2>1, <2>3, <2>4 DEF OwnInv, Undisturbed
<1>7. CASE others # {}
  <2>1. \A r \in Proc : pc'[r] \in Renewing => r \in mixed'
    BY <1>1, <1>3, <1>7
  <2>2. QED
    BY <1>5, <2>1 DEF OwnInv, Solo, Undisturbed
<1>8. QED
  BY <1>6, <1>7

LEMMA RenewOwn ==
    ASSUME IInv, OwnInv, NEW p \in Proc, Renew(p)
    PROVE  OwnInv'
<1> USE DEF IInv, TypeOK, Renewing, Challenges, OnceDo, elsewhere, shared, own
<1>0. p \notin mixed /\ pc[p] \in Renewing =>
        /\ Owns(p)
        /\ noCname <=> alias[p] \in DisableCname
        /\ once.locked <=> pc[p] \in {"sleep", "unlock"}
  BY OwnsAll
<1>1. CASE ResetOnce(p)
  <2>1. p \notin mixed' /\ pc'[p] \in Renewing => Owns(p)'
    BY <1>0, <1>1 DEF ResetOnce, Goto, NewOnce, Owns, EnvOwn
  <2>2. Solo' /\ Undisturbed'
    BY <1>1, <2>1, MovesInside DEF ResetOnce, Goto, NewOnce, OwnInv
  <2>3. Unread'
    BY <1>1 DEF ResetOnce, Goto, NewOnce, OwnInv, Unread
  <2>4. QED
    BY <2>2, <2>3 DEF OwnInv
<1>2. CASE Setup(p)
  <2>1. p \notin mixed' /\ pc'[p] \in Renewing => Owns(p)'
    BY <1>0, <1>2 DEF Setup, Goto, Owns, EnvOwn
  <2>2. Solo' /\ Undisturbed'
    BY <1>2, <2>1, MovesInside DEF Setup, Goto, OwnInv
  <2>3. Unread'
    BY <1>2 DEF Setup, Goto, OwnInv, Unread
  <2>4. QED
    BY <2>2, <2>3 DEF OwnInv
<1>3. CASE MakeProvider(p)
  <2>1. p \notin mixed' /\ pc'[p] \in Renewing => Owns(p)'
    BY <1>0, <1>3 DEF MakeProvider, Goto, Owns, EnvOwn
  <2>2. Solo' /\ Undisturbed'
    BY <1>3, <2>1, MovesInside DEF MakeProvider, Goto, OwnInv
  <2>3. Unread'
    BY <1>3 DEF MakeProvider, Goto, OwnInv, Unread
  <2>4. QED
    BY <2>2, <2>3 DEF OwnInv
<1>4. CASE Challenge(p)
  <2>1. p \notin mixed' /\ pc'[p] \in Renewing => Owns(p)'
    BY <1>0, <1>4 DEF Challenge, Goto, Owns, EnvOwn
  <2>2. Solo' /\ Undisturbed'
    BY <1>4, <2>1, MovesInside DEF Challenge, Goto, OwnInv
  <2>3. Unread'
    BY <1>4 DEF Challenge, Goto, OwnInv, Unread
  <2>4. QED
    BY <2>2, <2>3 DEF OwnInv
<1>5. CASE OnceTest(p)
  <2>1. p \notin mixed' /\ pc'[p] \in Renewing => Owns(p)'
    BY <1>0, <1>5 DEF OnceTest, Goto, Owns, EnvOwn
  <2>2. Solo' /\ Undisturbed'
    BY <1>5, <2>1, MovesInside DEF OnceTest, Goto, OwnInv
  <2>3. Unread'
    BY <1>5 DEF OnceTest, Goto, OwnInv, Unread
  <2>4. QED
    BY <2>2, <2>3 DEF OwnInv
<1>6. CASE OnceLock(p)
  <2>1. p \notin mixed' /\ pc'[p] \in Renewing => Owns(p)'
    BY <1>0, <1>6 DEF OnceLock, Tries, Goto, Owns, EnvOwn
  <2>2. Solo' /\ Undisturbed'
    BY <1>6, <2>1, MovesInside DEF OnceLock, Tries, Goto, OwnInv
  <2>3. Unread'
    BY <1>6 DEF OnceLock, Tries, Goto, OwnInv, Unread
  <2>4. QED
    BY <2>2, <2>3 DEF OwnInv
<1>7. CASE OncePark(p)
  <2>1. p \notin mixed' /\ pc'[p] \in Renewing => Owns(p)'
    BY <1>0, <1>7 DEF OncePark, Tries, Goto, Owns, EnvOwn
  <2>2. Solo' /\ Undisturbed'
    BY <1>7, <2>1, MovesInside DEF OncePark, Tries, Goto, OwnInv
  <2>3. Unread'
    BY <1>7 DEF OncePark, Tries, Goto, OwnInv, Unread
  <2>4. QED
    BY <2>2, <2>3 DEF OwnInv
<1>8. CASE Sleep(p)
  <2>1. p \notin mixed' /\ pc'[p] \in Renewing => Owns(p)'
    BY <1>0, <1>8 DEF Sleep, Goto, Owns, EnvOwn
  <2>2. Solo' /\ Undisturbed'
    BY <1>8, <2>1, MovesInside DEF Sleep, Goto, OwnInv
  <2>3. Unread'
    BY <1>8 DEF Sleep, Goto, OwnInv, Unread
  <2>4. QED
    BY <2>2, <2>3 DEF OwnInv
<1>9. CASE OnceUnlock(p)
  <2>1. p \notin mixed' /\ pc'[p] \in Renewing => Owns(p)'
    BY <1>0, <1>9 DEF OnceUnlock, Goto, Owns, EnvOwn
  <2>2. Solo' /\ Undisturbed'
    BY <1>9, <2>1, MovesInside DEF OnceUnlock, Goto, OwnInv
  <2>3. Unread'
    BY <1>9 DEF OnceUnlock, Goto, OwnInv, Unread
  <2>4. QED
    BY <2>2, <2>3 DEF OwnInv
<1>10. CASE OnceHandOver(p)
  <2>0. PICK s \in Proc : pc[s] = "parked" /\ pc' = [pc EXCEPT ![p] = "poll", ![s] = "woken"]
    BY <1>10 DEF OnceHandOver
  <2>1. p \notin mixed' /\ pc'[p] \in Renewing => Owns(p)'
    BY <1>0, <1>10, <2>0 DEF OnceHandOver, Owns, EnvOwn
  <2>2. Solo' /\ Undisturbed'
    BY <1>10, <2>1, <2>0, MovesInside DEF OnceHandOver, OwnInv
  <2>3. Unread'
    BY <1>10, <2>0 DEF OnceHandOver, OwnInv, Unread
  <2>4. QED
    BY <2>2, <2>3 DEF OwnInv
<1>11. CASE Poll(p)
  <2>1. p \notin mixed' /\ pc'[p] \in Renewing => Owns(p)'
    BY <1>0, <1>11 DEF Poll, Goto, Owns, EnvOwn
  <2>2. Solo' /\ Undisturbed'
    BY <1>11, <2>1, MovesInside DEF Poll, Goto, OwnInv
  <2>3. Unread'
    BY <1>11 DEF Poll, Goto, OwnInv, Unread
  <2>4. QED
    BY <2>2, <2>3 DEF OwnInv
<1>12. CASE Obtain(p)
  <2>1. p \notin mixed' /\ pc'[p] \in Renewing => Owns(p)'
    BY <1>0, <1>12 DEF Obtain, Goto, Owns, EnvOwn
  <2>2. Solo' /\ Undisturbed'
    BY <1>12, <2>1, MovesInside DEF Obtain, Goto, OwnInv
  <2>3. Unread'
    BY <1>12 DEF Obtain, Goto, OwnInv, Unread
  <2>4. QED
    BY <2>2, <2>3 DEF OwnInv
<1>13. CASE RenewFails(p)
  <2>1. p \notin mixed' /\ pc'[p] \in Renewing => Owns(p)'
    BY <1>0, <1>13 DEF RenewFails, Goto, Owns, EnvOwn
  <2>2. Solo' /\ Undisturbed'
    BY <1>13, <2>1, MovesInside DEF RenewFails, Goto, OwnInv
  <2>3. Unread'
    BY <1>13 DEF RenewFails, Goto, OwnInv, Unread
  <2>4. QED
    BY <2>2, <2>3 DEF OwnInv
<1>14. CASE SaveTruncate(p)
  <2>1. p \notin mixed' /\ pc'[p] \in Renewing => Owns(p)'
    BY <1>0, <1>14 DEF SaveTruncate, Goto, Owns, EnvOwn
  <2>2. Solo' /\ Undisturbed'
    BY <1>14, <2>1, MovesInside DEF SaveTruncate, Goto, OwnInv
  <2>3. Unread'
    BY <1>14 DEF SaveTruncate, Goto, OwnInv, Unread
  <2>4. QED
    BY <2>2, <2>3 DEF OwnInv
<1>15. CASE SaveFill(p)
  <2>1. p \notin mixed' /\ pc'[p] \in Renewing => Owns(p)'
    BY <1>0, <1>15 DEF SaveFill, Goto, Owns, EnvOwn
  <2>2. Solo' /\ Undisturbed'
    BY <1>15, <2>1, MovesInside DEF SaveFill, Goto, OwnInv
  <2>3. Unread'
    BY <1>15 DEF SaveFill, Goto, OwnInv, Unread
  <2>4. QED
    BY <2>2, <2>3 DEF OwnInv
<1>16. CASE SaveRest(p)
  <2>1. p \notin mixed' /\ pc'[p] \in Renewing => Owns(p)'
    BY <1>0, <1>16 DEF SaveRest, Goto, Owns, EnvOwn
  <2>2. Solo' /\ Undisturbed'
    BY <1>16, <2>1, MovesInside DEF SaveRest, Goto, OwnInv
  <2>3. Unread'
    BY <1>16 DEF SaveRest, Goto, OwnInv, Unread
  <2>4. QED
    BY <2>2, <2>3 DEF OwnInv
<1>17. CASE SaveFails(p)
  <2>1. p \notin mixed' /\ pc'[p] \in Renewing => Owns(p)'
    BY <1>0, <1>17 DEF SaveFails, Goto, Owns, EnvOwn
  <2>2. Solo' /\ Undisturbed'
    BY <1>17, <2>1, MovesInside DEF SaveFails, Goto, OwnInv
  <2>3. Unread'
    BY <1>17 DEF SaveFails, Goto, OwnInv, Unread
  <2>4. QED
    BY <2>2, <2>3 DEF OwnInv
<1>18. CASE UnsetEnv(p)
  <2>1. p \notin mixed' /\ pc'[p] \in Renewing => Owns(p)'
    BY <1>0, <1>18 DEF UnsetEnv, Return, Owns, EnvOwn
  <2>2. Solo' /\ Undisturbed'
    BY <1>18, <2>1, MovesInside DEF UnsetEnv, Return, OwnInv
  <2>3. Unread'
    BY <1>18 DEF UnsetEnv, Return, OwnInv, Unread
  <2>4. QED
    BY <2>2, <2>3 DEF OwnInv
<1>19. CASE Fatal(p)
  BY <1>19, DieOwn DEF Fatal
<1>20. CASE RejectConfig(p)
  BY <1>20, CheckOwn
<1>21. CASE SetEnv(p)
  BY <1>21, SetEnvOwn
<1>22. QED
  BY <1>1, <1>2, <1>3, <1>4, <1>5, <1>6, <1>7, <1>8, <1>9, <1>10, <1>11,
     <1>12, <1>13, <1>14, <1>15, <1>16, <1>17, <1>18, <1>19, <1>20, <1>21
     DEF Renew

LEMMA OwnStep == IInv /\ OwnInv /\ [Next]_vars => OwnInv'
<1> SUFFICES ASSUME IInv, OwnInv, [Next]_vars PROVE OwnInv'
  OBVIOUS
<1> USE ProcFacts DEF OwnInv, vars, goroutines, elsewhere, shared, own
<1>1. CASE RoundBegin
  BY <1>1, MovesOutside DEF RoundBegin, Unread
<1>2. CASE RoundNext
  <2> USE RenewalAssumption DEF IInv, TypeOK, Renewing, Challenges, OnceDo
  <2>1. Solo' /\ Undisturbed'
    BY <1>2, MovesOutside DEF RoundNext, Start
  <2>2. Unread'
    BY <1>2 DEF RoundNext, Start, Unread
  <2>3. QED
    BY <2>1, <2>2
<1>3. ASSUME NEW a \in Alias, ComesDue(a) PROVE OwnInv'
  BY <1>3, MovesOutside DEF ComesDue, Unread
<1>4. ASSUME NEW q \in Request, Expire(q) PROVE OwnInv'
  <2>1. ASSUME NEW a \in Asked, NEW remote \in {"absent", "fresh", "due"},
               ExpireMiss(q, a, remote)
        PROVE  OwnInv'
    BY <2>1, MovesOutside DEF ExpireMiss, Unread
  <2>2. CASE ExpireSpawn(q)
    <3> USE DEF IInv, TypeOK, SpawnIdle, Renewing, Challenges, OnceDo
    <3>1. Solo' /\ Undisturbed'
      BY <2>2, MovesOutside DEF ExpireSpawn, Start
    <3>2. Unread'
      BY <2>2 DEF ExpireSpawn, Start, Unread
    <3>3. QED
      BY <3>1, <3>2
  <2>3. CASE ExpireAnswer(q)
    BY <2>3, MovesOutside DEF ExpireAnswer, Unread
  <2>4. CASE ExpirePanic(q)
    BY <2>4, DieOwn DEF ExpirePanic
  <2>5. QED
    BY <1>4, <2>1, <2>2, <2>3, <2>4 DEF Expire
<1>5. CASE Crash
  BY <1>5, DieOwn DEF Crash
<1>6. CASE Restart
  BY <1>6, MovesOutside DEF Restart, Unread
<1>7. CASE UNCHANGED vars
  BY <1>7, MovesOutside DEF Unread
<1>8. QED
  BY <1>1, <1>2, <1>3, <1>4, <1>5, <1>6, <1>7, CheckOwn, RenewOwn DEF Next

LEMMA OwnAlways == Spec => []OwnInv
<1>1. Init => OwnInv
  BY DEF Init, OwnInv, Solo, Unread, Undisturbed, Renewing, Challenges, OnceDo
<1>2. QED
  BY <1>1, OwnStep, FreedAlways, PTL DEF Spec

(* Whatever renewals fail, die or overlap, lego solves the challenges of a *)
(* certificate with that certificate's disable_cname, and makes its DNS    *)
(* provider for that certificate's project, unless its renewal is one of   *)
(* those that overlap.                                                     *)
THEOREM EnvHonouredHolds == Spec => []EnvHonoured
<1>1. OwnInv => EnvHonoured
  <2> SUFFICES ASSUME OwnInv, NEW p \in Proc \ mixed PROVE EnvOwn(p)
    BY DEF EnvHonoured
  <2>1. CASE pc[p] \in Renewing
    BY <2>1 DEF OwnInv, Undisturbed, Owns
  <2>2. CASE pc[p] \notin Renewing
    BY <2>2 DEF OwnInv, Unread, EnvOwn
  <2>3. QED
    BY <2>1, <2>2
<1>2. QED
  BY <1>1, OwnAlways, PTL

(* A renewal that does not overlap with another one polls the DNS, and     *)
(* saves what it obtained, only after its own 30 seconds.                  *)
THEOREM OwnWaitHolds == Spec => []OwnWait
<1>1. OwnInv => OwnWait
  BY DEF OwnInv, Undisturbed, Owns, OwnWait, Renewing, Challenges, OnceDo
<1>2. QED
  BY <1>1, OwnAlways, PTL

(* A renewal that does not overlap with another one never makes the        *)
(* runtime kill the process, nor sleeps for the mutex of preCheckOnce.     *)
THEOREM NoFatalHolds == Spec => []NoFatal
<1>1. OwnInv => NoFatal
  BY DEF OwnInv, Undisturbed, Owns, NoFatal, Broken, Renewing, Challenges, OnceDo
<1>2. QED
  BY <1>1, OwnAlways, PTL

-----------------------------------------------------------------------------
(* A check that overlaps with no other of its certificate.                 *)

(* Overlapping checks of a certificate know of each other.                 *)
Meets ==
    \A p, q \in Proc :
        p # q /\ alias[p] = alias[q] /\ alias[p] # NoAlias => p \in met

(* What such a check found on disk has not been renewed since.             *)
Exchange == {"begin", "reset", "setup", "provider", "obtain", "save"} \cup Challenges

NoneFresher ==
    \A p \in Proc \ met :
        /\ pc[p] = "probe" /\ local[p] # "fresh" => disk[alias[p]] # "fresh"
        /\ pc[p] \in Exchange => disk[alias[p]] # "fresh"

Checked == Meets /\ NoneFresher

LEMMA DieChecked == ASSUME NEW cause, Die(cause) PROVE Checked'
BY DEF Die, Checked, Meets, NoneFresher, Exchange, Challenges, OnceDo

LEMMA CheckChecked ==
    ASSUME IInv, Checked, NEW p \in Proc, Check(p)
    PROVE  Checked'
<1> USE DEF IInv, TypeOK, Exchange, Challenges, OnceDo, Checked, Meets, NoneFresher,
       elsewhere, shared, own
<1>1. CASE Skip(p)
  BY <1>1 DEF Skip, Return
<1>2. CASE ReadLocal(p)
  BY <1>2 DEF ReadLocal, Goto
<1>3. CASE DecideRenew(p)
  BY <1>3 DEF DecideRenew, Goto, ShouldRenew
<1>4. CASE DecideValid(p)
  BY <1>4 DEF DecideValid, Return
<1>5. QED
  BY <1>1, <1>2, <1>3, <1>4 DEF Check

LEMMA RenewChecked ==
    ASSUME IInv, Checked, NEW p \in Proc, Renew(p)
    PROVE  Checked'
<1> USE DEF IInv, TypeOK, Exchange, Challenges, OnceDo, Checked, Meets, NoneFresher,
       elsewhere, shared, own
<1>1. CASE RejectConfig(p)
  BY <1>1 DEF RejectConfig, Return
<1>2. CASE SetEnv(p)
  BY <1>2 DEF SetEnv, Goto
<1>3. CASE ResetOnce(p)
  BY <1>3 DEF ResetOnce, Goto, NewOnce
<1>4. CASE Setup(p)
  BY <1>4 DEF Setup, Goto
<1>5. CASE MakeProvider(p)
  BY <1>5 DEF MakeProvider, Goto
<1>6. CASE Challenge(p)
  BY <1>6 DEF Challenge, Goto
<1>7. CASE OnceTest(p)
  BY <1>7 DEF OnceTest, Goto
<1>8. CASE OnceLock(p)
  BY <1>8 DEF OnceLock, Tries, Goto
<1>9. CASE OncePark(p)
  BY <1>9 DEF OncePark, Tries, Goto
<1>10. CASE Sleep(p)
  BY <1>10 DEF Sleep, Goto
<1>11. CASE OnceUnlock(p)
  BY <1>11 DEF OnceUnlock, Goto
<1>12. CASE OnceHandOver(p)
  BY <1>12 DEF OnceHandOver
<1>13. CASE Poll(p)
  BY <1>13 DEF Poll, Goto
<1>14. CASE Obtain(p)
  BY <1>14 DEF Obtain, Goto
<1>15. CASE RenewFails(p)
  BY <1>15 DEF RenewFails, Goto
<1>16. CASE SaveTruncate(p)
  BY <1>16 DEF SaveTruncate, Goto
<1>17. CASE SaveFill(p)
  BY <1>17 DEF SaveFill, Goto
<1>18. CASE SaveRest(p)
  BY <1>18 DEF SaveRest, Goto
<1>19. CASE SaveFails(p)
  BY <1>19 DEF SaveFails, Goto
<1>20. CASE UnsetEnv(p)
  BY <1>20 DEF UnsetEnv, Return
<1>21. CASE Fatal(p)
  BY <1>21, DieChecked DEF Fatal
<1>22. QED
  BY <1>1, <1>2, <1>3, <1>4, <1>5, <1>6, <1>7, <1>8, <1>9, <1>10, <1>11,
     <1>12, <1>13, <1>14, <1>15, <1>16, <1>17, <1>18, <1>19, <1>20, <1>21
     DEF Renew

(* A check that starts meets those of its certificate that run.            *)
LEMMA StartChecked ==
    ASSUME IInv, Checked, NEW p \in Proc, NEW a \in Alias, pc[p] = "idle",
           Start(p, a), UNCHANGED <<disk, local>>
    PROVE  Checked'
<1> DEFINE same == {q \in Proc : alias[q] = a}
<1>1. /\ pc' = [pc EXCEPT ![p] = "local"]
      /\ alias' = [alias EXCEPT ![p] = a]
      /\ met' = IF same = {} THEN met ELSE met \cup same \cup {p}
  BY DEF Start
<1>2. met \subseteq met'
  BY <1>1
<1>3. \A r \in Proc : r # p => pc'[r] = pc[r] /\ alias'[r] = alias[r]
  BY <1>1 DEF IInv, TypeOK
<1>4. pc'[p] = "local" /\ alias'[p] = a
  BY <1>1 DEF IInv, TypeOK
<1>5. \A r \in Proc : r # p /\ alias'[r] = a => r \in met' /\ p \in met'
  BY <1>1, <1>3
<1>6. Meets'
  BY <1>2, <1>3, <1>4, <1>5 DEF Checked, Meets
<1>7. NoneFresher'
  BY <1>2, <1>3, <1>4 DEF Checked, NoneFresher, Exchange, Challenges, OnceDo
<1>8. QED
  BY <1>6, <1>7 DEF Checked

LEMMA CheckedStep == IInv /\ Checked /\ [Next]_vars => Checked'
<1> SUFFICES ASSUME IInv, Checked, [Next]_vars PROVE Checked'
  OBVIOUS
<1> USE ProcFacts, RenewalAssumption DEF vars, goroutines, elsewhere, own
<1>1. CASE RoundBegin
  BY <1>1 DEF RoundBegin, Checked, Meets, NoneFresher
<1>2. CASE RoundNext
  BY <1>2, StartChecked DEF RoundNext, IInv, TypeOK
<1>3. ASSUME NEW a \in Alias, ComesDue(a) PROVE Checked'
  <2>1. Meets'
    BY <1>3 DEF ComesDue, Checked, Meets
  <2>2. \A b \in Alias : disk'[b] = "fresh" => disk[b] = "fresh" /\ b # a
    BY <1>3 DEF ComesDue, IInv, TypeOK
  <2>3. \A p \in Proc : local'[p] # "fresh" => local[p] # "fresh" \/ alias[p] = a
    BY <1>3 DEF ComesDue
  <2>4. \A p \in Proc : pc[p] # "idle" => alias[p] \in Alias
    BY DEF IInv, TypeOK
  <2>5. pc' = pc /\ alias' = alias /\ met' = met
    BY <1>3 DEF ComesDue
  <2>6. NoneFresher'
    BY <2>2, <2>3, <2>4, <2>5
       DEF Checked, NoneFresher, Exchange, Challenges, OnceDo
  <2>7. QED
    BY <2>1, <2>6 DEF Checked
<1>4. ASSUME NEW q \in Request, Expire(q) PROVE Checked'
  <2>1. ASSUME NEW a \in Asked, NEW remote \in {"absent", "fresh", "due"},
               ExpireMiss(q, a, remote)
        PROVE  Checked'
    BY <2>1 DEF ExpireMiss, Checked, Meets, NoneFresher
  <2>2. CASE ExpireSpawn(q)
    <3>1. request[q].at = "spawn" /\ pc[q] = "idle" /\ request[q].alias \in Alias
      <4>1. request[q] \in ExpireRequests
        BY DEF IInv, TypeOK
      <4>2. QED
        BY <2>2, <4>1 DEF ExpireSpawn, IInv, SpawnIdle, ExpireRequests, IdleRequest
    <3>2. QED
      BY <2>2, <3>1, StartChecked DEF ExpireSpawn
  <2>3. CASE ExpireAnswer(q)
    BY <2>3 DEF ExpireAnswer, Checked, Meets, NoneFresher
  <2>4. CASE ExpirePanic(q)
    BY <2>4, DieChecked DEF ExpirePanic
  <2>5. QED
    BY <1>4, <2>1, <2>2, <2>3, <2>4 DEF Expire
<1>5. CASE Crash
  BY <1>5, DieChecked DEF Crash
<1>6. CASE Restart
  BY <1>6 DEF Restart, Checked, Meets, NoneFresher
<1>7. CASE UNCHANGED vars
  BY <1>7 DEF Checked, Meets, NoneFresher
<1>8. QED
  BY <1>1, <1>2, <1>3, <1>4, <1>5, <1>6, <1>7, CheckChecked, RenewChecked DEF Next

LEMMA CheckedAlways == Spec => []Checked
<1>1. Init => Checked
  BY DEF Init, Checked, Meets, NoneFresher, Exchange, Challenges, OnceDo
<1>2. QED
  BY <1>1, CheckedStep, FreedAlways, PTL DEF Spec

(* The two steps of SaveCert and the passing of time are all that changes  *)
(* a fullchain.pem.                                                        *)
LEMMA DiskWriters ==
    Next => \/ disk' = disk
            \/ \E p \in Proc : SaveTruncate(p) \/ SaveFill(p)
            \/ \E b \in Alias : ComesDue(b)
<1> SUFFICES ASSUME Next
             PROVE  \/ disk' = disk
                    \/ \E p \in Proc : SaveTruncate(p) \/ SaveFill(p)
                    \/ \E b \in Alias : ComesDue(b)
  OBVIOUS
<1> USE DEF elsewhere
<1>1. CASE RoundBegin \/ RoundNext \/ Crash \/ Restart
  BY <1>1 DEF RoundBegin, RoundNext, Crash, Restart, Die
<1>2. ASSUME NEW p \in Proc, Check(p) PROVE disk' = disk
  BY <1>2 DEF Check, Skip, ReadLocal, DecideRenew, DecideValid
<1>3. ASSUME NEW p \in Proc, Renew(p)
      PROVE  disk' = disk \/ SaveTruncate(p) \/ SaveFill(p)
  BY <1>3 DEF Renew, RejectConfig, SetEnv, ResetOnce, Setup, MakeProvider, Challenge,
     OnceTest, OnceLock, OncePark, Sleep, OnceUnlock, OnceHandOver, Fatal, Poll,
     Obtain, RenewFails, SaveRest, SaveFails, UnsetEnv, Die
<1>4. ASSUME NEW q \in Request, Expire(q) PROVE disk' = disk
  BY <1>4 DEF Expire, ExpireMiss, ExpireSpawn, ExpireAnswer, ExpirePanic, Die
<1>5. QED
  BY <1>1, <1>2, <1>3, <1>4 DEF Next

(* A renewal truncates only a certificate that is missing or due, unless   *)
(* its check overlapped with another one of the same certificate: what it  *)
(* read before the dial and the exchange still stands when it saves,       *)
(* whatever else is renewed meanwhile.                                     *)
THEOREM FreshKeptHolds == Spec => FreshKept
<1> DEFINE Kept == \A a \in Alias : disk[a] = "fresh" =>
                      \/ disk'[a] \in {"fresh", "due"}
                      \/ \E p \in met : alias[p] = a /\ pc[p] = "save"
<1>1. IInv /\ Checked /\ [Next]_vars => [Kept]_vars
  <2> SUFFICES ASSUME IInv, Checked, Next, NEW a \in Alias, disk[a] = "fresh"
               PROVE  \/ disk'[a] \in {"fresh", "due"}
                      \/ \E p \in met : alias[p] = a /\ pc[p] = "save"
    OBVIOUS
  <2> USE DEF IInv, TypeOK
  <2>1. CASE disk' = disk
    BY <2>1
  <2>2. ASSUME NEW b \in Alias, ComesDue(b)
        PROVE  disk'[a] \in {"fresh", "due"}
    BY <2>2 DEF ComesDue
  <2>3. ASSUME NEW p \in Proc, SaveTruncate(p)
        PROVE  \/ disk'[a] \in {"fresh", "due"}
               \/ \E r \in met : alias[r] = a /\ pc[r] = "save"
    BY <2>3 DEF SaveTruncate, Checked, NoneFresher, Exchange
  <2>4. ASSUME NEW p \in Proc, SaveFill(p)
        PROVE  disk'[a] \in {"fresh", "due"}
    BY <2>4 DEF SaveFill
  <2>5. QED
    BY <2>1, <2>2, <2>3, <2>4, DiskWriters
<1>2. QED
  BY <1>1, CheckedAlways, FreedAlways, PTL DEF Spec, FreshKept

-----------------------------------------------------------------------------
(* The scheduler alone, and certificates that share no setting.            *)

(* Only renewals that meet are mixed, and only checks that meet are met.   *)
Apart == mixed = {} /\ met = {}

(* With no expire request, the scheduler's goroutine is alone: no renewal  *)
(* is mixed with another, and no check meets another, so the theorems      *)
(* above hold for everything it does without exception.                    *)
THEOREM SchedulerApart == ASSUME Request = {} PROVE Spec => []Apart
<1>1. Init => Apart
  BY DEF Init, Apart
<1>2. IInv /\ Apart /\ [Next]_vars => Apart'
  <2> SUFFICES ASSUME IInv, Apart, [Next]_vars PROVE Apart'
    OBVIOUS
  <2> USE DEF Apart, vars, goroutines, elsewhere, own, shared
  <2>1. Proc = {Scheduler}
    BY DEF Proc
  <2>2. CASE RoundNext
    <3>1. \A a \in Alias : {q \in Proc : alias[q] = a} = {}
      BY <2>1, <2>2, RenewalAssumption DEF RoundNext, IInv, TypeOK
    <3>2. QED
      BY <2>2, <3>1 DEF RoundNext, Start, IInv, TypeOK
  <2>3. ASSUME NEW p \in Proc, SetEnv(p) PROVE Apart'
    <3>1. {q \in Proc : pc[q] \in Renewing} = {}
      BY <2>1, <2>3 DEF SetEnv, Renewing, Challenges, OnceDo
    <3>2. QED
      BY <2>3, <3>1 DEF SetEnv
  <2>4. CASE RoundBegin \/ Crash \/ Restart
    BY <2>4 DEF RoundBegin, Crash, Restart, Die
  <2>5. ASSUME NEW p \in Proc, Check(p) PROVE Apart'
    BY <2>5 DEF Check, Skip, ReadLocal, DecideRenew, DecideValid, Return
  <2>6. ASSUME NEW p \in Proc, Renew(p), ~SetEnv(p) PROVE Apart'
    BY <2>6 DEF Renew, RejectConfig, ResetOnce, Setup, MakeProvider, Challenge,
       OnceTest, OnceLock, OncePark, Sleep, OnceUnlock, OnceHandOver, Fatal, Poll,
       Obtain, RenewFails, SaveTruncate, SaveFill, SaveRest, SaveFails, UnsetEnv,
       Return, Die
  <2>7. ASSUME NEW a \in Alias, ComesDue(a) PROVE Apart'
    BY <2>7 DEF ComesDue
  <2>8. CASE UNCHANGED vars
    BY <2>8
  <2>9. QED
    BY <2>2, <2>3, <2>4, <2>5, <2>6, <2>7, <2>8 DEF Next
<1>3. QED
  BY <1>1, <1>2, FreedAlways, PTL DEF Spec

(* Nobody sets a variable, so nobody reads it set.                         *)
NeverSet ==
    /\ noCname = FALSE
    /\ \A p \in Proc : cname[p] # "disabled" /\ made[p] = NoAlias

LEMMA NeverSetStep ==
    DisableCname = {} /\ Google = {} /\ TypeOK /\ NeverSet /\ [Next]_vars => NeverSet'
<1> SUFFICES ASSUME DisableCname = {}, Google = {}, TypeOK, NeverSet, [Next]_vars
             PROVE  NeverSet'
  OBVIOUS
<1> USE DEF NeverSet, TypeOK, vars, goroutines, elsewhere, shared, own
<1>1. CASE RoundBegin \/ RoundNext \/ Crash \/ Restart
  BY <1>1 DEF RoundBegin, RoundNext, Crash, Restart, Die, Start
<1>2. ASSUME NEW p \in Proc, Check(p) PROVE NeverSet'
  BY <1>2 DEF Check, Skip, ReadLocal, DecideRenew, DecideValid, Return, Goto
<1>3. ASSUME NEW p \in Proc, Renew(p) PROVE NeverSet'
  BY <1>3 DEF Renew, RejectConfig, SetEnv, ResetOnce, Setup, MakeProvider, Challenge,
     OnceTest, OnceLock, OncePark, Sleep, OnceUnlock, OnceHandOver, Fatal, Poll,
     Obtain, RenewFails, SaveTruncate, SaveFill, SaveRest, SaveFails, UnsetEnv,
     Return, Die
<1>4. ASSUME NEW q \in Request, Expire(q) PROVE NeverSet'
  BY <1>4 DEF Expire, ExpireMiss, ExpireSpawn, ExpireAnswer, ExpirePanic, Die,
     Start
<1>5. ASSUME NEW a \in Alias, ComesDue(a) PROVE NeverSet'
  BY <1>5 DEF ComesDue
<1>6. CASE UNCHANGED vars
  BY <1>6
<1>7. QED
  BY <1>1, <1>2, <1>3, <1>4, <1>5, <1>6 DEF Next

(* When no certificate disables CNAME support and none is Google's, every  *)
(* renewal is solved with its own settings, however many overlap.  With    *)
(* disable_cname on all of them that is not so: the first one that ends    *)
(* unsets the variable.                                                    *)
THEOREM EnvHonouredUndisturbed ==
    ASSUME DisableCname = {}, Google = {}
    PROVE  Spec => [](\A p \in Proc : EnvOwn(p))
<1>1. Init => NeverSet
  BY DEF Init, NeverSet
<1>2. TypeOK /\ NeverSet => \A p \in Proc : EnvOwn(p)
  BY DEF NeverSet, EnvOwn, TypeOK
<1>3. TypeOK /\ NeverSet /\ [Next]_vars => NeverSet'
  BY NeverSetStep
<1>4. QED
  BY <1>1, <1>2, <1>3, TypeCorrect, PTL DEF Spec

=============================================================================
