------------------------------- MODULE Renewal -------------------------------
(***************************************************************************)
(* The server process seen from its renewals: the scheduler's daily round  *)
(* (scheduler.go), the renewals ExpireHandler starts in goroutines of      *)
(* their own (handlers.go), and what all of them share without a lock --   *)
(* two environment variables, one that switches CNAME support off in lego  *)
(* and one that names the project of Google's DNS, the sync.Once of the    *)
(* DNS pre-check (certmanager.go) and the fullchain.pem of each alias --   *)
(* and the death and restart of the process.                               *)
(*                                                                         *)
(* A goroutine of ExpireHandler bears the name of its request.             *)
(***************************************************************************)
EXTENDS Naturals

CONSTANTS
    Alias,        \* the certificates of the configuration
    AutoRenew,    \* those with auto_renew
    DisableCname, \* those whose disable_cname is true or not given
    Google,       \* those whose provider is GOOGLE, each of its own project
    Probed,       \* those with a domain_check
    Incomplete,   \* those without domain_cn or email
    Asked,        \* those that have clients, which ask for the expiry
    Request,      \* bound: expire requests, and their goroutines, at a time
    Scheduler,    \* the scheduler's goroutine
    NoAlias,      \* the alias of an idle goroutine
    MaxDomains    \* bound: names on one certificate

ASSUME RenewalAssumption ==
    /\ AutoRenew \subseteq Alias /\ DisableCname \subseteq Alias
    /\ Google \subseteq Alias /\ Asked \subseteq Alias
    /\ Probed \subseteq Alias /\ Incomplete \subseteq Alias
    /\ NoAlias \notin Alias
    /\ Scheduler \notin Request
    /\ MaxDomains \in Nat \ {0}

Proc == Request \cup {Scheduler}

VARIABLES
    dead,     \* why the process does not run, "no" when it does
    disk,     \* what GetLocalCertExpiry finds in each fullchain.pem
    round,    \* the aliases CheckAllCerts has still to check
    pc,       \* where each goroutine is in CheckAndRenewCertStatus
    alias,    \* the alias it checks
    local,    \* what it found on disk
    left,     \* the names whose challenge it has still to solve
    noCname,  \* LEGO_DISABLE_CNAME_SUPPORT is set
    project,  \* the alias whose access key GCE_PROJECT holds
    once,     \* preCheckOnce: whether its function has run, and its mutex
    cname,    \* history: the CNAME setting lego last read for a goroutine
    made,     \* history: the alias whose project its DNS provider is for
    waited,   \* history: goroutines that slept in their own pre-check
    mixed,    \* history: those whose RenewCert overlapped with another's
    met,      \* history: those whose check overlapped with one of its alias
    request   \* the expire request of each client: its step, alias, argument

own == <<alias, local, left, cname, made, waited, mixed, met>>
shared == <<noCname, project, once>>
goroutines == <<round, pc, own, shared>>
elsewhere == <<dead, disk, round, request>>
vars == <<dead, disk, goroutines, request>>

(* A certificate is fresh or due for renewal (NeedsRenewal); none stands   *)
(* for a file that is missing or does not parse.                           *)
Expiry == {"none", "fresh", "due"}

IdleRequest == [at |-> "idle", alias |-> NoAlias, given |-> FALSE]

ExpireRequests ==
    {IdleRequest} \cup [at : {"spawn", "answer"}, alias : Alias, given : BOOLEAN]

(* The mutex of a sync.Once counts the goroutines that sleep for it, and   *)
(* remembers whether it has woken one.                                     *)
NewOnce == [done |-> FALSE, locked |-> FALSE, waiters |-> 0, woken |-> FALSE]

(* The places of RenewCert, from its first line ("begin") to its last;     *)
(* those of Renewing are past its Setenv.                                  *)
OnceDo == {"once", "lock", "parked", "woken", "sleep", "unlock"}

Challenges == {"challenge", "poll"} \cup OnceDo

Renewing == {"reset", "setup", "provider", "obtain", "save", "fill", "rest",
             "return"} \cup Challenges

Place == {"idle", "local", "probe", "begin"} \cup Renewing

Init ==
    /\ dead = "no"
    /\ disk \in [Alias -> Expiry]
    /\ round = {}
    /\ pc = [p \in Proc |-> "idle"]
    /\ alias = [p \in Proc |-> NoAlias]
    /\ local = [p \in Proc |-> "none"]
    /\ left = [p \in Proc |-> 0]
    /\ cname = [p \in Proc |-> "unread"]
    /\ made = [p \in Proc |-> NoAlias]
    /\ waited = {} /\ mixed = {} /\ met = {}
    /\ noCname = FALSE /\ project = NoAlias /\ once = NewOnce
    /\ request = [q \in Request |-> IdleRequest]

(* The process dies with its memory and all its goroutines; the disk stays *)
(* as it is.                                                               *)
Die(cause) ==
    /\ dead' = cause
    /\ round' = {}
    /\ pc' = [p \in Proc |-> "idle"]
    /\ alias' = [p \in Proc |-> NoAlias]
    /\ local' = [p \in Proc |-> "none"]
    /\ left' = [p \in Proc |-> 0]
    /\ cname' = [p \in Proc |-> "unread"]
    /\ made' = [p \in Proc |-> NoAlias]
    /\ waited' = {} /\ mixed' = {} /\ met' = {}
    /\ noCname' = FALSE /\ project' = NoAlias /\ once' = NewOnce
    /\ request' = [q \in Request |-> IdleRequest]
    /\ UNCHANGED disk

Goto(p, place) == pc' = [pc EXCEPT ![p] = place]

(* CheckAndRenewCertStatus(a) starts in goroutine p.                       *)
Start(p, a) ==
    /\ pc' = [pc EXCEPT ![p] = "local"]
    /\ alias' = [alias EXCEPT ![p] = a]
    /\ LET same == {q \in Proc : alias[q] = a} IN
       met' = IF same = {} THEN met ELSE met \cup same \cup {p}

(* CheckAndRenewCertStatus returns.                                        *)
Return(p) ==
    /\ pc' = [pc EXCEPT ![p] = "idle"]
    /\ alias' = [alias EXCEPT ![p] = NoAlias]
    /\ local' = [local EXCEPT ![p] = "none"]
    /\ cname' = [cname EXCEPT ![p] = "unread"]
    /\ made' = [made EXCEPT ![p] = NoAlias]
    /\ left' = [left EXCEPT ![p] = 0]
    /\ waited' = waited \ {p} /\ mixed' = mixed \ {p} /\ met' = met \ {p}

-----------------------------------------------------------------------------
(* The scheduler's goroutine                                               *)

(* The timer, then the daily ticker: CheckAllCerts.                        *)
RoundBegin ==
    /\ dead = "no"
    /\ round = {} /\ pc[Scheduler] = "idle"
    /\ round' = Alias
    /\ UNCHANGED <<dead, disk, request, pc, own, shared>>

(* Bug: a certificate leaves the round only when it is fresh.              *)
RoundNextRetries ==
    \E a \in round :
        /\ pc[Scheduler] = "idle"
        /\ Start(Scheduler, a)
        /\ round' = IF disk[a] = "fresh" THEN round \ {a} ELSE round
        /\ UNCHANGED <<dead, disk, request, shared>>
        /\ UNCHANGED <<local, left, cname, made, waited, mixed>>

(* The next certificate of the round; which one comes next is left open.   *)
RoundNext ==
    \E a \in round :
        /\ pc[Scheduler] = "idle"
        /\ Start(Scheduler, a)
        /\ round' = round \ {a}
        /\ UNCHANGED <<dead, disk, request, shared>>
        /\ UNCHANGED <<local, left, cname, made, waited, mixed>>

-----------------------------------------------------------------------------
(* CheckAndRenewCertStatus                                                 *)

(* auto_renew is off: CERT_NONE.                                           *)
Skip(p) ==
    /\ pc[p] = "local"
    /\ alias[p] \notin AutoRenew
    /\ Return(p)
    /\ UNCHANGED <<elsewhere, shared>>

ReadLocal(p) ==
    /\ pc[p] = "local"
    /\ alias[p] \in AutoRenew
    /\ local' = [local EXCEPT ![p] = disk[alias[p]]]
    /\ Goto(p, "probe")
    /\ UNCHANGED <<elsewhere, alias, left, cname, made, waited, mixed, met, shared>>

(* The live certificate is dialled when there is a domain_check: it may be *)
(* out of reach, and it counts only when there is no local one.  The dial  *)
(* takes time, and what was read before it is judged after it.             *)
ProbeResults(p) ==
    IF alias[p] \in Probed THEN {"unreachable", "fresh", "due"}
    ELSE {"unreachable"}

(* Bug: only a missing certificate is renewed.                             *)
ShouldRenewMissing(found, remote) == found = "none" /\ remote # "fresh"

(* Bug: the live certificate counts even when there is a local one.        *)
ShouldRenewByProbe(found, remote) == found = "due" \/ remote # "fresh"

ShouldRenew(found, remote) ==
    found = "due" \/ (found = "none" /\ remote # "fresh")

DecideRenew(p) ==
    /\ pc[p] = "probe"
    /\ \E remote \in ProbeResults(p) : ShouldRenew(local[p], remote)
    /\ local' = [local EXCEPT ![p] = "none"]   \* not used any more
    /\ Goto(p, "begin")
    /\ UNCHANGED <<elsewhere, alias, left, cname, made, waited, mixed, met, shared>>

(* CERT_VALID.                                                             *)
DecideValid(p) ==
    /\ pc[p] = "probe"
    /\ \E remote \in ProbeResults(p) : ~ShouldRenew(local[p], remote)
    /\ Return(p)
    /\ UNCHANGED <<elsewhere, shared>>

-----------------------------------------------------------------------------
(* RenewCert                                                               *)

(* Checks of the configuration, then the environment variable of the whole *)
(* process.                                                                *)
RejectConfig(p) ==
    /\ pc[p] = "begin"
    /\ alias[p] \in Incomplete
    /\ Return(p)
    /\ UNCHANGED <<elsewhere, shared>>

SetEnv(p) ==
    /\ pc[p] = "begin"
    /\ alias[p] \notin Incomplete
    /\ noCname' = (noCname \/ alias[p] \in DisableCname)
    /\ LET others == {q \in Proc : pc[q] \in Renewing} IN
       mixed' = IF others = {} THEN mixed ELSE mixed \cup others \cup {p}
    /\ Goto(p, "reset")
    /\ UNCHANGED <<elsewhere, alias, local, left, cname, made, waited, met,
                   project, once>>

(* Bug: the once is made with the manager and never reset.                 *)
ResetOnceForgotten(p) ==
    /\ pc[p] = "reset"
    /\ Goto(p, "setup")
    /\ UNCHANGED <<elsewhere, own, shared>>

(* cm.preCheckOnce = sync.Once{}, its mutex included: held or not, and     *)
(* whoever sleeps for it.                                                  *)
ResetOnce(p) ==
    /\ pc[p] = "reset"
    /\ once' = NewOnce
    /\ Goto(p, "setup")
    /\ UNCHANGED <<elsewhere, own, noCname, project>>

(* Bug: GCE_PROJECT is set only once, like a default.                      *)
SetupKeepsProject(p) ==
    /\ pc[p] = "setup"
    /\ project' = IF alias[p] \in Google /\ project = NoAlias THEN alias[p] ELSE project
    /\ Goto(p, "provider")
    /\ UNCHANGED <<elsewhere, own, noCname, once>>

(* The key, the lego client, and for Google GCE_PROJECT, which stays set.  *)
Setup(p) ==
    /\ pc[p] = "setup"
    /\ project' = IF alias[p] \in Google THEN alias[p] ELSE project
    /\ Goto(p, "provider")
    /\ UNCHANGED <<elsewhere, own, noCname, once>>

(* The DNS provider, which for Google reads it, and the ACME registration. *)
MakeProvider(p) ==
    /\ pc[p] = "provider"
    /\ made' = [made EXCEPT ![p] = IF alias[p] \in Google THEN project ELSE NoAlias]
    /\ \E n \in 1..MaxDomains : left' = [left EXCEPT ![p] = n]
    /\ Goto(p, "challenge")
    /\ UNCHANGED <<elsewhere, alias, local, cname, waited, mixed, met, shared>>

(* Obtain, for one name: lego reads the environment when it computes the   *)
(* record of the challenge, and calls dnsPreCheck before it validates.     *)
Challenge(p) ==
    /\ pc[p] = "challenge"
    /\ cname' = [cname EXCEPT ![p] = IF noCname THEN "disabled" ELSE "enabled"]
    /\ Goto(p, "once")
    /\ UNCHANGED <<elsewhere, alias, local, left, made, waited, mixed, met, shared>>

(* preCheckOnce.Do: the fast path, and the one that takes the mutex.       *)
OnceTest(p) ==
    /\ pc[p] = "once"
    /\ Goto(p, IF once.done THEN "poll" ELSE "lock")
    /\ UNCHANGED <<elsewhere, own, shared>>

(* A goroutine tries to lock it when it comes, and when it is woken.       *)
Tries(p) == pc[p] = "lock" \/ (pc[p] = "woken" /\ once.woken)

OnceLock(p) ==
    /\ Tries(p)
    /\ ~once.locked
    /\ once' = [once EXCEPT !.locked = TRUE,
                            !.woken = IF pc[p] = "lock" THEN @ ELSE FALSE]
    /\ Goto(p, IF once.done THEN "unlock" ELSE "sleep")
    /\ UNCHANGED <<elsewhere, own, noCname, project>>

OncePark(p) ==
    /\ Tries(p)
    /\ once.locked
    /\ once' = [once EXCEPT !.waiters = @ + 1,
                            !.woken = IF pc[p] = "lock" THEN @ ELSE FALSE]
    /\ Goto(p, "parked")
    /\ UNCHANGED <<elsewhere, own, noCname, project>>

(* Bug: the once is reset inside its own function, for the next request.   *)
SleepResets(p) ==
    /\ pc[p] = "sleep"
    /\ waited' = waited \cup {p}
    /\ once' = NewOnce
    /\ Goto(p, "unlock")
    /\ UNCHANGED <<elsewhere, alias, local, left, cname, made, mixed, met,
                   noCname, project>>

(* The 30 seconds for the DNS to propagate.                                *)
Sleep(p) ==
    /\ pc[p] = "sleep"
    /\ waited' = waited \cup {p}
    /\ once' = [once EXCEPT !.done = TRUE]
    /\ Goto(p, "unlock")
    /\ UNCHANGED <<elsewhere, alias, local, left, cname, made, mixed, met,
                   noCname, project>>

(* The mutex is free, for whoever tries first.                             *)
OnceUnlock(p) ==
    /\ pc[p] = "unlock"
    /\ once.locked
    /\ once.waiters = 0 \/ once.woken
    /\ once' = [once EXCEPT !.locked = FALSE]
    /\ Goto(p, "poll")
    /\ UNCHANGED <<elsewhere, own, noCname, project>>

(* It counts sleepers, and one is woken.  It may be one that the mutex was *)
(* replaced under, and that another will not be woken then.                *)
OnceHandOver(p) ==
    /\ pc[p] = "unlock"
    /\ once.locked
    /\ once.waiters > 0 /\ ~once.woken
    /\ once' = [once EXCEPT !.locked = FALSE, !.waiters = @ - 1, !.woken = TRUE]
    /\ \E q \in Proc :
        /\ pc[q] = "parked"
        /\ pc' = [pc EXCEPT ![p] = "poll", ![q] = "woken"]
    /\ UNCHANGED <<elsewhere, own, noCname, project>>

(* The runtime kills a process that unlocks an unlocked mutex, and one     *)
(* with a goroutine woken from a mutex that does not know of it.           *)
Broken(p) ==
    \/ pc[p] = "unlock" /\ ~once.locked
    \/ pc[p] = "woken" /\ ~once.woken

Fatal(p) == Broken(p) /\ Die("fatal")

(* Bug: one name too many.                                                 *)
PollOffByOne(p) ==
    /\ pc[p] = "poll"
    /\ left' = [left EXCEPT ![p] = @ - 1]
    /\ Goto(p, IF left[p] = 0 THEN "obtain" ELSE "challenge")
    /\ UNCHANGED <<elsewhere, alias, local, cname, made, waited, mixed, met, shared>>

(* The poll ends with the record seen or with its timeout, and goes on in  *)
(* both cases: to the next name, or to the certificate.                    *)
Poll(p) ==
    /\ pc[p] = "poll"
    /\ left' = [left EXCEPT ![p] = @ - 1]
    /\ Goto(p, IF left[p] = 1 THEN "obtain" ELSE "challenge")
    /\ UNCHANGED <<elsewhere, alias, local, cname, made, waited, mixed, met, shared>>

Obtain(p) ==
    /\ pc[p] = "obtain"
    /\ Goto(p, "save")
    /\ UNCHANGED <<elsewhere, own, shared>>

(* Bug: a failed exchange returns past the Unsetenv.                       *)
RenewFailsAtOnce(p) ==
    /\ pc[p] \in {"setup", "provider", "challenge", "poll", "obtain"}
    /\ Return(p)
    /\ UNCHANGED <<elsewhere, shared>>

(* A step of the ACME exchange fails.                                      *)
RenewFails(p) ==
    /\ pc[p] \in {"setup", "provider", "challenge", "poll", "obtain"}
    /\ Goto(p, "return")
    /\ UNCHANGED <<elsewhere, own, shared>>

(* SaveCert, as far as fullchain.pem goes: truncated, then written; the    *)
(* other files come after it.                                              *)
SaveTruncate(p) ==
    /\ pc[p] = "save"
    /\ disk' = [disk EXCEPT ![alias[p]] = "none"]
    /\ Goto(p, "fill")
    /\ UNCHANGED <<dead, round, request, own, shared>>

SaveFill(p) ==
    /\ pc[p] = "fill"
    /\ disk' = [disk EXCEPT ![alias[p]] = "fresh"]
    /\ Goto(p, "rest")
    /\ UNCHANGED <<dead, round, request, own, shared>>

(* The other files, whether they are written or one of them fails.         *)
SaveRest(p) ==
    /\ pc[p] = "rest"
    /\ Goto(p, "return")
    /\ UNCHANGED <<elsewhere, own, shared>>

SaveFails(p) ==
    /\ pc[p] \in {"save", "fill"}
    /\ Goto(p, "return")
    /\ UNCHANGED <<elsewhere, own, shared>>

(* The deferred Unsetenv, on every way out past SetEnv.                    *)
UnsetEnv(p) ==
    /\ pc[p] = "return"
    /\ noCname' = (noCname /\ alias[p] \notin DisableCname)
    /\ Return(p)
    /\ UNCHANGED <<elsewhere, project, once>>

-----------------------------------------------------------------------------
(* ExpireHandler, past its authentication                                  *)

(* A local expiry that is there is returned, which changes nothing; here   *)
(* there is none to read.  The argument remoteExpire may be absent; the    *)
(* zero time stands for it and is due.  One that does not parse ends the   *)
(* request and changes nothing.                                            *)
ExpireMiss(q, a, remote) ==
    /\ dead = "no" /\ request[q].at = "idle" /\ pc[q] = "idle"
    /\ disk[a] = "none"
    /\ request' = [request EXCEPT ![q] =
                     [at |-> IF remote = "fresh" THEN "answer" ELSE "spawn",
                      alias |-> a, given |-> remote # "absent"]]
    /\ UNCHANGED <<dead, disk, goroutines>>

ExpireSpawn(q) ==
    /\ request[q].at = "spawn"
    /\ Start(q, request[q].alias)
    /\ request' = [request EXCEPT ![q] =
                     [at |-> "answer", alias |-> request[q].alias,
                      given |-> request[q].given]]
    /\ UNCHANGED <<dead, disk, round, local, left, cname, made, waited, mixed, shared>>

(* The error of the local read is still there: the answer is its text.     *)
ExpireAnswer(q) ==
    /\ request[q].at = "answer"
    /\ ~request[q].given
    /\ request' = [request EXCEPT ![q] = IdleRequest]
    /\ UNCHANGED <<dead, disk, goroutines>>

(* time.Parse has overwritten it with nil: err.Error() panics, and without *)
(* a PanicView in main nothing recovers.                                   *)
ExpirePanic(q) ==
    /\ request[q].at = "answer"
    /\ request[q].given
    /\ Die("panic")

-----------------------------------------------------------------------------
(* The world around                                                        *)

(* Time passes: a certificate comes within the lead days of its end, on    *)
(* disk and where it was read and not judged yet.                          *)
ComesDue(a) ==
    LET Aged(found) == IF found = "fresh" THEN "due" ELSE found
        readers == {p \in Proc : alias[p] = a /\ local[p] = "fresh"} IN
    /\ disk[a] = "fresh" \/ readers # {}
    /\ disk' = [disk EXCEPT ![a] = Aged(disk[a])]
    /\ local' = [p \in Proc |-> IF p \in readers THEN "due" ELSE local[p]]
    /\ UNCHANGED <<dead, round, pc, alias, left, cname, made, waited, mixed, met,
                   shared, request>>

(* The host stops the process, or it is killed.                            *)
Crash ==
    /\ dead = "no"
    /\ Die("killed")

(* The init system starts it again.                                        *)
Restart ==
    /\ dead # "no"
    /\ dead' = "no"
    /\ UNCHANGED <<disk, goroutines, request>>

-----------------------------------------------------------------------------
Check(p) == Skip(p) \/ ReadLocal(p) \/ DecideRenew(p) \/ DecideValid(p)

Renew(p) ==
    \/ RejectConfig(p) \/ SetEnv(p) \/ ResetOnce(p) \/ Setup(p)
    \/ MakeProvider(p) \/ Challenge(p)
    \/ OnceTest(p) \/ OnceLock(p) \/ OncePark(p) \/ Sleep(p)
    \/ OnceUnlock(p) \/ OnceHandOver(p) \/ Fatal(p)
    \/ Poll(p) \/ Obtain(p) \/ RenewFails(p)
    \/ SaveTruncate(p) \/ SaveFill(p) \/ SaveRest(p) \/ SaveFails(p)
    \/ UnsetEnv(p)

Expire(q) ==
    \/ \E a \in Asked, remote \in {"absent", "fresh", "due"} :
          ExpireMiss(q, a, remote)
    \/ ExpireSpawn(q) \/ ExpireAnswer(q) \/ ExpirePanic(q)

Next ==
    \/ RoundBegin \/ RoundNext
    \/ \E p \in Proc : Check(p) \/ Renew(p)
    \/ \E q \in Request : Expire(q)
    \/ \E a \in Alias : ComesDue(a)
    \/ Crash \/ Restart

Spec == Init /\ [][Next]_vars

-----------------------------------------------------------------------------
(* Fairness.  A goroutine that can go on does: the scheduler's, whose      *)
(* timer fires, those of the requests, and the init system's restart.      *)
SchedulerStep == RoundBegin \/ RoundNext \/ Check(Scheduler) \/ Renew(Scheduler)

Running ==
    /\ WF_vars(SchedulerStep)
    /\ \A q \in Request : WF_vars(Check(q) \/ Renew(q))
    /\ WF_vars(Restart)

(* A live certificate that nobody replaces comes due, so a certificate     *)
(* that is missing and checked every day is found worth renewing one day.  *)
ComesDueLive(a) == SF_vars(alias[Scheduler] = a /\ DecideRenew(Scheduler))

Fails == \E p \in Proc : RenewFails(p) \/ SaveFails(p)

RunningSpec == Spec /\ Running

FairSpec == Spec /\ Running /\ \A a \in Probed : ComesDueLive(a)

-----------------------------------------------------------------------------
(* Properties                                                              *)

(* Type invariant.  A goroutine has an alias exactly while it runs, and    *)
(* names left to validate while it is at its challenges.                   *)
TypeOK ==
    /\ dead \in {"no", "killed", "panic", "fatal"}
    /\ disk \in [Alias -> Expiry]
    /\ round \subseteq Alias
    /\ pc \in [Proc -> Place]
    /\ alias \in [Proc -> Alias \cup {NoAlias}]
    /\ \A p \in Proc : pc[p] = "idle" <=> alias[p] = NoAlias
    /\ local \in [Proc -> Expiry]
    /\ left \in [Proc -> 0..MaxDomains]
    /\ cname \in [Proc -> {"unread", "disabled", "enabled"}]
    /\ made \in [Proc -> Alias \cup {NoAlias}]
    /\ waited \subseteq Proc /\ mixed \subseteq Proc /\ met \subseteq Proc
    /\ noCname \in BOOLEAN
    /\ project \in Alias \cup {NoAlias}
    /\ once \in [done : BOOLEAN, locked : BOOLEAN, waiters : Nat, woken : BOOLEAN]
    /\ request \in [Request -> ExpireRequests]
    /\ \A p \in Proc : pc[p] \in Challenges => left[p] > 0

(* Two of the things renewals share are not left behind: the variable that *)
(* disables CNAME support is set only while a renewal that set it runs,    *)
(* and the mutex is locked only while a goroutine that will unlock it is   *)
(* inside, whatever renewals overlapped, failed or gave up (the deferred   *)
(* Unsetenv; the unlock after the sleep).  GCE_PROJECT stays set for good. *)
CnameAndMutexFreed ==
    /\ noCname => \E p \in Proc : alias[p] \in DisableCname /\ pc[p] \in Renewing
    /\ once.locked => \E p \in Proc : pc[p] \in {"sleep", "unlock"}

(* A renewal overwrites only what it found to be missing or due.  A fresh  *)
(* certificate ages, but only a renewal whose check overlapped with        *)
(* another one of the same certificate truncates it: no lock keeps         *)
(* CheckAndRenewCertStatus to one goroutine, and what one finds on disk    *)
(* another may have begun to replace (scheduler.go:97, handlers.go:171).   *)
FreshKept ==
    [][\A a \in Alias : disk[a] = "fresh" =>
          \/ disk'[a] \in {"fresh", "due"}
          \/ \E p \in met : alias[p] = a /\ pc[p] = "save"]_vars

(* lego works for the certificate of a goroutine with that certificate's   *)
(* settings: "Disable CNAME support for DNS-01 challenge"                  *)
(* (certmanager.go:89), and the project of Google's DNS.                   *)
EnvOwn(p) ==
    /\ cname[p] # "unread" => (cname[p] = "disabled" <=> alias[p] \in DisableCname)
    /\ made[p] # NoAlias => made[p] = alias[p]

(* So it does, whatever renewals came before and however they ended and    *)
(* although the variables are the process's, for every renewal that does   *)
(* not overlap with another one.  One that does may be solved with         *)
(* another's settings.                                                     *)
EnvHonoured == \A p \in Proc \ mixed : EnvOwn(p)

(* "Reset sync.Once for this certificate request" (certmanager.go:94): no  *)
(* renewal polls the DNS, let alone goes on to the certificate, unless it  *)
(* has itself waited the 30 seconds after its own DNS API call, or         *)
(* overlaps with another one, whose wait may then do for both.             *)
OwnWait ==
    \A p \in Proc \ mixed :
        pc[p] \in {"poll", "obtain", "save", "fill", "rest"} => p \in waited

(* The process dies of a mutex that RenewCert has replaced while it was in *)
(* use only by a renewal that overlaps with another one; no other sleeps   *)
(* for it either (certmanager.go:95).                                      *)
NoFatal ==
    \A p \in Proc \ mixed : ~Broken(p) /\ pc[p] \notin {"parked", "woken"}

(* "the server triggers an async renewal and returns 500 for this request" *)
(* (README.md): an expire request never ends with the death of the server. *)
ExpireAnswered == dead # "panic"

(* Every round of the scheduler ends, whatever else renews, holds or       *)
(* replaces the pre-check's mutex, fails, or kills the process.            *)
RoundEnds ==
    (round # {} \/ pc[Scheduler] # "idle")
        ~> (round = {} /\ pc[Scheduler] = "idle")

(* Once the process stays up and attempts stop failing, every certificate  *)
(* with auto_renew that is missing or due gets a fresh fullchain.pem,      *)
(* whatever failed or interrupted attempts left behind.                    *)
Renewed ==
    <>[](dead = "no") /\ <>[][~Fails]_vars =>
        \A a \in AutoRenew \ Incomplete : disk[a] # "fresh" ~> disk[a] = "fresh"
=============================================================================
