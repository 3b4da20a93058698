# go-certsync in TLA+

TLA+ models of go-certsync, the TLC runs that check them on small instances,
and proofs, checked by TLAPS, that hold for every instance. `PROJECT.json` lists
the components, the runs, the definitions with the source lines they stand for,
the findings, the hazards and the theorems. Source paths below are relative to
the repository; `core/` is short for `src/core/`.

## The system

go-certsync has a **server**, which obtains certificates from Let's Encrypt and
keeps them in a directory, and **clients**, which fetch them and hand them to a
web server.

| component | state | operations |
|---|---|---|
| certificate directory (`core/cert/storage.go`, `zip.go`) | four PEM files per alias | `SaveCert`, `Read*`, `CertExists`, `CreateCertZip`, `ExtractCertZip` |
| scheduler (`core/server/scheduler.go`) | the timer, the position in the daily round | `Start`, `CheckAllCerts`, `CheckAndRenewCertStatus`, `ExpectedRenewAt` |
| certificate manager (`core/server/certmanager.go`) | `preCheckOnce`, the environment variables `LEGO_DISABLE_CNAME_SUPPORT` and `GCE_PROJECT` | `RenewCert`, `dnsPreCheck` |
| client API (`core/server/handlers.go`) | none of its own | `CheckHandler`, `ExpireHandler`, `DownloadHandler` |
| web API (`core/server/front.go`, `auth.go`) | none (JWT) | login, list, info, download, upload |
| configuration (`core/config`, `core/meta`, `server/main.go`) | `server.yml` | `ReadConfig`, `EnsureAdmin`, `WriteConfig` |
| client (`client/main.go`, `core/client/sync.go`) | `cert_update_dir` | `Sync`: `Check` or `CheckLocal`, `Download`, copy, `cert_update_cmd` |
| web pages (`src/frontend`) | the token in localStorage and in the store of each tab, the route, what the page shows | login, logout, navigation, list, detail, download, upload over the web API |

How they interact: the scheduler calls `RenewCert`, which calls `SaveCert`.
`ExpireHandler` starts `CheckAndRenewCertStatus` in a goroutine of its own, next
to the scheduler's. Uploads call `SaveCert` too. Downloads read the directory.
**None of this is locked.** The client polls over HTTP; it decides on what the
live web server serves, not on what it copied last time.

What is hard in it:

- *Concurrency.* Saves and downloads of one alias interleave one system call at
  a time; renewals share two environment variables and a `sync.Once` that
  `RenewCert` replaces while others may be inside it; renewals and uploads may
  save in another order than they obtained.
- *Failure.* Every step of a save, a renewal, a copy or a hook may fail, nothing
  is rolled back, and the process may be killed between any two steps.
- *Stale decisions.* The scheduler decides on an expiry read before a dial and
  an ACME exchange of minutes; the client on a check made before the download.
- *Late answers.* The web pages share localStorage between tabs and keep a second
  copy of the token each; a refusal or a login answer may come when the session
  it belongs to is over.
- *Time.* The scheduler's rounds, the time zone, the client's ticker and the lead
  of a renewal must fit together for a certificate to be live in time.
- *Liveness.* One goroutine renews all certificates; one ticker syncs.

`hazards` in `PROJECT.json` lists them with their lines.

What makes each component correct:

- directory: after an undisturbed save the files are that save's, whatever came
  before; a download that no save disturbs returns exactly that;
- scheduler and manager: a renewal that overlaps with no other runs with its own
  settings and its own wait, whatever overlapped before it; the CNAME variable
  and the mutex are freed; nothing fresh is overwritten, every round ends, every
  renewable certificate is renewed; no certificate runs out for want of a check, the time
  shown for a renewal is kept, and `Stop` returns;
- configuration: an account is announced before it counts, and neither it nor the
  certificates are lost to a later start;
- expire handler: a request is answered;
- session: a dropped token is not sent again, a working session is not lost, the
  page fits the session;
- client: the hook runs on a whole bundle, the live certificate never goes back
  and follows the server in the end; with the scheduler, it never runs out;
- download page: no indicator without a call, no certificate in another's dialog.

## Modules

| module | what it is |
|---|---|
| `CertStorage` | the directory of one alias: saves and downloads, one action per system call |
| `BundleRegister` | what the directory promises: a register of bundles with puts and asks |
| `MCCertStorage` | `CertStorage` with a bound on the saves, for TLC |
| `CertStorageProofs` | its theorems |
| `Renewal` | the server process: the scheduler's goroutine, those of expire requests, what they share, death and restart |
| `MCRenewal` | `Renewal` with its fairness and fewer initial states, for TLC |
| `RenewalProofs` | its theorems |
| `Schedule` | the scheduler over a clock: timer, ticker, rounds, `Stop`, the time shown for a renewal |
| `MCSchedule` | `Schedule` up to a horizon, with time zones, for TLC |
| `ScheduleProofs` | its theorems |
| `Delivery` | `Schedule` composed with a client on its own ticker |
| `MCDelivery` | `Delivery` up to a horizon, for TLC |
| `DeliveryProofs` | its theorems |
| `ServerStart` | the start of the server, in several processes, and `server.yml` |
| `ServerStartProofs` | its theorems |
| `FrontSession` | the admin's session: the tabs of one browser against the server's check of tokens |
| `MCFrontSession` | `FrontSession` with its symmetries, for TLC |
| `FrontSessionProofs` | its theorems |
| `FrontPages` | the page of downloads: list, dialog, busy row, calls answered in any order |
| `FrontPagesProofs` | its theorems |
| `ClientSync` | a client, composed with `CertStorage`: the client is the reader of the directory |
| `LiveCert` | what the client promises: expiries pass from the server to a stage and from there to the endpoint |
| `MCClientSync` | `ClientSync` with one save of each of two bundles, for TLC |
| `ClientSyncProofs` | its theorems |

Operators marked `Bug:` are not used by the specifications. Each is the
definition below it with a plausible mistake, and the property named beside it
in `mutants` fails when it takes that definition's place.

### CertStorage

A *bundle* is the pair (fullchain, privkey) of one `SaveCert`; a file derived
from bundle *b* holds *b*. `HasLeaf` and `HasChain` say how many PEM blocks a
fullchain decodes to, and so which files `SaveCert` writes (`Writes`). One
`os.WriteFile` is two steps, `Truncate` and `Write`, because the file is empty
in between for everybody else. `Missing`, `Empty` and `Torn` are the other
contents; `Torn` is what no single save wrote: the tail of a longer content, or
a write cut short. `SaveFails` may strike at every step, and `Crash` kills all
calls. A download is `GetBegin` (the stat) and four `Read`s; a file that is
missing makes it fail. Reads that fail for other reasons are left out.

History variables state the properties: `solo` the saves that met no other one,
`stored` the bundle of the last save when it was solo, `Torn` while or since a
save ran otherwise; `expect` what was stored when a download began; `over` the
bundles of the saves it overlapped. No action reads them.

### BundleRegister

The register: a put makes it undefined from its first effect on and defined
when it ends, if no other put was beside it; an ask is answered with parts that
are the register's value at its start, when that was defined and no put was
beside it. `CertStorage!RegisterSpec` is the refinement: the eight system calls
of a save map to one effect, stutters and one end.

### Renewal

`pc` is a goroutine's place in `CheckAndRenewCertStatus` and `RenewCert`. The
actions from `Skip` to `UnsetEnv` follow the code line by line. `Setup` sets
`GCE_PROJECT` for a Google provider, which `MakeProvider` makes from it; nobody
unsets that variable, so `project` keeps the last one. `challenge` stands for lego
computing a DNS-01 record, where it reads the CNAME variable.

`once` is `preCheckOnce` with the mutex inside it, because `RenewCert` overwrites
both (`ResetOnce`): `done`, `locked`, the number of goroutines the mutex knows to
sleep for it (`waiters`) and whether it has woken one. `OnceTest`, `OnceLock`,
`OncePark`, `Sleep`, `OnceUnlock` and `OnceHandOver` are `sync.Once.Do` and its
mutex. A goroutine that sleeps while the mutex is overwritten is known to nobody
and may sleep for ever; with three goroutines another one may be woken in its
place, or it in another's. Unlocking a mutex that is not locked, or being woken
from one that does not know of it (`Broken`), ends the process (`Fatal`). The mutex
is Go's in its normal mode, without spinning; its starvation mode only hands over
faster.

Of the disk only `fullchain.pem` matters here: it is `none` (missing, empty, does
not parse), `fresh` or `due`. `ComesDue` is time, which also passes between the
local read and the decision, over a dial of ten seconds. `ExpireMiss` to
`ExpirePanic` are `ExpireHandler`; `Die` is what a panic, a fatal error or a kill
does. `Asked` are the certificates whose clients send expire requests, a bound of
the runs. `cname`, `made`, `waited`, `mixed` and `met` are history: the settings
lego took, who has waited, which renewals have overlapped with another
(`SetEnv`), and which checks with another one of the same certificate (`Start`).
`EnvHonoured`, `OwnWait` and `NoFatal` are about the renewals that are not in
`mixed`, beside and after any that are; `FreshKept` excepts those in `met`. No
action reads them.

### Schedule

An instant is a number of ticks and `Day` of them are 24 hours; the wall clock
differs from it by an offset that changes once (`zone`), and `Date` is Go's
`time.Date`. `Start` is the first delay, `Fire` a select that takes the timer or
the ticker, `Check` the decision for one certificate, with the rounds' other
certificates in the time before and after it. `ExpireRenews` is the goroutine of
an expire request, `Look` the list and info handlers, which show
`ExpectedRenewAt`: the next check time of day after the threshold, *in UTC*, the
location of `NotAfter` (`NextRunAtUTC`), or after now in the local zone
(`NextRunAt`); `Stop` and `Quit` are `main` after `ListenAndServe` failed.
Time (`Tick`) does not pass what is due, nor `MaxRound` in a round: this is the
assumption that a round ends within a day, without which the ticker drops ticks.
`since`, `shown` and `began` are history.

### Delivery

`Schedule` with a client: its `remote` is the live certificate, and a sync
replaces it. `SyncStarts` is the ticker, `Ask`, `Fetch` and `Load` the check, the
download and the copy with the hook, which take `MaxSync` at most together; each
may see another state of the server. `Behind` is the comparison of `CheckHandler`
and `CheckLocal`. `trouble` is the last instant at which something failed, was
down, or somebody else changed the endpoint.

### ServerStart

`Launch`, `EnsureAdmin`, `Open`, `Write` and `Listen` are `main` from its start to
its port; `Generate` is `-g`. `server.yml` is its list of certificates and its
account. `os.OpenFile` with `O_TRUNC` empties it and `Write` fills it in one call,
which may be cut short (`Cut`) by an error, logged and survived (`WriteFails`), or
by the end of the process (`Die`). Nothing keeps processes apart before
`ListenAndServe`, so two may write over one another (`WriteOver`). `Edit` is the
operator, at any moment, between the open and the write of a process too, which
then writes over the operator's text (`OtherLength`); an editor that puts a new
file in the place of the old one is not modelled. A bcrypt hash is the password it fits, or `CutHash`.
`known`, `damaged`, `warned`, `given` and `settled` are history.

### FrontSession

`storage` is localStorage, shared by all tabs; `store` and `page` are the Pinia
store and the route of each. The interceptor takes the token of a request from
the first (`Attached`), the router guard asks the second (`Lands`). `asked` and
`granted` are the requests and the logins whose answers have not come; requests
of a tab with the same token are one. `issueJWT` signs nothing but the name, now
and the end, in whole seconds: all logins of one second get the same token
(`current`, until `Second`), and `twice` are those that several were given. The actions are the handlers: `Open`
(`loadPersisted`), `Visit`, `Ask`, `Login`, `LoginAnswered`, `Logout`, `Refused`
(`handleUnauthorized`). A navigation is one step with the mounting of the page
and its first request (`Navigates`). `Close` abandons what is in flight; a
reload is `Close` and `Open`. `Lapse` is the end of a token's eight hours, at
once for server and browser, whose clocks are taken to agree; `Rekey` a server
started again with another key. Requests of a page are not told apart by what
they ask for.

### FrontPages

The `ref`s of `views/Cert/Download/index.vue` and the calls in flight, counted for
each row. Its handlers are cut at their `await`s: `HandleDetail` and
`DetailAnswered`, `HandleDownload` and `DownloadAnswered`, `FetchList` and
`ListAnswered`. A click needs a button that does not spin and that no mask or
dialog covers (`Reachable`). Answers are successes, errors or timeouts, in any
order. `opened` and `late` are history.

### ClientSync

`Tick` to `Command` are the steps of `Sync`. `Dial` comes before the server's
file is read, in `Check` and `CheckLocal` alike. The download is that of
`CertStorage`: `Ask` is its `GetBegin`, and the handler's reads interleave with
saves. Files are copied in the order of `os.ReadDir`, truncated and then filled.
The web server (`Reload`) loads the pair in `cert_update_dir` when certificate
and key belong together and otherwise keeps the old one, as the nginx hook with
its `nginx -t` does; or it is restarted (`Restart`), as the hooks with
`systemctl restart` do, and then stays down (`up`) when there is no pair to load.
Somebody else may reload or restart it at any moment. `DialFails` is a sync that
finds the endpoint down. The hooks do not load
`cert_update_dir` itself: those for nginx, docker and qnap check that all four files
are there and copy them to the web server's own directory, the one for ubnt joins
key and chain in one file, the one for synology imports them. One directory stands
for both here, and a copy cut short in the hook for a copy cut short in `Sync`. The
lag between the two is not modelled.

`NewSave` is the server's next save, by a renewal or an upload, of any bundle:
nothing in the code keeps an older one from following a newer one. `newest` is the
latest expiry it has begun to save and `inOrder` whether it has begun each save
with the latest so far and not beside one of an older; both are history.

### LiveCert

The client's promise without dials, zips, files and hooks: the server issues
expiries, what is put on the stage is the server's and, as long as it issued them
in order (`ordered`), does not end before what is live, and the endpoint loads from
the stage only.
`ClientSync!KeepsPromise` is the refinement. The stage is the fullchain in
`cert_update_dir` when it is one bundle's. Saves, downloads and dials map to
stutters or issues, a copy and its failures to what happens to the stage, the hook,
a reload and a restart to loads or, when they keep the old pair, stutters.

## Runs

| run | shows | bounds |
|---|---|---|
| `StorageDownloads` | types; an undisturbed save leaves its bundle; clean zips, regular zips, no refusals; refinement of `BundleRegister` | 2 writers, 1 download, 2 saves, 3 bundles (none, one, two PEM blocks) |
| `RenewalShared` | types; what is shared is freed; own settings, own wait, no broken mutex, nothing fresh overwritten, but for what overlaps | 2 certificates of Google, one with CNAME support, 2 names each, requests for one of them, 1 at a time |
| `RenewalRounds` | rounds end and certificates are renewed, beside a renewal of an expire request | 3 certificates (one without auto_renew, one incomplete), 2 names each, 1 request at a time |
| `FrontTabs` | types; pages fit the store; dropped tokens are not sent, but for those of two logins of one second; working sessions are kept | 2 tabs, 2 tokens, any number of logins in their seconds |
| `FrontPages` | indicators backed by calls; no certificate in another's dialog; indicators end | 3 rows, 2 calls of a kind for each |
| `Schedule` | no certificate runs out for want of a check; the time shown is kept; `Stop` returns soon | days of 4 ticks, 20 ticks, lead 2 days, rounds of 1 tick, clock changes of -1 to 1 at 3 moments in 2 zones |
| `Delivery` | the live certificate follows and never runs out | days of 2 ticks, 16 ticks, lead 6 days, interval 5, syncs and rounds of 1 tick |
| `ServerStart` | announced and settled accounts, kept certificates | 2 processes, 3 passwords, 2 configurations |
| `ClientSync` | types; whole bundles; never backwards; convergence; refinement of `LiveCert` | 1 client, 1 writer, one save of each of 2 bundles in any order, the older without a chain |
| `RenewalExpire`, `FrontBounce`, `StartRotates` | see below | 1 certificate; 2 tabs; 1 process |

*Why these bounds are enough.* Two writers make every pairwise interleaving.
Downloads do not affect one another or any save, so one is as many as matter.
Two saves let one follow or meet another that left any files behind, and a
download begin on a stored bundle and overlap the next, or overlap both. Two
tabs and two tokens make every pair of a session and a straggler of another, in
the same tab and in the other. In `Renewal` two
goroutines are what it takes to share the variables and the once: the request's
meets the scheduler's on the same certificate and on another, and, as a goroutine
may overlap with the other and then renew again beside nobody, what they leave
behind is met too. Requests for both certificates make 5.3 million states, in which
the same properties hold. `RenewalRounds` takes one certificate of each kind of
configuration, and one initial state of those that no renewal writes. A sleeper
lost for ever takes three goroutines; the theorems have any number.
Two bundles suffice in `ClientSync` for old and new on each of server, directory
and endpoint, and a save of each in both orders for a server in and out of order;
there the restart of a web server on half a copy is left to moments at which
`cert_update_dir` can change, as it makes no difference between them. Two processes are what it takes to write over one another in
`ServerStart`, with a password for each and one of the operator's. Three rows in
`FrontPages` are the dialog's, a straggler's and one that is neither. In `Schedule`
a day has an instant before, at and after the check, and the horizon of five days
holds an expiry, a renewal and the expiry after it. `Delivery` takes shorter days
and no change of the clock, whose effect `Schedule` checks; its interval meets the
rounds in the worst phase, and its three expiries make a sync under way bring an
older certificate. In these instances the bounds of `InTime`, `Follows` and
`LiveInTime` are tight: with one tick less TLC finds a counterexample.
The proofs remove all these bounds where there is one.

### What the code does not do

Three runs expect a violation; the findings in `PROJECT.json` quote the text.

- `RenewalExpire`: an expire request with `remoteExpire` for a certificate the
  server does not have ends in a nil dereference at `handlers.go:194`, which
  nothing recovers. The client of README.md:272-276 sends exactly this request.
- `FrontBounce`: a session that the server refuses does not get the user to the
  login page. `handleUnauthorized` clears localStorage and not the store, and the
  guard asks the store.
- `StartRotates`: after a failed write of the generated account the password does
  not rotate on the next start, as `main.go:104` says: `WriteConfig` has emptied
  the file, and the next start ends there.

Other facts that shaped the models, and that their properties leave room for:

- *Directory.* A download in the truncation window of a save is a zip without that
  file (`zip.go:26`). A certificate without intermediates leaves the `chain.pem` of
  an earlier one, or, if it comes first, none, and its downloads fail;
  `NeverRefused` is about bundles with a chain.
- *Renewals.* Two at a time share the CNAME setting, the Google project and the
  wait of `dnsPreCheck`, so one may run with the other's, and either may replace
  the mutex the other holds and end the process. A second renewal of a certificate
  starts when an expire request finds it missing, which it is in the truncation
  window of a save too. Two run when an expire request has no `remoteExpire`, and
  until the panic otherwise. All this happens in `RenewalShared`; its properties
  say that nothing but the overlap does it, and that it ends with the overlap.
  `GCE_PROJECT` stays set for good, which a renewal alone does not notice, since it
  sets its own first.
- *Schedule.* The comment at `scheduler.go:184` has `nextRunAt` in the local zone.
  For `ExpectedRenewAt` it is UTC, because the threshold comes from an x509
  `NotAfter`: where the clock is not whole days off UTC, the time shown is never
  the local time of a check (theorem `ShownElsewhere`), and `PromiseKept` and
  `NotEarly` bound by how much the renewal misses it. The 24 hours of the ticker start when the first round ends, so the
  later rounds are late by its length, and by an hour after a change of the clock.
  Two checks may be `Gap` (a day, a round, and the larger of a round and a change
  of the clock) apart: with `renewal_lead_days: 1` a certificate may run out
  although everything works. A certificate exactly at the threshold when its check
  comes is renewed a day after the time shown. In autumn `nextRunAt` may return a
  time that is over, and the delay is then nothing.
- *Sessions.* Two logins of one second have the same token, so the second answer
  to a double Enter can bring back a session that has been logged out in between,
  and its requests are sent and accepted again; `LoggedOutEverywhere` excepts
  these tokens, and no other.
- *Client.* After a save out of order, an upload that ends earlier or two renewals
  that save in reverse, the live certificate may go back: the check sees one
  certificate and the download has the other. A web server restarted on half a copy does not come up, and the client
  never repairs it, because every sync gives up at its dial; `Converges` says so.
  The client's hook has no timeout, nor has the TLS handshake of a dial
  (`checker.go:55`): `MaxSync` and the fairness of the client assume that both
  end. While they run the client does not look at SIGTERM.
- *Configuration.* `-g` replaces `server.yml`, whatever it holds. A second server
  started by hand may rewrite the file before it finds the port taken. A hash that
  was cut short is kept by every later start as if it were an account.
  README.md:399 has the generated password changed "from the UI"; no page or handler
  does that, only an edit of `server.yml` (`Edit`).
- *Download page.* All rows share one busy alias and one loading flag, so the
  indicator of a button may be that of another row's call, or of the other call of
  the same row. A late detail may fill the dialog of another row; `DialogOf` bounds
  which. A download that fails with a 200 and a JSON body is told to nobody: the
  interceptor does not see an error and the page drops it (`index.vue:108-109`).

## Fairness

- `Renewal!Running`: the scheduler's goroutine and those of expire requests go
  on when they can: sleeps, tickers and polls end, and so do dials
  (`checker.go:19`, `certmanager.go:192`), but for their TLS handshake, which has no
  deadline and is assumed to end. lego's and the DNS providers'
  exchanges end in success or failure. A goroutine that sleeps for a mutex is
  woken by its unlock, or not at all when the mutex was replaced. The init
  system restarts a dead process. Crashes, panics and failures have no fairness
  and may go on for ever: `RoundEnds` allows that. `RoundEnds` is not claimed for
  two requests' goroutines beside the scheduler's: there it can lose its wake-up
  to another and sleep for ever.
- `Renewed` assumes that in the end the process stays up and attempts stop
  failing. `ComesDueLive`: a live certificate that nobody renews comes due, so a
  certificate that is missing on disk and still fresh live is renewed in the end.
- `ClientSync!SyncFairness`: the client's goroutine and its request's handler go
  on. `Converges` assumes that in the end every step is one of `Regular`, so that
  failures stop, that the server keeps one bundle with a chain and that the endpoint is not down for good; before that
  any number of failures may happen.
- `FrontPages!Fairness`: every call is answered or ends with axios' timeout of 30
  seconds (`request.ts:37`).
- `Schedule`, `Delivery` and `ServerStart` need none: their time bounds are safety
  properties, because time cannot pass what is due.

## Proofs

All theorems are for every value of the constants that satisfies the modules'
assumptions, and rest on no other assumption except where stated.

`CertStorageProofs`. `StoredOnDisk` is not inductive: it says nothing of a save
that is half done. The invariant `IInv` adds what a solo save has written so far
(the files before the one it is at), that the register is `Torn` once a save has
touched the directory, that a save that met no other is the only one, and, for a
download, which contents it may have read up to the file it is at. From it
follow `StoredOnDisk`, `CleanZip`, `RegularZip`, `NeverRefused`, and, with the
initial states and one case per action, the refinement of `BundleRegister`.

`RenewalProofs`. `CnameAndMutexFreed` is inductive together with the types and
the fact that a request about to start its goroutine has none: a step that sets
the variable or locks the mutex leaves its own goroutine as the witness, and no
step takes a goroutine out of the stretch of code that undoes it (`StaysFreed`).
With it go the facts of a renewal that overlaps with no other. Any two that are
inside `RenewCert` know of each other (`Solo`), so an unmixed one is alone; then the
variables and the mutex are its own, both ways (`Owns`, `OwnsAll`): nobody else is
there to have set or locked them, and what the ones before it left is undone or
overwritten by its own first lines. `EnvHonoured`, `OwnWait` and `NoFatal` follow.
For `FreshKept`, overlapping checks of a certificate know of each other (`Meets`), and
what an unmet check found on disk stays true until its save (`NoneFresher`), while
renewals of different certificates overlap. `SchedulerApart` says that without
requests nothing overlaps, so the scheduler alone satisfies all four without
exception. Where no certificate sets `disable_cname` and none is Google's, nothing
is ever set, and every renewal has its own settings in any overlap
(`EnvHonouredUndisturbed`).

`FrontSessionProofs`. `LoggedOutEverywhere` needs to know where a token can be
(`OnePlace`): one that was given to a single login and left localStorage is neither
back nor in an answer on its way, and no two answers bring the same. Lemmas say what a navigation does to
pages and requests, so that each handler's case is short. `PagesGuarded` is
inductive with the types; `WorkingKept` follows from the types alone.

`ScheduleProofs`. The invariant is about the instant by which the next check comes
(`Deadline`), which the place of the goroutine and its timer or ticker determine. It
is never more than a gap away, and either less than a gap after the last attempt
or before the certificate ends (`Checked`): a check that leaves a certificate alone
found it further from its end than the lead. `InTime` follows, because time does
not pass the deadline. `Shown` adds what a change of the clock does to the time
shown, by lemmas on `NextRunAt`, the only ones that look at time zones and at `%`.
`NextRunNearUTC` is what holds of the time shown in UTC, and `ShownElsewhere` says that
it is not the local time of a check. `NextRunSteady` is what the comment at
`scheduler.go:184` says of the timer, that `nextRunAt` is the first check time from
the given one on; it assumes a clock that does not change.
On the day of a change it is not so (see *Schedule* above).

`DeliveryProofs` keeps that invariant and adds the instants by which the server has
checked (`Ends`) and by which the client has synced (`Synced`). A certificate on the
server is `Good` when it lasts until both have acted once more, and a live one when
it lasts until the next sync (`Lasting`), or something failed less than the delay
before. `Carried` is the sync under way, with the second `MaxSync` of `Delay`.
`ScheduleImplemented` is the composition: every step of `Delivery` is one of the
scheduler's or leaves it alone, so what is proved of `Schedule` is not lost beside a
client; `ServerInTime` says so for `InTime` and `StopsSoon`.

`ServerStartProofs`. The account is settled only when nobody is about to write
(`Writer`), and whoever writes later has read the file since: so what they hold in
memory is the settled account. The same argument keeps the certificates, with the
emptied file as the case where the writer holds them.

`FrontPagesProofs`. An indicator has a call in flight that ends it; the invariant
says which calls may still bring a certificate to the dialog (`Coming`).

`ClientSyncProofs`. The types and the lemmas of `CertStorageProofs` about the
download are extended by what has been copied of it, which gives `WholeBundle`.
`Floor` is the least expiry a download may still read. While the server saves in
order it only rises (`FloorRises`), and `Ahead` keeps what is in `cert_update_dir`,
and what is on its way there, between what is live and the floor. Out of order
only `FromServer` is left: what the client has, the server has begun to save. The two
make every step one of `LiveCert` or a stutter (`LiveCertImplemented`), without a
condition on writers or their overlap. `NeverBackwards` follows from `LiveCert` alone
(`PromiseForward`, `NeverBackwardsHolds`).

*Only model-checked:* liveness (`RoundEnds`, `Renewed`, `Converges`, `Settles`),
which rests on fairness and `ENABLED`, out of the prover's reach. All invariants and
action properties of the passing runs are proved, for every value of the constants
and without conditions on the behaviour.

## Not modelled

- The auth token of the client API, passwords, the encoding of JWTs, form parsing,
  JSON envelopes, logging, proxies and the TLS handshake: sequential input and
  output.
- lego, DNS providers, the web server, the init system: external, by what the
  code relies on.
- Several servers on one directory; several clients (they do not share state
  that a client changes).
- What the list and info endpoints return beyond the time of the renewal;
  `UploadHandler`, `IndexHandler`, `GenerateSelfSignedCert` and `buildURL` are not
  reached from `main`.
- The client's configuration, which is read once and never written, apart from
  `-g`; flags and usage texts. An `interval` below zero makes `time.NewTicker`
  panic (`client/main.go:100`), and of two certificates with one alias the
  handlers see the last (`meta/server.go:46`), the scheduler both.
- The upload form of the web pages: two files and one call at a time. Its one late
  answer, a success, also clears files chosen in the meantime.
- Lost ticks: rounds are assumed shorter than a day and syncs shorter than the
  interval.

## What is left

1. `Renewal` composed with `CertStorage`, so that the expire request in the
   truncation window and the fresh-looking mismatched pair are states of one model.
   The product is beyond TLC at one action per system call; it needs a coarser
   directory.
2. The upload form, beside `FrontPages`.
