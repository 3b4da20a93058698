----------------------------- MODULE FrontSession -----------------------------
(***************************************************************************)
(* The session of the admin in the web pages (src/frontend) against the    *)
(* server's JWT check (core/server/auth.go).  A session lives in three     *)
(* places that nothing keeps in step:                                      *)
(*   - localStorage, shared by all tabs, from which the interceptor of     *)
(*     utils/request.ts takes the token of each request;                   *)
(*   - the Pinia store of each tab, filled from localStorage when the tab  *)
(*     is loaded, which the router guard asks;                             *)
(*   - the server, which accepts a token for eight hours and only under    *)
(*     the key it was signed with.                                         *)
(* Answers come late, or for a page that is gone.  Credentials are right:  *)
(* a wrong password changes nothing of this.  A token says who and when,   *)
(* to the second: logins in the same second are given the same one.        *)
(***************************************************************************)
EXTENDS Naturals

CONSTANTS
    Tab,        \* the tabs of one browser
    Token,      \* the JWTs the server can issue; their number bounds the logins
    NoToken

ASSUME TokenAssumption == NoToken \notin Token

VARIABLES
    storage,    \* localStorage: TOKEN_KEY, and with it EXPIRES_KEY
    store,      \* the token in each tab's Pinia store
    page,       \* the route each tab is at
    redirect,   \* the query of the login page: where to go after the login
    asked,      \* the tokens on each tab's /front/api requests in flight
    granted,    \* the tokens in answers to each tab's logins in flight
    issued,     \* the tokens LoginHandler has issued
    current,    \* the one it issues in this second, NoToken if none yet
    working,    \* those authJWT accepts
    lapsed,     \* those whose eight hours are over
    twice,      \* history: those that several logins were given
    dropped     \* history: those that left localStorage

serverVars == <<issued, current, working, lapsed, twice>>
tabVars == <<storage, store, page, redirect, asked, granted, dropped>>
vars == <<tabVars, serverVars>>

Maybe == Token \cup {NoToken}
Work == {"download", "upload"}   \* the routes with requiresAuth
Closed == "closed"

Init ==
    /\ storage = NoToken
    /\ store = [t \in Tab |-> NoToken]
    /\ page = [t \in Tab |-> Closed]
    /\ redirect = [t \in Tab |-> "download"]
    /\ asked = [t \in Tab |-> {}]
    /\ granted = [t \in Tab |-> {}]
    /\ issued = {} /\ current = NoToken /\ working = {} /\ lapsed = {}
    /\ twice = {} /\ dropped = {}

-----------------------------------------------------------------------------
(* The building blocks of the handlers                                     *)

(* setItem and removeItem of both keys.                                    *)
Put(token) ==
    /\ storage' = token
    /\ dropped' = dropped \cup ({storage} \ {token, NoToken})

(* Bug: the requests carry the store's token.                              *)
AttachedOfStore(t) == store[t]

(* The token the request interceptor attaches, NoToken for no header.      *)
Attached(t) == storage

(* Bug: the guard lets every route pass.                                   *)
LandsUnguarded(to, token) == to

(* router.beforeEach: where a navigation ends, by the token in the store.  *)
Lands(to, token) ==
    IF token = NoToken THEN "login" ELSE IF to = "login" THEN "download" ELSE to

(* A navigation of tab t, which goes on with the requests in open.  A page *)
(* asks for the list of certificates when it is mounted.                   *)
Navigates(t, to, open) ==
    LET at == Lands(to, store'[t]) IN
    /\ page' = [page EXCEPT ![t] = at]
    /\ redirect' = [redirect EXCEPT ![t] = IF at = "login" /\ to \in Work
                                           THEN to ELSE "download"]
    /\ asked' = [asked EXCEPT ![t] =
                    IF at \in Work /\ at # page[t] THEN open \cup {Attached(t)'}
                    ELSE open]

-----------------------------------------------------------------------------
(* The tabs                                                                *)

(* Bug: the test of the expiry is the wrong way round.                     *)
PersistedReversed == IF storage \in lapsed THEN storage ELSE NoToken

(* loadPersisted: an expired token counts as absent.                       *)
Persisted == IF storage \in lapsed THEN NoToken ELSE storage

(* A tab is loaded at some address: the store is created by the guard.     *)
Open(t) ==
    /\ page[t] = Closed
    /\ Put(Persisted)
    /\ store' = [store EXCEPT ![t] = Persisted]
    /\ \E to \in Work \cup {"login"} : Navigates(t, to, {})
    /\ UNCHANGED <<granted, serverVars>>

(* A tab is closed or left, with its memory and its requests.  A reload is *)
(* Close and Open.                                                         *)
Close(t) ==
    /\ page[t] # Closed
    /\ page' = [page EXCEPT ![t] = Closed]
    /\ store' = [store EXCEPT ![t] = NoToken]
    /\ redirect' = [redirect EXCEPT ![t] = "download"]
    /\ asked' = [asked EXCEPT ![t] = {}]
    /\ granted' = [granted EXCEPT ![t] = {}]
    /\ UNCHANGED <<storage, dropped, serverVars>>

(* The menu, or an address typed by the user.                              *)
Visit(t) ==
    /\ page[t] # Closed
    /\ UNCHANGED <<storage, store, granted, dropped, serverVars>>
    /\ \E to \in Work \cup {"login"} : Navigates(t, to, asked[t])

(* A page asks for a list, a detail, a download or an upload.              *)
Ask(t) ==
    /\ page[t] \in Work
    /\ asked' = [asked EXCEPT ![t] = @ \cup {Attached(t)}]
    /\ UNCHANGED <<storage, store, page, redirect, granted, dropped, serverVars>>

(* Bug: the token stays in localStorage.                                   *)
LogoutKeeps(t) ==
    /\ page[t] \in Work
    /\ store' = [store EXCEPT ![t] = NoToken]
    /\ Navigates(t, "login", asked[t])
    /\ UNCHANGED <<storage, granted, dropped, serverVars>>

(* handleLogout, once confirmed.                                           *)
Logout(t) ==
    /\ page[t] \in Work
    /\ Put(NoToken)
    /\ store' = [store EXCEPT ![t] = NoToken]
    /\ Navigates(t, "login", asked[t])
    /\ UNCHANGED <<granted, serverVars>>

(* Submit, LoginHandler and issueJWT.  Nothing keeps the Enter key from    *)
(* submitting again while an answer is awaited.                            *)
Login(t) ==
    /\ page[t] = "login"
    /\ \E k \in IF current = NoToken THEN Token \ issued ELSE {current} :
        /\ issued' = issued \cup {k}
        /\ current' = k
        /\ working' = working \cup {k}
        /\ twice' = twice \cup ({k} \cap issued)
        /\ granted' = [granted EXCEPT ![t] = @ \cup {k}]
    /\ UNCHANGED <<storage, store, page, redirect, asked, lapsed, dropped>>

(* The answer arrives, wherever the tab is by now.  Another one with the   *)
(* same token may be left.                                                 *)
LoginAnswered(t) ==
    /\ \E k \in granted[t] :
        /\ Put(k)
        /\ store' = [store EXCEPT ![t] = k]
        /\ \/ granted' = [granted EXCEPT ![t] = @ \ {k}]
           \/ k \in twice /\ UNCHANGED granted
    /\ Navigates(t, IF page[t] = "login" THEN redirect[t] ELSE "download", asked[t])
    /\ UNCHANGED serverVars

(* The answer is lost, or comes after 30 seconds.                          *)
LoginFails(t) ==
    /\ \E k \in granted[t] : granted' = [granted EXCEPT ![t] = @ \ {k}]
    /\ UNCHANGED <<storage, store, page, redirect, asked, dropped, serverVars>>

(* A request ends without a 401: served, a business error, no answer.      *)
Answered(t) ==
    /\ \E k \in asked[t] : asked' = [asked EXCEPT ![t] = @ \ {k}]
    /\ UNCHANGED <<storage, store, page, redirect, granted, dropped, serverVars>>

(* A 401: handleUnauthorized takes the token out of localStorage, not out  *)
(* of the store, and navigates to the login page unless the tab is there.  *)
(* Other requests with the token refused may be left.                      *)
Refused(t) ==
    \E k \in asked[t] \ working : \E open \in {asked[t] \ {k}, asked[t]} :
        /\ Put(NoToken)
        /\ UNCHANGED <<store, granted, serverVars>>
        /\ IF page[t] = "login"
           THEN /\ asked' = [asked EXCEPT ![t] = open]
                /\ UNCHANGED <<page, redirect>>
           ELSE Navigates(t, "login", open)

-----------------------------------------------------------------------------
(* Time and the server                                                     *)

(* The second in which a token was issued is over.                         *)
Second ==
    /\ current # NoToken
    /\ current' = NoToken
    /\ UNCHANGED <<tabVars, issued, working, lapsed, twice>>

(* Bug: the expiry is not checked.                                         *)
LapseUnseen ==
    /\ \E k \in issued \ (lapsed \cup {current}) : lapsed' = lapsed \cup {k}
    /\ UNCHANGED <<tabVars, issued, current, working, twice>>

(* The eight hours of a token are over: authJWT refuses it from now on,    *)
(* and loadPersisted drops it.                                             *)
Lapse ==
    /\ \E k \in issued \ (lapsed \cup {current}) :
        /\ lapsed' = lapsed \cup {k}
        /\ working' = working \ {k}
    /\ UNCHANGED <<tabVars, issued, current, twice>>

(* The server is started again with another token in server.yml, and signs *)
(* with that.                                                              *)
Rekey ==
    /\ working # {}
    /\ working' = {}
    /\ current' = NoToken
    /\ UNCHANGED <<tabVars, issued, lapsed, twice>>

Next ==
    \/ \E t \in Tab :
        \/ Open(t) \/ Close(t) \/ Visit(t) \/ Ask(t) \/ Logout(t)
        \/ Login(t) \/ LoginAnswered(t) \/ LoginFails(t)
        \/ Answered(t) \/ Refused(t)
    \/ Second \/ Lapse \/ Rekey

Spec == Init /\ [][Next]_vars

-----------------------------------------------------------------------------
(* Properties                                                              *)

(* Types.  A token that works has been issued and is in its eight hours;   *)
(* that of this second works.                                              *)
TypeOK ==
    /\ storage \in Maybe
    /\ store \in [Tab -> Maybe]
    /\ page \in [Tab -> Work \cup {"login", Closed}]
    /\ redirect \in [Tab -> Work]
    /\ asked \in [Tab -> SUBSET Maybe]
    /\ granted \in [Tab -> SUBSET issued]
    /\ issued \subseteq Token
    /\ working \subseteq issued \ lapsed
    /\ lapsed \subseteq issued
    /\ current \in working \cup {NoToken}
    /\ twice \subseteq issued
    /\ dropped \subseteq issued

(* The pages follow the store through every late answer, bounce and        *)
(* logout: a work page is open only in a tab that has a token in its       *)
(* store, the login page only in one that has none (router/index.ts).      *)
PagesGuarded ==
    \A t \in Tab : /\ page[t] \in Work => store[t] # NoToken
                   /\ page[t] = "login" => store[t] = NoToken

(* A logout in one tab holds in all of them, although they go on showing   *)
(* their pages: no tab sends a token that has left localStorage, by a      *)
(* logout, a refusal or a later login, and no late answer brings it back.  *)
(* The one thing that does is a second login in the second of the first:   *)
(* issueJWT gave both the same token, and each answer stores it            *)
(* (auth.go:47-60, Login/index.vue).                                       *)
LoggedOutEverywhere ==
    [][\A t \in Tab : (asked'[t] \ asked[t]) \cap dropped \subseteq twice]_vars

(* A session that works survives reloads, tabs and answers that never come *)
(* (store/user.ts, utils/request.ts).  It is ended by a logout in some tab *)
(* or by a late refusal, which can only be that of another token: the one  *)
(* a request carried before the last login, or none.                       *)
WorkingKept ==
    [][(storage \in working /\ storage' = NoToken) =>
          \E t \in Tab : Logout(t) \/ (Refused(t) /\ asked[t] \ {storage} # {})]_vars

(* utils/request.ts:54: "On 401/unauthorized, clear token once and bounce  *)
(* to the login page."                                                     *)
Bounced ==
    [][\A t \in Tab : Refused(t) => page'[t] = "login"]_vars
=============================================================================
