------------------------------ MODULE ClientSync ------------------------------
(***************************************************************************)
(* One client (client/main.go, core/client/sync.go) against the server's   *)
(* certificate directory of its alias (CertStorage, extended here): the    *)
(* client is the reader of the directory.  On every tick Sync dials the    *)
(* live endpoint, asks the server for the expiry of its fullchain.pem,     *)
(* downloads a zip when the live certificate ends earlier, copies the      *)
(* files one by one into cert_update_dir and runs cert_update_cmd, which   *)
(* reloads or restarts the web server behind the live endpoint.  Nothing   *)
(* is locked: the server may save between the check and the download, and  *)
(* during it, and the web server may be restarted on half a copy.          *)
(*                                                                         *)
(* Check and CheckLocal differ in who dials; both dial first and read the  *)
(* server's file second.                                                   *)
(***************************************************************************)
EXTENDS CertStorage, Naturals

CONSTANTS
    Client,   \* the client, the only reader
    Expiry    \* when the leaf of each bundle ends

ASSUME ClientAssumption ==
    /\ Reader = {Client}
    /\ Expiry \in [Bundle -> Nat]
    /\ Missing \notin Nat   \* told apart from an expiry

VARIABLES
    step,     \* where Sync is, "idle" between two ticks
    seen,     \* the bundle the live endpoint served when it was dialled
    tocopy,   \* the files of the zip still to be copied
    dest,     \* cert_update_dir
    live,     \* the bundle the web server loaded last
    up,       \* whether the web server runs
    newest,   \* history: the latest expiry the server has begun to save
    inOrder   \* history: it has begun each save with the latest one so far,
              \* and not beside one of an older

syncVars == <<step, seen, tocopy, dest, live, up>>
history == <<newest, inOrder>>
clientVars == <<syncVars, history>>
allVars == <<vars, clientVars>>

(* os.ReadDir sorts the names: cert, chain, fullchain, privkey.            *)
Rank == [f \in File |-> CASE f = "cert" -> 1 [] f = "chain" -> 2
                          [] f = "fullchain" -> 3 [] OTHER -> 4]

FirstToCopy == CHOOSE f \in tocopy : \A g \in tocopy : Rank[f] <= Rank[g]

SyncInit ==
    /\ Init
    /\ step = "idle"
    /\ live \in HasLeaf
    /\ seen = live
    /\ tocopy = {}
    /\ dest \in {NoFiles, [f \in File |-> IF f \in Writes(live) THEN live
                                          ELSE Missing]}
    /\ up = TRUE
    /\ newest = 0 /\ inOrder = TRUE

Goto(place) == step' = place

(* The request that the sync has, or had, open at the server is over for   *)
(* the client, with what it answered; its handler only reads.              *)
HangUp ==
    /\ reading' = [reading EXCEPT ![Client] = "idle"]
    /\ reply' = [reply EXCEPT ![Client] = "none"]
    /\ got' = [got EXCEPT ![Client] = NoFiles]
    /\ expect' = [expect EXCEPT ![Client] = Missing]
    /\ over' = [over EXCEPT ![Client] = {}]
    /\ UNCHANGED <<files, stored, saveVars>>

(* Bug: the list of files outlives the sync.                               *)
SyncEndsDirty ==
    /\ step' = "idle"
    /\ HangUp
    /\ UNCHANGED tocopy

(* Sync returns.                                                           *)
SyncEnds ==
    /\ step' = "idle"
    /\ HangUp
    /\ tocopy' = {}

-----------------------------------------------------------------------------
(* Sync                                                                    *)

(* The first sync when the client starts, the ticker's after that.         *)
Tick ==
    /\ step = "idle"
    /\ Goto("dial")
    /\ UNCHANGED <<vars, seen, tocopy, dest, live, up, history>>

Dial ==
    /\ step = "dial" /\ up
    /\ seen' = live
    /\ Goto("compare")
    /\ UNCHANGED <<vars, tocopy, dest, live, up, history>>

(* Bug: the copy of the last sync is compared, not the live certificate.   *)
LiveBeforeByDest(f) ==
    \/ files[f] \in HasLeaf
       /\ ~\E b \in HasLeaf : dest[f] = b /\ Expiry[b] >= Expiry[files[f]]
    \/ files[f] = Torn

(* Bug: every difference is an update.                                     *)
LiveBeforeOther(f) == files[f] \in HasLeaf /\ seen # files[f]

(* remoteExpiry.Before(localExpiry).  What a failed write left of a bundle *)
(* may still hold its leaf.                                                *)
LiveBefore(f) ==
    \/ files[f] \in HasLeaf /\ Expiry[seen] < Expiry[files[f]]
    \/ files[f] = Torn /\ Expiry[seen] < newest

NeedUpdate ==
    /\ step = "compare"
    /\ LiveBefore("fullchain")
    /\ Goto("ask")
    /\ UNCHANGED <<vars, seen, tocopy, dest, live, up, history>>

(* No update, or nothing to compare with: no file, or one that does not    *)
(* parse.                                                                  *)
NoUpdate ==
    /\ step = "compare"
    /\ ~LiveBefore("fullchain") \/ files["fullchain"] = Torn
    /\ SyncEnds
    /\ UNCHANGED <<seen, dest, live, up, history>>

(* The endpoint or the server cannot be reached, or answers with an error. *)
CheckFails ==
    /\ step \in {"dial", "compare"}
    /\ SyncEnds
    /\ UNCHANGED <<seen, dest, live, up, history>>

(* The endpoint does not answer: the sync is over before it has begun.     *)
DialFails ==
    /\ step = "dial" /\ ~up
    /\ SyncEnds
    /\ UNCHANGED <<seen, dest, live, up, history>>

Ask ==
    /\ step = "ask"
    /\ GetBegin(Client)
    /\ Goto("download")
    /\ UNCHANGED <<seen, tocopy, dest, live, up, history>>

(* The zip has arrived and is extracted to a new temporary directory.      *)
Extract ==
    /\ step = "download"
    /\ reply[Client] = "zip"
    /\ tocopy' = Zip(Client)
    /\ Goto("copy")
    /\ UNCHANGED <<vars, seen, dest, live, up, history>>

(* The server answers with an error, or died.                              *)
Refused ==
    /\ step = "download"
    /\ reading[Client] = "idle" /\ reply[Client] # "zip"
    /\ SyncEnds
    /\ UNCHANGED <<seen, dest, live, up, history>>

(* The 30 seconds are over, the connection breaks, or the extraction fails.*)
DownloadFails ==
    /\ step = "download"
    /\ SyncEnds
    /\ UNCHANGED <<seen, dest, live, up, history>>

(* os.Create truncates the file in cert_update_dir.                        *)
CopyOpen ==
    /\ step = "copy"
    /\ tocopy # {}
    /\ dest' = [dest EXCEPT ![FirstToCopy] = Empty]
    /\ Goto("fill")
    /\ UNCHANGED <<vars, seen, tocopy, live, up, history>>

CopyFill ==
    /\ step = "fill"
    /\ dest' = [dest EXCEPT ![FirstToCopy] = got[Client][FirstToCopy]]
    /\ tocopy' = tocopy \ {FirstToCopy}
    /\ Goto("copy")
    /\ UNCHANGED <<vars, seen, live, up, history>>

(* Bug: a copy that fails is skipped, and the next file is copied.         *)
CopyFailsGoesOn ==
    /\ step \in {"copy", "fill"} /\ tocopy # {}
    /\ tocopy' = tocopy \ {FirstToCopy}
    /\ Goto("copy")
    /\ UNCHANGED <<vars, seen, dest, live, up, history>>

(* A file cannot be opened, or only a part of it is written: the sync ends *)
(* with what it has copied so far.                                         *)
CopyFails ==
    /\ step \in {"copy", "fill"} /\ tocopy # {}
    /\ \/ UNCHANGED dest
       \/ step = "fill" /\ dest' = [dest EXCEPT ![FirstToCopy] = Torn]
    /\ SyncEnds
    /\ UNCHANGED <<seen, live, up, history>>

CopyDone ==
    /\ step = "copy"
    /\ tocopy = {}
    /\ Goto("command")
    /\ UNCHANGED <<vars, seen, tocopy, dest, live, up, history>>

(* The pair the web server finds, if the certificate and the key of it     *)
(* belong together.  Some hooks (init/post-script) first copy the files of *)
(* cert_update_dir to the web server's own directory; the model's one      *)
(* stands for both, and a copy of theirs that is cut short for one here.   *)
Pair == {b \in HasLeaf : dest["fullchain"] = b /\ dest["privkey"] = b}

(* A web server that runs loads a pair, and goes on with the old one when  *)
(* there is none.                                                          *)
Reload ==
    /\ \/ up /\ live' \in Pair
       \/ (~up \/ Pair = {}) /\ UNCHANGED live
    /\ UNCHANGED up

(* One that is restarted comes up with a pair only, or with the files it   *)
(* had before the first copy.                                              *)
Restart ==
    /\ up' = (Pair # {} \/ dest = NoFiles)
    /\ live' \in IF Pair # {} THEN Pair ELSE {live}

(* cert_update_cmd: the hook reloads the web server or restarts it.        *)
Command ==
    /\ step = "command"
    /\ Reload \/ Restart
    /\ SyncEnds
    /\ UNCHANGED <<seen, dest, history>>

(* The hook fails before it reloads anything.                              *)
CommandFails ==
    /\ step = "command"
    /\ SyncEnds
    /\ UNCHANGED <<seen, dest, live, up, history>>

(* The client is stopped or killed.                                        *)
ClientCrash ==
    /\ step # "idle"
    /\ SyncEnds
    /\ UNCHANGED <<seen, dest, live, up, history>>

(* Somebody else reloads the web server.                                   *)
OtherReload ==
    /\ Reload
    /\ UNCHANGED <<vars, step, seen, tocopy, dest, history>>

OtherRestart ==
    /\ Restart
    /\ UNCHANGED <<vars, step, seen, tocopy, dest, history>>

-----------------------------------------------------------------------------
(* The server saves what a renewal has obtained or an admin has uploaded.  *)
(* Nothing compares it with what is there: an upload may end earlier, and  *)
(* two renewals may save in another order than they obtained.              *)
NewSave ==
    \E w \in Writer, b \in Bundle :
        /\ SaveBegin(w, b)
        /\ newest' = IF Expiry[b] > newest THEN Expiry[b] ELSE newest
        /\ inOrder' = (inOrder /\ \A v \in Saving' : Expiry[bundle'[v]] = newest')
        /\ UNCHANGED syncVars

ServerStep ==
    /\ \/ \E w \in Writer : Truncate(w) \/ Write(w) \/ SaveFails(w)
       \/ Read(Client) \/ ReadFails(Client)
    /\ UNCHANGED clientVars

ServerCrash == Crash /\ UNCHANGED clientVars

ClientStep ==
    \/ Tick \/ Dial \/ DialFails \/ NeedUpdate \/ NoUpdate \/ Ask \/ Extract \/ Refused
    \/ CopyOpen \/ CopyFill \/ CopyDone \/ Command

(* Nothing goes wrong but in a save.                                       *)
Regular == ClientStep \/ OtherReload \/ ServerStep

Faults ==
    \/ CheckFails \/ DownloadFails \/ CopyFails \/ CommandFails
    \/ ClientCrash \/ ServerCrash \/ OtherRestart

SyncNext == Regular \/ NewSave \/ Faults

SyncSpec == SyncInit /\ [][SyncNext]_allVars

(* The ticker and the goroutine of the client, and the handler of its      *)
(* download.                                                               *)
SyncFairness ==
    /\ WF_allVars(ClientStep)
    /\ WF_allVars((Read(Client) \/ ReadFails(Client)) /\ UNCHANGED clientVars)

-----------------------------------------------------------------------------
(* Properties                                                              *)

Contents == [File -> Content]

(* Type invariant.  There are files to copy only while Sync copies.        *)
SyncTypeOK ==
    /\ TypeOK
    /\ step \in {"idle", "dial", "compare", "ask", "download", "copy", "fill",
                 "command"}
    /\ seen \in HasLeaf /\ live \in HasLeaf
    /\ up \in BOOLEAN
    /\ tocopy \subseteq File
    /\ tocopy # {} => step \in {"copy", "fill"}
    /\ step = "fill" => tocopy # {}
    /\ dest \in Contents
    /\ newest \in Nat /\ inOrder \in BOOLEAN

(* cert_update_cmd runs only when the whole bundle is in place: if the     *)
(* server's last save was undisturbed and none overlapped the download,    *)
(* every file of that save is in cert_update_dir, whatever an earlier sync *)
(* or a failed copy left there.                                            *)
WholeBundle ==
    step = "command" /\ expect[Client] \in Bundle /\ over[Client] = {} =>
        \A f \in Writes(expect[Client]) : dest[f] = expect[Client]

(* While the server saves in order, the live certificate never goes back   *)
(* to one that ends earlier, although the check, the download and the      *)
(* reload see different states of the server and cert_update_dir may be a  *)
(* mixture of several syncs.  After a save out of order it may: the check  *)
(* sees the newer one, and the download has the older.                     *)
NeverBackwards == [][inOrder => Expiry[live'] >= Expiry[live]]_allVars

(* The sync of one alias as LiveCert has it: the stage is the fullchain of *)
(* cert_update_dir, and empty while that is none the server had.           *)
Staged == IF dest["fullchain"] \in Bundle THEN Expiry[dest["fullchain"]]
          ELSE Missing

Promise == INSTANCE LiveCert WITH
    Nothing <- Missing, offer <- newest, ordered <- inOrder,
    staged <- Staged, live <- Expiry[live]

(* Downloads, copies, failures, kills and reloads in any order do no more  *)
(* than LiveCert: what gets into cert_update_dir is the server's, ends no  *)
(* earlier than what is live as long as the server saves in order, and the *)
(* endpoint serves only what was there.                                    *)
KeepsPromise == Promise!LiveSpec
=============================================================================
