----------------------------- MODULE CertStorage -----------------------------
(***************************************************************************)
(* The certificate directory of one alias (core/cert/storage.go) and the   *)
(* two operations the server runs on it, with no lock between them:        *)
(*                                                                         *)
(*   - SaveCert, called by a renewal (certmanager.go) or by an upload      *)
(*     (front.go), writes fullchain.pem, privkey.pem and, when the         *)
(*     fullchain has them, cert.pem and chain.pem.  os.WriteFile truncates *)
(*     the file when it opens it and fills it with a second system call,   *)
(*     so one file takes two steps and one save up to eight.               *)
(*   - a download (handlers.go, front.go) stats fullchain.pem, then reads  *)
(*     the four files one by one and zips the ones that are not empty.     *)
(*                                                                         *)
(* Contents are abstract: a bundle is the pair (fullchain, privkey) given  *)
(* to one SaveCert, and a file that SaveCert derived from bundle b holds   *)
(* the value b.  One read or one write system call is one step.            *)
(***************************************************************************)
CONSTANTS
    Bundle,    \* the bundles that may be saved
    HasLeaf,   \* those whose fullchain decodes to at least one PEM block
    HasChain,  \* those whose fullchain decodes to at least two PEM blocks
    Writer,    \* goroutines that may be inside SaveCert
    Reader,    \* requests that may be inside a download handler
    Missing,   \* content of a file that does not exist
    Empty,     \* content of a file that was truncated and not yet filled
    Torn       \* content that is not what one SaveCert wrote

ASSUME BundleAssumption ==
    /\ HasChain \subseteq HasLeaf
    /\ HasLeaf \subseteq Bundle
    /\ Missing \notin Bundle /\ Empty \notin Bundle /\ Torn \notin Bundle
    /\ Missing # Empty /\ Missing # Torn /\ Empty # Torn

VARIABLES
    files,    \* the content of each file of the directory
    \* SaveCert, of each writer
    at,       \* the file it is writing, or "idle"
    open,     \* the writers that have truncated that file
    bundle,   \* the bundle it is saving, Missing when idle
    \* a download, of each reader
    reading,  \* the file it reads next, or "idle"
    got,      \* the contents it has read
    reply,    \* its answer, or "none"
    \* history
    solo,     \* the writers whose save has met no other one so far
    stored,   \* the bundle of the last save, if it ran undisturbed
    expect,   \* what was stored when each download began
    over      \* the bundles of the saves each download overlapped

saveVars == <<at, open, bundle, solo>>
getVars == <<reading, got, reply, expect, over>>
vars == <<files, stored, saveVars, getVars>>

File == {"fullchain", "privkey", "cert", "chain"}

Content == Bundle \cup {Missing, Empty, Torn}

(* The register the directory stands for: Missing before the first save,   *)
(* Torn from the first truncation until an undisturbed save completes.     *)
Value == Bundle \cup {Missing, Torn}

(* extractCert and extractChain return nothing for a fullchain with too    *)
(* few PEM blocks, and SaveCert then leaves cert.pem or chain.pem alone.   *)
Writes(b) == {"fullchain", "privkey"}
                 \cup (IF b \in HasLeaf THEN {"cert"} ELSE {})
                 \cup (IF b \in HasChain THEN {"chain"} ELSE {})

(* The order of the files, the same in SaveCert and in a download.         *)
Following(f) == CASE f = "fullchain" -> "privkey"
                  [] f = "privkey"   -> "cert"
                  [] f = "cert"      -> "chain"
                  [] OTHER           -> "idle"

(* Bug: SaveCert returns once the key is written.                          *)
AfterWriteKey(f, b) == IF f = "fullchain" THEN "privkey" ELSE "idle"

(* Bug: a key that is there is kept.                                       *)
AfterWriteKeepsKey(f, b) ==
    CASE f = "fullchain" /\ files["privkey"] = Missing -> "privkey"
      [] f \in {"fullchain", "privkey"} /\ b \in HasLeaf -> "cert"
      [] f = "cert" /\ b \in HasChain -> "chain"
      [] OTHER -> "idle"

(* Bug: the end is not recognised.                                         *)
AfterWriteNone(f, b) == IF f = "fullchain" THEN "privkey" ELSE "none"

AfterWrite(f, b) == IF Following(f) \in Writes(b) THEN Following(f) ELSE "idle"

NoFiles == [f \in File |-> Missing]

Saving == {w \in Writer : at[w] # "idle"}

Init ==
    /\ files = NoFiles
    /\ at = [w \in Writer |-> "idle"]
    /\ open = {}
    /\ bundle = [w \in Writer |-> Missing]
    /\ solo = {}
    /\ reading = [r \in Reader |-> "idle"]
    /\ got = [r \in Reader |-> NoFiles]
    /\ reply = [r \in Reader |-> "none"]
    /\ expect = [r \in Reader |-> Missing]
    /\ over = [r \in Reader |-> {}]
    /\ stored = Missing

-----------------------------------------------------------------------------
(* SaveCert                                                                *)

(* The call starts: MkdirAll.  The directory itself is not modelled.       *)
SaveBegin(w, b) ==
    /\ at[w] = "idle"
    /\ at' = [at EXCEPT ![w] = "fullchain"]
    /\ bundle' = [bundle EXCEPT ![w] = b]
    /\ solo' = IF Saving = {} THEN {w} ELSE {}
    /\ over' = [r \in Reader |-> IF reading[r] = "idle" THEN over[r]
                                 ELSE over[r] \cup {b}]
    /\ UNCHANGED <<files, stored, open, reading, got, reply, expect>>

(* Bug: the file is opened without O_TRUNC.                                *)
TruncateNot(w) ==
    /\ at[w] # "idle" /\ w \notin open
    /\ files' = [files EXCEPT ![at[w]] = IF @ = Missing THEN Empty ELSE @]
    /\ open' = open \cup {w}
    /\ stored' = Torn
    /\ UNCHANGED <<at, bundle, solo, getVars>>

(* Bug: the old file is removed before the new one is made.                *)
TruncateRemoves(w) ==
    /\ at[w] # "idle" /\ w \notin open
    /\ files' = [files EXCEPT ![at[w]] = Missing]
    /\ open' = open \cup {w}
    /\ stored' = Torn
    /\ UNCHANGED <<at, bundle, solo, getVars>>

(* os.WriteFile opens the file: created if missing, truncated otherwise.   *)
Truncate(w) ==
    /\ at[w] # "idle" /\ w \notin open
    /\ files' = [files EXCEPT ![at[w]] = Empty]
    /\ open' = open \cup {w}
    /\ stored' = Torn
    /\ UNCHANGED <<at, bundle, solo, getVars>>

(* The call of w is over, with or without an error.                        *)
SaveEnds(w) ==
    /\ at' = [at EXCEPT ![w] = "idle"]
    /\ bundle' = [bundle EXCEPT ![w] = Missing]
    /\ solo' = solo \ {w}

(* os.WriteFile writes the content at offset 0 and closes the file.  If    *)
(* another save filled the file since w truncated it, a longer content     *)
(* keeps its tail.  The last file ends the call.                           *)
Write(w) ==
    LET next == AfterWrite(at[w], bundle[w])
    IN  /\ w \in open
        /\ \/ files' = [files EXCEPT ![at[w]] = bundle[w]]
           \/ /\ files[at[w]] \notin {Empty, bundle[w]}
              /\ files' = [files EXCEPT ![at[w]] = Torn]
        /\ open' = open \ {w}
        /\ \/ /\ next # "idle"
              /\ at' = [at EXCEPT ![w] = next]
              /\ UNCHANGED <<bundle, solo, stored>>
           \/ /\ next = "idle"
              /\ SaveEnds(w)
              /\ stored' = IF w \in solo THEN bundle[w] ELSE stored
        /\ UNCHANGED getVars

(* Bug: a save that fails removes the file it was at.                      *)
SaveFailsRemoves(w) ==
    /\ at[w] # "idle"
    /\ files' = [files EXCEPT ![at[w]] = Missing]
    /\ open' = open \ {w}
    /\ SaveEnds(w)
    /\ UNCHANGED <<stored, getVars>>

(* A step of SaveCert fails and the call returns its error: nothing is     *)
(* undone.  A failed write may have written a part of the content.         *)
SaveFails(w) ==
    /\ at[w] # "idle"
    /\ \/ UNCHANGED files
       \/ w \in open /\ files' = [files EXCEPT ![at[w]] = Torn]
    /\ open' = open \ {w}
    /\ SaveEnds(w)
    /\ UNCHANGED <<stored, getVars>>

-----------------------------------------------------------------------------
(* DownloadHandler and FrontDownloadHandler, past their authentication     *)

(* CertExists: 404 when there is no fullchain.pem.                         *)
GetBegin(r) ==
    /\ reading[r] = "idle"
    /\ \/ /\ files["fullchain"] = Missing
          /\ reply' = [reply EXCEPT ![r] = "notfound"]
          /\ UNCHANGED reading
       \/ /\ files["fullchain"] # Missing
          /\ reply' = [reply EXCEPT ![r] = "none"]
          /\ reading' = [reading EXCEPT ![r] = "fullchain"]
    /\ got' = [got EXCEPT ![r] = NoFiles]
    /\ expect' = [expect EXCEPT ![r] = stored]
    /\ over' = [over EXCEPT ![r] = {bundle[w] : w \in Saving}]
    /\ UNCHANGED <<files, stored, saveVars>>

(* One os.ReadFile; the last file completes the zip.                       *)
Read(r) ==
    LET f == reading[r]
    IN  /\ f # "idle"
        /\ files[f] # Missing
        /\ got' = [got EXCEPT ![r] = [@ EXCEPT ![f] = files[f]]]
        /\ reading' = [reading EXCEPT ![r] = Following(f)]
        /\ reply' = IF f = "chain" THEN [reply EXCEPT ![r] = "zip"] ELSE reply
        /\ UNCHANGED <<files, stored, saveVars, expect, over>>

(* os.ReadFile fails and the download answers with an error.               *)
ReadFails(r) ==
    /\ reading[r] # "idle"
    /\ files[reading[r]] = Missing
    /\ reading' = [reading EXCEPT ![r] = "idle"]
    /\ reply' = [reply EXCEPT ![r] = "failed"]
    /\ UNCHANGED <<files, stored, saveVars, got, expect, over>>

(* CreateCertZip leaves out every file whose content is empty.             *)
Zip(r) == {f \in File : got[r][f] \notin {Missing, Empty}}

-----------------------------------------------------------------------------
(* The server process dies with its calls; the directory keeps what        *)
(* reached it.                                                             *)
Crash ==
    /\ Saving # {} \/ \E r \in Reader : reading[r] # "idle"
    /\ at' = [w \in Writer |-> "idle"]
    /\ open' = {}
    /\ bundle' = [w \in Writer |-> Missing]
    /\ solo' = {}
    /\ reading' = [r \in Reader |-> "idle"]
    /\ reply' = [r \in Reader |-> IF reading[r] = "idle" THEN reply[r]
                                  ELSE "none"]
    /\ UNCHANGED <<files, stored, got, expect, over>>

Next ==
    \/ \E w \in Writer, b \in Bundle : SaveBegin(w, b)
    \/ \E w \in Writer : Truncate(w) \/ Write(w) \/ SaveFails(w)
    \/ \E r \in Reader : GetBegin(r) \/ Read(r) \/ ReadFails(r)
    \/ Crash

Spec == Init /\ [][Next]_vars

-----------------------------------------------------------------------------
(* Properties                                                              *)

(* Type invariant: files, calls and the register stay within their types,  *)
(* and the saves that run are the ones that have a bundle.                 *)
TypeOK ==
    /\ files \in [File -> Content]
    /\ at \in [Writer -> File \cup {"idle"}]
    /\ bundle \in [Writer -> Bundle \cup {Missing}]
    /\ \A w \in Writer : at[w] = "idle" <=> bundle[w] = Missing
    /\ open \subseteq Saving
    /\ solo \subseteq Saving
    /\ reading \in [Reader -> File \cup {"idle"}]
    /\ got \in [Reader -> [File -> Content]]
    /\ reply \in [Reader -> {"none", "notfound", "failed", "zip"}]
    /\ expect \in [Reader -> Value]
    /\ over \in [Reader -> SUBSET Bundle]
    /\ stored \in Value

(* Whenever the last save ran to its end without another one beside it,    *)
(* every file SaveCert writes for that bundle holds that bundle, whatever  *)
(* failed, overlapping or interrupted saves left in the directory before:  *)
(* the certificate and the key on disk belong together.  And as long as no *)
(* save has touched the directory there is no file in it.                  *)
StoredOnDisk ==
    /\ stored \in Bundle => \A f \in Writes(stored) : files[f] = stored
    /\ stored = Missing => \A f \in File : files[f] = Missing

(* A download that no save overlapped, of a directory whose last save was  *)
(* undisturbed, zips that save's files and no other version of them.       *)
CleanZip ==
    \A r \in Reader :
        reply[r] = "zip" /\ expect[r] \in Bundle /\ over[r] = {} =>
            \A f \in Writes(expect[r]) : got[r][f] = expect[r]

(* A download that saves did overlap is regular file by file: each file it *)
(* returns is the one stored when it began or one an overlapping save      *)
(* wrote (possibly cut short), never an older version.                     *)
RegularZip ==
    \A r \in Reader :
        reply[r] = "zip" /\ expect[r] \in Bundle =>
            \A f \in Writes(expect[r]) :
                got[r][f] \in {expect[r], Empty, Torn} \cup over[r]

(* A renewal in progress never makes a download fail: once a bundle with a *)
(* chain is stored, no later download is refused, whatever saves overlap   *)
(* it, because SaveCert truncates files and never removes one.             *)
NeverRefused ==
    \A r \in Reader :
        expect[r] \in HasChain => reply[r] \notin {"notfound", "failed"}

-----------------------------------------------------------------------------
(* What the store promises                                                 *)

(* The contents of a download count once it has ended with a zip.          *)
Parts(r) == IF reply[r] = "zip" THEN got[r] ELSE NoFiles

Register == INSTANCE BundleRegister WITH
    Parts <- Writes,
    Part <- File,
    Full <- HasChain,
    Absent <- Missing,
    Cut <- Empty,
    Undefined <- Torn,
    register <- stored,
    putting <- bundle,
    alone <- solo,
    asking <- {r \in Reader : reading[r] # "idle"},
    parts <- [r \in Reader |-> Parts(r)]

(* The eight system calls of a save and the five of a download are the     *)
(* puts and gets of a register: SaveCert and the download handlers promise *)
(* no less than BundleRegister.                                            *)
RegisterSpec == Register!AbsSpec
=============================================================================
