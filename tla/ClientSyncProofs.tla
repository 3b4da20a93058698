-------------------------- MODULE ClientSyncProofs --------------------------
(***************************************************************************)
(* Proofs about ClientSync, for every set of bundles and any expiries.     *)
(* The invariant of the directory (CertStorageProofs) holds here too: the  *)
(* client adds to its steps only that it may hang up.                      *)
(***************************************************************************)
EXTENDS ClientSync, CertStorageProofs

(* From the extraction on the download stays what it was, and the files    *)
(* of the zip that are no longer to be copied are in place.                *)
Copied ==
    step \in {"copy", "fill", "command"} =>
        /\ reading[Client] = "idle" /\ reply[Client] = "zip"
        /\ \A f \in Zip(Client) \ tocopy : dest[f] = got[Client][f]

SyncInv == IInv /\ SyncTypeOK /\ Copied

-----------------------------------------------------------------------------
(* The order of the copies picks one of the files to be copied.            *)
LEMMA FirstInRange ==
    ASSUME tocopy \subseteq File, tocopy # {}
    PROVE  FirstToCopy \in tocopy
<1>1. \E f \in tocopy : \A g \in tocopy : Rank[f] <= Rank[g]
  <2>1. \A f \in File : Rank[f] = CASE f = "cert" -> 1 [] f = "chain" -> 2
                                    [] f = "fullchain" -> 3 [] OTHER -> 4
    BY DEF Rank
  <2>2. /\ Rank["cert"] = 1 /\ Rank["chain"] = 2
        /\ Rank["fullchain"] = 3 /\ Rank["privkey"] = 4
    BY <2>1 DEF File
  <2>3. \A g \in tocopy : g \in {"cert", "chain", "fullchain", "privkey"}
    BY DEF File
  <2>4. CASE "cert" \in tocopy
    BY <2>2, <2>3, <2>4
  <2>5. CASE "cert" \notin tocopy /\ "chain" \in tocopy
    BY <2>2, <2>3, <2>5
  <2>6. CASE tocopy \cap {"cert", "chain"} = {} /\ "fullchain" \in tocopy
    BY <2>2, <2>3, <2>6
  <2>7. CASE tocopy = {"privkey"}
    BY <2>2, <2>7
  <2>8. QED
    BY <2>3, <2>4, <2>5, <2>6, <2>7
<1>2. QED
  BY <1>1 DEF FirstToCopy

(* A client that hangs up leaves the directory's invariant alone.          *)
LEMMA HangUpInv == IInv /\ HangUp => IInv'
<1> SUFFICES ASSUME IInv, HangUp PROVE IInv'
  OBVIOUS
<1> USE DEF IInv, HangUp, saveVars
<1>1. Saving' = Saving
  BY DEF Saving
<1>2. ASSUME NEW r \in Reader
      PROVE  \/ reading'[r] = "idle" /\ reply'[r] = "none"
             \/ /\ reading'[r] = reading[r] /\ reply'[r] = reply[r]
                /\ got'[r] = got[r] /\ expect'[r] = expect[r] /\ over'[r] = over[r]
  BY DEF TypeOK
<1>3. TypeOK'
  <2>1. NoFiles \in [File -> Content]
    BY DEF NoFiles, Content
  <2>2. QED
    BY <1>1, <2>1 DEF TypeOK, Value, Content
<1>4. StoredOnDisk' /\ SoloAlone' /\ TouchedTorn' /\ SoloProgress'
  BY <1>1 DEF StoredOnDisk, SoloAlone, TouchedTorn, SoloProgress
<1>5. GetProgress'
  BY <1>1, <1>2 DEF GetProgress, Fair
<1>6. GetDone'
  BY <1>2 DEF GetDone, Fair
<1>7. QED
  BY <1>3, <1>4, <1>5, <1>6

(* What a step of the whole system is for the directory.                   *)
LEMMA DirectoryStep == [SyncNext]_allVars => [Next]_vars \/ HangUp
<1> USE ClientAssumption
<1>1. ASSUME ClientStep PROVE [Next]_vars \/ HangUp
  <2>1. CASE Ask
    BY <2>1 DEF Ask, Next
  <2>2. CASE UNCHANGED vars
    BY <2>2
  <2>3. CASE DialFails \/ NoUpdate \/ Refused \/ Command
    BY <2>3 DEF DialFails, NoUpdate, Refused, Command, SyncEnds
  <2>4. QED
    BY <1>1, <2>1, <2>2, <2>3 DEF ClientStep, Tick, Dial, NeedUpdate, Extract,
       CopyOpen, CopyFill, CopyDone
<1>2. ASSUME Regular \/ NewSave PROVE [Next]_vars \/ HangUp
  BY <1>1, <1>2 DEF Regular, OtherReload, NewSave, ServerStep, Next
<1>3. ASSUME Faults PROVE [Next]_vars \/ HangUp
  BY <1>3 DEF Faults, CheckFails, DownloadFails, CopyFails, CommandFails,
     ClientCrash, ServerCrash, OtherRestart, SyncEnds, Next
<1>4. QED
  BY <1>2, <1>3 DEF SyncNext, allVars

(* The directory's invariant, whatever the client does.                    *)
LEMMA DirectoryInv == IInv /\ [SyncNext]_allVars => IInv'
BY DirectoryStep, InvStep, HangUpInv

-----------------------------------------------------------------------------
(* The client's own variables                                              *)

LEMMA SyncInitInv == SyncInit => SyncInv
<1> SUFFICES ASSUME SyncInit PROVE SyncInv
  OBVIOUS
<1>1. IInv
  BY InitInv DEF SyncInit
<1>2. live \in Content /\ Missing \in Content
  BY BundleAssumption DEF SyncInit, Content
<1>3. dest \in Contents
  BY <1>2 DEF SyncInit, Contents, NoFiles
<1>4. SyncTypeOK
  BY <1>1, <1>3 DEF SyncTypeOK, SyncInit, IInv
<1>5. Copied
  BY DEF Copied, SyncInit
<1>6. QED
  BY <1>1, <1>4, <1>5 DEF SyncInv

LEMMA SyncTypeStep ==
    ASSUME SyncInv, [SyncNext]_allVars, TypeOK'
    PROVE  SyncTypeOK'
<1> USE BundleAssumption, ClientAssumption DEF SyncTypeOK, Goto, SyncEnds, history
<1>1. dest \in [File -> Content] /\ got \in [Reader -> [File -> Content]]
  BY DEF SyncInv, Contents, TypeOK
<1>2. CASE Tick \/ Dial \/ DialFails \/ NeedUpdate \/ NoUpdate \/ Ask \/ Refused
  BY <1>2 DEF SyncInv, Tick, Dial, DialFails, NeedUpdate, NoUpdate, Ask, Refused
<1>3. CASE Extract
  BY <1>3 DEF SyncInv, Extract, Zip
<1>4. CASE CopyOpen
  <2>1. dest' \in [File -> Content]
    BY <1>1, <1>4 DEF CopyOpen, Content
  <2>2. QED
    BY <1>4, <2>1 DEF SyncInv, CopyOpen, Contents
<1>5. CASE CopyFill
  <2>1. FirstToCopy \in File
    BY <1>5, FirstInRange DEF SyncInv, CopyFill
  <2>2. dest' \in [File -> Content]
    BY <1>1, <1>5, <2>1 DEF CopyFill
  <2>3. QED
    BY <1>5, <2>2 DEF SyncInv, CopyFill, Contents
<1>6. CASE CopyFails
  <2>1. dest' \in [File -> Content]
    BY <1>1, <1>6 DEF CopyFails, Content
  <2>2. QED
    BY <1>6, <2>1 DEF SyncInv, CopyFails, Contents
<1>7. CASE CopyDone
  BY <1>7 DEF SyncInv, CopyDone
<1>8. Reload \/ Restart => live' \in HasLeaf /\ up' \in BOOLEAN
  BY DEF SyncInv, Reload, Restart, Pair
<1>9. CASE Command \/ OtherReload \/ OtherRestart
  BY <1>8, <1>9 DEF SyncInv, Command, OtherReload, OtherRestart
<1>10. CASE CheckFails \/ DownloadFails \/ CommandFails \/ ClientCrash
  BY <1>10 DEF SyncInv, CheckFails, DownloadFails, CommandFails, ClientCrash
<1>11. CASE NewSave
  BY <1>11 DEF SyncInv, NewSave, syncVars
<1>12. CASE ServerStep \/ ServerCrash \/ UNCHANGED allVars
  BY <1>12 DEF SyncInv, ServerStep, ServerCrash, allVars, clientVars, syncVars
<1>13. QED
  BY <1>2, <1>3, <1>4, <1>5, <1>6, <1>7, <1>9, <1>10, <1>11, <1>12
     DEF SyncNext, Regular, ClientStep, Faults

LEMMA CopiedStep ==
    ASSUME SyncInv, [SyncNext]_allVars
    PROVE  Copied'
<1> USE ClientAssumption DEF Copied, Goto, SyncEnds
<1>1. dest \in [File -> Content] /\ tocopy \subseteq File
  BY DEF SyncInv, SyncTypeOK, Contents
<1>2. CASE step' \notin {"copy", "fill", "command"}
  BY <1>2
<1>3. CASE Extract
  <2>1. reading[Client] = "idle"
    BY <1>3 DEF Extract, SyncInv, IInv, GetProgress
  <2>2. QED
    BY <1>3, <2>1 DEF Extract, Zip, vars, getVars
<1>4. CASE CopyOpen
  <2>1. FirstToCopy \in tocopy
    BY <1>1, <1>4, FirstInRange DEF CopyOpen
  <2>2. \A f \in File \ tocopy : dest'[f] = dest[f]
    BY <1>1, <1>4, <2>1 DEF CopyOpen
  <2>3. QED
    BY <1>4, <2>2 DEF CopyOpen, Zip, vars, getVars, SyncInv
<1>5. CASE CopyFill
  <2>1. FirstToCopy \in tocopy
    BY <1>1, <1>5, FirstInRange DEF CopyFill, SyncInv, SyncTypeOK
  <2>2. \A f \in File \ tocopy' :
            dest'[f] = IF f = FirstToCopy THEN got[Client][f] ELSE dest[f]
    BY <1>1, <1>5, <2>1 DEF CopyFill
  <2>3. QED
    BY <1>5, <2>2 DEF CopyFill, Zip, vars, getVars, SyncInv
<1>6. CASE CopyDone
  BY <1>6 DEF CopyDone, Zip, vars, getVars, SyncInv
<1>7. CASE OtherReload \/ OtherRestart \/ UNCHANGED allVars
  BY <1>7 DEF OtherReload, OtherRestart, Zip, allVars, clientVars, syncVars,
     vars, getVars, SyncInv
<1>8. CASE NewSave \/ ServerStep \/ ServerCrash
  <2>1. UNCHANGED <<step, tocopy, dest>>
    BY <1>8 DEF NewSave, ServerStep, ServerCrash, clientVars, syncVars
  <2>2. reading[Client] = "idle" /\ reply[Client] = "zip" =>
            reading'[Client] = "idle" /\ reply'[Client] = "zip" /\ got' = got
    BY <1>8 DEF NewSave, ServerStep, ServerCrash, SaveBegin, Truncate, Write,
       SaveFails, Read, ReadFails, Crash, getVars, SyncInv, IInv, TypeOK
  <2>3. QED
    BY <2>1, <2>2 DEF Zip, SyncInv
<1>9. QED
  BY <1>2, <1>3, <1>4, <1>5, <1>6, <1>7, <1>8
     DEF SyncNext, Regular, ClientStep, Faults, Tick, Dial, DialFails,
         NeedUpdate, NoUpdate, Ask, Refused, Command, CheckFails,
         DownloadFails, CopyFails, CommandFails, ClientCrash

LEMMA SyncInvStep == SyncInv /\ [SyncNext]_allVars => SyncInv'
<1> SUFFICES ASSUME SyncInv, [SyncNext]_allVars PROVE SyncInv'
  OBVIOUS
<1>1. IInv'
  BY DirectoryInv DEF SyncInv
<1>2. QED
  BY <1>1, SyncTypeStep, CopiedStep DEF SyncInv, IInv

LEMMA SyncInvariant == SyncSpec => []SyncInv
BY SyncInitInv, SyncInvStep, PTL DEF SyncSpec

(* Directory and client stay within their types (SyncTypeOK).              *)
THEOREM SyncTypeCorrect == SyncSpec => []SyncTypeOK
BY SyncInvariant, PTL DEF SyncInv

(* The hook runs on the whole bundle that was stored when the download     *)
(* began, if no save overlapped the download (WholeBundle).                *)
THEOREM WholeBundleHolds == SyncSpec => []WholeBundle
<1>1. SyncInv => WholeBundle
  <2> SUFFICES ASSUME SyncInv, step = "command", expect[Client] \in Bundle,
                      over[Client] = {}, NEW f \in Writes(expect[Client])
               PROVE  dest[f] = expect[Client]
    BY DEF WholeBundle
  <2>1. got[Client][f] = expect[Client]
    BY ClientAssumption DEF SyncInv, Copied, IInv, GetDone, Fair
  <2>2. f \in Zip(Client)
    BY <2>1, BundleAssumption DEF Zip, Writes, File
  <2>3. tocopy = {}
    BY DEF SyncInv, SyncTypeOK
  <2>4. QED
    BY <2>1, <2>2, <2>3 DEF SyncInv, Copied
<1>2. QED
  BY <1>1, SyncInvariant, PTL

-----------------------------------------------------------------------------
(* Never backwards, while the server saves in order                        *)

(* What the server has, and what the client has from it, it has begun to   *)
(* save.                                                                   *)
FromServer ==
    /\ \A w \in Saving : Expiry[bundle[w]] <= newest
    /\ files["fullchain"] \in Bundle => Expiry[files["fullchain"]] <= newest
    /\ got[Client]["fullchain"] \in Bundle => Expiry[got[Client]["fullchain"]] <= newest

(* While the server saves in order, no bundle read from it from now on     *)
(* ends before this.                                                       *)
Floor == IF files["fullchain"] \in Bundle THEN Expiry[files["fullchain"]]
         ELSE newest

(* What the client has, or is about to copy, ends no later than the floor  *)
(* or than what was live when it looked, and nothing it could load ends    *)
(* before what is live.                                                    *)
Ahead ==
    /\ \A w \in Saving : Expiry[bundle[w]] = newest
    /\ Floor <= newest
    /\ Expiry[seen] <= Expiry[live]
    /\ Expiry[live] <= Floor \/ Expiry[live] <= Expiry[seen]
    /\ dest["fullchain"] \in Bundle =>
          /\ \/ Expiry[dest["fullchain"]] <= Floor
             \/ Expiry[dest["fullchain"]] <= Expiry[seen]
          /\ Expiry[live] <= Expiry[dest["fullchain"]]
    /\ step \in {"ask", "download"} => Expiry[seen] < Floor
    /\ step \in {"download", "copy", "fill"}
          /\ got[Client]["fullchain"] \in Bundle =>
          /\ Expiry[got[Client]["fullchain"]] <= Floor
          /\ Expiry[live] <= Expiry[got[Client]["fullchain"]]
          /\ dest["fullchain"] \in Bundle =>
                Expiry[dest["fullchain"]] <= Expiry[got[Client]["fullchain"]]

ForwardInv == SyncInv /\ FromServer /\ (inOrder => Ahead)

(* How the server's fullchain.pem, the saves and their order change.       *)
LEMMA ServerMoves ==
    ASSUME SyncInv, [SyncNext]_allVars
    PROVE  /\ newest' \in Nat /\ newest <= newest' /\ (inOrder' => inOrder)
           /\ \/ /\ files'["fullchain"] = files["fullchain"]
                 /\ \A w \in Saving' : \/ w \in Saving /\ bundle'[w] = bundle[w]
                                       \/ Expiry[bundle'[w]] <= newest'
                 /\ inOrder' => \A w \in Saving' : Expiry[bundle'[w]] = newest'
              \/ /\ newest' = newest /\ inOrder' = inOrder
                 /\ \A w \in Saving' : w \in Saving /\ bundle'[w] = bundle[w]
                 /\ \/ files'["fullchain"] \in {files["fullchain"], Empty, Torn}
                    \/ \E w \in Saving : files'["fullchain"] = bundle[w]
<1> USE BundleAssumption, ClientAssumption DEF Saving
<1>1. /\ files \in [File -> Content] /\ "fullchain" \in File
      /\ bundle \in [Writer -> Bundle \cup {Missing}]
      /\ at \in [Writer -> File \cup {"idle"}]
      /\ newest \in Nat
      /\ \A w \in Writer : at[w] = "idle" <=> bundle[w] = Missing
      /\ open \subseteq Saving
  BY DEF SyncInv, SyncTypeOK, TypeOK, File
<1>2. CASE UNCHANGED <<files, at, bundle, newest, inOrder>>
  BY <1>1, <1>2
<1>3. CASE NewSave
  <2>1. PICK w \in Writer, b \in Bundle :
           /\ at[w] = "idle" /\ files' = files
           /\ at' = [at EXCEPT ![w] = "fullchain"]
           /\ bundle' = [bundle EXCEPT ![w] = b]
           /\ newest' = IF Expiry[b] > newest THEN Expiry[b] ELSE newest
           /\ inOrder' = (inOrder /\ \A v \in Saving' : Expiry[bundle'[v]] = newest')
    BY <1>3 DEF NewSave, SaveBegin
  <2>2. newest' \in Nat /\ newest <= newest' /\ Expiry[b] <= newest'
    BY <1>1, <2>1
  <2>3. inOrder' => inOrder /\ \A v \in Saving' : Expiry[bundle'[v]] = newest'
    BY <2>1
  <2>4. \A v \in Saving' : v = w \/ (v \in Saving /\ bundle'[v] = bundle[v])
    BY <1>1, <2>1
  <2>5. bundle'[w] = b
    BY <1>1, <2>1
  <2>6. QED
    BY <2>1, <2>2, <2>3, <2>4, <2>5
<1>4. ASSUME NEW w \in Writer, Truncate(w) \/ Write(w) \/ SaveFails(w)
      PROVE  /\ \A v \in Saving' : v \in Saving /\ bundle'[v] = bundle[v]
             /\ \/ files'["fullchain"] \in {files["fullchain"], Empty, Torn}
                \/ w \in Saving /\ files'["fullchain"] = bundle[w]
  <2>1. CASE Truncate(w)
    BY <1>1, <2>1 DEF Truncate
  <2>2. CASE Write(w)
    BY <1>1, <2>2 DEF Write, SaveEnds
  <2>3. CASE SaveFails(w)
    BY <1>1, <2>3 DEF SaveFails, SaveEnds
  <2>4. QED
    BY <1>4, <2>1, <2>2, <2>3
<1>5. CASE /\ \E w \in Writer : Truncate(w) \/ Write(w) \/ SaveFails(w)
           /\ UNCHANGED <<newest, inOrder>>
  BY <1>1, <1>4, <1>5
<1>6. CASE ServerCrash
  BY <1>1, <1>6 DEF ServerCrash, Crash, clientVars, history
<1>7. CASE ServerStep
  BY <1>2, <1>5, <1>7 DEF ServerStep, clientVars, history, Read, ReadFails, saveVars
<1>8. CASE \/ ClientStep \/ OtherReload \/ UNCHANGED allVars
           \/ Faults /\ ~ServerCrash
  <2>1. UNCHANGED <<files, at, bundle, newest, inOrder>>
    BY <1>8 DEF ClientStep, OtherReload, Faults, Tick, Dial, DialFails,
       NeedUpdate, NoUpdate, Ask, GetBegin, Extract, Refused, CopyOpen,
       CopyFill, CopyDone, Command, CheckFails, DownloadFails, HangUp, SyncEnds,
       CopyFails, CommandFails, ClientCrash, OtherRestart, vars, saveVars,
       allVars, clientVars, history
  <2>2. QED
    BY <1>2, <2>1
<1>9. QED
  BY <1>3, <1>6, <1>7, <1>8 DEF SyncNext, Regular

(* The download reads what the server has, and is forgotten when it ends.  *)
LEMMA GotMoves ==
    ASSUME SyncInv, [SyncNext]_allVars
    PROVE  LET g == got[Client]["fullchain"] IN
           \/ g' = g \/ g' = Missing
           \/ reading[Client] = "fullchain" /\ g' = files["fullchain"]
<1> USE ClientAssumption
<1>1. /\ got \in [Reader -> [File -> Content]] /\ "fullchain" \in File
      /\ NoFiles["fullchain"] = Missing
  BY DEF SyncInv, SyncTypeOK, TypeOK, File, NoFiles
<1>2. [Next]_vars \/ HangUp
  BY DirectoryStep
<1>3. CASE HangUp
  BY <1>1, <1>3 DEF HangUp
<1>4. CASE [Next]_vars
  BY <1>1, <1>4 DEF Next, SaveBegin, Truncate, Write, SaveFails, SaveEnds, GetBegin,
     Read, ReadFails, Crash, getVars, vars
<1>5. QED
  BY <1>2, <1>3, <1>4

LEMMA FromServerStep ==
    ASSUME ForwardInv, [SyncNext]_allVars
    PROVE  FromServer'
<1> USE BundleAssumption, ClientAssumption DEF ForwardInv
<1>1. /\ newest \in Nat /\ newest' \in Nat /\ newest <= newest'
      /\ \A b \in Bundle : Expiry[b] \in Nat
      /\ \A w \in Saving : bundle[w] \in Bundle
      /\ Missing \notin Bundle /\ Empty \notin Bundle /\ Torn \notin Bundle
  BY ServerMoves DEF SyncInv, SyncTypeOK, TypeOK, Saving
<1>2. \A w \in Saving' : Expiry[bundle'[w]] <= newest'
  BY <1>1, ServerMoves DEF FromServer
<1>3. files'["fullchain"] \in Bundle => Expiry[files'["fullchain"]] <= newest'
  BY <1>1, ServerMoves DEF FromServer
<1>4. got'[Client]["fullchain"] \in Bundle => Expiry[got'[Client]["fullchain"]] <= newest'
  BY <1>1, GotMoves DEF FromServer
<1>5. QED
  BY <1>2, <1>3, <1>4 DEF FromServer

(* In order, a save in progress is of the newest bundle.                   *)
LEMMA SavesNewest ==
    ASSUME ForwardInv, [SyncNext]_allVars, inOrder, inOrder'
    PROVE  /\ \A w \in Saving' : Expiry[bundle'[w]] = newest'
           /\ \/ files'["fullchain"] \in {files["fullchain"], Empty, Torn}
              \/ /\ files'["fullchain"] \in Bundle
                 /\ Expiry[files'["fullchain"]] = newest /\ newest' = newest
<1>1. \A w \in Saving : bundle[w] \in Bundle /\ Expiry[bundle[w]] = newest
  BY DEF ForwardInv, Ahead, SyncInv, SyncTypeOK, TypeOK, Saving
<1>2. QED
  BY <1>1, ServerMoves DEF ForwardInv

(* The floor never sinks.                                                  *)
LEMMA FloorRises ==
    ASSUME ForwardInv, [SyncNext]_allVars, inOrder, inOrder'
    PROVE  /\ Floor \in Nat /\ Floor' \in Nat
           /\ Floor <= Floor' /\ Floor' <= newest'
<1> USE BundleAssumption, ClientAssumption
<1>1. /\ newest \in Nat /\ Floor \in Nat /\ Floor <= newest
      /\ Floor = IF files["fullchain"] \in Bundle
                 THEN Expiry[files["fullchain"]] ELSE newest
      /\ Floor' = IF files'["fullchain"] \in Bundle
                  THEN Expiry[files'["fullchain"]] ELSE newest'
  BY DEF ForwardInv, SyncInv, SyncTypeOK, Ahead, Floor
<1>2. newest' \in Nat /\ newest <= newest'
  BY ServerMoves DEF ForwardInv
<1>3. CASE files'["fullchain"] = files["fullchain"]
  BY <1>1, <1>2, <1>3
<1>4. CASE files'["fullchain"] \in {Empty, Torn}
  BY <1>1, <1>2, <1>4
<1>5. CASE /\ files'["fullchain"] \in Bundle
           /\ Expiry[files'["fullchain"]] = newest /\ newest' = newest
  BY <1>1, <1>2, <1>5
<1>6. QED
  BY <1>3, <1>4, <1>5, SavesNewest

LEMMA ForwardInit == SyncInit => ForwardInv
<1> SUFFICES ASSUME SyncInit PROVE ForwardInv
  OBVIOUS
<1> USE BundleAssumption, ClientAssumption
<1>1. Saving = {} /\ files["fullchain"] = Missing /\ newest = 0
  BY DEF SyncInit, Init, Saving, NoFiles, File
<1>2. Floor = 0
  BY <1>1 DEF Floor
<1>3. dest["fullchain"] \in {Missing, live} /\ live \in Bundle
  BY DEF SyncInit, NoFiles, File, Writes
<1>4. Expiry[live] \in Nat /\ seen = live /\ step = "idle"
  BY <1>3 DEF SyncInit
<1>5. got[Client]["fullchain"] = Missing
  BY DEF SyncInit, Init, NoFiles, File
<1>6. QED
  BY <1>1, <1>2, <1>3, <1>4, <1>5, SyncInitInv DEF ForwardInv, FromServer, Ahead

(* What every step leaves of the client, apart from the floor.             *)
LEMMA AheadStep ==
    ASSUME ForwardInv, [SyncNext]_allVars, inOrder, inOrder'
    PROVE  Ahead'
<1> USE BundleAssumption, ClientAssumption
<1> DEFINE d == dest["fullchain"]
           g == got[Client]["fullchain"]
<1>1. SyncInv'
  BY SyncInvStep DEF ForwardInv
<1>2. /\ newest' \in Nat
      /\ \A w \in Saving' : Expiry[bundle'[w]] = newest'
      /\ Floor \in Nat /\ Floor' \in Nat /\ Floor <= Floor' /\ Floor' <= newest'
  BY ServerMoves, SavesNewest, FloorRises DEF ForwardInv
<1>3. /\ seen \in Bundle /\ live \in Bundle /\ seen' \in Bundle /\ live' \in Bundle
      /\ \A b \in Bundle : Expiry[b] \in Nat
      /\ dest \in [File -> Content] /\ got \in [Reader -> [File -> Content]]
      /\ "fullchain" \in File
  BY <1>1 DEF ForwardInv, SyncInv, SyncTypeOK, Contents, TypeOK, File
<1>4. ASSUME UNCHANGED <<seen, live, dest>>,
             step' \in {"ask", "download"} => Expiry[seen] < Floor',
             step' \in {"download", "copy", "fill"} /\ g' \in Bundle =>
                \/ step \in {"download", "copy", "fill"} /\ g' = g
                \/ Expiry[seen] < Floor /\ Expiry[g'] = Floor
      PROVE  Ahead'
  BY <1>2, <1>3, <1>4 DEF ForwardInv, Ahead
<1>5. CASE NeedUpdate
  <2>1. Expiry[seen] < Floor
    BY <1>5 DEF NeedUpdate, LiveBefore, Floor, ForwardInv, SyncInv, SyncTypeOK
  <2>2. QED
    BY <1>1, <1>2, <1>3, <1>4, <1>5, <2>1 DEF NeedUpdate, Goto, ForwardInv
<1>6. CASE Ask
  <2>1. g' = Missing
    BY <1>3, <1>6 DEF Ask, GetBegin, NoFiles
  <2>2. QED
    BY <1>1, <1>2, <1>3, <1>4, <1>6, <2>1 DEF Ask, Goto, ForwardInv, Ahead
<1>7. CASE Dial
  BY <1>1, <1>2, <1>3, <1>7 DEF Dial, Goto, ForwardInv, Ahead
<1>8. ASSUME UNCHANGED <<seen, dest>>, Reload \/ Restart,
             (step' = step /\ got' = got) \/ step' = "idle"
      PROVE  Ahead'
  <2>1. live' = live \/ (d \in Bundle /\ live' = d)
    BY <1>8 DEF Reload, Restart, Pair
  <2>2. QED
    BY <1>2, <1>3, <1>8, <2>1 DEF ForwardInv, Ahead
<1>9. CASE Command \/ OtherReload \/ OtherRestart
  BY <1>1, <1>8, <1>9 DEF Command, OtherReload, OtherRestart, SyncEnds,
     ForwardInv, vars, getVars
<1>10. ASSUME UNCHANGED <<seen, live>>, step \in {"copy", "fill"},
              (step' \in {"copy", "fill"} /\ got' = got) \/ step' = "idle",
              d' \in {d, Empty, Torn, g}
       PROVE  Ahead'
  BY <1>2, <1>3, <1>10 DEF ForwardInv, Ahead
<1>11. CASE CopyOpen \/ CopyFill \/ CopyFails
  <2>1. d' \in {d, Empty, Torn, g}
    BY <1>3, <1>11 DEF CopyOpen, CopyFill, CopyFails
  <2>2. QED
    BY <1>1, <1>10, <1>11, <2>1 DEF CopyOpen, CopyFill, CopyFails, Goto,
       SyncEnds, ForwardInv, vars, getVars
<1>12. CASE Tick \/ DialFails \/ NoUpdate \/ Extract \/ Refused \/ CopyDone
            \/ CheckFails \/ DownloadFails \/ CommandFails \/ ClientCrash
  <2>1. UNCHANGED <<seen, live, dest>> /\ (got' = got \/ step' = "idle")
    BY <1>12 DEF Tick, DialFails, NoUpdate, Extract, Refused, CopyDone,
       CheckFails, DownloadFails, CommandFails, ClientCrash, SyncEnds, vars,
       getVars
  <2>2. /\ step' \notin {"ask", "download"}
        /\ step' \in {"copy", "fill"} => step = "download"
    BY <1>12 DEF Tick, DialFails, NoUpdate, Extract, Refused, CopyDone, Goto,
       CheckFails, DownloadFails, CommandFails, ClientCrash, SyncEnds
  <2>3. QED
    BY <1>1, <1>4, <2>1, <2>2 DEF ForwardInv
<1>13. CASE NewSave \/ ServerStep \/ ServerCrash \/ UNCHANGED allVars
  <2>1. UNCHANGED <<step, seen, live, dest>>
    BY <1>13 DEF NewSave, ServerStep, ServerCrash, allVars, clientVars, syncVars
  <2>2. \/ g' = g \/ g' = Missing
        \/ reading[Client] = "fullchain" /\ g' = files["fullchain"]
    BY GotMoves DEF ForwardInv
  <2>3. step \in {"ask", "download"} => Expiry[seen] < Floor'
    BY <1>2, <1>3 DEF ForwardInv, Ahead
  <2>4. reading[Client] = "idle" \/ step \notin {"copy", "fill"}
    BY DEF ForwardInv, SyncInv, Copied
  <2>5. g' \in Bundle /\ g' # g => Expiry[g'] = Floor
    BY <2>2 DEF Floor
  <2>6. step = "download" => Expiry[seen] < Floor
    BY DEF ForwardInv, Ahead
  <2>7. QED
    BY <1>1, <1>4, <2>1, <2>2, <2>3, <2>4, <2>5, <2>6 DEF ForwardInv
<1>14. QED
  BY <1>5, <1>6, <1>7, <1>9, <1>11, <1>12, <1>13
     DEF SyncNext, Regular, ClientStep, Faults

LEMMA ForwardAlways == SyncSpec => []ForwardInv
<1>1. ForwardInv /\ [SyncNext]_allVars => ForwardInv'
  <2> SUFFICES ASSUME ForwardInv, [SyncNext]_allVars PROVE ForwardInv'
    OBVIOUS
  <2>1. SyncInv'
    BY SyncInvStep DEF ForwardInv
  <2>2. inOrder' => inOrder
    BY ServerMoves DEF ForwardInv
  <2>3. QED
    BY <2>1, <2>2, FromServerStep, AheadStep DEF ForwardInv
<1>2. QED
  BY <1>1, ForwardInit, PTL DEF SyncSpec

-----------------------------------------------------------------------------
(* LiveCert implemented                                                    *)

LEMMA PromiseInit == SyncInit => Promise!LiveInit
<1> SUFFICES ASSUME SyncInit PROVE Promise!LiveInit
  OBVIOUS
<1>1. dest["fullchain"] \in {Missing, live} /\ live \in Bundle
  BY BundleAssumption DEF SyncInit, NoFiles, File, Writes
<1>2. Staged \in {Expiry[live], Missing} /\ Expiry[live] \in Nat
  BY <1>1, BundleAssumption, ClientAssumption DEF Staged
<1>3. newest = 0 /\ inOrder = TRUE
  BY DEF SyncInit
<1>4. QED
  BY <1>2, <1>3 DEF Promise!LiveInit

(* What a file of cert_update_dir, the live certificate and the server's   *)
(* newest may do in one step.                                              *)
LEMMA PromiseMoves ==
    ASSUME SyncInv, SyncNext
    PROVE  \/ NewSave
           \/ /\ UNCHANGED history
              /\ \/ live' = live /\ (Staged' = Staged \/ Staged' = Missing)
                 \/ /\ dest' = dest /\ live' = dest["fullchain"]
                    /\ dest["fullchain"] \in Bundle
                 \/ /\ live' = live /\ step = "fill"
                    /\ dest'["fullchain"] = got[Client]["fullchain"]
<1> USE BundleAssumption, ClientAssumption DEF Staged
<1>1. /\ dest \in [File -> Content] /\ "fullchain" \in File
      /\ Empty \notin Bundle /\ Torn \notin Bundle
  BY DEF SyncInv, SyncTypeOK, Contents, File
<1>2. CASE CopyOpen
  BY <1>1, <1>2 DEF CopyOpen
<1>3. CASE CopyFill
  BY <1>1, <1>3 DEF CopyFill
<1>4. CASE CopyFails
  BY <1>1, <1>4 DEF CopyFails
<1>5. CASE Command \/ OtherReload \/ OtherRestart
  BY <1>5 DEF Command, OtherReload, OtherRestart, Reload, Restart, Pair
<1>6. CASE ServerStep \/ ServerCrash
  BY <1>6 DEF ServerStep, ServerCrash, clientVars, syncVars
<1>7. CASE Tick \/ Dial \/ DialFails \/ NeedUpdate \/ NoUpdate \/ Ask
           \/ Extract \/ Refused \/ CopyDone
  BY <1>7 DEF Tick, Dial, DialFails, NeedUpdate, NoUpdate, Ask, Extract,
     Refused, CopyDone
<1>8. CASE CheckFails \/ DownloadFails \/ CommandFails \/ ClientCrash
  BY <1>8 DEF CheckFails, DownloadFails, CommandFails, ClientCrash
<1>9. QED
  BY <1>2, <1>3, <1>4, <1>5, <1>6, <1>7, <1>8
     DEF SyncNext, Regular, ClientStep, Faults

LEMMA PromiseStep ==
    ASSUME ForwardInv, [SyncNext]_allVars
    PROVE  [Promise!LiveNext]_(Promise!liveVars)
<1> USE BundleAssumption, ClientAssumption
<1>1. /\ live \in Bundle /\ newest \in Nat /\ inOrder \in BOOLEAN
      /\ \A b \in Bundle : Expiry[b] \in Nat
      /\ Missing \notin Nat
  BY DEF ForwardInv, SyncInv, SyncTypeOK
<1>2. CASE NewSave
  <2>1. newest' \in Nat /\ newest' >= newest /\ inOrder' \in {inOrder, FALSE}
    <3>1. newest' \in Nat /\ newest <= newest' /\ (inOrder' => inOrder)
      BY ServerMoves DEF ForwardInv
    <3>2. inOrder' \in BOOLEAN
      BY SyncInvStep DEF ForwardInv, SyncInv, SyncTypeOK
    <3>3. inOrder' = inOrder \/ inOrder' = FALSE
      BY <1>1, <3>1, <3>2, Zenon
    <3>4. QED
      BY <1>1, <3>1, <3>3
  <2>2. live' = live /\ Staged' = Staged
    BY <1>2 DEF NewSave, syncVars, Staged
  <2>3. QED
    BY <2>1, <2>2 DEF Promise!LiveNext, Promise!Issue
<1>3. CASE UNCHANGED history /\ live' = live /\ Staged' = Staged
  BY <1>3 DEF Promise!liveVars, history
<1>4. CASE UNCHANGED history /\ live' = live /\ Staged' = Missing
  BY <1>4 DEF Promise!LiveNext, Promise!Stage, history
<1>5. CASE /\ UNCHANGED history /\ dest' = dest /\ live' = dest["fullchain"]
           /\ dest["fullchain"] \in Bundle
  <2>1. Staged' = Staged /\ Expiry[live'] = Staged /\ Staged # Missing
    BY <1>1, <1>5 DEF Staged
  <2>2. QED
    BY <1>5, <2>1 DEF Promise!LiveNext, Promise!Load, history
<1>6. CASE /\ UNCHANGED history /\ live' = live /\ step = "fill"
           /\ dest'["fullchain"] = got[Client]["fullchain"]
  <2>1. CASE got[Client]["fullchain"] \in Bundle
    <3>1. Staged' = Expiry[got[Client]["fullchain"]] /\ Staged' \in Nat
      BY <1>1, <1>6, <2>1 DEF Staged
    <3>2. Staged' <= newest
      BY <2>1, <3>1 DEF ForwardInv, FromServer
    <3>3. inOrder => Expiry[live] <= Staged'
      BY <1>6, <2>1, <3>1 DEF ForwardInv, Ahead
    <3>4. Staged' \in (IF inOrder THEN Expiry[live] ELSE 0)..newest
      BY <1>1, <3>1, <3>2, <3>3
    <3>5. QED
      BY <1>6, <3>4 DEF Promise!LiveNext, Promise!Stage, history
  <2>2. CASE got[Client]["fullchain"] \notin Bundle
    BY <1>4, <1>6, <2>2 DEF Staged
  <2>3. QED
    BY <2>1, <2>2
<1>7. CASE UNCHANGED allVars
  BY <1>3, <1>7 DEF allVars, clientVars, syncVars, Staged
<1>8. QED
  BY <1>2, <1>3, <1>4, <1>5, <1>6, <1>7, PromiseMoves DEF ForwardInv

(* The client implements LiveCert (KeepsPromise), with any bundles saved   *)
(* in any order, torn zips, copies cut short, kills and reloads by others: *)
(* cert_update_dir gets only what the server has begun to save and, while  *)
(* the server saves in order, nothing that ends before the live            *)
(* certificate.                                                            *)
THEOREM LiveCertImplemented == SyncSpec => KeepsPromise
<1>1. ForwardInv /\ [SyncNext]_allVars => [Promise!LiveNext]_(Promise!liveVars)
  BY PromiseStep
<1>2. QED
  BY <1>1, PromiseInit, ForwardAlways, PTL
     DEF SyncSpec, KeepsPromise, Promise!LiveSpec

-----------------------------------------------------------------------------
(* What LiveCert promises                                                  *)

(* While the server saves in order, nothing on the stage ends before what  *)
(* is live.                                                                *)
StageAhead ==
    /\ newest \in Nat /\ Expiry[live] \in Nat /\ inOrder \in BOOLEAN
    /\ Staged # Missing => Staged \in Nat
    /\ Staged # Missing /\ inOrder => Expiry[live] <= Staged

(* LiveCert alone keeps the live certificate from going back: a stage that *)
(* never falls behind is all it takes.                                     *)
THEOREM PromiseForward == KeepsPromise => NeverBackwards
<1> USE ClientAssumption DEF Promise!Issue, Promise!Stage, Promise!Load
<1>1. Promise!LiveInit => StageAhead
  BY DEF Promise!LiveInit, StageAhead
<1>2. StageAhead /\ [Promise!LiveNext]_(Promise!liveVars)
          => StageAhead' /\ (inOrder => Expiry[live'] >= Expiry[live])
  <2> SUFFICES ASSUME StageAhead, [Promise!LiveNext]_(Promise!liveVars)
               PROVE  StageAhead' /\ (inOrder => Expiry[live'] >= Expiry[live])
    OBVIOUS
  <2>1. CASE Promise!Issue
    <3>1. newest' \in Nat /\ Expiry[live]' = Expiry[live] /\ Staged' = Staged
      BY <2>1
    <3>2. inOrder' = inOrder \/ inOrder' = FALSE
      BY <2>1
    <3>3. inOrder' \in BOOLEAN
      BY <3>2, Zenon DEF StageAhead
    <3>4. ~inOrder => ~inOrder'
      BY <3>2, Zenon
    <3> QED
      BY <3>1, <3>3, <3>4 DEF StageAhead
  <2>2. CASE Promise!Stage
    <3>1. newest' = newest /\ Expiry[live]' = Expiry[live] /\ inOrder' = inOrder
      BY <2>2
    <3>2. Staged' # Missing => Staged' \in (IF inOrder THEN Expiry[live] ELSE 0)..newest
      BY <2>2
    <3>3. Staged' # Missing => Staged' \in Nat
      BY <3>2 DEF StageAhead
    <3>4. Staged' # Missing /\ inOrder => Expiry[live] <= Staged'
      BY <3>2 DEF StageAhead
    <3> QED
      BY <3>1, <3>3, <3>4 DEF StageAhead
  <2>3. CASE Promise!Load
    <3>1. newest' = newest /\ Expiry[live]' = Staged /\ inOrder' = inOrder
          /\ Staged' = Staged /\ Staged # Missing
      BY <2>3
    <3> QED
      BY <3>1 DEF StageAhead
  <2>4. CASE UNCHANGED Promise!liveVars
    <3>1. newest' = newest /\ Expiry[live]' = Expiry[live] /\ inOrder' = inOrder
          /\ Staged' = Staged
      BY <2>4 DEF Promise!liveVars
    <3> QED
      BY <3>1 DEF StageAhead
  <2> QED
    BY <2>1, <2>2, <2>3, <2>4 DEF Promise!LiveNext
<1>3. StageAhead /\ [Promise!LiveNext]_(Promise!liveVars)
          => [inOrder => Expiry[live'] >= Expiry[live]]_allVars
  BY <1>2
<1>4. QED
  BY <1>1, <1>2, <1>3, PTL DEF KeepsPromise, Promise!LiveSpec, NeverBackwards

(* What the endpoint serves never goes back to a certificate that ends     *)
(* earlier (NeverBackwards), for any number of renewals and uploads, up to *)
(* the first save out of order: one of an older bundle than the server has *)
(* begun to save, or beside such a save.                                   *)
THEOREM NeverBackwardsHolds == SyncSpec => NeverBackwards
BY LiveCertImplemented, PromiseForward, PTL
=============================================================================
