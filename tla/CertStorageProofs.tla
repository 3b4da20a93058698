------------------------- MODULE CertStorageProofs -------------------------
(***************************************************************************)
(* Proofs about CertStorage, for every set of bundles, writers and         *)
(* readers.  StoredOnDisk and the properties of downloads are not          *)
(* inductive: they need to know what a save has written so far and what a  *)
(* download has read so far.                                               *)
(***************************************************************************)
EXTENDS CertStorage, TLAPS

(* The files that come before the one a save or a download is at.          *)
Earlier(f) == CASE f = "privkey" -> {"fullchain"}
                [] f = "cert"    -> {"fullchain", "privkey"}
                [] f = "chain"   -> {"fullchain", "privkey", "cert"}
                [] OTHER         -> {}

(* A save that has met no other one is the only one running.               *)
SoloAlone == \A w \in solo : Saving = {w}

(* While a save that touched the directory runs, the register is Torn.     *)
TouchedTorn ==
    \A w \in Saving : w \in open \/ at[w] # "fullchain" => stored = Torn

(* A save is at a file it writes; what a solo save has written is on disk, *)
(* and the file it has open is still empty.                                *)
SoloProgress ==
    /\ \A w \in Saving : at[w] \in Writes(bundle[w])
    /\ \A w \in solo : /\ \A f \in Earlier(at[w]) : files[f] = bundle[w]
                       /\ w \in open => files[at[w]] = Empty

(* Content a download may meet or return for a file it was to find.        *)
Fair(c, r) ==
    c \in {expect[r]} \cup (IF over[r] = {} THEN {}
                            ELSE over[r] \cup {Empty, Torn})

(* What a download may find from here on, and what it has found.           *)
GetProgress ==
    \A r \in Reader : reading[r] # "idle" =>
        /\ reply[r] = "none"
        /\ \A w \in Saving : bundle[w] \in over[r]
        /\ over[r] = {} => stored = expect[r]
        /\ expect[r] \in Bundle => \A f \in Writes(expect[r]) :
              /\ Fair(files[f], r)
              /\ f \in Earlier(reading[r]) => Fair(got[r][f], r)

(* The answers of finished downloads.                                      *)
GetDone ==
    \A r \in Reader :
        /\ reply[r] = "zip" /\ expect[r] \in Bundle =>
              \A f \in Writes(expect[r]) : Fair(got[r][f], r)
        /\ expect[r] \in HasChain => reply[r] \notin {"notfound", "failed"}

IInv == /\ TypeOK
        /\ StoredOnDisk
        /\ SoloAlone
        /\ TouchedTorn
        /\ SoloProgress
        /\ GetProgress
        /\ GetDone

-----------------------------------------------------------------------------
(* Every step preserves the types.                                         *)
LEMMA TypeStep == TypeOK /\ [Next]_vars => TypeOK'
<1> SUFFICES ASSUME TypeOK, [Next]_vars PROVE TypeOK'
  OBVIOUS
<1> USE BundleAssumption DEF TypeOK, Content, Value, File, Saving
<1>1. ASSUME NEW w \in Writer, NEW b \in Bundle, SaveBegin(w, b)
      PROVE  TypeOK'
  BY <1>1 DEF SaveBegin
<1>2. ASSUME NEW w \in Writer, Truncate(w) PROVE TypeOK'
  BY <1>2 DEF Truncate, getVars
<1>3. ASSUME NEW w \in Writer, Write(w) PROVE TypeOK'
  <2>1. at[w] \in File /\ bundle[w] \in Bundle
    BY <1>3 DEF Write
  <2>2. AfterWrite(at[w], bundle[w]) \in File \cup {"idle"}
    BY <2>1 DEF AfterWrite, Following
  <2>3. files' \in [File -> Content]
    BY <1>3, <2>1 DEF Write
  <2>4. CASE AfterWrite(at[w], bundle[w]) = "idle"
    <3>1. /\ at' = [at EXCEPT ![w] = "idle"]
          /\ bundle' = [bundle EXCEPT ![w] = Missing]
          /\ solo' = solo \ {w} /\ open' = open \ {w}
          /\ stored' \in Value
          /\ UNCHANGED getVars
      BY <1>3, <2>1, <2>4 DEF Write, SaveEnds
    <3>2. QED
      BY <2>3, <3>1 DEF getVars
  <2>5. CASE AfterWrite(at[w], bundle[w]) # "idle"
    BY <1>3, <2>1, <2>2, <2>3, <2>5 DEF Write, SaveEnds, getVars
  <2>6. QED
    BY <2>4, <2>5
<1>4. ASSUME NEW w \in Writer, SaveFails(w) PROVE TypeOK'
  <2>1. files' \in [File -> Content]
    BY <1>4 DEF SaveFails
  <2>2. /\ at' = [at EXCEPT ![w] = "idle"]
        /\ bundle' = [bundle EXCEPT ![w] = Missing]
        /\ solo' = solo \ {w} /\ open' = open \ {w}
        /\ UNCHANGED <<stored, getVars>>
    BY <1>4 DEF SaveFails, SaveEnds
  <2>3. Saving' = Saving \ {w}
    BY <2>2
  <2>4. open' \subseteq Saving' /\ solo' \subseteq Saving'
    BY <2>2, <2>3
  <2>5. /\ at' \in [Writer -> File \cup {"idle"}]
        /\ bundle' \in [Writer -> Bundle \cup {Missing}]
        /\ \A v \in Writer : at'[v] = "idle" <=> bundle'[v] = Missing
    BY <2>2
  <2>6. QED
    BY <2>1, <2>2, <2>4, <2>5 DEF getVars
<1>5. ASSUME NEW r \in Reader, GetBegin(r) PROVE TypeOK'
  <2>1. {bundle[w] : w \in Saving} \subseteq Bundle
    OBVIOUS
  <2>2. /\ reading' \in [Reader -> File \cup {"idle"}]
        /\ reply' \in [Reader -> {"none", "notfound", "failed", "zip"}]
    BY <1>5 DEF GetBegin
  <2>3. /\ got' \in [Reader -> [File -> Content]]
        /\ expect' \in [Reader -> Value]
    BY <1>5 DEF GetBegin, NoFiles
  <2>4. over' \in [Reader -> SUBSET Bundle]
    BY <1>5, <2>1 DEF GetBegin
  <2>5. UNCHANGED <<files, stored, saveVars>>
    BY <1>5 DEF GetBegin
  <2>6. QED
    BY <2>2, <2>3, <2>4, <2>5 DEF saveVars
<1>6. ASSUME NEW r \in Reader, Read(r) PROVE TypeOK'
  BY <1>6 DEF Read, Following, saveVars
<1>7. ASSUME NEW r \in Reader, ReadFails(r) PROVE TypeOK'
  BY <1>7 DEF ReadFails, saveVars
<1>8. CASE Crash
  BY <1>8 DEF Crash
<1>9. CASE UNCHANGED vars
  BY <1>9 DEF vars, saveVars, getVars
<1>10. QED
  BY <1>1, <1>2, <1>3, <1>4, <1>5, <1>6, <1>7, <1>8, <1>9 DEF Next

(* The state stays within its types (TypeOK).                              *)
THEOREM TypeCorrect == Spec => []TypeOK
<1>1. Init => TypeOK
  BY BundleAssumption DEF Init, TypeOK, Content, Value, File, Saving, NoFiles
<1>2. QED
  BY <1>1, TypeStep, PTL DEF Spec

-----------------------------------------------------------------------------
(* Facts about the order of the files.                                     *)

LEMMA OrderOfFiles ==
    ASSUME NEW f \in File
    PROVE  /\ Following(f) \in File \cup {"idle"}
           /\ f \notin Earlier(f) /\ Earlier(f) \subseteq File
           /\ Following(f) # "idle" =>
                 Earlier(Following(f)) = Earlier(f) \cup {f}
           /\ f = "chain" => Following(f) = "idle"
           /\ f # "chain" => Following(f) # "idle"
           /\ Earlier("fullchain") = {}
           /\ File = Earlier("chain") \cup {"chain"}
BY DEF File, Following, Earlier

(* A save ends after the last file it writes.                              *)
LEMMA WriteOrder ==
    ASSUME NEW b \in Bundle, NEW f \in Writes(b)
    PROVE  /\ Writes(b) \subseteq File
           /\ AfterWrite(f, b) # "idle" =>
                 /\ AfterWrite(f, b) \in Writes(b)
                 /\ AfterWrite(f, b) # "fullchain"
                 /\ Earlier(AfterWrite(f, b)) = Earlier(f) \cup {f}
           /\ AfterWrite(f, b) = "idle" => Writes(b) \subseteq Earlier(f) \cup {f}
BY BundleAssumption DEF File, Writes, AfterWrite, Following, Earlier

(* What a bundle with a chain leaves nothing of.                           *)
LEMMA FullWrites ==
    ASSUME NEW b \in HasChain
    PROVE  b \in Bundle /\ Writes(b) = File
BY BundleAssumption DEF File, Writes

-----------------------------------------------------------------------------
(* The inductive invariant, one lemma per action                           *)

LEMMA InitInv == Init => IInv
BY BundleAssumption DEF Init, IInv, TypeOK, Content, Value, File, Saving,
   NoFiles, StoredOnDisk, SoloAlone, TouchedTorn, SoloProgress, GetProgress,
   GetDone

LEMMA SaveBeginInv ==
    ASSUME IInv, NEW w \in Writer, NEW b \in Bundle, SaveBegin(w, b), TypeOK'
    PROVE  IInv'
<1> USE DEF IInv, SaveBegin
<1>1. w \notin Saving /\ Saving' = Saving \cup {w}
  BY DEF TypeOK, Saving
<1>2. StoredOnDisk'
  BY DEF StoredOnDisk
<1>3. SoloAlone'
  BY <1>1 DEF SoloAlone
<1>4. TouchedTorn'
  BY <1>1 DEF TouchedTorn, TypeOK, Saving
<1>5. SoloProgress'
  BY <1>1, OrderOfFiles DEF SoloProgress, TypeOK, Saving, Writes, File
<1>6. GetProgress'
  <2> SUFFICES ASSUME NEW r \in Reader, reading[r] # "idle"
               PROVE  /\ reply[r] = "none"
                      /\ \A v \in Saving' : bundle'[v] \in over'[r]
                      /\ over'[r] = {} => stored = expect[r]
                      /\ expect[r] \in Bundle => \A f \in Writes(expect[r]) :
                            /\ Fair(files[f], r)'
                            /\ f \in Earlier(reading[r]) =>
                                  Fair(got[r][f], r)'
    BY DEF GetProgress
  <2>1. over'[r] = over[r] \cup {b}
    BY DEF TypeOK
  <2>2. ASSUME NEW v \in Saving' PROVE bundle'[v] \in over'[r]
    BY <1>1, <2>1 DEF GetProgress, TypeOK, Saving
  <2>3. over'[r] # {}
    BY <2>1
  <2>4. ASSUME NEW c, Fair(c, r)
        PROVE  c \in {expect[r]} \cup over'[r] \cup {Empty, Torn}
    BY <2>1, <2>4 DEF Fair
  <2>5. QED
    BY <2>2, <2>3, <2>4 DEF GetProgress, Fair
<1>7. GetDone'
  <2> SUFFICES ASSUME NEW r \in Reader
               PROVE  /\ reply[r] = "zip" /\ expect[r] \in Bundle =>
                            \A f \in Writes(expect[r]) : Fair(got[r][f], r)'
                      /\ expect[r] \in HasChain =>
                            reply[r] \notin {"notfound", "failed"}
    BY DEF GetDone
  <2>1. reply[r] = "zip" => over'[r] = over[r]
    BY DEF GetProgress, TypeOK
  <2>2. QED
    BY <2>1 DEF GetDone, Fair
<1>8. QED
  BY <1>2, <1>3, <1>4, <1>5, <1>6, <1>7

LEMMA TruncateInv ==
    ASSUME IInv, NEW w \in Writer, Truncate(w), TypeOK'
    PROVE  IInv'
<1> USE DEF IInv, Truncate, getVars
<1>1. w \in Saving /\ Saving' = Saving /\ at[w] \in File /\ bundle[w] \in Bundle
  BY DEF TypeOK, Saving
<1>2. ASSUME NEW f \in File
      PROVE  files'[f] = IF f = at[w] THEN Empty ELSE files[f]
  BY DEF TypeOK
<1>3. StoredOnDisk'
  BY BundleAssumption DEF StoredOnDisk
<1>4. SoloAlone'
  BY <1>1 DEF SoloAlone
<1>5. TouchedTorn'
  BY DEF TouchedTorn
<1>6. SoloProgress'
  <2>1. ASSUME NEW v \in solo PROVE v = w
    BY <1>1 DEF SoloAlone
  <2>2. w \in solo => \A f \in Earlier(at[w]) : files'[f] = bundle[w]
    BY <1>1, <1>2, OrderOfFiles DEF SoloProgress
  <2>3. files'[at[w]] = Empty
    BY <1>1, <1>2
  <2>4. QED
    BY <1>1, <2>1, <2>2, <2>3 DEF SoloProgress
<1>7. GetProgress'
  <2> SUFFICES ASSUME NEW r \in Reader, reading[r] # "idle"
               PROVE  /\ over[r] = {} => stored' = expect[r]
                      /\ expect[r] \in Bundle => \A f \in Writes(expect[r]) :
                            Fair(files'[f], r)
    BY <1>1 DEF GetProgress, Fair
  <2>1. over[r] # {}
    BY <1>1 DEF GetProgress
  <2>2. ASSUME expect[r] \in Bundle, NEW f \in Writes(expect[r])
        PROVE  Fair(files'[f], r)
    <3>1. f \in File /\ Fair(files[f], r)
      BY <2>2 DEF GetProgress, Writes, File
    <3>2. QED
      BY <1>2, <2>1, <3>1 DEF Fair
  <2>3. QED
    BY <2>1, <2>2
<1>8. GetDone'
  BY DEF GetDone, Fair
<1>9. QED
  BY <1>3, <1>4, <1>5, <1>6, <1>7, <1>8

LEMMA WriteInv ==
    ASSUME IInv, NEW w \in Writer, Write(w), TypeOK'
    PROVE  IInv'
<1> DEFINE f0 == at[w]
           b0 == bundle[w]
           next == AfterWrite(f0, b0)
<1> USE DEF IInv
<1>1. /\ w \in open /\ w \in Saving
      /\ f0 \in File /\ b0 \in Bundle /\ f0 \in Writes(b0)
      /\ stored = Torn
  BY DEF Write, TypeOK, Saving, TouchedTorn, SoloProgress
<1>2. /\ files'[f0] \in {b0, Torn}
      /\ \A f \in File : f # f0 => files'[f] = files[f]
      /\ w \in solo => files'[f0] = b0
  BY <1>1 DEF Write, TypeOK, SoloProgress
<1>3. w \in solo =>
         /\ Saving = {w}
         /\ \A f \in Earlier(f0) \cup {f0} : files'[f] = b0
  BY <1>1, <1>2, OrderOfFiles DEF SoloAlone, SoloProgress
<1>4. ASSUME NEW v \in Writer, v # w
      PROVE  /\ at'[v] = at[v] /\ bundle'[v] = bundle[v]
             /\ v \in Saving' <=> v \in Saving
             /\ v \in open' <=> v \in open
  BY <1>4 DEF Write, SaveEnds, TypeOK, Saving
<1>5. /\ solo' \subseteq solo
      /\ Saving' \subseteq Saving
      /\ w \notin open'
      /\ w \in Saving' => /\ next # "idle" /\ at'[w] = next
                          /\ bundle'[w] = b0 /\ stored' = stored
      /\ w \notin Saving' => next = "idle" /\ w \notin solo'
      /\ stored' = stored \/ (stored' = b0 /\ w \in solo /\ next = "idle")
  <2>1. CASE next = "idle"
    <3>1. /\ at' = [at EXCEPT ![w] = "idle"]
          /\ solo' = solo \ {w} /\ open' = open \ {w}
          /\ stored' = IF w \in solo THEN b0 ELSE stored
      BY <2>1 DEF Write, SaveEnds
    <3>2. Saving' = Saving \ {w}
      BY <3>1 DEF TypeOK, Saving
    <3>3. QED
      BY <1>1, <2>1, <3>1, <3>2
  <2>2. CASE next # "idle"
    <3>1. /\ at' = [at EXCEPT ![w] = next] /\ open' = open \ {w}
          /\ UNCHANGED <<bundle, solo, stored>>
      BY <2>2 DEF Write, SaveEnds
    <3>2. Saving' = Saving /\ at'[w] = next
      BY <1>1, <2>2, <3>1 DEF TypeOK, Saving
    <3>3. QED
      BY <1>1, <2>2, <3>1, <3>2
  <2>3. QED
    BY <2>1, <2>2
<1>6. UNCHANGED getVars
  BY DEF Write
<1>7. StoredOnDisk'
  <2>1. CASE stored' = stored
    BY <1>1, <2>1, BundleAssumption DEF StoredOnDisk
  <2>2. CASE stored' = b0 /\ w \in solo /\ next = "idle"
    BY <1>1, <1>3, <2>2, WriteOrder, BundleAssumption DEF StoredOnDisk
  <2>3. QED
    BY <1>5, <2>1, <2>2
<1>8. SoloAlone'
  <2> SUFFICES ASSUME NEW v \in solo' PROVE Saving' = {v}
    BY DEF SoloAlone
  <2>1. v \in Saving' /\ Saving = {v}
    BY <1>5 DEF SoloAlone, TypeOK
  <2>2. QED
    BY <1>5, <2>1
<1>9. TouchedTorn'
  <2> SUFFICES ASSUME NEW v \in Saving', v \in open' \/ at'[v] # "fullchain"
               PROVE  stored' = Torn
    BY DEF TouchedTorn
  <2>1. CASE v = w
    BY <1>1, <1>5, <2>1
  <2>2. CASE v # w
    BY <1>1, <1>3, <1>5, <2>2
  <2>3. QED
    BY <2>1, <2>2
<1>10. SoloProgress'
  <2>1. ASSUME NEW v \in Saving' PROVE at'[v] \in Writes(bundle'[v])
    <3>1. CASE v = w
      BY <1>1, <1>5, <2>1, <3>1, WriteOrder
    <3>2. CASE v # w
      BY <1>4, <1>5, <2>1, <3>2 DEF SoloProgress, Saving
    <3>3. QED
      BY <3>1, <3>2
  <2>2. ASSUME NEW v \in solo'
        PROVE  /\ \A f \in Earlier(at'[v]) : files'[f] = bundle'[v]
               /\ v \in open' => files'[at'[v]] = Empty
    <3>1. v = w /\ w \in Saving'
      BY <1>1, <1>3, <1>5 DEF SoloAlone, TypeOK
    <3>2. QED
      BY <1>1, <1>3, <1>5, <2>2, <3>1, WriteOrder
  <2>3. QED
    BY <2>1, <2>2 DEF SoloProgress
<1>11. GetProgress'
  <2> SUFFICES ASSUME NEW r \in Reader, reading[r] # "idle"
               PROVE  /\ \A v \in Saving' : bundle'[v] \in over[r]
                      /\ over[r] = {} => stored' = expect[r]
                      /\ expect[r] \in Bundle => \A f \in Writes(expect[r]) :
                            Fair(files'[f], r)
    BY <1>6 DEF GetProgress, Fair, getVars
  <2>1. b0 \in over[r]
    BY <1>1 DEF GetProgress
  <2>2. ASSUME NEW v \in Saving' PROVE bundle'[v] \in over[r]
    BY <1>4, <1>5, <2>1, <2>2 DEF GetProgress, Saving
  <2>3. ASSUME expect[r] \in Bundle, NEW f \in Writes(expect[r])
        PROVE  Fair(files'[f], r)
    <3>1. f \in File /\ Fair(files[f], r)
      BY <2>3 DEF GetProgress, Writes, File
    <3>2. QED
      BY <1>2, <2>1, <3>1 DEF Fair
  <2>4. QED
    BY <2>1, <2>2, <2>3
<1>12. GetDone'
  BY <1>6 DEF GetDone, Fair, getVars
<1>13. QED
  BY <1>7, <1>8, <1>9, <1>10, <1>11, <1>12

LEMMA SaveFailsInv ==
    ASSUME IInv, NEW w \in Writer, SaveFails(w), TypeOK'
    PROVE  IInv'
<1> USE DEF IInv
<1>1. /\ w \in Saving /\ at[w] \in File /\ bundle[w] \in Bundle
      /\ at' = [at EXCEPT ![w] = "idle"]
      /\ bundle' = [bundle EXCEPT ![w] = Missing]
      /\ solo' = solo \ {w} /\ open' = open \ {w}
      /\ stored' = stored
      /\ UNCHANGED getVars
  BY DEF SaveFails, SaveEnds, TypeOK, Saving
<1>2. Saving' = Saving \ {w}
  BY <1>1 DEF Saving, TypeOK
<1>3. /\ \A f \in File : files'[f] \in {files[f], Torn}
      /\ stored # Torn => files' = files
  BY <1>1 DEF SaveFails, TypeOK, TouchedTorn
<1>4. StoredOnDisk'
  BY <1>1, <1>3, BundleAssumption DEF StoredOnDisk
<1>5. SoloAlone' /\ solo' = {}
  BY <1>1, <1>2 DEF SoloAlone, TypeOK
<1>6. TouchedTorn'
  BY <1>1, <1>2 DEF TouchedTorn, TypeOK, Saving
<1>7. SoloProgress'
  BY <1>1, <1>2, <1>5 DEF SoloProgress, TypeOK, Saving
<1>8. GetProgress'
  <2> SUFFICES ASSUME NEW r \in Reader, reading[r] # "idle"
               PROVE  /\ \A v \in Saving' : bundle'[v] \in over[r]
                      /\ expect[r] \in Bundle => \A f \in Writes(expect[r]) :
                            Fair(files'[f], r)
    BY <1>1 DEF GetProgress, Fair, getVars
  <2>1. \A v \in Saving' : bundle'[v] \in over[r]
    BY <1>1, <1>2 DEF GetProgress, Saving, TypeOK
  <2>2. ASSUME expect[r] \in Bundle, NEW f \in Writes(expect[r])
        PROVE  Fair(files'[f], r)
    <3>1. f \in File /\ Fair(files[f], r) /\ over[r] # {}
      BY <1>1, <2>2 DEF GetProgress, Writes, File
    <3>2. QED
      BY <1>3, <3>1 DEF Fair
  <2>3. QED
    BY <2>1, <2>2
<1>9. GetDone'
  BY <1>1 DEF GetDone, Fair, getVars
<1>10. QED
  BY <1>4, <1>5, <1>6, <1>7, <1>8, <1>9

LEMMA GetBeginInv ==
    ASSUME IInv, NEW r \in Reader, GetBegin(r), TypeOK'
    PROVE  IInv'
<1> USE DEF IInv
<1>1. UNCHANGED <<files, stored, saveVars>>
  BY DEF GetBegin
<1>2. StoredOnDisk' /\ SoloAlone' /\ TouchedTorn' /\ SoloProgress'
  BY <1>1 DEF StoredOnDisk, SoloAlone, TouchedTorn, SoloProgress, saveVars, Saving
<1>3. /\ expect'[r] = stored /\ over'[r] = {bundle[w] : w \in Saving}
      /\ reading'[r] \in {"idle", "fullchain"}
      /\ reply'[r] \in {"none", "notfound"}
      /\ reply'[r] = "notfound" => files["fullchain"] = Missing
  BY DEF GetBegin, TypeOK
<1>4. \A q \in Reader : q # r =>
         /\ reading'[q] = reading[q] /\ got'[q] = got[q]
         /\ reply'[q] = reply[q] /\ expect'[q] = expect[q]
         /\ over'[q] = over[q]
  BY DEF GetBegin, TypeOK
<1>5. GetProgress'
  <2> SUFFICES ASSUME NEW q \in Reader, reading'[q] # "idle"
               PROVE  /\ reply'[q] = "none"
                      /\ \A w \in Saving : bundle[w] \in over'[q]
                      /\ over'[q] = {} => stored = expect'[q]
                      /\ expect'[q] \in Bundle => \A f \in Writes(expect'[q]) :
                            /\ Fair(files[f], q)'
                            /\ f \in Earlier(reading'[q]) => Fair(got[q][f], q)'
    BY <1>1 DEF GetProgress, saveVars, Saving, Fair
  <2>1. CASE q = r
    <3>1. reply'[r] = "none" /\ reading'[r] = "fullchain"
      BY <2>1, <1>3 DEF GetBegin, TypeOK
    <3>2. stored \in Bundle => \A f \in Writes(stored) : Fair(files[f], r)'
      BY <1>1, <1>3 DEF StoredOnDisk, Fair
    <3>3. QED
      BY <1>1, <1>3, <2>1, <3>1, <3>2 DEF Earlier
  <2>2. CASE q # r
    BY <1>1, <1>4, <2>2 DEF GetProgress, Fair
  <2>3. QED
    BY <2>1, <2>2
<1>6. GetDone'
  <2> SUFFICES ASSUME NEW q \in Reader
               PROVE  /\ reply'[q] = "zip" /\ expect'[q] \in Bundle =>
                            \A f \in Writes(expect'[q]) : Fair(got[q][f], q)'
                      /\ expect'[q] \in HasChain =>
                            reply'[q] \notin {"notfound", "failed"}
    BY DEF GetDone
  <2>1. CASE q = r
    <3>1. stored \in HasChain => files["fullchain"] # Missing
      BY FullWrites, BundleAssumption DEF StoredOnDisk, File
    <3>2. QED
      BY <1>3, <2>1, <3>1
  <2>2. CASE q # r
    BY <1>4, <2>2 DEF GetDone, Fair
  <2>3. QED
    BY <2>1, <2>2
<1>7. QED
  BY <1>2, <1>5, <1>6

LEMMA ReadInv ==
    ASSUME IInv, NEW r \in Reader, Read(r), TypeOK'
    PROVE  IInv'
<1> DEFINE f0 == reading[r]
<1> USE DEF IInv
<1>1. /\ UNCHANGED <<files, stored, saveVars, expect, over>>
      /\ f0 \in File
  BY DEF Read, TypeOK
<1>2. StoredOnDisk' /\ SoloAlone' /\ TouchedTorn' /\ SoloProgress'
  BY <1>1 DEF StoredOnDisk, SoloAlone, TouchedTorn, SoloProgress, saveVars, Saving
<1>3. /\ got'[r][f0] = files[f0]
      /\ \A f \in File : f # f0 => got'[r][f] = got[r][f]
      /\ reading'[r] = Following(f0)
      /\ reply'[r] = IF f0 = "chain" THEN "zip" ELSE reply[r]
  BY <1>1 DEF Read, TypeOK
<1>4. \A q \in Reader : q # r =>
         /\ reading'[q] = reading[q] /\ got'[q] = got[q]
         /\ reply'[q] = reply[q]
  BY DEF Read, TypeOK
<1>5. reply[r] = "none"
  BY <1>1 DEF GetProgress, Read
<1>6. ASSUME expect[r] \in Bundle, NEW f \in Writes(expect[r]),
             f \in Earlier(f0) \cup {f0}
      PROVE  Fair(got'[r][f], r)
  <2>1. f \in File /\ Fair(files[f], r)
    BY <1>1, <1>6 DEF GetProgress, Read, Writes, File
  <2>2. f # f0 => Fair(got[r][f], r)
    BY <1>1, <1>6 DEF GetProgress, Read
  <2>3. QED
    BY <1>3, <2>1, <2>2
<1>7. GetProgress'
  <2> SUFFICES ASSUME NEW q \in Reader, reading'[q] # "idle"
               PROVE  /\ reply'[q] = "none"
                      /\ \A w \in Saving : bundle[w] \in over[q]
                      /\ over[q] = {} => stored = expect[q]
                      /\ expect[q] \in Bundle => \A f \in Writes(expect[q]) :
                            /\ Fair(files[f], q)
                            /\ f \in Earlier(reading'[q]) => Fair(got'[q][f], q)
    BY <1>1 DEF GetProgress, saveVars, Saving, Fair
  <2>1. CASE q = r
    BY <1>1, <1>3, <1>5, <1>6, <2>1, OrderOfFiles DEF GetProgress, Read
  <2>2. CASE q # r
    BY <1>4, <2>2 DEF GetProgress
  <2>3. QED
    BY <2>1, <2>2
<1>8. GetDone'
  <2> SUFFICES ASSUME NEW q \in Reader
               PROVE  /\ reply'[q] = "zip" /\ expect[q] \in Bundle =>
                            \A f \in Writes(expect[q]) : Fair(got'[q][f], q)
                      /\ expect[q] \in HasChain =>
                            reply'[q] \notin {"notfound", "failed"}
    BY <1>1 DEF GetDone, Fair
  <2>1. CASE q = r
    <3>1. ASSUME expect[r] \in Bundle, f0 = "chain", NEW f \in Writes(expect[r])
          PROVE  f \in Earlier(f0) \cup {f0}
      BY <3>1, OrderOfFiles DEF Writes, File
    <3>2. QED
      BY <1>3, <1>5, <1>6, <2>1, <3>1
  <2>2. CASE q # r
    BY <1>4, <2>2 DEF GetDone
  <2>3. QED
    BY <2>1, <2>2
<1>9. QED
  BY <1>2, <1>7, <1>8

LEMMA ReadFailsInv ==
    ASSUME IInv, NEW r \in Reader, ReadFails(r), TypeOK'
    PROVE  IInv'
<1> USE DEF IInv
<1>1. /\ UNCHANGED <<files, stored, saveVars, got, expect, over>>
      /\ reading' = [reading EXCEPT ![r] = "idle"]
      /\ reply' = [reply EXCEPT ![r] = "failed"]
      /\ reading[r] \in File /\ files[reading[r]] = Missing
  BY DEF ReadFails, TypeOK
<1>2. StoredOnDisk' /\ SoloAlone' /\ TouchedTorn' /\ SoloProgress'
  BY <1>1 DEF StoredOnDisk, SoloAlone, TouchedTorn, SoloProgress, saveVars, Saving
<1>3. GetProgress'
  <2> SUFFICES ASSUME NEW q \in Reader, reading'[q] # "idle"
               PROVE  q # r
    BY <1>1 DEF GetProgress, saveVars, Saving, Fair, TypeOK
  <2>1. QED
    BY <1>1 DEF TypeOK
<1>4. expect[r] \notin HasChain
  <2>1. SUFFICES ASSUME expect[r] \in HasChain PROVE FALSE
    OBVIOUS
  <2>2. Fair(Missing, r)
    <3>1. /\ expect[r] \in Bundle
          /\ reading[r] \in Writes(expect[r])
          /\ reading[r] # "idle"
      BY <1>1, <2>1, FullWrites DEF File
    <3>2. QED
      BY <1>1, <3>1 DEF GetProgress
  <2>3. over[r] \subseteq Bundle
    BY DEF TypeOK
  <2>4. QED
    BY <2>1, <2>2, <2>3, FullWrites, BundleAssumption DEF Fair
<1>5. GetDone'
  BY <1>1, <1>4 DEF GetDone, Fair, TypeOK
<1>6. QED
  BY <1>2, <1>3, <1>5

LEMMA CrashInv ==
    ASSUME IInv, Crash, TypeOK'
    PROVE  IInv'
<1> USE DEF IInv
<1>1. Saving' = {} /\ solo' = {} /\ \A r \in Reader : reading'[r] = "idle"
  BY DEF Crash, Saving
<1>2. StoredOnDisk'
  BY DEF StoredOnDisk, Crash
<1>3. SoloAlone' /\ TouchedTorn' /\ SoloProgress' /\ GetProgress'
  BY <1>1 DEF SoloAlone, TouchedTorn, SoloProgress, GetProgress
<1>4. GetDone'
  BY DEF GetDone, Crash, Fair
<1>5. QED
  BY <1>2, <1>3, <1>4

LEMMA InvStep == IInv /\ [Next]_vars => IInv'
<1> SUFFICES ASSUME IInv, [Next]_vars PROVE IInv'
  OBVIOUS
<1>1. TypeOK'
  BY TypeStep DEF IInv
<1>2. CASE UNCHANGED vars
  BY <1>2 DEF vars, saveVars, getVars, IInv, TypeOK, StoredOnDisk, SoloAlone,
     TouchedTorn, SoloProgress, GetProgress, GetDone, Fair, Saving
<1>3. QED
  BY <1>1, <1>2, SaveBeginInv, TruncateInv, WriteInv, SaveFailsInv,
     GetBeginInv, ReadInv, ReadFailsInv, CrashInv DEF Next

(* IInv is an invariant: it holds initially and every step preserves it.   *)
THEOREM Inductive == Spec => []IInv
BY InitInv, InvStep, PTL DEF Spec

-----------------------------------------------------------------------------
(* What the invariant gives                                                *)

(* After an undisturbed save the directory holds exactly that save's       *)
(* files, whatever happened in it before (StoredOnDisk).                   *)
THEOREM StoredOnDiskHolds == Spec => []StoredOnDisk
<1>1. IInv => StoredOnDisk
  BY DEF IInv
<1>2. QED
  BY <1>1, Inductive, PTL

(* A download that met no save returns the stored bundle and nothing else  *)
(* for the files of that bundle (CleanZip).                                *)
THEOREM CleanZipHolds == Spec => []CleanZip
<1>1. IInv => CleanZip
  BY DEF IInv, GetDone, CleanZip, Fair
<1>2. QED
  BY <1>1, Inductive, PTL

(* A download that met saves returns, file by file, what was stored or     *)
(* what one of those saves wrote (RegularZip).                             *)
THEOREM RegularZipHolds == Spec => []RegularZip
<1>1. IInv => RegularZip
  BY DEF IInv, GetDone, RegularZip, Fair
<1>2. QED
  BY <1>1, Inductive, PTL

(* No download of a stored certificate with a chain is refused, whatever   *)
(* saves run beside it (NeverRefused).                                     *)
THEOREM NeverRefusedHolds == Spec => []NeverRefused
<1>1. IInv => NeverRefused
  BY DEF IInv, GetDone, NeverRefused
<1>2. QED
  BY <1>1, Inductive, PTL

-----------------------------------------------------------------------------
(* Refinement                                                              *)

(* Saves and downloads, system call by system call, implement the puts and *)
(* gets of the register (RegisterSpec): a save takes effect at its first   *)
(* truncation and ends with its last write, a download is answered at its  *)
(* last read; the other writes and reads are stuttering steps.             *)
THEOREM RegisterRefined == Spec => RegisterSpec
<1>1. Init => Register!AbsInit
  BY BundleAssumption DEF Init, Register!AbsInit, Register!NoParts, Parts, NoFiles
<1>2. IInv /\ IInv' /\ [Next]_vars => [Register!AbsNext]_(Register!absVars)
  <2> SUFFICES ASSUME IInv, IInv', [Next]_vars
               PROVE  [Register!AbsNext]_(Register!absVars)
    OBVIOUS
  <2> USE BundleAssumption DEF IInv
  <2>0. Saving = Register!Putting
    BY DEF TypeOK, Saving, Register!Putting
  <2>1. ASSUME NEW w \in Writer, NEW b \in Bundle, SaveBegin(w, b)
        PROVE  Register!PutBegin(w, b)
    BY <2>1, <2>0 DEF TypeOK, SaveBegin, Register!PutBegin, Parts
  <2>2. ASSUME NEW w \in Writer, Truncate(w) PROVE Register!PutEffect
    <3>1. w \in Saving
      BY <2>2 DEF Truncate, Saving
    <3>2. QED
      BY <2>2, <2>0, <3>1
         DEF Truncate, Register!PutEffect, Register!askVars, getVars, Parts
  <2>3. ASSUME NEW w \in Writer, Write(w)
        PROVE  Register!PutEnd(w) \/ UNCHANGED Register!absVars
    <3>1. w \in Saving /\ bundle[w] # Missing /\ stored = Torn
      BY <2>3 DEF Write, TypeOK, Saving, TouchedTorn
    <3>2. CASE AfterWrite(at[w], bundle[w]) # "idle"
      BY <2>3, <3>2 DEF Write, getVars, Parts, Register!absVars,
         Register!putVars, Register!askVars
    <3>3. CASE AfterWrite(at[w], bundle[w]) = "idle"
      <4>1. /\ SaveEnds(w) /\ UNCHANGED getVars
            /\ stored' = IF w \in solo THEN bundle[w] ELSE stored
        BY <2>3, <3>3 DEF Write
      <4>2. QED
        BY <3>1, <4>1 DEF SaveEnds, getVars, Parts, Register!PutEnd,
           Register!PutOver, Register!askVars
    <3>4. QED
      BY <3>2, <3>3
  <2>4. ASSUME NEW w \in Writer, SaveFails(w) PROVE Register!PutFails(w)
    BY <2>4 DEF TypeOK, SaveFails, SaveEnds, getVars, Parts,
       Register!PutFails, Register!PutOver, Register!askVars
  <2>5. ASSUME NEW r \in Reader, GetBegin(r)
        PROVE  Register!AskBegin(r) \/ Register!AskNotFound(r)
    <3> DEFINE asking == {q \in Reader : reading[q] # "idle"}
    <3>1. /\ UNCHANGED <<stored, bundle, solo>>
          /\ expect' = [expect EXCEPT ![r] = stored]
          /\ over' = [over EXCEPT ![r] = {bundle[w] : w \in Register!Putting}]
          /\ r \notin asking
      BY <2>5, <2>0 DEF GetBegin, saveVars
    <3>2. [q \in Reader |-> Parts(q)]' =
             [[q \in Reader |-> Parts(q)] EXCEPT ![r] = Register!NoParts]
      BY <2>5 DEF GetBegin, TypeOK, Parts, NoFiles, Register!NoParts
    <3>3. CASE files["fullchain"] = Missing
      <4>1. stored \in {Missing, Torn}
        BY <3>3 DEF TypeOK, Value, StoredOnDisk, Writes
      <4>2. reply' = [reply EXCEPT ![r] = "notfound"] /\ asking' = asking
        BY <2>5, <3>3 DEF GetBegin
      <4>3. QED
        BY <3>1, <3>2, <4>1, <4>2 DEF Register!AskNotFound, Register!putVars
    <3>4. CASE files["fullchain"] # Missing
      <4>1. reply' = [reply EXCEPT ![r] = "none"] /\ asking' = asking \cup {r}
        BY <2>5, <3>4 DEF GetBegin, TypeOK
      <4>2. QED
        BY <3>1, <3>2, <4>1 DEF Register!AskBegin, Register!putVars
    <3>5. QED
      BY <3>3, <3>4
  <2>6. ASSUME NEW r \in Reader, Read(r)
        PROVE  Register!AskEnd(r) \/ UNCHANGED Register!absVars
    <3> DEFINE asking == {q \in Reader : reading[q] # "idle"}
    <3>1. /\ UNCHANGED <<stored, bundle, solo, expect, over>>
          /\ r \in asking /\ reply[r] = "none"
          /\ \A q \in Reader : q # r => got'[q] = got[q] /\ reply'[q] = reply[q]
      BY <2>6 DEF Read, saveVars, TypeOK, GetProgress
    <3>2. \A q \in Reader \ {r} : Parts(q)' = Parts(q)
      BY <3>1 DEF Parts
    <3>3. CASE reading[r] = "chain"
      <4>1. reply' = [reply EXCEPT ![r] = "zip"] /\ asking' = asking \ {r}
        BY <2>6, <3>3 DEF Read, Following, TypeOK
      <4>2. Parts(r)' = got'[r]
        BY <4>1 DEF Parts, TypeOK
      <4>3. Register!SoundParts(got'[r], expect[r], over[r])
        BY <3>1, <4>1 DEF GetDone, Fair, TypeOK, Register!SoundParts
      <4>4. QED
        BY <3>1, <3>2, <4>1, <4>2, <4>3 DEF Register!AskEnd, Register!putVars
    <3>4. CASE reading[r] # "chain"
      <4>1. reply' = reply /\ asking' = asking
        BY <2>6, <3>4 DEF Read, Following, TypeOK, File
      <4>2. Parts(r)' = Parts(r)
        BY <3>1, <4>1 DEF Parts
      <4>3. QED
        BY <3>1, <3>2, <4>1, <4>2
           DEF Register!absVars, Register!putVars, Register!askVars
    <3>5. QED
      BY <3>3, <3>4
  <2>7. ASSUME NEW r \in Reader, ReadFails(r) PROVE Register!AskFails(r)
    <3>1. expect[r] \notin HasChain
      BY <2>7 DEF ReadFails, GetDone, TypeOK
    <3>2. [q \in Reader |-> Parts(q)]' = [q \in Reader |-> Parts(q)]
      BY <2>7 DEF ReadFails, TypeOK, GetProgress, Parts
    <3>3. {q \in Reader : reading[q] # "idle"}' =
             {q \in Reader : reading[q] # "idle"} \ {r}
      BY <2>7 DEF ReadFails, TypeOK
    <3>4. QED
      BY <2>7, <3>1, <3>2, <3>3 DEF ReadFails, saveVars, Register!AskFails,
         Register!putVars
  <2>8. ASSUME Crash PROVE Register!Die
    <3>1. ASSUME NEW r \in Reader PROVE Parts(r)' = Parts(r)
      <4>1. got' = got /\ reply'[r] = reply[r]
        BY <2>8 DEF Crash, GetProgress
      <4>2. QED
        BY <4>1 DEF Parts
    <3>2. [r \in Reader |-> Parts(r)]' = [r \in Reader |-> Parts(r)]
      BY <3>1
    <3>3. {r \in Reader : reading[r] # "idle"}' = {}
      BY <2>8 DEF Crash
    <3>4. reply' = [r \in Reader |->
                      IF r \in {q \in Reader : reading[q] # "idle"} THEN "none"
                      ELSE reply[r]]
      BY <2>8 DEF Crash
    <3>5. /\ bundle' = [w \in Writer |-> Missing] /\ solo' = {}
          /\ UNCHANGED <<stored, expect, over>>
      BY <2>8 DEF Crash
    <3>6. QED
      BY <3>2, <3>3, <3>4, <3>5 DEF Register!Die
  <2>9. CASE UNCHANGED vars
    BY <2>9 DEF vars, saveVars, getVars, Parts, Register!absVars,
       Register!putVars, Register!askVars
  <2>10. QED
    BY <2>1, <2>2, <2>3, <2>4, <2>5, <2>6, <2>7, <2>8, <2>9
       DEF Next, Register!AbsNext
<1>3. QED
  BY <1>1, <1>2, Inductive, PTL DEF Spec, RegisterSpec, Register!AbsSpec
=============================================================================
