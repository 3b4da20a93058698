--------------------------- MODULE BundleRegister ---------------------------
(***************************************************************************)
(* What the certificate store of one alias promises, without its files: a  *)
(* register that holds a bundle, with puts and gets that take time.        *)
(*                                                                         *)
(* A put that has taken effect on the register but has not completed       *)
(* leaves it undefined, and so does one that fails or that meets another   *)
(* put; an undisturbed put that completes defines it again.  A get of a    *)
(* defined register that no put overlaps returns the bundle; one that puts *)
(* overlap may mix, but only what was there with what those puts bring.    *)
(***************************************************************************)
CONSTANTS
    Bundle,     \* the values of the register
    Part,       \* the parts a bundle may have
    Parts(_),   \* the parts a bundle has
    Full,       \* the bundles that have every part
    Writer,
    Reader,
    Absent,     \* the register before the first put, a part that is not there
    Cut,        \* a part that was being put
    Undefined   \* the register, or a part, that is of no single put

VARIABLES
    register,   \* Bundle, Absent or Undefined
    putting,    \* the bundle each writer is putting, Absent when none
    alone,      \* the writers whose put has met no other one so far
    asking,     \* the readers whose get is not answered
    reply,      \* the last answer of each reader
    parts,      \* the parts that answer brought
    expect,     \* the register when the get began
    over        \* the bundles of the puts the get overlapped

putVars == <<register, putting, alone>>
askVars == <<asking, reply, parts, expect, over>>
absVars == <<putVars, askVars>>

Putting == {w \in Writer : putting[w] # Absent}

NoParts == [p \in Part |-> Absent]

(* The parts a get may bring, from the register it found and the bundles   *)
(* of the puts it overlapped.                                              *)
SoundParts(c, e, o) ==
    e \in Bundle => \A p \in Parts(e) :
        c[p] \in {e} \cup (IF o = {} THEN {} ELSE o \cup {Cut, Undefined})

AbsInit ==
    /\ register = Absent
    /\ putting = [w \in Writer |-> Absent]
    /\ alone = {}
    /\ asking = {}
    /\ reply = [r \in Reader |-> "none"]
    /\ parts = [r \in Reader |-> NoParts]
    /\ expect = [r \in Reader |-> Absent]
    /\ over = [r \in Reader |-> {}]

PutBegin(w, b) ==
    /\ putting[w] = Absent
    /\ putting' = [putting EXCEPT ![w] = b]
    /\ alone' = IF Putting = {} THEN {w} ELSE {}
    /\ over' = [r \in Reader |-> IF r \in asking THEN over[r] \cup {b}
                                 ELSE over[r]]
    /\ UNCHANGED <<register, asking, reply, parts, expect>>

(* A put takes effect: from here on the register is undefined.             *)
PutEffect ==
    /\ Putting # {}
    /\ register' = Undefined
    /\ UNCHANGED <<putting, alone, askVars>>

PutOver(w) ==
    /\ putting[w] # Absent
    /\ putting' = [putting EXCEPT ![w] = Absent]
    /\ alone' = alone \ {w}

(* Only a put that took effect completes, so the register is undefined.    *)
PutEnd(w) ==
    /\ register = Undefined
    /\ register' = IF w \in alone THEN putting[w] ELSE Undefined
    /\ PutOver(w)
    /\ UNCHANGED askVars

PutFails(w) ==
    /\ PutOver(w)
    /\ UNCHANGED <<register, askVars>>

AskBegin(r) ==
    /\ r \notin asking
    /\ asking' = asking \cup {r}
    /\ reply' = [reply EXCEPT ![r] = "none"]
    /\ parts' = [parts EXCEPT ![r] = NoParts]
    /\ expect' = [expect EXCEPT ![r] = register]
    /\ over' = [over EXCEPT ![r] = {putting[w] : w \in Putting}]
    /\ UNCHANGED putVars

(* The register has no bundle, or may have none.                           *)
AskNotFound(r) ==
    /\ r \notin asking
    /\ register \in {Absent, Undefined}
    /\ reply' = [reply EXCEPT ![r] = "notfound"]
    /\ parts' = [parts EXCEPT ![r] = NoParts]
    /\ expect' = [expect EXCEPT ![r] = register]
    /\ over' = [over EXCEPT ![r] = {putting[w] : w \in Putting}]
    /\ UNCHANGED <<putVars, asking>>

(* The get ends with any parts that are sound for what it found and met.   *)
AskEnd(r) ==
    /\ r \in asking
    /\ asking' = asking \ {r}
    /\ reply' = [reply EXCEPT ![r] = "zip"]
    /\ \A q \in Reader \ {r} : parts'[q] = parts[q]
    /\ SoundParts(parts'[r], expect[r], over[r])
    /\ UNCHANGED <<putVars, expect, over>>

(* The get fails, which it may not if a bundle with every part was stored. *)
AskFails(r) ==
    /\ r \in asking
    /\ expect[r] \notin Full
    /\ asking' = asking \ {r}
    /\ reply' = [reply EXCEPT ![r] = "failed"]
    /\ UNCHANGED <<putVars, parts, expect, over>>

(* The process dies: puts and gets vanish, the register stays as it is.    *)
Die ==
    /\ putting' = [w \in Writer |-> Absent]
    /\ alone' = {}
    /\ asking' = {}
    /\ reply' = [r \in Reader |-> IF r \in asking THEN "none" ELSE reply[r]]
    /\ UNCHANGED <<register, parts, expect, over>>

AbsNext ==
    \/ \E w \in Writer, b \in Bundle : PutBegin(w, b)
    \/ PutEffect
    \/ \E w \in Writer : PutEnd(w) \/ PutFails(w)
    \/ \E r \in Reader :
          AskBegin(r) \/ AskNotFound(r) \/ AskEnd(r) \/ AskFails(r)
    \/ Die

AbsSpec == AbsInit /\ [][AbsNext]_absVars
=============================================================================
