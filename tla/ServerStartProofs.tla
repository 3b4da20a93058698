-------------------------- MODULE ServerStartProofs --------------------------
(***************************************************************************)
(* Theorems about ServerStart, for any number of processes that start,     *)
(* write and die beside one another on one file.  The invariant says what  *)
(* the processes that will still write the file hold.                      *)
(***************************************************************************)
EXTENDS ServerStart, TLAPS

(* Every account in the file or in a process was logged or chosen.         *)
Told ==
    /\ disk.admin \in known \cup {NoAdmin, CutHash}
    /\ \A p \in Process : stage[p] # "off" => mem[p].admin \in known \cup {NoAdmin, CutHash}

(* A settled account is in the file, and nobody is about to write but an   *)
(* operator's demo that has not begun.                                     *)
Rests ==
    settled # NoAdmin =>
        /\ disk.admin = settled
        /\ \A p \in Process : Writer(p) => stage[p] = "demo-open"

(* Whoever is about to write has the operator's certificates.              *)
Carried ==
    /\ \A p \in Process : stage[p] \in Demos => mem[p].certs = Demo
    /\ (~damaged /\ given # Nothing) =>
          \A p \in Process :
              (Writer(p) /\ stage[p] # "demo-open") => mem[p].certs = given

IInv == TypeOK /\ Told /\ Rests /\ Carried /\ CertsKept

-----------------------------------------------------------------------------
LEMMA BlankTypes == Blank \in File /\ Blank.certs = Nothing /\ Blank.admin = NoAdmin
  BY DEF Blank, File, Certs, Account

(* What a write cut short leaves has an account of f, of the file, a       *)
(* damaged one or none.                                                    *)
LEMMA CutTypes ==
    ASSUME NEW f \in File, disk \in File
    PROVE  /\ Cut(f) \subseteq File
           /\ \A g \in Cut(f) : g.admin \in {disk.admin, NoAdmin, CutHash}
  BY BlankTypes DEF Cut, File, Certs, Account

LEMMA InitInv == Init => IInv
  <1> SUFFICES ASSUME Init PROVE IInv
    OBVIOUS
  <1> USE StartAssumption
  <1>1. PICK c \in Config : disk = [certs |-> c, admin |-> NoAdmin]
    BY DEF Init
  <1>2. disk \in File /\ disk.certs = c /\ disk.admin = NoAdmin
    BY <1>1 DEF File, Certs, Account
  <1>3. TypeOK
    BY <1>2, BlankTypes DEF Init, TypeOK, Certs, Account, Running
  <1>4. Told /\ Rests /\ CertsKept
    BY <1>2 DEF Init, Told, Rests, CertsKept
  <1>5. Carried
    BY DEF Init, Carried, Writer, Demos
  <1>6. QED
    BY <1>3, <1>4, <1>5 DEF IInv

LEMMA LaunchInv == ASSUME IInv, NEW p \in Process, Launch(p) PROVE IInv'
  <1> USE StartAssumption
  <1>1. /\ stage[p] = "off" /\ disk.certs # Nothing
        /\ mem' = [mem EXCEPT ![p] = disk] /\ stage' = [stage EXCEPT ![p] = "ensure"]
        /\ UNCHANGED <<disk, known, damaged, warned, given, settled>>
    BY DEF Launch, Goto, history
  <1>2. /\ mem'[p] = disk /\ stage'[p] = "ensure"
        /\ \A q \in Process \ {p} : mem'[q] = mem[q] /\ stage'[q] = stage[q]
    BY <1>1 DEF IInv, TypeOK
  <1>3. TypeOK'
    BY <1>1, <1>2 DEF IInv, TypeOK
  <1>4. Told'
    BY <1>1, <1>2 DEF IInv, Told
  <1>5. \A q \in Process \ {p} : Writer(q)' <=> Writer(q)
    BY <1>2 DEF Writer
  <1>6. Writer(p)' => disk.admin = NoAdmin
    BY <1>2 DEF Writer, Demos
  <1>7. Rests'
    BY <1>1, <1>2, <1>5, <1>6 DEF IInv, Rests
  <1>8. Carried'
    BY <1>1, <1>2, <1>5, BlankTypes DEF IInv, Carried, CertsKept, Demos
  <1>9. CertsKept'
    BY <1>1, <1>2, BlankTypes DEF IInv, CertsKept
  <1>10. QED
    BY <1>3, <1>4, <1>7, <1>8, <1>9 DEF IInv

LEMMA EnsureAdminInv == ASSUME IInv, NEW p \in Process, EnsureAdmin(p) PROVE IInv'
  <1> USE StartAssumption
  <1>1. /\ stage[p] = "ensure"
        /\ UNCHANGED <<disk, damaged, warned, given, settled>>
    BY DEF EnsureAdmin
  <1>2. CASE mem[p].admin # NoAdmin
    <2>1. /\ stage' = [stage EXCEPT ![p] = "listen"] /\ UNCHANGED <<mem, known>>
      BY <1>2 DEF EnsureAdmin, Goto
    <2>2. /\ stage'[p] = "listen"
          /\ \A q \in Process \ {p} : stage'[q] = stage[q]
      BY <2>1 DEF IInv, TypeOK
    <2>3. TypeOK'
      BY <1>1, <1>2, <2>1, <2>2 DEF IInv, TypeOK, Running
    <2>4. Told'
      BY <1>1, <2>1, <2>2 DEF IInv, Told
    <2>5. \A q \in Process : Writer(q)' => Writer(q) /\ q # p
      BY <2>1, <2>2 DEF Writer, Demos
    <2>6. Rests' /\ Carried'
      BY <1>1, <2>1, <2>2, <2>5 DEF IInv, Rests, Carried, Demos
    <2>7. CertsKept'
      BY <1>1, <2>1, <2>2 DEF IInv, CertsKept, Writing
    <2>8. QED
      BY <2>3, <2>4, <2>6, <2>7 DEF IInv
  <1>3. CASE mem[p].admin = NoAdmin
    <2>1. PICK pw \in Password : /\ mem' = [mem EXCEPT ![p].admin = pw]
                                /\ known' = known \cup {pw}
                                /\ stage' = [stage EXCEPT ![p] = "open"]
      BY <1>3 DEF EnsureAdmin, MakeAdmin, Goto
    <2>2. /\ mem'[p] = [mem[p] EXCEPT !.admin = pw] /\ stage'[p] = "open"
          /\ \A q \in Process \ {p} : mem'[q] = mem[q] /\ stage'[q] = stage[q]
      BY <2>1 DEF IInv, TypeOK
    <2>3. mem'[p] \in File /\ mem'[p].certs = mem[p].certs /\ mem'[p].admin = pw
      BY <2>2 DEF IInv, TypeOK, File, Account
    <2>4. TypeOK'
      <3>1. mem' \in [Process -> File]
        BY <2>1, <2>3 DEF IInv, TypeOK
      <3>2. stage' \in [Process -> {"off", "ensure", "open", "write"} \cup Demos \cup Running]
        BY <2>1 DEF IInv, TypeOK
      <3>3. known' \subseteq Password
        BY <2>1 DEF IInv, TypeOK
      <3>4. \A q \in Process : /\ stage'[q] # "off" => mem'[q].certs # Nothing
                               /\ stage'[q] \notin {"off", "ensure"} => mem'[q].admin # NoAdmin
        BY <1>1, <2>2, <2>3 DEF IInv, TypeOK
      <3>5. QED
        BY <1>1, <3>1, <3>2, <3>3, <3>4 DEF IInv, TypeOK
    <2>5. Told'
      BY <1>1, <2>1, <2>2, <2>3 DEF IInv, Told
    <2>6. Writer(p) /\ \A q \in Process \ {p} : Writer(q)' <=> Writer(q)
      BY <1>1, <1>3, <2>2 DEF Writer
    <2>7. Rests'
      BY <1>1, <2>6 DEF IInv, Rests
    <2>8. Carried'
      BY <1>1, <2>2, <2>3, <2>6 DEF IInv, Carried, Demos
    <2>9. CertsKept'
      BY <1>1, <2>2 DEF IInv, CertsKept, Writing
    <2>10. QED
      BY <2>4, <2>5, <2>7, <2>8, <2>9 DEF IInv
  <1>4. QED
    BY <1>2, <1>3

LEMMA GenerateInv == ASSUME IInv, NEW p \in Process, Generate(p) PROVE IInv'
  <1> USE StartAssumption
  <1>1. PICK pw \in Password : /\ mem' = [mem EXCEPT ![p] = [certs |-> Demo, admin |-> pw]]
                              /\ known' = known \cup {pw}
    BY DEF Generate
  <1>2. /\ stage[p] = "off" /\ stage' = [stage EXCEPT ![p] = "demo-open"]
        /\ UNCHANGED <<disk, damaged, warned, given, settled>>
    BY DEF Generate, Goto
  <1>3. /\ mem'[p] = [certs |-> Demo, admin |-> pw] /\ stage'[p] = "demo-open"
        /\ \A q \in Process \ {p} : mem'[q] = mem[q] /\ stage'[q] = stage[q]
    BY <1>1, <1>2 DEF IInv, TypeOK
  <1>4. mem'[p] \in File
    BY <1>3 DEF File, Certs, Account
  <1>5. TypeOK'
    <2>1. mem' \in [Process -> File]
      BY <1>1, <1>3, <1>4 DEF IInv, TypeOK
    <2>2. known' \subseteq Password
      BY <1>1 DEF IInv, TypeOK
    <2>3. mem'[p].certs # Nothing /\ mem'[p].admin # NoAdmin
      BY <1>3
    <2>4. stage' \in [Process -> {"off", "ensure", "open", "write"} \cup Demos \cup Running]
      BY <1>2 DEF IInv, TypeOK, Demos
    <2>5. QED
      BY <1>2, <1>3, <2>1, <2>2, <2>3, <2>4 DEF IInv, TypeOK
  <1>6. Told'
    BY <1>1, <1>2, <1>3 DEF IInv, Told
  <1>7. \A q \in Process \ {p} : Writer(q)' <=> Writer(q)
    BY <1>3 DEF Writer
  <1>8. Rests' /\ Carried'
    BY <1>2, <1>3, <1>7 DEF IInv, Rests, Carried
  <1>9. CertsKept'
    BY <1>2, <1>3 DEF IInv, CertsKept, Writing
  <1>10. QED
    BY <1>5, <1>6, <1>8, <1>9 DEF IInv

(* The process that empties the file holds what it will write.             *)
LEMMA OpenInv == ASSUME IInv, NEW p \in Process, Open(p) PROVE IInv'
  <1> USE StartAssumption
  <1>1. disk' = Blank /\ UNCHANGED <<mem, known>>
    BY DEF Open
  <1>2. CASE stage[p] = "open"
    <2>1. stage' = [stage EXCEPT ![p] = "write"] /\ UNCHANGED <<damaged, warned, given, settled>>
      BY <1>2 DEF Open, Goto
    <2>2. stage'[p] = "write" /\ \A q \in Process \ {p} : stage'[q] = stage[q]
      BY <2>1 DEF IInv, TypeOK
    <2>3. TypeOK'
      BY <1>1, <1>2, <2>1, <2>2, BlankTypes DEF IInv, TypeOK
    <2>4. Told'
      BY <1>1, <1>2, <2>2, BlankTypes DEF IInv, Told
    <2>5. Writer(p) /\ settled = NoAdmin
      BY <1>2 DEF IInv, Rests, Writer
    <2>6. \A q \in Process : Writer(q)' <=> Writer(q)
      BY <1>1, <1>2, <2>2 DEF Writer
    <2>7. Rests' /\ Carried'
      BY <1>1, <1>2, <2>1, <2>2, <2>5, <2>6 DEF IInv, Rests, Carried, Demos
    <2>8. CertsKept'
      BY <1>1, <1>2, <2>1, <2>2, <2>5 DEF IInv, Carried, CertsKept, Writing
    <2>9. QED
      BY <2>3, <2>4, <2>7, <2>8 DEF IInv
  <1>3. CASE stage[p] = "demo-open"
    <2>1. /\ stage' = [stage EXCEPT ![p] = "demo-write"]
          /\ damaged' = FALSE /\ warned' = FALSE /\ settled' = NoAdmin
          /\ given' = IF NoWriterBut(p) THEN Demo ELSE Nothing
      BY <1>3 DEF Open, Goto
    <2>2. stage'[p] = "demo-write" /\ \A q \in Process \ {p} : stage'[q] = stage[q]
      BY <2>1 DEF IInv, TypeOK
    <2>3. TypeOK'
      <3>1. stage' \in [Process -> {"off", "ensure", "open", "write"} \cup Demos \cup Running]
        BY <2>1 DEF IInv, TypeOK, Demos
      <3>2. given' \in Config \cup {Nothing} /\ settled' \in Account
        BY <2>1 DEF Account
      <3>3. QED
        BY <1>1, <1>3, <2>1, <2>2, <3>1, <3>2, BlankTypes DEF IInv, TypeOK
    <2>4. Told'
      BY <1>1, <1>3, <2>2, BlankTypes DEF IInv, Told
    <2>5. \A q \in Process \ {p} : Writer(q)' <=> Writer(q)
      BY <1>1, <2>2 DEF Writer
    <2>6. mem[p].certs = Demo
      BY <1>3 DEF IInv, Carried, Demos
    <2>7. Rests'
      BY <2>1 DEF Rests
    <2>8. Carried'
      BY <1>1, <1>3, <2>1, <2>2, <2>5, <2>6 DEF IInv, Carried, NoWriterBut, Demos
    <2>9. CertsKept'
      BY <1>1, <2>1, <2>2, <2>6 DEF CertsKept, Writing
    <2>10. QED
      BY <2>3, <2>4, <2>7, <2>8, <2>9 DEF IInv
  <1>4. QED
    BY <1>2, <1>3 DEF Open

(* A process that stops being a writer, and writes at most something whose *)
(* account was told: types, told accounts and the writers of the others    *)
(* are kept.                                                               *)
LEMMA LeaveKeeps ==
    ASSUME IInv, NEW p \in Process, stage[p] # "off",
           NEW s \in {"off"} \cup Running, s = "off" \/ stage[p] # "ensure",
           stage' = [stage EXCEPT ![p] = s], UNCHANGED <<mem, known, given>>,
           disk' \in File, disk'.admin \in known \cup {NoAdmin, CutHash},
           damaged' \in BOOLEAN, damaged => damaged',
           warned' \in BOOLEAN, settled' \in Account
    PROVE  /\ TypeOK' /\ Told' /\ Carried'
           /\ \A q \in Process \ {p} : stage'[q] = stage[q]
           /\ \A q \in Process : Writer(q)' <=> (Writer(q) /\ q # p)
  <1>1. stage'[p] = s /\ \A q \in Process \ {p} : stage'[q] = stage[q]
    BY DEF IInv, TypeOK
  <1>2. TypeOK'
    BY <1>1 DEF IInv, TypeOK
  <1>3. Told'
    BY <1>1 DEF IInv, Told
  <1>4. \A q \in Process : Writer(q)' <=> (Writer(q) /\ q # p)
    BY <1>1 DEF Writer, Demos, Running
  <1>5. Carried'
    BY <1>1, <1>4 DEF IInv, Carried, Demos, Running
  <1>6. QED
    BY <1>1, <1>2, <1>3, <1>4, <1>5

LEMMA WriteInv == ASSUME IInv, NEW p \in Process, Write(p) PROVE IInv'
  <1> USE StartAssumption
  <1>1. /\ stage[p] \in Writing /\ disk.certs \in {Nothing, mem[p].certs}
        /\ disk' = mem[p] /\ UNCHANGED <<mem, known, damaged, warned, given>>
        /\ settled' = IF NoWriterBut(p) THEN mem[p].admin ELSE settled
    BY DEF Write
  <1>2. PICK s \in {"off", "listen"} : stage' = [stage EXCEPT ![p] = s]
    BY DEF Write, Written, Goto
  <1>3. /\ mem[p] \in File /\ mem[p].admin \in known \cup {NoAdmin, CutHash}
        /\ mem[p].admin \in Account /\ mem[p].certs # Nothing
        /\ stage[p] # "off" /\ stage[p] # "ensure" /\ stage[p] # "demo-open"
    BY <1>1 DEF IInv, TypeOK, Told, Writing, File
  <1>4. settled' \in Account /\ damaged' \in BOOLEAN /\ warned' \in BOOLEAN
    BY <1>1, <1>3 DEF IInv, TypeOK
  <1>5. /\ TypeOK' /\ Told' /\ Carried'
        /\ \A q \in Process \ {p} : stage'[q] = stage[q]
        /\ \A q \in Process : Writer(q)' <=> (Writer(q) /\ q # p)
    BY <1>1, <1>2, <1>3, <1>4, LeaveKeeps DEF Running
  <1>6. Writer(p)
    BY <1>1 DEF Writer, Writing, Demos
  <1>7. Rests'
    <2>1. CASE NoWriterBut(p)
      BY <1>1, <1>5, <2>1 DEF Rests, NoWriterBut
    <2>2. CASE ~NoWriterBut(p)
      BY <1>1, <1>3, <1>6, <2>2 DEF IInv, Rests
    <2>3. QED
      BY <2>1, <2>2
  <1>8. CertsKept'
    BY <1>1, <1>3, <1>6 DEF IInv, Carried, CertsKept
  <1>9. QED
    BY <1>5, <1>7, <1>8 DEF IInv

LEMMA WriteOverInv == ASSUME IInv, NEW p \in Process, WriteOver(p) PROVE IInv'
  <1> USE StartAssumption
  <1>1. /\ stage[p] \in Writing /\ disk' \in {mem[p], Blank} /\ damaged' = TRUE
        /\ UNCHANGED <<mem, known, warned, given, settled>>
    BY DEF WriteOver
  <1>2. PICK s \in {"off", "listen"} : stage' = [stage EXCEPT ![p] = s]
    BY DEF WriteOver, Written, Goto
  <1>3. /\ disk' \in File /\ disk'.admin \in known \cup {NoAdmin, CutHash}
        /\ stage[p] # "off" /\ stage[p] # "ensure" /\ stage[p] # "demo-open"
    BY <1>1, BlankTypes DEF IInv, TypeOK, Told, Writing
  <1>4. settled' \in Account /\ damaged' \in BOOLEAN /\ warned' \in BOOLEAN
    BY <1>1 DEF IInv, TypeOK
  <1>5. TypeOK' /\ Told' /\ Carried'
    BY <1>1, <1>2, <1>3, <1>4, LeaveKeeps DEF Running
  <1>6. Writer(p)
    BY <1>1 DEF Writer, Writing, Demos
  <1>7. Rests' /\ CertsKept'
    BY <1>1, <1>3, <1>6 DEF IInv, Rests, CertsKept
  <1>8. QED
    BY <1>5, <1>7 DEF IInv

LEMMA WriteFailsInv == ASSUME IInv, NEW p \in Process, WriteFails(p) PROVE IInv'
  <1> USE StartAssumption
  <1>1. /\ UNCHANGED <<mem, known, given, settled>>
        /\ warned' = (warned \/ stage[p] \notin Demos)
        /\ \/ stage[p] \in {"open", "demo-open"} /\ UNCHANGED <<disk, damaged>>
           \/ stage[p] \in Writing /\ disk' \in Cut(mem[p]) /\ damaged' = TRUE
    BY DEF WriteFails
  <1>2. PICK s \in {"off", "listen"} : stage' = [stage EXCEPT ![p] = s]
    BY DEF WriteFails, Written, Goto
  <1>3. stage[p] # "off" /\ stage[p] # "ensure"
    BY <1>1 DEF Writing
  <1>4. disk' \in File /\ disk'.admin \in known \cup {NoAdmin, CutHash}
    BY <1>1, CutTypes DEF IInv, TypeOK, Told
  <1>5. /\ settled' \in Account /\ damaged' \in BOOLEAN /\ warned' \in BOOLEAN
        /\ damaged => damaged'
    BY <1>1 DEF IInv, TypeOK
  <1>6. /\ TypeOK' /\ Told' /\ Carried'
        /\ \A q \in Process \ {p} : stage'[q] = stage[q]
        /\ \A q \in Process : Writer(q)' <=> (Writer(q) /\ q # p)
    BY <1>1, <1>2, <1>3, <1>4, <1>5, LeaveKeeps DEF Running
  <1>7. CASE stage[p] \in {"open", "demo-open"} /\ UNCHANGED <<disk, damaged>>
    BY <1>1, <1>6, <1>7 DEF IInv, Rests, CertsKept, Writing
  <1>8. CASE stage[p] \in Writing /\ damaged' = TRUE
    <2>1. Writer(p) /\ stage[p] # "demo-open"
      BY <1>8 DEF Writer, Writing, Demos
    <2>2. QED
      BY <1>1, <1>6, <1>8, <2>1 DEF IInv, Rests, CertsKept
  <1>9. QED
    BY <1>1, <1>7, <1>8

LEMMA ListenInv == ASSUME IInv, NEW p \in Process, Listen(p) PROVE IInv'
  <1> USE StartAssumption
  <1>1. stage[p] = "listen" /\ UNCHANGED <<disk, mem, known, damaged, warned, given, settled>>
    BY DEF Listen, history
  <1>2. PICK s \in {"off", "up"} : stage' = [stage EXCEPT ![p] = s]
    BY DEF Listen, Goto
  <1>3. /\ disk \in File /\ disk.admin \in known \cup {NoAdmin, CutHash}
        /\ settled \in Account /\ damaged \in BOOLEAN /\ warned \in BOOLEAN
    BY DEF IInv, TypeOK, Told
  <1>4. /\ TypeOK' /\ Told' /\ Carried'
        /\ \A q \in Process \ {p} : stage'[q] = stage[q]
        /\ \A q \in Process : Writer(q)' <=> (Writer(q) /\ q # p)
    BY <1>1, <1>2, <1>3, LeaveKeeps DEF Running
  <1>5. Rests' /\ CertsKept'
    BY <1>1, <1>4 DEF IInv, Rests, CertsKept, Writing
  <1>6. QED
    BY <1>4, <1>5 DEF IInv

LEMMA DieInv == ASSUME IInv, NEW p \in Process, Die(p) PROVE IInv'
  <1> USE StartAssumption
  <1>1. /\ stage[p] # "off" /\ stage' = [stage EXCEPT ![p] = "off"]
        /\ UNCHANGED <<mem, known, warned, given, settled>>
        /\ \/ stage[p] \in Writing /\ disk' \in Cut(mem[p]) /\ damaged' = TRUE
           \/ stage[p] \notin Writing /\ UNCHANGED <<disk, damaged>>
    BY DEF Die, Goto
  <1>2. disk' \in File /\ disk'.admin \in known \cup {NoAdmin, CutHash}
    BY <1>1, CutTypes DEF IInv, TypeOK, Told
  <1>3. /\ settled' \in Account /\ damaged' \in BOOLEAN /\ warned' \in BOOLEAN
        /\ damaged => damaged'
    <2>1. settled \in Account /\ damaged \in BOOLEAN /\ warned \in BOOLEAN
      BY DEF IInv, TypeOK
    <2>2. damaged' = TRUE \/ damaged' = damaged
      BY <1>1
    <2>3. QED
      BY <1>1, <2>1, <2>2
  <1>4. /\ TypeOK' /\ Told' /\ Carried'
        /\ \A q \in Process \ {p} : stage'[q] = stage[q]
        /\ \A q \in Process : Writer(q)' <=> (Writer(q) /\ q # p)
    BY <1>1, <1>2, <1>3, LeaveKeeps
  <1>5. CASE stage[p] \notin Writing /\ UNCHANGED <<disk, damaged>>
    BY <1>1, <1>4, <1>5 DEF IInv, Rests, CertsKept, Writing
  <1>6. CASE stage[p] \in Writing /\ damaged' = TRUE
    <2>1. Writer(p) /\ stage[p] # "demo-open"
      BY <1>6 DEF Writer, Writing, Demos
    <2>2. QED
      BY <1>1, <1>4, <1>6, <2>1 DEF IInv, Rests, CertsKept
  <1>7. QED
    BY <1>1, <1>5, <1>6

LEMMA EditInv == IInv /\ Edit => IInv'
  <1> SUFFICES ASSUME IInv, Edit PROVE IInv'
    OBVIOUS
  <1> USE StartAssumption
  <1>1. PICK c \in Config, a \in Password \cup {NoAdmin} :
          /\ disk' = [certs |-> c, admin |-> a]
          /\ known' = known \cup ({a} \ {NoAdmin})
          /\ given' = IF \A p \in Process : ~Writer(p) THEN c ELSE Nothing
          /\ settled' = IF \A p \in Process : ~Writer(p) THEN a ELSE NoAdmin
    BY DEF Edit
  <1>2. UNCHANGED <<mem, stage>> /\ damaged' = FALSE /\ warned' = FALSE
    BY DEF Edit
  <1>3. disk' \in File /\ disk'.admin = a /\ disk'.certs = c
    BY <1>1 DEF File, Certs, Account
  <1>4. TypeOK'
    <2>1. known' \subseteq Password
      BY <1>1 DEF IInv, TypeOK
    <2>2. given' \in Config \cup {Nothing} /\ settled' \in Account
      BY <1>1 DEF Account
    <2>3. QED
      BY <1>2, <1>3, <2>1, <2>2 DEF IInv, TypeOK
  <1>5. Told'
    BY <1>1, <1>2, <1>3 DEF IInv, Told
  <1>6. \A p \in Process : Writer(p)' <=> Writer(p)
    BY <1>2 DEF Writer
  <1>7. Rests' /\ CertsKept'
    BY <1>1, <1>3, <1>6 DEF Rests, CertsKept
  <1>8. Carried'
    BY <1>1, <1>2, <1>6 DEF IInv, Carried
  <1>9. QED
    BY <1>4, <1>5, <1>7, <1>8 DEF IInv

LEMMA InvStep == IInv /\ [Next]_vars => IInv'
  <1> SUFFICES ASSUME IInv, [Next]_vars PROVE IInv'
    OBVIOUS
  <1>1. CASE UNCHANGED vars
    BY <1>1 DEF vars, IInv, TypeOK, Told, Rests, Carried, CertsKept, Writer
  <1>2. CASE Next
    BY <1>2, LaunchInv, EnsureAdminInv, GenerateInv, OpenInv, WriteInv, WriteOverInv,
      WriteFailsInv, ListenInv, DieInv, EditInv
    DEF Next
  <1>3. QED
    BY <1>1, <1>2

-----------------------------------------------------------------------------
(* The invariant holds in every state.                                     *)
THEOREM Inductive == Spec => []IInv
  BY InitInv, InvStep, PTL DEF Spec

(* The types: no process goes on without certificates or an account.       *)
THEOREM TypeCorrect == Spec => []TypeOK
  <1>1. IInv => TypeOK
    BY DEF IInv
  <1>2. QED
    BY <1>1, Inductive, PTL

(* Every account a server runs with was logged or chosen, or was cut       *)
(* (main.go:100-103).                                                      *)
THEOREM AnnouncedHolds == Spec => []Announced
  <1>1. IInv => Announced
    BY StartAssumption DEF IInv, TypeOK, Told, Announced, Running
  <1>2. QED
    BY <1>1, Inductive, PTL

(* A settled account stays in the file (main.go:99-109).                   *)
THEOREM SettledHolds == Spec => []Settled
  <1>1. IInv => Settled
    BY DEF IInv, Rests, Settled
  <1>2. QED
    BY <1>1, Inductive, PTL

(* Only a write that is cut takes the certificates out of the file.        *)
THEOREM CertsKeptHolds == Spec => []CertsKept
  <1>1. IInv => CertsKept
    BY DEF IInv
  <1>2. QED
    BY <1>1, Inductive, PTL
=============================================================================
