----------------------------- MODULE ServerStart -----------------------------
(***************************************************************************)
(* The start of certsync-server (server/main.go) and the file it reads and *)
(* writes, server.yml (core/config/config.go).  A server that finds no     *)
(* admin account makes one up, logs its password and writes the whole      *)
(* configuration back: it opens the file, which empties it, and writes it  *)
(* with one call, which may be cut short.  Processes die at any step, and  *)
(* nothing keeps two of them from starting on the same file: only the port *)
(* does, in the end.                                                       *)
(*                                                                         *)
(* Of the file the list of certificates and the admin account are kept;    *)
(* addresses, tokens and times are written as they were read.              *)
(***************************************************************************)
CONSTANTS
    Process,
    Config,     \* lists of certificates
    Demo,       \* the one of certsync-server -g
    Part,       \* a list that was cut short
    Nothing,    \* no list: with it the server does not start
    Password,   \* those that are generated or chosen by the operator
    NoAdmin,    \* no account, or one without a user name or a password
    CutHash     \* a hash that was cut short: no password fits it

ASSUME StartAssumption ==
    /\ Demo \in Config
    /\ Part \notin Config /\ Nothing \notin Config /\ Part # Nothing
    /\ NoAdmin \notin Password /\ CutHash \notin Password /\ NoAdmin # CutHash

VARIABLES
    disk,      \* server.yml
    mem,       \* serverConfig of each process
    stage,     \* where main is in each process
    known,     \* history: the passwords that were logged or chosen
    damaged,   \* history: a write was cut since the operator's last one
    warned,    \* history: since then, a failed write has been logged
    given,     \* history: the certificates in the file by the operator
    settled    \* history: the account the file has come to hold

vars == <<disk, mem, stage, known, damaged, warned, given, settled>>
history == <<known, damaged, warned, given, settled>>

Certs == Config \cup {Part, Nothing}
Account == Password \cup {NoAdmin, CutHash}
File == [certs : Certs, admin : Account]

(* A file without text, or none, or one that does not parse.               *)
Blank == [certs |-> Nothing, admin |-> NoAdmin]

Demos == {"demo-open", "demo-write"}   \* certsync-server -g
Writing == {"write", "demo-write"}
Running == {"listen", "up"}

(* Whether p goes on to write the file, from what it has read.             *)
Writer(p) ==
    \/ stage[p] \in {"open", "write"} \cup Demos
    \/ stage[p] = "ensure" /\ mem[p].admin = NoAdmin

NoWriterBut(p) == \A q \in Process \ {p} : ~Writer(q)

(* What a write of f that is cut short may leave: a beginning of f, or,    *)
(* when somebody else has written since the file was emptied, the others'  *)
(* text with some of f in it.                                              *)
Cut(f) ==
    IF disk = Blank
    THEN {Blank, [certs |-> Part, admin |-> NoAdmin]}
           \cup {[certs |-> f.certs, admin |-> a] : a \in {NoAdmin, CutHash}}
    ELSE {Blank, disk, [disk EXCEPT !.admin = CutHash]}

Goto(p, s) == stage' = [stage EXCEPT ![p] = s]

-----------------------------------------------------------------------------
Init ==
    /\ disk \in {[certs |-> c, admin |-> NoAdmin] : c \in Config}
    /\ mem = [p \in Process |-> Blank]
    /\ stage = [p \in Process |-> "off"]
    /\ known = {} /\ damaged = FALSE /\ warned = FALSE
    /\ given = disk.certs /\ settled = NoAdmin

(* Bug: the certificates are not looked at.                                *)
LaunchUnchecked(p) ==
    /\ stage[p] = "off"
    /\ mem' = [mem EXCEPT ![p] = disk]
    /\ Goto(p, "ensure")
    /\ UNCHANGED <<disk, history>>

(* ReadConfig; Empty ends the process.                                     *)
Launch(p) ==
    /\ stage[p] = "off"
    /\ disk.certs # Nothing
    /\ mem' = [mem EXCEPT ![p] = disk]
    /\ Goto(p, "ensure")
    /\ UNCHANGED <<disk, history>>

(* Bug: the password is logged when it has been written.                   *)
MakeAdminSilent(p, pw) ==
    /\ mem' = [mem EXCEPT ![p].admin = pw]
    /\ UNCHANGED known

(* Bug: it is added to the configuration of -g.                            *)
MakeAdminOfDemo(p, pw) ==
    /\ mem' = [mem EXCEPT ![p] = [certs |-> Demo, admin |-> pw]]
    /\ known' = known \cup {pw}

(* The account EnsureAdmin makes up, whose password main logs.             *)
MakeAdmin(p, pw) ==
    /\ mem' = [mem EXCEPT ![p].admin = pw]
    /\ known' = known \cup {pw}

(* Bug: every start makes up an account.                                   *)
EnsureAdminAgain(p) ==
    /\ stage[p] = "ensure"
    /\ \E pw \in Password \ known : MakeAdmin(p, pw)
    /\ Goto(p, "open")
    /\ UNCHANGED <<disk, damaged, warned, given, settled>>

(* EnsureAdmin keeps an account that has a name and a password.            *)
EnsureAdmin(p) ==
    /\ stage[p] = "ensure"
    /\ IF mem[p].admin # NoAdmin
       THEN Goto(p, "listen") /\ UNCHANGED <<mem, known>>
       ELSE /\ \E pw \in Password \ known : MakeAdmin(p, pw)
            /\ Goto(p, "open")
    /\ UNCHANGED <<disk, damaged, warned, given, settled>>

(* certsync-server -g: the demo with an account, whatever the file holds.  *)
Generate(p) ==
    /\ stage[p] = "off"
    /\ \E pw \in Password \ known :
        /\ mem' = [mem EXCEPT ![p] = [certs |-> Demo, admin |-> pw]]
        /\ known' = known \cup {pw}
    /\ Goto(p, "demo-open")
    /\ UNCHANGED <<disk, damaged, warned, given, settled>>

-----------------------------------------------------------------------------
(* WriteConfig                                                             *)

(* The file is opened with O_TRUNC.  A demo is the operator's.             *)
Open(p) ==
    /\ stage[p] \in {"open", "demo-open"}
    /\ disk' = Blank
    /\ IF stage[p] = "open"
       THEN /\ Goto(p, "write")
            /\ UNCHANGED <<damaged, warned, given, settled>>
       ELSE /\ Goto(p, "demo-write")
            /\ damaged' = FALSE /\ warned' = FALSE
            /\ given' = IF NoWriterBut(p) THEN Demo ELSE Nothing
            /\ settled' = NoAdmin
    /\ UNCHANGED <<mem, known>>

(* Where a process goes on after WriteConfig.                              *)
Written(p) == Goto(p, IF stage[p] \in Demos THEN "off" ELSE "listen")

Write(p) ==
    /\ stage[p] \in Writing
    /\ disk.certs \in {Nothing, mem[p].certs}
    /\ disk' = mem[p]
    /\ Written(p)
    /\ settled' = IF NoWriterBut(p) THEN mem[p].admin ELSE settled
    /\ UNCHANGED <<mem, known, damaged, warned, given>>

(* Since p emptied the file a text of another length has come into it: a   *)
(* process's with other certificates, or the operator's.                   *)
OtherLength(p) ==
    /\ disk.certs # Nothing
    /\ disk.certs # mem[p].certs \/ \A q \in Process : disk # mem[q]

(* The end of the longer text stays.                                       *)
WriteOver(p) ==
    /\ stage[p] \in Writing
    /\ OtherLength(p)
    /\ disk' \in {mem[p], Blank}
    /\ Written(p)
    /\ damaged' = TRUE
    /\ UNCHANGED <<mem, known, warned, given, settled>>

(* An error, which the server logs and goes on: of the open, or of the     *)
(* write, on a full disk.                                                  *)
WriteFails(p) ==
    /\ \/ stage[p] \in {"open", "demo-open"} /\ UNCHANGED <<disk, damaged>>
       \/ stage[p] \in Writing /\ disk' \in Cut(mem[p]) /\ damaged' = TRUE
    /\ Written(p)
    /\ warned' = (warned \/ stage[p] \notin Demos)
    /\ UNCHANGED <<mem, known, given, settled>>

-----------------------------------------------------------------------------
(* The rest of the process                                                 *)

(* ListenAndServe: the port is free, or main stops the scheduler and ends. *)
Listen(p) ==
    /\ stage[p] = "listen"
    /\ IF \A q \in Process : stage[q] # "up" THEN Goto(p, "up") ELSE Goto(p, "off")
    /\ UNCHANGED <<disk, mem, history>>

(* Killed or crashed, in the middle of a write too.                        *)
Die(p) ==
    /\ stage[p] # "off"
    /\ IF stage[p] \in Writing
       THEN disk' \in Cut(mem[p]) /\ damaged' = TRUE
       ELSE UNCHANGED <<disk, damaged>>
    /\ Goto(p, "off")
    /\ UNCHANGED <<mem, known, warned, given, settled>>

(* The operator saves another server.yml in place, with an account of his  *)
(* own or none, at any moment.  What a process writes that has read the    *)
(* old one goes over it.                                                   *)
Edit ==
    /\ \E c \in Config, a \in Password \cup {NoAdmin} :
        /\ disk' = [certs |-> c, admin |-> a]
        /\ known' = known \cup ({a} \ {NoAdmin})
        /\ given' = IF \A p \in Process : ~Writer(p) THEN c ELSE Nothing
        /\ settled' = IF \A p \in Process : ~Writer(p) THEN a ELSE NoAdmin
    /\ damaged' = FALSE /\ warned' = FALSE
    /\ UNCHANGED <<mem, stage>>

Next ==
    \/ \E p \in Process :
        \/ Launch(p) \/ EnsureAdmin(p) \/ Generate(p)
        \/ Open(p) \/ Write(p) \/ WriteOver(p) \/ WriteFails(p)
        \/ Listen(p) \/ Die(p)
    \/ Edit

Spec == Init /\ [][Next]_vars

-----------------------------------------------------------------------------
(* Properties                                                              *)

(* Types.  A process that has read the file has certificates, and one that *)
(* is past EnsureAdmin has an account.                                     *)
TypeOK ==
    /\ disk \in File
    /\ mem \in [Process -> File]
    /\ stage \in [Process -> {"off", "ensure", "open", "write"} \cup Demos \cup Running]
    /\ known \subseteq Password
    /\ damaged \in BOOLEAN /\ warned \in BOOLEAN
    /\ given \in Config \cup {Nothing}
    /\ settled \in Account
    /\ \A p \in Process :
        /\ stage[p] # "off" => mem[p].certs # Nothing
        /\ stage[p] \notin {"off", "ensure"} => mem[p].admin # NoAdmin

(* No server runs with an account whose password nobody was told: it was   *)
(* logged before it was written (main.go:100-103), whatever became of the  *)
(* write, of the process that logged it, and of the others beside it, or   *)
(* the operator chose it.  A hash that was cut is the exception.           *)
Announced == \A p \in Process : stage[p] \in Running => mem[p].admin \in known \cup {CutHash}

(* The account that was persisted, or that the operator set, is there for  *)
(* every later start: no start that finds it makes up another, although    *)
(* processes start and die beside one another (main.go:99-109).  It is not *)
(* settled while a process is still about to write what it read before.    *)
Settled == settled # NoAdmin => disk.admin = settled

(* The certificates the operator configured stay in the file, although     *)
(* the server rewrites all of it to add an account: nothing but a write    *)
(* that is cut short takes them out.  While the file is empty between open *)
(* and write, the process that emptied it has them.                        *)
CertsKept ==
    (~damaged /\ given # Nothing) =>
        \/ disk.certs = given
        \/ disk = Blank /\ \E p \in Process : stage[p] \in Writing /\ mem[p].certs = given

(* main.go:104: "failed to persist generated admin; password will rotate   *)
(* on next restart".  So the next start does not end at the empty file.    *)
RotatesOnRestart == warned => disk.certs # Nothing
=============================================================================
