------------------------------ MODULE FrontPages ------------------------------
(***************************************************************************)
(* The page of downloads (views/Cert/Download/index.vue): its list, the    *)
(* dialog with the details of a certificate, the buttons of the rows, and  *)
(* the answers to its calls, which come in any order.                      *)
(*                                                                         *)
(* All calls of the page share one dialog and one note of a busy row.  A   *)
(* click reaches a button that does not spin and that neither the mask of  *)
(* the list nor the dialog covers.  The dialog can be closed at any time.  *)
(***************************************************************************)
EXTENDS Naturals

CONSTANTS Alias, NoAlias, None,
          MaxCalls   \* bound on the calls of a kind for a row in flight

ASSUME FrontPagesAssumption ==
    NoAlias \notin Alias /\ None \notin Alias /\ MaxCalls \in Nat

VARIABLES
    list,            \* the rows
    loading,         \* the mask of the page
    busyAlias,
    detailVisible, detailLoading,
    detail,          \* the certificate in the dialog, None for null
    details, downloads,   \* calls in flight, for each row
    opened,          \* history: the row the dialog was opened for
    late             \* history: the rows with a detail in flight by then

calls == <<details, downloads>>
dialog == <<detailVisible, detailLoading, detail, opened, late>>
vars == <<list, loading, busyAlias, dialog, calls>>

More(count, a) == [count EXCEPT ![a] = @ + 1]
Less(count, a) == [count EXCEPT ![a] = @ - 1]

-----------------------------------------------------------------------------
Zero == [a \in Alias |-> 0]

(* The page is mounted, with the first fetchList under way.                *)
Init ==
    /\ list = {} /\ loading = TRUE /\ busyAlias = NoAlias
    /\ detailVisible = FALSE /\ detailLoading = FALSE /\ detail = None
    /\ details = Zero /\ downloads = Zero
    /\ opened = None /\ late = {}

Reachable == ~loading /\ ~detailVisible   \* nothing covers the page

FetchList ==
    /\ Reachable
    /\ loading' = TRUE
    /\ UNCHANGED <<list, busyAlias, dialog, calls>>

(* The list is that of the configuration.  A failure keeps the old one.    *)
ListAnswered ==
    /\ loading
    /\ loading' = FALSE
    /\ list' \in {Alias, list}
    /\ UNCHANGED <<busyAlias, dialog, calls>>

DetailSpins(a) == busyAlias = a /\ detailLoading
DownloadSpins(a) == busyAlias = a /\ ~detailLoading

(* Bug: the dialog is cleared with the value of the note.                  *)
HandleDetailBlank(a) ==
    /\ Reachable /\ a \in list /\ ~DetailSpins(a) /\ details[a] < MaxCalls
    /\ busyAlias' = a /\ detailLoading' = TRUE /\ detailVisible' = TRUE
    /\ detail' = NoAlias
    /\ details' = More(details, a)
    /\ opened' = a /\ late' = {b \in Alias : details[b] > 0}
    /\ UNCHANGED <<list, loading, downloads>>

(* Bug: the details of the last certificate stay in the dialog.            *)
HandleDetailKeeps(a) ==
    /\ Reachable /\ a \in list /\ ~DetailSpins(a) /\ details[a] < MaxCalls
    /\ busyAlias' = a /\ detailLoading' = TRUE /\ detailVisible' = TRUE
    /\ details' = More(details, a)
    /\ opened' = a /\ late' = {b \in Alias : details[b] > 0}
    /\ UNCHANGED <<list, loading, detail, downloads>>

HandleDetail(a) ==
    /\ Reachable /\ a \in list /\ ~DetailSpins(a) /\ details[a] < MaxCalls
    /\ busyAlias' = a /\ detailLoading' = TRUE /\ detailVisible' = TRUE
    /\ detail' = None
    /\ details' = More(details, a)
    /\ opened' = a /\ late' = {b \in Alias : details[b] > 0}
    /\ UNCHANGED <<list, loading, downloads>>

(* Bug: only a success ends the spinning.                                  *)
DetailAnsweredOrStuck(a) ==
    /\ details[a] > 0
    /\ details' = Less(details, a)
    /\ \/ detail' = a /\ detailLoading' = FALSE /\ busyAlias' = NoAlias
       \/ UNCHANGED <<detail, detailLoading, busyAlias>>
    /\ UNCHANGED <<list, loading, detailVisible, downloads, opened, late>>

(* The answer, an error of the server or axios' timeout: finally ends both *)
(* indicators, whoever they are of.                                        *)
DetailAnswered(a) ==
    /\ details[a] > 0
    /\ details' = Less(details, a)
    /\ detail' \in {a, detail}
    /\ detailLoading' = FALSE /\ busyAlias' = NoAlias
    /\ UNCHANGED <<list, loading, detailVisible, downloads, opened, late>>

CloseDialog ==
    /\ detailVisible
    /\ detailVisible' = FALSE
    /\ UNCHANGED <<list, loading, busyAlias, detailLoading, detail, calls, opened, late>>

HandleDownload(a) ==
    /\ Reachable /\ a \in list /\ ~DownloadSpins(a) /\ downloads[a] < MaxCalls
    /\ busyAlias' = a
    /\ downloads' = More(downloads, a)
    /\ UNCHANGED <<list, loading, dialog, details>>

(* Bug: the row stays busy.                                                *)
DownloadAnsweredBusy(a) ==
    /\ downloads[a] > 0
    /\ downloads' = Less(downloads, a)
    /\ UNCHANGED <<list, loading, busyAlias, dialog, details>>

(* A zip to save, an error, or one that comes as a 200.                    *)
DownloadAnswered(a) ==
    /\ downloads[a] > 0
    /\ downloads' = Less(downloads, a)
    /\ busyAlias' = NoAlias
    /\ UNCHANGED <<list, loading, dialog, details>>

(* Another page and back, or a 401: what still comes changes nothing here. *)
Leave ==
    /\ list' = {} /\ loading' = TRUE /\ busyAlias' = NoAlias
    /\ detailVisible' = FALSE /\ detailLoading' = FALSE /\ detail' = None
    /\ details' = Zero /\ downloads' = Zero
    /\ opened' = None /\ late' = {}

Next ==
    \/ FetchList \/ ListAnswered \/ CloseDialog \/ Leave
    \/ \E a \in Alias : HandleDetail(a) \/ DetailAnswered(a)
                        \/ HandleDownload(a) \/ DownloadAnswered(a)

(* Every call ends: axios gives up after 30 seconds (request.ts:37).       *)
Fairness ==
    /\ WF_vars(ListAnswered)
    /\ \A a \in Alias : WF_vars(DetailAnswered(a)) /\ WF_vars(DownloadAnswered(a))

Spec == Init /\ [][Next]_vars /\ Fairness

-----------------------------------------------------------------------------
(* Properties                                                              *)

(* Types: the dialog is empty or shows a certificate.                      *)
TypeOK ==
    /\ list \in SUBSET Alias /\ busyAlias \in Alias \cup {NoAlias}
    /\ loading \in BOOLEAN /\ detailVisible \in BOOLEAN /\ detailLoading \in BOOLEAN
    /\ detail \in Alias \cup {None} /\ opened \in Alias \cup {None}
    /\ details \in [Alias -> 0..MaxCalls] /\ downloads \in [Alias -> 0..MaxCalls]
    /\ late \in SUBSET Alias

(* A row is busy, and the dialog loads, only while a call for it, or for   *)
(* some dialog, is in flight, whichever of the calls that share the two    *)
(* indicators end first.                                                   *)
SpinnerReal ==
    /\ busyAlias # NoAlias => details[busyAlias] + downloads[busyAlias] > 0
    /\ detailLoading => \E a \in Alias : details[a] > 0

(* The dialog shows the certificate it was opened for, or one whose detail *)
(* was asked for before and was still in flight then.                      *)
DialogOf == detailVisible /\ detail # None /\ detail # opened => detail \in late

(* The indicators end, whatever else is clicked and however calls fail.    *)
Settles == []<>(busyAlias = NoAlias /\ ~detailLoading)
=============================================================================
