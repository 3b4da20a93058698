--------------------------- MODULE FrontPagesProofs ---------------------------
(***************************************************************************)
(* Theorems about FrontPages, for any number of rows and calls.            *)
(***************************************************************************)
EXTENDS FrontPages, TLAPS

(* The details that may still come are of the row the dialog was opened    *)
(* for, or were in flight then.                                            *)
Coming ==
    detailVisible =>
        /\ \A a \in Alias : details[a] > 0 => a \in late \cup {opened}
        /\ detail # None => detail \in late \cup {opened}

IInv == TypeOK /\ SpinnerReal /\ Coming

LEMMA Counts ==
    ASSUME NEW count \in [Alias -> 0..MaxCalls], NEW a \in Alias
    PROVE  /\ count[a] < MaxCalls => More(count, a) \in [Alias -> 0..MaxCalls]
           /\ count[a] > 0 => Less(count, a) \in [Alias -> 0..MaxCalls]
           /\ More(count, a)[a] > 0
           /\ \A b \in Alias \ {a} : More(count, a)[b] = count[b] /\ Less(count, a)[b] = count[b]
  <1>1. count[a] \in 0..MaxCalls /\ MaxCalls \in Nat
    BY FrontPagesAssumption
  <1>2. count[a] < MaxCalls => count[a] + 1 \in 0..MaxCalls
    BY <1>1
  <1>3. count[a] > 0 => count[a] - 1 \in 0..MaxCalls
    BY <1>1
  <1>4. More(count, a)[a] = count[a] + 1 /\ count[a] + 1 > 0
    BY <1>1 DEF More
  <1>5. \A b \in Alias \ {a} : More(count, a)[b] = count[b] /\ Less(count, a)[b] = count[b]
    BY DEF More, Less
  <1>6. count[a] < MaxCalls => More(count, a) \in [Alias -> 0..MaxCalls]
    BY <1>2 DEF More
  <1>7. count[a] > 0 => Less(count, a) \in [Alias -> 0..MaxCalls]
    BY <1>3 DEF Less
  <1>8. QED
    BY <1>4, <1>5, <1>6, <1>7

LEMMA InitInv == Init => IInv
  <1>1. Zero \in [Alias -> 0..MaxCalls]
    BY FrontPagesAssumption DEF Zero
  <1>2. QED
    BY <1>1 DEF Init, IInv, TypeOK, SpinnerReal, Coming

LEMMA HandleDetailInv ==
    ASSUME IInv, NEW a \in Alias, HandleDetail(a) PROVE IInv'
  <1>1. /\ details[a] < MaxCalls /\ details' = More(details, a)
        /\ busyAlias' = a /\ detailLoading' = TRUE /\ detailVisible' = TRUE /\ detail' = None
        /\ opened' = a /\ late' = {b \in Alias : details[b] > 0}
        /\ UNCHANGED <<list, loading, downloads>>
    BY DEF HandleDetail
  <1>2. /\ details' \in [Alias -> 0..MaxCalls] /\ details'[a] > 0
        /\ \A b \in Alias \ {a} : details'[b] = details[b]
    BY <1>1, Counts DEF IInv, TypeOK
  <1>3. TypeOK'
    BY <1>1, <1>2 DEF IInv, TypeOK
  <1>4. SpinnerReal'
    <2>1. downloads'[a] \in 0..MaxCalls /\ details'[a] \in 0..MaxCalls
      BY <1>1, <1>2 DEF IInv, TypeOK
    <2>2. details'[a] + downloads'[a] > 0
      BY <1>2, <2>1, FrontPagesAssumption
    <2>3. QED
      BY <1>1, <1>2, <2>2 DEF SpinnerReal
  <1>5. Coming'
    BY <1>1, <1>2 DEF Coming
  <1>6. QED
    BY <1>3, <1>4, <1>5 DEF IInv

LEMMA DetailAnsweredInv ==
    ASSUME IInv, NEW a \in Alias, DetailAnswered(a) PROVE IInv'
  <1>1. /\ details[a] > 0 /\ details' = Less(details, a)
        /\ detail' \in {a, detail} /\ detailLoading' = FALSE /\ busyAlias' = NoAlias
        /\ UNCHANGED <<list, loading, detailVisible, downloads, opened, late>>
    BY DEF DetailAnswered
  <1>2. /\ details' \in [Alias -> 0..MaxCalls]
        /\ \A b \in Alias \ {a} : details'[b] = details[b]
    BY <1>1, Counts DEF IInv, TypeOK
  <1>3. TypeOK' /\ SpinnerReal'
    BY <1>1, <1>2 DEF IInv, TypeOK, SpinnerReal
  <1>4. Coming'
    BY <1>1, <1>2 DEF IInv, Coming
  <1>5. QED
    BY <1>3, <1>4 DEF IInv

LEMMA HandleDownloadInv ==
    ASSUME IInv, NEW a \in Alias, HandleDownload(a) PROVE IInv'
  <1>1. /\ downloads[a] < MaxCalls /\ downloads' = More(downloads, a) /\ busyAlias' = a
        /\ UNCHANGED <<list, loading, dialog, details>>
    BY DEF HandleDownload
  <1>2. downloads' \in [Alias -> 0..MaxCalls] /\ downloads'[a] > 0
    BY <1>1, Counts DEF IInv, TypeOK
  <1>3. TypeOK' /\ Coming'
    BY <1>1, <1>2 DEF dialog, IInv, TypeOK, Coming
  <1>4. SpinnerReal'
    <2>1. downloads'[a] \in 0..MaxCalls /\ details'[a] \in 0..MaxCalls
      BY <1>1, <1>2 DEF IInv, TypeOK
    <2>2. details'[a] + downloads'[a] > 0
      BY <1>2, <2>1, FrontPagesAssumption
    <2>3. QED
      BY <1>1, <2>2 DEF dialog, IInv, SpinnerReal
  <1>5. QED
    BY <1>3, <1>4 DEF IInv

LEMMA DownloadAnsweredInv ==
    ASSUME IInv, NEW a \in Alias, DownloadAnswered(a) PROVE IInv'
  <1>1. /\ downloads[a] > 0 /\ downloads' = Less(downloads, a) /\ busyAlias' = NoAlias
        /\ UNCHANGED <<list, loading, dialog, details>>
    BY DEF DownloadAnswered
  <1>2. downloads' \in [Alias -> 0..MaxCalls]
    BY <1>1, Counts DEF IInv, TypeOK
  <1>3. QED
    BY <1>1, <1>2 DEF dialog, IInv, TypeOK, SpinnerReal, Coming

LEMMA InvStep == IInv /\ [Next]_vars => IInv'
  <1> SUFFICES ASSUME IInv, [Next]_vars PROVE IInv'
    OBVIOUS
  <1>1. CASE UNCHANGED vars
    BY <1>1 DEF vars, dialog, calls, IInv, TypeOK, SpinnerReal, Coming
  <1>2. CASE FetchList \/ ListAnswered \/ CloseDialog
    <2>1. /\ UNCHANGED <<busyAlias, detailLoading, detail, details, downloads, opened, late>>
          /\ list' \in {Alias, list} /\ loading' \in BOOLEAN
          /\ detailVisible' = detailVisible \/ detailVisible' = FALSE
      BY <1>2 DEF FetchList, ListAnswered, CloseDialog, dialog, calls, IInv, TypeOK
    <2>2. TypeOK'
      BY <2>1 DEF IInv, TypeOK
    <2>3. SpinnerReal' /\ Coming'
      BY <2>1 DEF IInv, SpinnerReal, Coming
    <2>4. QED
      BY <2>2, <2>3 DEF IInv
  <1>3. CASE Leave
    <2>1. Zero \in [Alias -> 0..MaxCalls]
      BY FrontPagesAssumption DEF Zero
    <2>2. QED
      BY <1>3, <2>1 DEF Leave, IInv, TypeOK, SpinnerReal, Coming
  <1>4. QED
    BY <1>1, <1>2, <1>3, HandleDetailInv, DetailAnsweredInv, HandleDownloadInv,
      DownloadAnsweredInv
    DEF Next

-----------------------------------------------------------------------------
(* The invariant holds in every state.                                     *)
THEOREM Inductive == Spec => []IInv
  BY InitInv, InvStep, PTL DEF Spec

(* The types.                                                              *)
THEOREM TypeCorrect == Spec => []TypeOK
  <1>1. IInv => TypeOK
    BY DEF IInv
  <1>2. QED
    BY <1>1, Inductive, PTL

(* What is shown as under way is (Download/index.vue:34-36).               *)
THEOREM SpinnerRealHolds == Spec => []SpinnerReal
  <1>1. IInv => SpinnerReal
    BY DEF IInv
  <1>2. QED
    BY <1>1, Inductive, PTL

(* The dialog shows the certificate it was opened for or a late one.       *)
THEOREM DialogOfHolds == Spec => []DialogOf
  <1>1. IInv => DialogOf
    BY DEF IInv, Coming, DialogOf
  <1>2. QED
    BY <1>1, Inductive, PTL
=============================================================================
