--------------------------- MODULE PaymentsProofs ---------------------------
(***************************************************************************)
(* Proofs about Payments for every set of payments and callbacks and every *)
(* pool size.                                                              *)
(*                                                                         *)
(* BaseInv holds whatever the faults.  LockInv says what the row lock of   *)
(* the outer transaction buys and holds as long as Prisma does not roll    *)
(* that transaction back under a running reconcile.  AgreeInv ties the row *)
(* to what the gateway decided and holds where every callback says what    *)
(* the gateway decided, however many overlap; AloneInv holds where they    *)
(* come one after the other, whatever they say: the row of a payment that  *)
(* a callback works on is still the PENDING it read.                       *)
(***************************************************************************)
EXTENDS Payments, TLAPS

\* The callback passed the Authority check.
InputsMatch ==
  \A h \in Callbacks : pc[h] \in Steps =>
    /\ input[h] \in Inputs /\ input[h].authority = input[h].payment
    /\ reference[PaymentOf(h)] = PaymentOf(h)

ReferenceIsOwn ==
  \A p \in PaymentIds :
    reference[p] = None \/ (reference[p] = p /\ initiating[p] = "ended")

Initiated ==
  \A p \in PaymentIds :
    /\ status[p] = "ABSENT" <=> initiating[p] = "idle"
    /\ initiating[p] \in {"idle", "calling"} => gateway[p] = "unknown"
    /\ initiating[p] = "calling" => status[p] = "PENDING"

\* The success branch is entered only after the gateway settled.
SettledBeforeWrite ==
  \A h \in Callbacks : pc[h] \in {"begin"} \cup InTransaction =>
    gateway[PaymentOf(h)] = "settled"

CreditProgress ==
  \A h \in Callbacks :
    /\ pc[h] = "credit" => PaymentOf(h) \in Topups
    /\ pc[h] = "commit" /\ PaymentOf(h) \in Topups => credits[PaymentOf(h)] >= 1

BaseInv ==
  /\ TypeOK /\ InputsMatch /\ ReferenceIsOwn /\ Initiated
  /\ SettledBeforeWrite /\ CreditProgress /\ SucceededIsCredited /\ CreditedIsSettled

(* The row lock is held exactly from the update to the end of the          *)
(* transaction, so the entry found missing is still missing at the credit. *)
LockInv ==
  /\ \A h \in Callbacks : pc[h] \in AfterUpdate => rowLock[PaymentOf(h)] = h
  /\ \A h \in Callbacks : pc[h] = "credit" => credits[PaymentOf(h)] = 0
  /\ CannotDoubleCredit

AgreeInv ==
  /\ \A p \in PaymentIds :
       /\ <<p, "NOK">> \in redirects => gateway[p] = "refused"
       /\ <<p, "OK">> \in redirects => gateway[p] \in {"paid", "settled", "reversed"}
       /\ status[p] = "SUCCEEDED" => gateway[p] = "settled"
       /\ status[p] = "CANCELLED" => gateway[p] = "refused"
       /\ status[p] = "FAILED" => gateway[p] \in {"unknown", "reversed"}
                                  /\ initiating[p] = "ended"
  /\ \A h \in Callbacks :
       /\ pc[h] \in {"cancel", "cancelling"} => gateway[PaymentOf(h)] = "refused"
       /\ pc[h] = "verify" => gateway[PaymentOf(h)] \in {"paid", "settled", "reversed"}
       /\ pc[h] \in {"fail", "failing"} => gateway[PaymentOf(h)] = "reversed"
                                           /\ initiating[PaymentOf(h)] = "ended"

AloneInv ==
  /\ \A g, h \in Callbacks :
       pc[g] \in Steps /\ pc[h] \in Steps /\ PaymentOf(g) = PaymentOf(h) => g = h
  /\ \A h \in Callbacks : pc[h] \in Steps => status[PaymentOf(h)] = "PENDING"

(* A credit that is not yet followed by its commit is about to be.          *)
WholeInv ==
  /\ \A h \in Callbacks : pc[h] \in InTransaction => h \in connected
  /\ \A p \in PaymentIds : credits[p] > 0 =>
       status[p] = "SUCCEEDED" \/ \E h \in Callbacks : pc[h] = "commit" /\ PaymentOf(h) = p
-----------------------------------------------------------------------------
(* The faults a behaviour meets are chosen once.                            *)
LEMMA FaultsAreFixed == [Next]_vars => UNCHANGED faults
BY DEF Next, vars, PaymentStep, CreatePending, ProviderAccepts, ProviderFails, StoreReference,
   InitiateDies, UserPays, UserCancels, GatewayReverses, Receive, HandlerStep, SendCancel,
   MarkCancelled, Verified, NotVerified, SendFail, MarkFailed, BeginTransaction, UpdateRow,
   FindEntry, CreditWallet, Commit, CommitRefused, HandlerFails, TransactionTimesOut, AllEnded

LEMMA InitBaseInv == Init => BaseInv
<1> SUFFICES ASSUME Init PROVE BaseInv
  OBVIOUS
<1> USE DEF Init
<1>1. TypeOK
  BY DEF TypeOK, Statuses
<1>2. InputsMatch /\ SettledBeforeWrite /\ CreditProgress
  BY DEF InputsMatch, SettledBeforeWrite, CreditProgress, Steps, InTransaction
<1>3. ReferenceIsOwn /\ Initiated /\ SucceededIsCredited /\ CreditedIsSettled
  BY TopupAssumption DEF ReferenceIsOwn, Initiated, SucceededIsCredited, CreditedIsSettled
<1>4. QED
  BY <1>1, <1>2, <1>3 DEF BaseInv

(* The initiate call and the user at the gateway. *)
LEMMA PaymentStepKeepsBaseInv ==
  ASSUME BaseInv, NEW p \in PaymentIds, PaymentStep(p), UNCHANGED faults
  PROVE  BaseInv'
<1> USE DEF BaseInv, tables, handlers
<1>1. CASE CreatePending(p)
  BY <1>1, TopupAssumption DEF CreatePending, TypeOK, InputsMatch, ReferenceIsOwn, Initiated,
     SettledBeforeWrite, CreditProgress, SucceededIsCredited, CreditedIsSettled, PaymentOf, Statuses
<1>2. CASE ProviderAccepts(p)
  BY <1>2, TopupAssumption DEF ProviderAccepts, TypeOK, InputsMatch, ReferenceIsOwn, Initiated,
     SettledBeforeWrite, CreditProgress, SucceededIsCredited, CreditedIsSettled, PaymentOf
<1>3. CASE ProviderFails(p)
  BY <1>3, TopupAssumption DEF ProviderFails, TypeOK, InputsMatch, ReferenceIsOwn, Initiated,
     SettledBeforeWrite, CreditProgress, SucceededIsCredited, CreditedIsSettled, PaymentOf, Statuses
<1>4. CASE StoreReference(p) \/ InitiateDies(p)
  <2>1. TypeOK'
    BY <1>4 DEF StoreReference, InitiateDies, TypeOK
  <2>2. ReferenceIsOwn' /\ Initiated'
    BY <1>4, NoneAssumption DEF StoreReference, InitiateDies, TypeOK, ReferenceIsOwn, Initiated
  <2>3. \A q \in PaymentIds : reference[q] = q => reference'[q] = q
    BY <1>4 DEF StoreReference, InitiateDies, TypeOK
  <2>4. InputsMatch'
    BY <1>4, <2>3 DEF StoreReference, InitiateDies, InputsMatch, Inputs, PaymentOf
  <2>5. SettledBeforeWrite' /\ CreditProgress' /\ SucceededIsCredited' /\ CreditedIsSettled'
    BY <1>4 DEF StoreReference, InitiateDies, SettledBeforeWrite, CreditProgress,
       SucceededIsCredited, CreditedIsSettled, PaymentOf
  <2>6. QED
    BY <2>1, <2>2, <2>4, <2>5
<1>5. CASE UserPays(p)
  BY <1>5 DEF UserPays, TypeOK, InputsMatch, ReferenceIsOwn, Initiated,
     SettledBeforeWrite, CreditProgress, SucceededIsCredited, CreditedIsSettled, PaymentOf
<1>6. CASE UserCancels(p)
  BY <1>6 DEF UserCancels, TypeOK, InputsMatch, ReferenceIsOwn, Initiated,
     SettledBeforeWrite, CreditProgress, SucceededIsCredited, CreditedIsSettled, PaymentOf
<1>7. CASE GatewayReverses(p)
  BY <1>7 DEF GatewayReverses, TypeOK, InputsMatch, ReferenceIsOwn, Initiated,
     SettledBeforeWrite, CreditProgress, SucceededIsCredited, CreditedIsSettled, PaymentOf
<1>8. QED
  BY <1>1, <1>2, <1>3, <1>4, <1>5, <1>6, <1>7 DEF PaymentStep

LEMMA ReceiveKeepsBaseInv ==
  ASSUME BaseInv, NEW h \in Callbacks, NEW p \in PaymentIds, NEW a \in PaymentIds,
         NEW s \in {"OK", "NOK"}, Receive(h, p, a, s), UNCHANGED faults
  PROVE  BaseInv'
<1> USE DEF BaseInv, tables, gatewayVars, Goto
<1>1. pc'[h] \in {"ended", "cancel", "verify"}
  BY DEF Receive, TypeOK
<1>2. pc'[h] # "ended" => a = p /\ reference[p] = p
  BY NoneAssumption DEF Receive, TurnedAway, TypeOK, ReferenceIsOwn
<1>3. input' = [input EXCEPT ![h] = [payment |-> p, authority |-> a]]
  BY DEF Receive
<1>4. \A q \in Callbacks : q # h => pc'[q] = pc[q] /\ input'[q] = input[q]
  BY DEF Receive, TypeOK
<1>5. TypeOK'
  <2>1. pc' \in [Callbacks -> {"idle", "ended"} \cup Steps]
    BY <1>1 DEF Receive, TypeOK, Steps
  <2>2. input' \in [Callbacks -> Inputs \cup {NoInput}]
    BY <1>3 DEF TypeOK, Inputs
  <2>3. QED
    BY <2>1, <2>2 DEF Receive, TypeOK
<1>6. InputsMatch'
  BY <1>1, <1>2, <1>3, <1>4 DEF Receive, TypeOK, InputsMatch, Inputs, Steps, InTransaction, PaymentOf
<1>7. SettledBeforeWrite' /\ CreditProgress'
  BY <1>1, <1>4 DEF Receive, SettledBeforeWrite, CreditProgress, PaymentOf, InTransaction
<1>8. QED
  BY <1>5, <1>6, <1>7 DEF Receive, ReferenceIsOwn, Initiated, SucceededIsCredited, CreditedIsSettled

LEMMA HandlerKeepsBaseInv ==
  ASSUME BaseInv, NEW h \in Callbacks,
         HandlerStep(h) \/ HandlerFails(h) \/ TransactionTimesOut(h), UNCHANGED faults
  PROVE  BaseInv'
<1> USE DEF BaseInv, tables, gatewayVars, Goto, PaymentOf, Connect, Release
<1>1. pc[h] \in Steps /\ input[h] \in Inputs /\ input[h].authority = input[h].payment
      /\ PaymentOf(h) \in PaymentIds
  BY DEF HandlerStep, HandlerFails, TransactionTimesOut, InputsMatch, Inputs, Steps, InTransaction,
     SendCancel, MarkCancelled, Verified, NotVerified, SendFail, MarkFailed, BeginTransaction,
     UpdateRow, FindEntry, CreditWallet, Commit, CommitRefused
<1>2. CASE SendCancel(h) \/ SendFail(h) \/ NotVerified(h) \/ BeginTransaction(h) \/ UpdateRow(h)
           \/ CommitRefused(h)
  BY <1>1, <1>2 DEF SendCancel, SendFail, NotVerified, BeginTransaction, UpdateRow, CommitRefused,
     TypeOK, InputsMatch, ReferenceIsOwn, Initiated, SettledBeforeWrite, CreditProgress,
     SucceededIsCredited, CreditedIsSettled, Steps, InTransaction
<1>3. CASE MarkCancelled(h) \/ MarkFailed(h)
  <2>1. initiating[PaymentOf(h)] = "ended"
    BY <1>1, NoneAssumption DEF InputsMatch, ReferenceIsOwn
  <2>2. TypeOK'
    BY <1>1, <1>3 DEF MarkCancelled, MarkFailed, TypeOK, Statuses
  <2>3. Initiated'
    BY <1>1, <1>3, <2>1 DEF MarkCancelled, MarkFailed, TypeOK, Initiated
  <2>4. SucceededIsCredited'
    BY <1>1, <1>3, TopupAssumption DEF MarkCancelled, MarkFailed, TypeOK, SucceededIsCredited
  <2>5. InputsMatch' /\ SettledBeforeWrite' /\ CreditProgress'
    BY <1>1, <1>3 DEF MarkCancelled, MarkFailed, TypeOK, InputsMatch, SettledBeforeWrite,
       CreditProgress, Steps, InTransaction
  <2>6. QED
    BY <1>3, <2>2, <2>3, <2>4, <2>5 DEF MarkCancelled, MarkFailed, ReferenceIsOwn,
       CreditedIsSettled
<1>4. CASE Verified(h)
  BY <1>1, <1>4 DEF Verified,
     TypeOK, InputsMatch, ReferenceIsOwn, Initiated, SettledBeforeWrite, CreditProgress,
     SucceededIsCredited, CreditedIsSettled, Steps, InTransaction
<1>5. CASE FindEntry(h)
  BY <1>1, <1>5 DEF FindEntry,
     TypeOK, InputsMatch, ReferenceIsOwn, Initiated, SettledBeforeWrite, CreditProgress,
     SucceededIsCredited, CreditedIsSettled, Steps, InTransaction
<1>6. CASE CreditWallet(h)
  BY <1>1, <1>6 DEF CreditWallet,
     TypeOK, InputsMatch, ReferenceIsOwn, Initiated, SettledBeforeWrite, CreditProgress,
     SucceededIsCredited, CreditedIsSettled, Steps, InTransaction
<1>7. CASE Commit(h)
  BY <1>1, <1>7 DEF Commit,
     TypeOK, InputsMatch, ReferenceIsOwn, Initiated, SettledBeforeWrite, CreditProgress,
     SucceededIsCredited, CreditedIsSettled, Steps, InTransaction, Statuses
<1>8. CASE HandlerFails(h) \/ TransactionTimesOut(h)
  BY <1>1, <1>8 DEF HandlerFails, TransactionTimesOut,
     TypeOK, InputsMatch, ReferenceIsOwn, Initiated, SettledBeforeWrite, CreditProgress,
     SucceededIsCredited, CreditedIsSettled, Steps, InTransaction
<1>9. QED
  BY <1>2, <1>3, <1>4, <1>5, <1>6, <1>7, <1>8 DEF HandlerStep

LEMMA NextKeepsBaseInv == BaseInv /\ [Next]_vars => BaseInv'
<1> SUFFICES ASSUME BaseInv, [Next]_vars PROVE BaseInv'
  OBVIOUS
<1>1. CASE UNCHANGED vars
  BY <1>1 DEF vars, BaseInv, TypeOK, InputsMatch, ReferenceIsOwn, Initiated, SettledBeforeWrite,
     CreditProgress, SucceededIsCredited, CreditedIsSettled, PaymentOf
<1>2. QED
  BY <1>1, FaultsAreFixed, PaymentStepKeepsBaseInv, ReceiveKeepsBaseInv,
     HandlerKeepsBaseInv DEF Next, AllEnded

LEMMA BaseInvariant == Spec => []BaseInv
BY InitBaseInv, NextKeepsBaseInv, PTL DEF Spec

(* Every reachable state of the payment handlers is well typed. *)
THEOREM PaymentsTypeOK == Spec => []TypeOK
<1>1. BaseInv => TypeOK
  BY DEF BaseInv
<1>2. QED
  BY <1>1, BaseInvariant, PTL

(* A topup shown as SUCCEEDED is in the ledger, whatever fails or times    *)
(* out: reconcile credits before the outer transaction commits.            *)
THEOREM PaymentsSucceededIsCredited == Spec => []SucceededIsCredited
<1>1. BaseInv => SucceededIsCredited
  BY DEF BaseInv
<1>2. QED
  BY <1>1, BaseInvariant, PTL

(* Only topups the gateway settled are credited. *)
THEOREM PaymentsCreditedIsSettled == Spec => []CreditedIsSettled
<1>1. BaseInv => CreditedIsSettled
  BY DEF BaseInv
<1>2. QED
  BY <1>1, BaseInvariant, PTL
-----------------------------------------------------------------------------
LEMMA NextKeepsLockInv ==
  ASSUME "timeout" \notin faults, BaseInv, LockInv, [Next]_vars
  PROVE  LockInv'
<1> USE DEF tables, handlers, gatewayVars, Goto, PaymentOf, Connect, Release, BaseInv, LockInv,
            AfterUpdate
<1>1. CASE UNCHANGED vars
  BY <1>1 DEF vars, CannotDoubleCredit
<1>2. ASSUME NEW p \in PaymentIds, PaymentStep(p) PROVE LockInv'
  BY <1>2 DEF PaymentStep, CreatePending, ProviderAccepts, ProviderFails, StoreReference,
     InitiateDies, UserPays, UserCancels, GatewayReverses, CannotDoubleCredit
<1>3. ASSUME NEW h \in Callbacks, NEW p \in PaymentIds, NEW a \in PaymentIds,
             NEW s \in {"OK", "NOK"}, Receive(h, p, a, s)
      PROVE  LockInv'
  <2>1. pc'[h] \notin AfterUpdate /\ \A q \in Callbacks : q # h => pc'[q] = pc[q] /\ input'[q] = input[q]
    BY <1>3 DEF Receive, TypeOK
  <2>2. QED
    BY <1>3, <2>1 DEF Receive, CannotDoubleCredit
<1>4. ASSUME NEW h \in Callbacks, HandlerStep(h) \/ HandlerFails(h) PROVE LockInv'
  <2> DEFINE P == input[h].payment
  <2>0. pc[h] \in Steps /\ input[h] \in Inputs /\ P \in PaymentIds
    BY <1>4 DEF HandlerStep, HandlerFails, InputsMatch, Inputs, Steps, InTransaction,
     SendCancel, MarkCancelled, Verified, NotVerified, SendFail, MarkFailed, BeginTransaction,
     UpdateRow, FindEntry, CreditWallet, Commit, CommitRefused
  <2>1. CASE SendCancel(h) \/ SendFail(h) \/ NotVerified(h) \/ Verified(h) \/ BeginTransaction(h)
             \/ CommitRefused(h)
    BY <2>0, <2>1 DEF SendCancel, SendFail, NotVerified, Verified, BeginTransaction, CommitRefused,
       TypeOK, CannotDoubleCredit
  <2>2. CASE MarkCancelled(h) \/ MarkFailed(h) \/ Commit(h) \/ HandlerFails(h)
    <3>1. pc'[h] = "ended" /\ \A q \in Callbacks : q # h => pc'[q] = pc[q]
      BY <2>2 DEF MarkCancelled, MarkFailed, Commit, HandlerFails, TypeOK
    <3>2. input' = input /\ credits' = credits
      BY <2>2 DEF MarkCancelled, MarkFailed, Commit, HandlerFails
    <3>3. \A p \in PaymentIds : rowLock[p] # h => rowLock'[p] = rowLock[p]
      BY <2>2 DEF MarkCancelled, MarkFailed, Commit, HandlerFails
    <3>4. ASSUME NEW q \in Callbacks, pc'[q] \in AfterUpdate PROVE rowLock'[input'[q].payment] = q
      BY <3>1, <3>2, <3>3, <3>4 DEF InputsMatch, Inputs, Steps, InTransaction
    <3>5. QED
      BY <3>1, <3>2, <3>4 DEF CannotDoubleCredit
  <2>3. CASE UpdateRow(h)
    <3>1. rowLock' = [rowLock EXCEPT ![P] = h] /\ rowLock[P] = None
      BY <2>3 DEF UpdateRow, RowFree
    <3>2. pc' = [pc EXCEPT ![h] = "reconcile"] /\ input' = input /\ credits' = credits
      BY <2>3 DEF UpdateRow
    <3>3. ASSUME NEW q \in Callbacks, pc'[q] \in AfterUpdate PROVE rowLock'[input'[q].payment] = q
      BY <2>0, <3>1, <3>2, <3>3, NoneAssumption DEF TypeOK, InputsMatch, Inputs, Steps, InTransaction
    <3>4. QED
      BY <3>2, <3>3 DEF TypeOK, CannotDoubleCredit
  <2>4. CASE FindEntry(h)
    BY <2>0, <2>4 DEF FindEntry, TypeOK, CannotDoubleCredit
  <2>5. CASE CreditWallet(h)
    <3>1. credits' = [credits EXCEPT ![P] = credits[P] + 1] /\ credits[P] = 0 /\ pc[h] = "credit"
      BY <2>5 DEF CreditWallet
    <3>2. pc' = [pc EXCEPT ![h] = "commit"] /\ input' = input /\ rowLock' = rowLock
      BY <2>5 DEF CreditWallet
    <3>3. CannotDoubleCredit'
      BY <2>0, <3>1 DEF TypeOK, CannotDoubleCredit
    <3>4. ASSUME NEW q \in Callbacks, pc'[q] = "credit" PROVE credits'[input'[q].payment] = 0
      <4>1. q # h /\ pc[q] = "credit" /\ credits[input[q].payment] = 0
        BY <3>2, <3>4 DEF TypeOK
      <4>2. rowLock[input[q].payment] = q /\ rowLock[P] = h
        BY <3>1, <4>1
      <4>3. input[q].payment # P
        BY <4>1, <4>2
      <4>4. QED
        BY <3>1, <3>2, <4>1, <4>3 DEF TypeOK, InputsMatch, Inputs, Steps, InTransaction
    <3>5. QED
      BY <2>0, <3>1, <3>2, <3>3, <3>4 DEF TypeOK
  <2>6. QED
    BY <1>4, <2>1, <2>2, <2>3, <2>4, <2>5 DEF HandlerStep
<1>5. ASSUME NEW h \in Callbacks, TransactionTimesOut(h) PROVE LockInv'
  BY <1>5 DEF TransactionTimesOut
<1>6. QED
  BY <1>1, <1>2, <1>3, <1>4, <1>5 DEF Next, AllEnded

(* However many callbacks a payment gets, in whatever order, and wherever  *)
(* they die, its wallet is credited at most once, provided Prisma never    *)
(* rolls the outer transaction back while reconcile is still running.      *)
THEOREM PaymentsAtMostOneCredit == Spec => []AtMostOneCredit
<1> DEFINE Guarded == "timeout" \in faults \/ LockInv
<1>1. Init => Guarded
  BY DEF Init, LockInv, AfterUpdate, CannotDoubleCredit
<1>2. BaseInv /\ Guarded /\ [Next]_vars => Guarded'
  <2> SUFFICES ASSUME BaseInv, Guarded, [Next]_vars PROVE Guarded'
    OBVIOUS
  <2>1. UNCHANGED faults
    BY FaultsAreFixed
  <2>2. CASE "timeout" \in faults
    BY <2>1, <2>2
  <2>3. CASE "timeout" \notin faults
    BY <2>3, NextKeepsLockInv
  <2>4. QED
    BY <2>2, <2>3
<1>3. Guarded => AtMostOneCredit
  BY DEF LockInv, AtMostOneCredit
<1> HIDE DEF Guarded
<1>4. QED
  BY <1>1, <1>2, <1>3, BaseInvariant, PTL DEF Spec
-----------------------------------------------------------------------------
LEMMA NextKeepsAgreeInv ==
  ASSUME Unfaithful \cap faults = {}, BaseInv, AgreeInv, [Next]_vars
  PROVE  AgreeInv'
<1> USE DEF tables, handlers, gatewayVars, Goto, PaymentOf, Connect, Release, BaseInv, AgreeInv
<1>0. "payAfterCancel" \notin faults /\ "anyStatus" \notin faults /\ "verifyError" \notin faults
  BY DEF Unfaithful
<1>1. CASE UNCHANGED vars
  BY <1>1 DEF vars
<1>2. ASSUME NEW p \in PaymentIds, PaymentStep(p) PROVE AgreeInv'
  <2>0. \A h \in Callbacks : pc[h] \in {"cancel", "cancelling", "verify", "fail", "failing"} =>
          input[h].payment \in PaymentIds /\ reference[input[h].payment] = input[h].payment
    BY DEF InputsMatch, Inputs, Steps
  <2>1. CASE CreatePending(p)
    BY <2>0, <2>1, NoneAssumption DEF CreatePending, TypeOK, Initiated, ReferenceIsOwn
  <2>2. CASE ProviderAccepts(p)
    BY <2>0, <2>2, NoneAssumption DEF ProviderAccepts, TypeOK, Initiated, ReferenceIsOwn
  <2>3. CASE ProviderFails(p)
    BY <2>0, <2>3, NoneAssumption DEF ProviderFails, TypeOK, Initiated, ReferenceIsOwn
  <2>4. CASE StoreReference(p) \/ InitiateDies(p)
    BY <2>0, <2>4, NoneAssumption DEF StoreReference, InitiateDies, TypeOK, ReferenceIsOwn
  <2>5. CASE UserPays(p) \/ UserCancels(p)
    <3>1. gateway[p] = "open" /\ reference[p] = p /\ initiating[p] = "ended"
      BY <2>5, NoneAssumption DEF UserPays, UserCancels, ReferenceIsOwn
    <3>2. \/ gateway' = [gateway EXCEPT ![p] = "paid"] /\ redirects' = redirects \cup {<<p, "OK">>}
          \/ gateway' = [gateway EXCEPT ![p] = "refused"] /\ redirects' = redirects \cup {<<p, "NOK">>}
      BY <1>0, <2>5 DEF UserPays, UserCancels
    <3>3. UNCHANGED <<status, initiating, pc, input>>
      BY <2>5 DEF UserPays, UserCancels
    <3>4. QED
      BY <2>0, <3>1, <3>2, <3>3 DEF TypeOK
  <2>6. CASE GatewayReverses(p)
    BY <2>0, <2>6 DEF GatewayReverses, TypeOK
  <2>7. QED
    BY <1>2, <2>1, <2>2, <2>3, <2>4, <2>5, <2>6 DEF PaymentStep
<1>3. ASSUME NEW h \in Callbacks, NEW p \in PaymentIds, NEW a \in PaymentIds,
             NEW s \in {"OK", "NOK"}, Receive(h, p, a, s)
      PROVE  AgreeInv'
  <2>1. pc' = [pc EXCEPT ![h] = IF TurnedAway(p, a) THEN "ended"
                                ELSE IF s = "NOK" THEN "cancel" ELSE "verify"]
        /\ input' = [input EXCEPT ![h] = [payment |-> p, authority |-> a]]
        /\ <<a, s>> \in redirects /\ UNCHANGED <<status, gateway, initiating, redirects>>
    BY <1>0, <1>3 DEF Receive, MaySend
  <2>2. \A q \in Callbacks : q # h => pc'[q] = pc[q] /\ input'[q] = input[q]
    BY <2>1 DEF TypeOK
  <2>3. CASE TurnedAway(p, a)
    <3>1. pc'[h] = "ended"
      BY <2>1, <2>3 DEF TypeOK
    <3>2. QED
      BY <2>1, <2>2, <3>1
  <2>4. CASE ~TurnedAway(p, a)
    <3>1. a = p /\ input'[h].payment = p
      BY <2>1, <2>4, NoneAssumption DEF TurnedAway, TypeOK, ReferenceIsOwn
    <3>2. pc' = [pc EXCEPT ![h] = IF s = "NOK" THEN "cancel" ELSE "verify"]
      BY <2>1, <2>4
    <3>3. CASE s = "NOK"
      <4>1. gateway[p] = "refused"
        BY <2>1, <3>1, <3>3
      <4>2. pc'[h] = "cancel"
        BY <3>2, <3>3 DEF TypeOK
      <4>3. QED
        BY <2>1, <2>2, <3>1, <4>1, <4>2
    <3>4. CASE s = "OK"
      <4>1. gateway[p] \in {"paid", "settled", "reversed"}
        BY <2>1, <3>1, <3>4
      <4>2. pc'[h] = "verify"
        BY <3>2, <3>4 DEF TypeOK
      <4>3. QED
        BY <2>1, <2>2, <3>1, <4>1, <4>2
    <3>5. QED
      BY <3>3, <3>4
  <2>5. QED
    BY <2>3, <2>4
<1>4. ASSUME NEW h \in Callbacks, HandlerStep(h) \/ HandlerFails(h) \/ TransactionTimesOut(h)
      PROVE  AgreeInv'
  <2> DEFINE P == input[h].payment
  <2>0. pc[h] \in Steps /\ input[h] \in Inputs /\ P \in PaymentIds /\ input[h].authority = P
        /\ reference[P] = P /\ initiating[P] = "ended"
    BY <1>4, NoneAssumption DEF HandlerStep, HandlerFails, TransactionTimesOut, InputsMatch, Inputs,
     Steps, InTransaction, ReferenceIsOwn,
     SendCancel, MarkCancelled, Verified, NotVerified, SendFail, MarkFailed, BeginTransaction,
     UpdateRow, FindEntry, CreditWallet, Commit, CommitRefused
  <2>1. CASE SendCancel(h) \/ SendFail(h)
    BY <2>0, <2>1 DEF SendCancel, SendFail, TypeOK
  <2>2. CASE NotVerified(h)
    BY <1>0, <2>0, <2>2 DEF NotVerified, TypeOK
  <2>3. CASE Verified(h)
    BY <2>0, <2>3 DEF Verified, TypeOK
  <2>4. CASE MarkCancelled(h) \/ MarkFailed(h)
    BY <2>0, <2>4 DEF MarkCancelled, MarkFailed, TypeOK
  <2>5. CASE Commit(h)
    BY <2>0, <2>5 DEF Commit, TypeOK, SettledBeforeWrite, InTransaction
  <2>6. CASE BeginTransaction(h) \/ UpdateRow(h) \/ FindEntry(h) \/ CreditWallet(h)
             \/ CommitRefused(h)
    BY <2>0, <2>6 DEF BeginTransaction, UpdateRow, FindEntry, CreditWallet, CommitRefused, TypeOK
  <2>7. CASE HandlerFails(h) \/ TransactionTimesOut(h)
    BY <2>0, <2>7 DEF HandlerFails, TransactionTimesOut, TypeOK, InTransaction
  <2>8. QED
    BY <1>4, <2>1, <2>2, <2>3, <2>4, <2>5, <2>6, <2>7 DEF HandlerStep
<1>5. QED
  BY <1>1, <1>2, <1>3, <1>4 DEF Next, AllEnded

(* A step that overwrites a terminal status needs a handler that decided   *)
(* otherwise than the gateway did.                                         *)
LEMMA AgreeInvKeepsTerminal ==
  ASSUME BaseInv, AgreeInv, [Next]_vars, NEW p \in PaymentIds, status[p] \in Terminal
  PROVE  status'[p] = status[p]
<1> USE DEF tables, handlers, gatewayVars, PaymentOf, BaseInv, AgreeInv, Terminal
<1>1. CASE UNCHANGED vars
  BY <1>1 DEF vars
<1>2. ASSUME NEW q \in PaymentIds, PaymentStep(q) PROVE status'[p] = status[p]
  BY <1>2 DEF PaymentStep, CreatePending, ProviderAccepts, ProviderFails, StoreReference,
     InitiateDies, UserPays, UserCancels, GatewayReverses, TypeOK, Initiated
<1>3. ASSUME NEW h \in Callbacks, HandlerStep(h) PROVE status'[p] = status[p]
  <2>0. initiating[p] = "ended" \/ input[h].payment # p \/ pc[h] \notin Steps
    BY NoneAssumption DEF InputsMatch, ReferenceIsOwn
  <2>1. CASE MarkCancelled(h) \/ MarkFailed(h)
    BY <2>0, <2>1 DEF MarkCancelled, MarkFailed, TypeOK, Steps
  <2>2. CASE Commit(h)
    BY <2>0, <2>2 DEF Commit, TypeOK, SettledBeforeWrite, InTransaction, Steps
  <2>3. QED
    BY <1>3, <2>1, <2>2 DEF HandlerStep, SendCancel, Verified, NotVerified, SendFail,
       BeginTransaction, UpdateRow, FindEntry, CreditWallet, CommitRefused
<1>4. QED
  BY <1>1, <1>2, <1>3 DEF Next, AllEnded, Receive, HandlerFails, TransactionTimesOut

LEMMA NextKeepsAloneInv ==
  ASSUME "overlap" \notin faults, BaseInv, AloneInv, [Next]_vars
  PROVE  AloneInv' /\ KeepsTerminal
<1> USE DEF tables, handlers, gatewayVars, Goto, PaymentOf, Connect, Release
<1>0. /\ \A h \in Callbacks : pc[h] \in Steps =>
           /\ PaymentOf(h) \in PaymentIds /\ reference[PaymentOf(h)] = PaymentOf(h)
           /\ status[PaymentOf(h)] = "PENDING" /\ initiating[PaymentOf(h)] = "ended"
      /\ status \in [PaymentIds -> Statuses \cup {"ABSENT"}]
      /\ pc \in [Callbacks -> {"idle", "ended"} \cup Steps]
  BY NoneAssumption DEF BaseInv, TypeOK, InputsMatch, Inputs, ReferenceIsOwn, AloneInv
<1>1. CASE UNCHANGED vars
  BY <1>1 DEF vars, AloneInv, KeepsTerminal
<1>2. ASSUME NEW p \in PaymentIds, PaymentStep(p) PROVE AloneInv' /\ KeepsTerminal
  <2>1. pc' = pc /\ input' = input
    BY <1>2 DEF PaymentStep, CreatePending, ProviderAccepts, ProviderFails, StoreReference,
       InitiateDies, UserPays, UserCancels, GatewayReverses
  <2>2. /\ \A q \in PaymentIds : initiating[q] = "ended" => status'[q] = status[q]
        /\ \A q \in PaymentIds : status[q] \in Terminal => status'[q] = status[q]
    BY <1>0, <1>2 DEF PaymentStep, CreatePending, ProviderAccepts, ProviderFails, StoreReference,
       InitiateDies, UserPays, UserCancels, GatewayReverses, BaseInv, Initiated, Terminal
  <2>3. QED
    BY <1>0, <2>1, <2>2 DEF AloneInv, KeepsTerminal
<1>3. ASSUME NEW h \in Callbacks, NEW p \in PaymentIds, NEW a \in PaymentIds,
             NEW s \in {"OK", "NOK"}, Receive(h, p, a, s)
      PROVE  AloneInv' /\ KeepsTerminal
  <2>1. /\ input' = [input EXCEPT ![h] = [payment |-> p, authority |-> a]]
        /\ status' = status /\ input \in [Callbacks -> Inputs \cup {NoInput}]
    BY <1>3 DEF Receive, BaseInv, TypeOK
  <2>2. /\ pc'[h] \in Steps => status[p] = "PENDING"
        /\ \A g \in Callbacks : g # h => pc'[g] = pc[g]
    BY <1>0, <1>3 DEF Receive, TurnedAway, Steps, InTransaction
  <2>3. input'[h].payment = p /\ \A g \in Callbacks : g # h => input'[g] = input[g]
    BY <2>1
  <2>4. \A g \in Callbacks : pc[g] \in Steps => input[g].payment # p
    BY <1>3 DEF Receive, Alone
  <2>5. QED
    BY <2>1, <2>2, <2>3, <2>4 DEF AloneInv, KeepsTerminal
<1>4. ASSUME NEW h \in Callbacks, HandlerStep(h) \/ HandlerFails(h) \/ TransactionTimesOut(h)
      PROVE  AloneInv' /\ KeepsTerminal
  <2>1. /\ pc[h] \in Steps /\ input' = input
        /\ \A g \in Callbacks : g # h => pc'[g] = pc[g]
    BY <1>0, <1>4 DEF HandlerStep, HandlerFails, TransactionTimesOut, Steps, InTransaction,
       SendCancel, MarkCancelled, Verified, NotVerified, SendFail, MarkFailed, BeginTransaction,
       UpdateRow, FindEntry, CreditWallet, Commit, CommitRefused
  <2>2. status' = status \/ pc'[h] = "ended"
    BY <1>0, <1>4 DEF HandlerStep, HandlerFails, TransactionTimesOut,
       SendCancel, MarkCancelled, Verified, NotVerified, SendFail, MarkFailed, BeginTransaction,
       UpdateRow, FindEntry, CreditWallet, Commit, CommitRefused
  <2>3. \A q \in PaymentIds : q # input[h].payment => status'[q] = status[q]
    BY <1>0, <1>4 DEF HandlerStep, HandlerFails, TransactionTimesOut,
       SendCancel, MarkCancelled, Verified, NotVerified, SendFail, MarkFailed, BeginTransaction,
       UpdateRow, FindEntry, CreditWallet, Commit, CommitRefused
  <2>4. status[input[h].payment] = "PENDING"
    BY <1>0, <2>1
  <2>5. \A g \in Callbacks : pc'[g] \in Steps => pc[g] \in Steps
    BY <2>1
  <2>6. \A g \in Callbacks : pc'[g] \in Steps /\ g # h => input[g].payment # input[h].payment
    BY <2>1, <2>5 DEF AloneInv
  <2>7. "ended" \notin Steps
    BY DEF Steps, InTransaction
  <2>8. ASSUME NEW g \in Callbacks, pc'[g] \in Steps PROVE status'[input'[g].payment] = "PENDING"
    <3>1. pc[g] \in Steps /\ input'[g].payment = input[g].payment
          /\ input[g].payment \in PaymentIds /\ status[input[g].payment] = "PENDING"
      BY <1>0, <2>1, <2>5, <2>8
    <3>2. CASE g = h
      BY <2>2, <2>7, <2>8, <3>1, <3>2
    <3>3. CASE g # h
      BY <2>3, <2>6, <2>8, <3>1, <3>3
    <3>4. QED
      BY <3>2, <3>3
  <2>9. QED
    BY <1>0, <2>1, <2>3, <2>4, <2>5, <2>8 DEF AloneInv, KeepsTerminal, Terminal
<1>5. QED
  BY <1>1, <1>2, <1>3, <1>4 DEF Next, AllEnded

(* What a callback alone with its payment leaves is a credit and its commit, *)
(* or neither.                                                               *)
LEMMA NextKeepsWholeInv ==
  ASSUME {"overlap", "fail", "timeout"} \cap faults = {}, BaseInv, AloneInv, WholeInv, [Next]_vars
  PROVE  WholeInv'
<1> USE DEF tables, handlers, gatewayVars, Goto, PaymentOf, Connect, Release
<1>0. "overlap" \notin faults /\ "fail" \notin faults /\ "timeout" \notin faults
  OBVIOUS
<1>1. CASE UNCHANGED vars
  BY <1>1 DEF vars, WholeInv
<1>2. ASSUME NEW p \in PaymentIds, PaymentStep(p) PROVE WholeInv'
  <2>1. UNCHANGED <<pc, input, connected, credits>>
    BY <1>2 DEF PaymentStep, CreatePending, ProviderAccepts, ProviderFails, StoreReference,
       InitiateDies, UserPays, UserCancels, GatewayReverses
  <2>2. \A q \in PaymentIds : status[q] = "SUCCEEDED" => status'[q] = "SUCCEEDED"
    BY <1>0, NextKeepsAloneInv DEF KeepsTerminal, Terminal
  <2>3. QED
    BY <2>1, <2>2 DEF WholeInv
<1>3. ASSUME NEW h \in Callbacks, NEW p \in PaymentIds, NEW a \in PaymentIds,
             NEW s \in {"OK", "NOK"}, Receive(h, p, a, s)
      PROVE  WholeInv'
  <2>1. /\ pc[h] = "idle" /\ pc'[h] \notin InTransaction
        /\ \A g \in Callbacks : g # h => pc'[g] = pc[g] /\ input'[g] = input[g]
    BY <1>3 DEF Receive, BaseInv, TypeOK, InTransaction
  <2>2. UNCHANGED <<connected, credits, status>>
    BY <1>3 DEF Receive
  <2>3. QED
    BY <2>1, <2>2 DEF WholeInv
<1>4. ASSUME NEW h \in Callbacks, HandlerStep(h) PROVE WholeInv'
  <2> DEFINE P == input[h].payment
  <2>0. /\ pc[h] \in Steps /\ P \in PaymentIds /\ status[P] = "PENDING"
        /\ pc \in [Callbacks -> {"idle", "ended"} \cup Steps]
        /\ status \in [PaymentIds -> Statuses \cup {"ABSENT"}] /\ credits \in [PaymentIds -> Nat]
    BY <1>4 DEF HandlerStep, BaseInv, TypeOK, InputsMatch, Inputs, AloneInv, Steps, InTransaction,
     SendCancel, MarkCancelled, Verified, NotVerified, SendFail, MarkFailed, BeginTransaction,
     UpdateRow, FindEntry, CreditWallet, Commit, CommitRefused
  <2>1. \A g \in Callbacks : pc[g] = "commit" /\ input[g].payment = P => g = h
    BY <2>0 DEF AloneInv, Steps, InTransaction
  <2>2. CASE SendCancel(h) \/ SendFail(h) \/ NotVerified(h) \/ Verified(h) \/ BeginTransaction(h)
             \/ UpdateRow(h)
    <3>1. /\ UNCHANGED <<status, credits, input>> /\ connected \subseteq connected'
          /\ pc[h] # "commit" /\ \A g \in Callbacks : g # h => pc'[g] = pc[g]
      BY <2>0, <2>2 DEF SendCancel, SendFail, NotVerified, Verified, BeginTransaction, UpdateRow
    <3>2. pc'[h] \in InTransaction => h \in connected'
      BY <2>0, <2>2 DEF SendCancel, SendFail, NotVerified, Verified, BeginTransaction, UpdateRow,
         WholeInv, InTransaction
    <3>3. QED
      BY <3>1, <3>2 DEF WholeInv
  <2>3. CASE MarkCancelled(h) \/ MarkFailed(h)
    <3>1. pc[h] # "commit" /\ pc'[h] = "ended" /\ \A g \in Callbacks : g # h => pc'[g] = pc[g]
      BY <2>0, <2>3 DEF MarkCancelled, MarkFailed
    <3>2. connected' = connected \ {h} /\ input' = input /\ credits' = credits
      BY <2>3 DEF MarkCancelled, MarkFailed
    <3>3. \A q \in PaymentIds : q # P => status'[q] = status[q]
      BY <2>0, <2>3 DEF MarkCancelled, MarkFailed
    <3>4. ~(credits[P] > 0)
      BY <2>0, <2>1, <3>1 DEF WholeInv
    <3>5. QED
      BY <3>1, <3>2, <3>3, <3>4 DEF WholeInv, InTransaction
  <2>4. CASE FindEntry(h) \/ CreditWallet(h)
    <3>1. /\ \A g \in Callbacks : g # h => pc'[g] = pc[g]
          /\ pc[h] \in InTransaction /\ pc[h] # "commit" /\ pc'[h] \in {"credit", "commit"}
          /\ UNCHANGED <<status, input, connected>>
      BY <2>0, <2>4 DEF FindEntry, CreditWallet, InTransaction
    <3>2. \A q \in PaymentIds : q # P => credits'[q] = credits[q]
      BY <2>0, <2>4 DEF FindEntry, CreditWallet
    <3>3. credits[P] = 0
      BY <2>0, <2>1, <3>1 DEF WholeInv
    <3>4. credits'[P] > 0 => pc'[h] = "commit"
      BY <2>0, <2>4, <3>3 DEF FindEntry, CreditWallet
    <3>5. QED
      BY <3>1, <3>2, <3>4 DEF WholeInv
  <2>5. CASE Commit(h)
    <3>1. pc'[h] = "ended" /\ \A g \in Callbacks : g # h => pc'[g] = pc[g]
      BY <2>0, <2>5 DEF Commit
    <3>2. connected' = connected \ {h} /\ input' = input /\ credits' = credits
      BY <2>5 DEF Commit
    <3>3. status' = [status EXCEPT ![P] = "SUCCEEDED"]
      BY <2>5 DEF Commit
    <3>4. \A q \in PaymentIds : status[q] = "SUCCEEDED" => status'[q] = "SUCCEEDED"
      BY <2>0, <3>3
    <3>5. status'[P] = "SUCCEEDED"
      BY <2>0, <3>3
    <3>6. QED
      BY <3>1, <3>2, <3>4, <3>5 DEF WholeInv, InTransaction
  <2>6. CASE CommitRefused(h)
    BY <2>6 DEF CommitRefused, WholeInv, InTransaction
  <2>7. QED
    BY <1>4, <2>2, <2>3, <2>4, <2>5, <2>6 DEF HandlerStep
<1>5. QED
  BY <1>0, <1>1, <1>2, <1>3, <1>4 DEF Next, AllEnded, HandlerFails, TransactionTimesOut
-----------------------------------------------------------------------------
GuardedAgreeInv == Unfaithful \cap faults # {} \/ AgreeInv
GuardedAloneInv == "overlap" \in faults \/ AloneInv
GuardedWholeInv == {"overlap", "fail", "timeout"} \cap faults # {} \/ WholeInv

LEMMA AgreeInvariant == Spec => []GuardedAgreeInv
<1>1. Init => GuardedAgreeInv
  BY DEF Init, AgreeInv, GuardedAgreeInv
<1>2. BaseInv /\ GuardedAgreeInv /\ [Next]_vars => GuardedAgreeInv'
  BY FaultsAreFixed, NextKeepsAgreeInv DEF GuardedAgreeInv
<1>3. QED
  BY <1>1, <1>2, BaseInvariant, PTL DEF Spec

LEMMA AloneInvariant == Spec => []GuardedAloneInv
<1>1. Init => GuardedAloneInv
  BY DEF Init, AloneInv, GuardedAloneInv, Steps, InTransaction
<1>2. BaseInv /\ GuardedAloneInv /\ [Next]_vars => GuardedAloneInv'
  BY FaultsAreFixed, NextKeepsAloneInv DEF GuardedAloneInv
<1>3. QED
  BY <1>1, <1>2, BaseInvariant, PTL DEF Spec

LEMMA WholeInvariant == Spec => []GuardedWholeInv
<1>1. Init => GuardedWholeInv
  BY DEF Init, WholeInv, GuardedWholeInv, InTransaction
<1>2. BaseInv /\ GuardedAloneInv /\ GuardedWholeInv /\ [Next]_vars => GuardedWholeInv'
  <2> SUFFICES ASSUME BaseInv, GuardedAloneInv, GuardedWholeInv, [Next]_vars
               PROVE  GuardedWholeInv'
    OBVIOUS
  <2>1. UNCHANGED faults
    BY FaultsAreFixed
  <2>2. CASE {"overlap", "fail", "timeout"} \cap faults = {}
    BY <2>2, NextKeepsWholeInv DEF GuardedAloneInv, GuardedWholeInv
  <2>3. QED
    BY <2>1, <2>2 DEF GuardedWholeInv
<1>3. QED
  BY <1>1, <1>2, BaseInvariant, AloneInvariant, PTL DEF Spec

(* No settled row is ever rewritten, although no write of handleCallback   *)
(* looks at the status it overwrites, if the callbacks of a payment come   *)
(* one after the other, whatever Status they carry and verify answers, or  *)
(* if every callback says what the gateway decided: then handlers that     *)
(* race agree.                                                             *)
THEOREM PaymentsTerminalIsFinal == Spec => TerminalIsFinal
<1>1. BaseInv /\ GuardedAgreeInv /\ GuardedAloneInv /\ [Next]_vars =>
        [("overlap" \in faults /\ Unfaithful \cap faults # {}) \/ KeepsTerminal]_vars
  BY AgreeInvKeepsTerminal, NextKeepsAloneInv DEF KeepsTerminal, GuardedAgreeInv, GuardedAloneInv
<1>2. QED
  BY <1>1, AgreeInvariant, AloneInvariant, BaseInvariant, PTL DEF Spec, TerminalIsFinal

(* A credited payment is never shown as CANCELLED or FAILED, where every   *)
(* callback says what the gateway decided, or where none overlaps another  *)
(* and none is cut off between the credit and the commit.                  *)
THEOREM PaymentsCreditedNeverVoid == Spec => []CreditedNeverVoid
<1>1. BaseInv /\ AgreeInv => \A p \in PaymentIds :
        credits[p] > 0 => status[p] \in {"PENDING", "SUCCEEDED"}
  <2> SUFFICES ASSUME BaseInv, AgreeInv, NEW p \in PaymentIds, credits[p] > 0
               PROVE  status[p] \in {"PENDING", "SUCCEEDED"}
    OBVIOUS
  <2>1. gateway[p] = "settled" /\ status[p] # "ABSENT"
    BY DEF BaseInv, CreditedIsSettled, Initiated, TypeOK
  <2>2. QED
    BY <2>1 DEF BaseInv, TypeOK, AgreeInv, Statuses
<1>2. AloneInv /\ WholeInv => \A p \in PaymentIds :
        credits[p] > 0 => status[p] \in {"PENDING", "SUCCEEDED"}
  BY DEF AloneInv, WholeInv, Steps, InTransaction
<1>3. BaseInv /\ GuardedAgreeInv /\ GuardedAloneInv /\ GuardedWholeInv => CreditedNeverVoid
  BY <1>1, <1>2 DEF CreditedNeverVoid, GuardedAgreeInv, GuardedAloneInv, GuardedWholeInv
<1>4. QED
  BY <1>3, AgreeInvariant, AloneInvariant, WholeInvariant, BaseInvariant, PTL

(* Money and status of a payment agree: SUCCEEDED is credited, credited is   *)
(* settled, and a credited payment is not called off under the conditions    *)
(* that CreditedNeverVoid names.                                             *)
THEOREM PaymentsCreditsAreEarned == Spec => []CreditsAreEarned
BY PaymentsTypeOK, PaymentsSucceededIsCredited, PaymentsCreditedIsSettled,
   PaymentsCreditedNeverVoid,
   PTL DEF CreditsAreEarned
=============================================================================
