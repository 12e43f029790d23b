------------------------------ MODULE Payments ------------------------------
(***************************************************************************)
(* PaymentsService.initiate and handleCallback with                        *)
(* PaymentLedgerReconciler (core/payments): a payment is opened at the     *)
(* gateway, the user's browser comes back through the callback URL (any    *)
(* number of times, in any order, at any delay), the payment row is        *)
(* settled and a wallet_topup is credited to the wallet.                   *)
(*                                                                         *)
(* A callback is a process: it reads the row, asks the gateway, and then   *)
(* writes.  The success branch opens a transaction that updates the row,   *)
(* which locks it, and runs the reconciler inside the callback of that     *)
(* transaction but on other connections of the same pool: the ledger entry *)
(* is looked for and credited in transactions of its own, committed before *)
(* the outer one.  The ledger's own interleavings are in Ledger.tla; here  *)
(* a credit is the one atomic step AtomicLedger.tla says it is.            *)
(*                                                                         *)
(* faults is what a behaviour may meet:                                    *)
(*   "overlap"         two callbacks of one payment are under way at once; *)
(*   "anyStatus"       the endpoint is public: whoever has the Authority   *)
(*                     calls it with a Status the gateway did not send;    *)
(*   "verifyError"     verify answers neither 100 nor 101 (a 4xx, a 429)   *)
(*                     for a payment that was made;                        *)
(*   "payAfterCancel"  the gateway lets the user pay after cancelling;     *)
(*   "fail"            a statement fails or the process dies, at any point;*)
(*   "timeout"         the pool runs dry, and Prisma rolls a transaction   *)
(*                     back that is open for too long.                     *)
(***************************************************************************)
EXTENDS Naturals, FiniteSets, PlatformFaults

CONSTANTS
  PaymentIds,      \* rows initiate may create
  Topups,          \* those whose purpose is wallet_topup
  Callbacks,       \* GET payments/:id/callback requests
  PoolSize         \* connections of the Prisma pool

ASSUME TopupAssumption == Topups \subseteq PaymentIds
ASSUME NoneAssumption == None \notin PaymentIds \cup Callbacks

VARIABLES
  status,       \* payments.status; "ABSENT" before the row exists
  reference,    \* payments.providerReference: the gateway's authority, named by
                \* the payment it was issued for, or None
  initiating,   \* where the initiate call of a payment is
  gateway,      \* what the gateway knows of the authority
  redirects,    \* <<payment, Status>> redirects a browser may deliver
  credits,      \* number of ledger entries with reference payment:<id>
  rowLock,      \* the callback whose transaction has updated the payment row
  connected,    \* callbacks that hold a connection of the pool
  pc,           \* where a callback is
  input         \* the payment id and Authority a callback was called with

vars == <<status, reference, initiating, gateway, redirects, credits, rowLock,
          connected, pc, input, faults>>

Statuses == {"PENDING", "SUCCEEDED", "FAILED", "CANCELLED"}
Terminal == {"SUCCEEDED", "FAILED", "CANCELLED"}
InTransaction == {"update", "reconcile", "credit", "commit"}
AfterUpdate == {"reconcile", "credit", "commit"}
Steps == {"cancel", "cancelling", "verify", "fail", "failing", "begin"} \cup InTransaction

\* What makes a callback decide otherwise than the gateway did.
Unfaithful == {"payAfterCancel", "anyStatus", "verifyError"}
Inputs == [payment: PaymentIds, authority: PaymentIds]
NoInput == [payment |-> None, authority |-> None]

TypeOK ==
  /\ status \in [PaymentIds -> Statuses \cup {"ABSENT"}]
  /\ reference \in [PaymentIds -> PaymentIds \cup {None}]
  /\ initiating \in [PaymentIds -> {"idle", "calling", "storing", "ended"}]
  /\ gateway \in [PaymentIds -> {"unknown", "open", "refused", "paid", "settled", "reversed"}]
  /\ redirects \subseteq PaymentIds \X {"OK", "NOK"}
  /\ credits \in [PaymentIds -> Nat]
  /\ rowLock \in [PaymentIds -> Callbacks \cup {None}]
  /\ connected \subseteq Callbacks
  /\ pc \in [Callbacks -> {"idle", "ended"} \cup Steps]
  /\ input \in [Callbacks -> Inputs \cup {NoInput}]
  /\ faults \in FaultSets

Init ==
  /\ status = [p \in PaymentIds |-> "ABSENT"]
  /\ reference = [p \in PaymentIds |-> None]
  /\ initiating = [p \in PaymentIds |-> "idle"]
  /\ gateway = [p \in PaymentIds |-> "unknown"]
  /\ redirects = {}
  /\ credits = [p \in PaymentIds |-> 0]
  /\ rowLock = [p \in PaymentIds |-> None]
  /\ connected = {}
  /\ pc = [h \in Callbacks |-> "idle"]
  /\ input = [h \in Callbacks |-> NoInput]
  /\ faults \in FaultSets
-----------------------------------------------------------------------------
(* initiate, and the user at the gateway *)

tables == <<status, reference, credits>>
handlers == <<rowLock, connected, pc, input>>

CreatePending(p) ==
  /\ initiating[p] = "idle"
  /\ status' = [status EXCEPT ![p] = "PENDING"]
  /\ initiating' = [initiating EXCEPT ![p] = "calling"]
  /\ UNCHANGED <<reference, gateway, redirects, credits, handlers, faults>>

ProviderAccepts(p) ==
  /\ initiating[p] = "calling"
  /\ gateway' = [gateway EXCEPT ![p] = "open"]
  /\ initiating' = [initiating EXCEPT ![p] = "storing"]
  /\ UNCHANGED <<tables, redirects, handlers, faults>>

ProviderFails(p) ==
  /\ initiating[p] = "calling"
  /\ status' = [status EXCEPT ![p] = "FAILED"]
  /\ initiating' = [initiating EXCEPT ![p] = "ended"]
  /\ UNCHANGED <<reference, gateway, redirects, credits, handlers, faults>>

StoreReference(p) ==
  /\ initiating[p] = "storing"
  /\ reference' = [reference EXCEPT ![p] = p]
  /\ initiating' = [initiating EXCEPT ![p] = "ended"]
  /\ UNCHANGED <<status, credits, gateway, redirects, handlers, faults>>

InitiateDies(p) ==
  /\ "fail" \in faults
  /\ initiating[p] \in {"calling", "storing"}
  /\ initiating' = [initiating EXCEPT ![p] = "ended"]
  /\ UNCHANGED <<tables, gateway, redirects, handlers, faults>>

\* The redirect URL is returned to the user once the reference is stored.
UserPays(p) ==
  /\ reference[p] = p
  /\ gateway[p] = "open"
  /\ gateway' = [gateway EXCEPT ![p] = "paid"]
  /\ redirects' = redirects \cup {<<p, "OK">>}
  /\ UNCHANGED <<tables, initiating, handlers, faults>>

UserCancels(p) ==
  /\ reference[p] = p
  /\ gateway[p] = "open"
  /\ gateway' = IF "payAfterCancel" \in faults THEN gateway ELSE [gateway EXCEPT ![p] = "refused"]
  /\ redirects' = redirects \cup {<<p, "NOK">>}
  /\ UNCHANGED <<tables, initiating, handlers, faults>>

\* A payment nobody verifies in time is returned to the payer's card.
GatewayReverses(p) ==
  /\ gateway[p] = "paid"
  /\ gateway' = [gateway EXCEPT ![p] = "reversed"]
  /\ UNCHANGED <<tables, initiating, redirects, handlers, faults>>
-----------------------------------------------------------------------------
(* handleCallback *)

Goto(h, step) == pc' = [pc EXCEPT ![h] = step]
PaymentOf(h) == input[h].payment
gatewayVars == <<initiating, gateway, redirects>>

\* Every statement needs a connection; the pool has PoolSize of them.
ConnectionFree == "timeout" \in faults => Cardinality(connected) < PoolSize

\* Mutation of RowFree: the update does not lock the row.
RowNeverHeld(p) == p \in PaymentIds

RowFree(p) == rowLock[p] = None
Connect(h) == ConnectionFree /\ connected' = connected \cup {h}

\* The transaction of h, if it has one, is over.
Release(h) ==
  /\ rowLock' = [p \in PaymentIds |-> IF rowLock[p] = h THEN None ELSE rowLock[p]]
  /\ connected' = connected \ {h}

\* No such payment, a terminal status, or INVALID_CALLBACK.
TurnedAway(p, a) == status[p] # "PENDING" \/ reference[p] # a

\* A browser comes with what the gateway sent it, but the URL is public and the
\* user has the Authority since initiate answered.
MaySend(a, s) ==
  \/ <<a, s>> \in redirects
  \/ "anyStatus" \in faults /\ reference[a] = a

Alone(p) ==
  \/ "overlap" \in faults
  \/ \A h \in Callbacks : pc[h] \in Steps => PaymentOf(h) # p

\* The callback URL of payment p is called with the Authority of a and a Status.
\* The row is read once, here; every later step trusts what was read.
Receive(h, p, a, s) ==
  /\ pc[h] = "idle"
  /\ MaySend(a, s) /\ Alone(p) /\ ConnectionFree
  /\ input' = [input EXCEPT ![h] = [payment |-> p, authority |-> a]]
  /\ Goto(h, IF TurnedAway(p, a) THEN "ended" ELSE IF s = "NOK" THEN "cancel" ELSE "verify")
  /\ UNCHANGED <<tables, gatewayVars, rowLock, connected, faults>>

SendCancel(h) ==
  /\ pc[h] = "cancel"
  /\ Connect(h)
  /\ Goto(h, "cancelling")
  /\ UNCHANGED <<tables, gatewayVars, rowLock, input, faults>>

\* An UPDATE outside a transaction: it waits for the row, then it is done.
MarkCancelled(h) ==
  /\ pc[h] = "cancelling"
  /\ RowFree(PaymentOf(h))
  /\ status' = [status EXCEPT ![PaymentOf(h)] = "CANCELLED"]
  /\ Release(h)
  /\ Goto(h, "ended")
  /\ UNCHANGED <<reference, credits, gatewayVars, input, faults>>

\* The gateway settles what it confirms, and confirms a settled payment again
\* (code 101).
Verified(h) ==
  /\ pc[h] = "verify"
  /\ gateway[input[h].authority] \in {"paid", "settled"}
  /\ gateway' = [gateway EXCEPT ![input[h].authority] = "settled"]
  /\ Goto(h, "begin")
  /\ UNCHANGED <<tables, initiating, redirects, rowLock, connected, input, faults>>

\* Mutation of NotVerified: a payment that is settled already (code 101) fails.
NotVerifiedTwice(h) ==
  /\ pc[h] = "verify"
  /\ gateway[input[h].authority] # "paid"
  /\ Goto(h, "fail")
  /\ UNCHANGED <<tables, gatewayVars, rowLock, connected, input, faults>>

\* Any answer below 500 that carries neither code 100 nor 101.
NotVerified(h) ==
  /\ pc[h] = "verify"
  /\ gateway[input[h].authority] \notin {"paid", "settled"} \/ "verifyError" \in faults
  /\ Goto(h, "fail")
  /\ UNCHANGED <<tables, gatewayVars, rowLock, connected, input, faults>>

SendFail(h) ==
  /\ pc[h] = "fail"
  /\ Connect(h)
  /\ Goto(h, "failing")
  /\ UNCHANGED <<tables, gatewayVars, rowLock, input, faults>>

MarkFailed(h) ==
  /\ pc[h] = "failing"
  /\ RowFree(PaymentOf(h))
  /\ status' = [status EXCEPT ![PaymentOf(h)] = "FAILED"]
  /\ Release(h)
  /\ Goto(h, "ended")
  /\ UNCHANGED <<reference, credits, gatewayVars, input, faults>>
-----------------------------------------------------------------------------
(* the success branch: prisma.$transaction around the update and reconcile *)

BeginTransaction(h) ==
  /\ pc[h] = "begin"
  /\ Connect(h)
  /\ Goto(h, "update")
  /\ UNCHANGED <<tables, gatewayVars, rowLock, input, faults>>

\* Mutation of UpdateRow: SUCCEEDED is committed before reconcile runs.
UpdateRowAtOnce(h) ==
  /\ pc[h] = "update"
  /\ RowFree(PaymentOf(h))
  /\ status' = [status EXCEPT ![PaymentOf(h)] = "SUCCEEDED"]
  /\ Goto(h, "reconcile")
  /\ UNCHANGED <<reference, credits, gatewayVars, rowLock, connected, input, faults>>

\* SUCCEEDED is written but seen by nobody before Commit.
UpdateRow(h) ==
  /\ pc[h] = "update"
  /\ RowFree(PaymentOf(h))
  /\ rowLock' = [rowLock EXCEPT ![PaymentOf(h)] = h]
  /\ Goto(h, "reconcile")
  /\ UNCHANGED <<tables, gatewayVars, connected, input, faults>>

\* reconcile looks for an entry payment:<id>, on another connection.
FindEntry(h) ==
  /\ pc[h] = "reconcile"
  /\ ConnectionFree
  /\ Goto(h, IF credits[PaymentOf(h)] = 0 /\ PaymentOf(h) \in Topups THEN "credit" ELSE "commit")
  /\ UNCHANGED <<tables, gatewayVars, rowLock, connected, input, faults>>

\* Mutation of CreditWallet: the credit updates the payment row too, on its own
\* connection, and waits for the transaction that waits for it.
CreditAndUpdateRow(h) ==
  /\ pc[h] = "credit"
  /\ ConnectionFree
  /\ RowFree(PaymentOf(h))
  /\ credits' = [credits EXCEPT ![PaymentOf(h)] = @ + 1]
  /\ Goto(h, "commit")
  /\ UNCHANGED <<status, reference, gatewayVars, rowLock, connected, input, faults>>

CreditWallet(h) ==
  /\ pc[h] = "credit"
  /\ ConnectionFree
  /\ credits' = [credits EXCEPT ![PaymentOf(h)] = @ + 1]
  /\ Goto(h, "commit")
  /\ UNCHANGED <<status, reference, gatewayVars, rowLock, connected, input, faults>>

Commit(h) ==
  /\ pc[h] = "commit"
  /\ h \in connected
  /\ status' = [status EXCEPT ![PaymentOf(h)] = "SUCCEEDED"]
  /\ Release(h)
  /\ Goto(h, "ended")
  /\ UNCHANGED <<reference, credits, gatewayVars, input, faults>>

\* The transaction was rolled back while reconcile ran: commit is refused.
CommitRefused(h) ==
  /\ pc[h] = "commit"
  /\ h \notin connected
  /\ Goto(h, "ended")
  /\ UNCHANGED <<tables, gatewayVars, rowLock, connected, input, faults>>
-----------------------------------------------------------------------------
(* faults *)

\* A statement or the gateway call fails, or the process dies: the error ends
\* the handler and whatever transaction it has is rolled back.
HandlerFails(h) ==
  /\ "fail" \in faults
  /\ pc[h] \in Steps
  /\ Release(h)
  /\ Goto(h, "ended")
  /\ UNCHANGED <<tables, gatewayVars, input, faults>>

\* Prisma rolls back a transaction that is open for longer than its timeout.
\* The promise of reconcile, which does not use the transaction, goes on.
TransactionTimesOut(h) ==
  /\ "timeout" \in faults
  /\ pc[h] \in InTransaction
  /\ h \in connected
  /\ Release(h)
  /\ Goto(h, IF pc[h] = "update" THEN "ended" ELSE pc[h])
  /\ UNCHANGED <<tables, gatewayVars, input, faults>>

AllEnded ==
  /\ \A h \in Callbacks : pc[h] \in {"idle", "ended"}
  /\ UNCHANGED vars

HandlerStep(h) ==
  \/ SendCancel(h) \/ MarkCancelled(h)
  \/ Verified(h) \/ NotVerified(h)
  \/ SendFail(h) \/ MarkFailed(h)
  \/ BeginTransaction(h) \/ UpdateRow(h)
  \/ FindEntry(h) \/ CreditWallet(h)
  \/ Commit(h) \/ CommitRefused(h)

PaymentStep(p) ==
  \/ CreatePending(p) \/ ProviderAccepts(p) \/ ProviderFails(p)
  \/ StoreReference(p) \/ InitiateDies(p)
  \/ UserPays(p) \/ UserCancels(p) \/ GatewayReverses(p)

Next ==
  \/ \E p \in PaymentIds : PaymentStep(p)
  \/ \E h \in Callbacks :
       \/ \E p, a \in PaymentIds, s \in {"OK", "NOK"} : Receive(h, p, a, s)
       \/ HandlerStep(h) \/ HandlerFails(h) \/ TransactionTimesOut(h)
  \/ AllEnded

Spec == Init /\ [][Next]_vars

\* A running handler whose next statement stays possible executes it: the
\* database answers, and grants locks and connections in turn.  Prisma's timer
\* rings for every transaction that stays open.
FairSpec ==
  /\ Spec
  /\ \A h \in Callbacks : WF_vars(HandlerStep(h)) /\ WF_vars(TransactionTimesOut(h))
-----------------------------------------------------------------------------
\* reconcile's promise: a payment is credited to the wallet at most once,
\* however many callbacks arrive and wherever they fail.
CannotDoubleCredit == \A p \in PaymentIds : credits[p] <= 1

\* It is kept unless the transaction around reconcile times out.
AtMostOneCredit == "timeout" \in faults \/ CannotDoubleCredit

\* A topup the user sees as SUCCEEDED is in the ledger.
SucceededIsCredited ==
  \A p \in Topups : status[p] = "SUCCEEDED" => credits[p] >= 1

\* Nothing is credited that the gateway has not settled, and only topups are:
\* neither a NOK redirect, a verify that failed, nor a callback that came with
\* another payment's Authority mints money.
CreditedIsSettled ==
  \A p \in PaymentIds : credits[p] > 0 => p \in Topups /\ gateway[p] = "settled"

\* A terminal status is never overwritten, although no write of handleCallback looks
\* at the status it overwrites ...
KeepsTerminal ==
  \A p \in PaymentIds : status[p] \in Terminal => status'[p] = status[p]

\* ... if the callbacks of a payment come one after the other, whatever they say and
\* wherever they die, or if all they say is what the gateway decided: then those that
\* race agree.  Two callbacks that overlap and disagree (an OK with a NOK nobody at the
\* gateway sent, or with a verify that was answered 4xx) overwrite each other.
TerminalIsFinal ==
  [][("overlap" \in faults /\ Unfaithful \cap faults # {}) \/ KeepsTerminal]_vars

\* A credited payment is never shown as cancelled or failed, where every callback says
\* what the gateway decided, or where none overlaps another and none is cut off between
\* the credit and the commit.
CreditedNeverVoid ==
  \/ Unfaithful \cap faults # {} /\ {"overlap", "fail", "timeout"} \cap faults # {}
  \/ \A p \in PaymentIds : credits[p] > 0 => status[p] \in {"PENDING", "SUCCEEDED"}

\* Once the gateway has settled a topup, the wallet gets the money, if nothing
\* fails or times out.
SettledIsCredited ==
  \A p \in Topups :
    gateway[p] = "settled" /\ {"fail", "timeout"} \cap faults = {} ~> credits[p] > 0

\* No callback hangs for ever: transactions that hold every connection of the pool,
\* each waiting for one more to reconcile on, are rolled back by Prisma's timer.
CallbacksEnd == \A h \in Callbacks : pc[h] \in Steps ~> pc[h] = "ended"

\* (core/payments/payments.service.ts, payment-ledger.reconciler.ts) Every callback
\* comes to an end, and what the gateway settled is credited if nothing cut it off.
CallbacksDeliver == CallbacksEnd /\ SettledIsCredited

\* (core/payments/payments.service.ts) Money and status agree, whatever callbacks
\* overlap, lie, fail or time out: SUCCEEDED is credited and what is credited was settled
\* by the gateway; and a payment that was called off is not credited, under the
\* conditions CreditedNeverVoid names.
CreditsAreEarned == TypeOK /\ SucceededIsCredited /\ CreditedIsSettled /\ CreditedNeverVoid
=============================================================================
