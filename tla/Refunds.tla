------------------------------- MODULE Refunds -------------------------------
(***************************************************************************)
(* PaymentsService.refund and markRefundCompleted.  A refund reads what    *)
(* the payment's refunds add up to, asks the gateway to pay the money      *)
(* back, records a refund row and, for a topup, debits the user's wallet:  *)
(* four steps in no common transaction.  A gateway that cannot refund      *)
(* leaves the row PENDING_MANUAL until an operator confirms the bank       *)
(* transfer.  The payments are SUCCEEDED and belong to one user.           *)
(***************************************************************************)
EXTENDS Naturals, FiniteSetsExt, Functions

CONSTANTS
  PaymentIds,
  Topups,          \* the payments whose purpose is wallet_topup
  PaidAmount,      \* what each payment was
  RefundIds,       \* calls of refund, each named by the row it may create
  Confirmations,   \* calls of markRefundCompleted
  Opening,         \* the user's wallet when the refunds begin
  Faults,          \* what may happen, of "overlap" and "fail"
  None

ASSUME RefundAssumption ==
  /\ Topups \subseteq PaymentIds
  /\ PaidAmount \in [PaymentIds -> Nat \ {0}]
  /\ Opening \in Nat
ASSUME CallAssumption ==
  /\ IsFiniteSet(RefundIds)
  /\ RefundIds \cap Confirmations = {} /\ None \notin RefundIds \cup Confirmations

VARIABLES
  status,          \* refunds.status; "ABSENT" before the row exists
  bankReference,   \* the confirmation whose reference the row carries, or None
  debited,         \* refunds with a ledger debit refund:<id>
  balance,         \* wallets.balance
  pc,              \* where a call is
  asked,           \* the payment and the amount a refund call is for
  confirming,      \* the refund a confirmation is for
  faults           \* which of Faults this behaviour meets:
                   \* "overlap": calls about one payment or refund overlap;
                   \* "fail": a statement or the gateway fails, or the process dies

vars == <<status, bankReference, debited, balance, pc, asked, confirming, faults>>

Processes == RefundIds \cup Confirmations
Amounts == 1 .. Max({PaidAmount[p] : p \in PaymentIds})
Requests == [payment: PaymentIds, amount: Amounts]
NoRequest == [payment |-> None, amount |-> 0]
Working == {"provider", "completed", "manual", "debit", "confirm"}

TypeOK ==
  /\ status \in [RefundIds -> {"ABSENT", "PENDING_MANUAL", "COMPLETED"}]
  /\ bankReference \in [RefundIds -> Confirmations \cup {None}]
  /\ debited \subseteq RefundIds
  /\ balance \in 0 .. Opening
  /\ pc \in [Processes -> {"idle", "ended"} \cup Working]
  /\ asked \in [RefundIds -> Requests \cup {NoRequest}]
  /\ confirming \in [Confirmations -> RefundIds \cup {None}]
  /\ faults \subseteq Faults

Init ==
  /\ status = [r \in RefundIds |-> "ABSENT"]
  /\ bankReference = [r \in RefundIds |-> None]
  /\ debited = {}
  /\ balance = Opening
  /\ pc = [x \in Processes |-> "idle"]
  /\ asked = [r \in RefundIds |-> NoRequest]
  /\ confirming = [c \in Confirmations |-> None]
  /\ faults \in SUBSET Faults
-----------------------------------------------------------------------------
(* refund *)

Goto(x, step) == pc' = [pc EXCEPT ![x] = step]

Rows(p) == {r \in RefundIds : asked[r].payment = p /\ status[r] # "ABSENT"}
AlreadyRefunded(p) == SumFunctionOnSet([r \in RefundIds |-> asked[r].amount], Rows(p))

\* Another call is refunding payment p, or confirming refund r.
Refunding(p) == \E r \in RefundIds : pc[r] \in Working /\ asked[r].payment = p
Confirming(r) == \E c \in Confirmations : pc[c] = "confirm" /\ confirming[c] = r

\* REFUND_AMOUNT_EXCEEDS_AVAILABLE
Exceeds(p, amount) == amount + AlreadyRefunded(p) > PaidAmount[p]

\* A call of refund: every row of the payment counts, whatever its status.
Ask(r, p, amount) ==
  /\ pc[r] = "idle"
  /\ "overlap" \in faults \/ ~Refunding(p)
  /\ asked' = [asked EXCEPT ![r] = [payment |-> p, amount |-> amount]]
  /\ Goto(r, IF Exceeds(p, amount) THEN "ended" ELSE "provider")
  /\ UNCHANGED <<status, bankReference, debited, balance, confirming, faults>>

\* Mutation of AskProvider: the wallet is debited before the row is created.
DebitFirst(r) ==
  /\ pc[r] = "provider"
  /\ Goto(r, "debit")
  /\ UNCHANGED <<status, bankReference, debited, balance, asked, confirming, faults>>

\* The gateway refunds, or REFUND_NOT_SUPPORTED_BY_PROVIDER is the signal for a
\* manual refund.
AskProvider(r) ==
  /\ pc[r] = "provider"
  /\ \E outcome \in {"completed", "manual"} : Goto(r, outcome)
  /\ UNCHANGED <<status, bankReference, debited, balance, asked, confirming, faults>>

CreateRow(r) ==
  /\ pc[r] \in {"completed", "manual"}
  /\ status' = [status EXCEPT ![r] = IF pc[r] = "completed" THEN "COMPLETED" ELSE "PENDING_MANUAL"]
  /\ Goto(r, IF asked[r].payment \in Topups THEN "debit" ELSE "ended")
  /\ UNCHANGED <<bankReference, debited, balance, asked, confirming, faults>>

DebitWallet(r) ==
  /\ pc[r] = "debit"
  /\ balance >= asked[r].amount
  /\ balance' = balance - asked[r].amount
  /\ debited' = debited \cup {r}
  /\ Goto(r, "ended")
  /\ UNCHANGED <<status, bankReference, asked, confirming, faults>>

\* CANNOT_REFUND_INSUFFICIENT_BALANCE: the row stays.
InsufficientBalance(r) ==
  /\ pc[r] = "debit"
  /\ balance < asked[r].amount
  /\ Goto(r, "ended")
  /\ UNCHANGED <<status, bankReference, debited, balance, asked, confirming, faults>>
-----------------------------------------------------------------------------
(* markRefundCompleted *)

\* Mutation of ReadRefund: any refund on record can be confirmed.
ReadAnyRefund(c, r) ==
  /\ pc[c] = "idle"
  /\ "overlap" \in faults \/ ~Confirming(r)
  /\ confirming' = [confirming EXCEPT ![c] = r]
  /\ Goto(c, IF status[r] # "ABSENT" THEN "confirm" ELSE "ended")
  /\ UNCHANGED <<status, bankReference, debited, balance, asked, faults>>

ReadRefund(c, r) ==
  /\ pc[c] = "idle"
  /\ "overlap" \in faults \/ ~Confirming(r)
  /\ confirming' = [confirming EXCEPT ![c] = r]
  /\ Goto(c, IF status[r] = "PENDING_MANUAL" THEN "confirm" ELSE "ended")
  /\ UNCHANGED <<status, bankReference, debited, balance, asked, faults>>

MarkCompleted(c) ==
  /\ pc[c] = "confirm"
  /\ status' = [status EXCEPT ![confirming[c]] = "COMPLETED"]
  /\ bankReference' = [bankReference EXCEPT ![confirming[c]] = c]
  /\ Goto(c, "ended")
  /\ UNCHANGED <<debited, balance, asked, confirming, faults>>
-----------------------------------------------------------------------------
\* The user spends the topup meanwhile.
Spend ==
  /\ balance > 0
  /\ balance' = balance - 1
  /\ UNCHANGED <<status, bankReference, debited, pc, asked, confirming, faults>>

Fails(x) ==
  /\ "fail" \in faults
  /\ pc[x] \in Working
  /\ Goto(x, "ended")
  /\ UNCHANGED <<status, bankReference, debited, balance, asked, confirming, faults>>

AllEnded ==
  /\ \A x \in Processes : pc[x] \in {"idle", "ended"}
  /\ UNCHANGED vars

Next ==
  \/ \E r \in RefundIds :
       \/ \E p \in PaymentIds, amount \in Amounts : Ask(r, p, amount)
       \/ AskProvider(r) \/ CreateRow(r) \/ DebitWallet(r) \/ InsufficientBalance(r)
  \/ \E c \in Confirmations :
       \/ \E r \in RefundIds : ReadRefund(c, r)
       \/ MarkCompleted(c)
  \/ Spend
  \/ \E x \in Processes : Fails(x)
  \/ AllEnded

Spec == Init /\ [][Next]_vars
-----------------------------------------------------------------------------
\* The refunds of a payment never add up to more than the payment ...
RefundsCapped == \A p \in PaymentIds : AlreadyRefunded(p) <= PaidAmount[p]

\* ... as long as refunds of one payment do not overlap, wherever they fail.
RefundsWithinPayment == "overlap" \in faults \/ RefundsCapped

\* No wallet is debited for a refund that is not on record, nor for a payment
\* that was not a topup, wherever the call stops.
DebitIsRecorded ==
  \A r \in debited : status[r] # "ABSENT" /\ asked[r].payment \in Topups

\* The bank reference an operator recorded is never replaced, as long as
\* confirmations of one refund do not overlap.
ReferenceIsFinal ==
  [][\/ "overlap" \in faults
     \/ \A r \in RefundIds : bankReference[r] # None => bankReference'[r] = bankReference[r]]_vars

\* (core/payments/payments.service.ts) No wallet is debited without a refund on record,
\* and unless calls overlap the refunds of a payment stay within what was paid.
RefundsAreCovered == TypeOK /\ DebitIsRecorded /\ RefundsWithinPayment
=============================================================================
