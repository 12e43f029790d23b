---------------------------- MODULE AtomicPayouts ----------------------------
(***************************************************************************)
(* What PayoutsService promises: the life of a payout request, each        *)
(* operation one atomic step.  A request holds its amount by debiting the  *)
(* wallet; the hold is released by exactly one rejection or cancellation   *)
(* of a PENDING request, or becomes the bank transfer of an APPROVED one.  *)
(***************************************************************************)
EXTENDS Naturals

CONSTANTS
  PayoutIds,
  Wallets,
  WalletOf,   \* the wallet a request is made from
  AmountOf,   \* and its amount
  Opening     \* what the wallets hold before the first request

VARIABLES
  status,     \* payout_requests.status; "ABSENT" before the row exists
  paidAt,     \* paidAt is set
  released,   \* number of payout:rejected:<id> and payout:cancelled:<id> entries
  balance     \* wallets.balance

tables == <<status, paidAt, released, balance>>

Init ==
  /\ status = [p \in PayoutIds |-> "ABSENT"]
  /\ paidAt = [p \in PayoutIds |-> FALSE]
  /\ released = [p \in PayoutIds |-> 0]
  /\ balance = Opening

Request(p) ==
  /\ status[p] = "ABSENT"
  /\ balance[WalletOf[p]] >= AmountOf[p]
  /\ status' = [status EXCEPT ![p] = "PENDING"]
  /\ balance' = [balance EXCEPT ![WalletOf[p]] = @ - AmountOf[p]]
  /\ UNCHANGED <<paidAt, released>>

Approve(p) ==
  /\ status[p] = "PENDING"
  /\ status' = [status EXCEPT ![p] = "APPROVED"]
  /\ UNCHANGED <<paidAt, released, balance>>

MarkPaid(p) ==
  /\ status[p] = "APPROVED"
  /\ status' = [status EXCEPT ![p] = "PAID"]
  /\ paidAt' = [paidAt EXCEPT ![p] = TRUE]
  /\ UNCHANGED <<released, balance>>

RejectOrCancel(p) ==
  /\ status[p] = "PENDING"
  /\ \E outcome \in {"REJECTED", "CANCELLED"} : status' = [status EXCEPT ![p] = outcome]
  /\ released' = [released EXCEPT ![p] = @ + 1]
  /\ balance' = [balance EXCEPT ![WalletOf[p]] = @ + AmountOf[p]]
  /\ UNCHANGED paidAt

Next == \E p \in PayoutIds : Request(p) \/ Approve(p) \/ MarkPaid(p) \/ RejectOrCancel(p)

Spec == Init /\ [][Next]_tables
=============================================================================
