------------------------------- MODULE Payouts -------------------------------
(***************************************************************************)
(* PayoutsService as it runs.  request places the hold in one transaction  *)
(* that locks the wallet row twice: the INSERT shares it FOR KEY SHARE     *)
(* through the foreign key walletId, and SELECT ... FOR UPDATE then wants  *)
(* it alone.  approve, reject, markPaid and cancel first                   *)
(* read the request outside any transaction and check its status, and then *)
(* write by id alone: whatever another call did in between is overwritten. *)
(* reject and cancel write in a transaction that locks the payout row by   *)
(* updating it and then the wallet row with SELECT ... FOR UPDATE.         *)
(***************************************************************************)
EXTENDS Integers, FiniteSets, Functions, PlatformFaults

CONSTANTS
  PayoutIds, Wallets,
  WalletOf,   \* the wallet a request is made from, its amount, and what the
  AmountOf,   \* wallets hold before the first request
  Opening,
  Calls       \* calls of approve, reject, markPaid and cancel

ASSUME PayoutAssumption ==
  /\ IsFiniteSet(PayoutIds)
  /\ WalletOf \in [PayoutIds -> Wallets]
  /\ AmountOf \in [PayoutIds -> Nat \ {0}]
  /\ Opening \in [Wallets -> Nat]
ASSUME CallAssumption == PayoutIds \cap Calls = {} /\ None \notin PayoutIds \cup Calls

VARIABLES
  status, paidAt, released, balance,
  rowLock,     \* the call whose transaction has updated the payout row
  walletLock,  \* the transaction that holds the wallet row FOR UPDATE
  pc,          \* where a call is; pc[p] is that of the request call of payout p
  task,        \* what a call was asked to do
  read         \* the balance a transaction read when it locked the wallet

\* "overlap": calls for one payout are under way at the same time; "fail": a statement fails
\* or the process dies, at any point.
PayoutFaults == {"overlap", "fail"}

vars == <<status, paidAt, released, balance, rowLock, walletLock, pc, task, read, faults>>

Atomic == INSTANCE AtomicPayouts WITH
  PayoutIds <- PayoutIds, Wallets <- Wallets, WalletOf <- WalletOf, AmountOf <- AmountOf,
  Opening <- Opening, status <- status, paidAt <- paidAt, released <- released,
  balance <- balance

Statuses == {"PENDING", "APPROVED", "REJECTED", "PAID", "CANCELLED"}
Operations == {"approve", "reject", "markPaid", "cancel"}
Processes == PayoutIds \cup Calls
Tasks == [op: Operations, payout: PayoutIds]
NoTask == [op |-> None, payout |-> None]
Working == {"asked", "inserted", "hold", "stamp", "begin", "lock", "credit"}

TypeOK ==
  /\ status \in [PayoutIds -> Statuses \cup {"ABSENT"}]
  /\ paidAt \in [PayoutIds -> BOOLEAN]
  /\ released \in [PayoutIds -> Nat]
  /\ balance \in [Wallets -> Nat]
  /\ rowLock \in [PayoutIds -> Calls \cup {None}]
  /\ walletLock \in [Wallets -> Processes \cup {None}]
  /\ pc \in [Processes -> {"idle", "ended"} \cup Working]
  /\ task \in [Calls -> Tasks \cup {NoTask}]
  /\ read \in [Processes -> Nat]
  /\ faults \in FaultSets

Init ==
  /\ Atomic!Init
  /\ rowLock = [p \in PayoutIds |-> None]
  /\ walletLock = [w \in Wallets |-> None]
  /\ pc = [x \in Processes |-> "idle"]
  /\ task = [c \in Calls |-> NoTask]
  /\ read = [x \in Processes |-> 0]
  /\ faults \in FaultSets
-----------------------------------------------------------------------------
tables == <<status, paidAt, released, balance>>
locks == <<rowLock, walletLock>>

Goto(x, step) == pc' = [pc EXCEPT ![x] = step]
PayoutOf(c) == task[c].payout

\* Mutation of LockWallet: SELECT without FOR UPDATE.
ReadWallet(x, w) ==
  /\ read' = [read EXCEPT ![x] = balance[w]]
  /\ UNCHANGED walletLock

\* The request transactions, other than x, that share the wallet row.
Sharing(x, w) == {p \in PayoutIds \ {x} : WalletOf[p] = w /\ pc[p] = "inserted"}

\* SELECT balance FROM wallets WHERE id = w FOR UPDATE
LockWallet(x, w) ==
  /\ walletLock[w] = None /\ Sharing(x, w) = {}
  /\ walletLock' = [walletLock EXCEPT ![w] = x]
  /\ read' = [read EXCEPT ![x] = balance[w]]

\* Mutation of Release: the wallet row stays locked.
ReleaseRowOnly(x) ==
  /\ rowLock' = [p \in PayoutIds |-> IF rowLock[p] = x THEN None ELSE rowLock[p]]
  /\ UNCHANGED walletLock

\* The transaction of x is over.
Release(x) ==
  /\ rowLock' = [p \in PayoutIds |-> IF rowLock[p] = x THEN None ELSE rowLock[p]]
  /\ walletLock' = [w \in Wallets |-> IF walletLock[w] = x THEN None ELSE walletLock[w]]
-----------------------------------------------------------------------------
(* request *)

Request(p) ==
  /\ pc[p] = "idle"
  /\ Goto(p, "asked")
  /\ UNCHANGED <<tables, locks, task, read, faults>>

\* INSERT: nobody sees the row before the commit, but its foreign key takes the
\* wallet row FOR KEY SHARE, which any number of transactions may hold together.
InsertRow(p) ==
  /\ pc[p] = "asked"
  /\ walletLock[WalletOf[p]] = None
  /\ Goto(p, "inserted")
  /\ UNCHANGED <<tables, locks, task, read, faults>>

\* Two requests that share the row each wait for the other to let go of it: the
\* database aborts one.  The service does not retry, so its caller gets the error.
DeadlockAborts(p) ==
  /\ pc[p] = "inserted"
  /\ Sharing(p, WalletOf[p]) # {}
  /\ Release(p)
  /\ Goto(p, "ended")
  /\ UNCHANGED <<tables, task, read, faults>>

LockForHold(p) ==
  /\ pc[p] = "inserted"
  /\ LockWallet(p, WalletOf[p])
  /\ Goto(p, "hold")
  /\ UNCHANGED <<tables, rowLock, task, faults>>

InsufficientFunds(p) ==
  /\ pc[p] = "hold"
  /\ read[p] < AmountOf[p]
  /\ Release(p)
  /\ Goto(p, "ended")
  /\ UNCHANGED <<tables, task, read, faults>>

CommitHold(p) ==
  /\ pc[p] = "hold"
  /\ read[p] >= AmountOf[p]
  /\ status' = [status EXCEPT ![p] = "PENDING"]
  /\ balance' = [balance EXCEPT ![WalletOf[p]] = read[p] - AmountOf[p]]
  /\ Release(p)
  /\ Goto(p, "ended")
  /\ UNCHANGED <<paidAt, released, task, read, faults>>
-----------------------------------------------------------------------------
(* approve, reject, markPaid and cancel *)

Required(op) == IF op = "markPaid" THEN "APPROVED" ELSE "PENDING"
Outcome(op) ==
  [approve |-> "APPROVED", reject |-> "REJECTED", markPaid |-> "PAID", cancel |-> "CANCELLED"][op]

\* NOT_FOUND, PAYOUT_NOT_PENDING or PAYOUT_NOT_APPROVED.  own: a cancel comes
\* from the user who made the request.
Refused(op, p, own) == status[p] # Required(op) \/ (op = "cancel" /\ ~own)

\* Another call has read the payout and has not ended yet.
UnderReview(p) == \E c \in Calls : pc[c] \in Working /\ task[c].payout = p

Read(c, op, p, own) ==
  /\ pc[c] = "idle"
  /\ "overlap" \in faults \/ ~UnderReview(p)
  /\ task' = [task EXCEPT ![c] = [op |-> op, payout |-> p]]
  /\ Goto(c, IF Refused(op, p, own) THEN "ended"
             ELSE IF op \in {"approve", "markPaid"} THEN "stamp" ELSE "begin")
  /\ UNCHANGED <<tables, locks, read, faults>>

\* approve and markPaid: one UPDATE, which waits for the row.
Stamp(c) ==
  /\ pc[c] = "stamp"
  /\ rowLock[PayoutOf(c)] = None
  /\ status' = [status EXCEPT ![PayoutOf(c)] = Outcome(task[c].op)]
  /\ paidAt' = [paidAt EXCEPT ![PayoutOf(c)] = @ \/ task[c].op = "markPaid"]
  /\ Goto(c, "ended")
  /\ UNCHANGED <<released, balance, locks, task, read, faults>>

\* Mutation of UpdateRow: the new status is committed before the credit.
UpdateRowAtOnce(c) ==
  /\ pc[c] = "begin"
  /\ rowLock[PayoutOf(c)] = None
  /\ status' = [status EXCEPT ![PayoutOf(c)] = Outcome(task[c].op)]
  /\ Goto(c, "lock")
  /\ UNCHANGED <<paidAt, released, balance, locks, task, read, faults>>

\* reject and cancel: the transaction's UPDATE of the payout row ...
UpdateRow(c) ==
  /\ pc[c] = "begin"
  /\ rowLock[PayoutOf(c)] = None
  /\ rowLock' = [rowLock EXCEPT ![PayoutOf(c)] = c]
  /\ Goto(c, "lock")
  /\ UNCHANGED <<tables, walletLock, task, read, faults>>

\* ... its wallet lock ...
LockForRelease(c) ==
  /\ pc[c] = "lock"
  /\ LockWallet(c, WalletOf[PayoutOf(c)])
  /\ Goto(c, "credit")
  /\ UNCHANGED <<tables, rowLock, task, faults>>

\* ... and the credit entry, the new balance and the commit.
CommitRelease(c) ==
  /\ pc[c] = "credit"
  /\ status' = [status EXCEPT ![PayoutOf(c)] = Outcome(task[c].op)]
  /\ released' = [released EXCEPT ![PayoutOf(c)] = @ + 1]
  /\ balance' = [balance EXCEPT ![WalletOf[PayoutOf(c)]] = read[c] + AmountOf[PayoutOf(c)]]
  /\ Release(c)
  /\ Goto(c, "ended")
  /\ UNCHANGED <<paidAt, task, read, faults>>

\* The error ends the call, and its transaction is rolled back.
Fails(x) ==
  /\ "fail" \in faults
  /\ pc[x] \in Working
  /\ Release(x)
  /\ Goto(x, "ended")
  /\ UNCHANGED <<tables, task, read, faults>>

AllEnded ==
  /\ \A c \in Calls : pc[c] \in {"idle", "ended"}
  /\ \A p \in PayoutIds : pc[p] = "ended"
  /\ UNCHANGED vars

RequestStep(p) ==
  InsertRow(p) \/ DeadlockAborts(p) \/ LockForHold(p) \/ InsufficientFunds(p) \/ CommitHold(p)
CallStep(c) == Stamp(c) \/ UpdateRow(c) \/ LockForRelease(c) \/ CommitRelease(c)

Next ==
  \/ \E p \in PayoutIds : Request(p) \/ RequestStep(p)
  \/ \E c \in Calls :
       \/ \E op \in Operations, p \in PayoutIds, own \in BOOLEAN : Read(c, op, p, own)
       \/ CallStep(c)
  \/ \E x \in Processes : Fails(x)
  \/ AllEnded

Spec == Init /\ [][Next]_vars

\* The database answers, grants a row to those who wait for it in turn, and finds
\* a deadlock: a call whose next statement stays possible runs it.
FairSpec ==
  /\ Spec
  /\ \A p \in PayoutIds : WF_vars(RequestStep(p))
  /\ \A c \in Calls : WF_vars(CallStep(c))
-----------------------------------------------------------------------------
\* As long as calls for one payout do not overlap, the service keeps the life
\* cycle and moves the money as AtomicPayouts says.
ImplementsAtomicPayouts == Atomic!Init /\ [][("overlap" \in faults) \/ Atomic!Next]_tables

\* What the wallet has paid into payout p: the hold, less each release of it.
Withheld(p) == IF status[p] = "ABSENT" THEN 0 ELSE (1 - released[p]) * AmountOf[p]

\* No lost update: whatever overlaps or fails, a wallet is its opening balance
\* less the holds placed plus the holds released.
BalanceIsExplained ==
  \A w \in Wallets :
    balance[w] + SumFunctionOnSet([p \in PayoutIds |-> Withheld(p)],
                                  {p \in PayoutIds : WalletOf[p] = w}) = Opening[w]

\* A rejected or cancelled payout has given its hold back.
VoidIsReleased ==
  \A p \in PayoutIds : status[p] \in {"REJECTED", "CANCELLED"} => released[p] >= 1

\* A hold is released at most once ...
NeverReleasedTwice == \A p \in PayoutIds : released[p] <= 1

\* ... as long as calls for one payout do not overlap.
HoldReleasedOnce == "overlap" \in faults \/ NeverReleasedTwice

\* The money of a payout leaves through the bank or goes back to the wallet,
\* never both, as long as calls for one payout do not overlap.
PaidIsNotReleased ==
  "overlap" \in faults \/ \A p \in PayoutIds : ~(paidAt[p] /\ released[p] > 0)

\* No call waits forever for a row another one holds: reviews take the payout row before
\* the wallet row, requests only the wallet row, and requests of one wallet that share it
\* are parted by the database.
EveryCallEnds == \A x \in Processes : pc[x] \in Working ~> pc[x] = "ended"

\* (core/payouts/payouts.service.ts) The balance is what came in, less the holds, plus
\* what was released; a payout that was turned down has given its hold back; and unless
\* reviews of one payout overlap, a hold is released once or paid, never both.
HoldsAreExplained ==
  TypeOK /\ BalanceIsExplained /\ VoidIsReleased /\ HoldReleasedOnce /\ PaidIsNotReleased
=============================================================================
