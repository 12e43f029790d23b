----------------------------- MODULE PayoutsProofs ----------------------------
(***************************************************************************)
(* Proofs about Payouts, about AdminQueue, the page on which admins decide *)
(* payouts, and about PersianUtils, which checks the IBAN a payout goes    *)
(* to, for every set of payouts, wallets, calls, rows and inputs.          *)
(***************************************************************************)
EXTENDS Payouts, AdminQueue, PersianUtils, SequenceTheorems, SumProofs, TLAPS

(***************************************************************************)
(* Payouts. Inv holds whatever the faults: the wallet lock keeps the       *)
(* balance a transaction read fresh until it writes. SerialInv holds when  *)
(* calls for one payout do not overlap: the status a call checked is still *)
(* there when it writes, and with that each write is a step of             *)
(* AtomicPayouts.                                                          *)
(***************************************************************************)
\* A call that passed its check has a task, and is in the branch of its task.
TaskInv ==
  \A c \in Calls : pc[c] \in Working =>
    /\ task[c] \in Tasks
    /\ \/ pc[c] = "stamp" /\ task[c].op \in {"approve", "markPaid"}
       \/ pc[c] \in {"begin", "lock", "credit"} /\ task[c].op \in {"reject", "cancel"}

\* Nothing happens to a payout before its request has committed.
RequestInv ==
  \A p \in PayoutIds :
    /\ pc[p] \in {"idle", "asked", "inserted", "hold", "ended"}
    /\ pc[p] # "ended" => status[p] = "ABSENT"

\* What was read under the wallet lock is still the balance.
FreshInv ==
  /\ \A p \in PayoutIds : pc[p] = "hold" =>
       walletLock[WalletOf[p]] = p /\ read[p] = balance[WalletOf[p]]
  /\ \A c \in Calls : pc[c] = "credit" =>
       walletLock[WalletOf[PayoutOf(c)]] = c /\ read[c] = balance[WalletOf[PayoutOf(c)]]

\* A call works on a payout that exists.
ExistsInv == \A c \in Calls : pc[c] \in Working => status[PayoutOf(c)] # "ABSENT"

Inv == TypeOK /\ TaskInv /\ RequestInv /\ FreshInv /\ ExistsInv /\ VoidIsReleased

\* No two calls work on one payout, and its status is the one they require.
SerialInv ==
  /\ \A c \in Calls : pc[c] \in Working => status[PayoutOf(c)] = Required(task[c].op)
  /\ \A c, d \in Calls :
       pc[c] \in Working /\ pc[d] \in Working /\ PayoutOf(c) = PayoutOf(d) => c = d

LifeInv ==
  \A p \in PayoutIds :
    /\ paidAt[p] => status[p] = "PAID"
    /\ released[p] > 0 => released[p] = 1 /\ status[p] \in {"REJECTED", "CANCELLED"}
-----------------------------------------------------------------------------
LEMMA ReleaseFrees ==
  ASSUME TypeOK, NEW x \in Processes, Release(x)
  PROVE  /\ rowLock' \in [PayoutIds -> Calls \cup {None}]
         /\ walletLock' \in [Wallets -> Processes \cup {None}]
         /\ \A w \in Wallets : walletLock[w] # x => walletLock'[w] = walletLock[w]
BY DEF TypeOK, Release

(* The faults a behaviour meets are chosen once.                            *)
LEMMA FaultsAreFixed == [Next]_vars => UNCHANGED faults
BY DEF Next, vars, Request, RequestStep, InsertRow, DeadlockAborts, LockForHold,
   InsufficientFunds, CommitHold, Read, CallStep, Stamp, UpdateRow, LockForRelease, CommitRelease, Fails, AllEnded

LEMMA InitInv == Init => Inv
<1> SUFFICES ASSUME Init PROVE Inv
  OBVIOUS
<1> USE PayoutAssumption, CallAssumption DEF Init, Atomic!Init
<1>1. TypeOK
  BY DEF TypeOK, Processes
<1>2. TaskInv /\ ExistsInv
  BY DEF TaskInv, ExistsInv, Working, Processes
<1>3. RequestInv /\ FreshInv /\ VoidIsReleased
  BY DEF RequestInv, FreshInv, VoidIsReleased, Processes
<1>4. QED
  BY <1>1, <1>2, <1>3 DEF Inv

(* Steps of the request call of p. *)
LEMMA RequestKeepsInv ==
  ASSUME Inv, NEW p \in PayoutIds, Request(p) \/ RequestStep(p), UNCHANGED faults
  PROVE  Inv'
<1> USE PayoutAssumption, CallAssumption DEF Inv, tables, locks, Goto, PayoutOf
<1>1. p \in Processes /\ \A c \in Calls : c # p /\ c \in Processes
  BY DEF Processes
<1>2. CASE Request(p) \/ InsertRow(p)
  BY <1>1, <1>2 DEF Request, InsertRow, TypeOK, TaskInv, RequestInv, FreshInv, ExistsInv, VoidIsReleased,
     Processes, Working
<1>3. CASE LockForHold(p)
  <2> DEFINE w == WalletOf[p]
  <2>1. /\ pc' = [pc EXCEPT ![p] = "hold"] /\ pc[p] = "inserted"
        /\ walletLock[w] = None /\ walletLock' = [walletLock EXCEPT ![w] = p]
        /\ read' = [read EXCEPT ![p] = balance[w]]
        /\ UNCHANGED <<status, paidAt, released, balance, rowLock, task>>
    BY <1>3 DEF LockForHold, LockWallet
  <2>2. TypeOK'
    BY <1>1, <2>1 DEF TypeOK, Working
  <2>3. FreshInv'
    BY <1>1, <2>1 DEF TypeOK, FreshInv, Processes
  <2>4. TaskInv' /\ RequestInv' /\ ExistsInv' /\ VoidIsReleased'
    BY <1>1, <2>1 DEF TypeOK, TaskInv, RequestInv, ExistsInv, VoidIsReleased
  <2>5. QED
    BY <2>2, <2>3, <2>4
<1>4. CASE InsufficientFunds(p) \/ DeadlockAborts(p)
  <2>1. pc' = [pc EXCEPT ![p] = "ended"] /\ UNCHANGED <<status, paidAt, released, balance, task, read>>
    BY <1>4 DEF InsufficientFunds, DeadlockAborts
  <2>2. TypeOK' /\ \A v \in Wallets : walletLock[v] # p => walletLock'[v] = walletLock[v]
    BY <1>1, <1>4, <2>1, ReleaseFrees DEF InsufficientFunds, DeadlockAborts, TypeOK
  <2>3. FreshInv'
    BY <1>1, <2>1, <2>2 DEF TypeOK, FreshInv, TaskInv, Tasks, Working, Processes
  <2>4. TaskInv' /\ RequestInv' /\ ExistsInv' /\ VoidIsReleased'
    BY <1>1, <2>1 DEF TypeOK, TaskInv, RequestInv, ExistsInv, VoidIsReleased
  <2>5. QED
    BY <2>2, <2>3, <2>4
<1>5. CASE CommitHold(p)
  <2> DEFINE w == WalletOf[p]
  <2>1. /\ pc[p] = "hold" /\ pc' = [pc EXCEPT ![p] = "ended"]
        /\ status' = [status EXCEPT ![p] = "PENDING"]
        /\ balance' = [balance EXCEPT ![w] = read[p] - AmountOf[p]] /\ read[p] >= AmountOf[p]
        /\ UNCHANGED <<paidAt, released, task, read>>
    BY <1>5 DEF CommitHold
  <2>2. read[p] - AmountOf[p] \in Nat
    BY <1>1, <2>1 DEF TypeOK
  <2>3. TypeOK' /\ \A v \in Wallets : walletLock[v] # p => walletLock'[v] = walletLock[v]
    BY <1>1, <1>5, <2>1, <2>2, ReleaseFrees DEF CommitHold, TypeOK, Statuses
  <2>4. FreshInv'
    <3>1. walletLock[w] = p
      BY <2>1 DEF FreshInv
    <3>2. QED
      BY <1>1, <2>1, <2>3, <3>1 DEF TypeOK, FreshInv, TaskInv, Tasks, Working, Processes
  <2>5. TaskInv' /\ RequestInv' /\ ExistsInv' /\ VoidIsReleased'
    BY <1>1, <2>1 DEF TypeOK, TaskInv, RequestInv, ExistsInv, VoidIsReleased
  <2>6. QED
    BY <2>3, <2>4, <2>5
<1>6. QED
  BY <1>2, <1>3, <1>4, <1>5 DEF RequestStep

(* Steps of a review call c. *)
LEMMA CallKeepsInv ==
  ASSUME Inv, NEW c \in Calls,
         \/ CallStep(c)
         \/ \E op \in Operations, p \in PayoutIds, own \in BOOLEAN : Read(c, op, p, own),
         UNCHANGED faults
  PROVE  Inv'
<1> USE PayoutAssumption, CallAssumption DEF Inv, tables, locks, Goto, PayoutOf
<1>1. c \in Processes /\ c \notin PayoutIds /\ \A p \in PayoutIds : p # c /\ p \in Processes
  BY DEF Processes
<1>2. ASSUME NEW op \in Operations, NEW p \in PayoutIds, NEW own \in BOOLEAN, Read(c, op, p, own)
      PROVE  Inv'
  <2>1. /\ task' = [task EXCEPT ![c] = [op |-> op, payout |-> p]]
        /\ pc' = [pc EXCEPT ![c] = pc'[c]]
        /\ UNCHANGED <<status, paidAt, released, balance, rowLock, walletLock, read>>
    BY <1>1, <1>2 DEF Read, TypeOK
  <2>2. \/ pc'[c] = "ended"
        \/ pc'[c] = "stamp" /\ op \in {"approve", "markPaid"} /\ status[p] # "ABSENT"
        \/ pc'[c] = "begin" /\ op \in {"reject", "cancel"} /\ status[p] # "ABSENT"
    BY <1>1, <1>2 DEF Read, TypeOK, Refused, Required, Operations
  <2>3. TypeOK'
    BY <1>1, <2>1, <2>2 DEF TypeOK, Working, Tasks
  <2>4. /\ \A d \in Calls : d # c => pc'[d] = pc[d] /\ task'[d] = task[d]
        /\ \A q \in PayoutIds : pc'[q] = pc[q]
        /\ task'[c] = [op |-> op, payout |-> p]
    <3>1. \A y \in Processes : y # c => pc'[y] = pc[y]
      BY <2>1 DEF TypeOK
    <3>2. \A d \in Calls : d # c => task'[d] = task[d]
      BY <2>1 DEF TypeOK
    <3>3. task'[c] = [op |-> op, payout |-> p]
      BY <2>1 DEF TypeOK
    <3>4. QED
      BY <1>1, <3>1, <3>2, <3>3 DEF Processes
  <2>5. TaskInv'
    BY <2>2, <2>4 DEF TaskInv, Tasks, Working
  <2>6. ExistsInv'
    BY <2>1, <2>2, <2>4 DEF ExistsInv, Working
  <2>7. FreshInv'
    BY <2>1, <2>2, <2>4 DEF FreshInv
  <2>8. RequestInv' /\ VoidIsReleased'
    BY <2>1, <2>4 DEF RequestInv, VoidIsReleased
  <2>9. QED
    BY <2>3, <2>5, <2>6, <2>7, <2>8
<1> DEFINE P == task[c].payout
<1>3. ASSUME CallStep(c)
      PROVE  task[c] \in Tasks /\ P \in PayoutIds /\ pc[c] \in Working /\ task[c].op \in Operations
             /\ status[P] # "ABSENT" /\ pc[P] = "ended"
  BY <1>3 DEF CallStep, Stamp, UpdateRow, LockForRelease, CommitRelease, TaskInv, Tasks, Working,
     ExistsInv, RequestInv
<1>4. CASE Stamp(c)
  <2>1. /\ pc' = [pc EXCEPT ![c] = "ended"] /\ pc[c] = "stamp"
        /\ status' = [status EXCEPT ![P] = Outcome(task[c].op)]
        /\ paidAt' = [paidAt EXCEPT ![P] = paidAt[P] \/ task[c].op = "markPaid"]
        /\ UNCHANGED <<released, balance, rowLock, walletLock, task, read>>
    BY <1>4 DEF Stamp
  <2>2. Outcome(task[c].op) \in {"APPROVED", "PAID"}
    BY <2>1 DEF Outcome, TaskInv, Working
  <2>3. TypeOK'
    BY <1>1, <1>3, <1>4, <2>1, <2>2 DEF CallStep, TypeOK, Statuses
  <2>4. /\ pc'[c] = "ended" /\ \A y \in Processes : y # c => pc'[y] = pc[y]
        /\ status'[P] # "ABSENT" /\ \A q \in PayoutIds : q # P => status'[q] = status[q]
    BY <1>1, <1>3, <1>4, <2>1, <2>2 DEF CallStep, TypeOK
  <2>5. TaskInv'
    BY <2>1, <2>4 DEF TaskInv, Working, Processes
  <2>6. ExistsInv'
    BY <2>1, <2>4 DEF ExistsInv, TaskInv, Tasks, Working, Processes
  <2>7. FreshInv'
    BY <1>1, <2>1, <2>4 DEF FreshInv
  <2>8. RequestInv' /\ VoidIsReleased'
    BY <1>1, <1>3, <1>4, <2>1, <2>2 DEF CallStep, TypeOK, RequestInv, VoidIsReleased
  <2>9. QED
    BY <2>3, <2>5, <2>6, <2>7, <2>8
<1>5. CASE UpdateRow(c)
  BY <1>1, <1>3, <1>5 DEF CallStep, UpdateRow, TypeOK, TaskInv, ExistsInv, FreshInv, RequestInv,
     VoidIsReleased, Working
<1>6. CASE LockForRelease(c)
  <2> DEFINE w == WalletOf[P]
  <2>1. /\ pc' = [pc EXCEPT ![c] = "credit"] /\ pc[c] = "lock" /\ w \in Wallets
        /\ walletLock[w] = None /\ walletLock' = [walletLock EXCEPT ![w] = c]
        /\ read' = [read EXCEPT ![c] = balance[w]]
        /\ UNCHANGED <<status, paidAt, released, balance, rowLock, task>>
    BY <1>3, <1>6 DEF CallStep, LockForRelease, LockWallet
  <2>2. TypeOK'
    BY <1>1, <2>1 DEF TypeOK, Working
  <2>3. FreshInv'
    BY <1>1, <2>1 DEF TypeOK, FreshInv, Processes
  <2>4. TaskInv' /\ RequestInv' /\ ExistsInv' /\ VoidIsReleased'
    BY <1>1, <2>1 DEF TypeOK, TaskInv, RequestInv, ExistsInv, VoidIsReleased, Working
  <2>5. QED
    BY <2>2, <2>3, <2>4
<1>7. CASE CommitRelease(c)
  <2> DEFINE w == WalletOf[P]
  <2>1. /\ pc[c] = "credit" /\ pc' = [pc EXCEPT ![c] = "ended"]
        /\ status' = [status EXCEPT ![P] = Outcome(task[c].op)]
        /\ released' = [released EXCEPT ![P] = released[P] + 1]
        /\ balance' = [balance EXCEPT ![w] = read[c] + AmountOf[P]]
        /\ UNCHANGED <<paidAt, task, read>>
    BY <1>7 DEF CommitRelease
  <2>2. Outcome(task[c].op) \in {"REJECTED", "CANCELLED"}
    BY <2>1 DEF Outcome, TaskInv, Working
  <2>3. walletLock[w] = c /\ P \in PayoutIds /\ w \in Wallets
    BY <1>3, <1>7, <2>1 DEF CallStep, FreshInv
  <2>4. TypeOK' /\ \A v \in Wallets : walletLock[v] # c => walletLock'[v] = walletLock[v]
    BY <1>1, <1>7, <2>1, <2>2, <2>3, ReleaseFrees DEF CommitRelease, TypeOK, Statuses
  <2>5. FreshInv'
    BY <1>1, <2>1, <2>3, <2>4 DEF TypeOK, FreshInv, TaskInv, Tasks, Working, Processes
  <2>6. TaskInv' /\ ExistsInv'
    <3>1. /\ pc'[c] = "ended" /\ \A y \in Processes : y # c => pc'[y] = pc[y]
          /\ status'[P] # "ABSENT" /\ \A q \in PayoutIds : q # P => status'[q] = status[q]
      BY <1>1, <2>1, <2>2, <2>3 DEF TypeOK
    <3>2. TaskInv'
      BY <2>1, <3>1 DEF TaskInv, Working, Processes
    <3>3. ExistsInv'
      BY <2>1, <3>1 DEF ExistsInv, TaskInv, Tasks, Working, Processes
    <3>4. QED
      BY <3>2, <3>3
  <2>7. RequestInv' /\ VoidIsReleased'
    BY <1>1, <1>3, <1>7, <2>1, <2>2, <2>3 DEF CallStep, TypeOK, RequestInv, VoidIsReleased
  <2>8. QED
    BY <2>4, <2>5, <2>6, <2>7
<1>8. QED
  BY <1>2, <1>4, <1>5, <1>6, <1>7 DEF CallStep

LEMMA FailureKeepsInv ==
  ASSUME Inv, NEW x \in Processes, Fails(x), UNCHANGED faults
  PROVE  Inv'
<1> USE PayoutAssumption, CallAssumption DEF Inv, tables, locks, Goto, PayoutOf
<1>1. pc' = [pc EXCEPT ![x] = "ended"] /\ UNCHANGED <<status, paidAt, released, balance, task, read>>
  BY DEF Fails
<1>2. TypeOK' /\ \A w \in Wallets : walletLock[w] # x => walletLock'[w] = walletLock[w]
  BY <1>1, ReleaseFrees DEF Fails, TypeOK
<1>3. \A y \in Processes : (pc'[y] = pc[y] /\ y # x) \/ pc'[y] = "ended"
  BY <1>1 DEF TypeOK
<1>4. FreshInv'
  BY <1>1, <1>2, <1>3 DEF FreshInv, TaskInv, Tasks, Working, Processes
<1>5. TaskInv' /\ RequestInv' /\ ExistsInv' /\ VoidIsReleased'
  BY <1>1, <1>3 DEF TaskInv, RequestInv, ExistsInv, VoidIsReleased, Working, Processes
<1>6. QED
  BY <1>2, <1>4, <1>5

LEMMA NextKeepsInv == Inv /\ [Next]_vars => Inv'
<1> SUFFICES ASSUME Inv, [Next]_vars PROVE Inv'
  OBVIOUS
<1>1. CASE UNCHANGED vars
  BY <1>1 DEF vars, Inv, TypeOK, TaskInv, RequestInv, FreshInv, ExistsInv, VoidIsReleased, PayoutOf
<1>2. QED
  BY <1>1, FaultsAreFixed, RequestKeepsInv, CallKeepsInv, FailureKeepsInv DEF Next, AllEnded

LEMMA Invariant == Spec => []Inv
BY InitInv, NextKeepsInv, PTL DEF Spec

(* Every reachable state of the payout service is well typed. *)
THEOREM PayoutsTypeOK == Spec => []TypeOK
<1>1. Inv => TypeOK
  BY DEF Inv
<1>2. QED
  BY <1>1, Invariant, PTL

(* Whatever overlaps or fails, a payout that ends REJECTED or CANCELLED    *)
(* has given its hold back: status and credit are one transaction.         *)
THEOREM PayoutsVoidIsReleased == Spec => []VoidIsReleased
<1>1. Inv => VoidIsReleased
  BY DEF Inv
<1>2. QED
  BY <1>1, Invariant, PTL
-----------------------------------------------------------------------------
(* The balance of a wallet, from the payouts made from it.                  *)
\* Nothing of a payout is released before its hold is placed.
ReleaseInv == \A p \in PayoutIds : status[p] = "ABSENT" => released[p] = 0

FundsInv == BalanceIsExplained /\ ReleaseInv

PayoutsFrom(w) == {p \in PayoutIds : WalletOf[p] = w}

LEMMA InitFunds == Init => FundsInv
<1> SUFFICES ASSUME Init PROVE FundsInv
  OBVIOUS
<1>1. ReleaseInv
  BY DEF Init, Atomic!Init, ReleaseInv
<1>2. ASSUME NEW w \in Wallets
      PROVE  balance[w] + SumFunctionOnSet([p \in PayoutIds |-> Withheld(p)], PayoutsFrom(w))
               = Opening[w]
  <2> DEFINE f == [p \in PayoutIds |-> Withheld(p)]
             S == PayoutsFrom(w)
             g == [p \in S |-> 0]
  <2>1. IsFiniteSet(S)
    BY PayoutAssumption, FS_Subset DEF PayoutsFrom
  <2>2. \A p \in S : f[p] = 0
    BY DEF Init, Atomic!Init, Withheld, PayoutsFrom
  <2> HIDE DEF f, S
  <2>3. SumFunctionOnSet(f, S) = 0
    BY <2>1, <2>2, SumOfZeros
  <2>4. balance[w] = Opening[w] /\ Opening[w] \in Nat
    BY PayoutAssumption DEF Init, Atomic!Init
  <2>5. QED
    BY <2>3, <2>4 DEF f, S
<1>3. QED
  BY <1>1, <1>2 DEF FundsInv, BalanceIsExplained, PayoutsFrom

\* A step that moves the balance of one wallet by what it changes of one payout.
LEMMA StepMovesWithheld ==
  ASSUME Inv, Inv', FundsInv, NEW P \in PayoutIds, NEW w \in Wallets, w = WalletOf[P],
         \A p \in PayoutIds : p # P => Withheld(p)' = Withheld(p),
         balance' = [balance EXCEPT ![w] = balance[w] + Withheld(P) - Withheld(P)']
  PROVE  BalanceIsExplained'
<1> DEFINE f == [p \in PayoutIds |-> Withheld(p)]
           g == [p \in PayoutIds |-> Withheld(p)']
<1> SUFFICES ASSUME NEW v \in Wallets
             PROVE  balance'[v] + SumFunctionOnSet(g, PayoutsFrom(v)) = Opening[v]
  BY DEF BalanceIsExplained, PayoutsFrom
<1>1. \A p \in PayoutIds : f[p] \in Int /\ g[p] \in Int
  BY PayoutAssumption DEF Inv, TypeOK, Withheld
<1>2. balance[v] + SumFunctionOnSet(f, PayoutsFrom(v)) = Opening[v]
  BY DEF FundsInv, BalanceIsExplained, PayoutsFrom
<1>3. IsFiniteSet(PayoutsFrom(v)) /\ PayoutsFrom(v) \subseteq PayoutIds
  BY PayoutAssumption, FS_Subset DEF PayoutsFrom
<1>4. \A p \in PayoutIds : p # P => g[p] = f[p]
  OBVIOUS
<1>5. balance' = [balance EXCEPT ![w] = balance[w] + f[P] - g[P]]
  OBVIOUS
<1>6. P \in PayoutsFrom(v) <=> v = w
  BY DEF PayoutsFrom
<1>7. balance[v] \in Int /\ Opening[v] \in Int /\ balance \in [Wallets -> Nat]
  <2>1. balance \in [Wallets -> Nat]
    BY DEF Inv, TypeOK
  <2>2. QED
    BY <2>1, PayoutAssumption
<1> HIDE DEF f, g
<1>8. SumFunctionOnSet(f, PayoutsFrom(v)) \in Int
  BY <1>1, <1>3, SumIsInt
<1>9. CASE v = w
  <2>1. SumFunctionOnSet(g, PayoutsFrom(v)) = SumFunctionOnSet(f, PayoutsFrom(v)) + g[P] - f[P]
    BY <1>1, <1>3, <1>4, <1>6, <1>9, SumChanges
  <2>2. balance'[v] = balance[v] + f[P] - g[P]
    BY <1>5, <1>7, <1>9
  <2>3. f[P] \in Int /\ g[P] \in Int
    BY <1>1
  <2>4. QED
    BY <1>2, <1>7, <1>8, <2>1, <2>2, <2>3
<1>10. CASE v # w
  <2>1. SumFunctionOnSet(g, PayoutsFrom(v)) = SumFunctionOnSet(f, PayoutsFrom(v))
    BY <1>3, <1>4, <1>6, <1>10, SumsOfEqualsAreEqual
  <2>2. balance'[v] = balance[v]
    BY <1>5, <1>7, <1>10
  <2>3. QED
    BY <1>2, <2>1, <2>2
<1>11. QED
  BY <1>9, <1>10

LEMMA SameWithheldSameFunds ==
  ASSUME Inv, FundsInv, UNCHANGED balance, \A p \in PayoutIds : Withheld(p)' = Withheld(p)
  PROVE  BalanceIsExplained'
<1>1. [p \in PayoutIds |-> Withheld(p)]' = [p \in PayoutIds |-> Withheld(p)]
  OBVIOUS
<1>2. QED
  BY <1>1 DEF FundsInv, BalanceIsExplained

LEMMA NextKeepsFunds == Inv /\ FundsInv /\ [Next]_vars => FundsInv'
<1> SUFFICES ASSUME Inv, FundsInv, [Next]_vars PROVE FundsInv'
  OBVIOUS
<1> USE PayoutAssumption, CallAssumption
<1>1. Inv'
  BY NextKeepsInv
<1>2. CASE UNCHANGED tables
  <2>1. \A p \in PayoutIds : Withheld(p)' = Withheld(p)
    BY <1>2 DEF tables, Withheld
  <2>2. BalanceIsExplained'
    BY <1>2, <2>1, SameWithheldSameFunds DEF tables
  <2>3. QED
    BY <1>2, <2>2 DEF tables, FundsInv, ReleaseInv
<1>3. ASSUME NEW p \in PayoutIds, CommitHold(p) PROVE FundsInv'
  <2> DEFINE w == WalletOf[p]
  <2>1. /\ read[p] = balance[w] /\ status[p] = "ABSENT" /\ released[p] = 0 /\ w \in Wallets
        /\ status' = [status EXCEPT ![p] = "PENDING"]
        /\ balance' = [balance EXCEPT ![w] = read[p] - AmountOf[p]]
        /\ UNCHANGED released
    BY <1>3 DEF CommitHold, Inv, FreshInv, RequestInv, FundsInv, ReleaseInv
  <2>2. Withheld(p) = 0 /\ Withheld(p)' = AmountOf[p] /\ AmountOf[p] \in Nat
    BY <2>1 DEF Withheld, Inv, TypeOK
  <2>3. \A q \in PayoutIds : q # p => Withheld(q)' = Withheld(q)
    BY <2>1 DEF Withheld, Inv, TypeOK
  <2>4. balance' = [balance EXCEPT ![w] = balance[w] + Withheld(p) - Withheld(p)']
    <3>1. balance[w] \in Nat
      BY <2>1 DEF Inv, TypeOK
    <3>2. read[p] - AmountOf[p] = balance[w] + Withheld(p) - Withheld(p)'
      BY <2>1, <2>2, <3>1
    <3>3. QED
      BY <2>1, <3>2
  <2>5. BalanceIsExplained'
    BY <1>1, <2>1, <2>3, <2>4, StepMovesWithheld
  <2>6. ReleaseInv'
    BY <2>1 DEF Inv, TypeOK, FundsInv, ReleaseInv
  <2>7. QED
    BY <2>5, <2>6 DEF FundsInv
<1>4. ASSUME NEW c \in Calls, CommitRelease(c) PROVE FundsInv'
  <2>1. PICK P \in PayoutIds : P = task[c].payout
    BY <1>4 DEF CommitRelease, Inv, TaskInv, Tasks, Working
  <2> DEFINE w == WalletOf[P]
  <2>2. /\ w \in Wallets /\ status[P] # "ABSENT"
        /\ task[c].op \in {"reject", "cancel"} /\ read[c] = balance[w]
    BY <1>4, <2>1 DEF CommitRelease, Inv, TaskInv, Tasks, ExistsInv, FreshInv, Working, PayoutOf
  <2>3. /\ status' = [status EXCEPT ![P] = Outcome(task[c].op)]
        /\ Outcome(task[c].op) # "ABSENT"
        /\ released' = [released EXCEPT ![P] = released[P] + 1]
        /\ balance' = [balance EXCEPT ![w] = read[c] + AmountOf[P]]
    BY <1>4, <2>1, <2>2 DEF CommitRelease, PayoutOf, Outcome
  <2>4. Withheld(P) - Withheld(P)' = AmountOf[P] /\ Withheld(P) \in Int /\ Withheld(P)' \in Int
    <3>1. released[P] \in Nat /\ AmountOf[P] \in Nat
      BY DEF Inv, TypeOK
    <3>2. Withheld(P) = (1 - released[P]) * AmountOf[P]
      BY <2>2 DEF Withheld
    <3>3. Withheld(P)' = (1 - (released[P] + 1)) * AmountOf[P]
      BY <2>3 DEF Withheld, Inv, TypeOK
    <3>4. QED
      BY <3>1, <3>2, <3>3
  <2>5. \A q \in PayoutIds : q # P => Withheld(q)' = Withheld(q)
    BY <2>3 DEF Withheld, Inv, TypeOK
  <2>6. balance' = [balance EXCEPT ![w] = balance[w] + Withheld(P) - Withheld(P)']
    <3>1. balance[w] \in Nat /\ AmountOf[P] \in Nat
      BY <2>2 DEF Inv, TypeOK
    <3>2. read[c] + AmountOf[P] = balance[w] + Withheld(P) - Withheld(P)'
      BY <2>2, <2>4, <3>1
    <3>3. QED
      BY <2>3, <3>2
  <2>7. BalanceIsExplained'
    BY <1>1, <2>2, <2>5, <2>6, StepMovesWithheld
  <2>8. ReleaseInv'
    BY <2>3 DEF Inv, TypeOK, FundsInv, ReleaseInv
  <2>9. QED
    BY <2>7, <2>8 DEF FundsInv
<1>5. ASSUME NEW c \in Calls, Stamp(c) PROVE FundsInv'
  <2> DEFINE P == task[c].payout
  <2>1. /\ P \in PayoutIds /\ status[P] # "ABSENT" /\ task[c].op \in {"approve", "markPaid"}
        /\ status' = [status EXCEPT ![P] = Outcome(task[c].op)]
        /\ UNCHANGED <<released, balance>>
    BY <1>5 DEF Stamp, Inv, TaskInv, Tasks, ExistsInv, Working, PayoutOf
  <2>2. Outcome(task[c].op) # "ABSENT"
    BY <2>1 DEF Outcome
  <2>3. \A q \in PayoutIds : Withheld(q)' = Withheld(q)
    BY <2>1, <2>2 DEF Withheld, Inv, TypeOK
  <2>4. BalanceIsExplained'
    BY <2>1, <2>3, SameWithheldSameFunds
  <2>5. ReleaseInv'
    BY <2>1, <2>2 DEF Inv, TypeOK, FundsInv, ReleaseInv
  <2>6. QED
    BY <2>4, <2>5 DEF FundsInv
<1>6. QED
  BY <1>2, <1>3, <1>4, <1>5
     DEF Next, vars, tables, Request, RequestStep, InsertRow, DeadlockAborts, LockForHold,
         InsufficientFunds, Read,
         CallStep, UpdateRow, LockForRelease, Fails, AllEnded

(* Whatever overlaps or fails, a wallet is what it was at first, less the    *)
(* holds placed on it, plus the holds given back: no update is lost.         *)
THEOREM PayoutsBalanceIsExplained == Spec => []BalanceIsExplained
<1>1. Inv /\ FundsInv /\ [Next]_vars => (Inv /\ FundsInv)'
  BY NextKeepsInv, NextKeepsFunds
<1>2. FundsInv => BalanceIsExplained
  BY DEF FundsInv
<1>3. QED
  BY <1>1, <1>2, InitInv, InitFunds, PTL DEF Spec
-----------------------------------------------------------------------------
LEMMA InitSerial == Init => SerialInv /\ LifeInv
BY DEF Init, Atomic!Init, SerialInv, LifeInv, Working, Processes

(* A call whose payout nobody else works on finds its status unchanged.    *)
LEMMA NextKeepsSerial ==
  ASSUME "overlap" \notin faults, Inv, SerialInv, LifeInv, [Next]_vars
  PROVE  SerialInv' /\ LifeInv'
<1> USE PayoutAssumption, CallAssumption DEF Inv, tables, locks, Goto, PayoutOf
<1>1. CASE UNCHANGED vars
  BY <1>1 DEF vars, SerialInv, LifeInv
<1>2. ASSUME NEW p \in PayoutIds, Request(p) \/ RequestStep(p) PROVE SerialInv' /\ LifeInv'
  <2>1. /\ \A c \in Calls : pc'[c] = pc[c]
        /\ UNCHANGED <<task, paidAt, released>>
        /\ \A q \in PayoutIds : status'[q] = status[q] \/ status[q] = "ABSENT"
    BY <1>2 DEF RequestStep, Request, InsertRow, DeadlockAborts, LockForHold,
       InsufficientFunds, CommitHold, TypeOK,
       RequestInv, Processes
  <2>2. SerialInv'
    BY <2>1 DEF SerialInv, ExistsInv, TaskInv, Tasks
  <2>3. LifeInv'
    BY <2>1 DEF LifeInv
  <2>4. QED
    BY <2>2, <2>3
<1>3. ASSUME NEW c \in Calls, NEW op \in Operations, NEW p \in PayoutIds, NEW own \in BOOLEAN,
             Read(c, op, p, own)
      PROVE  SerialInv' /\ LifeInv'
  <2>1. UNCHANGED <<status, paidAt, released>> /\ ~UnderReview(p)
    BY <1>3 DEF Read
  <2>2. \A d \in Calls : d # c => pc'[d] = pc[d] /\ task'[d] = task[d]
    BY <1>3 DEF Read, TypeOK, Processes
  <2>3. task'[c] = [op |-> op, payout |-> p]
    BY <1>3 DEF Read, TypeOK
  <2>4. pc'[c] \in Working => status[p] = Required(op)
    BY <1>3 DEF Read, TypeOK, Refused, Working, Processes
  <2>5. SerialInv'
    BY <2>1, <2>2, <2>3, <2>4 DEF SerialInv, UnderReview
  <2>6. QED
    BY <2>1, <2>5 DEF LifeInv
<1>4. ASSUME NEW c \in Calls, CallStep(c) PROVE SerialInv' /\ LifeInv'
  <2> DEFINE P == task[c].payout
  <2>1. P \in PayoutIds /\ pc[c] \in Working /\ status[P] = Required(task[c].op)
        /\ c \in Processes /\ task' = task
    BY <1>4 DEF CallStep, Stamp, UpdateRow, LockForRelease, CommitRelease, TaskInv, Tasks, Working,
       SerialInv, Processes
  <2>2. \A d \in Calls : d # c => pc'[d] = pc[d]
    BY <1>4 DEF CallStep, Stamp, UpdateRow, LockForRelease, CommitRelease, TypeOK, Processes
  <2>3. \A d \in Calls : d # c /\ pc[d] \in Working => task[d].payout # P
    BY <2>1 DEF SerialInv
  <2>4. CASE Stamp(c)
    <3>1. pc'[c] = "ended" /\ \A q \in PayoutIds : q # P => status'[q] = status[q] /\ paidAt'[q] = paidAt[q]
      BY <2>1, <2>4 DEF Stamp, TypeOK
    <3>2. SerialInv'
      BY <2>1, <2>2, <2>3, <3>1 DEF SerialInv, TaskInv, Tasks, Working
    <3>3. \/ task[c].op = "approve" /\ status'[P] = "APPROVED" /\ paidAt'[P] = paidAt[P]
          \/ task[c].op = "markPaid" /\ status'[P] = "PAID"
      BY <2>1, <2>4 DEF Stamp, TypeOK, TaskInv, Outcome
    <3>4. status[P] \in {"PENDING", "APPROVED"} /\ released' = released
      BY <2>1, <2>4 DEF Stamp, Required
    <3>5. LifeInv'
      <4>1. ASSUME NEW q \in PayoutIds, q # P
            PROVE  /\ paidAt'[q] => status'[q] = "PAID"
                   /\ released'[q] > 0 => released'[q] = 1 /\ status'[q] \in {"REJECTED", "CANCELLED"}
        BY <3>1, <3>4, <4>1 DEF LifeInv
      <4>2. released'[P] = 0 /\ ~paidAt[P]
        BY <2>1, <3>4 DEF LifeInv, TypeOK
      <4>3. paidAt'[P] => status'[P] = "PAID"
        BY <3>3, <4>2
      <4>4. QED
        BY <4>1, <4>2, <4>3 DEF LifeInv
    <3>6. QED
      BY <3>2, <3>5
  <2>5. CASE UpdateRow(c) \/ LockForRelease(c)
    <3>1. UNCHANGED <<status, paidAt, released>>
      BY <2>5 DEF UpdateRow, LockForRelease
    <3>2. QED
      BY <2>1, <2>2, <2>3, <3>1 DEF SerialInv, LifeInv
  <2>6. CASE CommitRelease(c)
    <3>1. pc'[c] = "ended" /\ \A q \in PayoutIds : q # P => status'[q] = status[q] /\ released'[q] = released[q]
      BY <2>1, <2>6 DEF CommitRelease, TypeOK
    <3>2. SerialInv'
      BY <2>1, <2>2, <2>3, <3>1 DEF SerialInv, TaskInv, Tasks, Working
    <3>3. status[P] = "PENDING" /\ status'[P] \in {"REJECTED", "CANCELLED"}
          /\ released'[P] = released[P] + 1 /\ paidAt' = paidAt /\ released[P] \in Nat
      <4>1. task[c].op \in {"reject", "cancel"}
        BY <2>6 DEF CommitRelease, TaskInv, Working
      <4>2. Required(task[c].op) = "PENDING" /\ Outcome(task[c].op) \in {"REJECTED", "CANCELLED"}
        BY <4>1 DEF Outcome, Required
      <4>3. QED
        BY <2>1, <2>6, <4>2 DEF CommitRelease, TypeOK
    <3>4. ~paidAt[P] /\ released[P] = 0
      BY <2>1, <3>3 DEF LifeInv
    <3>5. LifeInv'
      BY <2>1, <3>1, <3>3, <3>4 DEF LifeInv
    <3>6. QED
      BY <3>2, <3>5
  <2>7. QED
    BY <1>4, <2>4, <2>5, <2>6 DEF CallStep
<1>5. ASSUME NEW x \in Processes, Fails(x) PROVE SerialInv' /\ LifeInv'
  <2>1. UNCHANGED <<status, paidAt, released, task>> /\ \A y \in Processes : pc'[y] = pc[y] \/ pc'[y] = "ended"
    BY <1>5 DEF Fails, TypeOK
  <2>2. QED
    BY <2>1 DEF SerialInv, LifeInv, Working, Processes
<1>6. QED
  BY <1>1, <1>2, <1>3, <1>4, <1>5 DEF Next, AllEnded

GuardedSerialInv == "overlap" \in faults \/ (SerialInv /\ LifeInv)

LEMMA SerialInvariant == Spec => []GuardedSerialInv
<1>1. Init => GuardedSerialInv
  BY InitSerial DEF GuardedSerialInv
<1>2. Inv /\ GuardedSerialInv /\ [Next]_vars => GuardedSerialInv'
  <2> SUFFICES ASSUME Inv, GuardedSerialInv, [Next]_vars PROVE GuardedSerialInv'
    OBVIOUS
  <2>1. UNCHANGED faults
    BY FaultsAreFixed
  <2>2. CASE "overlap" \in faults
    BY <2>1, <2>2 DEF GuardedSerialInv
  <2>3. CASE "overlap" \notin faults
    BY <2>3, NextKeepsSerial DEF GuardedSerialInv
  <2>4. QED
    BY <2>2, <2>3
<1>3. QED
  BY <1>1, <1>2, Invariant, PTL DEF Spec

(* Without overlap a hold is released at most once.                        *)
THEOREM PayoutsHoldReleasedOnce == Spec => []HoldReleasedOnce
<1>1. Inv /\ GuardedSerialInv => HoldReleasedOnce
  BY DEF Inv, TypeOK, LifeInv, GuardedSerialInv, HoldReleasedOnce, NeverReleasedTwice
<1>2. QED
  BY <1>1, SerialInvariant, Invariant, PTL

(* Without overlap no payout is both paid out and given back.              *)
THEOREM PayoutsPaidIsNotReleased == Spec => []PaidIsNotReleased
<1>1. GuardedSerialInv => PaidIsNotReleased
  BY DEF LifeInv, GuardedSerialInv, PaidIsNotReleased
<1>2. QED
  BY <1>1, SerialInvariant, PTL

LEMMA NextIsAtomicStep ==
  ASSUME Inv, SerialInv, [Next]_vars
  PROVE  [Atomic!Next]_tables
<1> USE PayoutAssumption, CallAssumption DEF Inv, tables, PayoutOf
<1>1. CASE UNCHANGED vars
  BY <1>1 DEF vars
<1>2. ASSUME NEW p \in PayoutIds, Request(p) \/ RequestStep(p) PROVE [Atomic!Next]_tables
  <2>1. CASE CommitHold(p)
    <3>1. status[p] = "ABSENT" /\ read[p] = balance[WalletOf[p]] /\ WalletOf[p] \in Wallets
      BY <2>1 DEF CommitHold, RequestInv, FreshInv
    <3>2. Atomic!Request(p)
      BY <2>1, <3>1 DEF CommitHold, Atomic!Request
    <3>3. QED
      BY <3>2 DEF Atomic!Next
  <2>2. QED
    BY <1>2, <2>1 DEF RequestStep, Request, InsertRow, DeadlockAborts, LockForHold,
       InsufficientFunds
<1>3. ASSUME NEW c \in Calls, CallStep(c) PROVE [Atomic!Next]_tables
  <2> DEFINE P == task[c].payout
  <2>1. P \in PayoutIds /\ status[P] = Required(task[c].op) /\ WalletOf[P] \in Wallets
    BY <1>3 DEF CallStep, Stamp, UpdateRow, LockForRelease, CommitRelease, TaskInv, Tasks, Working,
       SerialInv
  <2>2. CASE Stamp(c)
    <3>1. task[c].op \in {"approve", "markPaid"}
      BY <2>2 DEF Stamp, TaskInv, Working
    <3>2. CASE task[c].op = "approve"
      <4>1. paidAt' = paidAt
        BY <2>1, <2>2, <3>2 DEF Stamp, TypeOK
      <4>2. Atomic!Approve(P)
        BY <2>1, <2>2, <3>2, <4>1 DEF Stamp, Atomic!Approve, Required, Outcome
      <4>3. QED
        BY <2>1, <4>2 DEF Atomic!Next
    <3>3. CASE task[c].op = "markPaid"
      <4>1. paidAt' = [paidAt EXCEPT ![P] = TRUE]
        <5>1. (paidAt[P] \/ task[c].op = "markPaid") = TRUE
          BY <3>3, Zenon
        <5>2. QED
          BY <2>2, <5>1 DEF Stamp
      <4>2. Atomic!MarkPaid(P)
        <5>1. Required(task[c].op) = "APPROVED" /\ Outcome(task[c].op) = "PAID"
          BY <3>3 DEF Required, Outcome
        <5>2. status[P] = "APPROVED" /\ status' = [status EXCEPT ![P] = "PAID"]
          BY <2>1, <2>2, <5>1 DEF Stamp
        <5>3. QED
          BY <2>2, <4>1, <5>2 DEF Stamp, Atomic!MarkPaid
      <4>3. QED
        BY <2>1, <4>2 DEF Atomic!Next
    <3>4. QED
      BY <3>1, <3>2, <3>3
  <2>3. CASE CommitRelease(c)
    <3>1. task[c].op \in {"reject", "cancel"} /\ read[c] = balance[WalletOf[P]]
      BY <2>3 DEF CommitRelease, TaskInv, FreshInv, Working
    <3>2. Outcome(task[c].op) \in {"REJECTED", "CANCELLED"} /\ status[P] = "PENDING"
      BY <2>1, <3>1 DEF Outcome, Required
    <3>3. Atomic!RejectOrCancel(P)
      BY <2>1, <2>3, <3>1, <3>2 DEF CommitRelease, Atomic!RejectOrCancel
    <3>4. QED
      BY <2>1, <3>3 DEF Atomic!Next
  <2>4. QED
    BY <1>3, <2>2, <2>3 DEF CallStep, UpdateRow, LockForRelease
<1>4. QED
  BY <1>1, <1>2, <1>3 DEF Next, AllEnded, Read, Fails

(* Without overlap the service with all its locks, reads and rollbacks     *)
(* implements the atomic life cycle: every commit writes the balance that  *)
(* is there plus or minus the amount, once, from the status required.      *)
THEOREM PayoutsImplementAtomicPayouts == Spec => ImplementsAtomicPayouts
<1>1. Init => Atomic!Init
  BY DEF Init
<1>2. Inv /\ GuardedSerialInv /\ [Next]_vars => ["overlap" \in faults \/ Atomic!Next]_tables
  BY NextIsAtomicStep DEF GuardedSerialInv
<1>3. QED
  BY <1>1, <1>2, Invariant, SerialInvariant, PTL DEF Spec, ImplementsAtomicPayouts

(* Holds explain the balance: what a payout took from the wallet was given   *)
(* back once or paid, never both, unless reviews of one payout overlap.      *)
THEOREM PayoutsHoldsAreExplained == Spec => []HoldsAreExplained
BY PayoutsTypeOK, PayoutsBalanceIsExplained, PayoutsVoidIsReleased,
   PayoutsHoldReleasedOnce, PayoutsPaidIsNotReleased,
   PTL DEF HoldsAreExplained


-----------------------------------------------------------------------------
(***************************************************************************)
(* AdminQueue. QueueInv ties each text to the row whose dialog it was      *)
(* typed in, while the dialog is open, while its request is under way and  *)
(* once it is written; and each row a list shows to the status it had when *)
(* the list was fetched, or to the invalidation that will fetch it again.  *)
(***************************************************************************)
\* A dialog is open for a row, or none is; a request is one dialog's, with the text its
\* field had for that row unless it was left by the cancel button.
DialogsAgree ==
  /\ dialog = NoDialog \/ (dialog.kind \in Kinds /\ dialog.row \in Queued)
  /\ mutation.at # "idle" => mutation.kind \in Kinds /\ mutation.row \in Queued
  /\ mutation.at # "idle" => mutation.text \in {None, mutation.row} \/ "button" \in faults

\* Only the open dialog has a text, and it is its row's.
DraftsAgree ==
  \A k \in WithText : draft[k] # None =>
    (dialog.kind = k /\ draft[k] = dialog.row) \/ "button" \in faults

\* What has just been decided, and not been told yet.
JustDecided(p) == mutation.at = "ok" /\ mutation.row = p

\* Rows of a list, and those on their way to it, are in its status, or will be asked for again,
\* at the latest once the decision that is under way is told.
ShownRowsAgree ==
  "others" \notin faults =>
    /\ \A s \in Listed : \A p \in list[s] :
         payout[p] = s \/ s \in outdated \/ (s = tab /\ fetching.at # "idle") \/ JustDecided(p)
    /\ fetching.at # "idle" =>
         \A p \in fetching.rows : payout[p] = tab \/ tab \in outdated \/ JustDecided(p)

\* The inductive invariant.
QueueInv == QueueTypeOK /\ TextFitsPayout /\ DialogsAgree /\ DraftsAgree /\ ShownRowsAgree

\* The decision of a dialog leads to a status.
LEMMA Outcomes == \A k \in Kinds : DecisionOf(k) \in PayoutStatuses /\ ShownIn(k) \in Listed
BY DEF Kinds, DecisionOf, PayoutStatuses, ShownIn, Listed

\* What is nobody's kind is no dialog's.
LEMMA NoneIsNoKind == None \notin Kinds /\ None \notin WithText /\ WithText \subseteq Kinds
BY QueueAssumption DEF Kinds, WithText

\* The list is asked for and shown.
LEMMA RowsKeep ==
  ASSUME QueueInv, FetchRows \/ ShowRows
  PROVE  QueueInv'
<1>1. QueueTypeOK /\ TextFitsPayout /\ DialogsAgree /\ DraftsAgree /\ ShownRowsAgree
  BY DEF QueueInv
<1>2. /\ payout' = payout /\ written' = written /\ tab' = tab /\ dialog' = dialog /\ draft' = draft
      /\ mutation' = mutation /\ faults' = faults
  BY DEF FetchRows, ShowRows
<1>3. TextFitsPayout' /\ DialogsAgree' /\ DraftsAgree'
  BY <1>1, <1>2 DEF TextFitsPayout, DialogsAgree, DraftsAgree
<1>4. CASE FetchRows
  <2>1. /\ fetching' = [at |-> "answered", rows |-> {p \in Queued : payout[p] = tab}]
        /\ outdated' = outdated \ {tab} /\ list' = list
    BY <1>4 DEF FetchRows
  <2>2. QueueTypeOK'
    BY <1>1, <1>2, <2>1 DEF QueueTypeOK
  <2>3. ShownRowsAgree'
    BY <1>1, <1>2, <2>1 DEF ShownRowsAgree, JustDecided
  <2>4. QED
    BY <1>3, <2>2, <2>3 DEF QueueInv
<1>5. CASE ShowRows
  <2>1. /\ fetching.at = "answered" /\ list' = [list EXCEPT ![tab] = fetching.rows]
        /\ fetching' = NotFetching /\ outdated' = outdated
    BY <1>5 DEF ShowRows
  <2>2. QueueTypeOK'
    BY <1>1, <1>2, <2>1 DEF QueueTypeOK, NotFetching
  <2>3. \A s \in Listed : list'[s] = IF s = tab THEN fetching.rows ELSE list[s]
    BY <1>1, <2>1 DEF QueueTypeOK
  <2>4. ShownRowsAgree'
    BY <1>1, <1>2, <2>1, <2>3 DEF ShownRowsAgree, JustDecided, NotFetching
  <2>5. QED
    BY <1>3, <2>2, <2>4 DEF QueueInv
<1>6. QED
  BY <1>4, <1>5

\* Another table is mounted: its drafts are new, and what was under way for the old one is
\* asked for again when it comes back.
LEMMA ChangeTabKeeps ==
  ASSUME QueueInv, NEW s \in Listed, ChangeTab(s)
  PROVE  QueueInv'
<1>1. QueueTypeOK /\ TextFitsPayout /\ DialogsAgree /\ DraftsAgree /\ ShownRowsAgree
  BY DEF QueueInv
<1>2. /\ s # tab /\ dialog = NoDialog /\ tab' = s /\ fetching' = NotFetching /\ draft' = NoDrafts
      /\ mutation' = [mutation EXCEPT !.mounted = FALSE]
      /\ outdated' = IF fetching.at = "idle" THEN outdated ELSE outdated \cup {tab}
      /\ payout' = payout /\ written' = written /\ list' = list /\ dialog' = dialog /\ faults' = faults
  BY DEF ChangeTab
<1>3. /\ mutation'.at = mutation.at /\ mutation'.kind = mutation.kind /\ mutation'.row = mutation.row
      /\ mutation'.text = mutation.text
      /\ mutation' \in [kind : Kinds \cup {None}, at : {"idle", "sent", "ok", "error"},
                        row : Queued \cup {None}, text : Queued \cup {None}, mounted : BOOLEAN]
  BY <1>1, <1>2 DEF QueueTypeOK
<1>4. QueueTypeOK'
  BY <1>1, <1>2, <1>3 DEF QueueTypeOK, NotFetching, NoDrafts
<1>5. TextFitsPayout' /\ DialogsAgree' /\ DraftsAgree'
  BY <1>1, <1>2, <1>3 DEF TextFitsPayout, DialogsAgree, DraftsAgree, NoDrafts
<1>6. ShownRowsAgree'
  BY <1>1, <1>2, <1>3 DEF ShownRowsAgree, JustDecided, NotFetching
<1>7. QED
  BY <1>4, <1>5, <1>6 DEF QueueInv

\* Dialogs are opened, typed in and left.
LEMMA DialogKeeps ==
  ASSUME QueueInv,
         Type \/ Dismiss \/ Cancel \/ \E k \in Kinds, p \in Queued : OpenDialog(k, p)
  PROVE  QueueInv'
<1>1. QueueTypeOK /\ TextFitsPayout /\ DialogsAgree /\ DraftsAgree /\ ShownRowsAgree
  BY DEF QueueInv
<1>2. /\ payout' = payout /\ written' = written /\ tab' = tab /\ list' = list
      /\ outdated' = outdated /\ fetching' = fetching /\ mutation' = mutation /\ faults' = faults
  BY DEF Type, Dismiss, Cancel, OpenDialog, rowsShown
<1>3. TextFitsPayout' /\ ShownRowsAgree'
  BY <1>1, <1>2 DEF TextFitsPayout, ShownRowsAgree, JustDecided
<1>4. /\ draft \in [WithText -> Queued \cup {None}] /\ draft' \in [WithText -> Queued \cup {None}]
      /\ dialog' = NoDialog \/ (dialog'.kind \in Kinds /\ dialog'.row \in Queued)
      /\ dialog' \in [kind : Kinds \cup {None}, row : Queued \cup {None}]
      /\ DraftsAgree'
  <2>1. draft \in [WithText -> Queued \cup {None}]
    BY <1>1 DEF QueueTypeOK
  <2>2. CASE Type
    <3>1. /\ dialog.kind \in WithText /\ dialog' = dialog
          /\ draft' = [draft EXCEPT ![dialog.kind] = dialog.row]
      BY <2>2 DEF Type
    <3>2. dialog.row \in Queued /\ dialog.kind \in Kinds
      BY <1>1, <3>1, NoneIsNoKind DEF DialogsAgree, NoDialog
    <3>3. draft' \in [WithText -> Queued \cup {None}]
      BY <2>1, <3>1, <3>2
    <3>4. DraftsAgree'
      BY <1>1, <1>2, <2>1, <3>1 DEF DraftsAgree
    <3>5. QED
      BY <1>1, <2>1, <3>1, <3>2, <3>3, <3>4 DEF QueueTypeOK
  <2>3. CASE Dismiss
    <3>1. /\ dialog # NoDialog /\ dialog' = NoDialog
          /\ draft' = [k \in WithText |-> IF k = dialog.kind THEN None ELSE draft[k]]
      BY <2>3 DEF Dismiss
    <3>2. draft' \in [WithText -> Queued \cup {None}]
      BY <2>1, <3>1
    <3>3. DraftsAgree'
      BY <1>1, <1>2, <3>1 DEF DraftsAgree
    <3>4. QED
      BY <2>1, <3>1, <3>2, <3>3 DEF NoDialog
  <2>4. CASE Cancel
    <3>1. "button" \in faults /\ dialog' = NoDialog /\ draft' = draft
      BY <2>4 DEF Cancel
    <3>2. QED
      BY <1>2, <2>1, <3>1 DEF DraftsAgree, NoDialog
  <2>5. ASSUME NEW k \in Kinds, NEW p \in Queued, OpenDialog(k, p)
        PROVE  /\ draft' \in [WithText -> Queued \cup {None}]
               /\ dialog'.kind \in Kinds /\ dialog'.row \in Queued
               /\ dialog' \in [kind : Kinds \cup {None}, row : Queued \cup {None}]
               /\ DraftsAgree'
    <3>1. dialog = NoDialog /\ dialog' = [kind |-> k, row |-> p] /\ draft' = draft
      BY <2>5 DEF OpenDialog
    <3>2. \A j \in WithText : draft[j] = None \/ "button" \in faults
      BY <1>1, <3>1, NoneIsNoKind DEF DraftsAgree, NoDialog
    <3>3. DraftsAgree'
      BY <1>2, <3>1, <3>2 DEF DraftsAgree
    <3>4. QED
      BY <2>1, <3>1, <3>3
  <2>6. QED
    BY <2>1, <2>2, <2>3, <2>4, <2>5
<1>5. DialogsAgree'
  BY <1>1, <1>2, <1>4 DEF DialogsAgree
<1>6. QueueTypeOK'
  BY <1>1, <1>2, <1>4 DEF QueueTypeOK
<1>7. QED
  BY <1>3, <1>4, <1>5, <1>6 DEF QueueInv

\* A dialog's request carries the text of its own row.
LEMMA SubmitKeeps ==
  ASSUME QueueInv, Submit
  PROVE  QueueInv'
<1>1. QueueTypeOK /\ TextFitsPayout /\ DialogsAgree /\ DraftsAgree /\ ShownRowsAgree
  BY DEF QueueInv
<1>2. /\ dialog # NoDialog /\ mutation = NoMutation
      /\ mutation' = [kind |-> dialog.kind, at |-> "sent", row |-> dialog.row, mounted |-> TRUE,
                      text |-> IF dialog.kind \in WithText THEN draft[dialog.kind] ELSE None]
      /\ dialog' = IF dialog.kind = "approve" THEN NoDialog ELSE dialog
      /\ payout' = payout /\ written' = written /\ tab' = tab /\ list' = list
      /\ outdated' = outdated /\ fetching' = fetching /\ draft' = draft /\ faults' = faults
  BY DEF Submit, rowsShown
<1>3. dialog.kind \in Kinds /\ dialog.row \in Queued
  BY <1>1, <1>2 DEF DialogsAgree
<1>4. /\ mutation'.at = "sent" /\ mutation'.kind = dialog.kind /\ mutation'.row = dialog.row
      /\ mutation'.text = IF dialog.kind \in WithText THEN draft[dialog.kind] ELSE None
  BY <1>2
<1>5. mutation'.text \in {None, dialog.row} \/ "button" \in faults
  BY <1>1, <1>4 DEF DraftsAgree
<1>6. mutation'.text \in Queued \cup {None}
  BY <1>1, <1>4 DEF QueueTypeOK
<1>7. QueueTypeOK'
  <2>1. mutation' \in [kind : Kinds \cup {None}, at : {"idle", "sent", "ok", "error"},
                       row : Queued \cup {None}, text : Queued \cup {None}, mounted : BOOLEAN]
    BY <1>2, <1>3, <1>6
  <2>2. QED
    BY <1>1, <1>2, <2>1 DEF QueueTypeOK, NoDialog
<1>8. TextFitsPayout'
  BY <1>1, <1>2 DEF TextFitsPayout
<1>9. DialogsAgree'
  BY <1>2, <1>3, <1>4, <1>5 DEF DialogsAgree
<1>10. DraftsAgree'
  BY <1>1, <1>2 DEF DraftsAgree, WithText
<1>11. ShownRowsAgree'
  <2>1. \A p : ~JustDecided(p)
    BY <1>2 DEF JustDecided, NoMutation
  <2>2. QED
    BY <1>1, <1>2, <2>1 DEF ShownRowsAgree
<1>12. QED
  BY <1>7, <1>8, <1>9, <1>10, <1>11 DEF QueueInv

\* The API decides by the status the payout has by then, and a row that it decides is one whose
\* lists are about to be asked for again.
LEMMA DecideKeeps ==
  ASSUME QueueInv, Decide
  PROVE  QueueInv'
<1>1. QueueTypeOK /\ TextFitsPayout /\ DialogsAgree /\ DraftsAgree /\ ShownRowsAgree
  BY DEF QueueInv
<1>2. /\ mutation.at = "sent" /\ tab' = tab /\ list' = list /\ outdated' = outdated
      /\ fetching' = fetching /\ dialog' = dialog /\ draft' = draft /\ faults' = faults
  BY DEF Decide, rowsShown
<1>3. PICK p, k : p = mutation.row /\ k = mutation.kind
  OBVIOUS
<1>4. k \in Kinds /\ p \in Queued /\ (mutation.text \in {None, p} \/ "button" \in faults)
  BY <1>1, <1>2, <1>3 DEF DialogsAgree
<1>5. \A q : ~JustDecided(q)
  BY <1>2 DEF JustDecided
<1>6. DraftsAgree'
  BY <1>1, <1>2 DEF DraftsAgree
<1>7. CASE /\ payout' = [payout EXCEPT ![p] = DecisionOf(k)]
           /\ written' = [written EXCEPT ![p] = mutation.text]
           /\ mutation' = [mutation EXCEPT !.at = "ok"]
  <2>1. /\ mutation'.at = "ok" /\ mutation'.kind = k /\ mutation'.row = p
        /\ mutation'.text = mutation.text
        /\ mutation' \in [kind : Kinds \cup {None}, at : {"idle", "sent", "ok", "error"},
                          row : Queued \cup {None}, text : Queued \cup {None}, mounted : BOOLEAN]
    BY <1>1, <1>3, <1>7 DEF QueueTypeOK
  <2>2. payout' \in [Queued -> PayoutStatuses] /\ \A q \in Queued : q # p => payout'[q] = payout[q]
    BY <1>1, <1>4, <1>7, Outcomes DEF QueueTypeOK
  <2>3. /\ written' \in [Queued -> Queued \cup {None}] /\ written'[p] = mutation.text
        /\ \A q \in Queued : q # p => written'[q] = written[q]
    BY <1>1, <1>4, <1>7 DEF QueueTypeOK
  <2>4. QueueTypeOK'
    BY <1>1, <1>2, <2>1, <2>2, <2>3 DEF QueueTypeOK
  <2>5. TextFitsPayout'
    BY <1>1, <1>2, <1>4, <2>3 DEF TextFitsPayout
  <2>6. DialogsAgree'
    BY <1>1, <1>2, <1>4, <2>1 DEF DialogsAgree
  <2>7. ShownRowsAgree'
    <3>1. \A s \in Listed : list[s] \in SUBSET Queued
      BY <1>1 DEF QueueTypeOK
    <3>2. fetching.rows \in SUBSET Queued
      BY <1>1 DEF QueueTypeOK
    <3>3. \A q : JustDecided(q)' <=> q = p
      BY <2>1 DEF JustDecided
    <3>4. QED
      BY <1>1, <1>2, <1>5, <2>2, <3>1, <3>2, <3>3 DEF ShownRowsAgree
  <2>8. QED
    BY <1>6, <2>4, <2>5, <2>6, <2>7 DEF QueueInv
<1>8. CASE mutation' = [mutation EXCEPT !.at = "error"] /\ payout' = payout /\ written' = written
  <2>1. /\ mutation'.at = "error" /\ mutation'.kind = k /\ mutation'.row = p
        /\ mutation'.text = mutation.text
        /\ mutation' \in [kind : Kinds \cup {None}, at : {"idle", "sent", "ok", "error"},
                          row : Queued \cup {None}, text : Queued \cup {None}, mounted : BOOLEAN]
    BY <1>1, <1>3, <1>8 DEF QueueTypeOK
  <2>2. QueueTypeOK' /\ TextFitsPayout'
    BY <1>1, <1>2, <1>8, <2>1 DEF QueueTypeOK, TextFitsPayout
  <2>3. DialogsAgree'
    BY <1>1, <1>2, <1>4, <2>1 DEF DialogsAgree
  <2>4. ShownRowsAgree'
    BY <1>1, <1>2, <1>5, <1>8 DEF ShownRowsAgree
  <2>5. QED
    BY <1>6, <2>2, <2>3, <2>4 DEF QueueInv
<1>9. QED
  BY <1>3, <1>7, <1>8 DEF Decide

\* The page hears of the decision: the dialog of its kind is closed and every list asked for
\* again, or everything is left as it is.
LEMMA ToldKeeps ==
  ASSUME QueueInv, Decided \/ NotDecided
  PROVE  QueueInv'
<1>1. QueueTypeOK /\ TextFitsPayout /\ DialogsAgree /\ DraftsAgree /\ ShownRowsAgree
  BY DEF QueueInv
<1>2. /\ mutation' = NoMutation /\ payout' = payout /\ written' = written /\ tab' = tab
      /\ list' = list /\ faults' = faults
  BY DEF Decided, NotDecided, rowsShown
<1>3. NoMutation \in [kind : Kinds \cup {None}, at : {"idle", "sent", "ok", "error"},
                      row : Queued \cup {None}, text : Queued \cup {None}, mounted : BOOLEAN]
  BY DEF NoMutation
<1>4. TextFitsPayout'
  BY <1>1, <1>2 DEF TextFitsPayout
<1>5. CASE Decided
  <2>1. /\ dialog' = IF mutation.mounted /\ dialog.kind = mutation.kind THEN NoDialog ELSE dialog
        /\ draft' = [k \in WithText |->
                       IF mutation.mounted /\ k = mutation.kind THEN None ELSE draft[k]]
        /\ outdated' = Listed /\ fetching' = NotFetching
    BY <1>5 DEF Decided, CloseDialog, ClearDraft, Invalidate
  <2>2. QueueTypeOK'
    BY <1>1, <1>2, <1>3, <2>1 DEF QueueTypeOK, NoDialog, NotFetching
  <2>3. DialogsAgree'
    BY <1>1, <1>2, <2>1 DEF DialogsAgree, NoMutation
  <2>4. DraftsAgree'
    <3>1. \A k \in WithText : draft'[k] # None =>
            draft'[k] = draft[k] /\ ~(mutation.mounted /\ k = mutation.kind)
      BY <2>1
    <3>2. QED
      BY <1>1, <1>2, <2>1, <3>1 DEF DraftsAgree
  <2>5. ShownRowsAgree'
    BY <2>1 DEF ShownRowsAgree, NotFetching
  <2>6. QED
    BY <1>4, <2>2, <2>3, <2>4, <2>5 DEF QueueInv
<1>6. CASE NotDecided
  <2>1. /\ mutation.at = "error" /\ dialog' = dialog /\ draft' = draft
        /\ outdated' = outdated /\ fetching' = fetching
    BY <1>6 DEF NotDecided, rowsShown
  <2>2. QueueTypeOK'
    BY <1>1, <1>2, <1>3, <2>1 DEF QueueTypeOK
  <2>3. DialogsAgree' /\ DraftsAgree'
    BY <1>1, <1>2, <2>1 DEF DialogsAgree, DraftsAgree, NoMutation
  <2>4. ShownRowsAgree'
    <3>1. \A p : ~JustDecided(p)
      BY <2>1 DEF JustDecided
    <3>2. QED
      BY <1>1, <1>2, <2>1, <3>1 DEF ShownRowsAgree
  <2>5. QED
    BY <1>4, <2>2, <2>3, <2>4 DEF QueueInv
<1>7. QED
  BY <1>5, <1>6

\* What others decide writes no text of this page, and its rows may stay.
LEMMA ElsewhereKeeps ==
  ASSUME QueueInv, NEW p \in Queued, NEW s \in PayoutStatuses, DecideElsewhere(p, s)
  PROVE  QueueInv'
<1>1. QueueTypeOK /\ TextFitsPayout /\ DialogsAgree /\ DraftsAgree /\ ShownRowsAgree
  BY DEF QueueInv
<1>2. /\ "others" \in faults /\ payout' = [payout EXCEPT ![p] = s] /\ written' = written
      /\ tab' = tab /\ list' = list /\ outdated' = outdated /\ fetching' = fetching
      /\ dialog' = dialog /\ draft' = draft /\ mutation' = mutation /\ faults' = faults
  BY DEF DecideElsewhere, rowsShown
<1>3. QueueTypeOK' /\ TextFitsPayout' /\ DialogsAgree' /\ DraftsAgree'
  BY <1>1, <1>2 DEF QueueTypeOK, TextFitsPayout, DialogsAgree, DraftsAgree
<1>4. ShownRowsAgree'
  BY <1>2 DEF ShownRowsAgree
<1>5. QED
  BY <1>3, <1>4 DEF QueueInv

LEMMA QueueStarts == QueueInit => QueueInv
<1> SUFFICES ASSUME QueueInit PROVE QueueInv
  OBVIOUS
<1>1. QueueTypeOK
  BY DEF QueueInit, QueueTypeOK, NotFetching, NoDialog, NoDrafts, NoMutation, PayoutStatuses, Listed
<1>2. TextFitsPayout /\ DialogsAgree
  BY DEF QueueInit, TextFitsPayout, DialogsAgree, NoMutation
<1>3. DraftsAgree /\ ShownRowsAgree
  BY DEF QueueInit, DraftsAgree, ShownRowsAgree, NoDrafts, NotFetching
<1>4. QED
  BY <1>1, <1>2, <1>3 DEF QueueInv

\* (payouts/page.tsx) However dialogs, answers, tabs and lists follow each other: a text is
\* written to the payout it was typed for, unless the cancel button was used, and a row that
\* was decided leaves its list.
THEOREM QueueIsAlwaysTrue == QueueSpec => []QueueIsTrue
<1>1. QueueInit => QueueInv
  BY QueueStarts
<1>2. QueueInv /\ [QueueNext]_queueVars => QueueInv'
  <2> SUFFICES ASSUME QueueInv, [QueueNext]_queueVars PROVE QueueInv'
    OBVIOUS
  <2>1. CASE FetchRows \/ ShowRows
    BY <2>1, RowsKeep
  <2>2. ASSUME NEW s \in Listed, ChangeTab(s) PROVE QueueInv'
    BY <2>2, ChangeTabKeeps
  <2>3. CASE Type \/ Dismiss \/ Cancel \/ \E k \in Kinds, p \in Queued : OpenDialog(k, p)
    BY <2>3, DialogKeeps
  <2>4. CASE Submit
    BY <2>4, SubmitKeeps
  <2>5. CASE Decide
    BY <2>5, DecideKeeps
  <2>6. CASE Decided \/ NotDecided
    BY <2>6, ToldKeeps
  <2>7. ASSUME NEW p \in Queued, NEW s \in PayoutStatuses, DecideElsewhere(p, s) PROVE QueueInv'
    BY <2>7, ElsewhereKeeps
  <2>8. CASE UNCHANGED queueVars
    BY <2>8 DEF queueVars, QueueInv, QueueTypeOK, TextFitsPayout, DialogsAgree, DraftsAgree,
       ShownRowsAgree, JustDecided
  <2>9. QED
    BY <2>1, <2>2, <2>3, <2>4, <2>5, <2>6, <2>7, <2>8 DEF QueueNext
<1>3. QueueInv => QueueIsTrue
  <2> SUFFICES ASSUME QueueInv PROVE QueueIsTrue
    OBVIOUS
  <2>1. mutation = NoMutation => \A p : ~JustDecided(p)
    BY DEF JustDecided, NoMutation
  <2>2. QED
    BY <2>1 DEF QueueInv, QueueIsTrue, DecidedRowsLeave, ShownRowsAgree
<1>4. QED
  BY <1>1, <1>2, <1>3, PTL DEF QueueSpec


-----------------------------------------------------------------------------
(***************************************************************************)
(* PersianUtils, for every national id, IBAN and phone number. A remainder *)
(* is a function of the number of digits read: two numbers that begin      *)
(* alike have the same one so far, and two that have different ones keep   *)
(* different ones while they go on alike, since 97 is a prime. The digits  *)
(* of an IBAN are rearranged before they are read, so its second and third *)
(* digit are the last and the first one read.                              *)
(***************************************************************************)
LEMMA Remainder97 == ASSUME NEW x \in Int PROVE x % 97 \in 0 .. 96
OBVIOUS

\* What Modulo97 computes, digit by digit.
Remainders(s, g) ==
  g = [n \in 0 .. Len(s) |-> IF n = 0 THEN 0 ELSE (g[n - 1] * 10 + s[n]) % 97]
RemaindersOf(s) == CHOOSE g : Remainders(s, g)

LEMMA Modulo97Is ==
  ASSUME NEW s \in Seq(Digit)
  PROVE  LET r == RemaindersOf(s)
         IN /\ Modulo97(s) = r[Len(s)] /\ r[0] = 0
            /\ \A n \in 0 .. Len(s) : r[n] \in 0 .. 96
            /\ \A n \in 1 .. Len(s) : r[n] = (r[n - 1] * 10 + s[n]) % 97
<1> DEFINE N == Len(s)
           move(n) == [r \in 0 .. 96 |-> (r * 10 + s[n]) % 97]
           step == [n \in 1 .. N |-> move(n)]
<1>1. N \in Nat /\ \A n \in 1 .. N : s[n] \in Digit /\ s[n] \in Int
  BY DEF Digit
<1>2. step \in [1 .. N -> [0 .. 96 -> 0 .. 96]]
  <2>1. ASSUME NEW n \in 1 .. N PROVE move(n) \in [0 .. 96 -> 0 .. 96]
    <3>1. ASSUME NEW r \in 0 .. 96 PROVE (r * 10 + s[n]) % 97 \in 0 .. 96
      <4>1. r * 10 + s[n] \in Int
        BY <1>1
      <4>2. QED
        BY <4>1, Remainder97
    <3>2. QED
      BY <3>1
  <2> HIDE DEF move, N
  <2>2. QED
    BY <2>1
<1>3. PICK g \in [0 .. N -> 0 .. 96] : g[0] = 0 /\ \A n \in 1 .. N : g[n] = step[n][g[n - 1]]
  <2>1. 0 \in 0 .. 96
    OBVIOUS
  <2> HIDE DEF step, move, N
  <2>2. \E g \in [0 .. N -> 0 .. 96] : Recurs(g, 0, N, step)
    BY <1>1, <1>2, <2>1, RecursionExists, Zenon
  <2>3. QED
    BY <2>2 DEF Recurs
<1>4. Remainders(s, g)
  <2>1. \A n \in 0 .. N : g[n] = IF n = 0 THEN 0 ELSE (g[n - 1] * 10 + s[n]) % 97
    <3>1. ASSUME NEW n \in 1 .. N PROVE g[n] = (g[n - 1] * 10 + s[n]) % 97
      <4>1. g[n - 1] \in 0 .. 96
        <5>1. n - 1 \in 0 .. N
          BY <1>1
        <5> HIDE DEF N
        <5>2. QED
          BY <1>3, <5>1
      <4>2. g[n] = move(n)[g[n - 1]]
        BY <1>3
      <4>3. QED
        BY <4>1, <4>2
    <3> HIDE DEF N
    <3>2. QED
      BY <1>1, <1>3, <3>1
  <2>2. g = [n \in 0 .. N |-> g[n]]
    BY <1>3
  <2>3. QED
    BY <2>1, <2>2 DEF Remainders
<1>5. Remainders(s, RemaindersOf(s))
  BY <1>4 DEF RemaindersOf
<1>6. Modulo97(s) = RemaindersOf(s)[N]
  BY DEF Modulo97, RemaindersOf, Remainders
<1> DEFINE r == RemaindersOf(s)
<1>7. \A n \in 0 .. N : r[n] = IF n = 0 THEN 0 ELSE (r[n - 1] * 10 + s[n]) % 97
  BY <1>5 DEF Remainders
<1> HIDE DEF r, N
<1>8. \A n \in 1 .. N : n \in 0 .. N /\ r[n] = (r[n - 1] * 10 + s[n]) % 97
  BY <1>1, <1>7
<1>9. r[0] = 0
  BY <1>1, <1>7
<1>10. \A n \in 0 .. N : r[n] \in 0 .. 96
  <2> DEFINE B == {n \in 0 .. N : r[n] \notin 0 .. 96}
  <2>1. ASSUME B # {} PROVE FALSE
    <3>1. PICK n \in B : n \in 0 .. N /\ (n # 0 => n \in 1 .. N /\ n - 1 \in (0 .. N) \ B)
      <4>1. B \in SUBSET (0 .. N)
        OBVIOUS
      <4> HIDE DEF B
      <4>2. QED
        BY <1>1, <2>1, <4>1, LeastIn
    <3>2. n # 0
      <4>1. 0 \in 0 .. 96
        OBVIOUS
      <4>2. QED
        BY <1>9, <3>1, <4>1, Zenon
    <3>3. r[n - 1] \in 0 .. 96 /\ s[n] \in Int
      BY <1>1, <3>1, <3>2, Zenon
    <3>4. r[n - 1] * 10 + s[n] \in Int
      <4>1. \A x \in 0 .. 96 : x \in Int
        OBVIOUS
      <4>2. PICK a, b : a = r[n - 1] /\ b = s[n]
        OBVIOUS
      <4>3. a \in Int /\ b \in Int
        BY <3>3, <4>1, <4>2, Zenon
      <4>4. a * 10 + b \in Int
        BY <4>3
      <4>5. QED
        BY <4>2, <4>4, Zenon
    <3>5. r[n] \in 0 .. 96
      BY <1>8, <3>1, <3>2, <3>4, Remainder97, Zenon
    <3>6. QED
      BY <3>1, <3>5, Zenon
  <2>2. QED
    BY <2>1
<1>11. QED
  BY <1>6, <1>8, <1>9, <1>10 DEF r, N

LEMMA SmallRemainder == ASSUME NEW x \in 0 .. 96 PROVE x % 97 = x
OBVIOUS

LEMMA Quotient97 == ASSUME NEW x \in Int PROVE \E q \in Int : x % 97 = x - 97 * q
<1>1. x \div 97 \in Int /\ x % 97 = x - 97 * (x \div 97)
  OBVIOUS
<1>2. QED
  BY <1>1

LEMMA Injects97 ==
  ASSUME NEW x \in 0 .. 96, NEW y \in 0 .. 96, NEW d \in Digit, x # y
  PROVE  (x * 10 + d) % 97 # (y * 10 + d) % 97
BY DEF Digit

\* Two numbers that begin alike have the same remainder so far.
LEMMA PrefixAgrees ==
  ASSUME NEW s \in Seq(Digit), NEW t \in Seq(Digit), NEW m \in Nat, m <= Len(s), m <= Len(t),
         \A i \in 1 .. m : s[i] = t[i]
  PROVE  RemaindersOf(s)[m] = RemaindersOf(t)[m]
<1> DEFINE r == RemaindersOf(s)
           u == RemaindersOf(t)
           B == {n \in 0 .. m : r[n] # u[n]}
<1>1. r[0] = 0 /\ u[0] = 0 /\ Len(s) \in Nat /\ Len(t) \in Nat
  BY Modulo97Is
<1>2. ASSUME NEW n \in 1 .. m PROVE r[n] = (r[n - 1] * 10 + s[n]) % 97
                                    /\ u[n] = (u[n - 1] * 10 + t[n]) % 97
  <2>1. n \in 1 .. Len(s) /\ n \in 1 .. Len(t)
    BY <1>1
  <2>2. QED
    BY <2>1, Modulo97Is
<1> HIDE DEF r, u
<1>3. ASSUME B # {} PROVE FALSE
  <2>1. PICK n \in B : n \in 0 .. m /\ (n # 0 => n \in 1 .. m /\ n - 1 \in (0 .. m) \ B)
    <3>1. B \in SUBSET (0 .. m)
      OBVIOUS
    <3> HIDE DEF B
    <3>2. QED
      BY <1>3, <3>1, LeastIn
  <2>2. n # 0
    BY <1>1, <2>1, Zenon
  <2>3. n \in 1 .. m /\ r[n - 1] = u[n - 1] /\ s[n] = t[n]
    BY <2>1, <2>2, Zenon
  <2>4. r[n] = u[n]
    BY <1>2, <2>3, Zenon
  <2>5. QED
    BY <2>1, <2>4, Zenon
<1>4. m \in 0 .. m
  OBVIOUS
<1>5. r[m] = u[m]
  BY <1>3, <1>4, Zenon
<1>6. QED
  BY <1>5 DEF r, u

\* Two numbers that end alike have different remainders if they had before.
LEMMA SuffixTells ==
  ASSUME NEW s \in Seq(Digit), NEW t \in Seq(Digit), Len(s) = Len(t), NEW m \in 0 .. Len(s),
         \A i \in m + 1 .. Len(s) : s[i] = t[i], RemaindersOf(s)[m] # RemaindersOf(t)[m]
  PROVE  Modulo97(s) # Modulo97(t)
<1> DEFINE r == RemaindersOf(s)
           u == RemaindersOf(t)
           N == Len(s)
           B == {n \in 0 .. N : n >= m /\ r[n] = u[n]}
<1>1. /\ N \in Nat /\ Modulo97(s) = r[N] /\ Modulo97(t) = u[N]
      /\ \A n \in 0 .. N : r[n] \in 0 .. 96 /\ u[n] \in 0 .. 96
      /\ \A n \in 1 .. N : /\ r[n] = (r[n - 1] * 10 + s[n]) % 97
                           /\ u[n] = (u[n - 1] * 10 + t[n]) % 97 /\ s[n] \in Digit
  BY Modulo97Is
<1>2. r[m] # u[m] /\ m \in 0 .. N /\ \A i \in m + 1 .. N : s[i] = t[i]
  OBVIOUS
<1> HIDE DEF r, u, N
<1>3. ASSUME B # {} PROVE FALSE
  <2>1. PICK n \in B : n \in 0 .. N /\ (n # 0 => n \in 1 .. N /\ n - 1 \in (0 .. N) \ B)
    <3>1. B \in SUBSET (0 .. N)
      OBVIOUS
    <3> HIDE DEF B
    <3>2. QED
      BY <1>1, <1>3, <3>1, LeastIn
  <2>2. n # m /\ n >= m /\ r[n] = u[n]
    BY <1>2, <2>1, Zenon
  <2>3. n > m /\ n # 0 /\ n - 1 >= m /\ n \in m + 1 .. N
    <3> HIDE DEF B
    <3>1. QED
      BY <1>1, <1>2, <2>1, <2>2
  <2>4. n \in 1 .. N /\ n - 1 \in 0 .. N /\ r[n - 1] # u[n - 1] /\ s[n] = t[n]
    BY <1>2, <2>1, <2>3, Zenon
  <2>5. r[n - 1] \in 0 .. 96 /\ u[n - 1] \in 0 .. 96 /\ s[n] \in Digit
    BY <1>1, <2>4, Zenon
  <2>6. (r[n - 1] * 10 + s[n]) % 97 # (u[n - 1] * 10 + s[n]) % 97
    BY <2>4, <2>5, Injects97, Zenon
  <2>7. QED
    BY <1>1, <2>2, <2>4, <2>6, ZenonT(30)
<1>4. N \in 0 .. N /\ N >= m
  BY <1>1, <1>2
<1>5. r[N] # u[N]
  BY <1>3, <1>4, Zenon
<1>6. QED
  BY <1>1, <1>5

\* One wrong digit changes the remainder.
LEMMA WrongDigitTells ==
  ASSUME NEW s \in Seq(Digit), NEW t \in Seq(Digit), Len(s) = Len(t), NEW p \in 1 .. Len(s),
         s[p] # t[p], \A i \in 1 .. Len(s) : i # p => s[i] = t[i]
  PROVE  Modulo97(s) # Modulo97(t)
<1> DEFINE r == RemaindersOf(s)
           u == RemaindersOf(t)
<1>1. Len(s) \in Nat /\ p \in Nat /\ p - 1 \in Nat /\ p - 1 \in 0 .. Len(s) /\ p \in 0 .. Len(s)
      /\ p - 1 <= Len(s) /\ p - 1 <= Len(t)
  OBVIOUS
<1>2. r[p - 1] = u[p - 1]
  <2>1. \A i \in 1 .. p - 1 : s[i] = t[i]
    BY <1>1
  <2>2. QED
    BY <1>1, <2>1, PrefixAgrees
<1>3. r[p] = (r[p - 1] * 10 + s[p]) % 97 /\ u[p] = (u[p - 1] * 10 + t[p]) % 97
      /\ r[p - 1] \in 0 .. 96
  BY <1>1, Modulo97Is
<1>4. s[p] \in Digit /\ t[p] \in Digit
  OBVIOUS
<1> HIDE DEF r, u
<1>5. r[p] # u[p]
  <2>1. PICK x, a, b : x = r[p - 1] /\ a = s[p] /\ b = t[p]
    OBVIOUS
  <2>2. x \in 0 .. 96 /\ a \in 0 .. 9 /\ b \in 0 .. 9 /\ a # b
    BY <1>3, <1>4, <2>1 DEF Digit
  <2>3. (x * 10 + a) % 97 # (x * 10 + b) % 97
    BY <2>2
  <2>4. QED
    BY <1>2, <1>3, <2>1, <2>3, Zenon
<1>6. \A i \in p + 1 .. Len(s) : s[i] = t[i]
  BY <1>1
<1>7. QED
  BY <1>1, <1>5, <1>6, SuffixTells DEF r, u

\* So do two neighbours in the wrong order.
LEMMA SwapTells ==
  ASSUME NEW s \in Seq(Digit), NEW t \in Seq(Digit), Len(s) = Len(t), NEW p \in 1 .. Len(s) - 1,
         s[p] # s[p + 1], t[p] = s[p + 1], t[p + 1] = s[p],
         \A i \in 1 .. Len(s) : i \notin {p, p + 1} => s[i] = t[i]
  PROVE  Modulo97(s) # Modulo97(t)
<1> DEFINE r == RemaindersOf(s)
           u == RemaindersOf(t)
<1>1. /\ Len(s) \in Nat /\ p \in Nat /\ p - 1 \in Nat /\ p - 1 <= Len(s) /\ p - 1 <= Len(t)
      /\ p - 1 \in 0 .. Len(s) /\ p \in 1 .. Len(s) /\ p + 1 \in 1 .. Len(s)
      /\ p + 1 \in 0 .. Len(s) /\ (p + 1) - 1 = p
  OBVIOUS
<1>2. r[p - 1] = u[p - 1]
  <2>1. \A i \in 1 .. p - 1 : s[i] = t[i]
    BY <1>1
  <2>2. QED
    BY <1>1, <2>1, PrefixAgrees
<1>3. /\ r[p] = (r[p - 1] * 10 + s[p]) % 97 /\ u[p] = (u[p - 1] * 10 + t[p]) % 97
      /\ r[p + 1] = (r[p] * 10 + s[p + 1]) % 97 /\ u[p + 1] = (u[p] * 10 + t[p + 1]) % 97
      /\ r[p - 1] \in 0 .. 96
  <2>1. \A n \in 1 .. Len(s) : /\ r[n] = (r[n - 1] * 10 + s[n]) % 97
                               /\ u[n] = (u[n - 1] * 10 + t[n]) % 97
    BY Modulo97Is
  <2>2. \A n \in 0 .. Len(s) : r[n] \in 0 .. 96
    BY Modulo97Is
  <2> HIDE DEF r, u
  <2>3. QED
    BY <1>1, <2>1, <2>2
<1>4. s[p] \in Digit /\ s[p + 1] \in Digit
  BY <1>1
<1> HIDE DEF r, u
<1>5. r[p + 1] # u[p + 1]
  <2>1. PICK x, a, b : x = r[p - 1] /\ a = s[p] /\ b = s[p + 1]
    OBVIOUS
  <2>2. x \in 0 .. 96 /\ a \in 0 .. 9 /\ b \in 0 .. 9 /\ a # b
    BY <1>3, <1>4, <2>1 DEF Digit
  <2>3. (((x * 10 + a) % 97) * 10 + b) % 97 # (((x * 10 + b) % 97) * 10 + a) % 97
    BY <2>2
  <2>4. t[p] = b /\ t[p + 1] = a
    BY <2>1
  <2>5. r[p + 1] = (((x * 10 + a) % 97) * 10 + b) % 97
    BY <1>3, <2>1, Zenon
  <2>6. u[p + 1] = (((x * 10 + b) % 97) * 10 + a) % 97
    BY <1>2, <1>3, <2>1, <2>4, Zenon
  <2>7. QED
    BY <2>3, <2>5, <2>6, Zenon
<1>6. \A i \in (p + 1) + 1 .. Len(s) : s[i] = t[i]
  BY <1>1
<1>7. QED
  BY <1>1, <1>5, <1>6, SuffixTells DEF r, u

\* Twice ten to the power of three is ten to the power of nine: what 26 further digits make of a
\* difference is 31 times it, but for multiples of 97.
LEMMA AfterManyDigits ==
  ASSUME NEW d \in [1 .. 27 -> Int],
         \A n \in 1 .. 26 : \E q \in Int : d[n + 1] = 10 * d[n] + 97 * q
  PROVE  \E q \in Int : d[27] = 31 * d[1] + 97 * q
<1>1. ASSUME NEW n \in 1 .. 24 PROVE \E q \in Int : d[n + 3] = 30 * d[n] + 97 * q
  <2>1. /\ d[n] \in Int /\ n \in 1 .. 26 /\ n + 1 \in 1 .. 26 /\ n + 2 \in 1 .. 26
        /\ (n + 1) + 1 = n + 2 /\ (n + 2) + 1 = n + 3
    OBVIOUS
  <2>2. PICK a \in Int : d[n + 1] = 10 * d[n] + 97 * a
    BY <2>1
  <2>3. PICK b \in Int : d[n + 2] = 10 * d[n + 1] + 97 * b
    BY <2>1
  <2>4. PICK c \in Int : d[n + 3] = 10 * d[n + 2] + 97 * c
    BY <2>1
  <2>5. 10 * d[n] + 100 * a + 10 * b + c \in Int
        /\ d[n + 3] = 30 * d[n] + 97 * (10 * d[n] + 100 * a + 10 * b + c)
    BY <2>1, <2>2, <2>3, <2>4
  <2>6. QED
    BY <2>5
<1>2. ASSUME NEW n \in 1 .. 18 PROVE \E q \in Int : d[n + 9] = 34 * d[n] + 97 * q
  <2>1. /\ d[n] \in Int /\ n \in 1 .. 24 /\ n + 3 \in 1 .. 24 /\ n + 6 \in 1 .. 24
        /\ (n + 3) + 3 = n + 6 /\ (n + 6) + 3 = n + 9
    OBVIOUS
  <2>2. PICK a \in Int : d[n + 3] = 30 * d[n] + 97 * a
    BY <1>1, <2>1
  <2>3. PICK b \in Int : d[n + 6] = 30 * d[n + 3] + 97 * b
    BY <1>1, <2>1
  <2>4. PICK c \in Int : d[n + 9] = 30 * d[n + 6] + 97 * c
    BY <1>1, <2>1
  <2>5. 278 * d[n] + 900 * a + 30 * b + c \in Int
        /\ d[n + 9] = 34 * d[n] + 97 * (278 * d[n] + 900 * a + 30 * b + c)
    BY <2>1, <2>2, <2>3, <2>4
  <2>6. QED
    BY <2>5
<1>3. PICK a \in Int : d[10] = 34 * d[1] + 97 * a
  <2>1. 1 \in 1 .. 18 /\ 1 + 9 = 10
    OBVIOUS
  <2>2. QED
    BY <1>2, <2>1
<1>4. PICK b \in Int : d[19] = 34 * d[10] + 97 * b
  <2>1. 10 \in 1 .. 18 /\ 10 + 9 = 19
    OBVIOUS
  <2>2. QED
    BY <1>2, <2>1
<1>5. PICK c \in Int : d[22] = 30 * d[19] + 97 * c
  <2>1. 19 \in 1 .. 24 /\ 19 + 3 = 22
    OBVIOUS
  <2>2. QED
    BY <1>1, <2>1
<1>6. PICK e \in Int : d[25] = 30 * d[22] + 97 * e
  <2>1. 22 \in 1 .. 24 /\ 22 + 3 = 25
    OBVIOUS
  <2>2. QED
    BY <1>1, <2>1
<1>7. PICK f \in Int : d[26] = 10 * d[25] + 97 * f
  <2>1. 25 \in 1 .. 26 /\ 25 + 1 = 26
    OBVIOUS
  <2>2. QED
    BY <2>1
<1>8. PICK g \in Int : d[27] = 10 * d[26] + 97 * g
  <2>1. 26 \in 1 .. 26 /\ 26 + 1 = 27
    OBVIOUS
  <2>2. QED
    BY <2>1
\* 34 * 34 * 30 * 30 * 10 * 10 = 31 + 97 * 1072577
<1>9. d[1] \in Int
  OBVIOUS
<1>10. /\ 1072577 * d[1] + 3060000 * a + 90000 * b + 3000 * c + 100 * e + 10 * f + g \in Int
       /\ d[27] = 31 * d[1]
            + 97 * (1072577 * d[1] + 3060000 * a + 90000 * b + 3000 * c + 100 * e + 10 * f + g)
  BY <1>3, <1>4, <1>5, <1>6, <1>7, <1>8, <1>9
<1>11. QED
  BY <1>10

\* The first and the last of 28 digits in each other's place.
LEMMA EndsTell ==
  ASSUME NEW s \in Seq(Digit), NEW t \in Seq(Digit), Len(s) = 28, Len(t) = 28, s[1] # s[28],
         t[1] = s[28], t[28] = s[1], \A i \in 2 .. 27 : s[i] = t[i]
  PROVE  Modulo97(s) # Modulo97(t)
<1> DEFINE r == RemaindersOf(s)
           u == RemaindersOf(t)
           d == [n \in 1 .. 27 |-> r[n] - u[n]]
<1>1. /\ r[0] = 0 /\ u[0] = 0 /\ Modulo97(s) = r[28] /\ Modulo97(t) = u[28]
      /\ \A n \in 0 .. 28 : r[n] \in 0 .. 96 /\ u[n] \in 0 .. 96
      /\ \A n \in 1 .. 28 : /\ r[n] = (r[n - 1] * 10 + s[n]) % 97
                            /\ u[n] = (u[n - 1] * 10 + t[n]) % 97
  BY ZenonT(30), Modulo97Is
<1>2. \A n \in 1 .. 28 : s[n] \in 0 .. 9 /\ t[n] \in 0 .. 9
  <2>1. (\A n \in 1 .. Len(s) : s[n] \in Digit) /\ (\A n \in 1 .. Len(t) : t[n] \in Digit)
    BY ElementOfSeq
  <2>2. QED
    BY <2>1, Zenon DEF Digit
<1> HIDE DEF r, u
<1>3. ASSUME NEW n \in 1 .. 26 PROVE \E q \in Int : d[n + 1] = 10 * d[n] + 97 * q
  <2>1. n + 1 \in 1 .. 28 /\ (n + 1) - 1 = n /\ n \in 0 .. 28 /\ n + 1 \in 2 .. 27
    BY SMTT(30)
  <2>2. PICK x, y, e : x = r[n] /\ y = u[n] /\ e = s[n + 1]
    OBVIOUS
  <2>3. x \in 0 .. 96 /\ y \in 0 .. 96 /\ e \in 0 .. 9 /\ t[n + 1] = e
    BY <1>1, <1>2, <2>1, <2>2
  <2>4. r[n + 1] = (x * 10 + e) % 97 /\ u[n + 1] = (y * 10 + e) % 97
    BY ZenonT(30), <1>1, <2>1, <2>2, <2>3
  <2>5. d[n] = x - y /\ d[n + 1] = r[n + 1] - u[n + 1]
    <3>1. n \in 1 .. 27 /\ n + 1 \in 1 .. 27
      BY SMTT(30)
    <3>2. QED
      BY <2>2, <3>1
  <2>6. PICK a \in Int : (x * 10 + e) % 97 = (x * 10 + e) - 97 * a
    <3>1. x * 10 + e \in Int
      BY <2>3
    <3>2. QED
      BY <3>1, Quotient97
  <2>7. PICK b \in Int : (y * 10 + e) % 97 = (y * 10 + e) - 97 * b
    <3>1. y * 10 + e \in Int
      BY <2>3
    <3>2. QED
      BY <3>1, Quotient97
  <2>8. /\ b - a \in Int
        /\ ((x * 10 + e) - 97 * a) - ((y * 10 + e) - 97 * b) = 10 * (x - y) + 97 * (b - a)
    BY <2>3
  <2>9. d[n + 1] = 10 * d[n] + 97 * (b - a)
    BY <2>4, <2>5, <2>6, <2>7, <2>8, ZenonT(30)
  <2>10. QED
    BY <2>8, <2>9, Zenon
<1>4. d \in [1 .. 27 -> Int]
  <2>1. ASSUME NEW n \in 1 .. 27 PROVE r[n] - u[n] \in Int
    <3>1. n \in 0 .. 28
      OBVIOUS
    <3>2. r[n] \in 0 .. 96 /\ u[n] \in 0 .. 96
      BY <1>1, <3>1
    <3>3. \A x, y \in 0 .. 96 : x - y \in Int
      OBVIOUS
    <3>4. QED
      BY <3>2, <3>3, Zenon
  <2>2. QED
    BY <2>1
<1>5. d[1] = s[1] - s[28] /\ d[27] = r[27] - u[27]
  <2>1. 1 \in 1 .. 28 /\ 1 - 1 = 0 /\ 28 \in 1 .. 28 /\ 1 \in 1 .. 27 /\ 27 \in 1 .. 27
    OBVIOUS
  <2>2. PICK a, b : a = s[1] /\ b = s[28]
    OBVIOUS
  <2>3. a \in 0 .. 9 /\ b \in 0 .. 9
    BY <1>2, <2>1, <2>2
  <2>4. r[1] = (0 * 10 + a) % 97 /\ u[1] = (0 * 10 + b) % 97
    <3>1. r[1] = (r[1 - 1] * 10 + s[1]) % 97 /\ u[1] = (u[1 - 1] * 10 + t[1]) % 97
      BY <1>1, <2>1, Zenon
    <3>2. QED
      BY <1>1, <2>1, <2>2, <3>1, ZenonT(30)
  <2>5. r[1] = a /\ u[1] = b
    <3>1. ASSUME NEW x \in 0 .. 9 PROVE (0 * 10 + x) % 97 = x
      <4>1. 0 * 10 + x = x /\ x \in 0 .. 96
        OBVIOUS
      <4>2. QED
        BY <4>1, SmallRemainder
    <3>2. QED
      BY <2>3, <2>4, <3>1, Zenon
  <2>6. QED
    BY <2>1, <2>2, <2>5
<1> HIDE DEF d
<1>6. PICK q \in Int : d[27] = 31 * d[1] + 97 * q
  BY <1>3, <1>4, AfterManyDigits
<1>7. r[28] # u[28]
  <2>1. 28 \in 1 .. 28 /\ 1 \in 1 .. 28 /\ 28 - 1 = 27 /\ 27 \in 0 .. 28
    OBVIOUS
  <2>2. PICK x, y, a, b : x = r[27] /\ y = u[27] /\ a = s[1] /\ b = s[28]
    OBVIOUS
  <2>3. x \in 0 .. 96 /\ y \in 0 .. 96 /\ a \in 0 .. 9 /\ b \in 0 .. 9 /\ a # b
    BY <1>1, <1>2, <2>1, <2>2
  <2>4. r[28] = (x * 10 + b) % 97 /\ u[28] = (y * 10 + a) % 97
    BY <1>1, <2>1, <2>2
  <2>5. x - y = 31 * (a - b) + 97 * q
    BY <1>5, <1>6, <2>2
  <2>6. x * 10 + b \in Int /\ y * 10 + a \in Int
    BY <2>3
  <2>7. PICK c \in Int : (x * 10 + b) % 97 = (x * 10 + b) - 97 * c
    BY <2>6, Quotient97
  <2>8. PICK e \in Int : (y * 10 + a) % 97 = (y * 10 + a) - 97 * e
    BY <2>6, Quotient97
  <2>9. (x * 10 + b) - 97 * c # (y * 10 + a) - 97 * e
    <3>1. ((x * 10 + b) - 97 * c) - ((y * 10 + a) - 97 * e)
            = 18 * (a - b) + 97 * (3 * (a - b) + 10 * q - c + e)
      BY <2>3, <2>5
    <3>2. PICK w, z : w = a - b /\ z = 3 * (a - b) + 10 * q - c + e
      OBVIOUS
    <3>3. w \in -9 .. 9 /\ w # 0 /\ z \in Int
      BY SMTT(30), <2>3, <3>2
    <3>4. 18 * w + 97 * z # 0
      <4>1. SUFFICES ASSUME 18 * w + 97 * z = 0 PROVE FALSE
        OBVIOUS
      <4>2. w <= 9 /\ w >= 0 - 9 /\ w \in Int /\ z \in Int
        BY SMTT(30), <3>3
      <4>3. z \in {0 - 1, 0, 1}
        <5>1. z <= 1 /\ z >= 0 - 1
          BY SMTT(30), <4>1, <4>2
        <5>2. QED
          BY SMTT(30), <4>2, <5>1
      <4>4. QED
        BY SMTT(30), <3>3, <4>1, <4>2, <4>3
    <3>5. QED
      BY SMTT(30), <2>3, <3>1, <3>2, <3>4
  <2>10. QED
    BY <2>4, <2>7, <2>8, <2>9, Zenon
<1>8. QED
  BY <1>1, <1>7

\* The digits of an IBAN in the order in which their remainder is taken.
Rearranged(f) == SubSeq(f, 3, 24) \o CountryCode \o SubSeq(f, 1, 2)

LEMMA FunctionsAreSequences ==
  ASSUME NEW S, NEW n \in Nat, NEW f \in [1 .. n -> S]
  PROVE  f \in Seq(S) /\ Len(f) = n
BY SeqDef, LenProperties

LEMMA RearrangedIs ==
  ASSUME NEW f \in [1 .. 24 -> Digit]
  PROVE  /\ Rearranged(f) \in Seq(Digit) /\ Len(Rearranged(f)) = 28
         /\ \A i \in 1 .. 22 : Rearranged(f)[i] = f[i + 2]
         /\ \A i \in 23 .. 26 : Rearranged(f)[i] = CountryCode[i - 22]
         /\ Rearranged(f)[27] = f[1] /\ Rearranged(f)[28] = f[2]
<1> DEFINE a == SubSeq(f, 3, 24)
           b == SubSeq(f, 1, 2)
<1>1. f \in Seq(Digit) /\ Len(f) = 24
  BY FunctionsAreSequences
<1>2. a \in Seq(Digit) /\ Len(a) = 22 /\ \A i \in 1 .. 22 : a[i] = f[i + 2]
  BY <1>1
<1>3. b \in Seq(Digit) /\ Len(b) = 2 /\ b[1] = f[1] /\ b[2] = f[2]
  BY <1>1
<1>4. CountryCode \in Seq(Digit) /\ Len(CountryCode) = 4
  BY DEF CountryCode, Digit
<1> HIDE DEF a, b
<1> DEFINE c == a \o CountryCode
<1>5. /\ c \in Seq(Digit) /\ Len(c) = 26 /\ \A i \in 1 .. 22 : c[i] = a[i]
      /\ \A i \in 23 .. 26 : c[i] = CountryCode[i - 22]
  <2>1. a \in Seq(Digit) /\ CountryCode \in Seq(Digit)
    BY <1>2, <1>4
  <2>2. /\ c \in Seq(Digit) /\ Len(c) = Len(a) + Len(CountryCode)
        /\ \A i \in 1 .. Len(a) + Len(CountryCode) :
             c[i] = IF i <= Len(a) THEN a[i] ELSE CountryCode[i - Len(a)]
    BY <2>1, ConcatProperties, Zenon
  <2> HIDE DEF c
  <2>3. QED
    BY <1>2, <1>4, <2>2
<1> HIDE DEF c
<1> DEFINE e == c \o b
<1>6. /\ e \in Seq(Digit) /\ Len(e) = 28 /\ \A i \in 1 .. 26 : e[i] = c[i]
      /\ e[27] = b[1] /\ e[28] = b[2]
  <2>1. c \in Seq(Digit) /\ b \in Seq(Digit)
    BY <1>3, <1>5
  <2>2. /\ e \in Seq(Digit) /\ Len(e) = Len(c) + Len(b)
        /\ \A i \in 1 .. Len(c) + Len(b) : e[i] = IF i <= Len(c) THEN c[i] ELSE b[i - Len(c)]
    BY <2>1, ConcatProperties, Zenon
  <2>3. 27 \in 1 .. 28 /\ 28 \in 1 .. 28 /\ 27 - 26 = 1 /\ 28 - 26 = 2
    OBVIOUS
  <2> HIDE DEF e
  <2>4. QED
    BY <1>3, <1>5, <2>2, <2>3
<1> HIDE DEF e
<1>7. Rearranged(f) = e
  BY DEF Rearranged, a, b, c, e
<1>8. /\ \A i \in 1 .. 22 : e[i] = f[i + 2]
      /\ \A i \in 23 .. 26 : e[i] = CountryCode[i - 22]
  <2>1. (\A i \in 1 .. 22 : i \in 1 .. 26) /\ (\A i \in 23 .. 26 : i \in 1 .. 26)
    OBVIOUS
  <2>2. QED
    BY <1>2, <1>5, <1>6, <2>1, Zenon
<1>9. QED
  BY <1>3, <1>6, <1>7, <1>8

LEMMA WrongIbanDigit ==
  ASSUME NEW f \in [1 .. 24 -> Digit], NEW i \in 1 .. 24, NEW d \in Digit, d # f[i]
  PROVE  Modulo97(Rearranged(f)) # Modulo97(Rearranged(WithDigit(f, i, d)))
<1> DEFINE g == WithDigit(f, i, d)
           s == Rearranged(f)
           t == Rearranged(g)
           p == IF i > 2 THEN i - 2 ELSE i + 26
<1>1. g \in [1 .. 24 -> Digit] /\ g[i] = d /\ \A j \in 1 .. 24 : j # i => g[j] = f[j]
  BY DEF WithDigit
<1> HIDE DEF g
<1>2. /\ s \in Seq(Digit) /\ Len(s) = 28 /\ t \in Seq(Digit) /\ Len(t) = 28
      /\ \A j \in 1 .. 22 : s[j] = f[j + 2] /\ t[j] = g[j + 2]
      /\ \A j \in 23 .. 26 : s[j] = CountryCode[j - 22] /\ t[j] = CountryCode[j - 22]
      /\ s[27] = f[1] /\ s[28] = f[2] /\ t[27] = g[1] /\ t[28] = g[2]
  BY <1>1, RearrangedIs
<1> HIDE DEF s, t
<1>3. p \in 1 .. 28 /\ s[p] = f[i] /\ t[p] = g[i]
  BY SMTT(30), <1>2
<1>4. ASSUME NEW j \in 1 .. 28, j # p PROVE s[j] = t[j]
  <2>1. CASE j \in 1 .. 22
    <3>1. j + 2 \in 1 .. 24 /\ j + 2 # i
      BY <1>4, <2>1
    <3>2. QED
      BY <1>1, <1>2, <2>1, <3>1
  <2>2. CASE j \in 23 .. 26
    BY <1>2, <2>2
  <2>3. CASE j = 27
    <3>1. 1 \in 1 .. 24 /\ 1 # i
      BY <1>4, <2>3
    <3>2. QED
      BY <1>1, <1>2, <2>3, <3>1
  <2>4. CASE j = 28
    <3>1. 2 \in 1 .. 24 /\ 2 # i
      BY <1>4, <2>4
    <3>2. QED
      BY <1>1, <1>2, <2>4, <3>1
  <2>5. QED
    BY <2>1, <2>2, <2>3, <2>4
<1>5. s[p] # t[p]
  BY <1>1, <1>3
<1> HIDE DEF p
<1>6. Modulo97(s) # Modulo97(t)
  <2>1. Len(s) = Len(t) /\ p \in 1 .. Len(s) /\ \A j \in 1 .. Len(s) : j # p => s[j] = t[j]
    BY <1>2, <1>3, <1>4
  <2>2. QED
    BY <1>2, <1>5, <2>1, WrongDigitTells
<1>7. QED
  BY <1>6 DEF s, t, g

LEMMA WrongIbanOrder ==
  ASSUME NEW f \in [1 .. 24 -> Digit], NEW i \in 1 .. 23, f[i] # f[i + 1]
  PROVE  Modulo97(Rearranged(f)) # Modulo97(Rearranged(Swapped(f, i)))
<1> DEFINE g == Swapped(f, i)
           s == Rearranged(f)
           t == Rearranged(g)
<1>1. /\ g \in [1 .. 24 -> Digit] /\ g[i] = f[i + 1] /\ g[i + 1] = f[i]
      /\ \A j \in 1 .. 24 : j # i /\ j # i + 1 => g[j] = f[j]
  <2>1. i \in 1 .. 24 /\ i + 1 \in 1 .. 24 /\ i # i + 1
    OBVIOUS
  <2>2. QED
    BY <2>1 DEF Swapped
<1> HIDE DEF g
<1>2. /\ s \in Seq(Digit) /\ Len(s) = 28 /\ t \in Seq(Digit) /\ Len(t) = 28
      /\ \A j \in 1 .. 22 : s[j] = f[j + 2] /\ t[j] = g[j + 2]
      /\ \A j \in 23 .. 26 : s[j] = CountryCode[j - 22] /\ t[j] = CountryCode[j - 22]
      /\ s[27] = f[1] /\ s[28] = f[2] /\ t[27] = g[1] /\ t[28] = g[2]
  BY <1>1, RearrangedIs
<1> HIDE DEF s, t
\* Neighbours stay neighbours, but for the second and the third digit.
<1>3. ASSUME i # 2 PROVE Modulo97(s) # Modulo97(t)
  <2> DEFINE p == IF i > 2 THEN i - 2 ELSE 27
  <2>1. /\ p \in 1 .. 27 /\ s[p] = f[i] /\ s[p + 1] = f[i + 1]
        /\ t[p] = g[i] /\ t[p + 1] = g[i + 1]
    <3>1. CASE i > 2
      <4>1. p = i - 2 /\ p \in 1 .. 22 /\ p + 1 \in 1 .. 22 /\ p + 2 = i /\ (p + 1) + 2 = i + 1
        BY <3>1
      <4>2. PICK q : q = p + 1
        OBVIOUS
      <4>3. q \in 1 .. 22 /\ q = p + 1 /\ p + 2 = i /\ q + 2 = i + 1 /\ p \in 1 .. 27
        BY <4>1, <4>2
      <4>4. p \in 1 .. 22
        BY <4>1
      <4> HIDE DEF p
      <4>5. s[p] = f[p + 2] /\ t[p] = g[p + 2] /\ s[q] = f[q + 2] /\ t[q] = g[q + 2]
        BY <1>2, <4>3, <4>4, Zenon
      <4>6. QED
        BY <4>3, <4>5, Zenon
    <3>2. CASE i = 1
      BY <1>2, <3>2
    <3>3. QED
      BY <1>3, <3>1, <3>2
  <2>2. ASSUME NEW j \in 1 .. 28, j \notin {p, p + 1} PROVE s[j] = t[j]
    <3>1. CASE j \in 1 .. 22
      <4>1. j + 2 \in 1 .. 24 /\ j + 2 # i /\ j + 2 # i + 1
        BY <1>3, <2>2, <3>1
      <4>2. QED
        BY <1>1, <1>2, <3>1, <4>1
    <3>2. CASE j \in 23 .. 26
      BY <1>2, <3>2
    <3>3. CASE j = 27
      <4>1. 1 \in 1 .. 24 /\ 1 # i /\ 1 # i + 1
        BY <2>2, <3>3
      <4>2. QED
        BY <1>1, <1>2, <3>3, <4>1
    <3>4. CASE j = 28
      <4>1. 2 \in 1 .. 24 /\ 2 # i /\ 2 # i + 1
        BY <1>3, <2>2, <3>4
      <4>2. QED
        BY <1>1, <1>2, <3>4, <4>1
    <3>5. QED
      BY <3>1, <3>2, <3>3, <3>4
  <2>3. /\ s[p] # s[p + 1] /\ t[p] = s[p + 1] /\ t[p + 1] = s[p] /\ p \in 1 .. Len(s) - 1
        /\ Len(s) = Len(t)
    BY <1>1, <1>2, <2>1
  <2> HIDE DEF p
  <2>4. QED
    BY ZenonT(30), <1>2, <2>2, <2>3, SwapTells
<1>4. ASSUME i = 2 PROVE Modulo97(s) # Modulo97(t)
  <2>1. s[28] = f[2] /\ t[28] = f[3] /\ s[1] = f[3] /\ t[1] = f[2] /\ f[2] # f[3]
    BY <1>1, <1>2, <1>4
  <2>2. ASSUME NEW j \in 2 .. 27 PROVE s[j] = t[j]
    <3>1. CASE j \in 2 .. 22
      <4>1. j \in 1 .. 22 /\ j + 2 \in 1 .. 24 /\ j + 2 # i /\ j + 2 # i + 1
        BY <1>4, <3>1
      <4>2. QED
        BY <1>1, <1>2, <4>1
    <3>2. CASE j \in 23 .. 26
      BY <1>2, <3>2
    <3>3. CASE j = 27
      <4>1. 1 \in 1 .. 24 /\ 1 # i /\ 1 # i + 1
        BY <1>4
      <4>2. QED
        BY <1>1, <1>2, <3>3, <4>1
    <3>4. QED
      BY <3>1, <3>2, <3>3
  <2>3. QED
    BY <1>2, <2>1, <2>2, EndsTell
<1>5. Modulo97(s) # Modulo97(t)
  BY <1>3, <1>4
<1>6. QED
  BY <1>5 DEF s, t, g


-----------------------------------------------------------------------------
(***************************************************************************)
(* What a remainder is compared with: the number itself, which no integer  *)
(* of the program holds.                                                   *)
(***************************************************************************)
\* The number that digits are.
Value(s) ==
  LET value[n \in 0 .. Len(s)] == IF n = 0 THEN 0 ELSE value[n - 1] * 10 + s[n]
  IN value[Len(s)]
Values(s, g) == g = [n \in 0 .. Len(s) |-> IF n = 0 THEN 0 ELSE g[n - 1] * 10 + s[n]]
ValuesOf(s) == CHOOSE g : Values(s, g)

LEMMA ValueIs ==
  ASSUME NEW s \in Seq(Digit)
  PROVE  LET v == ValuesOf(s)
         IN /\ Value(s) = v[Len(s)] /\ v[0] = 0
            /\ \A n \in 0 .. Len(s) : v[n] \in Nat
            /\ \A n \in 1 .. Len(s) : v[n] = v[n - 1] * 10 + s[n]
<1> DEFINE N == Len(s)
           move(n) == [v \in Nat |-> v * 10 + s[n]]
           step == [n \in 1 .. N |-> move(n)]
<1>1. N \in Nat /\ \A n \in 1 .. N : s[n] \in Digit /\ s[n] \in Nat
  BY DEF Digit
<1>2. step \in [1 .. N -> [Nat -> Nat]]
  <2>1. ASSUME NEW n \in 1 .. N PROVE move(n) \in [Nat -> Nat]
    <3>1. ASSUME NEW v \in Nat PROVE v * 10 + s[n] \in Nat
      <4>1. s[n] \in Nat
        BY <1>1
      <4>2. \A a, b \in Nat : a * 10 + b \in Nat
        OBVIOUS
      <4>3. QED
        BY <4>1, <4>2, Zenon
    <3>2. QED
      BY <3>1
  <2> HIDE DEF move, N
  <2>2. QED
    BY <2>1
<1>3. PICK g \in [0 .. N -> Nat] : g[0] = 0 /\ \A n \in 1 .. N : g[n] = step[n][g[n - 1]]
  <2>1. 0 \in Nat
    OBVIOUS
  <2> HIDE DEF step, move, N
  <2>2. \E g \in [0 .. N -> Nat] : Recurs(g, 0, N, step)
    BY <1>1, <1>2, <2>1, RecursionExists, Zenon
  <2>3. QED
    BY <2>2 DEF Recurs
<1>4. Values(s, g)
  <2>1. \A n \in 0 .. N : g[n] = IF n = 0 THEN 0 ELSE g[n - 1] * 10 + s[n]
    <3>1. ASSUME NEW n \in 1 .. N PROVE g[n] = g[n - 1] * 10 + s[n]
      <4>1. g[n - 1] \in Nat
        <5>1. n - 1 \in 0 .. N
          BY <1>1
        <5> HIDE DEF N
        <5>2. QED
          BY <1>3, <5>1
      <4>2. g[n] = move(n)[g[n - 1]]
        BY <1>3
      <4>3. QED
        BY <4>1, <4>2
    <3> HIDE DEF N
    <3>2. QED
      BY <1>1, <1>3, <3>1
  <2>2. g = [n \in 0 .. N |-> g[n]]
    BY <1>3
  <2>3. QED
    BY <2>1, <2>2 DEF Values
<1>5. Values(s, ValuesOf(s))
  BY <1>4 DEF ValuesOf
<1>6. Value(s) = ValuesOf(s)[N]
  BY DEF Value, ValuesOf, Values
<1> DEFINE v == ValuesOf(s)
<1>7. \A n \in 0 .. N : v[n] = IF n = 0 THEN 0 ELSE v[n - 1] * 10 + s[n]
  BY <1>5 DEF Values
<1> HIDE DEF v, N
<1>8. \A n \in 1 .. N : n \in 0 .. N /\ v[n] = v[n - 1] * 10 + s[n]
  BY <1>1, <1>7
<1>9. v[0] = 0
  BY <1>1, <1>7
<1>10. \A n \in 0 .. N : v[n] \in Nat
  <2> DEFINE B == {n \in 0 .. N : v[n] \notin Nat}
  <2>1. ASSUME B # {} PROVE FALSE
    <3>1. PICK n \in B : n \in 0 .. N /\ (n # 0 => n \in 1 .. N /\ n - 1 \in (0 .. N) \ B)
      <4>1. B \in SUBSET (0 .. N)
        OBVIOUS
      <4> HIDE DEF B
      <4>2. QED
        BY <1>1, <2>1, <4>1, LeastIn
    <3>2. n # 0
      <4>1. 0 \in Nat
        OBVIOUS
      <4>2. QED
        BY <1>9, <3>1, <4>1, Zenon
    <3>3. v[n - 1] \in Nat /\ s[n] \in Nat
      BY <1>1, <3>1, <3>2, Zenon
    <3>4. \A a, b \in Nat : a * 10 + b \in Nat
      OBVIOUS
    <3>5. v[n] \in Nat
      BY <1>8, <3>1, <3>2, <3>3, <3>4, Zenon
    <3>6. QED
      BY <3>1, <3>5, Zenon
  <2>2. QED
    BY <2>1
<1>11. QED
  BY <1>6, <1>8, <1>9, <1>10 DEF v, N

LEMMA RemainderOfMore ==
  ASSUME NEW x \in Nat, NEW d \in Nat
  PROVE  ((x % 97) * 10 + d) % 97 = (x * 10 + d) % 97
<1>1. PICK q \in Int : x % 97 = x - 97 * q
  BY Quotient97
<1>2. PICK y : y = (x % 97) * 10 + d
  OBVIOUS
<1>3. PICK z : z = x * 10 + d
  OBVIOUS
<1>4. y \in Int /\ z \in Int /\ y = z - 970 * q
  BY <1>1, <1>2, <1>3
<1>5. PICK a \in Int : y % 97 = y - 97 * a
  <2>1. y \in Int
    BY <1>4
  <2>2. QED
    BY <2>1, Quotient97, Zenon
<1>6. PICK b \in Int : z % 97 = z - 97 * b
  BY <1>4, Quotient97, Zenon
<1>7. y % 97 \in 0 .. 96 /\ z % 97 \in 0 .. 96
  BY <1>4, Remainder97
<1>8. PICK e, f : e = y % 97 /\ f = z % 97
  OBVIOUS
<1>9. e \in 0 .. 96 /\ f \in 0 .. 96 /\ e - f = 97 * (b - a - 10 * q) /\ b - a - 10 * q \in Int
  BY <1>4, <1>5, <1>6, <1>7, <1>8
<1>10. PICK m : m = b - a - 10 * q
  OBVIOUS
<1>11. m = 0
  BY <1>9, <1>10
<1>12. e = f
  BY <1>9, <1>10, <1>11
<1>13. QED
  BY <1>2, <1>3, <1>8, <1>12, Zenon

\* (iban.ts:34-40) What bigMod97 computes digit by digit is the remainder of the number that
\* the digits are, however many they are.
THEOREM RemaindersAreRight == \A s \in Seq(Digit) : Modulo97(s) = Value(s) % 97
<1>1. SUFFICES ASSUME NEW s \in Seq(Digit) PROVE Modulo97(s) = Value(s) % 97
  OBVIOUS
<1> DEFINE r == RemaindersOf(s)
           v == ValuesOf(s)
           N == Len(s)
           B == {n \in 0 .. N : r[n] # v[n] % 97}
<1>2. /\ N \in Nat /\ Modulo97(s) = r[N] /\ r[0] = 0
      /\ \A n \in 1 .. N : r[n] = (r[n - 1] * 10 + s[n]) % 97
  BY Modulo97Is
<1>3. /\ Value(s) = v[N] /\ v[0] = 0 /\ \A n \in 0 .. N : v[n] \in Nat
      /\ \A n \in 1 .. N : v[n] = v[n - 1] * 10 + s[n]
  BY ValueIs
<1>4. \A n \in 1 .. N : s[n] \in Nat
  BY DEF Digit
<1> HIDE DEF r, v, N
<1>5. ASSUME B # {} PROVE FALSE
  <2>1. PICK n \in B : n \in 0 .. N /\ (n # 0 => n \in 1 .. N /\ n - 1 \in (0 .. N) \ B)
    <3>1. B \in SUBSET (0 .. N)
      OBVIOUS
    <3> HIDE DEF B
    <3>2. QED
      BY <1>2, <1>5, <3>1, LeastIn
  <2>2. n # 0
    <3>1. 0 % 97 = 0
      OBVIOUS
    <3>2. QED
      BY <1>2, <1>3, <2>1, <3>1, Zenon
  <2>3. n \in 1 .. N /\ r[n - 1] = v[n - 1] % 97 /\ v[n - 1] \in Nat /\ s[n] \in Nat
    BY <1>3, <1>4, <2>1, <2>2, Zenon
  <2>4. r[n] = ((v[n - 1] % 97) * 10 + s[n]) % 97 /\ v[n] = v[n - 1] * 10 + s[n]
    BY <1>2, <1>3, <2>3, Zenon
  <2>5. ((v[n - 1] % 97) * 10 + s[n]) % 97 = (v[n - 1] * 10 + s[n]) % 97
    BY <2>3, RemainderOfMore, Zenon
  <2>6. QED
    BY <2>1, <2>4, <2>5, Zenon
<1>6. N \in 0 .. N
  BY <1>2
<1>7. r[N] = v[N] % 97
  BY <1>5, <1>6, Zenon
<1>8. QED
  BY <1>2, <1>3, <1>7, Zenon


-----------------------------------------------------------------------------
(***************************************************************************)
(* A valid national id makes the sum of its weighted digits and its check  *)
(* digit a multiple of 11, unless the check digit is 1: two of them do not *)
(* differ by less than 10 times a weight.                                  *)
(***************************************************************************)
\* (iban.ts:6-40) Wrong digits and wrong orders of an IBAN are found.
LEMMA IbansTellErrors ==
  ASSUME NEW f \in [1 .. 24 -> Digit], isValidIranianIban(f)
  PROVE  /\ \A i \in 1 .. 24, d \in Digit : d # f[i] => ~isValidIranianIban(WithDigit(f, i, d))
         /\ \A i \in 1 .. 23 : f[i] # f[i + 1] => ~isValidIranianIban(Swapped(f, i))
<1>1. Modulo97(Rearranged(f)) = 1
  BY DEF isValidIranianIban, Rearranged
<1>2. ASSUME NEW g, isValidIranianIban(g) PROVE Modulo97(Rearranged(g)) = 1
  BY <1>2 DEF isValidIranianIban, Rearranged
<1>3. ASSUME NEW i \in 1 .. 24, NEW d \in Digit, d # f[i]
      PROVE  ~isValidIranianIban(WithDigit(f, i, d))
  BY <1>1, <1>2, <1>3, WrongIbanDigit, Zenon
<1>4. ASSUME NEW i \in 1 .. 23, f[i] # f[i + 1] PROVE ~isValidIranianIban(Swapped(f, i))
  BY <1>1, <1>2, <1>4, WrongIbanOrder, Zenon
<1>5. QED
  BY <1>3, <1>4
-----------------------------------------------------------------------------
\* The weighted digits of a national id: Weighted is their sum.
Weights(f) == [i \in 1 .. 9 |-> f[i] * (11 - i)]

LEMMA NineFinite == IsFiniteSet(1 .. 9)
<1>1. 1 \in Int /\ 9 \in Int
  OBVIOUS
<1>2. QED
  BY <1>1, FS_Interval, Zenon

LEMMA WeightsAre ==
  ASSUME NEW f \in [1 .. 10 -> Digit]
  PROVE  /\ Weighted(f) = SumFunctionOnSet(Weights(f), 1 .. 9) /\ Weighted(f) \in Int
         /\ \A i \in 1 .. 9 : Weights(f)[i] = f[i] * (11 - i) /\ Weights(f)[i] \in Int
<1>1. ASSUME NEW i \in 1 .. 9 PROVE Weights(f)[i] = f[i] * (11 - i) /\ Weights(f)[i] \in Int
  <2>1. f[i] \in Int /\ 11 - i \in Int
    BY DEF Digit
  <2>2. \A a, b \in Int : a * b \in Int
    OBVIOUS
  <2>3. Weights(f)[i] = f[i] * (11 - i)
    BY DEF Weights
  <2>4. QED
    BY <2>1, <2>2, <2>3, Zenon
<1>2. IsFiniteSet(1 .. 9)
  BY NineFinite
<1>3. Weighted(f) = SumFunctionOnSet(Weights(f), 1 .. 9)
  BY DEF Weighted, Weights
<1>4. SumFunctionOnSet(Weights(f), 1 .. 9) \in Int
  BY <1>1, <1>2, SumIsInt
<1>5. QED
  BY <1>1, <1>3, <1>4

\* What one digit weighs.
LEMMA OneDigitWeighs ==
  ASSUME NEW f \in [1 .. 10 -> Digit], NEW i \in 1 .. 9, NEW d \in Digit
  PROVE  Weighted(WithDigit(f, i, d)) = Weighted(f) + (d - f[i]) * (11 - i)
<1> DEFINE g == WithDigit(f, i, d)
<1>1. g \in [1 .. 10 -> Digit] /\ g[i] = d /\ \A j \in 1 .. 10 : j # i => g[j] = f[j]
  BY DEF WithDigit
<1> HIDE DEF g
<1>2. /\ Weighted(f) = SumFunctionOnSet(Weights(f), 1 .. 9) /\ Weighted(f) \in Int
      /\ \A j \in 1 .. 9 : Weights(f)[j] = f[j] * (11 - j) /\ Weights(f)[j] \in Int
  BY WeightsAre
<1>3. /\ Weighted(g) = SumFunctionOnSet(Weights(g), 1 .. 9)
      /\ \A j \in 1 .. 9 : Weights(g)[j] = g[j] * (11 - j) /\ Weights(g)[j] \in Int
  BY <1>1, WeightsAre
<1>4. \A j \in 1 .. 9 : j # i => Weights(f)[j] = Weights(g)[j]
  BY <1>1, <1>2, <1>3
<1>5. Weighted(g) = Weighted(f) + Weights(g)[i] - Weights(f)[i]
  <2>1. IsFiniteSet(1 .. 9)
    BY NineFinite
  <2>2. QED
    BY <1>2, <1>3, <1>4, <2>1, SumChanges
<1>6. Weighted(g) = Weighted(f) + (d - f[i]) * (11 - i)
  <2>1. PICK a, w : a = f[i] /\ w = 11 - i
    OBVIOUS
  <2>2. a \in Int /\ d \in Int /\ w \in Int
    BY <2>1 DEF Digit
  <2>3. Weights(f)[i] = a * w /\ Weights(g)[i] = d * w
    BY <1>1, <1>2, <1>3, <2>1
  <2>4. w \in 2 .. 10
    BY <2>1
  <2>5. a * w \in Int /\ d * w \in Int /\ (d - a) * w = d * w - a * w /\ (d - a) * w \in Int
    BY <2>2, <2>4
  <2>6. PICK x, y, z : x = Weights(f)[i] /\ y = Weights(g)[i] /\ z = (d - a) * w
    OBVIOUS
  <2>7. x \in Int /\ y \in Int /\ z = y - x
    BY <2>3, <2>5, <2>6
  <2>8. Weighted(g) = Weighted(f) + y - x
    BY <1>5, <2>6
  <2>9. Weighted(g) = Weighted(f) + z
    BY <1>2, <2>7, <2>8
  <2>10. QED
    BY <2>1, <2>6, <2>9
<1>7. QED
  BY <1>6 DEF g

LEMMA Quotient11 ==
  ASSUME NEW x \in Int
  PROVE  \E q \in Int : x \in Int /\ x % 11 \in 0 .. 10 /\ x = 11 * q + (x % 11)
<1>1. x \div 11 \in Int /\ x % 11 \in 0 .. 10 /\ x = 11 * (x \div 11) + (x % 11)
  OBVIOUS
<1>2. QED
  BY <1>1

\* The sum that a valid national id makes a multiple of 11.
CheckSum(f) == Weighted(f) + f[10]

LEMMA ValidIdsDivide ==
  ASSUME NEW f \in [1 .. 10 -> Digit], isValidIranianNationalId(f), f[10] # 1
  PROVE  \E q \in Int : CheckSum(f) = 11 * q
<1>1. Weighted(f) \in Int
  BY WeightsAre
<1>2. f[10] \in Int
  BY DEF Digit
<1>3. f[10] = IF Weighted(f) % 11 < 2 THEN Weighted(f) % 11 ELSE 11 - (Weighted(f) % 11)
  BY DEF isValidIranianNationalId
<1>4. PICK w : w = Weighted(f)
  OBVIOUS
<1>5. PICK q \in Int : w \in Int /\ w % 11 \in 0 .. 10 /\ w = 11 * q + (w % 11)
  BY <1>1, <1>4, Quotient11
<1>6. PICK r, c : r = w % 11 /\ c = f[10]
  OBVIOUS
<1>7. r \in 0 .. 10 /\ w = 11 * q + r /\ c \in Int /\ c # 1 /\ c = IF r < 2 THEN r ELSE 11 - r
  BY <1>2, <1>3, <1>4, <1>5, <1>6
<1>8. (w + c = 11 * q \/ w + c = 11 * (q + 1)) /\ q + 1 \in Int
  BY <1>5, <1>7
<1>9. CheckSum(f) = w + c
  BY <1>4, <1>6 DEF CheckSum
<1>10. QED
  BY <1>5, <1>8, <1>9

\* 11 is a prime.
LEMMA NoMultipleOf11 ==
  ASSUME NEW w \in 1 .. 10, NEW e \in Int, e >= 0 - 9, e <= 9, e # 0, NEW q \in Int
  PROVE  e * w # 11 * q
<1>1. SUFFICES ASSUME e * w = 11 * q PROVE FALSE
  OBVIOUS
<1>2. CASE w = 1
  BY <1>1, <1>2
<1>3. CASE w = 2
  BY <1>1, <1>3
<1>4. CASE w = 3
  BY <1>1, <1>4
<1>5. CASE w = 4
  BY <1>1, <1>5
<1>6. CASE w = 5
  BY <1>1, <1>6
<1>7. CASE w = 6
  BY <1>1, <1>7
<1>8. CASE w = 7
  BY <1>1, <1>8
<1>9. CASE w = 8
  BY <1>1, <1>9
<1>10. CASE w = 9
  BY <1>1, <1>10
<1>11. CASE w = 10
  BY <1>1, <1>11
<1>12. QED
  BY <1>2, <1>3, <1>4, <1>5, <1>6, <1>7, <1>8, <1>9, <1>10, <1>11

\* So two valid ids do not differ by a small multiple of a weight.
LEMMA ChecksDiffer ==
  ASSUME NEW f \in [1 .. 10 -> Digit], NEW g \in [1 .. 10 -> Digit],
         isValidIranianNationalId(f), f[10] # 1, g[10] # 1,
         NEW w \in 1 .. 10, NEW e \in Int, e >= 0 - 9, e <= 9, e # 0,
         CheckSum(g) = CheckSum(f) + e * w
  PROVE  ~isValidIranianNationalId(g)
<1>1. SUFFICES ASSUME isValidIranianNationalId(g) PROVE FALSE
  OBVIOUS
<1>2. PICK p \in Int : CheckSum(f) = 11 * p
  BY ValidIdsDivide
<1>3. PICK q \in Int : CheckSum(g) = 11 * q
  BY <1>1, ValidIdsDivide
<1>4. PICK z : z = e * w
  OBVIOUS
<1>5. z \in Int
  BY <1>4
<1>6. 11 * q = 11 * p + z
  BY <1>2, <1>3, <1>4
<1>7. q - p \in Int /\ z = 11 * (q - p)
  BY <1>5, <1>6
<1>8. z # 11 * (q - p)
  BY <1>4, <1>7, NoMultipleOf11, Zenon
<1>9. QED
  BY <1>7, <1>8

\* (national-id.ts:14-29) A wrong digit is found ...
LEMMA WrongIdDigit ==
  ASSUME NEW f \in [1 .. 10 -> Digit], isValidIranianNationalId(f),
         NEW i \in 1 .. 10, NEW d \in Digit, d # f[i], f[10] # 1 \/ i = 10
  PROVE  ~isValidIranianNationalId(WithDigit(f, i, d))
<1> DEFINE g == WithDigit(f, i, d)
<1>1. g \in [1 .. 10 -> Digit] /\ g[i] = d /\ \A j \in 1 .. 10 : j # i => g[j] = f[j]
  BY DEF WithDigit
<1>2. /\ Weighted(f) \in Int /\ f[10] \in Int /\ d \in 0 .. 9 /\ f[i] \in 0 .. 9
      /\ d - f[i] \in Int /\ d - f[i] >= 0 - 9 /\ d - f[i] <= 9 /\ d - f[i] # 0
  <2>1. Weighted(f) \in Int
    BY WeightsAre
  <2>2. d \in 0 .. 9 /\ f[i] \in 0 .. 9 /\ f[10] \in 0 .. 9
    BY DEF Digit
  <2>3. QED
    BY <2>1, <2>2
<1>3. CASE i \in 1 .. 9
  <2>1. Weighted(g) = Weighted(f) + (d - f[i]) * (11 - i)
    BY <1>3, OneDigitWeighs
  <2> HIDE DEF g
  <2>2. g[10] = f[10] /\ f[10] # 1 /\ 11 - i \in 1 .. 10
    BY <1>1, <1>3
  <2>3. PICK e, w : e = d - f[i] /\ w = 11 - i
    OBVIOUS
  <2>4. PICK z : z = e * w
    OBVIOUS
  <2>5. z \in Int /\ w \in 1 .. 10 /\ e \in Int /\ e >= 0 - 9 /\ e <= 9 /\ e # 0
    BY <1>2, <2>2, <2>3, <2>4
  <2>6. Weighted(g) = Weighted(f) + z
    BY <2>1, <2>3, <2>4
  <2>7. CheckSum(g) = CheckSum(f) + e * w
    BY <1>2, <2>2, <2>4, <2>5, <2>6 DEF CheckSum
  <2>8. g[10] # 1
    BY <2>2
  <2>9. ~isValidIranianNationalId(g)
    BY <1>1, <2>2, <2>5, <2>7, <2>8, ChecksDiffer
  <2>10. QED
    BY <2>9 DEF g
<1>4. CASE i = 10
  <2> HIDE DEF g
  <2>1. Weights(g) = Weights(f)
    BY <1>1, <1>4 DEF Weights
  <2>2. Weighted(g) = Weighted(f)
    BY <1>1, <2>1, WeightsAre
  <2>3. g[10] # f[10]
    BY <1>1, <1>4
  <2>4. ~isValidIranianNationalId(g)
    BY <2>2, <2>3 DEF isValidIranianNationalId
  <2>5. QED
    BY <2>4 DEF g
<1>5. QED
  BY <1>3, <1>4

\* ... and so is a wrong order.
LEMMA WrongIdOrder ==
  ASSUME NEW f \in [1 .. 10 -> Digit], isValidIranianNationalId(f), f[10] # 1,
         NEW i \in 1 .. 9, f[i] # f[i + 1], Swapped(f, i)[10] # 1
  PROVE  ~isValidIranianNationalId(Swapped(f, i))
<1> DEFINE h == WithDigit(f, i, f[i + 1])
           g == Swapped(f, i)
<1>1. i \in 1 .. 10 /\ i + 1 \in 1 .. 10 /\ i # i + 1 /\ f[i] \in Digit /\ f[i + 1] \in Digit
  OBVIOUS
<1>2. h \in [1 .. 10 -> Digit] /\ h[i] = f[i + 1] /\ \A j \in 1 .. 10 : j # i => h[j] = f[j]
  BY <1>1 DEF WithDigit
<1>3. g = WithDigit(h, i + 1, f[i]) /\ g \in [1 .. 10 -> Digit]
  BY <1>1 DEF WithDigit, Swapped
<1>4. Weighted(h) = Weighted(f) + (f[i + 1] - f[i]) * (11 - i)
  BY <1>1, OneDigitWeighs
<1>5. Weighted(f) \in Int /\ f[10] \in Int /\ f[i] \in 0 .. 9 /\ f[i + 1] \in 0 .. 9
  <2>1. Weighted(f) \in Int
    BY WeightsAre
  <2>2. f[10] \in 0 .. 9
    BY DEF Digit
  <2>3. QED
    BY <1>1, <2>1, <2>2 DEF Digit
<1>6. CASE i \in 1 .. 8
  <2> HIDE DEF h
  <2>1. i + 1 \in 1 .. 9 /\ h[i + 1] = f[i + 1] /\ h[10] = f[10]
    BY <1>1, <1>2, <1>6
  <2>2. Weighted(g) = Weighted(h) + (f[i] - h[i + 1]) * (11 - (i + 1))
    BY <1>1, <1>2, <1>3, <2>1, OneDigitWeighs
  <2>3. g[10] = f[10]
    BY <1>1, <1>2, <1>3, <1>6, <2>1 DEF WithDigit
  <2> HIDE DEF g
  <2>4. PICK a, b, k, W, V, X, c : /\ a = f[i] /\ b = f[i + 1] /\ k = 11 - i /\ c = f[10]
                                  /\ W = Weighted(f) /\ V = Weighted(h) /\ X = Weighted(g)
    OBVIOUS
  <2>5. a \in 0 .. 9 /\ b \in 0 .. 9 /\ k \in 3 .. 10 /\ a # b /\ 11 - (i + 1) = k - 1
        /\ W \in Int /\ c \in Int
    BY <1>5, <1>6, <2>4
  <2>6. V = W + (b - a) * k /\ X = V + (a - b) * (k - 1)
    BY <1>4, <2>1, <2>2, <2>4, <2>5
  <2>7. (b - a) * k + (a - b) * (k - 1) = b - a
    BY <2>5
  <2>8. (b - a) * k \in Int /\ (a - b) * (k - 1) \in Int
    BY <2>5
  <2>9. X = W + (b - a)
    BY <2>5, <2>6, <2>7, <2>8
  <2>10. CheckSum(g) = X + c /\ CheckSum(f) = W + c
    BY <2>3, <2>4 DEF CheckSum
  <2>11. PICK e, w : e = b - a /\ w = 1
    OBVIOUS
  <2>12. w \in 1 .. 10 /\ e \in Int /\ e >= 0 - 9 /\ e <= 9 /\ e # 0
    BY <2>5, <2>11
  <2>13. CheckSum(g) = CheckSum(f) + e * w
    BY <2>5, <2>9, <2>10, <2>11
  <2>14. g[10] # 1
    BY <2>3
  <2>15. ~isValidIranianNationalId(g)
    BY <1>3, <2>12, <2>13, <2>14, ChecksDiffer
  <2>16. QED
    BY <2>15 DEF g
<1>7. CASE i = 9
  <2>0. g[10] # 1
    OBVIOUS
  <2> HIDE DEF h
  <2>1. g[10] = f[9] /\ \A j \in 1 .. 9 : g[j] = h[j]
    BY <1>1, <1>2, <1>3, <1>7 DEF WithDigit
  <2> HIDE DEF g
  <2>2. Weighted(g) = Weighted(h)
    <3>1. Weights(g) = Weights(h)
      BY <2>1 DEF Weights
    <3>2. QED
      BY <1>2, <1>3, <3>1, WeightsAre
  <2>3. PICK a, b, W : a = f[9] /\ b = f[10] /\ W = Weighted(f)
    OBVIOUS
  <2>4. a \in 0 .. 9 /\ b \in 0 .. 9 /\ a # b /\ W \in Int /\ f[i] = a /\ f[i + 1] = b
    <3>1. 9 + 1 = 10
      OBVIOUS
    <3>2. QED
      BY <1>5, <1>7, <2>3, <3>1
  <2>5. Weighted(h) = W + (b - a) * 2
    BY <1>4, <1>7, <2>3, <2>4
  <2>6. CheckSum(g) = W + (b - a) * 2 + a /\ CheckSum(f) = W + b
    BY <2>1, <2>2, <2>3, <2>5 DEF CheckSum
  <2>7. PICK e, w : e = b - a /\ w = 1
    OBVIOUS
  <2>8. w \in 1 .. 10 /\ e \in Int /\ e >= 0 - 9 /\ e <= 9 /\ e # 0
    BY <2>4, <2>7
  <2>9. CheckSum(g) = CheckSum(f) + e * w
    BY <2>4, <2>6, <2>7
  <2>10. ~isValidIranianNationalId(g)
    BY <1>3, <2>0, <2>8, <2>9, ChecksDiffer
  <2>11. QED
    BY <2>10 DEF g
<1>8. QED
  BY <1>6, <1>7


-----------------------------------------------------------------------------
(***************************************************************************)
(* What is left of a text without its separators, character by character,  *)
(* and the ten digits that are read from it: no two prefixes have the same *)
(* length.                                                                 *)
(***************************************************************************)
\* What cleaned computes, character by character.
Keeps(s, g) ==
  g = [n \in 0 .. Len(s) |->
         IF n = 0 THEN <<>>
         ELSE IF s[n].script \in Separators THEN g[n - 1] ELSE Append(g[n - 1], s[n])]
KeptOf(s) == CHOOSE g : Keeps(s, g)

LEMMA CleanedIs ==
  ASSUME NEW s \in Seq(Chars)
  PROVE  LET k == KeptOf(s)
         IN /\ cleaned(s) = k[Len(s)] /\ k[0] = <<>>
            /\ \A n \in 0 .. Len(s) : k[n] \in Seq(Chars)
            /\ \A n \in 1 .. Len(s) :
                 k[n] = IF s[n].script \in Separators THEN k[n - 1] ELSE Append(k[n - 1], s[n])
<1> DEFINE N == Len(s)
           R == Seq(Chars)
           move(n) == [q \in R |-> IF s[n].script \in Separators THEN q ELSE Append(q, s[n])]
           step == [n \in 1 .. N |-> move(n)]
<1>1. N \in Nat /\ \A n \in 1 .. N : s[n] \in Chars
  OBVIOUS
<1>2. step \in [1 .. N -> [R -> R]]
  <2>1. ASSUME NEW n \in 1 .. N PROVE move(n) \in [R -> R]
    <3>1. ASSUME NEW q \in R PROVE Append(q, s[n]) \in R
      BY <1>1, AppendProperties
    <3> HIDE DEF R
    <3>2. QED
      BY <3>1
  <2> HIDE DEF move, N, R
  <2>2. QED
    BY <2>1
<1>3. PICK g \in [0 .. N -> R] : g[0] = <<>> /\ \A n \in 1 .. N : g[n] = step[n][g[n - 1]]
  <2>1. <<>> \in R
    BY EmptySeq
  <2> HIDE DEF step, move, N, R
  <2>2. \E g \in [0 .. N -> R] : Recurs(g, <<>>, N, step)
    BY <1>1, <1>2, <2>1, RecursionExists, Zenon
  <2>3. QED
    BY <2>2, Zenon DEF Recurs
<1>4. \A n \in 0 .. N :
        g[n] = IF n = 0 THEN <<>>
               ELSE IF s[n].script \in Separators THEN g[n - 1] ELSE Append(g[n - 1], s[n])
  <2>1. ASSUME NEW n \in 1 .. N
        PROVE g[n] = IF s[n].script \in Separators THEN g[n - 1] ELSE Append(g[n - 1], s[n])
    <3>1. g[n - 1] \in R
      <4>1. n - 1 \in 0 .. N
        BY <1>1
      <4> HIDE DEF N, R
      <4>2. QED
        BY <1>3, <4>1
    <3>2. g[n] = move(n)[g[n - 1]]
      <4> HIDE DEF move, R
      <4>1. QED
        BY <1>3
    <3> HIDE DEF R
    <3>3. QED
      BY <3>1, <3>2
  <2> HIDE DEF N, R
  <2>2. \A n \in 0 .. N : n = 0 \/ (n # 0 /\ n \in 1 .. N)
    BY <1>1
  <2>3. QED
    BY <1>3, <2>1, <2>2, Zenon
<1>5. Keeps(s, g)
  <2>1. g = [n \in 0 .. N |-> g[n]]
    BY <1>3
  <2>2. QED
    BY <1>4, <2>1 DEF Keeps
<1>6. Keeps(s, KeptOf(s))
  BY <1>5 DEF KeptOf
<1>7. cleaned(s) = KeptOf(s)[N]
  BY DEF cleaned, KeptOf, Keeps
<1> DEFINE k == KeptOf(s)
<1>8. \A n \in 0 .. N :
        k[n] = IF n = 0 THEN <<>>
               ELSE IF s[n].script \in Separators THEN k[n - 1] ELSE Append(k[n - 1], s[n])
  BY <1>6 DEF Keeps
<1> HIDE DEF k, N
<1>9. \A n \in 1 .. N :
        k[n] = IF s[n].script \in Separators THEN k[n - 1] ELSE Append(k[n - 1], s[n])
  <2>1. \A n \in 1 .. N : n \in 0 .. N /\ n # 0
    BY <1>1
  <2>2. QED
    BY <1>8, <2>1, Zenon
<1>10. k[0] = <<>>
  <2>1. 0 \in 0 .. N
    BY <1>1
  <2>2. QED
    BY <1>8, <2>1, Zenon
<1>11. \A n \in 0 .. N : k[n] \in Seq(Chars)
  <2> DEFINE B == {n \in 0 .. N : k[n] \notin Seq(Chars)}
  <2>1. ASSUME B # {} PROVE FALSE
    <3>1. PICK n \in B : n \in 0 .. N /\ (n # 0 => n \in 1 .. N /\ n - 1 \in (0 .. N) \ B)
      <4>1. B \in SUBSET (0 .. N)
        OBVIOUS
      <4> HIDE DEF B
      <4>2. QED
        BY <1>1, <2>1, <4>1, LeastIn
    <3>2. n # 0
      <4>1. <<>> \in Seq(Chars)
        BY EmptySeq
      <4>2. QED
        BY <1>10, <3>1, <4>1, Zenon
    <3>3. k[n - 1] \in Seq(Chars) /\ s[n] \in Chars
      BY <1>1, <3>1, <3>2, Zenon
    <3>4. Append(k[n - 1], s[n]) \in Seq(Chars)
      BY <3>3, AppendProperties, Zenon
    <3>5. k[n] \in Seq(Chars)
      BY <1>9, <3>1, <3>2, <3>3, <3>4, Zenon
    <3>6. QED
      BY <3>1, <3>5, Zenon
  <2>2. QED
    BY <2>1
<1>12. QED
  BY <1>7, <1>9, <1>10, <1>11 DEF k, N

LEMMA Appended ==
  ASSUME NEW q \in Seq(Chars), NEW x \in Chars, NEW z, z = Append(q, x), NEW c, c = Len(q)
  PROVE  Len(z) = c + 1 /\ (\A m \in 1 .. c : z[m] = q[m]) /\ z[c + 1] = x
BY AppendProperties

\* A text whose characters, but for the separators, are those of bare is cleaned to it.
LEMMA CleanedCarries ==
  ASSUME NEW s \in Seq(Chars), NEW bare \in Seq(Chars),
         Cardinality(Solid(s)) = Len(bare), \A i \in Solid(s) : s[i] = bare[Rank(s, i)]
  PROVE  cleaned(s) = bare
<1> DEFINE N == Len(s)
           solid == Solid(s)
           k == KeptOf(s)
           upto(n) == {j \in solid : j <= n}
           Carried(n) == /\ Len(k[n]) = Cardinality(upto(n))
                         /\ \A m \in 1 .. Len(k[n]) : k[n][m] = bare[m]
           B == {n \in 0 .. N : ~Carried(n)}
<1>1. /\ N \in Nat /\ cleaned(s) = k[N] /\ k[0] = <<>>
      /\ \A n \in 0 .. N : k[n] \in Seq(Chars)
      /\ \A n \in 1 .. N :
           k[n] = IF s[n].script \in Separators THEN k[n - 1] ELSE Append(k[n - 1], s[n])
  BY CleanedIs
<1>2. \A n \in 1 .. N : s[n] \in Chars
  OBVIOUS
<1> HIDE DEF k
<1>3. IsFiniteSet(solid) /\ \A i \in solid : i \in 1 .. N
  <2>1. IsFiniteSet(1 .. N)
    BY <1>1, FS_Interval
  <2>2. solid \subseteq 1 .. N
    BY DEF Solid
  <2>3. QED
    BY <2>1, <2>2, FS_Subset
<1>4. \A n \in 1 .. N : s[n].script \notin Separators <=> n \in solid
  BY DEF Solid
<1>5. \A i \in solid : s[i] = bare[Cardinality(upto(i))]
  BY DEF Rank
<1> HIDE DEF N, solid
<1>6. Carried(0)
  <2>1. upto(0) = {}
    BY <1>1, <1>3
  <2>2. Cardinality(upto(0)) = 0
    BY <2>1, FS_EmptySet, Zenon
  <2>3. Len(k[0]) = 0
    BY <1>1
  <2> HIDE DEF upto
  <2>4. QED
    BY <2>2, <2>3
<1>7. ASSUME NEW n \in 1 .. N, n - 1 \in 0 .. N, Carried(n - 1) PROVE Carried(n)
  <2>1. CASE n \notin solid
    <3>1. k[n] = k[n - 1]
      BY <1>1, <1>4, <2>1
    <3>2. upto(n) = upto(n - 1)
      BY <1>1, <1>3, <2>1
    <3> HIDE DEF upto
    <3>3. QED
      BY <1>7, <3>1, <3>2
  <2>2. CASE n \in solid
    <3>1. k[n] = Append(k[n - 1], s[n])
      BY <1>1, <1>4, <2>2
    <3>2. upto(n) = upto(n - 1) \cup {n} /\ n \notin upto(n - 1)
      <4>1. \A j \in solid : j <= n <=> (j <= n - 1 \/ j = n)
        BY <1>1, <1>3
      <4>2. n <= n /\ ~(n <= n - 1)
        BY <1>1
      <4>3. QED
        BY <2>2, <4>1, <4>2
    <3>3. IsFiniteSet(upto(n - 1))
      BY <1>3, FS_Subset
    <3>4. s[n] = bare[Cardinality(upto(n))]
      BY <1>5, <2>2
    <3> HIDE DEF upto
    <3>5. PICK c, q, x : c = Cardinality(upto(n - 1)) /\ q = k[n - 1] /\ x = s[n]
      OBVIOUS
    <3>6. c \in Nat /\ Cardinality(upto(n)) = c + 1
      BY <3>2, <3>3, <3>5, FS_AddElement, FS_CardinalityType
    <3>7. q \in Seq(Chars) /\ x \in Chars /\ Len(q) = c /\ \A m \in 1 .. c : q[m] = bare[m]
      BY <1>1, <1>2, <1>7, <3>5
    <3>8. k[n] = Append(q, x) /\ x = bare[c + 1]
      BY <3>1, <3>4, <3>5, <3>6
    <3>9. PICK z : z = Append(q, x)
      OBVIOUS
    <3>10. Len(z) = c + 1 /\ (\A m \in 1 .. c : z[m] = q[m]) /\ z[c + 1] = x
      BY <3>7, <3>9, Appended
    <3>11. \A m \in 1 .. c + 1 : z[m] = bare[m]
      <4>1. ASSUME NEW m \in 1 .. c + 1 PROVE z[m] = bare[m]
        <5>1. m \in 1 .. c \/ m = c + 1
          BY <3>6
        <5>2. QED
          BY <3>7, <3>8, <3>10, <5>1, Zenon
      <4>2. QED
        BY <4>1
    <3>12. k[n] = z
      BY <3>8, <3>9
    <3>13. QED
      BY <3>6, <3>10, <3>11, <3>12
  <2>3. QED
    BY <2>1, <2>2
<1>8. ASSUME B # {} PROVE FALSE
  <2> HIDE DEF Carried
  <2>1. PICK n \in B : n \in 0 .. N /\ (n # 0 => n \in 1 .. N /\ n - 1 \in (0 .. N) \ B)
    <3>1. B \in SUBSET (0 .. N)
      OBVIOUS
    <3> HIDE DEF B
    <3>2. QED
      BY <1>1, <1>8, <3>1, LeastIn
  <2>2. QED
    BY <1>6, <1>7, <2>1
<1>9. Carried(N)
  <2> HIDE DEF Carried
  <2>1. N \in 0 .. N
    BY <1>1
  <2>2. QED
    BY <1>8, <2>1
<1>10. upto(N) = solid
  BY <1>1, <1>3
<1>11. k[N] = bare
  <2>1. Cardinality(solid) = Len(bare)
    BY DEF solid
  <2>2. Len(k[N]) = Len(bare) /\ \A m \in 1 .. Len(k[N]) : k[N][m] = bare[m]
    <3> HIDE DEF upto
    <3>1. QED
      BY <1>9, <1>10, <2>1
  <2>3. k[N] \in Seq(Chars)
    BY <1>1
  <2>4. QED
    BY <2>2, <2>3, SeqEqual
<1>12. QED
  BY <1>1, <1>11


-----------------------------------------------------------------------------
LEMMA CharsAreRecords ==
  ASSUME NEW c \in Chars, NEW d \in Chars, c.script = d.script, c.n = d.n
  PROVE  c = d
BY DEF Chars

LEMMA LatinIsChar ==
  ASSUME NEW n \in Digit
  PROVE  Latin(n) \in Chars /\ Latin(n).script = "latin" /\ Latin(n).n = n
BY DEF Latin, Char, Chars, Scripts

LEMMA InLatinIs ==
  ASSUME NEW n \in Nat, NEW f \in [1 .. n -> Digit]
  PROVE  /\ InLatin(f) \in Seq(Chars) /\ Len(InLatin(f)) = n
         /\ \A i \in 1 .. n : InLatin(f)[i] = Latin(f[i])
<1>1. DOMAIN f = 1 .. n
  OBVIOUS
<1>2. \A i \in 1 .. n : Latin(f[i]) \in Chars
  BY LatinIsChar
<1>3. InLatin(f) = [i \in 1 .. n |-> Latin(f[i])]
  BY <1>1 DEF InLatin
<1>4. InLatin(f) \in [1 .. n -> Chars]
  BY <1>2, <1>3
<1>5. QED
  BY <1>3, <1>4, FunctionsAreSequences

\* What may be written before a number.
PrefixLengths == <<3, 4, 2, 1, 0>>
Bare(c) == c \in Chars /\ c.script \in {"latin", "plus"} /\ c.script \notin Separators

LEMMA LatinIsBare == ASSUME NEW n \in Digit PROVE Bare(Latin(n))
BY LatinIsChar DEF Bare, Separators

LEMMA PrefixesAre ==
  ASSUME NEW p \in DOMAIN Prefixes98
  PROVE  /\ p \in 1 .. 5 /\ Prefixes98[p] \in Seq(Chars) /\ Len(Prefixes98[p]) = PrefixLengths[p]
         /\ \A i \in 1 .. Len(Prefixes98[p]) : Bare(Prefixes98[p][i])
<1>1. p \in 1 .. 5
  BY DEF Prefixes98
<1>2. Bare(Plus) /\ Plus \in Chars
  BY DEF Bare, Plus, Char, Chars, Digit, Punctuation, Separators, Scripts
<1>3. ASSUME NEW n \in Nat, NEW f \in [1 .. n -> Digit]
      PROVE  /\ InLatin(f) \in Seq(Chars) /\ Len(InLatin(f)) = n
             /\ \A i \in 1 .. n : Bare(InLatin(f)[i])
  <2>1. \A i \in 1 .. n : Bare(Latin(f[i]))
    BY LatinIsBare
  <2>2. QED
    BY <2>1, InLatinIs
<1>4. CASE p = 1
  <2>1. <<9, 8>> \in [1 .. 2 -> Digit]
    BY DEF Digit
  <2>2. PICK x : x = InLatin(<<9, 8>>)
    OBVIOUS
  <2>3. x \in Seq(Chars) /\ Len(x) = 2 /\ \A i \in 1 .. 2 : Bare(x[i])
    BY <1>3, <2>1, <2>2
  <2>4. PICK y : y = <<Plus>>
    OBVIOUS
  <2>5. y \in Seq(Chars) /\ Len(y) = 1 /\ y[1] = Plus
    BY <1>2, <2>4
  <2>6. PICK z : z = y \o x
    OBVIOUS
  <2>7. z \in Seq(Chars) /\ Len(z) = 3 /\ z[1] = y[1] /\ z[2] = x[1] /\ z[3] = x[2]
    <3>1. /\ y \o x \in Seq(Chars) /\ Len(y \o x) = Len(y) + Len(x)
          /\ \A i \in 1 .. Len(y) + Len(x) :
               (y \o x)[i] = IF i <= Len(y) THEN y[i] ELSE x[i - Len(y)]
      BY <2>3, <2>5, ConcatProperties, Zenon
    <3>2. /\ z \in Seq(Chars) /\ Len(z) = 3
          /\ \A i \in 1 .. 3 : z[i] = IF i <= 1 THEN y[i] ELSE x[i - 1]
      BY <2>3, <2>5, <2>6, <3>1
    <3>3. QED
      BY <3>2
  <2>8. \A i \in 1 .. 3 : Bare(z[i])
    <3>1. Bare(z[1]) /\ Bare(z[2]) /\ Bare(z[3])
      BY <1>2, <2>3, <2>5, <2>7
    <3>2. QED
      BY <3>1
  <2>9. Prefixes98[p] = z
    BY <1>4, <2>2, <2>4, <2>6 DEF Prefixes98
  <2>10. QED
    BY <1>1, <1>4, <2>7, <2>8, <2>9 DEF PrefixLengths
<1>5. CASE p = 2
  <2>1. <<0, 0, 9, 8>> \in [1 .. 4 -> Digit]
    BY DEF Digit
  <2>2. Prefixes98[p] = InLatin(<<0, 0, 9, 8>>)
    BY <1>5 DEF Prefixes98
  <2>3. QED
    BY <1>1, <1>3, <1>5, <2>1, <2>2 DEF PrefixLengths
<1>6. CASE p = 3
  <2>1. <<9, 8>> \in [1 .. 2 -> Digit]
    BY DEF Digit
  <2>2. Prefixes98[p] = InLatin(<<9, 8>>)
    BY <1>6 DEF Prefixes98
  <2>3. QED
    BY <1>1, <1>3, <1>6, <2>1, <2>2 DEF PrefixLengths
<1>7. CASE p = 4
  <2>1. <<0>> \in [1 .. 1 -> Digit]
    BY DEF Digit
  <2>2. Prefixes98[p] = InLatin(<<0>>)
    BY <1>7 DEF Prefixes98
  <2>3. QED
    BY <1>1, <1>3, <1>7, <2>1, <2>2 DEF PrefixLengths
<1>8. CASE p = 5
  <2>1. Prefixes98[p] = <<>>
    BY <1>8 DEF Prefixes98
  <2>2. QED
    BY <1>1, <1>8, <2>1, EmptySeq DEF PrefixLengths
<1>9. QED
  BY <1>1, <1>4, <1>5, <1>6, <1>7, <1>8

\* A number behind a prefix.
LEMMA NumbersAre ==
  ASSUME NEW p \in DOMAIN Prefixes98, NEW f \in [1 .. 10 -> Digit],
         NEW bare, bare = Prefixes98[p] \o InLatin(f)
  PROVE  /\ bare \in Seq(Chars) /\ Len(bare) = PrefixLengths[p] + 10
         /\ \A i \in 1 .. PrefixLengths[p] : bare[i] = Prefixes98[p][i]
         /\ \A i \in 1 .. 10 : bare[PrefixLengths[p] + i] = Latin(f[i])
         /\ \A i \in 1 .. Len(bare) : Bare(bare[i])
<1>1. PICK x, y, n : x = Prefixes98[p] /\ y = InLatin(f) /\ n = PrefixLengths[p]
  OBVIOUS
<1>2. x \in Seq(Chars) /\ Len(x) = n /\ \A i \in 1 .. n : Bare(x[i])
  BY <1>1, PrefixesAre
<1>3. n \in Nat
  <2>1. p \in 1 .. 5
    BY PrefixesAre
  <2>2. QED
    BY <1>1, <2>1 DEF PrefixLengths
<1>4. y \in Seq(Chars) /\ Len(y) = 10 /\ \A i \in 1 .. 10 : y[i] = Latin(f[i]) /\ Bare(y[i])
  <2>1. \A i \in 1 .. 10 : Bare(Latin(f[i]))
    BY LatinIsBare
  <2>2. QED
    BY <1>1, <2>1, InLatinIs
<1>5. bare = x \o y
  BY <1>1
<1>6. /\ bare \in Seq(Chars) /\ Len(bare) = n + 10
      /\ \A i \in 1 .. n + 10 : bare[i] = IF i <= n THEN x[i] ELSE y[i - n]
  <2>1. /\ x \o y \in Seq(Chars) /\ Len(x \o y) = Len(x) + Len(y)
        /\ \A i \in 1 .. Len(x) + Len(y) :
             (x \o y)[i] = IF i <= Len(x) THEN x[i] ELSE y[i - Len(x)]
    BY <1>2, <1>4, ConcatProperties, Zenon
  <2>2. QED
    BY <1>2, <1>4, <1>5, <2>1
<1>7. \A i \in 1 .. n : bare[i] = x[i]
  BY SMTT(30), <1>3, <1>6
<1>8. \A i \in 1 .. 10 : bare[n + i] = y[i]
  <2>1. ASSUME NEW i \in 1 .. 10 PROVE bare[n + i] = y[i]
    <3>1. n + i \in 1 .. n + 10 /\ ~(n + i <= n) /\ (n + i) - n = i
      BY <1>3
    <3>2. QED
      BY <1>6, <3>1
  <2>2. QED
    BY <2>1
<1>9. \A i \in 1 .. n + 10 : Bare(bare[i])
  <2>1. ASSUME NEW i \in 1 .. n + 10 PROVE Bare(bare[i])
    <3>1. CASE i <= n
      <4>1. i \in 1 .. n
        BY <1>3, <3>1
      <4>2. QED
        BY <1>2, <1>7, <4>1, Zenon
    <3>2. CASE ~(i <= n)
      <4>1. i - n \in 1 .. 10
        BY <1>3, <3>2
      <4>2. bare[i] = y[i - n]
        BY <1>6, <3>2, Zenon
      <4>3. QED
        BY <1>4, <4>1, <4>2, Zenon
    <3>3. QED
      BY <3>1, <3>2
  <2>2. QED
    BY <2>1
<1>10. QED
  BY <1>1, <1>4, <1>6, <1>7, <1>8, <1>9

\* A piece of a text of characters is its characters, from the place where it begins.
LEMMA PieceIs ==
  ASSUME NEW z \in Seq(Chars), NEW a \in Nat, NEW b \in Nat, a + b <= Len(z)
  PROVE  /\ SubSeq(z, a + 1, a + b) \in Seq(Chars) /\ Len(SubSeq(z, a + 1, a + b)) = b
         /\ \A i \in 1 .. b : SubSeq(z, a + 1, a + b)[i] = z[a + i]
<1>1. PICK m, n : m = a + 1 /\ n = a + b
  OBVIOUS
<1>2. m \in Int /\ n \in Int /\ n <= Len(z) /\ 1 <= m
  BY <1>1
<1>3. \A i \in m .. n : z[i] \in Chars
  BY <1>2
<1>4. PICK v : v = SubSeq(z, m, n)
  OBVIOUS
<1>5. /\ v \in Seq(Chars) /\ Len(v) = IF m <= n THEN n - m + 1 ELSE 0
      /\ \A i \in 1 .. n - m + 1 : v[i] = z[m + i - 1]
  BY <1>2, <1>3, <1>4, SubSeqProperties
<1>6. Len(v) = b
  BY <1>1, <1>5
<1>7. \A i \in 1 .. b : v[i] = z[a + i]
  <2>1. n - m + 1 = b
    BY <1>1
  <2>2. \A i \in 1 .. b : m + i - 1 = a + i
    BY <1>1
  <2>3. QED
    BY <1>5, <2>1, <2>2
<1>8. QED
  BY <1>1, <1>4, <1>5, <1>6, <1>7, Zenon

\* A number is read in one way, whatever is written before it.
LEMMA NumbersAreRead ==
  ASSUME NEW raw, NEW p \in DOMAIN Prefixes98, NEW f \in [1 .. 10 -> Digit],
         cleaned(raw) = Prefixes98[p] \o InLatin(f)
  PROVE  normalizeIranianPhone(raw) = IF f[1] = 9 THEN InLatin(f) ELSE <<>>
<1>1. PICK s, n : s = cleaned(raw) /\ n = PrefixLengths[p]
  OBVIOUS
<1>2. /\ s \in Seq(Chars) /\ Len(s) = n + 10
      /\ \A i \in 1 .. n : s[i] = Prefixes98[p][i]
      /\ \A i \in 1 .. 10 : s[n + i] = Latin(f[i])
  BY ZenonT(30), <1>1, NumbersAre
<1>3. p \in 1 .. 5 /\ n \in Nat /\ Len(Prefixes98[p]) = n /\ Prefixes98[p] \in Seq(Chars)
  <2>1. p \in 1 .. 5 /\ Len(Prefixes98[p]) = n /\ Prefixes98[p] \in Seq(Chars)
    BY <1>1, PrefixesAre
  <2>2. QED
    BY <1>1, <2>1 DEF PrefixLengths
<1>4. SubSeq(s, n + 1, n + 10) = InLatin(f)
  <2>1. PICK z : z = SubSeq(s, n + 1, n + 10)
    OBVIOUS
  <2>2. z \in Seq(Chars) /\ Len(z) = 10 /\ \A i \in 1 .. 10 : z[i] = s[n + i]
    <3>1. n \in Nat /\ 10 \in Nat /\ n + 10 <= Len(s)
      BY <1>2, <1>3
    <3>2. QED
      BY <1>2, <2>1, <3>1, PieceIs, Zenon
  <2>3. InLatin(f) \in Seq(Chars) /\ Len(InLatin(f)) = 10
        /\ \A i \in 1 .. 10 : InLatin(f)[i] = Latin(f[i])
    BY InLatinIs
  <2>4. \A i \in 1 .. Len(z) : z[i] = InLatin(f)[i]
    BY SMTT(30), <1>2, <2>2, <2>3
  <2>5. z = InLatin(f)
    BY <2>2, <2>3, <2>4, SeqEqual
  <2>6. QED
    BY <2>1, <2>5
<1>5. Fits(s, Prefixes98[p])
  <2>1. IsPrefix(Prefixes98[p], s)
    <3>1. SubSeq(Prefixes98[p], 1, n) = SubSeq(s, 1, n)
      <4>1. PICK x, u, v : x = Prefixes98[p] /\ u = SubSeq(x, 1, n) /\ v = SubSeq(s, 1, n)
        OBVIOUS
      <4>2. ASSUME NEW z \in Seq(Chars), n <= Len(z), NEW y, y = SubSeq(z, 1, n)
            PROVE  y \in Seq(Chars) /\ Len(y) = n /\ \A i \in 1 .. n : y[i] = z[i]
        <5>1. PICK a : a = 0
          OBVIOUS
        <5>2. a \in Nat /\ n \in Nat /\ a + n = n /\ a + 1 = 1 /\ \A i \in 1 .. n : a + i = i
          BY <1>3, <5>1
        <5>3. /\ SubSeq(z, a + 1, a + n) \in Seq(Chars) /\ Len(SubSeq(z, a + 1, a + n)) = n
              /\ \A i \in 1 .. n : SubSeq(z, a + 1, a + n)[i] = z[a + i]
          BY <4>2, <5>2, PieceIs, Zenon
        <5>4. SubSeq(z, a + 1, a + n) = y
          BY <4>2, <5>2, Zenon
        <5>5. QED
          BY <5>2, <5>3, <5>4, Zenon
      <4>3. /\ u \in Seq(Chars) /\ Len(u) = n /\ \A i \in 1 .. n : u[i] = x[i]
            /\ v \in Seq(Chars) /\ Len(v) = n /\ \A i \in 1 .. n : v[i] = s[i]
        <5>1. n <= Len(x) /\ n <= Len(s)
          BY <1>2, <1>3, <4>1
        <5>2. QED
          BY <1>2, <1>3, <4>1, <4>2, <5>1, ZenonT(30)
      <4>4. \A i \in 1 .. Len(u) : u[i] = v[i]
        BY <1>2, <4>1, <4>3
      <4>5. u = v
        BY <4>3, <4>4, SeqEqual
      <4>6. QED
        BY <4>1, <4>5
    <3>2. Len(Prefixes98[p]) <= Len(s)
      BY <1>2, <1>3
    <3>3. QED
      BY <1>3, <3>1, <3>2, Zenon DEF IsPrefix
  <2>2. AreDigits(InLatin(f))
    <3>1. \A i \in 1 .. 10 : InLatin(f)[i].script = "latin"
      <4>1. ASSUME NEW i \in 1 .. 10 PROVE InLatin(f)[i].script = "latin"
        <5>1. f[i] \in Digit /\ InLatin(f)[i] = Latin(f[i])
          BY InLatinIs
        <5>2. QED
          BY <5>1, LatinIsChar
      <4>2. QED
        BY <4>1
    <3>2. DOMAIN InLatin(f) = 1 .. 10
      BY DEF InLatin
    <3>3. QED
      BY <3>1, <3>2 DEF AreDigits
  <2>3. AreDigits(SubSeq(s, n + 1, n + 10))
    BY <1>4, <2>2
  <2>4. QED
    BY <1>2, <1>3, <2>1, <2>3 DEF Fits
<1>6. ASSUME NEW q \in DOMAIN Prefixes98, Fits(s, Prefixes98[q]) PROVE q = p
  <2>1. q \in 1 .. 5 /\ Len(Prefixes98[q]) = PrefixLengths[q]
    BY PrefixesAre
  <2>2. n + 10 = PrefixLengths[q] + 10
    BY <1>2, <1>6, <2>1 DEF Fits
  <2>3. PICK a, b : a = PrefixLengths[q] /\ b = PrefixLengths[p]
    OBVIOUS
  <2>4. a = b
    <3>1. a \in Int
      BY <2>1, <2>3 DEF PrefixLengths
    <3>2. QED
      BY SMTT(30), <1>1, <1>3, <2>2, <2>3, <3>1
  <2>5. QED
    BY SMTT(30), <1>3, <2>1, <2>3, <2>4 DEF PrefixLengths
<1> DEFINE fitting == {i \in DOMAIN Prefixes98 : Fits(s, Prefixes98[i])}
           first == CHOOSE i \in fitting : \A j \in fitting : i <= j
           local == SubSeq(s, Len(Prefixes98[first]) + 1, Len(s))
<1>7. normalizeIranianPhone(raw) =
        IF fitting = {} THEN <<>> ELSE IF local[1].n = 9 THEN local ELSE <<>>
  BY <1>1 DEF normalizeIranianPhone
<1>8. fitting = {p} /\ first = p
  <2>1. fitting = {p}
    BY <1>5, <1>6
  <2>2. p <= p
    BY <1>3
  <2> HIDE DEF fitting
  <2>3. QED
    BY <2>1, <2>2
<1>9. InLatin(f)[1].n = f[1]
  <2>1. f[1] \in Digit /\ 1 \in 1 .. 10
    OBVIOUS
  <2>2. InLatin(f)[1] = Latin(f[1])
    BY <2>1, InLatinIs
  <2>3. QED
    BY <2>1, <2>2, LatinIsChar
<1>10. local = InLatin(f)
  <2> HIDE DEF fitting, first
  <2>1. QED
    BY <1>2, <1>3, <1>4, <1>8
<1> HIDE DEF fitting, first, local
<1>11. QED
  BY <1>7, <1>8, <1>9, <1>10

LEMMA ToLatinIs ==
  ASSUME NEW s \in Seq(Chars)
  PROVE  /\ toLatinDigits(s) \in Seq(Chars) /\ Len(toLatinDigits(s)) = Len(s)
         /\ \A i \in 1 .. Len(s) :
              /\ s[i].script \in Scripts => toLatinDigits(s)[i] = Latin(s[i].n)
              /\ s[i].script \notin Scripts => toLatinDigits(s)[i] = s[i]
              /\ toLatinDigits(s)[i].script \in Separators <=> s[i].script \in Separators
<1>1. PICK n : n = Len(s)
  OBVIOUS
<1>2. n \in Nat /\ DOMAIN s = 1 .. n /\ \A i \in 1 .. n : s[i] \in Chars
  BY <1>1
<1>3. PICK t : t = toLatinDigits(s)
  OBVIOUS
<1>4. t = [i \in 1 .. n |-> IF s[i].script \in Scripts THEN Latin(s[i].n) ELSE s[i]]
  BY <1>2, <1>3 DEF toLatinDigits
<1>5. ASSUME NEW i \in 1 .. n
      PROVE  /\ t[i] \in Chars
             /\ s[i].script \in Scripts => t[i] = Latin(s[i].n)
             /\ s[i].script \notin Scripts => t[i] = s[i]
             /\ t[i].script \in Separators <=> s[i].script \in Separators
  <2>1. s[i] \in Chars /\ s[i].n \in Digit
    BY <1>2 DEF Chars
  <2>2. CASE s[i].script \in Scripts
    <3>1. t[i] = Latin(s[i].n)
      BY <1>4, <2>2
    <3>2. t[i] \in Chars /\ t[i].script = "latin"
      BY <2>1, <3>1, LatinIsChar
    <3>3. s[i].script \notin Separators /\ "latin" \notin Separators
      BY <2>2 DEF Scripts, Separators
    <3>4. QED
      BY <2>2, <3>1, <3>2, <3>3
  <2>3. CASE s[i].script \notin Scripts
    <3>1. t[i] = s[i]
      BY <1>4, <2>3
    <3>2. QED
      BY <2>1, <2>3, <3>1
  <2>4. QED
    BY <2>2, <2>3
<1>6. t \in [1 .. n -> Chars]
  <2>1. t = [i \in 1 .. n |-> t[i]]
    BY <1>4
  <2>2. QED
    BY <1>5, <2>1
<1>7. t \in Seq(Chars) /\ Len(t) = n
  BY <1>2, <1>6, FunctionsAreSequences
<1>8. QED
  BY <1>1, <1>3, <1>5, <1>7

\* The digits of any script become those the patterns know, and the separators go.
LEMMA WrittenIsCleaned ==
  ASSUME NEW s \in Seq(Chars), NEW f \in [1 .. 10 -> Digit], Writes(s, f)
  PROVE  \E p \in DOMAIN Prefixes98 : cleaned(toLatinDigits(s)) = Prefixes98[p] \o InLatin(f)
<1> DEFINE solid == Solid(s)
           rank(i) == Rank(s, i)
<1>1. PICK p \in DOMAIN Prefixes98 :
             /\ Cardinality(solid) = Len(Prefixes98[p] \o InLatin(f))
             /\ \A i \in solid : Same(s[i], (Prefixes98[p] \o InLatin(f))[rank(i)])
  BY DEF Writes
<1>2. PICK bare, t : bare = Prefixes98[p] \o InLatin(f) /\ t = toLatinDigits(s)
  OBVIOUS
<1>3. bare \in Seq(Chars) /\ Len(bare) \in Nat /\ \A i \in 1 .. Len(bare) : Bare(bare[i])
  BY <1>2, NumbersAre, LenProperties
<1>4. /\ t \in Seq(Chars) /\ Len(t) = Len(s)
      /\ \A i \in 1 .. Len(s) : /\ s[i].script \in Scripts => t[i] = Latin(s[i].n)
                                /\ s[i].script \notin Scripts => t[i] = s[i]
                                /\ t[i].script \in Separators <=> s[i].script \in Separators
  BY <1>2, ToLatinIs
<1>5. DOMAIN s = 1 .. Len(s) /\ Len(s) \in Nat /\ \A i \in 1 .. Len(s) : s[i] \in Chars
  OBVIOUS
<1>6. IsFiniteSet(solid) /\ Cardinality(solid) \in Nat
  <2>1. IsFiniteSet(1 .. Len(s))
    BY <1>5, FS_Interval
  <2>2. IsFiniteSet(solid)
    BY <1>5, <2>1, FS_Subset DEF Solid
  <2>3. QED
    BY <2>2, FS_CardinalityType
<1>7. ASSUME NEW i \in solid PROVE rank(i) \in 1 .. Len(bare)
  <2> DEFINE upto == {j \in solid : j <= i}
  <2>1. upto \subseteq solid /\ i \in upto
    BY <1>5 DEF Solid
  <2> HIDE DEF upto, solid
  <2>2. /\ IsFiniteSet(upto) /\ Cardinality(upto) \in Nat
        /\ Cardinality(upto) <= Cardinality(solid)
    BY <1>6, <2>1, FS_Subset, FS_CardinalityType
  <2>3. Cardinality(upto) # 0
    BY <2>1, <2>2, FS_EmptySet
  <2>4. Cardinality(solid) = Len(bare)
    BY <1>1, <1>2
  <2>5. Cardinality(upto) \in 1 .. Len(bare)
    BY <1>3, <2>2, <2>3, <2>4
  <2>6. QED
    BY <2>5 DEF upto, Rank, solid
<1>8. ASSUME NEW i \in solid PROVE t[i] = bare[rank(i)]
  <2>1. PICK c, b, d : c = s[i] /\ b = bare[rank(i)] /\ d = t[i]
    OBVIOUS
  <2>2. c \in Chars /\ i \in 1 .. Len(s) /\ c.n \in Digit
    <3>1. c \in Chars /\ i \in 1 .. Len(s)
      BY <1>5, <2>1 DEF Solid
    <3>2. QED
      BY <3>1 DEF Chars
  <2>3. Bare(b) /\ Same(c, b)
    <3> HIDE DEF rank, solid
    <3>1. QED
      BY <1>1, <1>2, <1>3, <1>7, <2>1, Zenon
  <2>4. (c.script \in Scripts => d = Latin(c.n)) /\ (c.script \notin Scripts => d = c)
    BY <1>4, <2>1, <2>2
  <2>5. d = b
    <3>1. CASE c.script \in Scripts
      <4>1. b \in Chars /\ b.script = "latin" /\ b.n = c.n
        BY <2>3, <3>1 DEF Same, Bare, Scripts
      <4>2. d \in Chars /\ d.script = "latin" /\ d.n = c.n
        BY <2>2, <2>4, <3>1, LatinIsChar
      <4>3. QED
        BY <4>1, <4>2, CharsAreRecords
    <3>2. CASE c.script \notin Scripts
      <4>1. b \in Chars /\ b.script = c.script /\ b.n = c.n
        BY <2>3, <3>2 DEF Same, Bare
      <4>2. QED
        BY <2>2, <2>4, <3>2, <4>1, CharsAreRecords
    <3>3. QED
      BY <3>1, <3>2
  <2>6. QED
    BY <2>1, <2>5
<1>9. Solid(t) = solid /\ \A i \in solid : Rank(t, i) = rank(i)
  <2>1. Solid(t) = Solid(s)
    BY <1>4, <1>5 DEF Solid
  <2>2. QED
    BY <2>1 DEF Rank
<1> HIDE DEF solid, rank
<1>10. cleaned(t) = bare
  <2>1. Cardinality(Solid(t)) = Len(bare)
    BY <1>1, <1>2, <1>9
  <2>2. \A i \in Solid(t) : t[i] = bare[Rank(t, i)]
    BY <1>8, <1>9
  <2>3. QED
    BY <1>3, <1>4, <2>1, <2>2, CleanedCarries
<1>11. QED
  BY <1>2, <1>10

LEMMA CardinalityUpTo == ASSUME NEW n \in Nat PROVE Cardinality(1 .. n) = n
BY FS_Interval

\* What has no separators stays as it is.
LEMMA BareIsClean ==
  ASSUME NEW bare \in Seq(Chars), \A i \in 1 .. Len(bare) : Bare(bare[i])
  PROVE  cleaned(bare) = bare
<1>1. Len(bare) \in Nat
  OBVIOUS
<1>2. Solid(bare) = 1 .. Len(bare)
  BY DEF Solid, Bare
<1>3. Cardinality(Solid(bare)) = Len(bare)
  <2>1. PICK n : n = Len(bare)
    OBVIOUS
  <2>2. Cardinality(1 .. n) = n
    BY <1>1, <2>1, CardinalityUpTo
  <2>3. QED
    BY <1>2, <2>1, <2>2
<1>4. ASSUME NEW i \in Solid(bare) PROVE bare[i] = bare[Rank(bare, i)]
  <2>1. i \in 1 .. Len(bare)
    BY <1>2
  <2>2. {j \in Solid(bare) : j <= i} = 1 .. i
    BY <1>1, <1>2, <2>1
  <2>3. Cardinality(1 .. i) = i
    BY <1>1, <2>1, CardinalityUpTo
  <2>4. QED
    BY <2>2, <2>3 DEF Rank
<1>5. QED
  BY <1>3, <1>4, CleanedCarries
-----------------------------------------------------------------------------
\* (phone.ts:15-36) However it is written, it is one number.
LEMMA PhonesAreOne ==
  ASSUME NEW f \in [1 .. 10 -> Digit], NEW s \in Seq(Chars), Writes(s, f)
  PROVE  LET normalized == normalizeIranianPhone(toLatinDigits(s))
         IN /\ normalized = IF f[1] = 9 THEN InLatin(f) ELSE <<>>
            /\ normalized # <<>> =>
                 /\ normalizeIranianPhone(Prefixes98[1] \o normalized) = normalized
                 /\ toLatinDigits(toPersianDigits(s)) = toLatinDigits(s)
<1>1. normalizeIranianPhone(toLatinDigits(s)) = IF f[1] = 9 THEN InLatin(f) ELSE <<>>
  BY WrittenIsCleaned, NumbersAreRead
<1>2. ASSUME f[1] = 9
      PROVE  normalizeIranianPhone(Prefixes98[1] \o InLatin(f)) = InLatin(f)
  <2>1. PICK bare : bare = Prefixes98[1] \o InLatin(f)
    OBVIOUS
  <2>2. 1 \in DOMAIN Prefixes98
    BY DEF Prefixes98
  <2>3. bare \in Seq(Chars) /\ \A i \in 1 .. Len(bare) : Bare(bare[i])
    BY <2>1, <2>2, NumbersAre
  <2>4. cleaned(bare) = bare
    BY <2>3, BareIsClean
  <2>5. normalizeIranianPhone(bare) = IF f[1] = 9 THEN InLatin(f) ELSE <<>>
    BY <2>1, <2>2, <2>4, NumbersAreRead
  <2>6. QED
    BY <1>2, <2>1, <2>5
<1>3. toLatinDigits(toPersianDigits(s)) = toLatinDigits(s)
  <2>1. ASSUME NEW i \in DOMAIN s
        PROVE  LET c == IF s[i].script = "latin" THEN Char("persian", s[i].n) ELSE s[i]
               IN (IF c.script \in Scripts THEN Latin(c.n) ELSE c)
                    = IF s[i].script \in Scripts THEN Latin(s[i].n) ELSE s[i]
    BY DEF Scripts, Char
  <2>2. QED
    BY <2>1 DEF toLatinDigits, toPersianDigits
<1>4. QED
  BY <1>1, <1>2, <1>3

\* (packages/persian-utils) Every national id, IBAN and phone number: see ChecksFindErrors.
THEOREM ErrorsAreFound == UtilSpec => []ChecksFindErrors
<1>1. UtilInit => ChecksFindErrors
  <2>1. SUFFICES ASSUME UtilInit PROVE ChecksFindErrors
    OBVIOUS
  <2>2. CASE form = "id" /\ digits \in IdInputs /\ text = InLatin(digits)
    <3>1. digits \in [1 .. 10 -> Digit]
      BY <2>2, UtilAssumption
    <3>2. UtilTypeOK
      <4>1. DOMAIN digits = 1 .. 10 /\ DOMAIN text = 1 .. 10
        BY <2>2, <3>1 DEF InLatin
      <4>2. \A i \in 1 .. 10 : text[i] \in Chars
        <5>1. InLatin(digits) \in Seq(Chars) /\ Len(InLatin(digits)) = 10
          BY <3>1, InLatinIs
        <5>2. text \in Seq(Chars) /\ Len(text) = 10
          BY <2>2, <5>1, Zenon
        <5>3. QED
          BY <5>2, ElementOfSeq
      <4>3. QED
        BY <2>2, <3>1, <4>1, <4>2 DEF UtilTypeOK
    <3>3. IdErrorsAreFound
      BY <3>1, WrongIdDigit, WrongIdOrder DEF IdErrorsAreFound
    <3>4. IbanErrorsAreFound /\ PhoneIsOne
      BY <2>2 DEF IbanErrorsAreFound, PhoneIsOne
    <3>5. QED
      BY <3>2, <3>3, <3>4 DEF ChecksFindErrors
  <2>3. CASE form = "iban" /\ digits \in IbanInputs /\ text = InLatin(digits)
    <3>1. digits \in [1 .. 24 -> Digit]
      BY <2>3, UtilAssumption
    <3>2. UtilTypeOK
      <4>1. DOMAIN digits = 1 .. 24 /\ DOMAIN text = 1 .. 24
        BY <2>3, <3>1 DEF InLatin
      <4>2. \A i \in 1 .. 24 : text[i] \in Chars
        <5>1. InLatin(digits) \in Seq(Chars) /\ Len(InLatin(digits)) = 24
          BY <3>1, InLatinIs
        <5>2. text \in Seq(Chars) /\ Len(text) = 24
          BY <2>3, <5>1, Zenon
        <5>3. QED
          BY <5>2, ElementOfSeq
      <4>3. QED
        BY <2>3, <3>1, <4>1, <4>2 DEF UtilTypeOK
    <3>3. IbanErrorsAreFound
      BY <3>1, IbansTellErrors DEF IbanErrorsAreFound
    <3>4. IdErrorsAreFound /\ PhoneIsOne
      BY <2>3 DEF IdErrorsAreFound, PhoneIsOne
    <3>5. QED
      BY <3>2, <3>3, <3>4 DEF ChecksFindErrors
  <2>4. CASE form = "phone" /\ \E input \in PhoneInputs : digits = input[1] /\ text = input[2]
    <3>1. digits \in [1 .. 10 -> Digit] /\ text \in Seq(Chars) /\ Writes(text, digits)
      BY <2>4, UtilAssumption
    <3>2. UtilTypeOK
      BY <2>4, <3>1 DEF UtilTypeOK
    <3>3. PhoneIsOne
      BY <3>1, PhonesAreOne DEF PhoneIsOne
    <3>4. IdErrorsAreFound /\ IbanErrorsAreFound
      BY <2>4 DEF IdErrorsAreFound, IbanErrorsAreFound
    <3>5. QED
      BY <3>2, <3>3, <3>4 DEF ChecksFindErrors
  <2>5. QED
    BY <2>1, <2>2, <2>3, <2>4 DEF UtilInit
<1>2. ChecksFindErrors /\ [UNCHANGED utilVars]_utilVars => ChecksFindErrors'
  BY DEF ChecksFindErrors, UtilTypeOK, IdErrorsAreFound, IbanErrorsAreFound, PhoneIsOne, utilVars
<1>3. QED
  BY <1>1, <1>2, PTL DEF UtilSpec
===============================================================================
