------------------------------- MODULE Ledger -------------------------------
(***************************************************************************)
(* LedgerService (core/ledger/ledger.service.ts): credit, debit and        *)
(* transfer as the transactions they are.  A request locks the wallet rows *)
(* it touches with SELECT ... FOR UPDATE, lowest id first, computes the    *)
(* new balances from the rows it read under the locks, and writes them     *)
(* with its ledger entries when it commits.  Uncommitted writes are seen   *)
(* by nobody (READ COMMITTED), so they become part of the state only at    *)
(* Commit.  A request ends by committing, by an error (the transaction is  *)
(* rolled back) or because its process dies (PostgreSQL rolls it back).    *)
(*                                                                         *)
(* auditor is one call of verifyBalance, which reads the stored balance    *)
(* and the sum of the entries in two statements outside any transaction;   *)
(* rows, which only MismatchNeedsCommit reads, is the number of entries    *)
(* there were at the first.                                                *)
(***************************************************************************)
EXTENDS LedgerTypes

CONSTANT Requests  \* calls in flight
ASSUME RequestAssumption == None \notin Requests

VARIABLES
  balance,   \* wallets.balance, committed
  entries,   \* ledger_entries, committed
  lockedBy,  \* the request whose transaction holds the row lock of a wallet
  seen,      \* seen[r][w]: the balance r read when it locked w
  call,      \* what each request was called with
  pc,        \* where each request is
  auditor    \* the state of one verifyBalance call

vars == <<balance, entries, lockedBy, seen, call, pc, auditor>>

NoCall == [from |-> None, to |-> None, amount |-> 0]
Unread == [w \in Wallets |-> 0]
NoAudit == [at |-> "idle", wallet |-> None, stored |-> 0, rows |-> 0]

TypeOK ==
  /\ balance \in [Wallets -> Int]
  /\ entries \in Seq(Entry)
  /\ lockedBy \in [Wallets -> Requests \cup {None}]
  /\ seen \in [Requests -> [Wallets -> Int]]
  /\ call \in [Requests -> Calls \cup {NoCall}]
  /\ pc \in [Requests -> {"idle", "tx", "ended"}]
  /\ auditor \in [at: {"idle", "read", "ok", "mismatch"},
                  wallet: Wallets \cup {None}, stored: Int, rows: Nat]

Init ==
  /\ balance = [w \in Wallets |-> 0]
  /\ entries = <<>>
  /\ lockedBy = [w \in Wallets |-> None]
  /\ seen = [r \in Requests |-> Unread]
  /\ call = [r \in Requests |-> NoCall]
  /\ pc = [r \in Requests |-> "idle"]
  /\ auditor = NoAudit
-----------------------------------------------------------------------------
Needed(r) == {call[r].from, call[r].to} \ {None}
Held(r) == {w \in Wallets : lockedBy[w] = r}

\* Mutation of IsNextToLock: the source wallet is locked first.
LocksSourceFirst(r, w) ==
  /\ w \in Needed(r) \ Held(r)
  /\ w = call[r].to => call[r].from \in Held(r) \cup {None}

\* transfer locks [firstId, secondId], the lowest id first
IsNextToLock(r, w) ==
  /\ w \in Needed(r) \ Held(r)
  /\ \A v \in Needed(r) \ Held(r) : w <= v

\* The balance commit writes, computed from what the locked read returned.
NewBalance(r, w) ==
  IF w = call[r].from THEN seen[r][w] - call[r].amount
                      ELSE seen[r][w] + call[r].amount

Insufficient(r) == call[r].from # None /\ NewBalance(r, call[r].from) < 0

\* The transaction of r ends: its row locks are released, and what its handler
\* held in memory is gone.
EndTransaction(r) ==
  /\ lockedBy' = [w \in Wallets |-> IF lockedBy[w] = r THEN None ELSE lockedBy[w]]
  /\ seen' = [seen EXCEPT ![r] = Unread]
  /\ call' = [call EXCEPT ![r] = NoCall]
  /\ pc' = [pc EXCEPT ![r] = "ended"]
-----------------------------------------------------------------------------
RefuseInvalid(r, c) ==
  /\ pc[r] = "idle"
  /\ ~Valid(c)
  /\ pc' = [pc EXCEPT ![r] = "ended"]
  /\ UNCHANGED <<balance, entries, lockedBy, seen, call, auditor>>

Begin(r, c) ==
  /\ pc[r] = "idle"
  /\ Valid(c)
  /\ call' = [call EXCEPT ![r] = c]
  /\ pc' = [pc EXCEPT ![r] = "tx"]
  /\ UNCHANGED <<balance, entries, lockedBy, seen, auditor>>

\* Mutation of LockWallet: the row is locked, but the balance computed with is
\* one that was read before.
LockAfterReading(r, w) ==
  /\ pc[r] = "tx"
  /\ IsNextToLock(r, w)
  /\ lockedBy[w] = None
  /\ lockedBy' = [lockedBy EXCEPT ![w] = r]
  /\ UNCHANGED <<balance, entries, seen, call, pc, auditor>>

LockWallet(r, w) ==
  /\ pc[r] = "tx"
  /\ IsNextToLock(r, w)
  /\ lockedBy[w] = None
  /\ lockedBy' = [lockedBy EXCEPT ![w] = r]
  /\ seen' = [seen EXCEPT ![r][w] = balance[w]]
  /\ UNCHANGED <<balance, entries, call, pc, auditor>>

WalletNotFound(r, w) ==
  /\ pc[r] = "tx"
  /\ IsNextToLock(r, w)
  /\ EndTransaction(r)
  /\ UNCHANGED <<balance, entries, auditor>>

InsufficientFunds(r) ==
  /\ pc[r] = "tx"
  /\ Needed(r) = Held(r)
  /\ Insufficient(r)
  /\ EndTransaction(r)
  /\ UNCHANGED <<balance, entries, auditor>>

Commit(r) ==
  /\ pc[r] = "tx"
  /\ Needed(r) = Held(r)
  /\ ~Insufficient(r)
  /\ balance' = [w \in Wallets |-> IF w \in Needed(r) THEN NewBalance(r, w) ELSE balance[w]]
  /\ entries' = entries \o Lines(call[r])
  /\ EndTransaction(r)
  /\ UNCHANGED auditor

\* The API process dies, or the database drops its connection.
Crash(r) ==
  /\ pc[r] = "tx"
  /\ EndTransaction(r)
  /\ UNCHANGED <<balance, entries, auditor>>
-----------------------------------------------------------------------------
ReadStored(w) ==
  /\ auditor.at = "idle"
  /\ auditor' = [at |-> "read", wallet |-> w, stored |-> balance[w],
                 rows |-> Len(entries)]
  /\ UNCHANGED <<balance, entries, lockedBy, seen, call, pc>>

CompareSum ==
  /\ auditor.at = "read"
  /\ auditor' = [auditor EXCEPT !.at =
       IF SumOfEntries(entries, auditor.wallet) = auditor.stored THEN "ok" ELSE "mismatch"]
  /\ UNCHANGED <<balance, entries, lockedBy, seen, call, pc>>

\* Every request has been answered: nothing is left to do.
AllEnded ==
  /\ \A r \in Requests : pc[r] = "ended"
  /\ auditor.at \in {"ok", "mismatch"}
  /\ UNCHANGED vars

Step(r) ==
  \/ \E w \in Wallets : LockWallet(r, w)
  \/ \E w \in AbsentWallets : WalletNotFound(r, w)
  \/ InsufficientFunds(r)
  \/ Commit(r)

Next ==
  \/ \E r \in Requests, c \in Calls : Begin(r, c) \/ RefuseInvalid(r, c)
  \/ \E r \in Requests : Step(r) \/ Crash(r)
  \/ \E w \in Wallets : ReadStored(w)
  \/ CompareSum
  \/ AllEnded

Spec == Init /\ [][Next]_vars

\* PostgreSQL grants a row lock to its waiters in the order they arrived, and a
\* handler whose query returned goes on: a call whose step stays possible takes it.
FairSpec == Spec /\ \A r \in Requests : WF_vars(Step(r))
-----------------------------------------------------------------------------
Atomic == INSTANCE AtomicLedger WITH balance <- balance, entries <- entries

\* The ledger is the abstract ledger: whatever the transactions interleave to,
\* each committed call changed the balances the wallets had at its commit.
ImplementsAtomicLedger == Atomic!Spec

\* The stored balance of a wallet is the sum of its entries (what
\* reconciliationReport calls drift = 0), at every moment and whatever the
\* requests interleave, fail or die at.
BalanceIsSum == \A w \in Wallets : balance[w] = SumOfEntries(entries, w)

\* No debit or transfer takes a wallet below zero, although the row is read
\* one step before it is written and other requests spend from it in between.
NeverNegative == \A w \in Wallets : balance[w] >= 0

\* A row lock is held by a transaction that is running, that needs the row,
\* and whose copy of it is the row: the copy a commit computes from is never stale.
LockedRowsAreFresh ==
  \A r \in Requests : \A w \in Held(r) :
    pc[r] = "tx" /\ w \in Needed(r) /\ seen[r][w] = balance[w]

\* Every call that opened a transaction is answered: transfers that lock two
\* wallets never wait for each other for ever.
EveryCallEnds == \A r \in Requests : pc[r] = "tx" ~> pc[r] = "ended"

\* verifyBalance throws BALANCE_MISMATCH for a wallet only if a transaction that
\* changed this wallet committed between its two reads: it is a false alarm of
\* that race and never the sign of a drift the ledger made.
MismatchNeedsCommit ==
  auditor.at = "mismatch" =>
    \E i \in (auditor.rows + 1) .. Len(entries) : entries[i].wallet = auditor.wallet

\* (core/ledger/ledger.service.ts) Whatever calls overlap or die, the books balance:
\* every wallet holds the sum of its entries and no less than nothing, what a call has read
\* under a row lock is still the row, and only a commit between the two statements of
\* verifyBalance makes it report otherwise.
BooksBalance ==
  TypeOK /\ BalanceIsSum /\ NeverNegative /\ LockedRowsAreFresh /\ MismatchNeedsCommit
=============================================================================
