----------------------------- MODULE LedgerTypes -----------------------------
(***************************************************************************)
(* Rows and amounts of the wallet ledger: what an operation of             *)
(* LedgerService is called with, and the ledger_entries rows it inserts.   *)
(*                                                                         *)
(* A credit has no wallet to take from, a debit no wallet to give to, a    *)
(* transfer has both; None stands for the missing side.                    *)
(***************************************************************************)
EXTENDS Integers, Sequences, Functions

CONSTANTS
  Wallets,        \* ids of the rows of the wallets table
  AbsentWallets,  \* ids a caller may pass that have no row
  Amounts,        \* amounts a caller may pass; the service refuses those <= 0
  None

ASSUME WalletIdAssumption ==
  /\ Wallets \subseteq Nat /\ AbsentWallets \subseteq Nat
  /\ Wallets \cap AbsentWallets = {}
ASSUME AmountAssumption == Amounts \subseteq Int
ASSUME NoneAssumption == None \notin Wallets \cup AbsentWallets

WalletIds == Wallets \cup AbsentWallets

Call == [from: WalletIds \cup {None}, to: WalletIds \cup {None}, amount: Amounts]

Calls == {c \in Call : c.from # None \/ c.to # None}

\* assertPositive, and the same-wallet test of transfer
Valid(c) == c.amount > 0 /\ c.from # c.to

Entry == [wallet: WalletIds, kind: {"CREDIT", "DEBIT"}, amount: Int]

DebitLine(c) ==
  IF c.from = None THEN <<>>
  ELSE <<[wallet |-> c.from, kind |-> "DEBIT", amount |-> c.amount]>>

CreditLine(c) ==
  IF c.to = None THEN <<>>
  ELSE <<[wallet |-> c.to, kind |-> "CREDIT", amount |-> c.amount]>>

\* The debit entry is inserted before the credit entry.
Lines(c) == DebitLine(c) \o CreditLine(c)

Signed(e) == IF e.kind = "CREDIT" THEN e.amount ELSE 0 - e.amount

\* SELECT SUM(CASE WHEN kind = 'CREDIT' THEN amount ELSE -amount END) of a wallet
SumOfEntries(entries, w) ==
  SumFunctionOnSet([i \in DOMAIN entries |-> Signed(entries[i])],
                   {i \in DOMAIN entries : entries[i].wallet = w})
=============================================================================
