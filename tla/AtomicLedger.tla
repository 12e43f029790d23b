---------------------------- MODULE AtomicLedger ----------------------------
(***************************************************************************)
(* What LedgerService promises its callers: every operation that succeeds  *)
(* takes effect in one step, on the balances the wallets have at that      *)
(* step, and leaves its entries in the ledger in the same step.  Nothing   *)
(* is said of how the wallet rows are locked; Ledger.tla says it and is    *)
(* shown to implement this module.                                         *)
(***************************************************************************)
EXTENDS LedgerTypes

VARIABLES
  balance,  \* wallets.balance
  entries   \* ledger_entries, in insertion order

vars == <<balance, entries>>

Init ==
  /\ balance = [w \in Wallets |-> 0]
  /\ entries = <<>>

\* The balance of wallet w once call c is applied to the balances b.
Applied(b, c, w) ==
  b[w] - (IF w = c.from THEN c.amount ELSE 0) + (IF w = c.to THEN c.amount ELSE 0)

Post(c) ==
  /\ Valid(c)
  /\ {c.from, c.to} \subseteq Wallets \cup {None}
  /\ c.from # None => balance[c.from] >= c.amount
  /\ balance' = [w \in Wallets |-> Applied(balance, c, w)]
  /\ entries' = entries \o Lines(c)

Next == \E c \in Calls : Post(c)

Spec == Init /\ [][Next]_vars
=============================================================================
