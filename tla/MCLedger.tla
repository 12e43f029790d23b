------------------------------ MODULE MCLedger ------------------------------
(* Small instance of the ledger: two wallets and one unknown wallet id. *)
EXTENDS Ledger

CONSTANTS r1, r2, r3

MCWallets == {1, 2}
MCAbsent == {3}
MCAmounts == {0, 1}
MCRequests == {r1, r2, r3}
=============================================================================
