------------------------------ MODULE MCRefunds ------------------------------
(* Small instance of the refunds: a topup and an order, of 2 each, and a    *)
(* wallet that still holds the topup.                                       *)
EXTENDS Refunds, TLC

CONSTANTS p1, p2, r1, r2, r3, c1, c2

MCPaymentIds == {p1, p2}
MCTopups == {p1}
MCPaidAmount == [p \in MCPaymentIds |-> 2]
ThreeRefunds == {r1, r2, r3}
TwoConfirmations == {c1, c2}

AllFaults == {"overlap", "fail"}
OverlapOnly == {"overlap"}

Symmetry == Permutations(RefundIds) \cup Permutations(Confirmations)
=============================================================================
