------------------------------ MODULE MCPayouts ------------------------------
(* Small instance of the payout service: two requests compete for one       *)
(* wallet that can pay either but not both.                                 *)
EXTENDS Payouts

CONSTANTS p1, p2, w1, c1, c2, c3

MCPayoutIds == {p1, p2}
MCWallets == {w1}
MCWalletOf == [p \in MCPayoutIds |-> w1]
MCAmountOf == [p \in MCPayoutIds |-> IF p = p1 THEN 1 ELSE 2]
MCOpening == [w \in MCWallets |-> 2]
TwoCalls == {c1, c2}
ThreeCalls == {c1, c2, c3}

AllFaults == SUBSET PayoutFaults
OverlapOnly == SUBSET {"overlap"}
=============================================================================
