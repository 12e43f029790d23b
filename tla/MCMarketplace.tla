---------------------------- MODULE MCMarketplace ----------------------------
(* Small instances of the marketplace: a listing that is bought once and one *)
(* that is sold by the run, in packs.                                        *)
EXTENDS Marketplace

CONSTANTS u1, u2, l1, l2, i1, i2, a1, a2, k1, k2, c1

TwoListings == {l1, l2}
SoldByRun == {l2}
TwoItems == {i1, i2}
MCListingOf == [i \in Items |-> IF i = i1 THEN l1 ELSE l2]
MCRunsOf == [i \in Items |-> IF i = i1 THEN 0 ELSE 1]

\* Two carts with the same listings, in opposite orders.
OppositeCarts ==
  <<[user |-> u1, item |-> i1], [user |-> u1, item |-> i2],
    [user |-> u2, item |-> i2], [user |-> u2, item |-> i1]>>
EmptyCarts == <<>>

BothItems == [user: {u1}, item: Items]

OneUser == {u1}
TwoUsers == {u1, u2}
TwoRows == 1 .. 2
SixRows == 1 .. 6
OneListing == {l1}
FirstAddedRow == {5}
TwoAdds == {a1, a2}
OneCheckout == {k1}
TwoCheckouts == {k1, k2}
OneConsumer == {c1}
NoCalls == {}

AllFaults == SUBSET MarketFaults
=============================================================================
