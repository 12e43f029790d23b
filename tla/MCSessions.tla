----------------------------- MODULE MCSessions -----------------------------
(* Small instances of the sessions of one user. *)
EXTENDS Sessions, TLC

CONSTANTS t1, t2, t3, b1, b2, c1, c2

ThreeTokens == {t1, t2, t3}
TwoBrowsers == {b1, b2}
TwoCalls == {c1, c2}

AllFaults == SUBSET SessionFaults
NoFaults == {{}}

Symmetry == Permutations(Tokens) \cup Permutations(Browsers) \cup Permutations(Calls)
=============================================================================
