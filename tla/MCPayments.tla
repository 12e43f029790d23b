----------------------------- MODULE MCPayments -----------------------------
(* A small instance of the payment callbacks. *)
EXTENDS Payments

CONSTANTS p1, p2, h1, h2

OnePayment == {p1}
TwoPayments == {p1, p2}
TwoCallbacks == {h1, h2}

\* A fault only adds steps, except "timeout", which limits the pool too: each property
\* is put to the largest sets of faults that do not exempt it, and to all of them.
FaultSetsOf ==
  { Unfaithful \cup {"overlap", "fail", "timeout"},
    Unfaithful \cup {"overlap", "fail"},
    Unfaithful \cup {"overlap"},
    Unfaithful \cup {"fail", "timeout"},
    Unfaithful,
    {"overlap", "fail", "timeout"} }
=============================================================================
