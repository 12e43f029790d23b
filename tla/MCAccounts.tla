----------------------------- MODULE MCAccounts -----------------------------
(***************************************************************************)
(* Instance of two parts that share no state: the login of one phone, and  *)
(* the users with their roles and impersonations.  A behaviour looks at    *)
(* one of them, its focus.                                                 *)
(***************************************************************************)
EXTENDS Login, Accounts, TLC

CONSTANTS k1, k2, r1, v1, v2, root, p1, p2, c1, c2

VARIABLE focus

vars == <<loginVars, accountVars, focus>>

CodeIds == {k1, k2}
RequestIds == {r1}
VerifierIds == {v1, v2}
PhoneIds == {root, p1, p2}
CallIds == {c1, c2}

FaultsOf ==
  [login    |-> {{}, {"evict"}, {"overlap"}, {"late", "die"}, {"evict", "die"}},
   accounts |-> {{"onboard", "die"}, {"status", "onboard"}, {"status", "overlap"},
                 {"roles", "impersonate"}, {"roles", "impersonate", "promote"},
                 {"impersonate", "overlap"}, {"impersonate", "unknown"}, {"impersonate", "mute"},
                 {"impersonate", "die", "expire"}}]

AllFaults == UNION {FaultsOf[f] : f \in DOMAIN FaultsOf}

Symmetry ==
  UNION {Permutations(S) : S \in {CodeIds, VerifierIds, {p1, p2}, CallIds}}

Init ==
  /\ focus \in DOMAIN FaultsOf
  /\ LoginInit /\ AccountsInit
  /\ faults \in FaultsOf[focus]

InLogin(A) == focus = "login" /\ A /\ UNCHANGED <<accountVars, focus>>
InAccounts(A) == focus = "accounts" /\ A /\ UNCHANGED <<loginVars, focus>>

Next == InLogin(LoginNext) \/ InAccounts(AccountsNext)

Spec == Init /\ [][Next]_vars
=============================================================================
