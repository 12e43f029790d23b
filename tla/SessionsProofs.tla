---------------------------- MODULE SessionsProofs ----------------------------
(***************************************************************************)
(* Proofs about Sessions, Login and WebClient, the API's and the browser's *)
(* side of a session, for every set of tokens, browsers, tabs, calls and   *)
(* codes.                                                                  *)
(***************************************************************************)
EXTENDS Sessions, Login, WebClient, SequenceTheorems, SumProofs, TLAPS

(***************************************************************************)
(* Sessions. Inv holds whatever the faults, SerialInv when refreshes with  *)
(* one token do not overlap: what a transaction read without a lock cannot *)
(* have been exchanged by another one before its own UPDATE.               *)
(***************************************************************************)
\* Tokens that calls and browsers hold have been issued.
IssuedInv ==
  /\ \A b \in Browsers : cookie[b] # None => session[cookie[b]] # "ABSENT"
  /\ \A c \in Calls : pc[c] \in Working =>
       request[c] \in Requests /\ session[TokenOf(c)] # "ABSENT"

\* The replay branch is entered, and stays, with a revoked token.
ReplayInv ==
  \A c \in Calls : pc[c] \in {"replay", "match", "audit"} => session[TokenOf(c)] = "REVOKED"

Inv == TypeOK /\ IssuedInv /\ ReplayInv /\ ExchangedIsRevoked /\ NoFalseAlarm

SerialInv ==
  /\ \A c, d \in Calls :
       pc[c] \in Working /\ pc[d] \in Working /\ TokenOf(c) = TokenOf(d) => c = d
  /\ \A c \in Calls : pc[c] \in {"rotate", "create"} => \A t \in Tokens : parent[t] # TokenOf(c)
  /\ NeverForked
-----------------------------------------------------------------------------
(* The faults a behaviour meets are chosen once.                            *)
LEMMA FaultsAreFixed == [Next]_vars => UNCHANGED faults
BY DEF Next, vars, Login, Expire, Logout, RevokeOne, BeginRevokeAll, RevokeAll, Refresh,
   CallStep, FindSession, RevokeOld, CreateNew, Answer, BeginRevokeMatching, RevokeMatching,
   LogReplay, ThrowReplay, ThrowExpired, Loses, AllEnded

LEMMA InitInv == Init => Inv
<1> SUFFICES ASSUME Init PROVE Inv
  OBVIOUS
<1> USE DEF Init
<1>1. TypeOK
  BY DEF TypeOK
<1>2. IssuedInv /\ ReplayInv
  BY DEF IssuedInv, ReplayInv, Working, InTransaction
<1>3. ExchangedIsRevoked /\ NoFalseAlarm
  BY DEF ExchangedIsRevoked, NoFalseAlarm
<1>4. QED
  BY <1>1, <1>2, <1>3 DEF Inv

(* Logins, logouts, the clock, and revocations from outside a refresh.     *)
LEMMA OutsideKeepsInv ==
  ASSUME Inv, UNCHANGED faults,
         \/ \E b \in Browsers : Logout(b) \/ \E t \in Tokens : Login(b, t)
         \/ \E t \in Tokens : Expire(t) \/ RevokeOne(t)
         \/ BeginRevokeAll \/ RevokeAll
  PROVE  Inv'
<1> USE NoneAssumption DEF Inv, rows, calls, TokenOf
<1>1. ASSUME NEW b \in Browsers, NEW t \in Tokens, Login(b, t) PROVE Inv'
  <2>1. /\ session[t] = "ABSENT" /\ session' = [session EXCEPT ![t] = "ACTIVE"]
        /\ cookie' = [cookie EXCEPT ![b] = t]
        /\ UNCHANGED <<expired, parent, rowLock, detected, pc, request, matched, sweeping>>
    BY <1>1 DEF Login
  <2>2. TypeOK'
    BY <2>1 DEF TypeOK
  <2>3. IssuedInv'
    BY <2>1 DEF TypeOK, IssuedInv, Requests
  <2>4. ReplayInv' /\ ExchangedIsRevoked' /\ NoFalseAlarm'
    BY <2>1 DEF TypeOK, IssuedInv, ReplayInv, ExchangedIsRevoked, NoFalseAlarm, Working, InTransaction,
       Requests
  <2>5. QED
    BY <2>2, <2>3, <2>4
<1>2. ASSUME NEW b \in Browsers, Logout(b) PROVE Inv'
  BY <1>2 DEF Logout, TypeOK, IssuedInv, ReplayInv, ExchangedIsRevoked, NoFalseAlarm
<1>3. ASSUME NEW t \in Tokens, Expire(t) PROVE Inv'
  BY <1>3 DEF Expire, TypeOK, IssuedInv, ReplayInv, ExchangedIsRevoked, NoFalseAlarm
<1>4. ASSUME NEW S \in SUBSET Tokens,
             session' = [t \in Tokens |-> IF t \in S THEN "REVOKED" ELSE session[t]],
             sweeping' \subseteq Tokens,
             UNCHANGED <<expired, parent, cookie, rowLock, detected, pc, request, matched>>
      PROVE  Inv'
  <2>1. \A t \in Tokens : session'[t] = session[t] \/ session'[t] = "REVOKED"
    BY <1>4
  <2>2. TypeOK'
    BY <1>4 DEF TypeOK
  <2>3. IssuedInv'
    BY <1>4, <2>1 DEF TypeOK, IssuedInv, Requests
  <2>4. ReplayInv'
    BY <1>4, <2>1 DEF ReplayInv, IssuedInv, Requests, Working, InTransaction
  <2>5. ExchangedIsRevoked' /\ NoFalseAlarm'
    BY <1>4, <2>1 DEF TypeOK, ExchangedIsRevoked, NoFalseAlarm
  <2>6. QED
    BY <2>2, <2>3, <2>4, <2>5
<1>5. ASSUME NEW t \in Tokens, RevokeOne(t) PROVE Inv'
  <2>1. session' = [u \in Tokens |-> IF u \in {t} THEN "REVOKED" ELSE session[u]]
    BY <1>5 DEF RevokeOne, TypeOK
  <2>2. sweeping' \subseteq Tokens /\ {t} \in SUBSET Tokens
        /\ UNCHANGED <<expired, parent, cookie, rowLock, detected, pc, request, matched>>
    BY <1>5 DEF RevokeOne, TypeOK
  <2>3. QED
    BY <1>4, <2>1, <2>2
<1>6. CASE BeginRevokeAll
  BY <1>6 DEF BeginRevokeAll, Active, TypeOK, IssuedInv, ReplayInv, ExchangedIsRevoked, NoFalseAlarm
<1>7. CASE RevokeAll
  BY <1>4, <1>7 DEF RevokeAll, TypeOK
<1>8. QED
  BY <1>1, <1>2, <1>3, <1>5, <1>6, <1>7

(* A refresh call takes a step. *)
LEMMA CallKeepsInv ==
  ASSUME Inv, UNCHANGED faults, NEW c \in Calls,
         (\E b \in Browsers : Refresh(c, b)) \/ CallStep(c) \/ Loses(c)
  PROVE  Inv'
<1> USE NoneAssumption DEF Inv, rows, calls, TokenOf, Goto
<1>1. ASSUME NEW b \in Browsers, Refresh(c, b) PROVE Inv'
  <2>1. /\ cookie[b] \in Tokens
        /\ request' = [request EXCEPT ![c] = [browser |-> b, token |-> cookie[b]]]
        /\ pc' = [pc EXCEPT ![c] = "read"]
        /\ UNCHANGED <<session, expired, parent, cookie, rowLock, detected, matched, sweeping>>
    BY <1>1 DEF Refresh, TypeOK
  <2>2. TypeOK'
    BY <2>1 DEF TypeOK, Working, InTransaction, Requests
  <2>3. IssuedInv'
    BY <2>1 DEF TypeOK, IssuedInv, Requests
  <2>4. ReplayInv' /\ ExchangedIsRevoked' /\ NoFalseAlarm'
    BY <2>1 DEF TypeOK, ReplayInv, ExchangedIsRevoked, NoFalseAlarm
  <2>5. QED
    BY <2>2, <2>3, <2>4
<1>2. CASE FindSession(c)
  <2>1. pc' = [pc EXCEPT ![c] = pc'[c]] /\ pc[c] = "read"
        /\ pc'[c] \in {"replay", "expire", "rotate"}
        /\ (pc'[c] = "replay" => session[TokenOf(c)] = "REVOKED")
    BY <1>2 DEF FindSession, TypeOK
  <2>2. UNCHANGED <<session, expired, parent, cookie, rowLock, detected, request, matched, sweeping>>
    BY <1>2 DEF FindSession
  <2>3. TypeOK'
    BY <2>1, <2>2 DEF TypeOK, Working, InTransaction
  <2>4. \A d \in Calls : d # c => pc'[d] = pc[d]
    BY <2>1 DEF TypeOK
  <2>5. IssuedInv'
    BY <2>1, <2>2, <2>4 DEF IssuedInv, Working, InTransaction
  <2>6. ReplayInv' /\ ExchangedIsRevoked' /\ NoFalseAlarm'
    BY <2>1, <2>2, <2>4 DEF ReplayInv, ExchangedIsRevoked, NoFalseAlarm
  <2>7. QED
    BY <2>3, <2>5, <2>6
<1>3. ASSUME NEW t \in Tokens, CreateNew(c, t) PROVE Inv'
  <2> DEFINE old == request[c].token
  <2>1. /\ pc[c] = "create" /\ session[t] = "ABSENT"
        /\ session' = [session EXCEPT ![old] = "REVOKED", ![t] = "ACTIVE"]
        /\ parent' = [parent EXCEPT ![t] = old]
        /\ request' = [request EXCEPT ![c].token = t]
        /\ pc' = [pc EXCEPT ![c] = "answer"]
        /\ UNCHANGED <<expired, cookie, detected, matched, sweeping>>
    BY <1>3 DEF CreateNew
  <2>2. /\ request[c] \in Requests /\ old \in Tokens /\ old # t /\ session[old] # "ABSENT"
    BY <2>1 DEF IssuedInv, Working, InTransaction, Requests
  <2>3. /\ session'[t] = "ACTIVE" /\ session'[old] = "REVOKED"
        /\ \A u \in Tokens : u # t /\ u # old => session'[u] = session[u]
    BY <2>1, <2>2 DEF TypeOK
  <2>4. request'[c] \in Requests /\ request'[c].token = t
        /\ \A d \in Calls : d # c => request'[d] = request[d] /\ pc'[d] = pc[d]
    BY <2>1, <2>2 DEF TypeOK, Requests
  <2>5. TypeOK'
    <3>1. request' \in [Calls -> Requests \cup {NoRequest}]
      BY <2>1, <2>4 DEF TypeOK
    <3>2. session' \in [Tokens -> {"ABSENT", "ACTIVE", "REVOKED"}] /\ parent' \in [Tokens -> Tokens \cup {None}]
      BY <2>1, <2>2 DEF TypeOK
    <3>3. rowLock' \in [Tokens -> Calls \cup {None}] /\ pc' \in [Calls -> {"idle", "ended", "replayed"} \cup Working]
      BY <1>3 DEF CreateNew, Release, TypeOK, Working
    <3>4. QED
      BY <2>1, <3>1, <3>2, <3>3 DEF TypeOK
  <2>6. IssuedInv'
    <3>1. \A b \in Browsers : cookie'[b] # None => session'[cookie'[b]] # "ABSENT"
      BY <2>1, <2>3 DEF IssuedInv, TypeOK
    <3>2. \A d \in Calls : pc'[d] \in Working =>
            request'[d] \in Requests /\ session'[request'[d].token] # "ABSENT"
      BY <2>3, <2>4 DEF IssuedInv, Requests
    <3>3. QED
      BY <3>1, <3>2 DEF IssuedInv
  <2>7. ReplayInv'
    <3>1. ASSUME NEW d \in Calls, pc'[d] \in {"replay", "match", "audit"}
          PROVE  session'[request'[d].token] = "REVOKED"
      <4>1. d # c /\ session[request[d].token] = "REVOKED" /\ request[d].token \in Tokens
        BY <2>1, <2>4, <3>1 DEF ReplayInv, IssuedInv, Requests, Working, InTransaction, TypeOK
      <4>2. QED
        BY <2>1, <2>3, <2>4, <4>1
    <3>2. QED
      BY <3>1 DEF ReplayInv
  <2>8. ExchangedIsRevoked'
    BY <2>1, <2>2, <2>3 DEF ExchangedIsRevoked, TypeOK
  <2>9. NoFalseAlarm'
    BY <2>1, <2>3 DEF NoFalseAlarm, TypeOK
  <2>10. QED
    BY <2>5, <2>6, <2>7, <2>8, <2>9
<1>4. CASE RevokeOld(c) \/ BeginRevokeMatching(c) \/ RevokeMatching(c)
  <2>1. UNCHANGED <<session, expired, parent, cookie, detected, request, sweeping>>
    BY <1>4 DEF RevokeOld, BeginRevokeMatching, RevokeMatching
  <2>2. \/ pc[c] = "rotate" /\ pc' = [pc EXCEPT ![c] = "create"]
        \/ pc[c] = "replay" /\ pc' = [pc EXCEPT ![c] = "match"]
        \/ pc[c] = "match" /\ pc' = [pc EXCEPT ![c] = "audit"]
    BY <1>4 DEF RevokeOld, BeginRevokeMatching, RevokeMatching
  <2>3. rowLock' \in [Tokens -> Calls \cup {None}] /\ matched' \in [Calls -> SUBSET Tokens]
    <3>1. CASE RevokeOld(c)
      BY <3>1 DEF RevokeOld, TypeOK
    <3>2. CASE BeginRevokeMatching(c)
      <4>1. Active \in SUBSET Tokens
        BY DEF Active
      <4>2. QED
        BY <3>2, <4>1 DEF BeginRevokeMatching, TypeOK
    <3>3. CASE RevokeMatching(c)
      BY <3>3 DEF RevokeMatching, TypeOK
    <3>4. QED
      BY <1>4, <3>1, <3>2, <3>3
  <2>4. TypeOK'
    BY <2>1, <2>2, <2>3 DEF TypeOK, Working, InTransaction
  <2>5. IssuedInv' /\ ReplayInv' /\ ExchangedIsRevoked' /\ NoFalseAlarm'
    BY <2>1, <2>2 DEF TypeOK, IssuedInv, ReplayInv, ExchangedIsRevoked, NoFalseAlarm, Working, InTransaction
  <2>6. QED
    BY <2>4, <2>5
<1>5. CASE LogReplay(c)
  <2>1. pc[c] = "audit" /\ pc' = [pc EXCEPT ![c] = "throw"] /\ detected' = detected \cup {request[c].token}
        /\ UNCHANGED <<session, expired, parent, cookie, rowLock, request, matched, sweeping>>
    BY <1>5 DEF LogReplay
  <2>2. request[c].token \in Tokens /\ session[request[c].token] = "REVOKED"
    BY <2>1 DEF IssuedInv, ReplayInv, Requests, Working, InTransaction
  <2>3. TypeOK'
    BY <2>1, <2>2 DEF TypeOK, Working, InTransaction
  <2>4. IssuedInv' /\ ReplayInv'
    BY <2>1 DEF TypeOK, IssuedInv, ReplayInv, Working, InTransaction
  <2>5. QED
    BY <2>1, <2>2, <2>3, <2>4 DEF ExchangedIsRevoked, NoFalseAlarm
<1>6. CASE Answer(c)
  <2>1. /\ pc[c] = "answer" /\ pc' = [pc EXCEPT ![c] = "ended"] /\ request[c] \in Requests
        /\ cookie' = [cookie EXCEPT ![request[c].browser] = request[c].token]
        /\ session[request[c].token] # "ABSENT"
        /\ UNCHANGED <<session, expired, parent, rowLock, detected, request, matched, sweeping>>
    BY <1>6 DEF Answer, IssuedInv, Working
  <2>2. TypeOK'
    BY <2>1 DEF TypeOK, Requests
  <2>3. IssuedInv' /\ ReplayInv'
    BY <2>1 DEF TypeOK, IssuedInv, ReplayInv, Working, InTransaction, Requests
  <2>4. QED
    BY <2>1, <2>2, <2>3 DEF ExchangedIsRevoked, NoFalseAlarm
<1>7. CASE ThrowReplay(c) \/ ThrowExpired(c) \/ Loses(c)
  <2>1. UNCHANGED <<session, expired, parent, cookie, detected, request, matched, sweeping>>
        /\ rowLock' \in [Tokens -> Calls \cup {None}]
    BY <1>7 DEF ThrowReplay, ThrowExpired, Loses, Release, TypeOK
  <2>2. pc' = [pc EXCEPT ![c] = "ended"] \/ pc' = [pc EXCEPT ![c] = "replayed"]
    BY <1>7 DEF ThrowReplay, ThrowExpired, Loses
  <2>3. TypeOK' /\ \A d \in Calls : pc'[d] = pc[d] \/ pc'[d] \in {"ended", "replayed"}
    BY <2>1, <2>2 DEF TypeOK
  <2>4. IssuedInv' /\ ReplayInv'
    BY <2>1, <2>3 DEF IssuedInv, ReplayInv, Working, InTransaction
  <2>5. QED
    BY <2>1, <2>3, <2>4 DEF ExchangedIsRevoked, NoFalseAlarm
<1>8. QED
  BY <1>1, <1>2, <1>3, <1>4, <1>5, <1>6, <1>7 DEF CallStep

LEMMA NextKeepsInv == Inv /\ [Next]_vars => Inv'
<1> SUFFICES ASSUME Inv, [Next]_vars PROVE Inv'
  OBVIOUS
<1>1. CASE UNCHANGED vars
  BY <1>1 DEF vars, Inv, TypeOK, IssuedInv, ReplayInv, ExchangedIsRevoked, NoFalseAlarm, TokenOf
<1>2. QED
  BY <1>1, FaultsAreFixed, OutsideKeepsInv, CallKeepsInv DEF Next, AllEnded

LEMMA Invariant == Spec => []Inv
BY InitInv, NextKeepsInv, PTL DEF Spec

(* Every reachable state of the sessions is well typed. *)
THEOREM SessionsTypeOK == Spec => []TypeOK
<1>1. Inv => TypeOK
  BY DEF Inv
<1>2. QED
  BY <1>1, Invariant, PTL

(* The old session of every exchange is revoked, for good: revoking it and *)
(* creating the new one is one transaction, and no write undoes it.        *)
THEOREM SessionsExchangedIsRevoked == Spec => []ExchangedIsRevoked
<1>1. Inv => ExchangedIsRevoked
  BY DEF Inv
<1>2. QED
  BY <1>1, Invariant, PTL

(* SESSION_REPLAY is only ever logged for a token that had been revoked.   *)
THEOREM SessionsNoFalseAlarm == Spec => []NoFalseAlarm
<1>1. Inv => NoFalseAlarm
  BY DEF Inv
<1>2. QED
  BY <1>1, Invariant, PTL
-----------------------------------------------------------------------------
LEMMA NextKeepsSerial ==
  ASSUME "overlap" \notin faults, Inv, SerialInv, [Next]_vars
  PROVE  SerialInv'
<1> USE NoneAssumption DEF Inv, rows, calls, TokenOf, Goto
<1>1. CASE UNCHANGED vars
  BY <1>1 DEF vars, SerialInv, NeverForked
<1>2. CASE \/ \E b \in Browsers : Logout(b) \/ \E t \in Tokens : Login(b, t)
           \/ \E t \in Tokens : Expire(t) \/ RevokeOne(t)
           \/ BeginRevokeAll \/ RevokeAll
  <2>1. UNCHANGED <<parent, pc, request>>
    BY <1>2 DEF Logout, Login, Expire, RevokeOne, BeginRevokeAll, RevokeAll
  <2>2. QED
    BY <2>1 DEF SerialInv, NeverForked
<1>3. ASSUME NEW c \in Calls, NEW b \in Browsers, Refresh(c, b) PROVE SerialInv'
  <2>1. /\ \A d \in Calls : pc[d] \in Working => request[d].token # cookie[b]
        /\ request' = [request EXCEPT ![c] = [browser |-> b, token |-> cookie[b]]]
        /\ pc' = [pc EXCEPT ![c] = "read"] /\ parent' = parent
    BY <1>3 DEF Refresh
  <2>2. /\ pc'[c] = "read" /\ request'[c].token = cookie[b]
        /\ \A d \in Calls : d # c => pc'[d] = pc[d] /\ request'[d] = request[d]
    BY <2>1 DEF TypeOK
  <2>3. QED
    BY <2>1, <2>2 DEF SerialInv, NeverForked
<1>4. ASSUME NEW c \in Calls, FindSession(c) PROVE SerialInv'
  <2>1. /\ pc' = [pc EXCEPT ![c] = pc'[c]] /\ pc[c] = "read" /\ parent' = parent /\ request' = request
        /\ pc'[c] = "rotate" => session[request[c].token] # "REVOKED"
    BY <1>4 DEF FindSession, TypeOK
  <2>2. \A d \in Calls : d # c => pc'[d] = pc[d]
    BY <2>1 DEF TypeOK
  <2>3. pc'[c] = "rotate" => \A t \in Tokens : parent[t] # request[c].token
    BY <2>1 DEF ExchangedIsRevoked, IssuedInv, Requests, Working, InTransaction
  <2>4. pc'[c] # "create" /\ pc[c] \in Working
    BY <1>4, <2>1 DEF FindSession, TypeOK, Working, InTransaction
  <2>5. QED
    BY <2>1, <2>2, <2>3, <2>4 DEF SerialInv, NeverForked
<1>5. ASSUME NEW c \in Calls, NEW t \in Tokens, CreateNew(c, t) PROVE SerialInv'
  <2> DEFINE old == request[c].token
  <2>1. /\ pc[c] = "create" /\ session[t] = "ABSENT" /\ pc[c] \in Working
        /\ parent' = [parent EXCEPT ![t] = old]
        /\ request' = [request EXCEPT ![c].token = t]
        /\ pc' = [pc EXCEPT ![c] = "answer"]
    BY <1>5 DEF CreateNew, Working, InTransaction
  <2>2. /\ pc'[c] = "answer" /\ request'[c].token = t
        /\ \A d \in Calls : d # c => pc'[d] = pc[d] /\ request'[d] = request[d]
        /\ parent'[t] = old /\ \A u \in Tokens : u # t => parent'[u] = parent[u]
    BY <2>1 DEF TypeOK, IssuedInv, Requests
  <2>3. \A d \in Calls : d # c /\ pc[d] \in Working => request[d].token # t /\ request[d].token # old
    BY <2>1 DEF SerialInv, IssuedInv
  <2>4. \A u \in Tokens : parent[u] # old
    BY <2>1 DEF SerialInv
  <2>5. NeverForked'
    BY <2>2, <2>4 DEF SerialInv, NeverForked
  <2>6. \A d, e \in Calls : pc'[d] \in Working /\ pc'[e] \in Working
                            /\ request'[d].token = request'[e].token => d = e
    BY <2>2, <2>3 DEF SerialInv
  <2>7. \A d \in Calls : pc'[d] \in {"rotate", "create"} =>
          \A u \in Tokens : parent'[u] # request'[d].token
    BY <2>2, <2>3 DEF SerialInv, Working, InTransaction
  <2>8. QED
    BY <2>5, <2>6, <2>7 DEF SerialInv
<1>6. ASSUME NEW c \in Calls,
             \/ RevokeOld(c) \/ BeginRevokeMatching(c) \/ RevokeMatching(c) \/ LogReplay(c)
             \/ Answer(c) \/ ThrowReplay(c) \/ ThrowExpired(c) \/ Loses(c)
      PROVE  SerialInv'
  <2>1. /\ parent' = parent /\ request' = request /\ pc[c] \in Working
        /\ \A d \in Calls : d # c => pc'[d] = pc[d]
    BY <1>6 DEF RevokeOld, BeginRevokeMatching, RevokeMatching, LogReplay, Answer, ThrowReplay,
       ThrowExpired, Loses, TypeOK, Working, InTransaction
  <2>2. pc'[c] = "create" => pc[c] = "rotate"
    BY <1>6 DEF RevokeOld, BeginRevokeMatching, RevokeMatching, LogReplay, Answer, ThrowReplay,
       ThrowExpired, Loses, TypeOK
  <2>3. pc'[c] # "rotate"
    BY <1>6 DEF RevokeOld, BeginRevokeMatching, RevokeMatching, LogReplay, Answer, ThrowReplay,
       ThrowExpired, Loses, TypeOK
  <2>4. QED
    BY <2>1, <2>2, <2>3 DEF SerialInv, NeverForked
<1>7. QED
  BY <1>1, <1>2, <1>3, <1>4, <1>5, <1>6 DEF Next, CallStep, AllEnded

(* A token whose refreshes do not overlap is exchanged at most once, even  *)
(* if answers are lost and the session is revoked from elsewhere.          *)
THEOREM SessionsExchangedOnce == Spec => []ExchangedOnce
<1> DEFINE Guarded == "overlap" \in faults \/ SerialInv
<1>1. Init => Guarded
  BY DEF Init, SerialInv, NeverForked, Working, InTransaction
<1>2. Inv /\ Guarded /\ [Next]_vars => Guarded'
  <2> SUFFICES ASSUME Inv, Guarded, [Next]_vars PROVE Guarded'
    OBVIOUS
  <2>1. UNCHANGED faults
    BY FaultsAreFixed
  <2>2. CASE "overlap" \in faults
    BY <2>1, <2>2
  <2>3. CASE "overlap" \notin faults
    BY <2>3, NextKeepsSerial
  <2>4. QED
    BY <2>2, <2>3
<1>3. Guarded => ExchangedOnce
  BY DEF SerialInv, ExchangedOnce
<1> HIDE DEF Guarded
<1>4. QED
  BY <1>1, <1>2, <1>3, Invariant, PTL DEF Spec

(* A token that was exchanged is revoked, only a revoked one is reported as  *)
(* replayed, and unless refreshes overlap it is exchanged once.              *)
THEOREM SessionsExchangesAreSafe == Spec => []ExchangesAreSafe
BY SessionsTypeOK, SessionsExchangedIsRevoked, SessionsNoFalseAlarm,
   SessionsExchangedOnce,
   PTL DEF ExchangesAreSafe


-----------------------------------------------------------------------------
(***************************************************************************)
(* Login. LoginInv holds whatever the faults. It counts: the rows created  *)
(* and about to be are no more than the cooldowns begun, the comparisons   *)
(* no more than the counter of the row, and the sessions a row opened or   *)
(* may yet open no more than the verifications. LoginSerialInv is what     *)
(* holds in addition when calls do not overlap, and NewestInv when nothing *)
(* happens but that Redis drops the code.                                  *)
(***************************************************************************)
\* Where a verification has found a row, where the row has its code, and where it has
\* consumed it.
Compared == {"consume", "mark", "user", "create", "role", "session"}
\* Where a verification has found a row.
Found == {"expired", "count"} \cup Compared
\* Where it has consumed the row, and the user is to get in.
Entered == {"user", "create", "role", "session"}

\* The row a verification is at.
RowOf(v) == verifier[v].row
\* The verifications that may yet open a session with a row.
Heading(i) == {v \in Verifiers : verifierAt[v] \in Found /\ RowOf(v) = i}
\* The requests that have the cooldown and no row yet.
Creating == {r \in CodeRequests : requestAt[r] = "create"}

\* The row that a call has made or found is there; a verification that goes on after the
\* comparison has the row's code, and one that looks for the user has consumed it.
CallsAgree ==
  /\ \A r \in CodeRequests : requestAt[r] = "store" => sent[r] \in 1 .. Len(attempts)
  /\ \A v \in Verifiers :
       /\ verifierAt[v] \in Found => RowOf(v) \in 1 .. Len(attempts)
       /\ verifierAt[v] \in Compared => attempts[RowOf(v)].code = verifier[v].code
       /\ verifierAt[v] \in Entered => attempts[RowOf(v)].consumed

\* No more comparisons than were counted, and sessions only of consumed rows, of which
\* each verification that may still open one can add one.
AttemptsAgree ==
  \A i \in RowIds :
    /\ compared[i] <= MAX_ATTEMPTS
    /\ i \in 1 .. Len(attempts) => compared[i] <= attempts[i].attempts
    /\ i \notin 1 .. Len(attempts) => compared[i] = 0
    /\ opened[i] > 0 => i \in 1 .. Len(attempts) /\ attempts[i].consumed
    /\ opened[i] + Cardinality(Heading(i)) <= Cardinality(Verifiers)

\* A request that may still create a code holds a cooldown of its own.
CooldownsAgree ==
  Len(attempts) + Cardinality(Creating) <= lockedUntil /\ lockedUntil <= minute + 1

\* A user without a role is one whose creation died or is under way.
RoleIsComing ==
  account = "roleless" => "die" \in faults \/ \E v \in Verifiers : verifierAt[v] = "role"

\* Without time passing, a row that is being compared or consumed has not expired.
FreshInv ==
  "late" \notin faults =>
    \A v \in Verifiers :
      verifierAt[v] \in {"count", "consume"} => attempts[RowOf(v)].expiresAt >= minute

\* The inductive invariant, whatever the faults.
LoginInv == LoginTypeOK /\ CallsAgree /\ AttemptsAgree /\ CooldownsAgree /\ RoleIsComing /\ FreshInv

\* Without overlap, one call is under way, the row that it may consume is not consumed,
\* and the row that it has consumed has opened no session.
OneCall ==
  /\ \A r \in CodeRequests : requestAt[r] # "idle" =>
       (\A q \in CodeRequests : requestAt[q] # "idle" => q = r)
       /\ \A v \in Verifiers : verifierAt[v] = "idle"
  /\ \A v, w \in Verifiers : verifierAt[v] # "idle" /\ verifierAt[w] # "idle" => v = w
\* A row that is being consumed has not been; one that is consumed opens one session.
OneSession ==
  /\ \A v \in Verifiers :
       /\ verifierAt[v] \in {"count", "consume", "mark"} => ~attempts[RowOf(v)].consumed
       /\ verifierAt[v] \in Entered => opened[RowOf(v)] = 0
  /\ \A i \in RowIds : opened[i] <= 1
\* Unless the process dies, nobody gets in without the role.
MemberEnters ==
  "die" \notin faults =>
    /\ \A v \in Verifiers : verifierAt[v] = "session" => account = "member"
    /\ (\E i \in RowIds : opened[i] > 0) => account = "member"
\* What holds in addition when calls do not overlap.
LoginSerialInv == "overlap" \notin faults => OneCall /\ OneSession /\ MemberEnters

\* With nothing but a Redis that drops the code: what Redis holds, and what a
\* verification read there, is the code sent last, and that is the row it finds.
Newest == Len(attempts)
\* What Redis holds and what verifications read, when nothing but an eviction happens.
NewestInv ==
  faults \subseteq {"evict"} =>
    /\ (\A r \in CodeRequests : requestAt[r] = "idle") /\ fastPath # None
         => Newest > 0 /\ fastPath.code = attempts[Newest].code
    /\ \A r \in CodeRequests : requestAt[r] = "store" => sent[r] = Newest
    /\ \A v \in Verifiers :
         /\ verifierAt[v] = "find" /\ verifier[v].hash # None
              => Newest > 0 /\ verifier[v].hash = attempts[Newest].code
         /\ verifierAt[v] \in {"expired", "count"} /\ ~attempts[Newest].consumed => RowOf(v) = Newest
         /\ verifierAt[v] = "expired" => ~Usable(RowOf(v))
         /\ verifierAt[v] = "create" => account = None
         /\ verifierAt[v] \in Entered =>
              \A i \in 1 .. Newest : attempts[i].code = verifier[v].code => attempts[i].consumed
-----------------------------------------------------------------------------
LEMMA AttemptsAre ==
  ASSUME LoginTypeOK
  PROVE  /\ Len(attempts) \in Nat /\ Len(attempts) <= LastCode /\ LastCode \in Nat
         /\ \A i \in 1 .. Len(attempts) :
              /\ attempts[i] \in Attempt
              /\ attempts[i].code \in Codes /\ attempts[i].consumed \in BOOLEAN
              /\ attempts[i].attempts \in 0 .. MAX_ATTEMPTS + 1
              /\ attempts[i].expiresAt \in OTP_TTL .. LastMinute + OTP_TTL
<1>1. attempts \in Seq(Attempt) /\ Len(attempts) <= LastCode
  BY DEF LoginTypeOK
<1>2. Len(attempts) \in Nat /\ \A i \in 1 .. Len(attempts) : attempts[i] \in Attempt
  BY <1>1, LenProperties, ElementOfSeq
<1>3. LastCode \in Nat
  BY LoginAssumption
<1>4. QED
  BY <1>1, <1>2, <1>3 DEF Attempt

LEMMA MaxExists ==
  ASSUME NEW S, IsFiniteSet(S), S # {}
  PROVE  (\A i \in S : i \in Nat) => \E i \in S : \A j \in S : j <= i
<1> DEFINE Above(i) == {j \in S : i < j}
<1>1. PICK B : B = {Above(i) : i \in S}
  OBVIOUS
<1>2. B \in SUBSET (SUBSET S) /\ B # {}
  BY <1>1
<1>3. PICK T \in B : \A U \in B : U \subseteq T => U = T
  BY <1>2, MinimalSubset
<1> HAVE \A i \in S : i \in Nat
<1>4. PICK i \in S : T = Above(i)
  BY <1>1
<1>5. ASSUME NEW j \in S, ~(j <= i) PROVE FALSE
  <2>1. i \in Nat /\ j \in Nat /\ i < j
    BY <1>5
  <2>2. \A k \in S : j < k => i < k
    BY <2>1
  <2>3. Above(j) \subseteq Above(i)
    BY <2>2
  <2>4. j \in Above(i) /\ j \notin Above(j)
    BY <2>1
  <2>5. QED
    BY <1>1, <1>3, <1>4, <2>3, <2>4
<1>6. QED
  BY <1>5

\* Latest gives the last of some rows.
LEMMA LatestIsLast ==
  ASSUME NEW n \in Nat, NEW S \in SUBSET (1 .. n)
  PROVE  /\ S = {} => Latest(S) = 0
         /\ S # {} => Latest(S) \in S /\ \A j \in S : j <= Latest(S)
<1>1. IsFiniteSet(1 .. n)
  BY FS_Interval
<1>2. IsFiniteSet(S)
  BY <1>1, FS_Subset
<1>3. \A i \in S : i \in Nat
  OBVIOUS
<1>4. S # {} => \E i \in S : \A j \in S : j <= i
  BY <1>2, <1>3, MaxExists
<1>5. QED
  BY <1>4 DEF Latest

\* Rows that no further verification heads for keep their count.
LEMMA StillCounted ==
  ASSUME LoginInv, LoginTypeOK', opened' = opened, NEW i \in RowIds, Heading(i)' \subseteq Heading(i)
  PROVE  opened'[i] + Cardinality(Heading(i)') <= Cardinality(Verifiers)
<1>1. IsFiniteSet(Heading(i)) /\ IsFiniteSet(Verifiers)
  BY LoginAssumption, FS_Subset DEF Heading
<1>2. /\ Cardinality(Heading(i)') \in Nat /\ Cardinality(Heading(i)) \in Nat
      /\ Cardinality(Verifiers) \in Nat /\ Cardinality(Heading(i)') <= Cardinality(Heading(i))
  BY <1>1, FS_Subset, FS_CardinalityType
<1>3. opened[i] + Cardinality(Heading(i)) <= Cardinality(Verifiers) /\ opened[i] \in Nat
  BY <1>2 DEF LoginInv, AttemptsAgree, LoginTypeOK
<1>4. QED
  BY <1>2, <1>3

LEMMA StartsInv == LoginInit => LoginInv
<1> SUFFICES ASSUME LoginInit PROVE LoginInv
  OBVIOUS
<1> USE LoginAssumption DEF LoginInit
<1>1. Len(attempts) = 0 /\ attempts \in Seq(Attempt)
  OBVIOUS
<1>2. Cardinality(Verifiers) \in Nat /\ \A i \in RowIds : Heading(i) = {} /\ Cardinality(Heading(i)) = 0
  BY FS_CardinalityType, FS_EmptySet DEF Heading, Found, Compared
<1>3. Creating = {} /\ Cardinality(Creating) = 0
  BY FS_EmptySet DEF Creating
<1>4. LoginTypeOK
  BY <1>1, <1>2 DEF LoginTypeOK, Minutes, OTP_LOCK, Idle
<1>5. CallsAgree /\ RoleIsComing /\ FreshInv
  BY DEF CallsAgree, RoleIsComing, FreshInv, Found, Compared, Entered
<1>6. AttemptsAgree
  BY <1>1, <1>2 DEF AttemptsAgree
<1>7. CooldownsAgree
  BY <1>1, <1>3 DEF CooldownsAgree
<1>8. QED
  BY <1>4, <1>5, <1>6, <1>7 DEF LoginInv
-----------------------------------------------------------------------------
(* A request takes a step.                                                   *)
LEMMA AcquireKeepsInv == ASSUME LoginInv, NEW r \in CodeRequests, AcquireLock(r) PROVE LoginInv'
<1> USE LoginAssumption, AttemptsAre DEF LoginInv
<1>1. /\ requestAt[r] = "idle" /\ lockedUntil <= minute /\ lockedUntil' = minute + 1
      /\ requestAt' = [requestAt EXCEPT ![r] = "create"]
      /\ UNCHANGED <<minute, fastPath, attempts, sent, verifier, verifierAt, account, opened,
                     compared, faults>>
  BY DEF AcquireLock, RequestTo, OTP_LOCK
<1>2. LoginTypeOK'
  BY <1>1 DEF LoginTypeOK, Minutes, OTP_LOCK, OTP_TTL
<1>3. CallsAgree' /\ RoleIsComing' /\ FreshInv'
  BY <1>1 DEF CallsAgree, RoleIsComing, FreshInv, RowOf, LoginTypeOK
<1>4. AttemptsAgree'
  BY <1>1 DEF AttemptsAgree, Heading, RowOf
<1>5. CooldownsAgree'
  <2>1. Creating' = Creating \cup {r} /\ r \notin Creating /\ IsFiniteSet(Creating)
    BY <1>1, FS_Subset DEF Creating, LoginTypeOK
  <2>2. Cardinality(Creating') = Cardinality(Creating) + 1 /\ Cardinality(Creating) \in Nat
    BY <2>1, FS_AddElement, FS_CardinalityType
  <2>3. QED
    BY <1>1, <2>2 DEF CooldownsAgree, LoginTypeOK, Minutes
<1>6. QED
  BY <1>2, <1>3, <1>4, <1>5

LEMMA CreateKeepsInv == ASSUME LoginInv, NEW r \in CodeRequests, CreateAttempt(r) PROVE LoginInv'
<1> USE LoginAssumption, AttemptsAre DEF LoginInv
<1>1. PICK code \in Codes :
        attempts' = Append(attempts, [code |-> code, expiresAt |-> minute + OTP_TTL,
                                      attempts |-> 0, consumed |-> FALSE])
  BY DEF CreateAttempt
<1>2. /\ requestAt[r] = "create" /\ Len(attempts) < LastCode
      /\ sent' = [sent EXCEPT ![r] = Len(attempts) + 1]
      /\ requestAt' = [requestAt EXCEPT ![r] = "store"]
      /\ UNCHANGED <<minute, lockedUntil, fastPath, verifier, verifierAt, account, opened,
                     compared, faults>>
  BY DEF CreateAttempt, RequestTo, redisKeys
<1> DEFINE new == [code |-> code, expiresAt |-> minute + OTP_TTL, attempts |-> 0, consumed |-> FALSE]
<1>3. new \in Attempt
  BY DEF Attempt, OTP_TTL, LoginTypeOK, Minutes
<1>4. /\ attempts' \in Seq(Attempt) /\ Len(attempts') = Len(attempts) + 1
      /\ \A i \in 1 .. Len(attempts) : attempts'[i] = attempts[i]
      /\ attempts'[Len(attempts) + 1] = new
  BY <1>1, <1>3, AppendProperties DEF LoginTypeOK
<1>5. LoginTypeOK'
  BY <1>2, <1>4 DEF LoginTypeOK
<1>6. CallsAgree'
  BY SMTT(30), <1>2, <1>4 DEF CallsAgree, RowOf, LoginTypeOK, Found, Compared, Entered
<1>7. AttemptsAgree'
  <2>1. \A i \in RowIds : Heading(i)' = Heading(i)
    BY <1>2 DEF Heading, RowOf
  <2>2. QED
    BY <1>2, <1>4, <2>1 DEF AttemptsAgree, LoginTypeOK
<1>8. CooldownsAgree'
  <2>1. Creating' = Creating \ {r} /\ r \in Creating /\ IsFiniteSet(Creating)
    BY <1>2, FS_Subset DEF Creating, LoginTypeOK
  <2>2. Cardinality(Creating') = Cardinality(Creating) - 1 /\ Cardinality(Creating) \in Nat
    BY <2>1, FS_RemoveElement, FS_CardinalityType
  <2>3. QED
    BY <1>2, <1>4, <2>2 DEF CooldownsAgree
<1>9. RoleIsComing' /\ FreshInv'
  BY <1>2, <1>4 DEF RoleIsComing, FreshInv, RowOf, CallsAgree, Found, Compared
<1>10. QED
  BY <1>5, <1>6, <1>7, <1>8, <1>9

\* The code is in Redis, or the request has died.
LEMMA RequestEndsKeepsInv ==
  ASSUME LoginInv, NEW r \in CodeRequests, requestAt[r] # "idle", RequestTo(r, "idle"),
         sent' = [sent EXCEPT ![r] = 0],
         fastPath' \in [code : Codes, until : 0 .. LastMinute + OTP_TTL] \cup {None},
         UNCHANGED <<minute, lockedUntil, attempts, verifier, verifierAt, account, opened,
                     compared, faults>>
  PROVE  LoginInv'
<1> USE LoginAssumption, AttemptsAre DEF LoginInv, RequestTo
<1>1. LoginTypeOK'
  BY DEF LoginTypeOK
<1>2. CallsAgree' /\ RoleIsComing' /\ FreshInv'
  BY DEF CallsAgree, RoleIsComing, FreshInv, RowOf, LoginTypeOK
<1>3. AttemptsAgree'
  BY DEF AttemptsAgree, Heading, RowOf
<1>4. CooldownsAgree'
  <2>1. Creating' \subseteq Creating /\ IsFiniteSet(Creating)
    BY FS_Subset DEF Creating, LoginTypeOK
  <2>2. /\ Cardinality(Creating') <= Cardinality(Creating)
        /\ Cardinality(Creating') \in Nat /\ Cardinality(Creating) \in Nat
    BY <2>1, FS_Subset, FS_CardinalityType
  <2>3. QED
    BY <2>2 DEF CooldownsAgree, LoginTypeOK, Minutes, OTP_LOCK
<1>5. QED
  BY <1>1, <1>2, <1>3, <1>4
-----------------------------------------------------------------------------
(* A verification takes a step.                                              *)

\* It goes on with the row it had, and the codes and what is consumed are as they were.
LEMMA MovesKeepInv ==
  ASSUME LoginInv, NEW v \in Verifiers,
         NEW place \in {"idle", "read", "find", "expired", "mark", "user", "create", "role", "session"},
         verifierAt' = [verifierAt EXCEPT ![v] = place],
         NEW was \in [code : Codes \cup {None}, hash : Codes \cup {None}, row : 0 .. LastCode],
         verifier' = [verifier EXCEPT ![v] = was],
         place \in Found => verifierAt[v] \in Found /\ was = verifier[v],
         place \in Compared => verifierAt[v] \in Compared,
         place \in Entered => verifierAt[v] \in Entered,
         verifierAt[v] = "role" => account' # "roleless",
         fastPath' \in [code : Codes, until : 0 .. LastMinute + OTP_TTL] \cup {None},
         account' \in {None, "roleless", "member"},
         account' = "roleless" => account = "roleless" \/ place = "role",
         UNCHANGED <<minute, lockedUntil, attempts, requestAt, sent, opened, compared, faults>>
  PROVE  LoginInv'
<1> USE AttemptsAre DEF LoginInv
<1>1. /\ verifierAt'[v] = place /\ verifier'[v] = was
      /\ \A w \in Verifiers : w # v => verifierAt'[w] = verifierAt[w] /\ verifier'[w] = verifier[w]
  BY DEF LoginTypeOK
<1>2. LoginTypeOK'
  BY DEF LoginTypeOK
<1>3. CallsAgree'
  BY <1>1 DEF CallsAgree, RowOf, Found, Compared, Entered
<1>4. AttemptsAgree'
  <2>1. \A i \in RowIds : Heading(i)' \subseteq Heading(i)
    BY <1>1 DEF Heading, RowOf
  <2>2. \A i \in RowIds : opened'[i] + Cardinality(Heading(i)') <= Cardinality(Verifiers)
    BY <1>2, <2>1, StillCounted
  <2>3. QED
    BY <2>2 DEF AttemptsAgree
<1>5. CooldownsAgree'
  BY DEF CooldownsAgree, Creating
<1>6. RoleIsComing' /\ FreshInv'
  BY <1>1 DEF RoleIsComing, FreshInv, RowOf
<1>7. QED
  BY <1>2, <1>3, <1>4, <1>5, <1>6

LEMMA FindKeepsInv == ASSUME LoginInv, NEW v \in Verifiers, FindAttempt(v) PROVE LoginInv'
<1> DEFINE hash == verifier[v].hash
           matching == {i \in Unconsumed : hash # None => attempts[i].code = hash}
           row == Latest(matching)
<1> USE AttemptsAre DEF LoginInv
<1>1. matching \in SUBSET (1 .. Len(attempts)) /\ Len(attempts) \in Nat
  BY DEF Unconsumed
<1>2. verifier[v] \in [code : Codes \cup {None}, hash : Codes \cup {None}, row : 0 .. LastCode]
  BY DEF LoginTypeOK
<1>3. UNCHANGED <<minute, lockedUntil, fastPath, attempts, requestAt, sent, account, opened,
                  compared, faults>> /\ verifierAt[v] = "find"
  BY DEF FindAttempt, redisKeys
<1>4. CASE row = 0
  <2>1. verifierAt' = [verifierAt EXCEPT ![v] = "idle"] /\ verifier' = [verifier EXCEPT ![v] = Idle]
    BY <1>4 DEF FindAttempt, EndVerify, VerifierTo
  <2>2. Idle \in [code : Codes \cup {None}, hash : Codes \cup {None}, row : 0 .. LastCode]
    BY DEF Idle
  <2>3. fastPath' \in [code : Codes, until : 0 .. LastMinute + OTP_TTL] \cup {None}
        /\ account' \in {None, "roleless", "member"}
    BY <1>3 DEF LoginTypeOK
  <2>4. QED
    BY <1>3, <2>1, <2>2, <2>3, MovesKeepInv DEF Found, Compared, Entered
<1>5. CASE row # 0
  <2>1. row \in matching
    BY <1>1, <1>5, LatestIsLast
  <2>2. row \in 1 .. Len(attempts) /\ ~attempts[row].consumed /\ row \in RowIds
    BY <1>1, <2>1 DEF Unconsumed, RowIds
  <2>3. PICK place \in {"expired", "count"} :
          /\ verifierAt' = [verifierAt EXCEPT ![v] = place]
          /\ place = "count" => ~(attempts[row].expiresAt < minute)
    BY <1>5 DEF FindAttempt, VerifierTo
  <2>4. verifier' = [verifier EXCEPT ![v].row = row]
    BY <1>5 DEF FindAttempt
  <2> HIDE DEF row, matching, hash
  <2>5. /\ verifierAt'[v] = place /\ verifier'[v].row = row
        /\ \A w \in Verifiers : w # v => verifierAt'[w] = verifierAt[w] /\ verifier'[w] = verifier[w]
    BY <1>2, <2>3, <2>4 DEF LoginTypeOK
  <2>6. LoginTypeOK'
    <3>1. verifier'[v] \in [code : Codes \cup {None}, hash : Codes \cup {None}, row : 0 .. LastCode]
      <4>1. verifier'[v] = [verifier[v] EXCEPT !.row = row] /\ row \in 0 .. LastCode
        BY <2>2, <2>4 DEF LoginTypeOK, RowIds
      <4>2. QED
        BY <1>2, <4>1
    <3>2. QED
      BY <1>3, <2>3, <2>4, <3>1 DEF LoginTypeOK
  <2>7. CallsAgree'
    BY <1>3, <2>2, <2>3, <2>5 DEF CallsAgree, RowOf, Found, Compared, Entered
  <2>8. AttemptsAgree'
    <3>1. PICK n \in RowIds : n = row
      BY <2>2
    <3>2. \A i \in RowIds : i # n => Heading(i)' \subseteq Heading(i)
      BY <1>3, <2>5, <3>1 DEF Heading, RowOf, Found, Compared
    <3>3. \A i \in RowIds : i # n =>
            opened'[i] + Cardinality(Heading(i)') <= Cardinality(Verifiers)
      BY <1>3, <2>6, <3>2, StillCounted
    <3>4. opened'[n] = 0
      BY <1>3, <2>2, <3>1 DEF AttemptsAgree, LoginTypeOK
    <3>5. Cardinality(Heading(n)') <= Cardinality(Verifiers) /\ Cardinality(Heading(n)') \in Nat
      BY LoginAssumption, FS_Subset, FS_CardinalityType DEF Heading
    <3>6. opened'[n] + Cardinality(Heading(n)') <= Cardinality(Verifiers)
      BY LoginAssumption, <3>4, <3>5, FS_CardinalityType
    <3>7. \A i \in RowIds : opened'[i] + Cardinality(Heading(i)') <= Cardinality(Verifiers)
      BY <3>3, <3>6
    <3>8. QED
      BY <1>3, <3>7 DEF AttemptsAgree
  <2>9. CooldownsAgree' /\ RoleIsComing'
    BY <1>3, <2>3, <2>5 DEF CooldownsAgree, Creating, RoleIsComing
  <2>10. FreshInv'
    BY SMTT(30), <1>3, <2>2, <2>3, <2>5 DEF FreshInv, RowOf, LoginTypeOK, Minutes
  <2>11. QED
    BY <2>6, <2>7, <2>8, <2>9, <2>10
<1>6. QED
  BY <1>4, <1>5

LEMMA CountKeepsInv == ASSUME LoginInv, NEW v \in Verifiers, CountAndCompare(v) PROVE LoginInv'
<1> DEFINE row == RowOf(v)
<1> USE AttemptsAre DEF LoginInv
<1>1. verifierAt[v] = "count" /\ row \in 1 .. Len(attempts) /\ row \in RowIds
      /\ UNCHANGED <<minute, lockedUntil, fastPath, requestAt, sent, account, opened, faults>>
  BY DEF CountAndCompare, CallsAgree, Found, redisKeys, RowIds
<1>2. attempts' = IF attempts[row].attempts <= MAX_ATTEMPTS
                  THEN [attempts EXCEPT ![row].attempts = @ + 1] ELSE attempts
  BY DEF CountAndCompare, RowOf
<1>3. /\ attempts' \in Seq(Attempt) /\ Len(attempts') = Len(attempts)
      /\ \A i \in 1 .. Len(attempts) :
           /\ attempts'[i].code = attempts[i].code /\ attempts'[i].consumed = attempts[i].consumed
           /\ attempts'[i].expiresAt = attempts[i].expiresAt
           /\ attempts'[i].attempts >= attempts[i].attempts
      /\ attempts[row].attempts <= MAX_ATTEMPTS => attempts'[row].attempts = attempts[row].attempts + 1
  <2>1. CASE attempts[row].attempts <= MAX_ATTEMPTS
    <3> DEFINE new == [attempts[row] EXCEPT !.attempts = @ + 1]
    <3>1. new \in Attempt /\ new.code = attempts[row].code /\ new.consumed = attempts[row].consumed
          /\ new.expiresAt = attempts[row].expiresAt /\ new.attempts = attempts[row].attempts + 1
      BY LoginAssumption, <1>1, <2>1 DEF Attempt
    <3>2. attempts' = [attempts EXCEPT ![row] = new]
      BY <1>2, <2>1
    <3>3. /\ attempts' \in Seq(Attempt) /\ Len(attempts') = Len(attempts)
          /\ \A i \in 1 .. Len(attempts) : attempts'[i] = IF i = row THEN new ELSE attempts[i]
      <4>1. attempts \in Seq(Attempt)
        BY DEF LoginTypeOK
      <4> HIDE DEF new
      <4>2. QED
        BY <1>1, <3>1, <3>2, <4>1, ExceptSeq
    <3>4. \A i \in 1 .. Len(attempts) : attempts[i].attempts \in Int
      BY DEF Attempt
    <3> HIDE DEF new
    <3>5. \A i \in 1 .. Len(attempts) :
            /\ attempts'[i].code = attempts[i].code /\ attempts'[i].consumed = attempts[i].consumed
            /\ attempts'[i].expiresAt = attempts[i].expiresAt
            /\ attempts'[i].attempts >= attempts[i].attempts
      BY SMTT(30), <1>1, <3>1, <3>3, <3>4
    <3>6. QED
      BY <1>1, <3>1, <3>3, <3>5
  <2>2. CASE ~(attempts[row].attempts <= MAX_ATTEMPTS)
    <3>1. attempts' = attempts /\ attempts \in Seq(Attempt)
      BY <1>2, <2>2 DEF LoginTypeOK
    <3>2. \A i \in 1 .. Len(attempts) : attempts'[i].attempts >= attempts[i].attempts
      <4>1. \A i \in 1 .. Len(attempts) : attempts[i].attempts \in Int
        OBVIOUS
      <4>2. QED
        BY <3>1, <4>1
    <3>3. \A i \in 1 .. Len(attempts) :
            /\ attempts'[i].code = attempts[i].code /\ attempts'[i].consumed = attempts[i].consumed
            /\ attempts'[i].expiresAt = attempts[i].expiresAt
      BY <3>1
    <3>4. attempts' \in Seq(Attempt) /\ Len(attempts') = Len(attempts)
      BY <3>1
    <3>5. attempts[row].attempts <= MAX_ATTEMPTS => attempts'[row].attempts = attempts[row].attempts + 1
      BY <2>2
    <3>6. QED
      BY <3>2, <3>3, <3>4, <3>5
  <2>3. QED
    BY <2>1, <2>2
<1>4. PICK place \in {"expired", "consume", "idle"} :
        /\ verifierAt' = [verifierAt EXCEPT ![v] = place]
        /\ place = "consume" => attempts[row].code = verifier[v].code
        /\ verifier' = IF place = "idle" THEN [verifier EXCEPT ![v] = Idle] ELSE verifier
        /\ compared' = IF place = "expired" THEN compared ELSE [compared EXCEPT ![row] = @ + 1]
        /\ place # "expired" => attempts[row].attempts < MAX_ATTEMPTS
  <2>1. CASE attempts[row].attempts >= MAX_ATTEMPTS
    BY <2>1 DEF CountAndCompare, VerifierTo, RowOf
  <2>2. CASE ~(attempts[row].attempts >= MAX_ATTEMPTS)
    <3>1. attempts[row].attempts < MAX_ATTEMPTS
      BY LoginAssumption, <1>1, <2>2
    <3>2. QED
      BY <2>2, <3>1 DEF CountAndCompare, VerifierTo, EndVerify, RowOf
  <2>3. QED
    BY <2>1, <2>2
<1>5. /\ verifierAt'[v] = place
      /\ place # "idle" => verifier'[v] = verifier[v]
      /\ \A w \in Verifiers : w # v => verifierAt'[w] = verifierAt[w] /\ verifier'[w] = verifier[w]
  BY <1>4 DEF LoginTypeOK
<1>6. LoginTypeOK'
  <2>1. verifier' \in [Verifiers -> [code : Codes \cup {None}, hash : Codes \cup {None}, row : 0 .. LastCode]]
    BY <1>4 DEF LoginTypeOK, Idle
  <2>2. compared' \in [RowIds -> Nat]
    BY <1>1, <1>4 DEF LoginTypeOK
  <2>3. QED
    BY <1>1, <1>3, <1>4, <2>1, <2>2 DEF LoginTypeOK
<1>7. CallsAgree'
  <2>1. \A r \in CodeRequests : requestAt'[r] = "store" => sent'[r] \in 1 .. Len(attempts')
    BY <1>1, <1>3 DEF CallsAgree
  <2>2. ASSUME NEW w \in Verifiers, w # v
        PROVE  /\ verifierAt'[w] \in Found => RowOf(w)' \in 1 .. Len(attempts')
               /\ verifierAt'[w] \in Compared => attempts'[RowOf(w)'].code = verifier'[w].code
               /\ verifierAt'[w] \in Entered => attempts'[RowOf(w)'].consumed
    BY <1>3, <1>5, <2>2 DEF CallsAgree, RowOf, Found, Compared, Entered
  <2>3. verifierAt'[v] \in Found => place # "idle" /\ RowOf(v)' = row
        /\ (verifierAt'[v] \in Compared => place = "consume") /\ verifierAt'[v] \notin Entered
    BY <1>5 DEF RowOf, Found, Compared, Entered
  <2>4. /\ verifierAt'[v] \in Found => RowOf(v)' \in 1 .. Len(attempts')
        /\ verifierAt'[v] \in Compared => attempts'[RowOf(v)'].code = verifier'[v].code
        /\ verifierAt'[v] \notin Entered
    BY <1>1, <1>3, <1>4, <1>5, <2>3 DEF Found, Compared, Entered
  <2>5. QED
    BY <2>1, <2>2, <2>4 DEF CallsAgree
<1>8. AttemptsAgree'
  <2>1. \A i \in RowIds : Heading(i)' \subseteq Heading(i)
    <3>1. verifierAt'[v] \in Found => verifier'[v] = verifier[v]
      BY <1>5 DEF Found, Compared
    <3>2. verifierAt[v] \in Found
      BY <1>1 DEF Found
    <3>3. QED
      BY <1>5, <3>1, <3>2 DEF Heading, RowOf
  <2>2. \A i \in RowIds : opened'[i] + Cardinality(Heading(i)') <= Cardinality(Verifiers)
    BY <1>1, <1>6, <2>1, StillCounted
  <2>3. \A i \in RowIds : compared'[i] <= MAX_ATTEMPTS
          /\ (i \in 1 .. Len(attempts) => compared'[i] <= attempts'[i].attempts)
          /\ (i \notin 1 .. Len(attempts) => compared'[i] = 0)
    <3>1. \A i \in RowIds : i # row => compared'[i] = compared[i]
      BY <1>4 DEF LoginTypeOK
    <3>2. compared'[row] <= MAX_ATTEMPTS /\ compared'[row] <= attempts'[row].attempts
      <4>1. compared[row] \in Nat /\ compared[row] <= MAX_ATTEMPTS
            /\ compared[row] <= attempts[row].attempts /\ attempts[row].attempts \in Nat
        BY LoginAssumption, <1>1 DEF AttemptsAgree, LoginTypeOK
      <4>2. compared'[row] = IF place = "expired" THEN compared[row] ELSE compared[row] + 1
        BY <1>1, <1>4 DEF LoginTypeOK
      <4>3. attempts'[row].attempts \in Nat /\ attempts'[row].attempts >= attempts[row].attempts
        <5>1. attempts'[row] \in Attempt
          BY <1>1, <1>3, ElementOfSeq
        <5>2. QED
          BY <1>1, <1>3, <5>1 DEF Attempt
      <4>4. QED
        BY SMTT(30), LoginAssumption, <1>3, <1>4, <4>1, <4>2, <4>3
    <3>3. \A i \in 1 .. Len(attempts) : compared[i] <= attempts[i].attempts => compared[i] <= attempts'[i].attempts
      <4>1. \A i \in 1 .. Len(attempts) : attempts'[i].attempts \in Nat /\ compared[i] \in Nat
        <5>1. \A i \in 1 .. Len(attempts) : attempts'[i] \in Attempt /\ i \in RowIds
          BY <1>3, ElementOfSeq DEF RowIds
        <5>2. QED
          BY <5>1 DEF Attempt, LoginTypeOK
      <4>2. QED
        BY LoginAssumption, <1>3, <4>1
    <3>4. QED
      BY <1>1, <3>1, <3>2, <3>3 DEF AttemptsAgree
  <2>4. QED
    BY <1>1, <1>3, <2>2, <2>3 DEF AttemptsAgree
<1>9. CooldownsAgree' /\ RoleIsComing'
  BY <1>1, <1>3, <1>4, <1>5 DEF CooldownsAgree, Creating, RoleIsComing
<1>10. FreshInv'
  <2>1. ASSUME NEW w \in Verifiers, "late" \notin faults, verifierAt'[w] \in {"count", "consume"}
        PROVE  attempts'[RowOf(w)'].expiresAt >= minute
    <3>1. /\ verifierAt[w] \in {"count", "consume"} /\ RowOf(w)' = RowOf(w)
          /\ RowOf(w) \in 1 .. Len(attempts)
      BY <1>1, <1>5, <2>1 DEF CallsAgree, RowOf, Found, Compared
    <3>2. QED
      BY <1>3, <2>1, <3>1 DEF FreshInv
  <2>2. QED
    BY <1>1, <2>1 DEF FreshInv
<1>11. QED
  BY <1>6, <1>7, <1>8, <1>9, <1>10

LEMMA MarkKeepsInv == ASSUME LoginInv, NEW v \in Verifiers, MarkConsumed(v) PROVE LoginInv'
<1> USE AttemptsAre DEF LoginInv
<1>1. verifierAt[v] = "mark" /\ RowOf(v) \in 1 .. Len(attempts) /\ attempts[RowOf(v)].code = verifier[v].code
      /\ UNCHANGED <<minute, lockedUntil, fastPath, requestAt, sent, verifier, account, opened,
                     compared, faults>>
      /\ verifierAt' = [verifierAt EXCEPT ![v] = "user"]
  BY DEF MarkConsumed, CallsAgree, Found, Compared, redisKeys, VerifierTo
<1>2. attempts' = [i \in 1 .. Len(attempts) |->
        [attempts[i] EXCEPT !.consumed = @ \/ attempts[i].code = verifier[v].code]]
  BY DEF MarkConsumed
<1>3. attempts' \in Seq(Attempt) /\ Len(attempts') = Len(attempts)
  <2>1. attempts' \in [1 .. Len(attempts) -> Attempt]
    BY <1>2 DEF Attempt
  <2>2. QED
    BY <2>1
<1>4. \A i \in 1 .. Len(attempts) :
        /\ attempts'[i].code = attempts[i].code /\ attempts'[i].expiresAt = attempts[i].expiresAt
        /\ attempts'[i].attempts = attempts[i].attempts
        /\ attempts'[i].consumed <=> attempts[i].consumed \/ attempts[i].code = verifier[v].code
  BY <1>2 DEF Attempt
<1>5. /\ verifierAt'[v] = "user"
      /\ \A w \in Verifiers : w # v => verifierAt'[w] = verifierAt[w]
  BY <1>1 DEF LoginTypeOK
<1>6. LoginTypeOK'
  BY <1>1, <1>3 DEF LoginTypeOK
<1>7. CallsAgree'
  BY <1>1, <1>3, <1>4, <1>5 DEF CallsAgree, RowOf, Found, Compared, Entered
<1>8. AttemptsAgree'
  <2>1. \A i \in RowIds : Heading(i)' \subseteq Heading(i)
    BY <1>1, <1>5 DEF Heading, RowOf, Found, Compared
  <2>2. \A i \in RowIds : opened'[i] + Cardinality(Heading(i)') <= Cardinality(Verifiers)
    BY <1>1, <1>6, <2>1, StillCounted
  <2>3. QED
    BY <1>1, <1>3, <1>4, <2>2 DEF AttemptsAgree
<1>9. CooldownsAgree' /\ RoleIsComing'
  BY <1>1, <1>3, <1>5 DEF CooldownsAgree, Creating, RoleIsComing
<1>10. FreshInv'
  <2>1. ASSUME NEW w \in Verifiers, "late" \notin faults, verifierAt'[w] \in {"count", "consume"}
        PROVE  attempts'[RowOf(w)'].expiresAt >= minute
    <3>1. /\ verifierAt[w] \in {"count", "consume"} /\ RowOf(w)' = RowOf(w)
          /\ RowOf(w) \in 1 .. Len(attempts)
      BY <1>1, <1>5, <2>1 DEF CallsAgree, RowOf, Found, Compared
    <3>2. QED
      BY <1>4, <2>1, <3>1 DEF FreshInv
  <2>2. QED
    BY <1>1, <2>1 DEF FreshInv
<1>11. QED
  BY <1>6, <1>7, <1>8, <1>9, <1>10

LEMMA OpenKeepsInv == ASSUME LoginInv, NEW v \in Verifiers, OpenSession(v) PROVE LoginInv'
<1> USE AttemptsAre DEF LoginInv
<1>1. PICK n \in RowIds : n = RowOf(v)
  BY DEF OpenSession, CallsAgree, Found, Compared, RowIds
<1>2. /\ verifierAt[v] = "session" /\ n \in 1 .. Len(attempts) /\ attempts[n].consumed
      /\ opened' = [opened EXCEPT ![n] = @ + 1]
      /\ UNCHANGED <<minute, lockedUntil, fastPath, attempts, requestAt, sent, account, compared, faults>>
      /\ verifierAt' = [verifierAt EXCEPT ![v] = "idle"] /\ verifier' = [verifier EXCEPT ![v] = Idle]
  BY <1>1 DEF OpenSession, CallsAgree, Found, Compared, Entered, redisKeys, VerifierTo, EndVerify, RowOf
<1>3. /\ verifierAt'[v] = "idle" /\ opened'[n] = opened[n] + 1
      /\ \A w \in Verifiers : w # v => verifierAt'[w] = verifierAt[w] /\ verifier'[w] = verifier[w]
      /\ \A i \in RowIds : i # n => opened'[i] = opened[i]
  BY <1>2 DEF LoginTypeOK
<1>4. \A i \in RowIds : opened'[i] + Cardinality(Heading(i)') <= Cardinality(Verifiers)
  <2>1. ASSUME NEW i \in RowIds PROVE IsFiniteSet(Heading(i)) /\ Cardinality(Heading(i)) \in Nat
    BY LoginAssumption, FS_Subset, FS_CardinalityType DEF Heading
  <2>2. v \in Heading(n) /\ Heading(n)' = Heading(n) \ {v}
    BY <1>1, <1>2, <1>3 DEF Heading, RowOf, Found, Compared
  <2>3. Cardinality(Heading(n)') = Cardinality(Heading(n)) - 1
    BY <2>1, <2>2, FS_RemoveElement
  <2>4. \A i \in RowIds : i # n => Heading(i)' = Heading(i)
    BY <1>1, <1>3 DEF Heading, RowOf, Found, Compared
  <2>5. Cardinality(Verifiers) \in Nat /\ opened[n] \in Nat
        /\ opened[n] + Cardinality(Heading(n)) <= Cardinality(Verifiers)
    BY LoginAssumption, FS_CardinalityType DEF AttemptsAgree, LoginTypeOK
  <2>6. opened'[n] + Cardinality(Heading(n)') <= Cardinality(Verifiers)
    BY <1>3, <2>1, <2>3, <2>5
  <2>7. \A i \in RowIds : i # n => opened'[i] + Cardinality(Heading(i)') <= Cardinality(Verifiers)
    BY <1>3, <2>4 DEF AttemptsAgree
  <2>8. QED
    BY <2>6, <2>7
<1>5. LoginTypeOK'
  <2>1. opened'[n] \in 0 .. Cardinality(Verifiers)
    <3>1. IsFiniteSet(Heading(n)') /\ IsFiniteSet(Verifiers)
      BY LoginAssumption, FS_Subset DEF Heading
    <3>2. Cardinality(Heading(n)') \in Nat /\ Cardinality(Verifiers) \in Nat /\ opened'[n] \in Nat
      BY <1>3, <3>1, FS_CardinalityType DEF LoginTypeOK
    <3>3. QED
      BY <1>4, <3>2
  <2>2. opened' \in [RowIds -> 0 .. Cardinality(Verifiers)]
    BY <1>2, <1>3, <2>1 DEF LoginTypeOK
  <2>3. /\ verifier' \in [Verifiers -> [code : Codes \cup {None}, hash : Codes \cup {None}, row : 0 .. LastCode]]
        /\ verifierAt' = [verifierAt EXCEPT ![v] = "idle"]
    BY <1>2 DEF LoginTypeOK, Idle
  <2>4. QED
    BY <1>2, <2>2, <2>3 DEF LoginTypeOK
<1>6. CallsAgree'
  BY <1>2, <1>3 DEF CallsAgree, RowOf, Found, Compared, Entered
<1>7. AttemptsAgree'
  BY <1>2, <1>3, <1>4 DEF AttemptsAgree
<1>8. CooldownsAgree' /\ RoleIsComing' /\ FreshInv'
  BY <1>2, <1>3 DEF CooldownsAgree, Creating, RoleIsComing, FreshInv, RowOf
<1>9. QED
  BY <1>5, <1>6, <1>7, <1>8

LEMMA VerifyStepKeepsInv ==
  ASSUME LoginInv, NEW v \in Verifiers, (\E code \in Codes : BeginVerify(v, code)) \/ VerifyStep(v)
  PROVE  LoginInv'
<1> DEFINE Records == [code : Codes \cup {None}, hash : Codes \cup {None}, row : 0 .. LastCode]
           FastPaths == [code : Codes, until : 0 .. LastMinute + OTP_TTL]
<1>1. /\ verifier[v] \in Records /\ Idle \in Records /\ fastPath \in FastPaths \cup {None}
      /\ account \in {None, "roleless", "member"}
      /\ verifier = [verifier EXCEPT ![v] = verifier[v]]
      /\ LastCode \in Nat
  BY LoginAssumption DEF LoginInv, LoginTypeOK, Idle
<1>2. verifierAt[v] = "role" /\ account' = account => account # "roleless" \/ verifierAt[v] = "role"
  OBVIOUS
<1> USE DEF VerifierTo, EndVerify, redisKeys, Found, Compared, Entered
<1>3. ASSUME NEW code \in Codes, BeginVerify(v, code) PROVE LoginInv'
  <2>1. [verifier[v] EXCEPT !.code = code] \in Records
    BY <1>1
  <2>2. verifier' = [verifier EXCEPT ![v] = [verifier[v] EXCEPT !.code = code]]
    BY <1>3 DEF BeginVerify
  <2>3. QED
    BY <1>1, <1>3, <2>1, <2>2, MovesKeepInv DEF BeginVerify
<1>4. CASE ReadFastPath(v)
  <2> DEFINE hash == IF fastPath = None THEN None ELSE fastPath.code
  <2>1. [verifier[v] EXCEPT !.hash = hash] \in Records
    BY <1>1
  <2>2. verifier' = [verifier EXCEPT ![v] = [verifier[v] EXCEPT !.hash = hash]]
    BY <1>4 DEF ReadFastPath
  <2> HIDE DEF hash
  <2>3. QED
    BY <1>1, <1>4, <2>1, <2>2, MovesKeepInv DEF ReadFastPath
<1>5. CASE DropFastPath(v)
  BY <1>1, <1>5, MovesKeepInv DEF DropFastPath
<1>6. CASE DeleteKey(v)
  BY <1>1, <1>6, MovesKeepInv DEF DeleteKey
<1>7. CASE FindUser(v)
  BY <1>1, <1>7, MovesKeepInv DEF FindUser
<1>8. CASE CreateUser(v)
  <2>1. CASE account = None
    BY <1>1, <1>8, <2>1, MovesKeepInv DEF CreateUser
  <2>2. CASE account # None
    BY <1>1, <1>8, <2>2, MovesKeepInv DEF CreateUser
  <2>3. QED
    BY <2>1, <2>2
<1>9. CASE AssignMember(v)
  BY <1>1, <1>9, MovesKeepInv DEF AssignMember
<1>10. QED
  BY <1>3, <1>4, <1>5, <1>6, <1>7, <1>8, <1>9, FindKeepsInv, CountKeepsInv, MarkKeepsInv,
     OpenKeepsInv DEF VerifyStep

LEMMA OutsideKeepsLogin == ASSUME LoginInv, LoginDies \/ Tick \/ EvictCode PROVE LoginInv'
<1> USE AttemptsAre DEF LoginInv
<1>1. CASE LoginDies
  <2>1. "die" \in faults
        /\ UNCHANGED <<minute, lockedUntil, fastPath, attempts, account, opened, compared, faults>>
    BY <1>1 DEF LoginDies, redisKeys
  <2>2. ASSUME NEW r \in CodeRequests, requestAt[r] # "idle", RequestTo(r, "idle"),
               sent' = [sent EXCEPT ![r] = 0], UNCHANGED <<verifier, verifierAt>>
        PROVE  LoginInv'
    BY <2>1, <2>2, RequestEndsKeepsInv DEF LoginTypeOK
  <2>3. ASSUME NEW v \in Verifiers, EndVerify(v), UNCHANGED <<requestAt, sent>>
        PROVE  LoginInv'
    <3>1. /\ verifierAt'[v] = "idle"
          /\ \A w \in Verifiers : w # v => verifierAt'[w] = verifierAt[w] /\ verifier'[w] = verifier[w]
      BY <2>3 DEF LoginTypeOK, EndVerify, VerifierTo
    <3>2. LoginTypeOK'
      BY <2>1, <2>3, LoginAssumption DEF LoginTypeOK, Idle, EndVerify, VerifierTo
    <3>3. CallsAgree' /\ CooldownsAgree' /\ RoleIsComing' /\ FreshInv'
      BY <2>1, <2>3, <3>1 DEF CallsAgree, CooldownsAgree, Creating, RoleIsComing, FreshInv, RowOf,
         Found, Compared, Entered
    <3>4. AttemptsAgree'
      <4>1. \A i \in RowIds : Heading(i)' \subseteq Heading(i)
        BY <3>1 DEF Heading, RowOf, Found, Compared
      <4>2. \A i \in RowIds : opened'[i] + Cardinality(Heading(i)') <= Cardinality(Verifiers)
        BY <2>1, <3>2, <4>1, StillCounted
      <4>3. QED
        BY <2>1, <4>2 DEF AttemptsAgree
    <3>5. QED
      BY <3>2, <3>3, <3>4
  <2>4. QED
    BY <1>1, <2>2, <2>3 DEF LoginDies
<1>2. CASE Tick
  <2>1. /\ minute < LastMinute /\ minute' = minute + 1
        /\ "late" \in faults \/ NobodyBusy
        /\ fastPath' = fastPath \/ fastPath' = None
        /\ UNCHANGED <<lockedUntil, attempts, requestAt, sent, verifier, verifierAt, account, opened,
                       compared, faults>>
    BY <1>2 DEF Tick, loginCalls
  <2>2. LoginTypeOK'
    BY LoginAssumption, <2>1 DEF LoginTypeOK, Minutes
  <2>3. CallsAgree' /\ AttemptsAgree' /\ RoleIsComing'
    BY <2>1 DEF CallsAgree, AttemptsAgree, RoleIsComing, RowOf, Heading
  <2>4. CooldownsAgree'
    BY <2>1 DEF CooldownsAgree, Creating, LoginTypeOK, Minutes, OTP_LOCK
  <2>5. FreshInv'
    BY <2>1 DEF FreshInv, NobodyBusy
  <2>6. QED
    BY <2>2, <2>3, <2>4, <2>5
<1>3. CASE EvictCode
  <2>1. /\ fastPath' = None
        /\ UNCHANGED <<minute, lockedUntil, attempts, requestAt, sent, verifier, verifierAt, account,
                       opened, compared, faults>>
    BY <1>3 DEF EvictCode, loginCalls
  <2>2. QED
    BY <2>1 DEF LoginTypeOK, CallsAgree, AttemptsAgree, RoleIsComing, CooldownsAgree, FreshInv,
       Creating, Heading, RowOf
<1>4. QED
  BY <1>1, <1>2, <1>3

LEMMA LoginNextKeepsInv == LoginInv /\ [LoginNext]_loginVars => LoginInv'
<1> SUFFICES ASSUME LoginInv, [LoginNext]_loginVars PROVE LoginInv'
  OBVIOUS
<1>1. CASE UNCHANGED loginVars
  BY <1>1 DEF loginVars, redisKeys, loginCalls, LoginInv, LoginTypeOK, CallsAgree, AttemptsAgree,
     RoleIsComing, CooldownsAgree, FreshInv, Creating, Heading, RowOf
<1>2. ASSUME NEW r \in CodeRequests, StoreCode(r) PROVE LoginInv'
  <2>1. sent[r] \in 1 .. Len(attempts) /\ attempts[sent[r]].code \in Codes
    BY <1>2, AttemptsAre DEF StoreCode, LoginInv, CallsAgree
  <2>2. minute + OTP_TTL \in 0 .. LastMinute + OTP_TTL
    BY LoginAssumption DEF LoginInv, LoginTypeOK, Minutes, OTP_TTL
  <2>3. fastPath' \in [code : Codes, until : 0 .. LastMinute + OTP_TTL]
    BY <1>2, <2>1, <2>2 DEF StoreCode
  <2>4. QED
    BY <1>2, <2>3, RequestEndsKeepsInv DEF StoreCode
<1>3. QED
  BY <1>1, <1>2, AcquireKeepsInv, CreateKeepsInv, VerifyStepKeepsInv, OutsideKeepsLogin DEF LoginNext

LEMMA LoginInvariant == LoginSpec => []LoginInv
BY StartsInv, LoginNextKeepsInv, PTL DEF LoginSpec
-----------------------------------------------------------------------------
\* One verification moves, and no request: the others stay as they were.
OneMoves(v) ==
  /\ v \in Verifiers /\ requestAt' = requestAt /\ faults' = faults
  /\ \A w \in Verifiers : w # v => verifierAt'[w] = verifierAt[w] /\ verifier'[w] = verifier[w]

LEMMA VerifyMovesOne ==
  ASSUME LoginInv, NEW v \in Verifiers, (\E code \in Codes : BeginVerify(v, code)) \/ VerifyStep(v)
  PROVE  OneMoves(v)
<1>1. requestAt' = requestAt /\ faults' = faults
  BY DEF BeginVerify, VerifyStep, ReadFastPath, FindAttempt, DropFastPath, CountAndCompare,
     DeleteKey, MarkConsumed, FindUser, CreateUser, AssignMember, OpenSession
<1>2. /\ verifier \in [Verifiers -> [code : Codes \cup {None}, hash : Codes \cup {None}, row : 0 .. LastCode]]
      /\ DOMAIN verifierAt = Verifiers
  BY DEF LoginInv, LoginTypeOK
<1>3. \A w \in Verifiers : w # v => verifierAt'[w] = verifierAt[w]
  BY <1>2 DEF BeginVerify, VerifyStep, ReadFastPath, FindAttempt, DropFastPath, CountAndCompare,
     DeleteKey, MarkConsumed, FindUser, CreateUser, AssignMember, OpenSession, EndVerify, VerifierTo
<1>4. \A w \in Verifiers : w # v => verifier'[w] = verifier[w]
  BY <1>2 DEF BeginVerify, VerifyStep, ReadFastPath, FindAttempt, DropFastPath, CountAndCompare,
     DeleteKey, MarkConsumed, FindUser, CreateUser, AssignMember, OpenSession, EndVerify
<1>5. QED
  BY <1>1, <1>3, <1>4 DEF OneMoves

\* Where a verification comes from when it is at a place.
LEMMA VerifyPlaces ==
  ASSUME LoginInv, NEW v \in Verifiers, VerifyStep(v)
  PROVE  /\ verifierAt[v] # "idle"
         /\ verifierAt'[v] = "consume" => verifierAt[v] = "count"
         /\ verifierAt'[v] = "mark" => verifierAt[v] = "consume"
         /\ verifierAt'[v] = "user" => verifierAt[v] = "mark"
         /\ verifierAt'[v] = "create" => verifierAt[v] = "user" /\ account = None
         /\ verifierAt'[v] = "role" => verifierAt[v] = "create"
         /\ verifierAt'[v] = "session" =>
              \/ verifierAt[v] = "user" /\ account # None
              \/ verifierAt[v] = "role" /\ account' = "member"
         /\ verifierAt'[v] = "count" => verifierAt[v] = "find"
         /\ verifierAt[v] \in Compared /\ verifierAt'[v] # "idle" =>
              verifierAt'[v] \in Compared /\ verifier'[v] = verifier[v]
         /\ verifierAt[v] \notin {"mark", "count"} => attempts' = attempts
         /\ verifierAt[v] # "session" => opened' = opened
         /\ verifierAt[v] \notin {"create", "role"} => account' = account
<1>1. DOMAIN verifierAt = Verifiers /\ DOMAIN verifier = Verifiers
  BY DEF LoginInv, LoginTypeOK
<1> USE <1>1 DEF VerifierTo, EndVerify, Compared, redisKeys
<1>2. CASE ReadFastPath(v)
  BY <1>2 DEF ReadFastPath
<1>3. CASE FindAttempt(v)
  BY <1>3 DEF FindAttempt
<1>4. CASE DropFastPath(v)
  BY <1>4 DEF DropFastPath
<1>5. CASE CountAndCompare(v)
  BY <1>5 DEF CountAndCompare
<1>6. CASE DeleteKey(v)
  BY <1>6 DEF DeleteKey
<1>7. CASE MarkConsumed(v)
  BY <1>7 DEF MarkConsumed
<1>8. CASE FindUser(v)
  BY <1>8 DEF FindUser
<1>9. CASE CreateUser(v)
  BY <1>9 DEF CreateUser
<1>10. CASE AssignMember(v)
  BY <1>10 DEF AssignMember
<1>11. CASE OpenSession(v)
  BY <1>11 DEF OpenSession
<1>12. QED
  BY <1>2, <1>3, <1>4, <1>5, <1>6, <1>7, <1>8, <1>9, <1>10, <1>11 DEF VerifyStep

LEMMA FaultsStay == [LoginNext]_loginVars => faults' = faults
BY DEF LoginNext, loginVars, AcquireLock, CreateAttempt, StoreCode, BeginVerify,
   VerifyStep, ReadFastPath, FindAttempt, DropFastPath, CountAndCompare, DeleteKey,
   MarkConsumed, FindUser, CreateUser, AssignMember, OpenSession, LoginDies, Tick, EvictCode

LEMMA StartsSerial == LoginInit => LoginSerialInv
BY LoginAssumption DEF LoginInit, LoginSerialInv, OneCall, OneSession, MemberEnters, Entered, RowIds

\* Without overlap, one call at a time.
LEMMA NextKeepsOneCall ==
  ASSUME LoginInv, "overlap" \notin faults, OneCall, [LoginNext]_loginVars
  PROVE  OneCall'
<1> USE DEF OneCall
<1>1. CASE UNCHANGED loginVars
  BY <1>1 DEF loginVars, loginCalls
<1>2. ASSUME NEW r \in CodeRequests, AcquireLock(r) PROVE OneCall'
  <2>1. NobodyBusy /\ requestAt' = [requestAt EXCEPT ![r] = "create"] /\ verifierAt' = verifierAt
    BY <1>2 DEF AcquireLock, RequestTo
  <2>2. QED
    BY <2>1 DEF NobodyBusy, LoginInv, LoginTypeOK
<1>3. ASSUME NEW r \in CodeRequests, CreateAttempt(r) \/ StoreCode(r) PROVE OneCall'
  <2>1. /\ requestAt[r] # "idle" /\ verifierAt' = verifierAt
        /\ \A q \in CodeRequests : q # r => requestAt'[q] = requestAt[q]
    BY <1>3 DEF CreateAttempt, StoreCode, RequestTo, LoginInv, LoginTypeOK
  <2>2. QED
    BY <2>1
<1>4. ASSUME NEW v \in Verifiers, NEW code \in Codes, BeginVerify(v, code) PROVE OneCall'
  <2>1. NobodyBusy /\ OneMoves(v)
    BY <1>4, VerifyMovesOne DEF BeginVerify
  <2>2. QED
    BY <2>1 DEF NobodyBusy, OneMoves
<1>5. ASSUME NEW v \in Verifiers, VerifyStep(v) PROVE OneCall'
  <2>1. verifierAt[v] # "idle" /\ OneMoves(v)
    BY <1>5, VerifyMovesOne, VerifyPlaces
  <2>2. QED
    BY <2>1 DEF OneMoves
<1>6. CASE LoginDies
  <2>1. /\ \A r \in CodeRequests : requestAt'[r] # "idle" => requestAt[r] # "idle"
        /\ \A v \in Verifiers : verifierAt'[v] # "idle" => verifierAt[v] # "idle"
    BY <1>6 DEF LoginDies, RequestTo, EndVerify, VerifierTo, LoginInv, LoginTypeOK
  <2>2. QED
    BY <2>1
<1>7. CASE Tick \/ EvictCode
  BY <1>7 DEF Tick, EvictCode, loginCalls
<1>8. QED
  BY <1>1, <1>2, <1>3, <1>4, <1>5, <1>6, <1>7 DEF LoginNext

LEMMA NextKeepsOneSession ==
  ASSUME LoginInv, "overlap" \notin faults, OneCall, OneSession, [LoginNext]_loginVars
  PROVE  OneSession'
<1> USE DEF OneSession, RowOf
<1>1. CASE UNCHANGED loginVars
  BY <1>1 DEF loginVars, loginCalls, Entered
<1>2. ASSUME NEW r \in CodeRequests, AcquireLock(r) \/ CreateAttempt(r) \/ StoreCode(r)
      PROVE  OneSession'
  <2>1. UNCHANGED <<verifier, verifierAt, opened>>
        /\ (attempts' = attempts \/ requestAt[r] # "idle")
    BY <1>2 DEF AcquireLock, CreateAttempt, StoreCode
  <2>2. CASE attempts' = attempts
    BY <2>1, <2>2 DEF Entered
  <2>3. CASE requestAt[r] # "idle"
    BY <2>1, <2>3 DEF OneCall, Entered
  <2>4. QED
    BY <2>1, <2>2, <2>3
<1>3. ASSUME NEW v \in Verifiers, NEW code \in Codes, BeginVerify(v, code) PROVE OneSession'
  <2>1. OneMoves(v) /\ attempts' = attempts /\ opened' = opened /\ verifierAt'[v] = "read"
    BY <1>3, VerifyMovesOne DEF BeginVerify, VerifierTo, LoginInv, LoginTypeOK
  <2>2. QED
    BY <2>1 DEF OneMoves, Entered
<1>4. ASSUME NEW v \in Verifiers, VerifyStep(v) PROVE OneSession'
  <2>1. OneMoves(v) /\ verifierAt[v] # "idle"
    BY <1>4, VerifyMovesOne, VerifyPlaces
  <2>2. \A w \in Verifiers : w # v => verifierAt'[w] = "idle"
    BY <2>1 DEF OneMoves, OneCall
  <2>3. verifierAt'[v] = "count" => ~attempts'[verifier'[v].row].consumed
    <3>1. ASSUME verifierAt'[v] = "count"
          PROVE  /\ attempts' = attempts
                 /\ verifier'[v].row \in Unconsumed
      <4>1. FindAttempt(v) /\ verifierAt[v] = "find"
        BY <1>4, <3>1, VerifyPlaces DEF VerifyStep, ReadFastPath, DropFastPath, CountAndCompare,
           DeleteKey, MarkConsumed, FindUser, CreateUser, AssignMember, OpenSession
      <4> DEFINE hash == verifier[v].hash
                 matching == {i \in Unconsumed : hash # None => attempts[i].code = hash}
                 row == Latest(matching)
      <4>2. row # 0 /\ verifier' = [verifier EXCEPT ![v].row = row]
        BY <3>1, <4>1 DEF FindAttempt, EndVerify, VerifierTo, LoginInv, LoginTypeOK
      <4>3. matching \in SUBSET (1 .. Len(attempts)) /\ Len(attempts) \in Nat
        BY AttemptsAre DEF Unconsumed, LoginInv
      <4>4. row \in matching
        BY <4>2, <4>3, LatestIsLast
      <4>5. verifier'[v].row = row
        <5> HIDE DEF row
        <5>1. verifier \in [Verifiers -> [code : Codes \cup {None}, hash : Codes \cup {None},
                                          row : 0 .. LastCode]]
          BY DEF LoginInv, LoginTypeOK
        <5>2. QED
          BY <4>2, <5>1
      <4>6. attempts' = attempts
        BY <4>1 DEF FindAttempt
      <4>7. QED
        BY <4>4, <4>5, <4>6
    <3>2. QED
      BY <3>1 DEF Unconsumed
  <2>4. verifierAt'[v] = "consume" => ~attempts'[verifier'[v].row].consumed
    <3>1. ASSUME verifierAt'[v] = "consume" PROVE CountAndCompare(v) /\ verifier' = verifier
      <4>1. CountAndCompare(v)
        BY <1>4, <3>1, VerifyPlaces DEF VerifyStep, ReadFastPath, DropFastPath, FindAttempt,
           DeleteKey, MarkConsumed, FindUser, CreateUser, AssignMember, OpenSession
      <4>2. QED
        BY <3>1, <4>1 DEF CountAndCompare, EndVerify, VerifierTo, LoginInv, LoginTypeOK
    <3>2. ASSUME CountAndCompare(v) PROVE ~attempts'[verifier[v].row].consumed
      <4>1. verifierAt[v] = "count" /\ verifier[v].row \in 1 .. Len(attempts)
        BY <3>2 DEF CountAndCompare, LoginInv, CallsAgree, RowOf, Found
      <4>2. attempts[verifier[v].row] \in Attempt /\ attempts \in Seq(Attempt)
        BY <4>1, AttemptsAre DEF LoginInv, LoginTypeOK
      <4>3. attempts'[verifier[v].row].consumed = attempts[verifier[v].row].consumed
        BY <3>2, <4>1, <4>2 DEF CountAndCompare, Attempt
      <4>4. QED
        BY <4>1, <4>3
    <3>3. QED
      BY <3>1, <3>2
  <2>5. verifierAt'[v] = "mark" => ~attempts'[verifier'[v].row].consumed
    BY <1>4, VerifyPlaces DEF Compared
  <2>6. verifierAt'[v] \in Entered => opened'[verifier'[v].row] = 0
    <3>1. CASE verifierAt'[v] = "user"
      <4>1. verifierAt[v] = "mark" /\ verifier'[v] = verifier[v] /\ opened' = opened
            /\ ~attempts[verifier[v].row].consumed /\ verifier[v].row \in RowIds
        BY <1>4, <3>1, VerifyPlaces, AttemptsAre DEF Compared, LoginInv, CallsAgree, Found, RowIds
      <4>2. opened[verifier[v].row] \in Nat
        BY <4>1 DEF LoginInv, LoginTypeOK
      <4>3. QED
        BY <4>1, <4>2 DEF LoginInv, AttemptsAgree
    <3>2. CASE verifierAt'[v] \in {"create", "role", "session"}
      BY <1>4, <3>2, VerifyPlaces DEF Compared, Entered
    <3>3. QED
      BY <3>1, <3>2 DEF Entered
  <2>7. \A i \in RowIds : opened'[i] <= 1
    <3>1. CASE verifierAt[v] # "session"
      BY <1>4, <3>1, VerifyPlaces
    <3>2. CASE verifierAt[v] = "session"
      <4>1. opened' = [opened EXCEPT ![verifier[v].row] = @ + 1] /\ opened[verifier[v].row] = 0
        BY <1>4, <3>2 DEF Entered, VerifyStep, ReadFastPath, DropFastPath, FindAttempt,
           CountAndCompare, DeleteKey, MarkConsumed, FindUser, CreateUser, AssignMember, OpenSession
      <4>2. \A i \in RowIds : opened'[i] = IF i = verifier[v].row THEN 1 ELSE opened[i]
        BY <4>1 DEF LoginInv, LoginTypeOK
      <4>3. QED
        BY <4>2
    <3>3. QED
      BY <3>1, <3>2
  <2>8. QED
    BY <2>2, <2>3, <2>4, <2>5, <2>6, <2>7 DEF Entered
<1>5. CASE LoginDies
  <2>1. attempts' = attempts /\ opened' = opened
        /\ \A v \in Verifiers :
             \/ verifierAt'[v] = "idle"
             \/ verifierAt'[v] = verifierAt[v] /\ verifier'[v] = verifier[v]
    BY <1>5 DEF LoginDies, EndVerify, VerifierTo, LoginInv, LoginTypeOK
  <2>2. QED
    BY <2>1 DEF Entered
<1>6. CASE Tick \/ EvictCode
  BY <1>6 DEF Tick, EvictCode, loginCalls, Entered
<1>7. QED
  BY <1>1, <1>2, <1>3, <1>4, <1>5, <1>6 DEF LoginNext

LEMMA NextKeepsMembers ==
  ASSUME LoginInv, "overlap" \notin faults, OneCall, MemberEnters, [LoginNext]_loginVars
  PROVE  MemberEnters'
<1> SUFFICES ASSUME "die" \notin faults
             PROVE  /\ \A v \in Verifiers : verifierAt'[v] = "session" => account' = "member"
                    /\ (\E i \in RowIds : opened'[i] > 0) => account' = "member"
  <2>1. faults' = faults
    BY FaultsStay
  <2>2. QED
    BY <2>1 DEF MemberEnters
<1>1. CASE UNCHANGED <<verifierAt, opened, account>>
  BY <1>1 DEF MemberEnters
<1>2. ASSUME NEW v \in Verifiers, NEW code \in Codes, BeginVerify(v, code)
      PROVE  /\ \A w \in Verifiers : verifierAt'[w] = "session" => account' = "member"
             /\ (\E i \in RowIds : opened'[i] > 0) => account' = "member"
  <2>1. OneMoves(v) /\ account' = account /\ opened' = opened /\ verifierAt'[v] = "read"
    BY <1>2, VerifyMovesOne DEF BeginVerify, VerifierTo, LoginInv, LoginTypeOK
  <2>2. QED
    BY <2>1 DEF OneMoves, MemberEnters
<1>3. ASSUME NEW v \in Verifiers, VerifyStep(v)
      PROVE  /\ \A w \in Verifiers : verifierAt'[w] = "session" => account' = "member"
             /\ (\E i \in RowIds : opened'[i] > 0) => account' = "member"
  <2>1. /\ OneMoves(v) /\ verifierAt[v] # "idle"
        /\ \A w \in Verifiers : w # v => verifierAt[w] = "idle" /\ verifierAt'[w] = "idle"
    BY <1>3, VerifyMovesOne, VerifyPlaces DEF OneMoves, OneCall
  <2>2. verifierAt'[v] = "session" => account' = "member"
    <3>1. ASSUME verifierAt[v] = "user", account # None PROVE account = "member"
      BY <2>1, <3>1 DEF LoginInv, LoginTypeOK, RoleIsComing
    <3>2. QED
      BY <1>3, <3>1, VerifyPlaces
  <2>3. (\E i \in RowIds : opened'[i] > 0) => account' = "member"
    <3>1. CASE verifierAt[v] = "session"
      BY <1>3, <3>1, VerifyPlaces DEF MemberEnters
    <3>2. CASE verifierAt[v] = "create"
      <4>1. CreateUser(v)
        BY <1>3, <3>2 DEF VerifyStep, ReadFastPath, DropFastPath, FindAttempt,
           CountAndCompare, DeleteKey, MarkConsumed, FindUser, AssignMember, OpenSession
      <4>2. QED
        BY LoginAssumption, <4>1 DEF CreateUser, MemberEnters
    <3>3. CASE verifierAt[v] = "role"
      <4>1. AssignMember(v)
        BY <1>3, <3>3 DEF VerifyStep, ReadFastPath, DropFastPath, FindAttempt,
           CountAndCompare, DeleteKey, MarkConsumed, FindUser, CreateUser, OpenSession
      <4>2. QED
        BY <4>1 DEF AssignMember
    <3>4. CASE verifierAt[v] \notin {"session", "create", "role"}
      BY <1>3, <3>4, VerifyPlaces DEF MemberEnters
    <3>5. QED
      BY <3>1, <3>2, <3>3, <3>4
  <2>4. QED
    BY <2>1, <2>2, <2>3
<1>4. CASE \/ UNCHANGED loginVars \/ Tick \/ EvictCode \/ LoginDies
           \/ \E r \in CodeRequests : AcquireLock(r) \/ CreateAttempt(r) \/ StoreCode(r)
  <2>1. UNCHANGED <<verifierAt, opened, account>>
    BY <1>4 DEF loginVars, loginCalls, Tick, EvictCode, LoginDies, AcquireLock, CreateAttempt, StoreCode
  <2>2. QED
    BY <1>1, <2>1
<1>5. QED
  BY <1>2, <1>3, <1>4 DEF LoginNext

LEMMA SerialInvariant == LoginSpec => [](LoginInv /\ LoginSerialInv)
<1>1. LoginInv /\ LoginSerialInv /\ [LoginNext]_loginVars => LoginSerialInv'
  BY FaultsStay, NextKeepsOneCall, NextKeepsOneSession, NextKeepsMembers DEF LoginSerialInv
<1>2. QED
  BY <1>1, StartsInv, StartsSerial, LoginNextKeepsInv, PTL DEF LoginSpec

(* Whatever requests and verifications race, die or come late: codes are   *)
(* spaced, guessed a bounded number of times, accepted while they are      *)
(* fresh, and open one session, of a user with its role.                   *)
THEOREM LoginCodesAreSafe == LoginSpec => []CodesAreSafe
<1>1. LoginInv /\ LoginSerialInv => CodesAreSafe
  <2> SUFFICES ASSUME LoginInv, LoginSerialInv PROVE CodesAreSafe
    OBVIOUS
  <2>1. LoginTypeOK /\ Len(attempts) \in Nat
    BY AttemptsAre DEF LoginInv
  <2>2. CodesAreSpaced
    <3>1. IsFiniteSet(Creating)
      BY LoginAssumption, FS_Subset DEF Creating
    <3>2. Cardinality(Creating) \in Nat
      BY <3>1, FS_CardinalityType
    <3>3. QED
      BY <2>1, <3>2 DEF CodesAreSpaced, LoginInv, CooldownsAgree, LoginTypeOK, Minutes
  <2>3. GuessesBounded
    BY DEF GuessesBounded, LoginInv, AttemptsAgree
  <2>4. AcceptedIsFresh
    BY DEF AcceptedIsFresh, LoginInv, FreshInv, RowOf
  <2>5. CodeOpensOneSession
    BY DEF CodeOpensOneSession, LoginSerialInv, OneSession
  <2>6. UserCanOnboard
    <3>1. faults \subseteq {"late", "evict"} => "die" \notin faults /\ "overlap" \notin faults
      OBVIOUS
    <3>2. QED
      BY <3>1 DEF UserCanOnboard, LoginInv, RoleIsComing, LoginSerialInv, MemberEnters
  <2>7. QED
    BY <2>1, <2>2, <2>3, <2>4, <2>5, <2>6 DEF CodesAreSafe
<1>2. QED
  BY <1>1, SerialInvariant, PTL
-----------------------------------------------------------------------------
(* The newest code works.                                                    *)

\* When only Redis misbehaves, a row is found for what Redis holds, or for the phone: of
\* the rows that are left, the newest.
LEMMA NextKeepsNewest ==
  ASSUME LoginInv, LoginSerialInv, NewestInv, [LoginNext]_loginVars
  PROVE  NewestInv'
<1> SUFFICES ASSUME faults \subseteq {"evict"}, faults' = faults PROVE NewestInv'
  BY FaultsStay DEF NewestInv
<1>1. OneCall /\ "overlap" \notin faults /\ "late" \notin faults /\ "die" \notin faults
  BY DEF LoginSerialInv
<1> DEFINE Redis == (\A r \in CodeRequests : requestAt[r] = "idle") /\ fastPath # None
                      => Newest > 0 /\ fastPath.code = attempts[Newest].code
           Stored == \A r \in CodeRequests : requestAt[r] = "store" => sent[r] = Newest
           Verified(v) ==
             /\ verifierAt[v] = "find" /\ verifier[v].hash # None
                  => Newest > 0 /\ verifier[v].hash = attempts[Newest].code
             /\ verifierAt[v] \in {"expired", "count"} /\ ~attempts[Newest].consumed => RowOf(v) = Newest
             /\ verifierAt[v] = "expired" => ~Usable(RowOf(v))
             /\ verifierAt[v] = "create" => account = None
             /\ verifierAt[v] \in Entered =>
                  \A i \in 1 .. Newest : attempts[i].code = verifier[v].code => attempts[i].consumed
<1>2. Redis /\ Stored /\ \A v \in Verifiers : Verified(v)
  BY DEF NewestInv
<1> SUFFICES Redis' /\ Stored' /\ \A v \in Verifiers : Verified(v)'
  BY DEF NewestInv
<1>3. Len(attempts) \in Nat /\ attempts \in Seq(Attempt)
      /\ \A i \in 1 .. Len(attempts) : attempts[i] \in Attempt
  BY AttemptsAre DEF LoginInv, LoginTypeOK
<1> USE DEF Newest, RowOf
<1>4. CASE UNCHANGED loginVars
  BY <1>2, <1>4 DEF loginVars, loginCalls, redisKeys, Usable, Entered
<1>5. ASSUME NEW r \in CodeRequests, AcquireLock(r)
      PROVE  Redis' /\ Stored' /\ \A v \in Verifiers : Verified(v)'
  <2>1. /\ requestAt' = [requestAt EXCEPT ![r] = "create"]
        /\ UNCHANGED <<minute, fastPath, attempts, sent, verifier, verifierAt, account>>
    BY <1>5 DEF AcquireLock, RequestTo
  <2>2. \A q \in CodeRequests : q # r => requestAt'[q] = requestAt[q]
    BY <2>1 DEF LoginInv, LoginTypeOK
  <2>3. requestAt'[r] = "create"
    BY <2>1 DEF LoginInv, LoginTypeOK
  <2>4. QED
    BY <1>2, <2>1, <2>2, <2>3 DEF Usable, Entered
<1>6. ASSUME NEW r \in CodeRequests, CreateAttempt(r)
      PROVE  Redis' /\ Stored' /\ \A v \in Verifiers : Verified(v)'
  <2>1. /\ requestAt[r] = "create" /\ requestAt' = [requestAt EXCEPT ![r] = "store"]
        /\ sent' = [sent EXCEPT ![r] = Len(attempts) + 1] /\ verifierAt' = verifierAt
    BY <1>6 DEF CreateAttempt, RequestTo
  <2>2. PICK new : attempts' = Append(attempts, new)
    BY <1>6 DEF CreateAttempt
  <2>3. Len(attempts') = Len(attempts) + 1
    BY <1>3, <2>2
  <2>4. requestAt'[r] = "store" /\ sent'[r] = Len(attempts')
        /\ \A q \in CodeRequests : q # r => requestAt'[q] = requestAt[q] /\ requestAt[q] = "idle"
    BY <1>1, <2>1, <2>3 DEF LoginInv, LoginTypeOK, OneCall
  <2>5. \A v \in Verifiers : verifierAt'[v] = "idle"
    BY <1>1, <2>1 DEF OneCall
  <2>6. QED
    BY <2>4, <2>5 DEF Entered
<1>7. ASSUME NEW r \in CodeRequests, StoreCode(r)
      PROVE  Redis' /\ Stored' /\ \A v \in Verifiers : Verified(v)'
  <2>1. /\ requestAt[r] = "store" /\ requestAt' = [requestAt EXCEPT ![r] = "idle"]
        /\ fastPath'.code = attempts[sent[r]].code /\ verifierAt' = verifierAt /\ attempts' = attempts
        /\ sent' = [sent EXCEPT ![r] = 0]
    BY <1>7 DEF StoreCode, RequestTo
  <2>2. sent[r] = Len(attempts) /\ Len(attempts) > 0
    BY <1>2, <1>3, <2>1 DEF LoginInv, CallsAgree
  <2>3. \A q \in CodeRequests : requestAt'[q] = "idle"
    BY <1>1, <2>1 DEF LoginInv, LoginTypeOK, OneCall
  <2>4. \A v \in Verifiers : verifierAt'[v] = "idle"
    BY <1>1, <2>1 DEF OneCall
  <2>5. QED
    BY <2>1, <2>2, <2>3, <2>4 DEF Entered
<1>8. ASSUME NEW v \in Verifiers, NEW code \in Codes, BeginVerify(v, code)
      PROVE  Redis' /\ Stored' /\ \A w \in Verifiers : Verified(w)'
  <2>1. OneMoves(v) /\ UNCHANGED <<minute, fastPath, attempts, sent, account>> /\ verifierAt'[v] = "read"
    BY <1>8, VerifyMovesOne DEF BeginVerify, VerifierTo, LoginInv, LoginTypeOK, redisKeys
  <2>2. Redis' /\ Stored' /\ \A w \in Verifiers : w # v => Verified(w)'
    BY <1>2, <2>1 DEF OneMoves, Usable, Entered
  <2>3. QED
    BY <2>1, <2>2 DEF Entered
<1>9. ASSUME NEW v \in Verifiers, VerifyStep(v)
      PROVE  Redis' /\ Stored' /\ \A w \in Verifiers : Verified(w)'
  <2>1. OneMoves(v) /\ verifierAt[v] # "idle"
    BY <1>9, VerifyMovesOne, VerifyPlaces
  <2>2. /\ \A w \in Verifiers : w # v => verifierAt'[w] = "idle"
        /\ \A r \in CodeRequests : requestAt[r] = "idle" /\ requestAt'[r] = "idle"
    BY <1>1, <2>1 DEF OneMoves, OneCall
  <2>3. minute' = minute /\ sent' = sent
    BY <1>9 DEF VerifyStep, ReadFastPath, FindAttempt, DropFastPath, CountAndCompare, DeleteKey,
       MarkConsumed, FindUser, CreateUser, AssignMember, OpenSession
  <2>4. verifier[v] \in [code : Codes \cup {None}, hash : Codes \cup {None}, row : 0 .. LastCode]
    BY DEF LoginInv, LoginTypeOK
  <2>5. Stored' /\ \A w \in Verifiers : w # v => Verified(w)'
    BY <2>2 DEF Entered
  <2>6. CASE ReadFastPath(v)
    <3>1. /\ attempts' = attempts /\ fastPath' = fastPath /\ verifierAt'[v] = "find"
          /\ verifier'[v].hash = IF fastPath = None THEN None ELSE fastPath.code
      BY <2>6 DEF ReadFastPath, VerifierTo, LoginInv, LoginTypeOK, redisKeys
    <3>2. QED
      BY <1>2, <2>2, <2>5, <3>1 DEF Entered
  <2>7. CASE FindAttempt(v)
    <3> DEFINE hash == verifier[v].hash
               matching == {i \in Unconsumed : hash # None => attempts[i].code = hash}
               row == Latest(matching)
    <3>1. verifierAt[v] = "find" /\ attempts' = attempts /\ fastPath' = fastPath
      BY <2>7 DEF FindAttempt, redisKeys
    <3>2. CASE row = 0
      BY <1>2, <2>2, <2>5, <2>7, <3>1, <3>2 DEF FindAttempt, EndVerify, VerifierTo, LoginInv,
         LoginTypeOK, Entered
    <3>3. CASE row # 0
      <4>1. matching \in SUBSET (1 .. Len(attempts)) /\ row \in matching /\ \A i \in matching : i <= row
        <5>1. matching \in SUBSET (1 .. Len(attempts))
          BY DEF Unconsumed
        <5>2. QED
          BY <1>3, <3>3, <5>1, LatestIsLast
      <4>2. ~attempts[Newest].consumed => Newest \in matching
        BY <1>2, <1>3, <3>1, <4>1 DEF Unconsumed
      <4>3. ~attempts[Newest].consumed => row = Newest
        <5> HIDE DEF row, matching
        <5>1. row \in 1 .. Len(attempts) /\ (Newest \in matching => Newest <= row)
          BY <4>1
        <5>2. QED
          BY <1>3, <4>2, <5>1
      <4>4. PICK place \in {"expired", "count"} :
              /\ verifierAt' = [verifierAt EXCEPT ![v] = place]
              /\ place = "expired" => attempts[row].expiresAt < minute
        BY <2>7, <3>3 DEF FindAttempt, VerifierTo
      <4>5. verifier' = [verifier EXCEPT ![v].row = row]
        BY <2>7, <3>3 DEF FindAttempt
      <4>6. PICK n \in 1 .. Len(attempts) : n = row
        BY <4>1
      <4> HIDE DEF row, matching, hash
      <4>7. verifierAt'[v] = place /\ verifier'[v].row = n
        BY <2>4, <4>4, <4>5, <4>6 DEF LoginInv, LoginTypeOK
      <4>8. place = "expired" => ~Usable(n)' /\ ~Usable(n)
        <5>1. attempts[n].expiresAt \in Int /\ minute \in Int
          BY <4>6, AttemptsAre, LoginAssumption DEF OTP_TTL, LoginInv, LoginTypeOK, Minutes
        <5>2. place = "expired" => ~(attempts[n].expiresAt >= minute)
          BY <4>4, <4>6, <5>1
        <5>3. QED
          BY <2>3, <3>1, <5>2 DEF Usable
      <4>9. Verified(v)'
        BY <3>1, <4>3, <4>6, <4>7, <4>8 DEF Entered, Usable
      <4>10. QED
        BY <1>2, <2>2, <2>5, <3>1, <4>9
    <3>4. QED
      BY <3>2, <3>3
  <2>8. CASE DropFastPath(v) \/ DeleteKey(v)
    <3>1. attempts' = attempts /\ fastPath' = None /\ verifierAt'[v] \in {"idle", "mark"}
      BY <2>8 DEF DropFastPath, DeleteKey, EndVerify, VerifierTo, LoginInv, LoginTypeOK
    <3>2. QED
      BY <2>5, <3>1 DEF Entered
  <2>9. CASE CountAndCompare(v)
    <3> DEFINE n == verifier[v].row
    <3>1. /\ verifierAt[v] = "count" /\ n \in 1 .. Len(attempts) /\ fastPath' = fastPath
          /\ verifierAt'[v] \in {"expired", "consume", "idle"}
      BY <2>9 DEF CountAndCompare, LoginInv, LoginTypeOK, CallsAgree, Found, VerifierTo, EndVerify, redisKeys
    <3>2. Len(attempts') = Len(attempts)
          /\ \A i \in 1 .. Len(attempts) :
               attempts'[i].code = attempts[i].code /\ attempts'[i].consumed = attempts[i].consumed
      BY SMTT(30), <1>3, <2>9, <3>1 DEF CountAndCompare, Attempt
    <3>3. verifierAt'[v] = "expired" => verifier'[v] = verifier[v]
      BY <2>9, <3>1 DEF CountAndCompare, VerifierTo, EndVerify, LoginInv, LoginTypeOK
    <3>4. verifierAt'[v] = "expired" => ~(attempts'[n].attempts < MAX_ATTEMPTS)
      <4>1. verifierAt'[v] = "expired" => attempts[n].attempts >= MAX_ATTEMPTS
        BY <2>9, <3>1 DEF CountAndCompare, VerifierTo, EndVerify, LoginInv, LoginTypeOK
      <4>2. attempts[n].attempts \in Int /\ MAX_ATTEMPTS \in Int
        BY <3>1, AttemptsAre, LoginAssumption DEF LoginInv
      <4>3. attempts'[n].attempts = attempts[n].attempts \/ attempts'[n].attempts = attempts[n].attempts + 1
        BY <1>3, <2>9, <3>1 DEF CountAndCompare, Attempt
      <4>4. QED
        BY <4>1, <4>2, <4>3
    <3>5. Redis'
      BY <1>2, <1>3, <2>2, <3>1, <3>2
    <3>6. Verified(v)'
      <4>1. Len(attempts) \in 1 .. Len(attempts) /\ Len(attempts) > 0
        BY <1>3, <3>1
      <4>2. verifierAt'[v] = "expired" =>
              /\ ~attempts'[Newest'].consumed => RowOf(v)' = Newest'
              /\ ~Usable(RowOf(v))'
        BY <1>2, <3>1, <3>2, <3>3, <3>4, <4>1 DEF Usable
      <4>3. QED
        BY <3>1, <4>2 DEF Entered
    <3>7. QED
      BY <2>5, <3>5, <3>6
  <2>10. CASE MarkConsumed(v)
    <3>1. verifierAt'[v] = "user" /\ verifier' = verifier /\ fastPath' = fastPath
      BY <2>10 DEF MarkConsumed, VerifierTo, LoginInv, LoginTypeOK, redisKeys
    <3>2. attempts' = [i \in 1 .. Len(attempts) |->
            [attempts[i] EXCEPT !.consumed = @ \/ attempts[i].code = verifier[v].code]]
      BY <2>10 DEF MarkConsumed
    <3>3. Len(attempts') = Len(attempts)
      BY <1>3, <3>2
    <3>4. \A i \in 1 .. Len(attempts) :
            /\ attempts'[i].code = attempts[i].code
            /\ attempts'[i].consumed <=> attempts[i].consumed \/ attempts[i].code = verifier[v].code
      BY <1>3, <3>2 DEF Attempt
    <3>5. QED
      BY <1>2, <1>3, <2>2, <2>5, <3>1, <3>3, <3>4 DEF Entered
  <2>11. CASE FindUser(v) \/ CreateUser(v) \/ AssignMember(v) \/ OpenSession(v)
    <3>1. /\ verifierAt[v] \in Entered /\ attempts' = attempts /\ fastPath' = fastPath
          /\ verifierAt'[v] \in Entered \cup {"idle"}
          /\ verifierAt'[v] = "create" => account = None /\ account' = account
      BY <2>11 DEF FindUser, CreateUser, AssignMember, OpenSession, EndVerify, VerifierTo, LoginInv,
         LoginTypeOK, Entered, redisKeys
    <3>2. verifierAt'[v] \in Entered => verifier'[v] = verifier[v]
      BY <1>9, <3>1, VerifyPlaces DEF Entered, Compared
    <3>3. QED
      BY <1>2, <2>2, <2>5, <3>1, <3>2 DEF Entered
  <2>12. QED
    BY <1>9, <2>6, <2>7, <2>8, <2>9, <2>10, <2>11 DEF VerifyStep
<1>10. CASE EvictCode
  BY <1>2, <1>10 DEF EvictCode, loginCalls, Usable, Entered
<1>11. CASE Tick
  <2>1. /\ \A v \in Verifiers : verifierAt'[v] = "idle"
        /\ UNCHANGED <<attempts, requestAt, sent>>
        /\ fastPath' = fastPath \/ fastPath' = None
    BY <1>1, <1>11 DEF Tick, NobodyBusy, loginCalls
  <2>2. QED
    BY <1>2, <2>1 DEF Entered
<1>12. CASE LoginDies
  BY <1>1, <1>12 DEF LoginDies
<1>13. QED
  BY <1>4, <1>5, <1>6, <1>7, <1>8, <1>9, <1>10, <1>11, <1>12 DEF LoginNext

LEMMA StartsNewest == LoginInit => NewestInv
BY DEF LoginInit, NewestInv, Entered, RowOf

\* A verification that ends has failed on the newest code only if that was not usable.
LEMMA EndsOfNewest ==
  ASSUME LoginInv, LoginSerialInv, NewestInv, [LoginNext]_loginVars, faults \subseteq {"evict"},
         NEW v \in Verifiers, verifierAt[v] # "idle", verifierAt'[v] = "idle",
         Usable(Len(attempts)), \A r \in CodeRequests : requestAt[r] = "idle"
  PROVE  verifier[v].code # attempts[Len(attempts)].code
<1> DEFINE n == Len(attempts)
<1>1. n \in 1 .. Len(attempts) /\ ~attempts[n].consumed /\ Len(attempts) \in Nat
  BY AttemptsAre DEF Usable, LoginInv
<1>2. VerifyStep(v)
  <2>1. ASSUME NEW w \in Verifiers, VerifyStep(w) \/ \E code \in Codes : BeginVerify(w, code)
        PROVE  w = v
    BY <2>1, VerifyMovesOne DEF OneMoves
  <2>2. ASSUME NEW code \in Codes, BeginVerify(v, code) PROVE FALSE
    BY <2>2 DEF BeginVerify
  <2>3. ASSUME NEW r \in CodeRequests, AcquireLock(r) \/ CreateAttempt(r) \/ StoreCode(r)
        PROVE  FALSE
    BY <2>3 DEF AcquireLock, CreateAttempt, StoreCode
  <2>4. ~LoginDies /\ ~Tick /\ ~EvictCode /\ ~UNCHANGED loginVars
    BY DEF LoginDies, Tick, EvictCode, loginVars, loginCalls
  <2>5. QED
    BY <2>1, <2>2, <2>3, <2>4 DEF LoginNext
<1>3. ~Usable(0)
  BY DEF Usable
<1>4. CASE FindAttempt(v)
  <2> DEFINE hash == verifier[v].hash
             matching == {i \in Unconsumed : hash # None => attempts[i].code = hash}
  <2>1. matching \in SUBSET (1 .. n) /\ n \in matching
    BY <1>1, <1>4 DEF Unconsumed, FindAttempt, NewestInv, Newest
  <2>2. Latest(matching) # 0
    <3> HIDE DEF matching
    <3>1. Latest(matching) \in 1 .. n
      BY <1>1, <2>1, LatestIsLast
    <3>2. QED
      BY <1>1, <3>1
  <2>3. verifierAt'[v] \in {"expired", "count"}
    BY <1>4, <2>2 DEF FindAttempt, VerifierTo, LoginInv, LoginTypeOK
  <2>4. QED
    BY <2>3
<1>5. CASE DropFastPath(v)
  BY <1>1, <1>5 DEF DropFastPath, NewestInv, Newest, RowOf
<1>6. CASE CountAndCompare(v)
  <2>1. verifier[v].row = n
    BY <1>1, <1>6 DEF CountAndCompare, NewestInv, Newest, RowOf
  <2>2. QED
    BY <1>6, <2>1 DEF CountAndCompare, VerifierTo, LoginInv, LoginTypeOK
<1>7. CASE CreateUser(v)
  BY <1>7 DEF CreateUser, NewestInv, VerifierTo, LoginInv, LoginTypeOK
<1>8. CASE OpenSession(v)
  BY <1>1, <1>8 DEF OpenSession, NewestInv, Newest, Entered
<1>9. CASE ReadFastPath(v) \/ DeleteKey(v) \/ MarkConsumed(v) \/ FindUser(v) \/ AssignMember(v)
  BY <1>9 DEF ReadFastPath, DeleteKey, MarkConsumed, FindUser, AssignMember, VerifierTo, LoginInv,
     LoginTypeOK
<1>10. QED
  BY <1>2, <1>4, <1>5, <1>6, <1>7, <1>8, <1>9 DEF VerifyStep

(* Who types the code that was sent last gets in, whether or not Redis     *)
(* still has it, if calls neither overlap nor die.                         *)
THEOREM LoginNewestCodeWorks == LoginSpec => NewestCodeWorks
<1> DEFINE Works == faults \subseteq {"evict"} =>
       \A v \in Verifiers :
         (/\ verifierAt[v] # "idle" /\ verifierAt'[v] = "idle"
          /\ Usable(Len(attempts)) /\ \A r \in CodeRequests : requestAt[r] = "idle")
         => verifier[v].code # attempts[Len(attempts)].code
<1>1. LoginInv /\ LoginSerialInv /\ NewestInv /\ [LoginNext]_loginVars => [Works]_loginVars
  BY EndsOfNewest
<1>2. LoginInv /\ LoginSerialInv /\ NewestInv /\ [LoginNext]_loginVars => NewestInv'
  BY NextKeepsNewest
<1>3. LoginSpec => [](LoginInv /\ LoginSerialInv /\ NewestInv)
  BY <1>2, StartsNewest, SerialInvariant, PTL DEF LoginSpec
<1>4. LoginSpec => [][Works]_loginVars
  BY <1>1, <1>3, PTL DEF LoginSpec
<1>5. QED
  BY <1>4 DEF NewestCodeWorks


-----------------------------------------------------------------------------
(***************************************************************************)
(* WebClient. WebInv says of each lane of a tab what it may be asking for, *)
(* with what and for whom it is answered, and which lanes exclude each     *)
(* other. Where nothing excuses a replay, CookiesAgree says that the       *)
(* cookie is in force or about to be replaced by an answer under way, and  *)
(* that nothing else is presented; SilentAgrees is what silent refreshes   *)
(* need for that, and ActAgrees ties what is shown to the token in use.    *)
(* LastingInv adds what a login and a logout leave behind.                 *)
(***************************************************************************)
Bearers == {x \in Credentials : x.who # "cookie"}
Cookies == {x \in Credentials : x.who = "cookie"}

\* What a lane may be asking for.
AtsOf(l) == CASE l = "boot"    -> {"idle", "refresh", "me"}
              [] l = "login"   -> {"idle", "login"}
              [] l = "start"   -> {"idle", "start", "me"}
              [] l = "stop"    -> {"idle", "stop"}
              [] l = "menu"    -> {"idle", "stop", "me", "ended"}
              [] l = "logout"  -> {"idle", "logout"}
              [] l = "refresh" -> {"idle", "refresh"}
              [] OTHER         -> {"idle", "query"}

WithBearer == {"me", "query", "start", "stop", "logout"}
\* Who keeps the bearer in a variable of its own.
Keeps(l, x) == x.at = "query" \/ (x.at = "me" /\ l # "menu")

\* An exchange of lane l: with what it asks, what it was given, and when it is sent again.
ExchangeAgrees(l, x) ==
  /\ x \in Exchanges
  /\ x.at \in AtsOf(l)
  /\ x.at = "idle" => x = NoExchange
  /\ x.at = "ended" => x.answer \in {"ok", "401", "error"}
  /\ x.at = "refresh" => x.with \in Cookies \cup {None}
  /\ x.at \in WithBearer => x.with \in Bearers \cup {None}
  /\ x.own \in Bearers \cup {None}
  /\ x.answer = "ok" /\ x.at \in {"refresh", "login"} => x.given \in Bearers /\ x.given.who = "self"
  /\ x.answer = "ok" /\ x.at = "start" => x.given \in Bearers /\ x.given.who = "target"
  /\ x.answer = "ok" /\ x.at \in {"me", "query"} => x.given = x.with /\ x.with \in Bearers
  /\ x.answer \in {"expired", "await"} =>
       "coded" \in faults /\ ~x.again /\ x.with \in Bearers /\ x.at \in WithBearer \ {"logout"}
  /\ x.again => "coded" \in faults /\ x.with \in Bearers /\ x.with.who = "self"
  /\ Keeps(l, x) => IF x.again THEN x.own \in Bearers ELSE x.with = x.own
  /\ l = "refresh" /\ x.at = "refresh" => "coded" \in faults

\* Every exchange is what its place says.
ExchangesAgree == \A t \in Tabs, l \in Lanes : ExchangeAgrees(l, http[t][l])

\* The cookie and the tokens in the stores are tokens.
StoresAgree ==
  jar \in Cookies \cup {None} /\ \A t \in Tabs : store[t].token \in Bearers \cup {None}

Busy(t, l) == http[t][l].at \notin {"idle", "ended"}

\* A user runs one flow at a time, and but for a login not beside a bootstrap; without silent
\* refreshes, a page that is being left has nothing under way that could write the cookie.
FlowsAt(t) ==
  /\ \A l, k \in Flows : Busy(t, l) /\ Busy(t, k) => l = k
  /\ Booting(t) => store[t].loading /\ \A l \in Flows \ {"login"} : ~Busy(t, l)
  /\ "coded" \notin faults /\ t \in leaving => ~Booting(t) /\ \A l \in Flows : ~Busy(t, l)
FlowsAgree == \A t \in Tabs : FlowsAt(t)

IsSelf(x) == x # None => x.who # "target"
StoreSelf(s) ==
  /\ s.user # "target" /\ ~s.imp /\ IsSelf(s.token)
  /\ s.authed => s.user = "self"
LaneSelf(x) == IsSelf(x.with) /\ IsSelf(x.given) /\ IsSelf(x.own)
SelfAt(t) ==
  /\ StoreSelf(store[t])
  /\ \A l \in Lanes : LaneSelf(http[t][l])
  /\ \A l \in {"start", "stop", "menu"} : http[t][l] = NoExchange
\* Without impersonations there is one user.
SelfAgrees == "act" \notin faults => \A t \in Tabs : SelfAt(t)

\* Without other tabs there is one.
OneTab ==
  "tabs" \notin faults => \A t \in Tabs \ {FirstTab} :
    store[t] = Closed /\ http[t] = Quiet /\ t \notin leaving

Refreshing(l) == http[FirstTab][l].at = "refresh"
Brings(l) == http[FirstTab][l].answer = "ok" /\ http[FirstTab][l].at \in {"refresh", "login"}
Brought(l) == Cookie(http[FirstTab][l].given.n)

OnePresents ==
  ~(faults \cap {"tabs", "lose"} # {} \/ \E f \in {"act", "out", "fail"} : Meets({"coded", f}))

\* Where nothing excuses a replay: the cookie is in force, or an answer that replaces it is
\* under way; nothing else is presented.
CookiesHold ==
  /\ ~replayed
  /\ jar # None => jar \in valid \/ \E l \in {"boot", "refresh"} : Refreshing(l) /\ Brings(l)
  /\ \A l \in {"boot", "refresh"} :
       Refreshing(l) /\ http[FirstTab][l].answer = None => http[FirstTab][l].with \in valid \cup {None}
  /\ \A l \in {"boot", "refresh", "login"} : Brings(l) => Brought(l) \in valid
  /\ Brings("login") =>
       /\ jar # Brought("login")
       /\ \A l \in {"boot", "refresh"} :
            /\ Refreshing(l) => http[FirstTab][l].with # Brought("login")
            /\ Brings(l) => Brought(l) # Brought("login")
CookiesAgree == OnePresents => CookiesHold

\* With silent refreshes, there is neither impersonation nor logout nor failure: who is logged in
\* has a cookie, and a refresh brings the next one.
Needed ==
  \/ store[FirstTab].authed \/ http[FirstTab]["boot"].at = "me"
  \/ \E q \in Queries : http[FirstTab][q].at = "query"
SilentHolds ==
  /\ leaving = {}
  /\ \A l \in {"start", "stop", "menu", "logout"} : http[FirstTab][l] = NoExchange
  /\ Needed => jar # None
  /\ Refreshing("refresh") =>
       http[FirstTab]["refresh"].with # None /\ http[FirstTab]["refresh"].answer \in {None, "ok"}
  /\ Refreshing("boot") => http[FirstTab]["refresh"] = NoExchange
                           /\ \A q \in Queries : http[FirstTab][q] = NoExchange
SilentAgrees == OnePresents /\ "coded" \in faults => SilentHolds

\* What is shown, and when it may be other than who acts.
Shows(t) ==
  store[t].authed /\ Accepted(store[t].token) /\ ~Hydrating(t) =>
    store[t].user = store[t].token.who /\ store[t].imp = (store[t].user = "target")

ActAt(t) ==
  /\ Shows(t)
  /\ http[t]["start"].at = "me" => store[t].token = http[t]["start"].own
  /\ http[t]["start"].at = "me" /\ http[t]["start"].answer \notin {None, "ok"}
       => ~Accepted(http[t]["start"].with)
  /\ http[t]["menu"].at = "stop" => http[t]["menu"].with = store[t].token
  /\ http[t]["menu"].at = "stop" /\ http[t]["menu"].answer = "ok" => http[t]["menu"].with \in ended
  /\ http[t]["menu"].at = "me" => http[t]["menu"].with \in ended /\ http[t]["menu"].answer # "ok"
\* With impersonations, and unless requests fail, what a tab shows and presents is what it acts with.
ActAgrees ==
  "act" \in faults /\ faults \cap {"fail", "lose", "coded"} = {} => \A t \in Tabs : ActAt(t)

\* The inductive invariant.
WebInv ==
  /\ WebTypeOK /\ ExchangesAgree /\ StoresAgree /\ FlowsAgree /\ SelfAgrees /\ OneTab
  /\ CookiesAgree /\ SilentAgrees /\ ActAgrees

-----------------------------------------------------------------------------
(* Lanes, tokens and exchanges *)

LEMMA LanesAre ==
  /\ AtsOf("boot") = {"idle", "refresh", "me"} /\ AtsOf("login") = {"idle", "login"}
  /\ AtsOf("start") = {"idle", "start", "me"} /\ AtsOf("stop") = {"idle", "stop"}
  /\ AtsOf("menu") = {"idle", "stop", "me", "ended"} /\ AtsOf("logout") = {"idle", "logout"}
  /\ AtsOf("refresh") = {"idle", "refresh"} /\ \A q \in Queries : AtsOf(q) = {"idle", "query"}
  /\ \A l \in Lanes : \/ l \in {"boot", "login", "start", "stop", "menu", "logout", "refresh"}
                      \/ l \in Queries
  /\ {"boot", "login", "start", "stop", "menu", "logout", "refresh"} \cup Queries \subseteq Lanes
  /\ \A q \in Queries : q \notin {"boot", "login", "start", "stop", "menu", "logout", "refresh"}
BY TabAssumption DEF AtsOf, Lanes, Flows

LEMMA NoneIsNothing ==
  /\ None \notin Credentials /\ None \notin Bearers /\ None \notin Cookies
  /\ None # "ok" /\ None # "401" /\ None # "error" /\ None # "expired" /\ None # "await"
  /\ None # "self" /\ None # "target"
BY TabAssumption DEF Bearers, Cookies, Answers

LEMMA TokenFields ==
  ASSUME NEW n \in 1 .. LastToken
  PROVE  /\ Cookie(n) \in Cookies /\ Cookie(n).n = n
         /\ Access("self", n) \in Bearers /\ Access("self", n).n = n /\ Access("self", n).who = "self"
         /\ Access("target", n) \in Bearers /\ Access("target", n).n = n
         /\ Access("target", n).who = "target"
BY DEF Cookie, Access, Cookies, Bearers, Credentials

LEMMA TokensHaveNumbers ==
  /\ \A x \in Credentials : x.n \in 1 .. LastToken
  /\ Bearers \subseteq Credentials /\ Cookies \subseteq Credentials /\ Bearers \cap Cookies = {}
  /\ \A x \in Bearers : x.who \in {"self", "target"}
  /\ \A x \in Cookies : x = Cookie(x.n)
BY DEF Bearers, Cookies, Credentials, Cookie

LEMMA FreshIsFree ==
  ASSUME MayIssue
  PROVE  FreshNumber \in 1 .. LastToken /\ FreshNumber \notin HeldNumbers
BY DEF MayIssue, FreshNumber, FreshNumbers

LEMMA NoExchangeFields ==
  /\ NoExchange \in Exchanges /\ NoExchange.at = "idle" /\ NoExchange.with = None
  /\ NoExchange.answer = None /\ NoExchange.given = None /\ NoExchange.again = FALSE
  /\ NoExchange.own = None
BY DEF NoExchange, Exchanges

LEMMA NothingAgrees == \A l \in Lanes : ExchangeAgrees(l, NoExchange)
<1>1. \A l \in Lanes : "idle" \in AtsOf(l)
  BY LanesAre
<1>2. QED
  BY <1>1, NoExchangeFields, NoneIsNothing DEF ExchangeAgrees, WithBearer, Keeps

Ats == {"idle", "refresh", "me", "login", "start", "stop", "logout", "query", "ended"}

LEMMA AskFields ==
  ASSUME NEW at \in Ats, NEW with \in Credentials \cup {None}
  PROVE  /\ Ask(at, with) \in Exchanges /\ Ask(at, with).at = at /\ Ask(at, with).with = with
         /\ Ask(at, with).answer = None /\ Ask(at, with).given = None
         /\ ~Ask(at, with).again /\ Ask(at, with).own = None
BY DEF Ask, NoExchange, Exchanges, Ats

LEMMA AskAsFields ==
  ASSUME NEW at \in Ats, NEW with \in Credentials \cup {None}
  PROVE  /\ AskAs(at, with) \in Exchanges /\ AskAs(at, with).at = at /\ AskAs(at, with).with = with
         /\ AskAs(at, with).answer = None /\ AskAs(at, with).given = None
         /\ ~AskAs(at, with).again /\ AskAs(at, with).own = with
BY DEF AskAs, NoExchange, Exchanges, Ats

\* An exchange that is answered.
Replied(x, a, g) == [x EXCEPT !.answer = a, !.given = g]

LEMMA RepliedFields ==
  ASSUME NEW x \in Exchanges, NEW a \in Answers \cup {None}, NEW g \in Credentials \cup {None}
  PROVE  /\ Replied(x, a, g) \in Exchanges /\ Replied(x, a, g).answer = a
         /\ Replied(x, a, g).given = g
         /\ Replied(x, a, g).at = x.at /\ Replied(x, a, g).with = x.with
         /\ Replied(x, a, g).again = x.again /\ Replied(x, a, g).own = x.own
BY DEF Replied, Exchanges

LEMMA ReAnsweredFields ==
  ASSUME NEW x \in Exchanges, NEW a \in Answers \cup {None}
  PROVE  /\ [x EXCEPT !.answer = a] \in Exchanges /\ [x EXCEPT !.answer = a].answer = a
         /\ [x EXCEPT !.answer = a].given = x.given
         /\ [x EXCEPT !.answer = a].at = x.at /\ [x EXCEPT !.answer = a].with = x.with
         /\ [x EXCEPT !.answer = a].again = x.again /\ [x EXCEPT !.answer = a].own = x.own
BY DEF Exchanges

LEMMA ResentFields ==
  ASSUME NEW x \in Exchanges, NEW token \in Credentials \cup {None}
  PROVE  LET y == [x EXCEPT !.with = token, !.again = TRUE, !.answer = None]
         IN /\ y \in Exchanges /\ y.with = token /\ y.again /\ y.answer = None
            /\ y.at = x.at /\ y.given = x.given /\ y.own = x.own
BY DEF Exchanges

LEMMA EndedFields ==
  ASSUME NEW x \in Exchanges
  PROVE  LET y == [x EXCEPT !.at = "ended"]
         IN /\ y \in Exchanges /\ y.at = "ended" /\ y.with = x.with /\ y.answer = x.answer
            /\ y.given = x.given /\ y.again = x.again /\ y.own = x.own
BY DEF Exchanges

LEMMA OneExchange ==
  ASSUME WebTypeOK, NEW t \in Tabs, NEW l \in Lanes, NEW x \in Exchanges, Exchange(t, l, x)
  PROVE  /\ http' \in [Tabs -> [Lanes -> Exchanges]] /\ http'[t][l] = x
         /\ \A k \in Lanes : k # l => http'[t][k] = http[t][k]
         /\ \A u \in Tabs : u # t => http'[u] = http[u]
BY DEF WebTypeOK, Exchange

LEMMA AllExchanges ==
  ASSUME WebTypeOK, NEW t \in Tabs, NEW f \in [Lanes -> Exchanges], http' = [http EXCEPT ![t] = f]
  PROVE  /\ http' \in [Tabs -> [Lanes -> Exchanges]] /\ http'[t] = f
         /\ \A u \in Tabs : u # t => http'[u] = http[u]
BY DEF WebTypeOK

\* An answer arrives, or it is lost.
LEMMA ReplyFacts ==
  ASSUME WebTypeOK, NEW t \in Tabs, NEW l \in Lanes, NEW answer \in Answers,
         NEW token \in Credentials \cup {None}, Reply(t, l, answer, token)
  PROVE  \E a \in Answers, g \in Credentials \cup {None} :
           /\ (a = answer /\ g = token) \/ ("lose" \in faults /\ a = "error" /\ g = None)
           /\ Replied(http[t][l], a, g) \in Exchanges /\ Exchange(t, l, Replied(http[t][l], a, g))
<1>1. PICK arrives \in IF "lose" \in faults THEN BOOLEAN ELSE {TRUE} :
        Exchange(t, l, [http[t][l] EXCEPT !.answer = IF arrives THEN answer ELSE "error",
                                          !.given = IF arrives THEN token ELSE None])
  BY DEF Reply
<1>2. http[t][l] \in Exchanges
  BY DEF WebTypeOK
<1>3. CASE arrives
  <2>1. Exchange(t, l, Replied(http[t][l], answer, token))
    BY <1>1, <1>3 DEF Replied
  <2>2. QED
    BY <1>2, <2>1, RepliedFields
<1>4. CASE ~arrives
  <2>1. Exchange(t, l, Replied(http[t][l], "error", None)) /\ "lose" \in faults
    BY <1>1, <1>4 DEF Replied
  <2>2. "error" \in Answers
    BY DEF Answers
  <2>3. QED
    BY <1>2, <2>1, <2>2, RepliedFields
<1>5. QED
  BY <1>3, <1>4

-----------------------------------------------------------------------------
(* What the API does *)

LEMMA ReplyAgrees ==
  ASSUME NEW l \in Lanes, NEW x \in Exchanges, ExchangeAgrees(l, x), x.at \notin {"idle", "ended"},
         x.answer = None, NEW a \in {"ok", "401", "error", "expired"}, NEW g \in Credentials \cup {None},
         a = "ok" /\ x.at \in {"refresh", "login"} => g \in Bearers /\ g.who = "self",
         a = "ok" /\ x.at = "start" => g \in Bearers /\ g.who = "target",
         a = "ok" /\ x.at \in {"me", "query"} => g = x.with /\ x.with \in Bearers,
         a = "expired" => "coded" \in faults /\ ~x.again /\ x.with \in Bearers
                          /\ x.at \in WithBearer \ {"logout"}
  PROVE  ExchangeAgrees(l, Replied(x, a, g))
<1>1. PICK y : y = Replied(x, a, g)
  OBVIOUS
<1>2. a \in Answers \cup {None}
  BY DEF Answers
<1>3. /\ y \in Exchanges /\ y.answer = a /\ y.given = g /\ y.at = x.at /\ y.with = x.with
      /\ y.again = x.again /\ y.own = x.own
  BY <1>1, <1>2, RepliedFields
<1>4. ExchangeAgrees(l, y)
  BY <1>3, NoneIsNothing DEF ExchangeAgrees, Keeps
<1>5. QED
  BY <1>1, <1>4

\* What is told to lane l of t, and what it leaves alone.
Told(t, l, a, g) ==
  /\ http[t][l].answer = None /\ http[t][l].at \notin {"idle", "ended"}
  /\ Replied(http[t][l], a, g) \in Exchanges /\ ExchangeAgrees(l, Replied(http[t][l], a, g))
  /\ Exchange(t, l, Replied(http[t][l], a, g))
  /\ UNCHANGED <<jar, store, leaving, faults>>

LEMMA Forgets ==
  ASSUME NEW S \in SUBSET Credentials
  PROVE  Remembered(S) \in SUBSET Credentials /\ Remembered(S) \subseteq S
BY DEF Remembered

LEMMA RefreshServed ==
  ASSUME WebTypeOK, ExchangesAgree, NEW t \in Tabs, NEW l \in Lanes, ServeRefresh(t, l)
  PROVE  /\ http[t][l].at = "refresh"
         /\ UNCHANGED <<expiredTokens, ended>>
              \/ (expiredTokens' = Remembered(expiredTokens) /\ ended' = Remembered(ended))
         /\ \E a \in Answers, g \in Credentials \cup {None} :
              /\ Told(t, l, a, g)
              /\ \/ /\ http[t][l].with \in valid /\ MayIssue /\ UNCHANGED replayed
                    /\ valid' = (Remembered(valid) \ {http[t][l].with}) \cup {Cookie(FreshNumber)}
                    /\ \/ a = "ok" /\ g = Access("self", FreshNumber)
                       \/ "lose" \in faults /\ a = "error" /\ g = None
                 \/ /\ http[t][l].with \notin valid /\ UNCHANGED valid
                    /\ replayed' = (replayed \/ http[t][l].with # None)
                    /\ a = "401" \/ ("lose" \in faults /\ a = "error")
                    /\ g = None
<1>1. PICK x \in Exchanges : x = http[t][l] /\ x.at = "refresh" /\ x.answer = None
  BY DEF ServeRefresh, Asked, WebTypeOK
<1>2. ExchangeAgrees(l, x) /\ UNCHANGED <<jar, store, leaving, faults>>
  BY <1>1 DEF ExchangesAgree, ServeRefresh
<1>3. CASE /\ x.with \in valid /\ MayIssue
           /\ valid' = (Remembered(valid) \ {x.with}) \cup {Cookie(FreshNumber)}
           /\ expiredTokens' = Remembered(expiredTokens) /\ ended' = Remembered(ended)
           /\ Reply(t, l, "ok", Access("self", FreshNumber))
           /\ UNCHANGED replayed
  <2>1. Access("self", FreshNumber) \in Bearers /\ Access("self", FreshNumber).who = "self"
    BY <1>3, FreshIsFree, TokenFields
  <2>2. PICK a \in Answers, g \in Credentials \cup {None} :
           /\ (a = "ok" /\ g = Access("self", FreshNumber)) \/ ("lose" \in faults /\ a = "error" /\ g = None)
           /\ Replied(x, a, g) \in Exchanges /\ Exchange(t, l, Replied(x, a, g))
    BY <1>1, <1>3, <2>1, ReplyFacts, TokensHaveNumbers DEF Answers
  <2>3. ExchangeAgrees(l, Replied(x, a, g))
    BY <1>1, <1>2, <2>1, <2>2, ReplyAgrees
  <2>4. Told(t, l, a, g)
    BY <1>1, <1>2, <2>2, <2>3 DEF Told
  <2>5. QED
    BY <1>1, <1>3, <2>2, <2>4
<1>4. CASE /\ x.with \notin valid
           /\ replayed' = (replayed \/ x.with # None)
           /\ Reply(t, l, "401", None)
           /\ UNCHANGED <<valid, expiredTokens, ended>>
  <2>1. PICK a \in Answers, g \in Credentials \cup {None} :
           /\ (a = "401" /\ g = None) \/ ("lose" \in faults /\ a = "error" /\ g = None)
           /\ Replied(x, a, g) \in Exchanges /\ Exchange(t, l, Replied(x, a, g))
    BY <1>1, <1>4, ReplyFacts DEF Answers
  <2>2. ExchangeAgrees(l, Replied(x, a, g))
    BY <1>1, <1>2, <2>1, ReplyAgrees
  <2>3. Told(t, l, a, g)
    BY <1>1, <1>2, <2>1, <2>2 DEF Told
  <2>4. QED
    BY <1>1, <1>4, <2>1, <2>3
<1>5. QED
  BY <1>1, <1>3, <1>4 DEF ServeRefresh

LEMMA LoginServed ==
  ASSUME WebTypeOK, ExchangesAgree, NEW t \in Tabs, ServeLogin(t)
  PROVE  /\ http[t]["login"].at = "login" /\ MayIssue /\ UNCHANGED replayed
         /\ valid' = Remembered(valid) \cup {Cookie(FreshNumber)}
         /\ expiredTokens' = Remembered(expiredTokens) /\ ended' = Remembered(ended)
         /\ \E a \in Answers, g \in Credentials \cup {None} :
              /\ Told(t, "login", a, g)
              /\ \/ a = "ok" /\ g = Access("self", FreshNumber)
                 \/ "lose" \in faults /\ a = "error" /\ g = None
<1>0. "login" \in Lanes
  BY LanesAre
<1>1. PICK x \in Exchanges : x = http[t]["login"] /\ x.at = "login" /\ x.answer = None
  BY <1>0 DEF ServeLogin, Asked, WebTypeOK
<1>2. ExchangeAgrees("login", x) /\ UNCHANGED <<jar, store, leaving, faults>> /\ MayIssue
  BY <1>0, <1>1 DEF ExchangesAgree, ServeLogin
<1>3. Access("self", FreshNumber) \in Bearers /\ Access("self", FreshNumber).who = "self"
  BY <1>2, FreshIsFree, TokenFields
<1>4. PICK a \in Answers, g \in Credentials \cup {None} :
         /\ (a = "ok" /\ g = Access("self", FreshNumber)) \/ ("lose" \in faults /\ a = "error" /\ g = None)
         /\ Replied(x, a, g) \in Exchanges /\ Exchange(t, "login", Replied(x, a, g))
  BY <1>0, <1>1, <1>3, ReplyFacts, TokensHaveNumbers DEF Answers, ServeLogin
<1>5. ExchangeAgrees("login", Replied(x, a, g))
  BY <1>0, <1>1, <1>2, <1>3, <1>4, ReplyAgrees
<1>6. Told(t, "login", a, g)
  BY <1>1, <1>2, <1>4, <1>5 DEF Told
<1>7. QED
  BY <1>1, <1>2, <1>4, <1>6 DEF ServeLogin

\* What is refused is refused with 401, or with TOKEN_EXPIRED.
LEMMA RefusalIs ==
  ASSUME NEW t \in Tabs, NEW l \in Lanes
  PROVE  \/ Refusal(t, l) = "401"
         \/ /\ Refusal(t, l) = "expired" /\ "coded" \in faults
            /\ ~http[t][l].again /\ http[t][l].with \in expiredTokens
BY DEF Refusal

LEMMA ReadServed ==
  ASSUME WebTypeOK, ExchangesAgree, NEW t \in Tabs, NEW l \in Lanes, ServeRead(t, l)
  PROVE  /\ http[t][l].at \in {"me", "query"}
         /\ UNCHANGED <<valid, expiredTokens, ended, replayed>>
         /\ \E a \in Answers, g \in Credentials \cup {None} :
              /\ Told(t, l, a, g)
              /\ \/ a = "ok" /\ g = http[t][l].with /\ Accepted(http[t][l].with)
                 \/ a = "error" /\ g = None /\ "lose" \in faults
                 \/ a = "401" /\ g = None /\ ~Accepted(http[t][l].with)
                 \/ a = "expired" /\ g = None /\ "coded" \in faults
<1>1. PICK x \in Exchanges : x = http[t][l] /\ x.at \in {"me", "query"} /\ x.answer = None
  BY DEF ServeRead, Asked, WebTypeOK
<1>2. ExchangeAgrees(l, x) /\ UNCHANGED <<jar, store, leaving, faults>>
      /\ UNCHANGED <<valid, expiredTokens, ended, replayed>>
  BY <1>1 DEF ExchangesAgree, ServeRead, server
<1>3. x.with \in Bearers \cup {None}
  BY <1>1, <1>2 DEF ExchangeAgrees, WithBearer
<1>4. CASE Accepted(x.with)
  <2>1. Reply(t, l, "ok", x.with) /\ x.with \in Bearers
    BY <1>1, <1>3, <1>4 DEF ServeRead, Accepted
  <2>2. PICK a \in Answers, g \in Credentials \cup {None} :
           /\ (a = "ok" /\ g = x.with) \/ ("lose" \in faults /\ a = "error" /\ g = None)
           /\ Replied(x, a, g) \in Exchanges /\ Exchange(t, l, Replied(x, a, g))
    BY <1>1, <2>1, ReplyFacts, TokensHaveNumbers DEF Answers
  <2>3. ExchangeAgrees(l, Replied(x, a, g))
    BY <1>1, <1>2, <2>1, <2>2, ReplyAgrees
  <2>4. Told(t, l, a, g)
    BY <1>1, <1>2, <2>2, <2>3 DEF Told
  <2>5. QED
    BY <1>1, <1>2, <1>4, <2>2, <2>4
<1>5. CASE ~Accepted(x.with)
  <2>1. PICK r : r = Refusal(t, l)
    OBVIOUS
  <2>2. Reply(t, l, r, None)
    BY <1>1, <1>5, <2>1 DEF ServeRead
  <2>3. r = "401" \/ (r = "expired" /\ "coded" \in faults /\ ~x.again /\ x.with \in expiredTokens)
    BY <1>1, <2>1, RefusalIs
  <2>4. r = "expired" => x.with \in Bearers
    BY <1>3, <2>3, NoneIsNothing DEF WebTypeOK
  <2>5. PICK a \in Answers, g \in Credentials \cup {None} :
           /\ (a = r /\ g = None) \/ ("lose" \in faults /\ a = "error" /\ g = None)
           /\ Replied(x, a, g) \in Exchanges /\ Exchange(t, l, Replied(x, a, g))
    BY <1>1, <2>2, <2>3, ReplyFacts DEF Answers
  <2>6. ExchangeAgrees(l, Replied(x, a, g))
    BY <1>1, <1>2, <2>3, <2>4, <2>5, ReplyAgrees DEF WithBearer
  <2>7. Told(t, l, a, g)
    BY <1>1, <1>2, <2>5, <2>6 DEF Told
  <2>8. QED
    BY <1>1, <1>2, <1>5, <2>3, <2>5, <2>7
<1>6. QED
  BY <1>4, <1>5

LEMMA StartServed ==
  ASSUME WebTypeOK, ExchangesAgree, NEW t \in Tabs, ServeStart(t)
  PROVE  /\ http[t]["start"].at = "start" /\ UNCHANGED replayed
         /\ UNCHANGED <<valid, expiredTokens, ended>>
              \/ (valid' = Remembered(valid) /\ expiredTokens' = Remembered(expiredTokens)
                    /\ ended' = Remembered(ended))
         /\ \E a \in Answers, g \in Credentials \cup {None} :
              Told(t, "start", a, g) /\ (a = "ok" \/ g = None)
<1>0. "start" \in Lanes
  BY LanesAre
<1>1. PICK x \in Exchanges : x = http[t]["start"] /\ x.at = "start" /\ x.answer = None
  BY <1>0 DEF ServeStart, Asked, WebTypeOK
<1>2. ExchangeAgrees("start", x) /\ UNCHANGED <<jar, store, leaving, faults, replayed>>
  BY <1>0, <1>1 DEF ExchangesAgree, ServeStart
<1>3. x.with \in Bearers \cup {None}
  BY <1>1, <1>2 DEF ExchangeAgrees, WithBearer
<1>4. CASE /\ MayIssue
           /\ valid' = Remembered(valid) /\ expiredTokens' = Remembered(expiredTokens)
           /\ ended' = Remembered(ended)
           /\ Reply(t, "start", "ok", Access("target", FreshNumber))
  <2>1. Access("target", FreshNumber) \in Bearers /\ Access("target", FreshNumber).who = "target"
    BY <1>4, FreshIsFree, TokenFields
  <2>2. PICK a \in Answers, g \in Credentials \cup {None} :
           /\ (a = "ok" /\ g = Access("target", FreshNumber))
                \/ ("lose" \in faults /\ a = "error" /\ g = None)
           /\ Replied(x, a, g) \in Exchanges /\ Exchange(t, "start", Replied(x, a, g))
    BY <1>0, <1>1, <1>4, <2>1, ReplyFacts, TokensHaveNumbers DEF Answers
  <2>3. ExchangeAgrees("start", Replied(x, a, g))
    BY <1>0, <1>1, <1>2, <2>1, <2>2, ReplyAgrees
  <2>4. Told(t, "start", a, g)
    BY <1>1, <1>2, <2>2, <2>3 DEF Told
  <2>5. QED
    BY <1>1, <1>2, <1>4, <2>2, <2>4
<1>5. CASE /\ Reply(t, "start", IF Accepted(x.with) THEN "error" ELSE Refusal(t, "start"), None)
           /\ UNCHANGED <<valid, expiredTokens, ended>>
  <2>1. PICK r : r = IF Accepted(x.with) THEN "error" ELSE Refusal(t, "start")
    OBVIOUS
  <2>2. Reply(t, "start", r, None)
    BY <1>5, <2>1
  <2>3. r \in {"401", "error"}
          \/ (r = "expired" /\ "coded" \in faults /\ ~x.again /\ x.with \in expiredTokens)
    BY <1>0, <1>1, <2>1, RefusalIs
  <2>4. r = "expired" => x.with \in Bearers
    BY <1>3, <2>3, NoneIsNothing DEF WebTypeOK
  <2>5. PICK a \in Answers, g \in Credentials \cup {None} :
           /\ (a = r /\ g = None) \/ ("lose" \in faults /\ a = "error" /\ g = None)
           /\ Replied(x, a, g) \in Exchanges /\ Exchange(t, "start", Replied(x, a, g))
    BY <1>0, <1>1, <2>2, <2>3, ReplyFacts DEF Answers
  <2>6. ExchangeAgrees("start", Replied(x, a, g))
    BY <1>0, <1>1, <1>2, <2>3, <2>4, <2>5, ReplyAgrees DEF WithBearer
  <2>7. Told(t, "start", a, g)
    BY <1>1, <1>2, <2>5, <2>6 DEF Told
  <2>8. QED
    BY <1>1, <1>2, <1>5, <2>3, <2>5, <2>7
<1>6. QED
  BY <1>1, <1>4, <1>5 DEF ServeStart

LEMMA StopServed ==
  ASSUME WebTypeOK, ExchangesAgree, NEW t \in Tabs, NEW l \in Lanes, ServeStop(t, l)
  PROVE  /\ http[t][l].at = "stop" /\ UNCHANGED <<valid, expiredTokens, replayed>>
         /\ ended' \in {ended, ended \cup {http[t][l].with}} /\ ended' \subseteq Credentials
         /\ \E a \in Answers, g \in Credentials \cup {None} :
              /\ Told(t, l, a, g) /\ g = None
              /\ a = "ok" => http[t][l].with \in ended'
<1>1. PICK x \in Exchanges : x = http[t][l] /\ x.at = "stop" /\ x.answer = None
  BY DEF ServeStop, Asked, WebTypeOK
<1>2. ExchangeAgrees(l, x) /\ UNCHANGED <<jar, store, leaving, faults>>
      /\ UNCHANGED <<valid, expiredTokens, replayed>>
  BY <1>1 DEF ExchangesAgree, ServeStop
<1>3. x.with \in Bearers \cup {None}
  BY <1>1, <1>2 DEF ExchangeAgrees, WithBearer
<1>4. PICK stops \in BOOLEAN : stops = (Accepted(x.with) /\ x.with.who = "target")
  OBVIOUS
<1>5. PICK r : r = IF stops THEN "ok" ELSE IF Accepted(x.with) THEN "401" ELSE Refusal(t, l)
  OBVIOUS
<1>6. /\ ended' = IF stops THEN ended \cup {x.with} ELSE ended
      /\ Reply(t, l, r, None)
  BY <1>1, <1>4, <1>5 DEF ServeStop
<1>7. /\ r = "ok" => stops /\ x.with \in Credentials
      /\ r \in {"401", "ok"}
           \/ (r = "expired" /\ "coded" \in faults /\ ~x.again /\ x.with \in expiredTokens)
  BY <1>1, <1>3, <1>4, <1>5, RefusalIs, TokensHaveNumbers DEF Accepted
<1>8. r = "expired" => x.with \in Bearers
  BY <1>3, <1>7, NoneIsNothing DEF WebTypeOK
<1>9. PICK a \in Answers, g \in Credentials \cup {None} :
         /\ (a = r /\ g = None) \/ ("lose" \in faults /\ a = "error" /\ g = None)
         /\ Replied(x, a, g) \in Exchanges /\ Exchange(t, l, Replied(x, a, g))
  BY <1>1, <1>6, <1>7, ReplyFacts DEF Answers
<1>10. ExchangeAgrees(l, Replied(x, a, g))
  BY <1>1, <1>2, <1>7, <1>8, <1>9, ReplyAgrees DEF WithBearer
<1>11. Told(t, l, a, g)
  BY <1>1, <1>2, <1>9, <1>10 DEF Told
<1>12. stops => x.with \in Credentials
  BY <1>3, <1>4, TokensHaveNumbers DEF Accepted
<1>13. ended' \in {ended, ended \cup {x.with}} /\ ended' \subseteq Credentials
  BY <1>6, <1>12 DEF WebTypeOK
<1>14. a = "ok" => x.with \in ended'
  BY <1>6, <1>7, <1>9
<1>15. QED
  BY <1>1, <1>2, <1>9, <1>11, <1>13, <1>14

LEMMA LogoutServed ==
  ASSUME WebTypeOK, ExchangesAgree, NEW t \in Tabs, ServeLogout(t)
  PROVE  /\ http[t]["logout"].at = "logout" /\ UNCHANGED <<valid, expiredTokens, ended, replayed>>
         /\ \E a \in Answers : Told(t, "logout", a, None)
<1>0. "logout" \in Lanes
  BY LanesAre
<1>1. PICK x \in Exchanges : x = http[t]["logout"] /\ x.at = "logout" /\ x.answer = None
  BY <1>0 DEF ServeLogout, Asked, WebTypeOK
<1>2. ExchangeAgrees("logout", x) /\ UNCHANGED <<jar, store, leaving, faults>>
      /\ UNCHANGED <<valid, expiredTokens, ended, replayed>>
  BY <1>0, <1>1 DEF ExchangesAgree, ServeLogout, server
<1>3. PICK a \in Answers, g \in Credentials \cup {None} :
         /\ (a = "ok" /\ g = None) \/ ("lose" \in faults /\ a = "error" /\ g = None)
         /\ Replied(x, a, g) \in Exchanges /\ Exchange(t, "logout", Replied(x, a, g))
  BY <1>0, <1>1, ReplyFacts DEF Answers, ServeLogout
<1>4. ExchangeAgrees("logout", Replied(x, a, g))
  BY <1>0, <1>1, <1>2, <1>3, ReplyAgrees
<1>5. Told(t, "logout", a, g)
  BY <1>1, <1>2, <1>3, <1>4 DEF Told
<1>6. QED
  BY <1>1, <1>2, <1>3, <1>5

LEMMA FailServed ==
  ASSUME WebTypeOK, ExchangesAgree, NEW t \in Tabs, NEW l \in Lanes, Fail(t, l)
  PROVE  /\ "fail" \in faults /\ UNCHANGED <<valid, expiredTokens, ended, replayed>>
         /\ \E g \in Credentials \cup {None} : Told(t, l, "error", g) /\ g = http[t][l].given
<1>1. PICK x \in Exchanges : x = http[t][l] /\ x.at \notin {"idle", "ended"} /\ x.answer = None
  BY DEF Fail, WebTypeOK
<1>2. ExchangeAgrees(l, x) /\ UNCHANGED <<jar, store, leaving, faults>> /\ "fail" \in faults
      /\ UNCHANGED <<valid, expiredTokens, ended, replayed>>
  BY <1>1 DEF ExchangesAgree, Fail, server
<1>3. PICK g \in Credentials \cup {None} : g = x.given
  BY <1>1 DEF Exchanges
<1>4. [x EXCEPT !.answer = "error"] = Replied(x, "error", g)
  BY <1>1, <1>3 DEF Replied, Exchanges
<1>5. Exchange(t, l, Replied(x, "error", g)) /\ Replied(x, "error", g) \in Exchanges
  BY <1>1, <1>3, <1>4, RepliedFields DEF Fail, Answers
<1>6. ExchangeAgrees(l, Replied(x, "error", g))
  BY <1>1, <1>2, ReplyAgrees
<1>7. QED
  BY <1>1, <1>2, <1>3, <1>5, <1>6 DEF Told

-----------------------------------------------------------------------------
(* What the actions of the browser change *)

Stores == [token : Credentials \cup {None}, user : {"self", "target", None}, authed : BOOLEAN,
           loading : BOOLEAN, imp : BOOLEAN]

\* What a tab does leaves the others alone.
Apart(t) ==
  /\ faults' = faults
  /\ \A u \in Tabs : u # t => http'[u] = http[u] /\ store'[u] = store[u]
  /\ \A u \in Tabs : u # t => (u \in leaving' <=> u \in leaving)

SameServer == UNCHANGED <<valid, expiredTokens, ended, replayed>>

\* Lane l of t goes on with x, and no other.
Only(t, l, x) ==
  /\ ExchangeAgrees(l, x) /\ http'[t][l] = x
  /\ \A k \in Lanes : k # l => http'[t][k] = http[t][k]

Typed == WebTypeOK /\ ExchangesAgree /\ StoresAgree

LEMMA AskAgrees ==
  ASSUME NEW l \in Lanes, NEW at \in AtsOf(l), NEW with \in Credentials \cup {None},
         at \notin {"idle", "ended", "query"}, at = "me" => l = "menu",
         at = "refresh" => with \in Cookies \cup {None},
         at \in WithBearer => with \in Bearers \cup {None},
         l = "refresh" => "coded" \in faults
  PROVE  ExchangeAgrees(l, Ask(at, with))
<1>1. at \in Ats
  BY LanesAre DEF Ats
<1>2. PICK y : y = Ask(at, with)
  OBVIOUS
<1>3. /\ y \in Exchanges /\ y.at = at /\ y.with = with /\ y.answer = None /\ y.given = None
      /\ ~y.again /\ y.own = None
  BY <1>1, <1>2, AskFields
<1>4. ExchangeAgrees(l, y)
  BY <1>3, NoneIsNothing DEF ExchangeAgrees, Keeps
<1>5. QED
  BY <1>2, <1>4

LEMMA AskAsAgrees ==
  ASSUME NEW l \in Lanes, NEW at \in AtsOf(l), NEW with \in Bearers \cup {None},
         at \in {"me", "query"}
  PROVE  ExchangeAgrees(l, AskAs(at, with))
<1>1. at \in Ats /\ l # "refresh" /\ with \in Credentials \cup {None}
  BY LanesAre, TokensHaveNumbers DEF Ats
<1>2. PICK y : y = AskAs(at, with)
  OBVIOUS
<1>3. /\ y \in Exchanges /\ y.at = at /\ y.with = with /\ y.answer = None /\ y.given = None
      /\ ~y.again /\ y.own = with
  BY <1>1, <1>2, AskAsFields
<1>4. ExchangeAgrees(l, y)
  BY <1>1, <1>3, NoneIsNothing DEF ExchangeAgrees, Keeps
<1>5. QED
  BY <1>2, <1>4

LEMMA OneStore ==
  ASSUME WebTypeOK, NEW t \in Tabs, NEW s \in Stores, store' = [store EXCEPT ![t] = s]
  PROVE  /\ store' \in [Tabs -> Stores] /\ store'[t] = s
         /\ \A u \in Tabs : u # t => store'[u] = store[u]
BY DEF WebTypeOK, Stores

LEMMA TokenStored ==
  ASSUME WebTypeOK, NEW t \in Tabs, NEW x \in Credentials \cup {None},
         store' = [store EXCEPT ![t].token = x]
  PROVE  /\ store' \in [Tabs -> Stores] /\ store'[t].token = x
         /\ store'[t].user = store[t].user /\ store'[t].authed = store[t].authed
         /\ store'[t].loading = store[t].loading /\ store'[t].imp = store[t].imp
         /\ \A u \in Tabs : u # t => store'[u] = store[u]
<1>1. PICK s \in Stores : s = [store[t] EXCEPT !.token = x]
  BY DEF WebTypeOK, Stores
<1>2. store' = [store EXCEPT ![t] = s]
  BY <1>1
<1>3. /\ s.token = x /\ s.user = store[t].user /\ s.authed = store[t].authed
      /\ s.loading = store[t].loading /\ s.imp = store[t].imp
  BY <1>1 DEF WebTypeOK
<1>4. QED
  BY <1>2, <1>3, OneStore

LEMMA AuthedFields ==
  ASSUME NEW s \in Stores, NEW token \in Credentials, NEW user \in {"self", "target"}
  PROVE  /\ Authed(s, token, user) \in Stores /\ Authed(s, token, user).token = token
         /\ Authed(s, token, user).user = user /\ Authed(s, token, user).authed
         /\ Authed(s, token, user).loading = s.loading
         /\ Authed(s, token, user).imp <=> token.who = "target"
BY DEF Authed, Stores, impersonationFromToken

LEMMA NotLoading ==
  ASSUME NEW s \in Stores
  PROVE  LET r == [s EXCEPT !.loading = FALSE]
         IN /\ r \in Stores /\ ~r.loading /\ r.token = s.token /\ r.user = s.user
            /\ r.authed = s.authed /\ r.imp = s.imp
BY DEF Stores

LEMMA InitialFields ==
  /\ initialState \in Stores /\ initialState.token = None /\ initialState.user = None
  /\ ~initialState.authed /\ initialState.loading /\ ~initialState.imp
  /\ Closed \in Stores /\ Closed.token = None /\ Closed.user = None
  /\ ~Closed.authed /\ ~Closed.loading /\ ~Closed.imp
BY DEF initialState, Closed, Stores

\* One lane goes on.
LEMMA LaneGoesOn ==
  ASSUME Typed, NEW t \in Tabs, NEW l \in Lanes, NEW x, ExchangeAgrees(l, x), Exchange(t, l, x),
         faults' = faults
  PROVE  /\ http' \in [Tabs -> [Lanes -> Exchanges]] /\ Only(t, l, x) /\ ExchangesAgree'
         /\ \A u \in Tabs : u # t => http'[u] = http[u]
<1>1. x \in Exchanges
  BY DEF ExchangeAgrees
<1>2. /\ http' \in [Tabs -> [Lanes -> Exchanges]] /\ http'[t][l] = x
      /\ \A k \in Lanes : k # l => http'[t][k] = http[t][k]
      /\ \A u \in Tabs : u # t => http'[u] = http[u]
  BY <1>1, OneExchange DEF Typed
<1>3. ASSUME NEW u \in Tabs, NEW k \in Lanes
      PROVE  ExchangeAgrees(k, http[u][k])'
  <2>1. PICK y : y = http'[u][k] /\ ExchangeAgrees(k, y)
    BY <1>2 DEF Typed, ExchangesAgree
  <2>2. QED
    BY <2>1 DEF ExchangeAgrees, Keeps
<1>4. QED
  BY <1>2, <1>3 DEF Only, ExchangesAgree

\* All lanes of a tab go on.
LEMMA LanesGoOn ==
  ASSUME Typed, NEW t \in Tabs, NEW f \in [Lanes -> Exchanges], http' = [http EXCEPT ![t] = f],
         \A l \in Lanes : ExchangeAgrees(l, f[l]), faults' = faults
  PROVE  /\ http' \in [Tabs -> [Lanes -> Exchanges]] /\ http'[t] = f /\ ExchangesAgree'
         /\ \A u \in Tabs : u # t => http'[u] = http[u]
<1>1. /\ http' \in [Tabs -> [Lanes -> Exchanges]] /\ http'[t] = f
      /\ \A u \in Tabs : u # t => http'[u] = http[u]
  BY AllExchanges DEF Typed
<1>2. ASSUME NEW u \in Tabs, NEW k \in Lanes
      PROVE  ExchangeAgrees(k, http[u][k])'
  <2>1. PICK y : y = http'[u][k] /\ ExchangeAgrees(k, y)
    BY <1>1 DEF Typed, ExchangesAgree
  <2>2. QED
    BY <2>1 DEF ExchangeAgrees, Keeps
<1>3. QED
  BY <1>1, <1>2 DEF ExchangesAgree

\* The types are kept by what changes the lanes and one store.
LEMMA TypesAre ==
  ASSUME Typed, NEW t \in Tabs, http' \in [Tabs -> [Lanes -> Exchanges]], ExchangesAgree',
         \A u \in Tabs : u # t => http'[u] = http[u], faults' = faults,
         store' \in [Tabs -> Stores], \A u \in Tabs : u # t => store'[u] = store[u],
         store'[t].token \in Bearers \cup {None}, jar' \in Cookies \cup {None},
         leaving' \in {leaving, leaving \cup {t}, leaving \ {t}},
         valid' \subseteq Credentials, expiredTokens' \subseteq Credentials,
         ended' \subseteq Credentials, replayed' \in BOOLEAN
  PROVE  Typed' /\ Apart(t)
<1>1. WebTypeOK'
  BY TokensHaveNumbers DEF Typed, WebTypeOK, Stores
<1>2. StoresAgree'
  BY DEF Typed, StoresAgree
<1>3. Apart(t)
  BY DEF Apart
<1>4. QED
  BY <1>1, <1>2, <1>3 DEF Typed

LEMMA ServerTypes ==
  ASSUME Typed
  PROVE  /\ store \in [Tabs -> Stores] /\ jar \in Cookies \cup {None} /\ valid \subseteq Credentials
         /\ expiredTokens \subseteq Credentials /\ ended \subseteq Credentials
         /\ replayed \in BOOLEAN /\ \A t \in Tabs : store[t].token \in Bearers \cup {None}
         /\ http \in [Tabs -> [Lanes -> Exchanges]]
         /\ \A t \in Tabs, l \in Lanes : ExchangeAgrees(l, http[t][l])
BY DEF Typed, WebTypeOK, StoresAgree, ExchangesAgree, Stores

LEMMA ToldFields ==
  ASSUME Typed, NEW t \in Tabs, NEW l \in Lanes, NEW a \in Answers,
         NEW g \in Credentials \cup {None}, Told(t, l, a, g)
  PROVE  /\ http'[t][l].at = http[t][l].at /\ http'[t][l].with = http[t][l].with
         /\ http'[t][l].own = http[t][l].own /\ http'[t][l].again = http[t][l].again
         /\ http'[t][l].answer = a /\ http'[t][l].given = g
         /\ \A k \in Lanes : k # l => http'[t][k] = http[t][k]
<1>1. PICK x \in Exchanges : x = http[t][l]
  BY ServerTypes
<1>2. PICK y : y = Replied(x, a, g)
  OBVIOUS
<1>3. /\ y.answer = a /\ y.given = g /\ y.at = x.at /\ y.with = x.with /\ y.again = x.again
      /\ y.own = x.own
  BY <1>2, RepliedFields
<1>4. ExchangeAgrees(l, y) /\ Exchange(t, l, y) /\ faults' = faults
  BY <1>1, <1>2 DEF Told
<1>5. Only(t, l, y)
  BY <1>4, LaneGoesOn
<1>6. QED
  BY <1>1, <1>3, <1>5 DEF Only

LEMMA ToldTypes ==
  ASSUME Typed, NEW t \in Tabs, NEW l \in Lanes, NEW a \in Answers,
         NEW g \in Credentials \cup {None}, Told(t, l, a, g),
         valid' \subseteq Credentials, expiredTokens' \subseteq Credentials,
         ended' \subseteq Credentials, replayed' \in BOOLEAN
  PROVE  Typed' /\ Apart(t) /\ UNCHANGED <<jar, store, leaving, faults>>
<1>1. PICK y : y = Replied(http[t][l], a, g)
  OBVIOUS
<1>2. /\ ExchangeAgrees(l, y) /\ Exchange(t, l, y)
      /\ UNCHANGED jar /\ UNCHANGED store /\ UNCHANGED leaving /\ UNCHANGED faults
  BY <1>1 DEF Told
<1>3. /\ http' \in [Tabs -> [Lanes -> Exchanges]] /\ ExchangesAgree'
      /\ \A u \in Tabs : u # t => http'[u] = http[u]
  BY <1>2, LaneGoesOn
<1>4. Typed' /\ Apart(t)
  BY <1>2, <1>3, ServerTypes, TypesAre
<1>5. QED
  BY <1>2, <1>4

LEMMA Served ==
  ASSUME Typed, NEW t \in Tabs, NEW l \in Lanes, Serve(t, l) \/ Fail(t, l)
  PROVE  /\ Typed' /\ Apart(t) /\ UNCHANGED <<jar, store, leaving, faults>>
         /\ \E a \in Answers, g \in Credentials \cup {None} : Told(t, l, a, g)
<1>0. /\ WebTypeOK /\ ExchangesAgree /\ valid \subseteq Credentials
      /\ expiredTokens \subseteq Credentials /\ ended \subseteq Credentials /\ replayed \in BOOLEAN
  BY ServerTypes DEF Typed
<1>1. /\ Remembered(valid) \subseteq Credentials /\ Remembered(expiredTokens) \subseteq Credentials
      /\ Remembered(ended) \subseteq Credentials
  BY <1>0, Forgets
<1>2. MayIssue => Cookie(FreshNumber) \in Credentials
  BY FreshIsFree, TokenFields, TokensHaveNumbers
<1>a. "error" \in Answers
  BY DEF Answers
<1>3. CASE ServeRefresh(t, l)
  <2>1. PICK a \in Answers, g \in Credentials \cup {None} :
           /\ Told(t, l, a, g)
           /\ \/ /\ MayIssue /\ UNCHANGED replayed
                 /\ valid' = (Remembered(valid) \ {http[t][l].with}) \cup {Cookie(FreshNumber)}
              \/ UNCHANGED valid /\ replayed' = (replayed \/ http[t][l].with # None)
    BY <1>0, <1>3, RefreshServed
  <2>2. UNCHANGED <<expiredTokens, ended>>
              \/ (expiredTokens' = Remembered(expiredTokens) /\ ended' = Remembered(ended))
    BY <1>0, <1>3, RefreshServed
  <2>3. valid' \subseteq Credentials /\ replayed' \in BOOLEAN
    BY <1>0, <1>1, <1>2, <2>1
  <2>4. expiredTokens' \subseteq Credentials /\ ended' \subseteq Credentials
    BY <1>0, <1>1, <2>2
  <2>5. QED
    BY <2>1, <2>3, <2>4, ToldTypes
<1>4. CASE l = "login" /\ ServeLogin(t)
  <2>1. PICK a \in Answers, g \in Credentials \cup {None} : Told(t, l, a, g)
    BY <1>0, <1>4, LoginServed
  <2>2. /\ valid' = Remembered(valid) \cup {Cookie(FreshNumber)} /\ MayIssue
        /\ expiredTokens' = Remembered(expiredTokens) /\ ended' = Remembered(ended)
        /\ UNCHANGED replayed
    BY <1>0, <1>4, LoginServed
  <2>3. QED
    BY <1>0, <1>1, <1>2, <2>1, <2>2, ToldTypes
<1>5. CASE ServeRead(t, l)
  <2>1. PICK a \in Answers, g \in Credentials \cup {None} : Told(t, l, a, g)
    BY <1>0, <1>5, ReadServed
  <2>2. UNCHANGED <<valid, expiredTokens, ended, replayed>>
    BY <1>0, <1>5, ReadServed
  <2>3. QED
    BY <1>0, <2>1, <2>2, ToldTypes
<1>6. CASE l = "start" /\ ServeStart(t)
  <2>1. PICK a \in Answers, g \in Credentials \cup {None} : Told(t, l, a, g)
    BY <1>0, <1>6, StartServed
  <2>2. /\ UNCHANGED replayed
        /\ UNCHANGED <<valid, expiredTokens, ended>>
             \/ (valid' = Remembered(valid) /\ expiredTokens' = Remembered(expiredTokens)
                   /\ ended' = Remembered(ended))
    BY <1>0, <1>6, StartServed
  <2>3. /\ valid' \subseteq Credentials /\ expiredTokens' \subseteq Credentials
        /\ ended' \subseteq Credentials /\ replayed' \in BOOLEAN
    BY <1>0, <1>1, <2>2
  <2>4. QED
    BY <2>1, <2>3, ToldTypes
<1>7. CASE ServeStop(t, l)
  <2>1. PICK a \in Answers, g \in Credentials \cup {None} : Told(t, l, a, g)
    BY <1>0, <1>7, StopServed
  <2>2. UNCHANGED <<valid, expiredTokens, replayed>> /\ ended' \subseteq Credentials
    BY <1>0, <1>7, StopServed
  <2>3. QED
    BY <1>0, <2>1, <2>2, ToldTypes
<1>8. CASE l = "logout" /\ ServeLogout(t)
  <2>1. PICK a \in Answers : Told(t, l, a, None)
    BY <1>0, <1>8, LogoutServed
  <2>2. UNCHANGED <<valid, expiredTokens, ended, replayed>>
    BY <1>0, <1>8, LogoutServed
  <2>3. QED
    BY <1>0, <2>1, <2>2, ToldTypes
<1>9. CASE Fail(t, l)
  <2>1. PICK g \in Credentials \cup {None} : Told(t, l, "error", g)
    BY <1>0, <1>9, FailServed
  <2>2. UNCHANGED <<valid, expiredTokens, ended, replayed>>
    BY <1>0, <1>9, FailServed
  <2>3. QED
    BY <1>0, <1>a, <2>1, <2>2, ToldTypes
<1>10. QED
  BY <1>3, <1>4, <1>5, <1>6, <1>7, <1>8, <1>9 DEF Serve

\* Lane l of t asks anew, lane l of t rests.
LaneAsks(t, l, at, with, own) ==
  /\ http'[t][l].at = at /\ http'[t][l].with = with /\ http'[t][l].own = own
  /\ http'[t][l].answer = None /\ http'[t][l].given = None /\ ~http'[t][l].again
  /\ \A k \in Lanes : k # l => http'[t][k] = http[t][k]
LaneRests(t, l) ==
  http'[t][l] = NoExchange /\ \A k \in Lanes : k # l => http'[t][k] = http[t][k]

\* Lane l of t goes on with x, and the tab's store, the jar and leaving are as told.
LEMMA StepTypes ==
  ASSUME Typed, NEW t \in Tabs, NEW l \in Lanes, NEW x, ExchangeAgrees(l, x), Exchange(t, l, x),
         faults' = faults, SameServer,
         store' \in [Tabs -> Stores], \A u \in Tabs : u # t => store'[u] = store[u],
         store'[t].token \in Bearers \cup {None}, jar' \in Cookies \cup {None},
         leaving' \in {leaving, leaving \cup {t}, leaving \ {t}}
  PROVE  Typed' /\ Apart(t) /\ Only(t, l, x)
<1>1. /\ http' \in [Tabs -> [Lanes -> Exchanges]] /\ ExchangesAgree' /\ Only(t, l, x)
      /\ \A u \in Tabs : u # t => http'[u] = http[u]
  BY LaneGoesOn
<1>2. /\ valid' \subseteq Credentials /\ expiredTokens' \subseteq Credentials
      /\ ended' \subseteq Credentials /\ replayed' \in BOOLEAN
  BY ServerTypes DEF SameServer
<1>3. QED
  BY <1>1, <1>2, TypesAre

LEMMA AskStep ==
  ASSUME Typed, NEW t \in Tabs, NEW l \in Lanes, NEW at \in AtsOf(l),
         NEW with \in Credentials \cup {None},
         at \notin {"idle", "ended", "query"}, at = "me" => l = "menu",
         at = "refresh" => with \in Cookies \cup {None},
         at \in WithBearer => with \in Bearers \cup {None},
         l = "refresh" => "coded" \in faults,
         Exchange(t, l, Ask(at, with)), SameServer, UNCHANGED <<jar, store, leaving, faults>>
  PROVE  Typed' /\ Apart(t) /\ LaneAsks(t, l, at, with, None)
<1>1. at \in Ats
  BY LanesAre DEF Ats
<1>2. PICK y : y = Ask(at, with)
  OBVIOUS
<1>3. /\ y.at = at /\ y.with = with /\ y.answer = None /\ y.given = None /\ ~y.again /\ y.own = None
  BY <1>1, <1>2, AskFields
<1>4. ExchangeAgrees(l, y) /\ Exchange(t, l, y) /\ faults' = faults
  BY <1>2, AskAgrees
<1>5. /\ store' \in [Tabs -> Stores] /\ \A u \in Tabs : u # t => store'[u] = store[u]
      /\ store'[t].token \in Bearers \cup {None} /\ jar' \in Cookies \cup {None}
      /\ leaving' = leaving
  BY ServerTypes
<1>6. Typed' /\ Apart(t) /\ Only(t, l, y)
  BY <1>4, <1>5, StepTypes
<1>7. QED
  BY <1>3, <1>6 DEF Only, LaneAsks

LEMMA AskAsStep ==
  ASSUME Typed, NEW t \in Tabs, NEW l \in Lanes, NEW at \in AtsOf(l), at \in {"me", "query"},
         NEW with \in Bearers \cup {None}, Exchange(t, l, AskAs(at, with)), SameServer, faults' = faults,
         store' \in [Tabs -> Stores], \A u \in Tabs : u # t => store'[u] = store[u],
         store'[t].token \in Bearers \cup {None}, jar' \in Cookies \cup {None}, leaving' = leaving
  PROVE  Typed' /\ Apart(t) /\ LaneAsks(t, l, at, with, with)
<1>1. at \in Ats /\ with \in Credentials \cup {None}
  BY LanesAre, TokensHaveNumbers DEF Ats
<1>2. PICK y : y = AskAs(at, with)
  OBVIOUS
<1>3. /\ y.at = at /\ y.with = with /\ y.answer = None /\ y.given = None /\ ~y.again /\ y.own = with
  BY <1>1, <1>2, AskAsFields
<1>4. ExchangeAgrees(l, y) /\ Exchange(t, l, y)
  BY <1>2, AskAsAgrees
<1>5. Typed' /\ Apart(t) /\ Only(t, l, y)
  BY <1>4, StepTypes
<1>6. QED
  BY <1>3, <1>5 DEF Only, LaneAsks

LEMMA RestStep ==
  ASSUME Typed, NEW t \in Tabs, NEW l \in Lanes, Exchange(t, l, NoExchange), SameServer,
         faults' = faults,
         store' \in [Tabs -> Stores], \A u \in Tabs : u # t => store'[u] = store[u],
         store'[t].token \in Bearers \cup {None}, jar' \in Cookies \cup {None},
         leaving' \in {leaving, leaving \cup {t}}
  PROVE  Typed' /\ Apart(t) /\ LaneRests(t, l)
<1>1. PICK y : y = NoExchange
  OBVIOUS
<1>2. ExchangeAgrees(l, y) /\ Exchange(t, l, y)
  BY <1>1, NothingAgrees
<1>3. Typed' /\ Apart(t) /\ Only(t, l, y)
  BY <1>2, StepTypes
<1>4. QED
  BY <1>1, <1>3 DEF Only, LaneRests

\* What a user does: one lane asks, with the token the page has.
Starts(t) ==
  \/ LaneAsks(t, "login", "login", None, None) /\ t = FirstTab /\ BetweenFlows(t)
  \/ /\ LaneAsks(t, "logout", "logout", store[t].token, None) /\ "out" \in faults
     /\ BetweenFlows(t) /\ Shown(t)
  \/ /\ LaneAsks(t, "start", "start", store[t].token, None) /\ "act" \in faults
     /\ BetweenFlows(t) /\ Shown(t)
  \/ /\ LaneAsks(t, "stop", "stop", store[t].token, None) /\ store[t].imp
     /\ BetweenFlows(t) /\ ~Booting(t)
  \/ /\ LaneAsks(t, "menu", "stop", store[t].token, None) /\ store[t].imp
     /\ BetweenFlows(t) /\ Shown(t)
  \/ \E q \in Queries :
       LaneAsks(t, q, "query", store[t].token, store[t].token) /\ Shown(t)

UserActs(t) ==
  \/ Verify(t) \/ AskLogout(t) \/ StartImpersonation(t) \/ StopImpersonation(t) \/ MenuStop(t)
  \/ \E q \in Queries : Query(t, q)

LEMMA UserStarts ==
  ASSUME Typed, NEW t \in Tabs, UserActs(t)
  PROVE  /\ Typed' /\ Apart(t) /\ SameServer /\ UNCHANGED <<jar, store, leaving, faults>>
         /\ Starts(t)
<1>0. PICK token \in Bearers \cup {None} : token = store[t].token
  BY ServerTypes
<1>1. token \in Credentials \cup {None}
  BY TokensHaveNumbers
<1>2. SameServer /\ UNCHANGED <<jar, store, leaving, faults>>
  BY DEF UserActs, Verify, AskLogout, StartImpersonation, StopImpersonation, MenuStop, Query,
         server, SameServer
<1>3. CASE Verify(t)
  <2>1. "login" \in Lanes /\ "login" \in AtsOf("login") /\ "login" \notin WithBearer
    BY LanesAre DEF WithBearer
  <2>2. Exchange(t, "login", Ask("login", None))
    BY <1>3 DEF Verify
  <2>3. Typed' /\ Apart(t) /\ LaneAsks(t, "login", "login", None, None)
    BY <1>2, <2>1, <2>2, AskStep
  <2>4. QED
    BY <1>2, <1>3, <2>3 DEF Verify, Starts
<1>4. CASE AskLogout(t)
  <2>1. "logout" \in Lanes /\ "logout" \in AtsOf("logout")
    BY LanesAre
  <2>2. Exchange(t, "logout", Ask("logout", token))
    BY <1>0, <1>4 DEF AskLogout
  <2>3. Typed' /\ Apart(t) /\ LaneAsks(t, "logout", "logout", token, None)
    BY <1>1, <1>2, <2>1, <2>2, AskStep
  <2>4. QED
    BY <1>0, <1>2, <1>4, <2>3 DEF AskLogout, Starts
<1>5. CASE StartImpersonation(t)
  <2>1. "start" \in Lanes /\ "start" \in AtsOf("start")
    BY LanesAre
  <2>2. Exchange(t, "start", Ask("start", token))
    BY <1>0, <1>5 DEF StartImpersonation
  <2>3. Typed' /\ Apart(t) /\ LaneAsks(t, "start", "start", token, None)
    BY <1>1, <1>2, <2>1, <2>2, AskStep
  <2>4. QED
    BY <1>0, <1>2, <1>5, <2>3 DEF StartImpersonation, Starts
<1>6. CASE StopImpersonation(t)
  <2>1. "stop" \in Lanes /\ "stop" \in AtsOf("stop")
    BY LanesAre
  <2>2. Exchange(t, "stop", Ask("stop", token))
    BY <1>0, <1>6 DEF StopImpersonation
  <2>3. Typed' /\ Apart(t) /\ LaneAsks(t, "stop", "stop", token, None)
    BY <1>1, <1>2, <2>1, <2>2, AskStep
  <2>4. QED
    BY <1>0, <1>2, <1>6, <2>3 DEF StopImpersonation, Starts
<1>7. CASE MenuStop(t)
  <2>1. "menu" \in Lanes /\ "stop" \in AtsOf("menu")
    BY LanesAre
  <2>2. Exchange(t, "menu", Ask("stop", token))
    BY <1>0, <1>7 DEF MenuStop
  <2>3. Typed' /\ Apart(t) /\ LaneAsks(t, "menu", "stop", token, None)
    BY <1>1, <1>2, <2>1, <2>2, AskStep
  <2>4. QED
    BY <1>0, <1>2, <1>7, <2>3 DEF MenuStop, Starts
<1>8. ASSUME NEW q \in Queries, Query(t, q)
      PROVE  Typed' /\ Apart(t) /\ Starts(t)
  <2>1. q \in Lanes /\ "query" \in AtsOf(q)
    BY LanesAre
  <2>2. Exchange(t, q, AskAs("query", token)) /\ Shown(t)
    BY <1>0, <1>8 DEF Query
  <2>3. /\ store' \in [Tabs -> Stores] /\ \A u \in Tabs : u # t => store'[u] = store[u]
        /\ store'[t].token \in Bearers \cup {None} /\ jar' \in Cookies \cup {None}
        /\ leaving' = leaving /\ faults' = faults
    BY <1>2, ServerTypes
  <2>4. Typed' /\ Apart(t) /\ LaneAsks(t, q, "query", token, token)
    BY <1>2, <2>1, <2>2, <2>3, AskAsStep
  <2>5. QED
    BY <1>0, <2>2, <2>4 DEF Starts
<1>9. QED
  BY <1>2, <1>3, <1>4, <1>5, <1>6, <1>7, <1>8 DEF UserActs

\* What a tab does to itself and to the jar; the API is not asked.
Handles(t) == Typed' /\ Apart(t) /\ SameServer

\* The store of t, but for its token.
SameUser(t) ==
  /\ store'[t].user = store[t].user /\ store'[t].authed = store[t].authed
  /\ store'[t].loading = store[t].loading /\ store'[t].imp = store[t].imp
Knows(t, token, user) ==
  /\ store'[t].token = token /\ store'[t].user = user /\ store'[t].authed
  /\ store'[t].imp <=> token.who = "target"

LEMMA RefreshedFacts ==
  ASSUME Typed, NEW t \in Tabs, Refreshed(t)
  PROVE  /\ Handles(t) /\ leaving' = leaving /\ "coded" \in faults /\ SameUser(t)
         /\ http[t]["refresh"].at = "refresh" /\ http[t]["refresh"].answer = "ok"
         /\ http'[t]["refresh"] = NoExchange
         /\ \E g \in Bearers :
              /\ g = http[t]["refresh"].given /\ g.who = "self"
              /\ jar' = Cookie(g.n) /\ store'[t].token = g
              /\ \A l \in Lanes \ {"refresh"} :
                   \/ http'[t][l] = http[t][l]
                   \/ /\ http[t][l].answer = "await" /\ http'[t][l].at = http[t][l].at
                      /\ http'[t][l].with = g /\ http'[t][l].given = http[t][l].given
                      /\ http'[t][l].own = http[t][l].own /\ http'[t][l].answer = None
<1>0. "refresh" \in Lanes
  BY LanesAre
<1>1. PICK g \in Bearers : g = http[t]["refresh"].given /\ g.who = "self"
  <2>1. ExchangeAgrees("refresh", http[t]["refresh"])
    BY <1>0, ServerTypes
  <2>2. QED
    BY <2>1 DEF Refreshed, Answered, Succeeded, ExchangeAgrees
<1>2. /\ http[t]["refresh"].at = "refresh" /\ http[t]["refresh"].answer = "ok"
      /\ jar' = Cookie(g.n) /\ store' = [store EXCEPT ![t].token = g]
      /\ http' = [http EXCEPT ![t] = Retried(t, g)] /\ leaving' = leaving /\ SameServer
      /\ faults' = faults
  BY <1>1 DEF Refreshed, Answered, Succeeded, GivenTo, server, SameServer
<1>3. "coded" \in faults
  BY <1>0, <1>2, ServerTypes DEF ExchangeAgrees
<1>4. g \in Credentials /\ Cookie(g.n) \in Cookies
  BY <1>1, TokensHaveNumbers, TokenFields
<1>5. ASSUME NEW l \in Lanes, NEW x, x = Retried(t, g)[l]
      PROVE  /\ ExchangeAgrees(l, x)
             /\ l = "refresh" => x = NoExchange
             /\ l # "refresh" =>
                  \/ x = http[t][l]
                  \/ /\ http[t][l].answer = "await" /\ x.at = http[t][l].at /\ x.with = g
                     /\ x.given = http[t][l].given /\ x.own = http[t][l].own /\ x.answer = None
  <2>1. CASE l = "refresh"
    BY <2>1, <1>5, NothingAgrees DEF Retried
  <2>2. CASE l # "refresh" /\ http[t][l].answer # "await"
    BY <2>2, <1>5, ServerTypes DEF Retried
  <2>3. CASE l # "refresh" /\ http[t][l].answer = "await"
    <3>1. PICK y \in Exchanges : y = http[t][l] /\ ExchangeAgrees(l, y)
      BY ServerTypes
    <3>2. x = [y EXCEPT !.with = g, !.again = TRUE, !.answer = None]
      BY <2>3, <1>5, <3>1 DEF Retried
    <3>3. /\ x \in Exchanges /\ x.with = g /\ x.again /\ x.answer = None
          /\ x.at = y.at /\ x.given = y.given /\ x.own = y.own
      BY <1>4, <3>2, ResentFields
    <3>4. y.answer = "await"
      BY <2>3, <3>1
    <3>5. "coded" \in faults /\ ~y.again /\ y.with \in Bearers /\ y.at \in WithBearer \ {"logout"}
      BY <3>1, <3>4 DEF ExchangeAgrees
    <3>6. ExchangeAgrees(l, x)
      BY <1>1, <3>1, <3>3, <3>5, NoneIsNothing DEF ExchangeAgrees, Keeps, WithBearer
    <3>7. QED
      BY <2>3, <3>1, <3>3, <3>6
  <2>4. QED
    BY <2>1, <2>2, <2>3
<1>6. Retried(t, g) \in [Lanes -> Exchanges] /\ \A l \in Lanes : ExchangeAgrees(l, Retried(t, g)[l])
  <2>1. \A l \in Lanes : ExchangeAgrees(l, Retried(t, g)[l])
    BY <1>5
  <2>2. \A l \in Lanes : Retried(t, g)[l] \in Exchanges
    BY <2>1 DEF ExchangeAgrees
  <2>3. QED
    BY <2>1, <2>2 DEF Retried
<1>7. PICK f \in [Lanes -> Exchanges] : f = Retried(t, g)
  BY <1>6
<1>8. /\ http' \in [Tabs -> [Lanes -> Exchanges]] /\ http'[t] = f /\ ExchangesAgree'
      /\ \A u \in Tabs : u # t => http'[u] = http[u]
  BY <1>2, <1>6, <1>7, LanesGoOn
<1>9. /\ store' \in [Tabs -> Stores] /\ store'[t].token = g /\ SameUser(t)
      /\ \A u \in Tabs : u # t => store'[u] = store[u]
  BY <1>2, <1>4, TokenStored DEF SameUser, Typed
<1>10. /\ valid' \subseteq Credentials /\ expiredTokens' \subseteq Credentials
       /\ ended' \subseteq Credentials /\ replayed' \in BOOLEAN
  BY <1>2, ServerTypes DEF SameServer
<1>11. Typed' /\ Apart(t)
  BY <1>2, <1>4, <1>8, <1>9, <1>10, TypesAre
<1>12. QED
  BY <1>0, <1>1, <1>2, <1>3, <1>5, <1>7, <1>8, <1>9, <1>11 DEF Handles

LEMMA FailRefreshFacts ==
  ASSUME Typed, NEW t \in Tabs, FailRefresh(t)
  PROVE  /\ Handles(t) /\ leaving' = leaving \cup {t} /\ jar' = jar /\ "coded" \in faults
         /\ SameUser(t) /\ store'[t].token = None
         /\ http[t]["refresh"].at = "refresh" /\ http[t]["refresh"].answer \notin {None, "ok"}
         /\ http'[t]["refresh"] = NoExchange
         /\ \A l \in Lanes \ {"refresh"} :
              \/ http'[t][l] = http[t][l]
              \/ /\ http[t][l].answer = "await" /\ http'[t][l].at = http[t][l].at
                 /\ http'[t][l].with = http[t][l].with /\ http'[t][l].given = http[t][l].given
                 /\ http'[t][l].own = http[t][l].own /\ http'[t][l].answer \in {"401", "error"}
<1>0. "refresh" \in Lanes
  BY LanesAre
<1>1. PICK a \in {"401", "error"} : a = http[t]["refresh"].answer
  BY DEF FailRefresh, Answered, Succeeded
<1>2. /\ http[t]["refresh"].at = "refresh"
      /\ jar' = jar /\ store' = [store EXCEPT ![t].token = None]
      /\ http' = [http EXCEPT ![t] = GivenUp(t)] /\ leaving' = leaving \cup {t} /\ SameServer
      /\ faults' = faults
  BY DEF FailRefresh, Answered, server, SameServer
<1>3. "coded" \in faults
  BY <1>0, <1>2, ServerTypes DEF ExchangeAgrees
<1>4. a \in Answers \cup {None} /\ a \notin {None, "ok"}
  BY NoneIsNothing DEF Answers
<1>5. ASSUME NEW l \in Lanes, NEW x, x = GivenUp(t)[l]
      PROVE  /\ ExchangeAgrees(l, x)
             /\ l = "refresh" => x = NoExchange
             /\ l # "refresh" =>
                  \/ x = http[t][l]
                  \/ /\ http[t][l].answer = "await" /\ x.at = http[t][l].at
                     /\ x.with = http[t][l].with
                     /\ x.given = http[t][l].given /\ x.own = http[t][l].own /\ x.answer = a
  <2>1. CASE l = "refresh"
    BY <2>1, <1>5, NothingAgrees DEF GivenUp
  <2>2. CASE l # "refresh" /\ http[t][l].answer # "await"
    BY <2>2, <1>5, ServerTypes DEF GivenUp
  <2>3. CASE l # "refresh" /\ http[t][l].answer = "await"
    <3>1. PICK y \in Exchanges : y = http[t][l] /\ ExchangeAgrees(l, y)
      BY ServerTypes
    <3>2. x = [y EXCEPT !.answer = a]
      BY <1>1, <2>3, <1>5, <3>1 DEF GivenUp
    <3>3. /\ x \in Exchanges /\ x.with = y.with /\ x.again = y.again /\ x.answer = a
          /\ x.at = y.at /\ x.given = y.given /\ x.own = y.own
      BY <1>4, <3>2, ReAnsweredFields
    <3>4. y.answer = "await"
      BY <2>3, <3>1
    <3>5. "coded" \in faults /\ ~y.again /\ y.with \in Bearers /\ y.at \in WithBearer \ {"logout"}
      BY <3>1, <3>4 DEF ExchangeAgrees
    <3>6. ExchangeAgrees(l, x)
      BY <1>1, <3>1, <3>3, <3>5, NoneIsNothing DEF ExchangeAgrees, Keeps, WithBearer
    <3>7. QED
      BY <2>3, <3>1, <3>3, <3>6
  <2>4. QED
    BY <2>1, <2>2, <2>3
<1>6. GivenUp(t) \in [Lanes -> Exchanges] /\ \A l \in Lanes : ExchangeAgrees(l, GivenUp(t)[l])
  <2>1. \A l \in Lanes : ExchangeAgrees(l, GivenUp(t)[l])
    BY <1>5
  <2>2. \A l \in Lanes : GivenUp(t)[l] \in Exchanges
    BY <2>1 DEF ExchangeAgrees
  <2>3. QED
    BY <2>1, <2>2 DEF GivenUp
<1>7. PICK f \in [Lanes -> Exchanges] : f = GivenUp(t)
  BY <1>6
<1>8. /\ http' \in [Tabs -> [Lanes -> Exchanges]] /\ http'[t] = f /\ ExchangesAgree'
      /\ \A u \in Tabs : u # t => http'[u] = http[u]
  BY <1>2, <1>6, <1>7, LanesGoOn
<1>9. /\ store' \in [Tabs -> Stores] /\ store'[t].token = None /\ SameUser(t)
      /\ \A u \in Tabs : u # t => store'[u] = store[u]
  BY <1>2, TokenStored DEF SameUser, Typed
<1>10. /\ valid' \subseteq Credentials /\ expiredTokens' \subseteq Credentials
       /\ ended' \subseteq Credentials /\ replayed' \in BOOLEAN /\ jar' \in Cookies \cup {None}
  BY <1>2, ServerTypes DEF SameServer
<1>11. Typed' /\ Apart(t)
  BY <1>2, <1>8, <1>9, <1>10, TypesAre
<1>12. QED
  BY <1>0, <1>1, <1>2, <1>3, <1>4, <1>5, <1>7, <1>8, <1>9, <1>11 DEF Handles

\* Lane k waits for the silent refresh, which is begun unless it is under way.
LEMMA AwaitFacts ==
  ASSUME Typed, NEW t \in Tabs, NEW k \in Lanes, AwaitRefresh(t, k)
  PROVE  /\ Handles(t) /\ UNCHANGED <<jar, store, leaving>> /\ "coded" \in faults
         /\ k # "refresh" /\ http[t][k].answer = "expired" /\ http[t][k].at \in WithBearer
         /\ http'[t][k].answer = "await" /\ http'[t][k].at = http[t][k].at
         /\ http'[t][k].with = http[t][k].with /\ http'[t][k].given = http[t][k].given
         /\ http'[t][k].own = http[t][k].own
         /\ \/ http[t]["refresh"].at = "refresh" /\ http'[t]["refresh"] = http[t]["refresh"]
            \/ /\ http[t]["refresh"].at # "refresh"
               /\ http'[t]["refresh"].at = "refresh" /\ http'[t]["refresh"].with = jar
               /\ http'[t]["refresh"].own = None /\ http'[t]["refresh"].answer = None
               /\ http'[t]["refresh"].given = None
         /\ \A l \in Lanes \ {"refresh", k} : http'[t][l] = http[t][l]
<1>0. "refresh" \in Lanes /\ "refresh" \in AtsOf("refresh") /\ AtsOf("refresh") = {"idle", "refresh"}
  BY LanesAre
<1>1. PICK x \in Exchanges : x = http[t][k] /\ ExchangeAgrees(k, x) /\ x.answer = "expired"
  BY ServerTypes DEF AwaitRefresh
<1>2. /\ "coded" \in faults /\ ~x.again /\ x.with \in Bearers /\ x.at \in WithBearer \ {"logout"}
      /\ x.at \in AtsOf(k)
  BY <1>1 DEF ExchangeAgrees
<1>3. k # "refresh"
  BY <1>0, <1>2 DEF WithBearer
<1>4. PICK y \in Exchanges : y = [x EXCEPT !.answer = "await"]
  BY <1>1, ReAnsweredFields DEF Answers
<1>5. /\ y.answer = "await" /\ y.at = x.at /\ y.with = x.with /\ y.given = x.given
      /\ y.own = x.own /\ y.again = x.again
  BY <1>1, <1>4, ReAnsweredFields DEF Answers
<1>6. ExchangeAgrees(k, y)
  BY <1>1, <1>2, <1>5, NoneIsNothing DEF ExchangeAgrees, Keeps, WithBearer
<1>7. PICK r : r = IF http[t]["refresh"].at = "refresh" THEN http[t]["refresh"] ELSE Ask("refresh", jar)
  OBVIOUS
<1>8. /\ ExchangeAgrees("refresh", r)
      /\ \/ http[t]["refresh"].at = "refresh" /\ r = http[t]["refresh"]
         \/ /\ http[t]["refresh"].at # "refresh" /\ r.at = "refresh" /\ r.with = jar
            /\ r.own = None /\ r.answer = None /\ r.given = None
  <2>1. CASE http[t]["refresh"].at = "refresh"
    BY <1>0, <1>7, <2>1, ServerTypes
  <2>2. CASE http[t]["refresh"].at # "refresh"
    <3>1. r = Ask("refresh", jar)
      BY <1>7, <2>2
    <3>2. PICK with \in Cookies \cup {None} : with = jar /\ with \in Credentials \cup {None}
      BY ServerTypes, TokensHaveNumbers
    <3>3. "refresh" \notin WithBearer /\ "refresh" \in Ats
      BY DEF WithBearer, Ats
    <3>4. ExchangeAgrees("refresh", Ask("refresh", with))
      BY <1>0, <1>2, <3>2, <3>3, AskAgrees
    <3>5. LET z == Ask("refresh", with)
          IN z.at = "refresh" /\ z.with = with /\ z.own = None /\ z.answer = None /\ z.given = None
      BY <3>2, <3>3, AskFields
    <3>6. QED
      BY <2>2, <3>1, <3>2, <3>4, <3>5
  <2>3. QED
    BY <2>1, <2>2
<1>9. PICK f : f = [http[t] EXCEPT ![k] = y, !["refresh"] = r]
  OBVIOUS
<1>10. http[t] \in [Lanes -> Exchanges] /\ r \in Exchanges
  BY <1>8, ServerTypes DEF ExchangeAgrees
<1>11. /\ f \in [Lanes -> Exchanges] /\ f[k] = y /\ f["refresh"] = r
       /\ \A l \in Lanes \ {"refresh", k} : f[l] = http[t][l]
  BY <1>0, <1>3, <1>4, <1>9, <1>10
<1>12. http' = [http EXCEPT ![t] = f]
  <2>1. PICK h : h = [http[t] EXCEPT ![k].answer = "await"]
    OBVIOUS
  <2>2. h = [http[t] EXCEPT ![k] = y]
    BY <1>1, <1>4, <2>1
  <2>3. f = [h EXCEPT !["refresh"] = r]
    BY <1>9, <2>2
  <2>4. f = [http[t] EXCEPT ![k].answer = "await",
                           !["refresh"] = IF http[t]["refresh"].at = "refresh"
                                          THEN http[t]["refresh"] ELSE Ask("refresh", jar)]
    BY <1>7, <2>1, <2>3
  <2>5. QED
    BY <2>4 DEF AwaitRefresh
<1>13. \A l \in Lanes : ExchangeAgrees(l, f[l])
  BY <1>6, <1>8, <1>11, ServerTypes
<1>14. /\ UNCHANGED <<jar, store, leaving>> /\ faults' = faults /\ SameServer
  BY DEF AwaitRefresh, server, SameServer
<1>15. /\ http' \in [Tabs -> [Lanes -> Exchanges]] /\ http'[t] = f /\ ExchangesAgree'
       /\ \A u \in Tabs : u # t => http'[u] = http[u]
  BY <1>11, <1>12, <1>13, <1>14, LanesGoOn
<1>16. /\ valid' \subseteq Credentials /\ expiredTokens' \subseteq Credentials
       /\ ended' \subseteq Credentials /\ replayed' \in BOOLEAN
  BY <1>14, ServerTypes DEF SameServer
<1>17. Typed' /\ Apart(t)
  BY <1>14, <1>15, <1>16, ServerTypes, TypesAre
<1>18. QED
  BY <1>1, <1>2, <1>3, <1>5, <1>8, <1>11, <1>14, <1>15, <1>17 DEF Handles

\* The page that is loaded asks for a refresh.
LEMMA LoadedFields ==
  ASSUME NEW brought \in Cookies \cup {None}
  PROVE  /\ Loaded(brought) \in [Lanes -> Exchanges]
         /\ Loaded(brought)["boot"].at = "refresh" /\ Loaded(brought)["boot"].with = brought
         /\ Loaded(brought)["boot"].own = None /\ Loaded(brought)["boot"].answer = None
         /\ Loaded(brought)["boot"].given = None /\ ~Loaded(brought)["boot"].again
         /\ \A l \in Lanes \ {"boot"} : Loaded(brought)[l] = NoExchange
         /\ \A l \in Lanes : ExchangeAgrees(l, Loaded(brought)[l])
<1>1. /\ "boot" \in Lanes /\ "refresh" \in AtsOf("boot") /\ "refresh" \notin WithBearer
      /\ "refresh" \in Ats
  BY LanesAre DEF WithBearer, Ats
<1>2. brought \in Credentials \cup {None}
  BY TokensHaveNumbers
<1>3. PICK x : x = Ask("refresh", brought)
  OBVIOUS
<1>4. /\ x \in Exchanges /\ x.at = "refresh" /\ x.with = brought /\ x.own = None /\ x.answer = None
      /\ x.given = None /\ ~x.again
  BY <1>1, <1>2, <1>3, AskFields
<1>5. ExchangeAgrees("boot", x)
  BY <1>1, <1>2, <1>3, AskAgrees
<1>6. /\ Loaded(brought) \in [Lanes -> Exchanges] /\ Loaded(brought)["boot"] = x
      /\ \A l \in Lanes \ {"boot"} : Loaded(brought)[l] = NoExchange
  BY <1>1, <1>3, <1>4, NoExchangeFields DEF Loaded, Quiet
<1>7. QED
  BY <1>4, <1>5, <1>6, NothingAgrees

LEMMA LoadFacts ==
  ASSUME Typed, NEW t \in Tabs, Load(t)
  PROVE  /\ Handles(t) /\ jar' = jar /\ leaving' = leaving \ {t} /\ store'[t] = initialState
         /\ t \in leaving \/ ("tabs" \in faults /\ t # FirstTab)
         /\ http'[t]["boot"].at = "refresh" /\ http'[t]["boot"].with = jar
         /\ http'[t]["boot"].own = None /\ http'[t]["boot"].answer = None
         /\ http'[t]["boot"].given = None
         /\ \A l \in Lanes \ {"boot"} : http'[t][l] = NoExchange
<1>1. PICK brought \in Cookies \cup {None} : brought = jar
  BY ServerTypes
<1>2. PICK f \in [Lanes -> Exchanges] : f = Loaded(brought)
  BY <1>1, LoadedFields
<1>3. /\ http' = [http EXCEPT ![t] = f] /\ jar' = jar /\ leaving' = leaving \ {t} /\ faults' = faults
      /\ store' = [store EXCEPT ![t] = initialState] /\ SameServer
      /\ t \in leaving \/ ("tabs" \in faults /\ t # FirstTab)
  BY <1>1, <1>2 DEF Load, server, SameServer
<1>4. /\ http' \in [Tabs -> [Lanes -> Exchanges]] /\ http'[t] = f /\ ExchangesAgree'
      /\ \A u \in Tabs : u # t => http'[u] = http[u]
  BY <1>1, <1>2, <1>3, LoadedFields, LanesGoOn
<1>5. /\ store' \in [Tabs -> Stores] /\ store'[t] = initialState
      /\ \A u \in Tabs : u # t => store'[u] = store[u]
  BY <1>3, InitialFields, OneStore DEF Typed
<1>6. /\ valid' \subseteq Credentials /\ expiredTokens' \subseteq Credentials
      /\ ended' \subseteq Credentials /\ replayed' \in BOOLEAN /\ jar' \in Cookies \cup {None}
  BY <1>3, ServerTypes DEF SameServer
<1>7. Typed' /\ Apart(t)
  BY <1>3, <1>4, <1>5, <1>6, InitialFields, TypesAre
<1>8. QED
  BY <1>1, <1>2, <1>3, <1>4, <1>5, <1>7, LoadedFields DEF Handles

LEMMA BootRefreshedFacts ==
  ASSUME Typed, NEW t \in Tabs, BootRefreshed(t)
  PROVE  /\ Handles(t) /\ leaving' = leaving /\ SameUser(t)
         /\ http[t]["boot"].at = "refresh" /\ http[t]["boot"].answer = "ok"
         /\ \E g \in Bearers :
              /\ g = http[t]["boot"].given /\ g.who = "self" /\ jar' = Cookie(g.n)
              /\ store'[t].token = g /\ LaneAsks(t, "boot", "me", g, g)
<1>0. "boot" \in Lanes /\ "me" \in AtsOf("boot")
  BY LanesAre
<1>1. PICK g \in Bearers : g = http[t]["boot"].given /\ g.who = "self"
  <2>1. ExchangeAgrees("boot", http[t]["boot"])
    BY <1>0, ServerTypes
  <2>2. QED
    BY <2>1 DEF BootRefreshed, Answered, Succeeded, ExchangeAgrees
<1>2. /\ http[t]["boot"].at = "refresh" /\ http[t]["boot"].answer = "ok"
      /\ jar' = Cookie(g.n) /\ store' = [store EXCEPT ![t].token = g]
      /\ Exchange(t, "boot", AskAs("me", g)) /\ leaving' = leaving /\ SameServer /\ faults' = faults
  BY <1>1 DEF BootRefreshed, Answered, Succeeded, GivenTo, server, SameServer
<1>3. g \in Credentials /\ Cookie(g.n) \in Cookies
  BY <1>1, TokensHaveNumbers, TokenFields
<1>4. /\ store' \in [Tabs -> Stores] /\ store'[t].token = g /\ SameUser(t)
      /\ \A u \in Tabs : u # t => store'[u] = store[u]
  BY <1>2, <1>3, TokenStored DEF SameUser, Typed
<1>5. Typed' /\ Apart(t) /\ LaneAsks(t, "boot", "me", g, g)
  BY <1>0, <1>2, <1>3, <1>4, AskAsStep
<1>6. QED
  BY <1>1, <1>2, <1>4, <1>5 DEF Handles

\* What GET /users/me answers: who asked.
LEMMA MeAnswered ==
  ASSUME Typed, NEW t \in Tabs, NEW l \in {"boot", "start", "menu"}, Answered(t, l, "me")
  PROVE  /\ l \in Lanes /\ http[t][l].at = "me" /\ http[t][l].own \in Bearers \cup {None}
         /\ Succeeded(t, l) => /\ http[t][l].answer = "ok" /\ http[t][l].given = http[t][l].with
                               /\ GivenTo(t, l).who \in {"self", "target"}
                               /\ l # "menu" => http[t][l].own \in Bearers
         /\ ~Succeeded(t, l) => http[t][l].answer \notin {None, "ok"}
<1>0. l \in Lanes
  BY LanesAre
<1>1. PICK x \in Exchanges : x = http[t][l] /\ ExchangeAgrees(l, x)
  BY <1>0, ServerTypes
<1>2. x.at = "me" /\ x.answer \in {"ok", "401", "error"} /\ x.own \in Bearers \cup {None}
  BY <1>1 DEF Answered, ExchangeAgrees
<1>3. ASSUME x.answer = "ok"
      PROVE  x.given = x.with /\ x.given.who \in {"self", "target"} /\ (l # "menu" => x.own \in Bearers)
  <2>1. x.given = x.with /\ x.with \in Bearers
    BY <1>1, <1>2, <1>3 DEF ExchangeAgrees
  <2>2. l # "menu" => x.own \in Bearers
    BY <1>1, <1>2, <2>1 DEF ExchangeAgrees, Keeps
  <2>3. QED
    BY <2>1, <2>2, TokensHaveNumbers
<1>4. QED
  BY <1>0, <1>1, <1>2, <1>3, NoneIsNothing DEF Succeeded, GivenTo

LEMMA BootKnowsFacts ==
  ASSUME Typed, NEW t \in Tabs, BootKnows(t)
  PROVE  /\ Handles(t) /\ jar' = jar /\ leaving' = leaving /\ LaneRests(t, "boot")
         /\ http[t]["boot"].at = "me" /\ http[t]["boot"].answer = "ok"
         /\ http[t]["boot"].given = http[t]["boot"].with /\ http[t]["boot"].own \in Bearers
         /\ http[t]["boot"].given.who \in {"self", "target"}
         /\ ~store'[t].loading /\ Knows(t, http[t]["boot"].own, http[t]["boot"].given.who)
<1>0. Answered(t, "boot", "me") /\ Succeeded(t, "boot")
  BY DEF BootKnows
<1>1. /\ "boot" \in Lanes /\ http[t]["boot"].at = "me" /\ http[t]["boot"].answer = "ok"
      /\ http[t]["boot"].given = http[t]["boot"].with /\ http[t]["boot"].own \in Bearers
      /\ http[t]["boot"].given.who \in {"self", "target"}
  BY <1>0, MeAnswered DEF GivenTo
<1>2. PICK token \in Bearers : token = http[t]["boot"].own
  BY <1>1
<1>a. PICK user \in {"self", "target"} : user = http[t]["boot"].given.who
  BY <1>1
<1>b. PICK s : s = Authed(store[t], token, user)
  OBVIOUS
<1>c. s \in Stores /\ s.token = token /\ s.user = user /\ s.authed /\ (s.imp <=> token.who = "target")
  <2>1. store[t] \in Stores /\ token \in Credentials
    BY ServerTypes, TokensHaveNumbers
  <2>2. QED
    BY <1>b, <2>1, AuthedFields
<1>d. PICK r : r = [s EXCEPT !.loading = FALSE]
  OBVIOUS
<1>3. /\ r \in Stores /\ ~r.loading /\ r.token = token /\ r.user = user /\ r.authed
      /\ r.imp <=> token.who = "target"
  BY <1>c, <1>d, NotLoading
<1>4. /\ store' = [store EXCEPT ![t] = r] /\ Exchange(t, "boot", NoExchange) /\ jar' = jar
      /\ leaving' = leaving /\ SameServer /\ faults' = faults
  BY <1>2, <1>a, <1>b, <1>d DEF BootKnows, GivenTo, server, SameServer
<1>5. /\ store' \in [Tabs -> Stores] /\ store'[t] = r
      /\ \A u \in Tabs : u # t => store'[u] = store[u]
  BY <1>3, <1>4, OneStore DEF Typed
<1>6. store'[t].token \in Bearers \cup {None} /\ jar' \in Cookies \cup {None}
  BY <1>3, <1>4, <1>5, ServerTypes
<1>7. Typed' /\ Apart(t) /\ LaneRests(t, "boot")
  BY <1>1, <1>4, <1>5, <1>6, RestStep
<1>8. QED
  BY <1>1, <1>2, <1>a, <1>3, <1>4, <1>5, <1>7 DEF Handles, Knows

LEMMA BootFailedFacts ==
  ASSUME Typed, NEW t \in Tabs, BootFailed(t)
  PROVE  /\ Handles(t) /\ jar' = jar /\ leaving' = leaving /\ LaneRests(t, "boot")
         /\ Booting(t) /\ http[t]["boot"].answer \notin {None, "ok"} /\ store'[t] = Closed
<1>0. "boot" \in Lanes
  BY LanesAre
<1>1. /\ store' = [store EXCEPT ![t] = Closed] /\ Exchange(t, "boot", NoExchange) /\ jar' = jar
      /\ leaving' = leaving /\ SameServer /\ faults' = faults
      /\ Booting(t) /\ http[t]["boot"].answer \notin {None, "ok"}
  BY NoneIsNothing DEF BootFailed, clearAuth, Closed, Answered, Succeeded, Booting, server, SameServer
<1>2. /\ store' \in [Tabs -> Stores] /\ store'[t] = Closed
      /\ \A u \in Tabs : u # t => store'[u] = store[u]
  BY <1>1, InitialFields, OneStore DEF Typed
<1>3. store'[t].token \in Bearers \cup {None} /\ jar' \in Cookies \cup {None}
  BY <1>1, <1>2, InitialFields, ServerTypes
<1>4. Typed' /\ Apart(t) /\ LaneRests(t, "boot")
  BY <1>0, <1>1, <1>2, <1>3, RestStep
<1>5. QED
  BY <1>1, <1>2, <1>4 DEF Handles

\* Only a lane rests: what rests with the store and the jar as they are.
LEMMA JustRests ==
  ASSUME Typed, NEW t \in Tabs, NEW l \in Lanes, Exchange(t, l, NoExchange),
         UNCHANGED <<jar, store, leaving, server, faults>>
  PROVE  Handles(t) /\ LaneRests(t, l)
<1>1. /\ store' \in [Tabs -> Stores] /\ \A u \in Tabs : u # t => store'[u] = store[u]
      /\ store'[t].token \in Bearers \cup {None} /\ jar' \in Cookies \cup {None}
      /\ leaving' \in {leaving, leaving \cup {t}} /\ faults' = faults /\ SameServer
  BY ServerTypes DEF server, SameServer
<1>2. QED
  BY <1>1, RestStep DEF Handles

LEMMA LoggedInFacts ==
  ASSUME Typed, NEW t \in Tabs, LoggedIn(t)
  PROVE  /\ Handles(t) /\ leaving' = leaving /\ LaneRests(t, "login") /\ http[t]["login"].at = "login"
         /\ \/ UNCHANGED <<jar, store>> /\ http[t]["login"].answer # "ok"
            \/ /\ http[t]["login"].answer = "ok" /\ store'[t].loading = store[t].loading
               /\ \E g \in Bearers :
                    /\ g = http[t]["login"].given /\ g.who = "self" /\ jar' = Cookie(g.n)
                    /\ Knows(t, g, "self")
<1>0. "login" \in Lanes
  BY LanesAre
<1>1. /\ http[t]["login"].at = "login" /\ Exchange(t, "login", NoExchange) /\ leaving' = leaving
      /\ SameServer /\ faults' = faults /\ UNCHANGED <<leaving, server, faults>>
  BY DEF LoggedIn, Answered, server, SameServer
<1>2. CASE Succeeded(t, "login")
  <2>1. PICK g \in Bearers : g = http[t]["login"].given /\ g.who = "self"
    <3>1. ExchangeAgrees("login", http[t]["login"])
      BY <1>0, ServerTypes
    <3>2. QED
      BY <1>1, <1>2, <3>1 DEF Succeeded, ExchangeAgrees
  <2>2. g \in Credentials /\ Cookie(g.n) \in Cookies /\ store[t] \in Stores
    BY <2>1, TokensHaveNumbers, TokenFields, ServerTypes
  <2>3. PICK s : s = Authed(store[t], g, "self")
    OBVIOUS
  <2>4. /\ s \in Stores /\ s.token = g /\ s.user = "self" /\ s.authed /\ s.loading = store[t].loading
        /\ s.imp <=> g.who = "target"
    BY <2>2, <2>3, AuthedFields
  <2>5. store' = [store EXCEPT ![t] = s] /\ jar' = Cookie(g.n)
    BY <1>2, <2>1, <2>3 DEF LoggedIn, setAuth, GivenTo
  <2>6. /\ store' \in [Tabs -> Stores] /\ store'[t] = s
        /\ \A u \in Tabs : u # t => store'[u] = store[u]
    BY <2>4, <2>5, OneStore DEF Typed
  <2>7. Typed' /\ Apart(t) /\ LaneRests(t, "login")
    BY <1>0, <1>1, <2>2, <2>4, <2>5, <2>6, RestStep
  <2>8. QED
    BY <1>1, <1>2, <2>1, <2>4, <2>5, <2>6, <2>7 DEF Handles, Knows, Succeeded
<1>3. CASE ~Succeeded(t, "login")
  <2>1. UNCHANGED <<jar, store>>
    BY <1>3 DEF LoggedIn
  <2>2. Handles(t) /\ LaneRests(t, "login")
    BY <1>0, <1>1, <2>1, JustRests
  <2>3. QED
    BY <1>1, <1>3, <2>1, <2>2 DEF Succeeded
<1>4. QED
  BY <1>2, <1>3

LEMMA LoggedOutFacts ==
  ASSUME Typed, NEW t \in Tabs, LoggedOut(t)
  PROVE  /\ Handles(t) /\ leaving' = leaving \cup {t} /\ LaneRests(t, "logout")
         /\ http[t]["logout"].at = "logout" /\ jar' \in {None, jar} /\ store'[t] = Closed
<1>0. "logout" \in Lanes
  BY LanesAre
<1>1. /\ store' = [store EXCEPT ![t] = Closed] /\ Exchange(t, "logout", NoExchange)
      /\ jar' \in {None, jar} /\ leaving' = leaving \cup {t} /\ SameServer /\ faults' = faults
      /\ http[t]["logout"].at = "logout"
  BY DEF LoggedOut, clearAuth, Closed, Answered, server, SameServer
<1>2. /\ store' \in [Tabs -> Stores] /\ store'[t] = Closed
      /\ \A u \in Tabs : u # t => store'[u] = store[u]
  BY <1>1, InitialFields, OneStore DEF Typed
<1>3. store'[t].token \in Bearers \cup {None} /\ jar' \in Cookies \cup {None}
  BY <1>1, <1>2, InitialFields, ServerTypes
<1>4. Typed' /\ Apart(t) /\ LaneRests(t, "logout")
  BY <1>0, <1>1, <1>2, <1>3, RestStep
<1>5. QED
  BY <1>1, <1>2, <1>4 DEF Handles

LEMMA QueryFacts ==
  ASSUME Typed, NEW t \in Tabs, NEW q \in Queries, QueryAnswered(t, q)
  PROVE  Handles(t) /\ UNCHANGED <<jar, store, leaving>> /\ LaneRests(t, q)
BY LanesAre, JustRests DEF QueryAnswered

LEMMA StartedFacts ==
  ASSUME Typed, NEW t \in Tabs, Started(t)
  PROVE  /\ Handles(t) /\ UNCHANGED <<jar, leaving>> /\ http[t]["start"].at = "start"
         /\ \/ LaneRests(t, "start") /\ UNCHANGED store
            \/ /\ SameUser(t) /\ http[t]["start"].answer = "ok"
               /\ \E g \in Bearers : /\ g = http[t]["start"].given /\ store'[t].token = g
                                    /\ LaneAsks(t, "start", "me", g, g)
<1>0. "start" \in Lanes /\ "me" \in AtsOf("start")
  BY LanesAre
<1>1. /\ http[t]["start"].at = "start" /\ leaving' = leaving /\ jar' = jar
      /\ SameServer /\ faults' = faults /\ UNCHANGED <<jar, leaving, server, faults>>
  BY DEF Started, Answered, server, SameServer
<1>2. CASE Succeeded(t, "start")
  <2>1. PICK g \in Bearers : g = http[t]["start"].given
    <3>1. ExchangeAgrees("start", http[t]["start"])
      BY <1>0, ServerTypes
    <3>2. QED
      BY <1>1, <1>2, <3>1 DEF Succeeded, ExchangeAgrees
  <2>2. g \in Credentials /\ jar' \in Cookies \cup {None}
    BY <1>1, <2>1, TokensHaveNumbers, ServerTypes
  <2>3. store' = [store EXCEPT ![t].token = g] /\ Exchange(t, "start", AskAs("me", g))
    BY <1>2, <2>1 DEF Started, GivenTo
  <2>4. /\ store' \in [Tabs -> Stores] /\ store'[t].token = g /\ SameUser(t)
        /\ \A u \in Tabs : u # t => store'[u] = store[u]
    BY <2>2, <2>3, TokenStored DEF SameUser, Typed
  <2>5. Typed' /\ Apart(t) /\ LaneAsks(t, "start", "me", g, g)
    BY <1>0, <1>1, <2>2, <2>3, <2>4, AskAsStep
  <2>6. QED
    BY <1>1, <1>2, <2>1, <2>4, <2>5 DEF Handles, Succeeded
<1>3. CASE ~Succeeded(t, "start")
  <2>1. Exchange(t, "start", NoExchange) /\ UNCHANGED store
    BY <1>3 DEF Started
  <2>2. Handles(t) /\ LaneRests(t, "start")
    BY <1>0, <1>1, <2>1, JustRests
  <2>3. QED
    BY <1>1, <2>1, <2>2
<1>4. QED
  BY <1>2, <1>3

LEMMA StartKnowsFacts ==
  ASSUME Typed, NEW t \in Tabs, StartKnows(t)
  PROVE  /\ Handles(t) /\ UNCHANGED <<jar, leaving>> /\ LaneRests(t, "start")
         /\ http[t]["start"].at = "me" /\ http[t]["start"].own \in Bearers \cup {None}
         /\ \/ UNCHANGED store /\ http[t]["start"].answer \notin {None, "ok"}
            \/ /\ http[t]["start"].answer = "ok" /\ store'[t].loading = store[t].loading
               /\ http[t]["start"].given = http[t]["start"].with /\ http[t]["start"].own \in Bearers
               /\ http[t]["start"].given.who \in {"self", "target"}
               /\ Knows(t, http[t]["start"].own, http[t]["start"].given.who)
<1>0. Answered(t, "start", "me") /\ "start" \in Lanes
  BY LanesAre DEF StartKnows
<1>1. /\ http[t]["start"].at = "me" /\ Exchange(t, "start", NoExchange) /\ leaving' = leaving
      /\ jar' = jar /\ SameServer /\ faults' = faults /\ UNCHANGED <<jar, leaving, server, faults>>
      /\ http[t]["start"].own \in Bearers \cup {None}
  BY <1>0, MeAnswered DEF StartKnows, server, SameServer
<1>2. CASE Succeeded(t, "start")
  <2>1. /\ http[t]["start"].answer = "ok" /\ http[t]["start"].given = http[t]["start"].with
        /\ http[t]["start"].own \in Bearers /\ http[t]["start"].given.who \in {"self", "target"}
    BY <1>0, <1>2, MeAnswered DEF GivenTo
  <2>2. PICK token \in Bearers : token = http[t]["start"].own
    BY <2>1
  <2>3. PICK user \in {"self", "target"} : user = http[t]["start"].given.who
    BY <2>1
  <2>4. token \in Credentials /\ store[t] \in Stores /\ jar' \in Cookies \cup {None}
    BY <1>1, <2>2, TokensHaveNumbers, ServerTypes
  <2>5. PICK s : s = Authed(store[t], token, user)
    OBVIOUS
  <2>6. /\ s \in Stores /\ s.token = token /\ s.user = user /\ s.authed
        /\ s.loading = store[t].loading /\ (s.imp <=> token.who = "target")
    BY <2>4, <2>5, AuthedFields
  <2>7. store' = [store EXCEPT ![t] = s]
    BY <1>2, <2>2, <2>3, <2>5 DEF StartKnows, setAuth, GivenTo
  <2>8. /\ store' \in [Tabs -> Stores] /\ store'[t] = s
        /\ \A u \in Tabs : u # t => store'[u] = store[u]
    BY <2>6, <2>7, OneStore DEF Typed
  <2>9. Typed' /\ Apart(t) /\ LaneRests(t, "start")
    BY <1>0, <1>1, <2>4, <2>6, <2>8, RestStep
  <2>10. QED
    BY <1>1, <2>1, <2>2, <2>3, <2>6, <2>8, <2>9 DEF Handles, Knows
<1>3. CASE ~Succeeded(t, "start")
  <2>1. UNCHANGED store /\ http[t]["start"].answer \notin {None, "ok"}
    BY <1>0, <1>3, MeAnswered DEF StartKnows
  <2>2. Handles(t) /\ LaneRests(t, "start")
    BY <1>0, <1>1, <2>1, JustRests
  <2>3. QED
    BY <1>1, <2>1, <2>2
<1>4. QED
  BY <1>2, <1>3

LEMMA StoppedFacts ==
  ASSUME Typed, NEW t \in Tabs, Stopped(t)
  PROVE  /\ Handles(t) /\ UNCHANGED <<jar, leaving>> /\ http[t]["stop"].at = "stop"
         /\ \/ LaneRests(t, "stop") /\ UNCHANGED store
            \/ /\ store'[t].token = store[t].token /\ store'[t].user = store[t].user
               /\ store'[t].authed = store[t].authed /\ store'[t].imp = store[t].imp
               /\ store'[t].loading
               /\ http'[t]["stop"] = NoExchange
               /\ http'[t]["boot"].at = "refresh" /\ http'[t]["boot"].with = jar
               /\ http'[t]["boot"].own = None /\ http'[t]["boot"].answer = None
               /\ http'[t]["boot"].given = None
               /\ \A l \in Lanes \ {"stop", "boot"} : http'[t][l] = http[t][l]
<1>0. "stop" \in Lanes /\ "boot" \in Lanes /\ "refresh" \in AtsOf("boot")
  BY LanesAre
<1>1. /\ http[t]["stop"].at = "stop" /\ leaving' = leaving /\ jar' = jar
      /\ SameServer /\ faults' = faults /\ UNCHANGED <<jar, leaving, server, faults>>
  BY DEF Stopped, Answered, server, SameServer
<1>2. CASE http[t]["stop"].answer \in {"ok", "401"}
  <2>1. PICK brought \in Cookies \cup {None} : brought = jar /\ brought \in Credentials \cup {None}
    BY ServerTypes, TokensHaveNumbers
  <2>2. PICK b : b = Ask("refresh", brought)
    OBVIOUS
  <2>3. "refresh" \in Ats /\ "refresh" \notin WithBearer
    BY DEF Ats, WithBearer
  <2>4. /\ b \in Exchanges /\ b.at = "refresh" /\ b.with = brought /\ b.own = None /\ b.answer = None
        /\ b.given = None /\ ExchangeAgrees("boot", b)
    BY <1>0, <2>1, <2>2, <2>3, AskFields, AskAgrees
  <2>5. PICK f : f = [http[t] EXCEPT !["stop"] = NoExchange, !["boot"] = b]
    OBVIOUS
  <2>6. /\ f \in [Lanes -> Exchanges] /\ f["stop"] = NoExchange /\ f["boot"] = b
        /\ \A l \in Lanes \ {"stop", "boot"} : f[l] = http[t][l]
    <3>1. http[t] \in [Lanes -> Exchanges]
      BY ServerTypes
    <3>2. QED
      BY <1>0, <2>4, <2>5, <3>1, NoExchangeFields
  <2>7. \A l \in Lanes : ExchangeAgrees(l, f[l])
    BY <2>4, <2>6, ServerTypes, NothingAgrees
  <2>8. http' = [http EXCEPT ![t] = f] /\ store' = [store EXCEPT ![t].loading = TRUE]
    BY <1>2, <2>1, <2>2, <2>5 DEF Stopped
  <2>9. /\ http' \in [Tabs -> [Lanes -> Exchanges]] /\ http'[t] = f /\ ExchangesAgree'
        /\ \A u \in Tabs : u # t => http'[u] = http[u]
    BY <1>1, <2>6, <2>7, <2>8, LanesGoOn
  <2>10. PICK s : s = [store[t] EXCEPT !.loading = TRUE]
    OBVIOUS
  <2>11. /\ s \in Stores /\ s.loading /\ s.token = store[t].token /\ s.user = store[t].user
         /\ s.authed = store[t].authed /\ s.imp = store[t].imp
    <3>1. store[t] \in Stores
      BY ServerTypes
    <3>2. QED
      BY <2>10, <3>1 DEF Stores
  <2>12. /\ store' \in [Tabs -> Stores] /\ store'[t] = s
         /\ \A u \in Tabs : u # t => store'[u] = store[u]
    BY <2>8, <2>10, <2>11, OneStore DEF Typed
  <2>13. /\ valid' \subseteq Credentials /\ expiredTokens' \subseteq Credentials
         /\ ended' \subseteq Credentials /\ replayed' \in BOOLEAN /\ jar' \in Cookies \cup {None}
         /\ store'[t].token \in Bearers \cup {None}
    BY <1>1, <2>11, <2>12, ServerTypes DEF SameServer
  <2>14. Typed' /\ Apart(t)
    BY <1>1, <2>9, <2>12, <2>13, TypesAre
  <2>15. QED
    BY <1>1, <2>1, <2>4, <2>6, <2>9, <2>11, <2>12, <2>14 DEF Handles
<1>3. CASE http[t]["stop"].answer \notin {"ok", "401"}
  <2>1. Exchange(t, "stop", NoExchange) /\ UNCHANGED store
    BY <1>3 DEF Stopped
  <2>2. Handles(t) /\ LaneRests(t, "stop")
    BY <1>0, <1>1, <2>1, JustRests
  <2>3. QED
    BY <1>1, <2>1, <2>2
<1>4. QED
  BY <1>2, <1>3

\* The user menu has done what it could.
LaneEnds(t, l) ==
  /\ http'[t][l].at = "ended" /\ http'[t][l].with = http[t][l].with
  /\ http'[t][l].own = http[t][l].own /\ http'[t][l].given = http[t][l].given
  /\ http'[t][l].answer = http[t][l].answer
  /\ \A k \in Lanes : k # l => http'[t][k] = http[t][k]

LEMMA MenuEnds ==
  ASSUME Typed, NEW t \in Tabs, http[t]["menu"].at \in {"stop", "me"},
         http[t]["menu"].answer \in {"ok", "401", "error"},
         Exchange(t, "menu", [http[t]["menu"] EXCEPT !.at = "ended"]),
         UNCHANGED <<jar, leaving, server, faults>>,
         store' \in [Tabs -> Stores], \A u \in Tabs : u # t => store'[u] = store[u],
         store'[t].token = store[t].token
  PROVE  Handles(t) /\ LaneEnds(t, "menu")
<1>0. "menu" \in Lanes /\ "ended" \in AtsOf("menu")
  BY LanesAre
<1>1. PICK x \in Exchanges : x = http[t]["menu"] /\ ExchangeAgrees("menu", x)
  BY <1>0, ServerTypes
<1>2. PICK y : y = [x EXCEPT !.at = "ended"]
  OBVIOUS
<1>3. /\ y \in Exchanges /\ y.at = "ended" /\ y.with = x.with /\ y.answer = x.answer
      /\ y.given = x.given /\ y.again = x.again /\ y.own = x.own
  BY <1>2, EndedFields
<1>4. ExchangeAgrees("menu", y)
  <2>1. x.own \in Bearers \cup {None} /\ x.again => "coded" \in faults /\ x.with \in Bearers
                                                   /\ x.with.who = "self"
    BY <1>1 DEF ExchangeAgrees
  <2>2. QED
    BY <1>0, <1>1, <1>3, <2>1 DEF ExchangeAgrees, Keeps, WithBearer
<1>5. /\ Exchange(t, "menu", y) /\ faults' = faults /\ SameServer /\ leaving' = leaving
      /\ jar' \in Cookies \cup {None} /\ store'[t].token \in Bearers \cup {None}
  BY <1>1, <1>2, ServerTypes DEF server, SameServer
<1>6. Typed' /\ Apart(t) /\ Only(t, "menu", y)
  BY <1>0, <1>4, <1>5, StepTypes
<1>7. QED
  BY <1>1, <1>3, <1>5, <1>6 DEF Only, LaneEnds, Handles

LEMMA MenuStoppedFacts ==
  ASSUME Typed, NEW t \in Tabs, MenuStopped(t)
  PROVE  /\ Handles(t) /\ UNCHANGED <<jar, store, leaving>> /\ http[t]["menu"].at = "stop"
         /\ \/ LaneEnds(t, "menu")
            \/ /\ http[t]["menu"].answer = "ok" /\ store[t].token # None
               /\ LaneAsks(t, "menu", "me", store[t].token, None)
<1>0. "menu" \in Lanes /\ "me" \in AtsOf("menu") /\ "me" # "refresh"
  BY LanesAre
<1>1. /\ http[t]["menu"].at = "stop" /\ http[t]["menu"].answer \in {"ok", "401", "error"}
      /\ UNCHANGED jar /\ UNCHANGED store /\ UNCHANGED leaving /\ UNCHANGED faults /\ SameServer
      /\ UNCHANGED <<jar, leaving, server, faults>> /\ UNCHANGED <<jar, store, leaving, faults>>
  BY DEF MenuStopped, Answered, server, SameServer
<1>2. CASE Succeeded(t, "menu") /\ store[t].token # None
  <2>1. PICK token \in Bearers \cup {None} : token = store[t].token /\ token \in Credentials \cup {None}
    BY ServerTypes, TokensHaveNumbers
  <2>2. Exchange(t, "menu", Ask("me", token))
    BY <1>2, <2>1 DEF MenuStopped
  <2>3. Typed' /\ Apart(t) /\ LaneAsks(t, "menu", "me", token, None)
    BY <1>0, <1>1, <2>1, <2>2, AskStep
  <2>4. QED
    BY <1>1, <1>2, <2>1, <2>3 DEF Handles, Succeeded
<1>3. CASE ~(Succeeded(t, "menu") /\ store[t].token # None)
  <2>1. Exchange(t, "menu", [http[t]["menu"] EXCEPT !.at = "ended"])
    BY <1>3 DEF MenuStopped
  <2>2. store' \in [Tabs -> Stores] /\ \A u \in Tabs : store'[u] = store[u]
    BY <1>1, ServerTypes
  <2>3. Handles(t) /\ LaneEnds(t, "menu")
    BY <1>1, <2>1, <2>2, MenuEnds
  <2>4. QED
    BY <1>1, <2>3
<1>4. QED
  BY <1>2, <1>3

LEMMA MenuKnowsFacts ==
  ASSUME Typed, NEW t \in Tabs, MenuKnows(t)
  PROVE  /\ Handles(t) /\ UNCHANGED <<jar, leaving>> /\ http[t]["menu"].at = "me" /\ LaneEnds(t, "menu")
         /\ \/ UNCHANGED store
            \/ /\ http[t]["menu"].answer = "ok" /\ http[t]["menu"].given = http[t]["menu"].with
               /\ store'[t].user = http[t]["menu"].given.who
               /\ http[t]["menu"].given.who \in {"self", "target"}
               /\ store'[t].token = store[t].token /\ store'[t].authed = store[t].authed
               /\ store'[t].loading = store[t].loading /\ store'[t].imp = store[t].imp
<1>0. Answered(t, "menu", "me")
  BY DEF MenuKnows
<1>1. /\ http[t]["menu"].at = "me" /\ http[t]["menu"].answer \in {"ok", "401", "error"}
      /\ Exchange(t, "menu", [http[t]["menu"] EXCEPT !.at = "ended"])
      /\ UNCHANGED <<jar, leaving, server, faults>>
  BY DEF MenuKnows, Answered
<1>2. CASE Succeeded(t, "menu")
  <2>1. /\ http[t]["menu"].answer = "ok" /\ http[t]["menu"].given = http[t]["menu"].with
        /\ http[t]["menu"].given.who \in {"self", "target"}
    BY <1>0, <1>2, MeAnswered DEF GivenTo
  <2>2. PICK user \in {"self", "target"} : user = http[t]["menu"].given.who
    BY <2>1
  <2>3. PICK s : s = [store[t] EXCEPT !.user = user]
    OBVIOUS
  <2>4. /\ s \in Stores /\ s.user = user /\ s.token = store[t].token /\ s.authed = store[t].authed
        /\ s.loading = store[t].loading /\ s.imp = store[t].imp
    <3>1. store[t] \in Stores
      BY ServerTypes
    <3>2. QED
      BY <2>3, <3>1 DEF Stores
  <2>5. store' = [store EXCEPT ![t] = s]
    BY <1>2, <2>2, <2>3 DEF MenuKnows, GivenTo
  <2>6. /\ store' \in [Tabs -> Stores] /\ store'[t] = s
        /\ \A u \in Tabs : u # t => store'[u] = store[u]
    BY <2>4, <2>5, OneStore DEF Typed
  <2>7. Handles(t) /\ LaneEnds(t, "menu")
    BY <1>1, <2>4, <2>6, MenuEnds
  <2>8. QED
    BY <1>1, <2>1, <2>2, <2>4, <2>6, <2>7
<1>3. CASE ~Succeeded(t, "menu")
  <2>1. store' = store /\ store' \in [Tabs -> Stores] /\ \A u \in Tabs : store'[u] = store[u]
    BY <1>3, ServerTypes DEF MenuKnows
  <2>2. Handles(t) /\ LaneEnds(t, "menu")
    BY <1>1, <2>1, MenuEnds
  <2>3. QED
    BY <1>1, <2>1, <2>2
<1>4. QED
  BY <1>2, <1>3

LEMMA ExpireFacts ==
  ASSUME Typed, NEW t \in Tabs, ExpireAccess(t)
  PROVE  /\ Typed' /\ Apart(t) /\ UNCHANGED <<jar, store, http, leaving, valid, ended, replayed, faults>>
         /\ expiredTokens \subseteq expiredTokens' /\ store[t].token # None
<1>1. /\ UNCHANGED jar /\ UNCHANGED store /\ UNCHANGED http /\ UNCHANGED leaving /\ UNCHANGED valid
      /\ UNCHANGED ended /\ UNCHANGED replayed /\ UNCHANGED faults
      /\ expiredTokens' = expiredTokens \cup {store[t].token} /\ store[t].token # None
  BY DEF ExpireAccess, Accepted
<1>2. expiredTokens' \subseteq Credentials
  BY <1>1, ServerTypes, TokensHaveNumbers
<1>3. ExchangesAgree'
  <2>1. ASSUME NEW u \in Tabs, NEW k \in Lanes
        PROVE  ExchangeAgrees(k, http[u][k])'
    <3>1. PICK y : y = http'[u][k] /\ ExchangeAgrees(k, y)
      BY <1>1, ServerTypes
    <3>2. QED
      BY <1>1, <3>1 DEF ExchangeAgrees, Keeps
  <2>2. QED
    BY <2>1 DEF ExchangesAgree
<1>4. Typed' /\ Apart(t)
  BY <1>1, <1>2, <1>3, ServerTypes, TypesAre
<1>5. QED
  BY <1>1, <1>4

-----------------------------------------------------------------------------
(* One flow at a time *)

\* What tab t does, or the API for it.
Acts(t) ==
  \/ \E l \in Lanes : Serve(t, l) \/ Fail(t, l)
  \/ Handle(t) \/ Load(t) \/ ExpireAccess(t) \/ UserActs(t)

LEMMA EveryStep == WebNext <=> \E t \in Tabs : Acts(t)
BY DEF WebNext, Acts, UserActs

LEMMA TypesKept ==
  ASSUME Typed, NEW t \in Tabs, Acts(t)
  PROVE  Typed' /\ Apart(t)
<1>1. ASSUME NEW l \in Lanes, Serve(t, l) \/ Fail(t, l)
      PROVE  Typed' /\ Apart(t)
  BY <1>1, Served
<1>2. ASSUME NEW l \in Lanes, AwaitRefresh(t, l)
      PROVE  Typed' /\ Apart(t)
  BY <1>2, AwaitFacts DEF Handles
<1>3. ASSUME NEW q \in Queries, QueryAnswered(t, q)
      PROVE  Typed' /\ Apart(t)
  BY <1>3, QueryFacts DEF Handles
<1>4. CASE \/ Refreshed(t) \/ FailRefresh(t) \/ BootRefreshed(t) \/ BootKnows(t) \/ BootFailed(t)
           \/ LoggedIn(t) \/ LoggedOut(t) \/ Load(t)
  BY <1>4, RefreshedFacts, FailRefreshFacts, BootRefreshedFacts, BootKnowsFacts, BootFailedFacts,
     LoggedInFacts, LoggedOutFacts, LoadFacts DEF Handles
<1>5. CASE Started(t) \/ StartKnows(t) \/ Stopped(t) \/ MenuStopped(t) \/ MenuKnows(t)
  BY <1>5, StartedFacts, StartKnowsFacts, StoppedFacts, MenuStoppedFacts, MenuKnowsFacts DEF Handles
<1>6. CASE ExpireAccess(t) \/ UserActs(t)
  BY <1>6, ExpireFacts, UserStarts
<1>7. QED
  BY <1>1, <1>2, <1>3, <1>4, <1>5, <1>6 DEF Acts, Handle

Idles(x) == x.at \in {"idle", "ended"}

\* No flow begins, and the bootstrap does not.
LEMMA FewerFlows ==
  ASSUME NEW t \in Tabs, FlowsAt(t), faults' = faults,
         \A l \in Flows : Idles(http[t][l]) => Idles(http'[t][l]),
         http'[t]["boot"].at \in {"refresh", "me"} =>
           Booting(t) /\ store'[t].loading = store[t].loading,
         t \in leaving' => t \in leaving \/ "coded" \in faults
  PROVE  FlowsAt(t)'
BY DEF FlowsAt, Busy, Booting, Idles

LEMMA FlowLanes ==
  /\ Flows \subseteq Lanes /\ "boot" \in Lanes /\ "boot" \notin Flows /\ "refresh" \notin Flows
  /\ "refresh" \in Lanes /\ \A q \in Queries : q \in Lanes /\ q \notin Flows /\ q # "boot"
BY TabAssumption DEF Flows, Lanes

LEMMA FlowsAtKept ==
  ASSUME Typed, NEW t \in Tabs, FlowsAt(t), Acts(t)
  PROVE  FlowsAt(t)'
<1>0. faults' = faults
  BY TypesKept DEF Apart
<1>a. Idles(NoExchange) /\ NoExchange.at \notin {"refresh", "me"}
  BY NoExchangeFields DEF Idles
<1>1. ASSUME NEW l \in Lanes, Serve(t, l) \/ Fail(t, l)
      PROVE  FlowsAt(t)'
  <2>1. PICK a \in Answers, g \in Credentials \cup {None} : Told(t, l, a, g)
    BY <1>1, Served
  <2>2. \A k \in Lanes : http'[t][k].at = http[t][k].at
    BY <2>1, ToldFields
  <2>3. UNCHANGED <<store, leaving>>
    BY <1>1, Served
  <2>4. QED
    BY <1>0, <2>2, <2>3, FlowLanes, FewerFlows DEF Idles, Booting
<1>2. ASSUME NEW k \in Lanes, AwaitRefresh(t, k)
      PROVE  FlowsAt(t)'
  <2>1. UNCHANGED <<store, leaving>> /\ \A l \in Lanes \ {"refresh"} : http'[t][l].at = http[t][l].at
    BY <1>2, AwaitFacts
  <2>2. QED
    BY <1>0, <2>1, FlowLanes, FewerFlows DEF Idles, Booting
<1>3. ASSUME NEW q \in Queries, QueryAnswered(t, q)
      PROVE  FlowsAt(t)'
  <2>1. UNCHANGED <<store, leaving>> /\ \A l \in Lanes \ {q} : http'[t][l] = http[t][l]
    BY <1>3, QueryFacts DEF LaneRests
  <2>2. QED
    BY <1>0, <2>1, FlowLanes, FewerFlows DEF Idles, Booting
<1>4. CASE Refreshed(t)
  <2>1. leaving' = leaving /\ store'[t].loading = store[t].loading
        /\ \A l \in Lanes \ {"refresh"} : http'[t][l].at = http[t][l].at
    BY <1>4, RefreshedFacts DEF SameUser
  <2>2. QED
    BY <1>0, <2>1, FlowLanes, FewerFlows DEF Idles, Booting
<1>5. CASE FailRefresh(t)
  <2>1. "coded" \in faults /\ store'[t].loading = store[t].loading
        /\ \A l \in Lanes \ {"refresh"} : http'[t][l].at = http[t][l].at
    BY <1>5, FailRefreshFacts DEF SameUser
  <2>2. QED
    BY <1>0, <2>1, FlowLanes, FewerFlows DEF Idles, Booting
<1>6. CASE BootRefreshed(t)
  <2>1. leaving' = leaving /\ store'[t].loading = store[t].loading /\ Booting(t)
        /\ \A l \in Lanes \ {"boot"} : http'[t][l] = http[t][l]
    BY <1>6, BootRefreshedFacts DEF SameUser, LaneAsks, Booting
  <2>2. QED
    BY <1>0, <2>1, FlowLanes, FewerFlows DEF Idles
<1>7. CASE BootKnows(t) \/ BootFailed(t)
  <2>1. leaving' = leaving /\ http'[t]["boot"] = NoExchange
        /\ \A l \in Lanes \ {"boot"} : http'[t][l] = http[t][l]
    BY <1>7, BootKnowsFacts, BootFailedFacts DEF LaneRests
  <2>2. QED
    BY <1>0, <1>a, <2>1, FlowLanes, FewerFlows DEF Idles
<1>8. CASE LoggedIn(t)
  <2>1. leaving' = leaving /\ store'[t].loading = store[t].loading /\ http'[t]["login"] = NoExchange
        /\ \A l \in Lanes \ {"login"} : http'[t][l] = http[t][l]
    BY <1>8, LoggedInFacts DEF LaneRests
  <2>2. QED
    BY <1>0, <1>a, <2>1, FlowLanes, FewerFlows DEF Idles, Booting
<1>9. CASE LoggedOut(t)
  <2>1. /\ http'[t]["logout"] = NoExchange /\ \A l \in Lanes \ {"logout"} : http'[t][l] = http[t][l]
        /\ Busy(t, "logout")
    BY <1>9, LoggedOutFacts DEF LaneRests, Busy
  <2>2. ~Booting(t) /\ \A l \in Flows \ {"logout"} : ~Busy(t, l)
    BY <2>1 DEF FlowsAt, Flows
  <2>3. \A l \in Flows : Idles(http'[t][l])
    BY <1>a, <2>1, <2>2, FlowLanes DEF Idles, Busy
  <2>4. http'[t]["boot"].at \notin {"refresh", "me"}
    BY <2>1, <2>2, FlowLanes DEF Booting
  <2>5. QED
    BY <2>3, <2>4 DEF FlowsAt, Busy, Booting, Idles
<1>10. CASE Started(t) \/ StartKnows(t)
  <2>1. leaving' = leaving /\ store'[t].loading = store[t].loading
        /\ ~Idles(http[t]["start"]) /\ \A l \in Lanes \ {"start"} : http'[t][l] = http[t][l]
    BY <1>10, StartedFacts, StartKnowsFacts DEF LaneRests, LaneAsks, SameUser, Idles
  <2>2. QED
    BY <1>0, <2>1, FlowLanes, FewerFlows DEF Booting
<1>11. CASE Stopped(t)
  <2>1. http[t]["stop"].at = "stop" /\ leaving' = leaving
    BY <1>11, StoppedFacts
  <2>2. CASE LaneRests(t, "stop") /\ UNCHANGED store
    BY <1>0, <2>1, <2>2, FlowLanes, FewerFlows DEF LaneRests, Idles, Booting
  <2>3. CASE /\ store'[t].loading /\ http'[t]["stop"] = NoExchange
             /\ \A l \in Lanes \ {"stop", "boot"} : http'[t][l] = http[t][l]
    <3>1. /\ \A l \in Flows \ {"stop"} : ~Busy(t, l)
          /\ ~("coded" \notin faults /\ t \in leaving)
      BY <2>1 DEF FlowsAt, Busy, Flows
    <3>2. \A l \in Flows : Idles(http'[t][l])
      BY <1>a, <2>3, <3>1, FlowLanes DEF Idles, Busy
    <3>3. QED
      BY <1>0, <2>1, <2>3, <3>1, <3>2 DEF FlowsAt, Busy, Booting, Idles
  <2>4. QED
    BY <1>11, <2>2, <2>3, StoppedFacts
<1>12. CASE MenuStopped(t) \/ MenuKnows(t)
  <2>1. leaving' = leaving /\ store'[t].loading = store[t].loading
        /\ ~Idles(http[t]["menu"]) /\ \A l \in Lanes \ {"menu"} : http'[t][l] = http[t][l]
    BY <1>12, MenuStoppedFacts, MenuKnowsFacts DEF LaneEnds, LaneAsks, Idles
  <2>2. QED
    BY <1>0, <2>1, FlowLanes, FewerFlows DEF Booting
<1>13. CASE Load(t)
  <2>1. /\ store'[t] = initialState /\ leaving' = leaving \ {t}
        /\ \A l \in Lanes \ {"boot"} : http'[t][l] = NoExchange
    BY <1>13, LoadFacts
  <2>2. \A l \in Flows : Idles(http'[t][l])
    BY <1>a, <2>1, FlowLanes
  <2>3. QED
    BY <2>1, <2>2, InitialFields DEF FlowsAt, Busy, Booting, Idles
<1>14. CASE ExpireAccess(t)
  BY <1>0, <1>14, ExpireFacts, FewerFlows DEF Booting
<1>15. CASE UserActs(t)
  <2>1. UNCHANGED <<store, leaving>> /\ Starts(t)
    BY <1>15, UserStarts
  <2>2. ASSUME NEW l \in Flows, NEW at, NEW with, NEW own, LaneAsks(t, l, at, with, own), BetweenFlows(t),
               l = "login" \/ ~Booting(t)
        PROVE  FlowsAt(t)'
    <3>1. \A k \in Flows \ {l} : Idles(http'[t][k])
      BY <2>2, FlowLanes DEF LaneAsks, BetweenFlows, Idles
    <3>2. t \notin leaving' /\ http'[t]["boot"] = http[t]["boot"]
      BY <2>1, <2>2, FlowLanes DEF BetweenFlows, LaneAsks
    <3>3. QED
      BY <2>1, <2>2, <3>1, <3>2 DEF FlowsAt, Busy, Booting, Idles
  <2>3. ASSUME NEW q \in Queries, NEW at, NEW with, NEW own, LaneAsks(t, q, at, with, own)
        PROVE  FlowsAt(t)'
    BY <1>0, <2>1, <2>3, FlowLanes, FewerFlows DEF LaneAsks, Booting
  <2>4. Shown(t) => ~Booting(t)
    BY DEF Shown, FlowsAt
  <2>5. QED
    BY <2>1, <2>2, <2>3, <2>4 DEF Starts, Flows
<1>16. QED
  BY <1>1, <1>2, <1>3, <1>4, <1>5, <1>6, <1>7, <1>8, <1>9, <1>10, <1>11, <1>12, <1>13, <1>14, <1>15
     DEF Acts, Handle

LEMMA FlowsKept ==
  ASSUME Typed, FlowsAgree, NEW t \in Tabs, Acts(t)
  PROVE  FlowsAgree'
<1>1. Apart(t) /\ FlowsAt(t)'
  BY TypesKept, FlowsAtKept DEF FlowsAgree
<1>2. ASSUME NEW u \in Tabs, u # t
      PROVE  FlowsAt(u)'
  <2>1. FlowsAt(u)
    BY DEF FlowsAgree
  <2>2. /\ faults' = faults /\ http'[u] = http[u] /\ store'[u] = store[u]
        /\ u \in leaving' <=> u \in leaving
    BY <1>1, <1>2 DEF Apart
  <2>3. QED
    BY <2>1, <2>2, FewerFlows DEF Booting
<1>3. QED
  BY <1>1, <1>2 DEF FlowsAgree

-----------------------------------------------------------------------------
(* Without impersonations there is one user *)

\* One lane of t goes on, and what it sends and has is the user's own.
LEMMA SelfLaneGoesOn ==
  ASSUME NEW t \in Tabs, SelfAt(t), NEW l \in Lanes \ {"start", "stop", "menu"}, StoreSelf(store'[t]),
         IsSelf(http'[t][l].with), IsSelf(http'[t][l].given), IsSelf(http'[t][l].own),
         \A k \in Lanes : k # l => http'[t][k] = http[t][k]
  PROVE  SelfAt(t)'
<1>1. StoreSelf(store[t])'
  BY DEF StoreSelf, IsSelf
<1>2. \A k \in Lanes : LaneSelf(http[t][k])'
  BY DEF SelfAt, LaneSelf, IsSelf
<1>3. \A k \in {"start", "stop", "menu"} : k \in Lanes
  BY LanesAre
<1>4. QED
  BY <1>1, <1>2, <1>3 DEF SelfAt

LEMMA NothingIsSelf ==
  /\ IsSelf(None) /\ LaneSelf(NoExchange) /\ StoreSelf(initialState) /\ StoreSelf(Closed)
  /\ \A x : x # None /\ x.who = "self" => IsSelf(x)
BY NoExchangeFields, InitialFields, NoneIsNothing DEF IsSelf, LaneSelf, StoreSelf

\* The lanes that serve impersonations are not in use.
LEMMA NotActing ==
  ASSUME NEW t \in Tabs, SelfAt(t), NEW l \in {"start", "stop", "menu"}
  PROVE  http[t][l].at = "idle" /\ http[t][l].answer = None
BY NoExchangeFields DEF SelfAt

LEMMA SelfAtKept ==
  ASSUME Typed, NEW t \in Tabs, SelfAt(t), "act" \notin faults, Acts(t)
  PROVE  SelfAt(t)'
<1>a. /\ StoreSelf(store[t]) /\ IsSelf(store[t].token) /\ \A l \in Lanes : LaneSelf(http[t][l])
      /\ ~store[t].imp
  BY DEF SelfAt, StoreSelf
<1>b. ASSUME NEW l \in Lanes, http[t][l].at \notin {"idle", "ended"}
      PROVE  l \notin {"start", "stop", "menu"}
  BY <1>b, NotActing
<1>1. ASSUME NEW l \in Lanes, Serve(t, l) \/ Fail(t, l)
      PROVE  SelfAt(t)'
  <2>0. WebTypeOK /\ ExchangesAgree /\ UNCHANGED store
    BY <1>1, Served DEF Typed
  <2>1. PICK a \in Answers, g \in Credentials \cup {None} : Told(t, l, a, g) /\ IsSelf(g)
    <3>1. CASE ServeRefresh(t, l)
      <4>1. PICK a \in Answers, g \in Credentials \cup {None} :
               Told(t, l, a, g) /\ (g = None \/ (MayIssue /\ g = Access("self", FreshNumber)))
        BY <2>0, <3>1, RefreshServed
      <4>2. MayIssue => Access("self", FreshNumber) # None /\ Access("self", FreshNumber).who = "self"
        BY FreshIsFree, TokenFields, NoneIsNothing
      <4>3. QED
        BY <4>1, <4>2, NothingIsSelf
    <3>2. CASE l = "login" /\ ServeLogin(t)
      <4>1. MayIssue /\ \E a \in Answers, g \in Credentials \cup {None} :
               Told(t, l, a, g) /\ (g = None \/ g = Access("self", FreshNumber))
        BY <2>0, <3>2, LoginServed
      <4>2. MayIssue => Access("self", FreshNumber) # None /\ Access("self", FreshNumber).who = "self"
        BY FreshIsFree, TokenFields, NoneIsNothing
      <4>3. QED
        BY <4>1, <4>2, NothingIsSelf
    <3>3. CASE ServeRead(t, l)
      <4>1. PICK a \in Answers, g \in Credentials \cup {None} :
               Told(t, l, a, g) /\ (g = None \/ g = http[t][l].with)
        BY <2>0, <3>3, ReadServed
      <4>2. QED
        BY <1>a, <4>1, NothingIsSelf DEF LaneSelf
    <3>4. CASE l = "start" /\ ServeStart(t)
      <4>1. http[t]["start"].at = "start"
        BY <2>0, <3>4, StartServed
      <4>2. QED
        BY <1>b, <3>4, <4>1
    <3>5. CASE ServeStop(t, l)
      <4>1. \E a \in Answers, g \in Credentials \cup {None} : Told(t, l, a, g) /\ g = None
        BY <2>0, <3>5, StopServed
      <4>2. QED
        BY <4>1, NothingIsSelf
    <3>6. CASE l = "logout" /\ ServeLogout(t)
      <4>1. \E a \in Answers : Told(t, l, a, None)
        BY <2>0, <3>6, LogoutServed
      <4>2. QED
        BY <4>1, NothingIsSelf
    <3>7. CASE Fail(t, l)
      <4>1. PICK g \in Credentials \cup {None} : Told(t, l, "error", g) /\ g = http[t][l].given
        BY <2>0, <3>7, FailServed
      <4>2. "error" \in Answers
        BY DEF Answers
      <4>3. QED
        BY <1>a, <4>1, <4>2 DEF LaneSelf
    <3>8. QED
      BY <1>1, <3>1, <3>2, <3>3, <3>4, <3>5, <3>6, <3>7 DEF Serve
  <2>2. /\ http'[t][l].with = http[t][l].with /\ http'[t][l].own = http[t][l].own
        /\ http'[t][l].given = g /\ \A k \in Lanes : k # l => http'[t][k] = http[t][k]
    BY <2>1, ToldFields
  <2>3. l \notin {"start", "stop", "menu"}
    BY <1>b, <2>1 DEF Told
  <2>4. /\ IsSelf(http'[t][l].with) /\ IsSelf(http'[t][l].own) /\ IsSelf(http'[t][l].given)
        /\ StoreSelf(store'[t])
    BY <1>a, <2>0, <2>1, <2>2 DEF LaneSelf
  <2>5. QED
    BY <2>2, <2>3, <2>4, SelfLaneGoesOn
<1>2. ASSUME NEW k \in Lanes, AwaitRefresh(t, k)
      PROVE  SelfAt(t)'
  <2>1. /\ UNCHANGED <<jar, store>> /\ http[t][k].answer = "expired"
        /\ http'[t][k].with = http[t][k].with /\ http'[t][k].own = http[t][k].own
        /\ http'[t][k].given = http[t][k].given /\ k # "refresh"
        /\ \/ http'[t]["refresh"] = http[t]["refresh"]
           \/ /\ http'[t]["refresh"].with = jar /\ http'[t]["refresh"].own = None
              /\ http'[t]["refresh"].given = None
        /\ \A l \in Lanes \ {"refresh", k} : http'[t][l] = http[t][l]
    BY <1>2, AwaitFacts
  <2>2. k \notin {"start", "stop", "menu"}
    BY <2>1, NotActing, NoneIsNothing
  <2>3. IsSelf(jar)
    BY ServerTypes, NothingIsSelf DEF Cookies, IsSelf
  <2>4. ASSUME NEW l \in Lanes
        PROVE  /\ IsSelf(http'[t][l].with) /\ IsSelf(http'[t][l].given) /\ IsSelf(http'[t][l].own)
    BY <1>a, <2>1, <2>3, <2>4, NothingIsSelf DEF LaneSelf
  <2>5. \A l \in Lanes : LaneSelf(http[t][l])'
    BY <2>4 DEF LaneSelf, IsSelf
  <2>6. \A l \in {"start", "stop", "menu"} : l \in Lanes \ {"refresh", k}
    BY <2>2, LanesAre
  <2>7. QED
    BY <2>1, <2>5, <2>6 DEF SelfAt, StoreSelf, IsSelf
<1>3. ASSUME NEW q \in Queries, QueryAnswered(t, q)
      PROVE  SelfAt(t)'
  <2>1. UNCHANGED store /\ LaneRests(t, q)
    BY <1>3, QueryFacts
  <2>2. q \in Lanes \ {"start", "stop", "menu"}
    BY LanesAre
  <2>3. QED
    BY <1>a, <2>1, <2>2, SelfLaneGoesOn, NothingIsSelf DEF LaneRests, LaneSelf
<1>4. CASE Refreshed(t)
  <2>1. PICK g \in Bearers :
              /\ g.who = "self" /\ store'[t].token = g
              /\ \A l \in Lanes \ {"refresh"} :
                   \/ http'[t][l] = http[t][l]
                   \/ /\ http[t][l].answer = "await" /\ http'[t][l].with = g
                      /\ http'[t][l].given = http[t][l].given /\ http'[t][l].own = http[t][l].own
    BY <1>4, RefreshedFacts
  <2>2. SameUser(t) /\ http'[t]["refresh"] = NoExchange
    BY <1>4, RefreshedFacts
  <2>3. IsSelf(g)
    BY <2>1, NothingIsSelf DEF IsSelf
  <2>4. ASSUME NEW l \in Lanes
        PROVE  /\ IsSelf(http'[t][l].with) /\ IsSelf(http'[t][l].given) /\ IsSelf(http'[t][l].own)
    BY <1>a, <2>1, <2>2, <2>3, <2>4, NothingIsSelf DEF LaneSelf
  <2>5. \A l \in Lanes : LaneSelf(http[t][l])'
    BY <2>4 DEF LaneSelf, IsSelf
  <2>6. \A l \in {"start", "stop", "menu"} : l \in Lanes \ {"refresh"} /\ http[t][l].answer # "await"
    BY LanesAre, NotActing, NoneIsNothing
  <2>7. StoreSelf(store[t])'
    BY <1>a, <2>1, <2>2, <2>3 DEF StoreSelf, SameUser, IsSelf
  <2>8. QED
    BY <2>1, <2>5, <2>6, <2>7 DEF SelfAt
<1>5. CASE FailRefresh(t)
  <2>1. /\ store'[t].token = None /\ SameUser(t) /\ http'[t]["refresh"] = NoExchange
        /\ \A l \in Lanes \ {"refresh"} :
              \/ http'[t][l] = http[t][l]
              \/ /\ http[t][l].answer = "await" /\ http'[t][l].with = http[t][l].with
                 /\ http'[t][l].given = http[t][l].given /\ http'[t][l].own = http[t][l].own
    BY <1>5, FailRefreshFacts
  <2>2. ASSUME NEW l \in Lanes
        PROVE  /\ IsSelf(http'[t][l].with) /\ IsSelf(http'[t][l].given) /\ IsSelf(http'[t][l].own)
    BY <1>a, <2>1, <2>2, NothingIsSelf DEF LaneSelf
  <2>3. \A l \in Lanes : LaneSelf(http[t][l])'
    BY <2>2 DEF LaneSelf, IsSelf
  <2>4. \A l \in {"start", "stop", "menu"} : l \in Lanes \ {"refresh"} /\ http[t][l].answer # "await"
    BY LanesAre, NotActing, NoneIsNothing
  <2>5. StoreSelf(store[t])'
    BY <1>a, <2>1, NothingIsSelf DEF StoreSelf, SameUser, IsSelf
  <2>6. QED
    BY <2>1, <2>3, <2>4, <2>5 DEF SelfAt
<1>6. CASE BootRefreshed(t)
  <2>1. PICK g \in Bearers :
           g.who = "self" /\ store'[t].token = g /\ LaneAsks(t, "boot", "me", g, g)
    BY <1>6, BootRefreshedFacts
  <2>2. SameUser(t) /\ IsSelf(g)
    BY <1>6, <2>1, BootRefreshedFacts DEF IsSelf
  <2>3. StoreSelf(store'[t]) /\ "boot" \in Lanes \ {"start", "stop", "menu"}
    BY <1>a, <2>1, <2>2, LanesAre DEF StoreSelf, SameUser
  <2>4. QED
    BY <2>1, <2>2, <2>3, SelfLaneGoesOn, NothingIsSelf DEF LaneAsks
<1>7. CASE BootKnows(t)
  <2>0. "boot" \in Lanes \ {"start", "stop", "menu"}
    BY LanesAre
  <2>1. /\ LaneRests(t, "boot") /\ http[t]["boot"].own \in Bearers
        /\ http[t]["boot"].given = http[t]["boot"].with
        /\ http[t]["boot"].given.who \in {"self", "target"}
        /\ Knows(t, http[t]["boot"].own, http[t]["boot"].given.who)
        /\ http[t]["boot"].at = "me" /\ http[t]["boot"].answer = "ok"
    BY <1>7, BootKnowsFacts
  <2>2. http[t]["boot"].given \in Bearers
    BY <2>0, <2>1, ServerTypes DEF ExchangeAgrees
  <2>3. http[t]["boot"].own.who # "target" /\ http[t]["boot"].given.who = "self"
    BY <1>a, <2>0, <2>1, <2>2, NoneIsNothing DEF LaneSelf, IsSelf
  <2>4. StoreSelf(store'[t])
    BY <2>1, <2>3 DEF StoreSelf, Knows, IsSelf
  <2>5. QED
    BY <2>0, <2>1, <2>4, SelfLaneGoesOn, NothingIsSelf DEF LaneRests, LaneSelf
<1>8. CASE BootFailed(t) \/ LoggedOut(t)
  <2>1. store'[t] = Closed /\ (LaneRests(t, "boot") \/ LaneRests(t, "logout"))
    BY <1>8, BootFailedFacts, LoggedOutFacts
  <2>2. StoreSelf(store'[t])
    BY <2>1, NothingIsSelf
  <2>3. "boot" \in Lanes \ {"start", "stop", "menu"} /\ "logout" \in Lanes \ {"start", "stop", "menu"}
    BY LanesAre
  <2>4. QED
    BY <2>1, <2>2, <2>3, SelfLaneGoesOn, NothingIsSelf DEF LaneRests, LaneSelf
<1>9. CASE LoggedIn(t)
  <2>0. "login" \in Lanes \ {"start", "stop", "menu"}
    BY LanesAre
  <2>1. LaneRests(t, "login") /\ (UNCHANGED store \/ \E g \in Bearers : g.who = "self" /\ Knows(t, g, "self"))
    BY <1>9, LoggedInFacts
  <2>2. StoreSelf(store'[t])
    BY <1>a, <2>1 DEF StoreSelf, Knows, IsSelf
  <2>3. QED
    BY <2>0, <2>1, <2>2, SelfLaneGoesOn, NothingIsSelf DEF LaneRests, LaneSelf
<1>10. CASE Started(t) \/ StartKnows(t) \/ Stopped(t) \/ MenuStopped(t) \/ MenuKnows(t)
  BY <1>10, NotActing, StartedFacts, StartKnowsFacts, StoppedFacts, MenuStoppedFacts, MenuKnowsFacts
<1>11. CASE Load(t)
  <2>1. /\ store'[t] = initialState /\ http'[t]["boot"].with = jar /\ http'[t]["boot"].own = None
        /\ http'[t]["boot"].given = None
        /\ \A l \in Lanes \ {"boot"} : http'[t][l] = NoExchange
    BY <1>11, LoadFacts
  <2>2. IsSelf(jar)
    BY ServerTypes, NothingIsSelf DEF Cookies, IsSelf
  <2>3. ASSUME NEW l \in Lanes
        PROVE  /\ IsSelf(http'[t][l].with) /\ IsSelf(http'[t][l].given) /\ IsSelf(http'[t][l].own)
    BY <2>1, <2>2, <2>3, NothingIsSelf DEF LaneSelf
  <2>4. \A l \in Lanes : LaneSelf(http[t][l])'
    BY <2>3 DEF LaneSelf, IsSelf
  <2>5. \A l \in {"start", "stop", "menu"} : l \in Lanes \ {"boot"}
    BY LanesAre
  <2>6. StoreSelf(store[t])'
    BY <2>1, NothingIsSelf DEF StoreSelf, IsSelf
  <2>7. QED
    BY <2>1, <2>4, <2>5, <2>6 DEF SelfAt
<1>12. CASE ExpireAccess(t)
  <2>1. UNCHANGED <<store, http>>
    BY <1>12, ExpireFacts
  <2>2. QED
    BY <2>1 DEF SelfAt, StoreSelf, LaneSelf, IsSelf
<1>13. CASE UserActs(t)
  <2>1. Starts(t) /\ UNCHANGED store
    BY <1>13, UserStarts
  <2>2. ASSUME NEW l \in Lanes \ {"start", "stop", "menu"}, NEW at, NEW with \in {None, store[t].token},
               NEW own \in {None, store[t].token}, LaneAsks(t, l, at, with, own)
        PROVE  SelfAt(t)'
    BY <1>a, <2>1, <2>2, SelfLaneGoesOn, NothingIsSelf DEF LaneAsks
  <2>3. /\ "login" \in Lanes \ {"start", "stop", "menu"} /\ "logout" \in Lanes \ {"start", "stop", "menu"}
        /\ \A q \in Queries : q \in Lanes \ {"start", "stop", "menu"}
    BY LanesAre
  <2>4. QED
    BY <1>a, <2>1, <2>2, <2>3 DEF Starts
<1>14. QED
  BY <1>1, <1>2, <1>3, <1>4, <1>5, <1>6, <1>7, <1>8, <1>9, <1>10, <1>11, <1>12, <1>13 DEF Acts, Handle

LEMMA SelfKept ==
  ASSUME Typed, SelfAgrees, NEW t \in Tabs, Acts(t)
  PROVE  SelfAgrees'
<1>1. SUFFICES ASSUME "act" \notin faults
               PROVE  \A u \in Tabs : SelfAt(u)'
  BY TypesKept DEF SelfAgrees, Apart
<1>2. Apart(t) /\ SelfAt(t)'
  BY <1>1, TypesKept, SelfAtKept DEF SelfAgrees
<1>3. ASSUME NEW u \in Tabs, u # t
      PROVE  SelfAt(u)'
  <2>1. SelfAt(u)
    BY <1>1 DEF SelfAgrees
  <2>2. http'[u] = http[u] /\ store'[u] = store[u]
    BY <1>2, <1>3 DEF Apart
  <2>3. QED
    BY <2>1, <2>2 DEF SelfAt, StoreSelf, LaneSelf, IsSelf
<1>4. QED
  BY <1>2, <1>3

-----------------------------------------------------------------------------
(* Without other tabs there is one *)

LEMMA OnlyFirst ==
  ASSUME Typed, OneTab, "tabs" \notin faults, NEW t \in Tabs, Acts(t)
  PROVE  t = FirstTab
<1>1. SUFFICES ASSUME t # FirstTab
               PROVE  FALSE
  OBVIOUS
<1>2. store[t] = Closed /\ http[t] = Quiet /\ t \notin leaving
  BY <1>1 DEF OneTab
<1>3. \A l \in Lanes : http[t][l].at = "idle" /\ http[t][l].answer = None
  BY <1>2, NoExchangeFields DEF Quiet
<1>4. ~store[t].authed /\ ~store[t].imp /\ store[t].token = None
  BY <1>2, InitialFields
<1>5. \A l \in {"boot", "login", "start", "stop", "menu", "logout", "refresh"} : l \in Lanes
  BY LanesAre
<1>6. ASSUME NEW l \in Lanes, Serve(t, l) \/ Fail(t, l)
      PROVE  FALSE
  BY <1>3, <1>6, Served DEF Told
<1>7. ASSUME NEW l \in Lanes, AwaitRefresh(t, l)
      PROVE  FALSE
  BY <1>3, <1>7, NoneIsNothing DEF AwaitRefresh
<1>8. ASSUME NEW q \in Queries, QueryAnswered(t, q)
      PROVE  FALSE
  BY <1>3, <1>8, LanesAre DEF QueryAnswered, Answered
<1>9. CASE \/ Refreshed(t) \/ FailRefresh(t) \/ BootRefreshed(t) \/ BootKnows(t) \/ BootFailed(t)
           \/ LoggedIn(t) \/ LoggedOut(t)
  BY <1>3, <1>5, <1>9 DEF Refreshed, FailRefresh, BootRefreshed, BootKnows, BootFailed, LoggedIn,
     LoggedOut, Answered
<1>10. CASE Started(t) \/ StartKnows(t) \/ Stopped(t) \/ MenuStopped(t) \/ MenuKnows(t)
  BY <1>3, <1>5, <1>10 DEF Started, StartKnows, Stopped, MenuStopped, MenuKnows, Answered
<1>11. CASE Load(t) \/ ExpireAccess(t)
  BY <1>2, <1>4, <1>11, LoadFacts, ExpireFacts
<1>12. CASE UserActs(t)
  BY <1>1, <1>4, <1>12, UserStarts DEF Starts, Shown
<1>13. QED
  BY <1>6, <1>7, <1>8, <1>9, <1>10, <1>11, <1>12, Acts(t) DEF Acts, Handle

LEMMA OneTabKept ==
  ASSUME Typed, OneTab, NEW t \in Tabs, Acts(t)
  PROVE  OneTab'
<1>1. SUFFICES ASSUME "tabs" \notin faults, NEW u \in Tabs \ {FirstTab}
               PROVE  (store[u] = Closed /\ http[u] = Quiet /\ u \notin leaving)'
  BY TypesKept DEF OneTab, Apart
<1>2. u # t
  BY <1>1, OnlyFirst
<1>3. store'[u] = store[u] /\ http'[u] = http[u] /\ (u \in leaving' <=> u \in leaving)
  BY <1>2, TypesKept DEF Apart
<1>4. store[u] = Closed /\ http[u] = Quiet /\ u \notin leaving
  BY <1>1 DEF OneTab
<1>5. QED
  BY <1>3, <1>4 DEF Closed, Quiet, initialState, NoExchange

-----------------------------------------------------------------------------
(* Nothing is presented twice *)

LEMMA HeldAre ==
  ASSUME NEW t \in Tabs, NEW l \in Lanes
  PROVE  /\ jar # None => jar.n \in HeldNumbers
         /\ store[t].token # None => store[t].token.n \in HeldNumbers
         /\ http[t][l].with # None => http[t][l].with.n \in HeldNumbers
         /\ http[t][l].given # None => http[t][l].given.n \in HeldNumbers
<1>1. /\ store[t].token \in HeldBy(t) /\ http[t][l].with \in HeldBy(t)
      /\ http[t][l].given \in HeldBy(t)
  BY DEF HeldBy
<1>2. jar \in Held /\ \A x \in HeldBy(t) : x \in Held
  BY DEF Held
<1>3. \A x \in Held : x # None => x.n \in HeldNumbers
  BY DEF HeldNumbers
<1>4. QED
  BY <1>1, <1>2, <1>3

LEMMA HeldIsRemembered ==
  ASSUME NEW S, NEW x \in S, x.n \in HeldNumbers
  PROVE  x \in Remembered(S)
BY DEF Remembered

\* What a lane brings is a token of the user, and a refresh lane brings it by a refresh.
LEMMA BringsWhat ==
  ASSUME Typed, NEW l \in {"boot", "refresh", "login"}, Brings(l)
  PROVE  /\ http[FirstTab][l].given \in Bearers /\ http[FirstTab][l].given.n \in 1 .. LastToken
         /\ Brought(l) \in Cookies /\ Brought(l).n = http[FirstTab][l].given.n
         /\ Brought(l).n \in HeldNumbers
         /\ l # "login" => Refreshing(l)
<1>0. l \in Lanes /\ FirstTab \in Tabs
  BY LanesAre, TabAssumption
<1>1. PICK x \in Exchanges : x = http[FirstTab][l] /\ ExchangeAgrees(l, x)
  BY <1>0, ServerTypes
<1>2. x.answer = "ok" /\ x.at \in {"refresh", "login"} /\ x.at \in AtsOf(l)
  BY <1>1 DEF Brings, ExchangeAgrees
<1>3. x.given \in Bearers
  BY <1>1, <1>2 DEF ExchangeAgrees
<1>4. x.given.n \in 1 .. LastToken /\ x.given # None
  BY <1>3, TokensHaveNumbers, NoneIsNothing
<1>5. Cookie(x.given.n) \in Cookies /\ Cookie(x.given.n).n = x.given.n
  BY <1>4, TokenFields
<1>6. x.given.n \in HeldNumbers
  BY <1>0, <1>1, <1>4, HeldAre
<1>7. l # "login" => x.at = "refresh"
  BY <1>2, LanesAre
<1>8. QED
  BY <1>1, <1>3, <1>4, <1>5, <1>6, <1>7 DEF Brought, Refreshing

LEMMA RefreshLanes ==
  ASSUME Typed, NEW l \in Lanes, Refreshing(l)
  PROVE  l \in {"boot", "refresh"} /\ http[FirstTab][l].with \in Cookies \cup {None}
         /\ (l = "refresh" => "coded" \in faults)
<1>1. PICK x \in Exchanges : x = http[FirstTab][l] /\ ExchangeAgrees(l, x)
  BY ServerTypes, TabAssumption
<1>2. x.at = "refresh" /\ x.at \in AtsOf(l)
  BY <1>1 DEF Refreshing, ExchangeAgrees
<1>3. l \in {"boot", "refresh"}
  BY <1>2, LanesAre
<1>4. x.with \in Cookies \cup {None} /\ (l = "refresh" => "coded" \in faults)
  BY <1>1, <1>2 DEF ExchangeAgrees
<1>5. QED
  BY <1>1, <1>3, <1>4

LEMMA OneRefreshes ==
  ASSUME Typed, OnePresents, SilentAgrees
  PROVE  ~(Refreshing("boot") /\ Refreshing("refresh"))
<1>1. SUFFICES ASSUME Refreshing("boot"), Refreshing("refresh")
               PROVE  FALSE
  OBVIOUS
<1>2. "coded" \in faults
  BY <1>1, RefreshLanes, LanesAre
<1>3. http[FirstTab]["refresh"] = NoExchange
  BY <1>1, <1>2 DEF SilentAgrees, SilentHolds
<1>4. QED
  BY <1>1, <1>3, NoExchangeFields DEF Refreshing

\* Lane l begins no refresh and is brought nothing.
Calm(l) ==
  /\ Refreshing(l)' => /\ Refreshing(l) /\ http'[FirstTab][l].with = http[FirstTab][l].with
                       /\ http'[FirstTab][l].answer = None => http[FirstTab][l].answer = None
  /\ Brings(l)' => Brings(l) /\ http'[FirstTab][l].given = http[FirstTab][l].given

LEMMA CookiesStay ==
  ASSUME Typed, CookiesHold, ~replayed', jar' \in {None, jar},
         \A x \in valid : x.n \in HeldNumbers => x \in valid',
         \A l \in {"boot", "refresh", "login"} : Calm(l),
         \A l \in {"boot", "refresh"} : Refreshing(l) /\ Brings(l) => Refreshing(l)' /\ Brings(l)'
  PROVE  CookiesHold'
<1>0. "boot" \in Lanes /\ "refresh" \in Lanes /\ FirstTab \in Tabs
  BY LanesAre, TabAssumption
<1>1. jar' # None => jar' \in valid' \/ \E l \in {"boot", "refresh"} : Refreshing(l)' /\ Brings(l)'
  <2>1. CASE jar' # None /\ jar \in valid
    BY <1>0, <2>1, HeldAre
  <2>2. CASE jar' # None /\ jar \notin valid
    <3>1. PICK l \in {"boot", "refresh"} : Refreshing(l) /\ Brings(l)
      BY <2>2 DEF CookiesHold
    <3>2. QED
      BY <3>1
  <2>3. QED
    BY <2>1, <2>2
<1>2. ASSUME NEW l \in {"boot", "refresh"}, Refreshing(l)', http'[FirstTab][l].answer = None
      PROVE  http'[FirstTab][l].with \in valid' \cup {None}
  <2>1. /\ Refreshing(l) /\ http'[FirstTab][l].with = http[FirstTab][l].with
        /\ http[FirstTab][l].answer = None
    BY <1>2 DEF Calm
  <2>2. http[FirstTab][l].with \in valid \cup {None}
    BY <2>1 DEF CookiesHold
  <2>3. http[FirstTab][l].with # None => http[FirstTab][l].with.n \in HeldNumbers
    BY <1>0, HeldAre
  <2>4. QED
    BY <2>1, <2>2, <2>3
<1>3. ASSUME NEW l \in {"boot", "refresh", "login"}, Brings(l)'
      PROVE  Brings(l) /\ Brought(l)' = Brought(l) /\ Brought(l)' \in valid'
  <2>1. Brings(l) /\ Brought(l)' = Brought(l)
    BY <1>3 DEF Calm, Brought, Cookie
  <2>2. Brought(l) \in valid /\ Brought(l).n \in HeldNumbers
    BY <2>1, BringsWhat DEF CookiesHold
  <2>3. QED
    BY <2>1, <2>2
<1>4. ASSUME Brings("login")'
      PROVE  /\ jar' # Brought("login")'
             /\ \A l \in {"boot", "refresh"} :
                  /\ Refreshing(l)' => http'[FirstTab][l].with # Brought("login")'
                  /\ Brings(l)' => Brought(l)' # Brought("login")'
  <2>1. Brings("login") /\ Brought("login")' = Brought("login")
    BY <1>3, <1>4
  <2>2. Brought("login") # None
    BY <2>1, BringsWhat, NoneIsNothing
  <2>3. jar' # Brought("login")'
    BY <2>1, <2>2 DEF CookiesHold
  <2>4. ASSUME NEW l \in {"boot", "refresh"}
        PROVE  /\ Refreshing(l)' => http'[FirstTab][l].with # Brought("login")'
               /\ Brings(l)' => Brought(l)' # Brought("login")'
    <3>1. Refreshing(l)' => http'[FirstTab][l].with # Brought("login")'
      BY <2>1 DEF CookiesHold, Calm
    <3>2. Brings(l)' => Brought(l)' # Brought("login")'
      BY <1>3, <2>1 DEF CookiesHold
    <3>3. QED
      BY <3>1, <3>2
  <2>5. QED
    BY <2>3, <2>4
<1>5. QED
  BY <1>1, <1>2, <1>3, <1>4 DEF CookiesHold


-----------------------------------------------------------------------------
\* What lane l of the first tab brings is not lost on the way.
Lasts(l) == Refreshing(l) /\ Brings(l) => Refreshing(l)' /\ Brings(l)'
Writers == {"boot", "refresh", "login"}

LEMMA SameIsCalm ==
  ASSUME NEW l, http'[FirstTab][l] = http[FirstTab][l]
  PROVE  Calm(l) /\ Lasts(l)
<1>1. Refreshing(l)' <=> Refreshing(l)
  BY DEF Refreshing
<1>2. Brings(l)' <=> Brings(l)
  BY DEF Brings
<1>3. QED
  BY <1>1, <1>2 DEF Calm, Lasts

\* A lane that neither asks for the cookie nor is brought one.
LEMMA OthersAreCalm ==
  ASSUME NEW l, ~Refreshing(l)', ~Brings(l)'
  PROVE  Calm(l) /\ (~(Refreshing(l) /\ Brings(l)) => Lasts(l))
BY DEF Calm, Lasts

LEMMA ToldIsCalm ==
  ASSUME Typed, NEW l \in Lanes, NEW a \in Answers, NEW g \in Credentials \cup {None},
         Told(FirstTab, l, a, g), a # "ok" \/ http[FirstTab][l].at \notin {"refresh", "login"}
  PROVE  \A k \in Writers : Calm(k) /\ Lasts(k)
<1>1. /\ http'[FirstTab][l].at = http[FirstTab][l].at /\ http'[FirstTab][l].answer = a
      /\ http'[FirstTab][l].with = http[FirstTab][l].with
      /\ \A k \in Lanes : k # l => http'[FirstTab][k] = http[FirstTab][k]
  BY ToldFields, TabAssumption
<1>2. http[FirstTab][l].answer = None /\ None # "ok" /\ a # None
  BY NoneIsNothing, TabAssumption DEF Told
<1>3. SUFFICES ASSUME NEW k \in Writers
               PROVE  Calm(k) /\ Lasts(k)
  OBVIOUS
<1>4. k \in Lanes
  BY LanesAre DEF Writers
<1>5. CASE k # l
  BY <1>1, <1>4, <1>5, SameIsCalm
<1>6. CASE k = l
  <2>1. ~Brings(l) /\ ~Brings(l)'
    BY <1>1, <1>2 DEF Brings
  <2>2. Refreshing(l)' <=> Refreshing(l)
    BY <1>1 DEF Refreshing
  <2>3. QED
    BY <1>1, <1>2, <1>6, <2>1, <2>2 DEF Calm, Lasts
<1>7. QED
  BY <1>5, <1>6

\* The cookie is replaced by the one that lane l was brought.
LEMMA CookieBrought ==
  ASSUME Typed, CookiesHold, NEW l \in Writers, Brings(l), jar' = Brought(l),
         UNCHANGED <<valid, replayed>>, ~Refreshing(l)', ~Brings(l)',
         \A k \in Writers \ {l} : Calm(k)
  PROVE  CookiesHold'
<1>1. jar' \in valid' /\ ~replayed'
  BY DEF CookiesHold, Writers
<1>2. ASSUME NEW k \in {"boot", "refresh"}, Refreshing(k)', http'[FirstTab][k].answer = None
      PROVE  http'[FirstTab][k].with \in valid' \cup {None}
  <2>1. k \in Writers \ {l}
    BY <1>2 DEF Writers
  <2>2. /\ Refreshing(k) /\ http'[FirstTab][k].with = http[FirstTab][k].with
        /\ http[FirstTab][k].answer = None
    BY <1>2, <2>1 DEF Calm
  <2>3. QED
    BY <2>2 DEF CookiesHold
<1>3. ASSUME NEW k \in Writers, Brings(k)'
      PROVE  Brings(k) /\ Brought(k)' = Brought(k) /\ Brought(k)' \in valid'
  <2>1. Brings(k) /\ http'[FirstTab][k].given = http[FirstTab][k].given
    BY <1>3 DEF Calm
  <2>2. QED
    BY <2>1 DEF CookiesHold, Brought, Writers
<1>4. ASSUME Brings("login")'
      PROVE  /\ jar' # Brought("login")'
             /\ \A k \in {"boot", "refresh"} :
                  /\ Refreshing(k)' => http'[FirstTab][k].with # Brought("login")'
                  /\ Brings(k)' => Brought(k)' # Brought("login")'
  <2>1. Brings("login") /\ Brought("login")' = Brought("login") /\ l # "login"
    BY <1>3, <1>4 DEF Writers
  <2>2. l \in {"boot", "refresh"} /\ jar' # Brought("login")'
    BY <2>1 DEF CookiesHold, Writers
  <2>3. ASSUME NEW k \in {"boot", "refresh"}, Refreshing(k)'
        PROVE  http'[FirstTab][k].with # Brought("login")'
    <3>1. k \in Writers \ {l}
      BY <2>3 DEF Writers
    <3>2. Refreshing(k) /\ http'[FirstTab][k].with = http[FirstTab][k].with
      BY <2>3, <3>1 DEF Calm
    <3>3. QED
      BY <2>1, <3>2 DEF CookiesHold
  <2>4. ASSUME NEW k \in {"boot", "refresh"}, Brings(k)'
        PROVE  Brought(k)' # Brought("login")'
    <3>1. Brings(k) /\ Brought(k)' = Brought(k)
      BY <1>3, <2>4 DEF Writers
    <3>2. QED
      BY <2>1, <3>1 DEF CookiesHold
  <2>5. QED
    BY <2>2, <2>3, <2>4
<1>5. QED
  BY <1>1, <1>2, <1>3, <1>4 DEF CookiesHold, Writers

\* Lane l asks for a refresh with the cookie, which is in force.
LEMMA CookieAsked ==
  ASSUME Typed, CookiesHold, NEW l \in {"boot", "refresh"}, jar' = jar, jar # None => jar \in valid,
         UNCHANGED <<valid, replayed>>, http'[FirstTab][l].answer = None,
         http'[FirstTab][l].with = jar, \A k \in Writers \ {l} : Calm(k)
  PROVE  CookiesHold'
<1>1. ~Brings(l)' /\ ~replayed' /\ (jar' # None => jar' \in valid')
  BY NoneIsNothing DEF Brings, CookiesHold
<1>2. ASSUME NEW k \in {"boot", "refresh"}, Refreshing(k)', http'[FirstTab][k].answer = None
      PROVE  http'[FirstTab][k].with \in valid' \cup {None}
  <2>1. CASE k = l
    BY <2>1
  <2>2. CASE k # l
    <3>1. k \in Writers \ {l}
      BY <2>2 DEF Writers
    <3>2. /\ Refreshing(k) /\ http'[FirstTab][k].with = http[FirstTab][k].with
          /\ http[FirstTab][k].answer = None
      BY <1>2, <3>1 DEF Calm
    <3>3. QED
      BY <3>2 DEF CookiesHold
  <2>3. QED
    BY <2>1, <2>2
<1>3. ASSUME NEW k \in Writers, Brings(k)'
      PROVE  k # l /\ Brings(k) /\ Brought(k)' = Brought(k) /\ Brought(k)' \in valid'
  <2>1. k # l
    BY <1>1, <1>3
  <2>2. Brings(k) /\ http'[FirstTab][k].given = http[FirstTab][k].given
    BY <1>3, <2>1 DEF Calm
  <2>3. QED
    BY <2>1, <2>2 DEF CookiesHold, Brought, Writers
<1>4. ASSUME Brings("login")'
      PROVE  /\ jar' # Brought("login")'
             /\ \A k \in {"boot", "refresh"} :
                  /\ Refreshing(k)' => http'[FirstTab][k].with # Brought("login")'
                  /\ Brings(k)' => Brought(k)' # Brought("login")'
  <2>1. Brings("login") /\ Brought("login")' = Brought("login")
    BY <1>3, <1>4 DEF Writers
  <2>2. jar # Brought("login") /\ jar' # Brought("login")'
    BY <2>1 DEF CookiesHold
  <2>3. ASSUME NEW k \in {"boot", "refresh"}, Refreshing(k)'
        PROVE  http'[FirstTab][k].with # Brought("login")'
    <3>1. CASE k = l
      BY <2>1, <2>2, <3>1
    <3>2. CASE k # l
      <4>1. k \in Writers \ {l}
        BY <3>2 DEF Writers
      <4>2. Refreshing(k) /\ http'[FirstTab][k].with = http[FirstTab][k].with
        BY <2>3, <4>1 DEF Calm
      <4>3. QED
        BY <2>1, <4>2 DEF CookiesHold
    <3>3. QED
      BY <3>1, <3>2
  <2>4. ASSUME NEW k \in {"boot", "refresh"}, Brings(k)'
        PROVE  Brought(k)' # Brought("login")'
    <3>1. Brings(k) /\ Brought(k)' = Brought(k)
      BY <1>3, <2>4 DEF Writers
    <3>2. QED
      BY <2>1, <3>1 DEF CookiesHold
  <2>5. QED
    BY <2>2, <2>3, <2>4
<1>5. QED
  BY <1>1, <1>2, <1>3, <1>4 DEF CookiesHold, Writers

-----------------------------------------------------------------------------
(* The cookie under every step *)

LEMMA Unexcused ==
  ASSUME OnePresents
  PROVE  /\ "tabs" \notin faults /\ "lose" \notin faults
         /\ "coded" \in faults => "act" \notin faults /\ "out" \notin faults /\ "fail" \notin faults
BY DEF OnePresents, Meets

LEMMA WritersAre ==
  /\ Writers \subseteq Lanes /\ "boot" \in Writers /\ "refresh" \in Writers /\ "login" \in Writers
  /\ FirstTab \in Tabs
BY LanesAre, TabAssumption DEF Writers

LEMMA CookiesWhenRefreshServed ==
  ASSUME Typed, OnePresents, CookiesHold, SilentAgrees, NEW l \in Lanes, ServeRefresh(FirstTab, l)
  PROVE  CookiesHold'
<1>0. "lose" \notin faults /\ FirstTab \in Tabs /\ WebTypeOK /\ ExchangesAgree /\ "error" # "ok"
  BY Unexcused, TabAssumption DEF Typed
<1>1. /\ Refreshing(l) /\ l \in {"boot", "refresh"} /\ l \in Writers
      /\ http[FirstTab][l].with \in Cookies \cup {None}
  <2>1. http[FirstTab][l].at = "refresh"
    BY DEF ServeRefresh, Asked
  <2>2. QED
    BY <2>1, RefreshLanes DEF Refreshing, Writers
<1>2. PICK a \in Answers, g \in Credentials \cup {None} :
        /\ Told(FirstTab, l, a, g)
        /\ \/ /\ http[FirstTab][l].with \in valid /\ MayIssue /\ UNCHANGED replayed
              /\ valid' = (Remembered(valid) \ {http[FirstTab][l].with}) \cup {Cookie(FreshNumber)}
              /\ a = "ok" /\ g = Access("self", FreshNumber)
           \/ /\ http[FirstTab][l].with \notin valid /\ UNCHANGED valid
              /\ replayed' = (replayed \/ http[FirstTab][l].with # None)
              /\ a # "ok"
  BY <1>0, RefreshServed
<1>3. /\ http'[FirstTab][l].at = "refresh" /\ http'[FirstTab][l].answer = a
      /\ http'[FirstTab][l].given = g /\ http'[FirstTab][l].with = http[FirstTab][l].with
      /\ \A k \in Lanes : k # l => http'[FirstTab][k] = http[FirstTab][k]
  BY <1>0, <1>1, <1>2, ToldFields DEF Refreshing
<1>4. http[FirstTab][l].answer = None /\ jar' = jar /\ Refreshing(l)'
  BY <1>2, <1>3 DEF Told, Refreshing
<1>5. ASSUME NEW k \in {"boot", "refresh"}, k # l
      PROVE  ~Refreshing(k) /\ ~Refreshing(k)' /\ ~Brings(k) /\ ~Brings(k)'
  <2>1. ~Refreshing(k) /\ k \in Lanes
    BY <1>1, <1>5, OneRefreshes, LanesAre
  <2>2. ~Refreshing(k)'
    BY <1>3, <1>5, <2>1 DEF Refreshing
  <2>3. ~Brings(k)
    BY <1>5, <2>1, BringsWhat
  <2>4. ~Brings(k)'
    BY <1>3, <1>5, <2>1, <2>3 DEF Brings
  <2>5. QED
    BY <2>1, <2>2, <2>3, <2>4
<1>6. ASSUME Brings("login")'
      PROVE  Brings("login") /\ Brought("login")' = Brought("login")
  BY <1>1, <1>3, <1>6, LanesAre DEF Brings, Brought
<1>7. CASE /\ http[FirstTab][l].with \in valid /\ MayIssue /\ UNCHANGED replayed
           /\ valid' = (Remembered(valid) \ {http[FirstTab][l].with}) \cup {Cookie(FreshNumber)}
           /\ a = "ok" /\ g = Access("self", FreshNumber)
  <2>1. FreshNumber \in 1 .. LastToken /\ FreshNumber \notin HeldNumbers
    BY <1>7, FreshIsFree
  <2>2. g.n = FreshNumber /\ Cookie(FreshNumber).n = FreshNumber
    BY <1>7, <2>1, TokenFields
  <2>3. Brings(l)' /\ Brought(l)' = Cookie(FreshNumber) /\ Brought(l)' \in valid'
    BY <1>3, <1>7, <2>2 DEF Brings, Brought
  <2>4. ~replayed'
    BY <1>7 DEF CookiesHold
  <2>5. ASSUME NEW k \in {"boot", "refresh"}, Refreshing(k)', http'[FirstTab][k].answer = None
        PROVE  http'[FirstTab][k].with \in valid' \cup {None}
    BY <1>3, <1>5, <1>7, <2>5, NoneIsNothing
  <2>6. ASSUME Brings("login")'
        PROVE  /\ Brought("login")' \in valid' /\ jar' # Brought("login")'
               /\ \A k \in {"boot", "refresh"} :
                    /\ Refreshing(k)' => http'[FirstTab][k].with # Brought("login")'
                    /\ Brings(k)' => Brought(k)' # Brought("login")'
    <3>1. PICK b : b = Brought("login")
      OBVIOUS
    <3>2. b \in valid /\ b.n \in HeldNumbers /\ jar # b /\ http[FirstTab][l].with # b
      BY <1>1, <1>6, <2>6, <3>1, BringsWhat DEF CookiesHold
    <3>3. b \in valid' /\ jar' # b /\ b # Cookie(FreshNumber) /\ Brought("login")' = b
      BY <1>4, <1>6, <1>7, <2>1, <2>2, <2>6, <3>1, <3>2, HeldIsRemembered
    <3>4. \A k \in {"boot", "refresh"} : Refreshing(k)' => http'[FirstTab][k].with # b
      BY <1>3, <1>5, <3>2
    <3>5. \A k \in {"boot", "refresh"} : Brings(k)' => Brought(k)' # b
      BY <1>5, <2>3, <3>3
    <3>6. QED
      BY <3>3, <3>4, <3>5
  <2>7. \A k \in {"boot", "refresh", "login"} : Brings(k)' => Brought(k)' \in valid'
    BY <1>5, <2>3, <2>6
  <2>8. jar' # None => jar' \in valid' \/ \E k \in {"boot", "refresh"} : Refreshing(k)' /\ Brings(k)'
    BY <1>1, <1>4, <2>3
  <2>9. QED
    BY <2>4, <2>5, <2>6, <2>7, <2>8 DEF CookiesHold
<1>8. CASE /\ http[FirstTab][l].with \notin valid /\ UNCHANGED valid
           /\ replayed' = (replayed \/ http[FirstTab][l].with # None)
           /\ a # "ok"
  <2>1. http[FirstTab][l].with = None
    BY <1>1, <1>4, <1>8 DEF CookiesHold
  <2>2. ~replayed'
    BY <1>8, <2>1 DEF CookiesHold
  <2>3. \A k \in Writers : Calm(k) /\ Lasts(k)
    BY <1>2, <1>8, ToldIsCalm
  <2>4. QED
    BY <1>4, <1>8, <2>2, <2>3, CookiesStay, Zenon DEF Lasts, Writers
<1>9. QED
  BY <1>2, <1>7, <1>8

LEMMA CookiesWhenLoggedIn ==
  ASSUME Typed, OnePresents, CookiesHold, ServeLogin(FirstTab)
  PROVE  CookiesHold'
<1>0. "lose" \notin faults /\ FirstTab \in Tabs /\ WebTypeOK /\ ExchangesAgree /\ "login" \in Lanes
  BY Unexcused, TabAssumption, LanesAre DEF Typed
<1>1. /\ http[FirstTab]["login"].at = "login" /\ MayIssue /\ UNCHANGED replayed
      /\ valid' = Remembered(valid) \cup {Cookie(FreshNumber)}
  BY <1>0, LoginServed
<1>2. PICK a \in Answers, g \in Credentials \cup {None} :
        Told(FirstTab, "login", a, g) /\ a = "ok" /\ g = Access("self", FreshNumber)
  BY <1>0, LoginServed
<1>3. /\ http'[FirstTab]["login"].at = "login" /\ http'[FirstTab]["login"].answer = "ok"
      /\ http'[FirstTab]["login"].given = g /\ jar' = jar
      /\ \A k \in Lanes : k # "login" => http'[FirstTab][k] = http[FirstTab][k]
  BY <1>0, <1>1, <1>2, ToldFields DEF Told
<1>4. FreshNumber \in 1 .. LastToken /\ FreshNumber \notin HeldNumbers
  BY <1>1, FreshIsFree
<1>5. g.n = FreshNumber /\ Cookie(FreshNumber).n = FreshNumber /\ Cookie(FreshNumber) \in Cookies
  BY <1>2, <1>4, TokenFields
<1>6. Brought("login")' = Cookie(FreshNumber)
  BY <1>3, <1>5 DEF Brought
<1>7. ASSUME NEW k \in {"boot", "refresh"}
      PROVE  /\ k \in Lanes /\ http'[FirstTab][k] = http[FirstTab][k]
             /\ (Refreshing(k)' <=> Refreshing(k)) /\ (Brings(k)' <=> Brings(k))
             /\ Brought(k)' = Brought(k)
  BY <1>3, LanesAre DEF Refreshing, Brings, Brought
<1>8. \A x \in valid : x.n \in HeldNumbers => x \in valid'
  BY <1>1, HeldIsRemembered
<1>9. jar' # None => jar' \in valid' \/ \E k \in {"boot", "refresh"} : Refreshing(k)' /\ Brings(k)'
  <2>1. CASE jar # None /\ jar \in valid
    BY <1>0, <1>3, <1>8, <2>1, HeldAre
  <2>2. CASE jar # None /\ jar \notin valid
    <3>1. PICK k \in {"boot", "refresh"} : Refreshing(k) /\ Brings(k)
      BY <2>2 DEF CookiesHold
    <3>2. QED
      BY <1>7, <3>1
  <2>3. QED
    BY <1>3, <2>1, <2>2
<1>10. ASSUME NEW k \in {"boot", "refresh"}, Refreshing(k)', http'[FirstTab][k].answer = None
       PROVE  http'[FirstTab][k].with \in valid' \cup {None}
  <2>1. http[FirstTab][k].with \in valid \cup {None}
    BY <1>7, <1>10 DEF CookiesHold
  <2>2. http[FirstTab][k].with # None => http[FirstTab][k].with.n \in HeldNumbers
    BY <1>0, <1>7, HeldAre
  <2>3. QED
    BY <1>7, <1>8, <2>1, <2>2
<1>11. ASSUME NEW k \in {"boot", "refresh"}, Brings(k)'
       PROVE  Brought(k)' \in valid' /\ Brought(k)' # Cookie(FreshNumber)
  <2>1. Brought(k) \in valid /\ Brought(k).n \in HeldNumbers
    BY <1>7, <1>11, BringsWhat DEF CookiesHold
  <2>2. QED
    BY <1>4, <1>5, <1>7, <1>8, <2>1
<1>12. jar' # Cookie(FreshNumber)
  BY <1>0, <1>3, <1>4, <1>5, NoneIsNothing, HeldAre
<1>13. ASSUME NEW k \in {"boot", "refresh"}
       PROVE  http'[FirstTab][k].with # Cookie(FreshNumber)
  <2>1. http[FirstTab][k].with # None => http[FirstTab][k].with.n \in HeldNumbers
    BY <1>0, <1>7, HeldAre
  <2>2. QED
    BY <1>4, <1>5, <1>7, <2>1, NoneIsNothing
<1>14. \A k \in {"boot", "refresh", "login"} : Brings(k)' => Brought(k)' \in valid'
  BY <1>1, <1>6, <1>11
<1>15. ~replayed'
  BY <1>1 DEF CookiesHold
<1>16. QED
  BY <1>6, <1>9, <1>10, <1>11, <1>12, <1>13, <1>14, <1>15 DEF CookiesHold

LEMMA CookiesWhenServed ==
  ASSUME Typed, OnePresents, CookiesHold, SilentAgrees, NEW l \in Lanes,
         Serve(FirstTab, l) \/ Fail(FirstTab, l)
  PROVE  CookiesHold'
<1>0. /\ WebTypeOK /\ ExchangesAgree /\ FirstTab \in Tabs /\ ~replayed /\ jar' = jar
      /\ "start" \in Lanes /\ "logout" \in Lanes /\ "error" # "ok" /\ "error" \in Answers
  BY Served, TabAssumption, LanesAre DEF Typed, CookiesHold, Answers
<1>1. ASSUME NEW k \in Lanes, NEW a \in Answers, NEW g \in Credentials \cup {None},
             Told(FirstTab, k, a, g), a # "ok" \/ http[FirstTab][k].at \notin {"refresh", "login"},
             UNCHANGED replayed, valid' \in {valid, Remembered(valid)}
      PROVE  CookiesHold'
  <2>1. \A j \in Writers : Calm(j) /\ Lasts(j)
    BY <1>1, ToldIsCalm
  <2>2. \A x \in valid : x.n \in HeldNumbers => x \in valid'
    BY <1>1, HeldIsRemembered
  <2>3. ~replayed' /\ jar' \in {None, jar}
    BY <1>0, <1>1
  <2>4. QED
    BY <2>1, <2>2, <2>3, CookiesStay, Zenon DEF Lasts, Writers
<1>2. CASE ServeRefresh(FirstTab, l)
  BY <1>2, CookiesWhenRefreshServed
<1>3. CASE l = "login" /\ ServeLogin(FirstTab)
  BY <1>3, CookiesWhenLoggedIn
<1>4. CASE ServeRead(FirstTab, l)
  <2>1. http[FirstTab][l].at \in {"me", "query"} /\ UNCHANGED <<valid, replayed>>
    BY <1>0, <1>4, ReadServed
  <2>2. PICK a \in Answers, g \in Credentials \cup {None} : Told(FirstTab, l, a, g)
    BY <1>0, <1>4, ReadServed
  <2>3. QED
    BY <1>1, <2>1, <2>2
<1>5. CASE l = "start" /\ ServeStart(FirstTab)
  <2>1. /\ http[FirstTab]["start"].at = "start" /\ UNCHANGED replayed
        /\ valid' \in {valid, Remembered(valid)}
    BY <1>0, <1>5, StartServed
  <2>2. PICK a \in Answers, g \in Credentials \cup {None} : Told(FirstTab, "start", a, g)
    BY <1>0, <1>5, StartServed
  <2>3. QED
    BY <1>0, <1>1, <2>1, <2>2
<1>6. CASE ServeStop(FirstTab, l)
  <2>1. http[FirstTab][l].at = "stop" /\ UNCHANGED <<valid, replayed>>
    BY <1>0, <1>6, StopServed
  <2>2. PICK a \in Answers, g \in Credentials \cup {None} : Told(FirstTab, l, a, g)
    BY <1>0, <1>6, StopServed
  <2>3. QED
    BY <1>1, <2>1, <2>2
<1>7. CASE l = "logout" /\ ServeLogout(FirstTab)
  <2>1. http[FirstTab]["logout"].at = "logout" /\ UNCHANGED <<valid, replayed>>
    BY <1>0, <1>7, LogoutServed
  <2>2. PICK a \in Answers : Told(FirstTab, "logout", a, None)
    BY <1>0, <1>7, LogoutServed
  <2>3. QED
    BY <1>0, <1>1, <2>1, <2>2
<1>8. CASE Fail(FirstTab, l)
  <2>1. UNCHANGED <<valid, replayed>>
    BY <1>0, <1>8, FailServed
  <2>2. PICK g \in Credentials \cup {None} : Told(FirstTab, l, "error", g)
    BY <1>0, <1>8, FailServed
  <2>3. QED
    BY <1>0, <1>1, <2>1, <2>2
<1>9. QED
  BY <1>2, <1>3, <1>4, <1>5, <1>6, <1>7, <1>8 DEF Serve

\* Steps of the browser that leave the cookie and its writers alone.
LEMMA CookiesUntouched ==
  ASSUME Typed, CookiesHold, UNCHANGED <<valid, replayed>>, jar' \in {None, jar},
         \A l \in Writers : Calm(l) /\ Lasts(l)
  PROVE  CookiesHold'
<1>1. ~replayed' /\ \A x \in valid : x.n \in HeldNumbers => x \in valid'
  BY DEF CookiesHold
<1>2. QED
  BY <1>1, CookiesStay, Zenon DEF Lasts, Writers

\* The same when one lane is heard of.
LEMMA CookiesBesideLane ==
  ASSUME Typed, CookiesHold, UNCHANGED <<valid, replayed>>, jar' \in {None, jar}, NEW k \in Lanes,
         ~Refreshing(k)', ~Brings(k)', ~(Refreshing(k) /\ Brings(k)),
         \A l \in Lanes : l # k => http'[FirstTab][l] = http[FirstTab][l]
  PROVE  CookiesHold'
<1>1. ASSUME NEW l \in Writers
      PROVE  Calm(l) /\ Lasts(l)
  BY WritersAre, SameIsCalm, OthersAreCalm
<1>2. QED
  BY <1>1, CookiesUntouched

LEMMA RestsAreQuiet ==
  ASSUME NEW l, http'[FirstTab][l] = NoExchange
  PROVE  ~Refreshing(l)' /\ ~Brings(l)'
BY NoExchangeFields DEF Refreshing, Brings

LEMMA CookiesWhenStarted ==
  ASSUME Typed, OnePresents, CookiesHold, UserActs(FirstTab)
  PROVE  CookiesHold'
<1>1. SameServer /\ jar' = jar /\ Starts(FirstTab)
  BY UserStarts, TabAssumption
<1>2. PICK k \in Lanes, at \in {"login", "logout", "start", "stop", "query"} :
        \E with, own : LaneAsks(FirstTab, k, at, with, own) /\ k \notin {"boot", "refresh"}
  <2>1. {"login", "logout", "start", "stop", "menu"} \subseteq Lanes \ {"boot", "refresh"}
    BY LanesAre
  <2>2. \A q \in Queries : q \in Lanes \ {"boot", "refresh"}
    BY LanesAre
  <2>3. QED
    BY <1>1, <2>1, <2>2, Zenon DEF Starts
<1>3. /\ http'[FirstTab][k].at = at /\ http'[FirstTab][k].answer = None
      /\ \A l \in Lanes : l # k => http'[FirstTab][l] = http[FirstTab][l]
  BY <1>2 DEF LaneAsks
<1>4. ~Refreshing(k)' /\ ~Brings(k)'
  BY <1>3, NoneIsNothing DEF Refreshing, Brings
<1>5. ~Refreshing(k)
  BY <1>2, RefreshLanes
<1>6. QED
  BY <1>1, <1>3, <1>4, <1>5, CookiesBesideLane DEF SameServer

LEMMA CookiesWhenLoaded ==
  ASSUME Typed, OnePresents, CookiesHold, FlowsAgree, SilentAgrees, Load(FirstTab)
  PROVE  CookiesHold'
<1>1. /\ SameServer /\ jar' = jar /\ FirstTab \in leaving
      /\ http'[FirstTab]["boot"].with = jar /\ http'[FirstTab]["boot"].answer = None
      /\ \A l \in Lanes \ {"boot"} : http'[FirstTab][l] = NoExchange
  BY LoadFacts, TabAssumption, Unexcused DEF Handles
<1>2. "coded" \notin faults
  BY <1>1 DEF SilentAgrees, SilentHolds
<1>3. ~Refreshing("boot") /\ ~Refreshing("refresh")
  <2>1. ~Booting(FirstTab)
    BY <1>1, <1>2, TabAssumption DEF FlowsAgree, FlowsAt
  <2>2. QED
    BY <1>2, <2>1, RefreshLanes, LanesAre DEF Booting, Refreshing
<1>4. jar # None => jar \in valid
  BY <1>3 DEF CookiesHold
<1>5. ASSUME NEW k \in Writers \ {"boot"}
      PROVE  Calm(k)
  BY <1>1, WritersAre, RestsAreQuiet, OthersAreCalm
<1>6. QED
  BY <1>1, <1>4, <1>5, CookieAsked DEF SameServer

LEMMA CookiesWhenStopped ==
  ASSUME Typed, OnePresents, CookiesHold, FlowsAgree, SilentAgrees, Stopped(FirstTab)
  PROVE  CookiesHold'
<1>0. "stop" \in Lanes /\ "stop" \in Flows /\ "stop" \notin Writers /\ FirstTab \in Tabs
  BY LanesAre, TabAssumption DEF Flows, Writers
<1>1. SameServer /\ jar' = jar /\ http[FirstTab]["stop"].at = "stop"
  BY <1>0, StoppedFacts DEF Handles
<1>2. CASE LaneRests(FirstTab, "stop")
  <2>1. ~Refreshing("stop")
    BY <1>1 DEF Refreshing
  <2>2. QED
    BY <1>0, <1>1, <1>2, <2>1, RestsAreQuiet, CookiesBesideLane DEF LaneRests, SameServer
<1>3. CASE /\ http'[FirstTab]["boot"].with = jar /\ http'[FirstTab]["boot"].answer = None
           /\ \A l \in Lanes \ {"stop", "boot"} : http'[FirstTab][l] = http[FirstTab][l]
  <2>1. "coded" \notin faults
    BY <1>1, NoExchangeFields DEF SilentAgrees, SilentHolds
  <2>2. ~Booting(FirstTab)
    BY <1>0, <1>1 DEF FlowsAgree, FlowsAt, Busy
  <2>3. ~Refreshing("boot") /\ ~Refreshing("refresh")
    BY <2>1, <2>2, RefreshLanes, LanesAre DEF Booting, Refreshing
  <2>4. jar # None => jar \in valid
    BY <2>3 DEF CookiesHold
  <2>5. ASSUME NEW k \in Writers \ {"boot"}
        PROVE  Calm(k)
    BY <1>0, <1>3, WritersAre, SameIsCalm
  <2>6. QED
    BY <1>1, <1>3, <2>4, <2>5, CookieAsked DEF SameServer
<1>4. QED
  BY <1>0, <1>2, <1>3, StoppedFacts

LEMMA CookiesWhenAwaited ==
  ASSUME Typed, OnePresents, CookiesHold, SilentAgrees, NEW k \in Lanes, AwaitRefresh(FirstTab, k)
  PROVE  CookiesHold'
<1>0. FirstTab \in Tabs
  BY TabAssumption
<1>1. /\ SameServer /\ jar' = jar /\ "coded" \in faults /\ k # "refresh"
      /\ http[FirstTab][k].at \in WithBearer /\ http[FirstTab][k].answer = "expired"
      /\ http'[FirstTab][k].answer = "await"
      /\ http'[FirstTab][k].at = http[FirstTab][k].at
      /\ \A l \in Lanes \ {"refresh", k} : http'[FirstTab][l] = http[FirstTab][l]
  BY <1>0, AwaitFacts DEF Handles
<1>2. ~Refreshing(k)' /\ ~Refreshing(k) /\ ~Brings(k)' /\ ~Brings(k)
  BY <1>1 DEF Refreshing, Brings, WithBearer
<1>3. ASSUME NEW l \in Writers \ {"refresh"}
      PROVE  Calm(l) /\ Lasts(l)
  <2>1. l = k \/ http'[FirstTab][l] = http[FirstTab][l]
    BY <1>1, WritersAre
  <2>2. QED
    BY <1>2, <2>1, SameIsCalm, OthersAreCalm
<1>4. CASE http'[FirstTab]["refresh"] = http[FirstTab]["refresh"]
  <2>1. Calm("refresh") /\ Lasts("refresh")
    BY <1>4, SameIsCalm
  <2>2. QED
    BY <1>1, <1>3, <2>1, CookiesUntouched DEF SameServer
<1>5. CASE /\ http[FirstTab]["refresh"].at # "refresh" /\ http'[FirstTab]["refresh"].with = jar
           /\ http'[FirstTab]["refresh"].answer = None
  <2>1. ~Refreshing("refresh")
    BY <1>5 DEF Refreshing
  <2>2. ~Refreshing("boot")
    <3>1. SUFFICES ASSUME Refreshing("boot")
                   PROVE  FALSE
      OBVIOUS
    <3>2. /\ \A l \in {"start", "stop", "menu", "logout"} : http[FirstTab][l] = NoExchange
          /\ \A q \in Queries : http[FirstTab][q] = NoExchange
      BY <1>1, <3>1 DEF SilentAgrees, SilentHolds
    <3>3. k \in {"boot", "login"}
      BY <1>1, <3>2, LanesAre, NoExchangeFields DEF WithBearer
    <3>4. k = "login" => http[FirstTab][k].at \in {"idle", "login"}
      BY <1>0, ServerTypes, LanesAre DEF ExchangeAgrees
    <3>5. QED
      BY <1>1, <1>2, <3>1, <3>3, <3>4 DEF WithBearer
  <2>3. jar # None => jar \in valid
    BY <2>1, <2>2 DEF CookiesHold
  <2>4. QED
    BY <1>1, <1>3, <1>5, <2>3, CookieAsked DEF SameServer
<1>6. QED
  BY <1>0, <1>4, <1>5, AwaitFacts

\* What a refresh or a login brings becomes the cookie.
LEMMA CookiesWhenBrought ==
  ASSUME Typed, OnePresents, CookiesHold, SilentAgrees,
         Refreshed(FirstTab) \/ BootRefreshed(FirstTab) \/ LoggedIn(FirstTab)
  PROVE  CookiesHold'
<1>0. FirstTab \in Tabs /\ "login" \in Lanes /\ "boot" \in Lanes /\ "refresh" \in Lanes
  BY LanesAre, TabAssumption
<1>1. CASE Refreshed(FirstTab)
  <2>1. /\ SameServer /\ Refreshing("refresh") /\ Brings("refresh")
        /\ http'[FirstTab]["refresh"] = NoExchange
    BY <1>0, <1>1, RefreshedFacts DEF Handles, Refreshing, Brings
  <2>2. /\ jar' = Brought("refresh")
        /\ \A l \in Lanes \ {"refresh"} :
             \/ http'[FirstTab][l] = http[FirstTab][l]
             \/ /\ http[FirstTab][l].answer = "await" /\ http'[FirstTab][l].answer = None
                /\ http'[FirstTab][l].at = http[FirstTab][l].at
    BY <1>0, <1>1, RefreshedFacts DEF Brought
  <2>3. ASSUME NEW l \in Writers \ {"refresh"}
        PROVE  Calm(l)
    <3>1. CASE http'[FirstTab][l] = http[FirstTab][l]
      BY <3>1, SameIsCalm
    <3>2. CASE /\ http[FirstTab][l].answer = "await" /\ http'[FirstTab][l].answer = None
               /\ http'[FirstTab][l].at = http[FirstTab][l].at
      <4>1. http[FirstTab][l].at \in WithBearer
        BY <1>0, <3>2, ServerTypes, WritersAre DEF ExchangeAgrees
      <4>2. ~Refreshing(l)' /\ ~Brings(l)'
        BY <3>2, <4>1, NoneIsNothing DEF Refreshing, Brings, WithBearer
      <4>3. QED
        BY <4>2, OthersAreCalm
    <3>3. QED
      BY <2>2, <3>1, <3>2, WritersAre
  <2>4. ~Refreshing("refresh")' /\ ~Brings("refresh")'
    BY <2>1, RestsAreQuiet
  <2>5. QED
    BY <2>1, <2>2, <2>3, <2>4, CookieBrought, WritersAre DEF SameServer
<1>2. CASE BootRefreshed(FirstTab)
  <2>1. SameServer /\ Refreshing("boot") /\ Brings("boot")
    BY <1>0, <1>2, BootRefreshedFacts DEF Handles, Refreshing, Brings
  <2>2. /\ jar' = Brought("boot") /\ http'[FirstTab]["boot"].at = "me"
        /\ \A l \in Lanes \ {"boot"} : http'[FirstTab][l] = http[FirstTab][l]
    BY <1>0, <1>2, BootRefreshedFacts DEF Brought, LaneAsks
  <2>3. ASSUME NEW l \in Writers \ {"boot"}
        PROVE  Calm(l)
    BY <2>2, SameIsCalm, WritersAre
  <2>4. ~Refreshing("boot")' /\ ~Brings("boot")'
    BY <2>2 DEF Refreshing, Brings
  <2>5. QED
    BY <2>1, <2>2, <2>3, <2>4, CookieBrought, WritersAre DEF SameServer
<1>3. CASE LoggedIn(FirstTab)
  <2>1. SameServer /\ LaneRests(FirstTab, "login") /\ http[FirstTab]["login"].at = "login"
    BY <1>0, <1>3, LoggedInFacts DEF Handles
  <2>2. ~Refreshing("login")' /\ ~Brings("login")' /\ ~Refreshing("login")
    BY <2>1, RestsAreQuiet DEF LaneRests, Refreshing
  <2>3. ASSUME NEW l \in Writers \ {"login"}
        PROVE  Calm(l)
    BY <2>1, SameIsCalm, WritersAre DEF LaneRests
  <2>4. CASE jar' = jar
    BY <1>0, <2>1, <2>2, <2>4, CookiesBesideLane DEF LaneRests, SameServer
  <2>5. CASE http[FirstTab]["login"].answer = "ok" /\ jar' = Brought("login")
    <3>1. Brings("login")
      BY <2>1, <2>5 DEF Brings
    <3>2. QED
      BY <2>1, <2>2, <2>3, <2>5, <3>1, CookieBrought, WritersAre DEF SameServer
  <2>6. QED
    BY <1>0, <1>3, <2>4, <2>5, LoggedInFacts DEF Brought
<1>4. QED
  BY <1>1, <1>2, <1>3

\* What the other answers are for leaves the cookie alone, or drops it.
LEMMA CookiesWhenAnswered ==
  ASSUME Typed, CookiesHold, SilentAgrees, OnePresents,
         \/ FailRefresh(FirstTab) \/ BootKnows(FirstTab) \/ BootFailed(FirstTab)
         \/ LoggedOut(FirstTab) \/ Started(FirstTab) \/ StartKnows(FirstTab)
         \/ MenuStopped(FirstTab) \/ MenuKnows(FirstTab)
         \/ \E q \in Queries : QueryAnswered(FirstTab, q)
  PROVE  CookiesHold'
<1>0. /\ FirstTab \in Tabs /\ None # "ok"
      /\ "boot" \in Lanes /\ "refresh" \in Lanes /\ "logout" \in Lanes /\ "start" \in Lanes
      /\ "menu" \in Lanes /\ Queries \subseteq Lanes
  BY LanesAre, TabAssumption, NoneIsNothing
<1>1. ASSUME NEW k \in Lanes, SameServer, jar' \in {None, jar}, LaneRests(FirstTab, k),
             ~(Refreshing(k) /\ Brings(k))
      PROVE  CookiesHold'
  BY <1>1, RestsAreQuiet, CookiesBesideLane DEF LaneRests, SameServer
<1>2. CASE FailRefresh(FirstTab)
  <2>1. /\ "coded" \in faults /\ http[FirstTab]["refresh"].at = "refresh"
        /\ http[FirstTab]["refresh"].answer \notin {None, "ok"}
    BY <1>0, <1>2, FailRefreshFacts
  <2>2. QED
    BY <2>1 DEF SilentAgrees, SilentHolds, Refreshing
<1>3. CASE BootKnows(FirstTab)
  <2>1. /\ SameServer /\ jar' = jar /\ LaneRests(FirstTab, "boot")
        /\ http[FirstTab]["boot"].at = "me"
    BY <1>0, <1>3, BootKnowsFacts DEF Handles
  <2>2. QED
    BY <1>0, <1>1, <2>1 DEF Refreshing
<1>4. CASE BootFailed(FirstTab)
  <2>1. /\ SameServer /\ jar' = jar /\ LaneRests(FirstTab, "boot")
        /\ http[FirstTab]["boot"].answer # "ok"
    BY <1>0, <1>4, BootFailedFacts DEF Handles
  <2>2. QED
    BY <1>0, <1>1, <2>1 DEF Brings
<1>5. CASE LoggedOut(FirstTab)
  <2>1. /\ SameServer /\ jar' \in {None, jar} /\ LaneRests(FirstTab, "logout")
        /\ http[FirstTab]["logout"].at = "logout"
    BY <1>0, <1>5, LoggedOutFacts DEF Handles
  <2>2. QED
    BY <1>0, <1>1, <2>1 DEF Refreshing
<1>6. CASE Started(FirstTab)
  <2>1. SameServer /\ jar' = jar /\ http[FirstTab]["start"].at = "start"
    BY <1>0, <1>6, StartedFacts DEF Handles
  <2>2. CASE LaneRests(FirstTab, "start")
    BY <1>0, <1>1, <2>1, <2>2 DEF Refreshing
  <2>3. CASE \E g \in Bearers : LaneAsks(FirstTab, "start", "me", g, g)
    <3>1. ~Refreshing("start") /\ ~Refreshing("start")' /\ ~Brings("start")'
      BY <2>1, <2>3 DEF Refreshing, Brings, LaneAsks
    <3>2. \A l \in Lanes : l # "start" => http'[FirstTab][l] = http[FirstTab][l]
      BY <2>3 DEF LaneAsks
    <3>3. QED
      BY <1>0, <2>1, <3>1, <3>2, CookiesBesideLane DEF SameServer
  <2>4. QED
    BY <1>0, <1>6, <2>2, <2>3, StartedFacts
<1>7. CASE StartKnows(FirstTab)
  <2>1. /\ SameServer /\ jar' = jar /\ LaneRests(FirstTab, "start")
        /\ http[FirstTab]["start"].at = "me"
    BY <1>0, <1>7, StartKnowsFacts DEF Handles
  <2>2. QED
    BY <1>0, <1>1, <2>1 DEF Refreshing
<1>8. CASE MenuStopped(FirstTab)
  <2>1. /\ SameServer /\ jar' = jar /\ http[FirstTab]["menu"].at = "stop"
        /\ http'[FirstTab]["menu"].at \in {"ended", "me"}
        /\ \A l \in Lanes : l # "menu" => http'[FirstTab][l] = http[FirstTab][l]
    BY <1>0, <1>8, MenuStoppedFacts DEF Handles, LaneEnds, LaneAsks
  <2>2. ~Refreshing("menu") /\ ~Refreshing("menu")' /\ ~Brings("menu")'
    BY <2>1 DEF Refreshing, Brings
  <2>3. QED
    BY <1>0, <2>1, <2>2, CookiesBesideLane DEF SameServer
<1>9. CASE MenuKnows(FirstTab)
  <2>1. /\ SameServer /\ jar' = jar /\ http[FirstTab]["menu"].at = "me"
        /\ http'[FirstTab]["menu"].at = "ended"
        /\ \A l \in Lanes : l # "menu" => http'[FirstTab][l] = http[FirstTab][l]
    BY <1>0, <1>9, MenuKnowsFacts DEF Handles, LaneEnds
  <2>2. ~Refreshing("menu") /\ ~Refreshing("menu")' /\ ~Brings("menu")'
    BY <2>1 DEF Refreshing, Brings
  <2>3. QED
    BY <1>0, <2>1, <2>2, CookiesBesideLane DEF SameServer
<1>10. ASSUME NEW q \in Queries, QueryAnswered(FirstTab, q)
       PROVE  CookiesHold'
  <2>1. SameServer /\ jar' = jar /\ LaneRests(FirstTab, q) /\ q \in Lanes
    BY <1>0, <1>10, QueryFacts DEF Handles
  <2>2. ~Refreshing(q)
    BY <2>1, RefreshLanes, LanesAre
  <2>3. QED
    BY <1>1, <2>1, <2>2
<1>11. QED
  BY <1>2, <1>3, <1>4, <1>5, <1>6, <1>7, <1>8, <1>9, <1>10

LEMMA CookiesKept ==
  ASSUME Typed, OneTab, FlowsAgree, CookiesAgree, SilentAgrees, NEW t \in Tabs, Acts(t)
  PROVE  CookiesAgree'
<1>1. SUFFICES ASSUME OnePresents
               PROVE  CookiesHold'
  <2>1. faults' = faults
    BY TypesKept DEF Apart
  <2>2. OnePresents' <=> OnePresents
    BY <2>1 DEF OnePresents, Meets
  <2>3. QED
    BY <2>2 DEF CookiesAgree
<1>2. CookiesHold /\ t = FirstTab
  BY <1>1, Unexcused, OnlyFirst DEF CookiesAgree
<1>3. ASSUME NEW l \in Lanes, Serve(FirstTab, l) \/ Fail(FirstTab, l)
      PROVE  CookiesHold'
  BY <1>1, <1>2, <1>3, CookiesWhenServed
<1>4. CASE Handle(FirstTab)
  <2>1. CASE Refreshed(FirstTab) \/ BootRefreshed(FirstTab) \/ LoggedIn(FirstTab)
    BY <1>1, <1>2, <2>1, CookiesWhenBrought
  <2>2. CASE Stopped(FirstTab)
    BY <1>1, <1>2, <2>2, CookiesWhenStopped
  <2>3. ASSUME NEW l \in Lanes, AwaitRefresh(FirstTab, l)
        PROVE  CookiesHold'
    BY <1>1, <1>2, <2>3, CookiesWhenAwaited
  <2>4. CASE \/ FailRefresh(FirstTab) \/ BootKnows(FirstTab) \/ BootFailed(FirstTab)
             \/ LoggedOut(FirstTab) \/ Started(FirstTab) \/ StartKnows(FirstTab)
             \/ MenuStopped(FirstTab) \/ MenuKnows(FirstTab)
             \/ \E q \in Queries : QueryAnswered(FirstTab, q)
    BY <1>1, <1>2, <2>4, CookiesWhenAnswered
  <2>5. QED
    BY <1>4, <2>1, <2>2, <2>3, <2>4 DEF Handle
<1>5. CASE Load(FirstTab)
  BY <1>1, <1>2, <1>5, CookiesWhenLoaded
<1>6. CASE ExpireAccess(FirstTab)
  <2>1. UNCHANGED <<jar, http, valid, replayed>>
    BY <1>6, ExpireFacts, TabAssumption
  <2>2. \A l \in Writers : Calm(l) /\ Lasts(l)
    BY <2>1, SameIsCalm
  <2>3. QED
    BY <1>2, <2>1, <2>2, CookiesUntouched
<1>7. CASE UserActs(FirstTab)
  BY <1>1, <1>2, <1>7, CookiesWhenStarted
<1>8. QED
  BY <1>2, <1>3, <1>4, <1>5, <1>6, <1>7 DEF Acts

-----------------------------------------------------------------------------
(* Silent refreshes *)

Acting == {"start", "stop", "menu", "logout"}

LEMMA SilentGoesOn ==
  ASSUME SilentHolds, leaving' = leaving,
         \A l \in Acting : http'[FirstTab][l] = http[FirstTab][l],
         jar # None => jar' # None,
         Needed' => Needed \/ jar' # None,
         Refreshing("refresh")' =>
           /\ http'[FirstTab]["refresh"].with # None
           /\ http'[FirstTab]["refresh"].answer \in {None, "ok"},
         Refreshing("boot")' =>
           /\ Refreshing("boot") /\ http'[FirstTab]["refresh"] = http[FirstTab]["refresh"]
           /\ \A q \in Queries : \/ http'[FirstTab][q] = http[FirstTab][q]
                                 \/ http'[FirstTab][q] = NoExchange
  PROVE  SilentHolds'
<1>1. leaving' = {} /\ \A l \in Acting : http'[FirstTab][l] = NoExchange
  BY DEF SilentHolds, Acting
<1>2. Needed' => jar' # None
  BY DEF SilentHolds
<1>3. Refreshing("boot")' => /\ http'[FirstTab]["refresh"] = NoExchange
                             /\ \A q \in Queries : http'[FirstTab][q] = NoExchange
  BY DEF SilentHolds
<1>4. QED
  BY <1>1, <1>2, <1>3 DEF SilentHolds, Acting, NoExchange

\* The same when only lane k is heard of.
LEMMA SilentBeside ==
  ASSUME Typed, SilentHolds, leaving' = leaving, NEW k \in Lanes, k \notin Acting, k # "refresh",
         \A l \in Lanes : l # k => http'[FirstTab][l] = http[FirstTab][l],
         jar # None => jar' # None,
         Needed' => Needed \/ jar' # None,
         Refreshing("boot")' => Refreshing("boot"),
         k \in Queries /\ Refreshing("boot") => http'[FirstTab][k] = NoExchange
  PROVE  SilentHolds'
<1>0. Acting \subseteq Lanes /\ "refresh" \in Lanes /\ \A q \in Queries : q \in Lanes
  BY LanesAre DEF Acting
<1>1. \A l \in Acting : http'[FirstTab][l] = http[FirstTab][l]
  BY <1>0
<1>2. http'[FirstTab]["refresh"] = http[FirstTab]["refresh"]
  BY <1>0
<1>3. Refreshing("refresh")' =>
        /\ http'[FirstTab]["refresh"].with # None
        /\ http'[FirstTab]["refresh"].answer \in {None, "ok"}
  BY <1>2 DEF SilentHolds, Refreshing
<1>4. Refreshing("boot")' =>
        \A q \in Queries : \/ http'[FirstTab][q] = http[FirstTab][q]
                           \/ http'[FirstTab][q] = NoExchange
  BY <1>0
<1>5. QED
  BY <1>1, <1>2, <1>3, <1>4, SilentGoesOn

LEMMA SilentWhenServed ==
  ASSUME Typed, OnePresents, "coded" \in faults, CookiesHold, SilentHolds, NEW l \in Lanes,
         Serve(FirstTab, l) \/ Fail(FirstTab, l)
  PROVE  SilentHolds'
<1>0. WebTypeOK /\ ExchangesAgree /\ FirstTab \in Tabs
  BY TabAssumption DEF Typed
<1>1. ~Fail(FirstTab, l) /\ "lose" \notin faults
  BY Unexcused DEF Fail
<1>2. PICK a \in Answers, g \in Credentials \cup {None} : Told(FirstTab, l, a, g)
  BY <1>0, Served
<1>3. /\ UNCHANGED <<jar, store, leaving>> /\ http[FirstTab][l].at # "idle"
      /\ http[FirstTab][l].answer = None
      /\ http'[FirstTab][l].at = http[FirstTab][l].at /\ http'[FirstTab][l].with = http[FirstTab][l].with
      /\ \A k \in Lanes : k # l => http'[FirstTab][k] = http[FirstTab][k]
  BY <1>0, <1>2, ToldFields DEF Told
<1>4. \A k \in Lanes : http'[FirstTab][k].at = http[FirstTab][k].at
  BY <1>3
<1>5. Needed' <=> Needed
  BY <1>3, <1>4, LanesAre DEF Needed
<1>6. (Refreshing("boot")' <=> Refreshing("boot")) /\ (Refreshing("refresh")' <=> Refreshing("refresh"))
  BY <1>4, LanesAre DEF Refreshing
<1>7. l \notin Acting
  BY <1>3, NoExchangeFields DEF SilentHolds, Acting
<1>8. CASE l # "refresh"
  <2>1. l \in Queries => ~Refreshing("boot")
    BY <1>3, NoExchangeFields DEF SilentHolds
  <2>2. QED
    BY <1>3, <1>5, <1>6, <1>7, <1>8, <2>1, SilentBeside
<1>9. CASE l = "refresh"
  <2>1. Refreshing("refresh")
    BY <1>0, <1>3, <1>9, ServerTypes, LanesAre DEF ExchangeAgrees, Refreshing
  <2>2. ServeRefresh(FirstTab, "refresh")
    BY <1>1, <1>9, <2>1 DEF Serve, ServeRead, ServeStop, Asked, Refreshing
  <2>3. http[FirstTab]["refresh"].with \in valid
    BY <1>3, <1>9, <2>1 DEF CookiesHold, SilentHolds
  <2>4. \E b \in Answers, h \in Credentials \cup {None} :
          Told(FirstTab, "refresh", b, h) /\ b = "ok"
    BY <1>0, <1>1, <1>9, <2>2, <2>3, RefreshServed
  <2>5. http'[FirstTab]["refresh"].answer = "ok"
    BY <1>0, <1>9, <2>4, ToldFields
  <2>6. http'[FirstTab]["refresh"].with # None
    BY <1>3, <1>9, <2>1 DEF SilentHolds
  <2>7. ~Refreshing("boot")'
    BY <1>6, <1>3, <1>9, NoExchangeFields DEF SilentHolds
  <2>8. \A k \in Acting : http'[FirstTab][k] = http[FirstTab][k]
    BY <1>3, <1>7, LanesAre DEF Acting
  <2>9. QED
    BY <1>3, <1>5, <2>5, <2>6, <2>7, <2>8, SilentGoesOn
<1>10. QED
  BY <1>8, <1>9

LEMMA SilentWhenStarted ==
  ASSUME Typed, OnePresents, "coded" \in faults, FlowsAgree, SelfAgrees, SilentHolds,
         UserActs(FirstTab)
  PROVE  SilentHolds'
<1>0. FirstTab \in Tabs /\ "act" \notin faults /\ "out" \notin faults
  BY TabAssumption, Unexcused
<1>1. UNCHANGED <<jar, store, leaving>> /\ Starts(FirstTab) /\ ~store[FirstTab].imp
  BY <1>0, UserStarts DEF SelfAgrees, SelfAt, StoreSelf
<1>2. CASE LaneAsks(FirstTab, "login", "login", None, None)
  <2>1. /\ "login" \in Lanes /\ "login" \notin Acting /\ "login" \notin Queries
        /\ \A l \in Lanes : l # "login" => http'[FirstTab][l] = http[FirstTab][l]
    BY <1>2, LanesAre DEF LaneAsks, Acting
  <2>2. http'[FirstTab]["boot"] = http[FirstTab]["boot"]
    BY <2>1, LanesAre
  <2>3. \A q \in Queries : http'[FirstTab][q] = http[FirstTab][q]
    BY <2>1, LanesAre
  <2>4. (Needed' <=> Needed) /\ (Refreshing("boot")' <=> Refreshing("boot"))
    BY <1>1, <2>2, <2>3 DEF Needed, Refreshing
  <2>5. QED
    BY <1>1, <2>1, <2>4, SilentBeside
<1>3. ASSUME NEW q \in Queries, LaneAsks(FirstTab, q, "query", store[FirstTab].token, store[FirstTab].token),
             Shown(FirstTab)
      PROVE  SilentHolds'
  <2>1. /\ q \in Lanes /\ q \notin Acting /\ q # "boot" /\ q # "refresh"
        /\ \A l \in Lanes : l # q => http'[FirstTab][l] = http[FirstTab][l]
    BY <1>3, LanesAre DEF LaneAsks, Acting
  <2>2. ~Refreshing("boot") /\ ~Refreshing("boot")'
    BY <1>0, <1>3, <2>1, LanesAre DEF FlowsAgree, FlowsAt, Booting, Shown, Refreshing
  <2>3. jar # None
    BY <1>3 DEF SilentHolds, Needed, Shown
  <2>4. QED
    BY <1>1, <2>1, <2>2, <2>3, SilentBeside
<1>4. QED
  BY <1>0, <1>1, <1>2, <1>3 DEF Starts

LEMMA SilentWhenAwaited ==
  ASSUME Typed, SilentHolds, NEW k \in Lanes, AwaitRefresh(FirstTab, k)
  PROVE  SilentHolds'
<1>0. FirstTab \in Tabs /\ "boot" \in Lanes /\ Acting \subseteq Lanes
  BY TabAssumption, LanesAre DEF Acting
<1>1. /\ UNCHANGED <<jar, store, leaving>> /\ k # "refresh" /\ http[FirstTab][k].at \in WithBearer
      /\ http'[FirstTab][k].at = http[FirstTab][k].at
      /\ \A l \in Lanes \ {"refresh", k} : http'[FirstTab][l] = http[FirstTab][l]
  BY <1>0, AwaitFacts
<1>2. http[FirstTab][k].at # "idle" /\ http[FirstTab][k].at \notin {"refresh", "login"}
  BY <1>1 DEF WithBearer
<1>3. k \notin Acting /\ k # "login"
  <2>1. k \notin Acting
    BY <1>2, NoExchangeFields DEF SilentHolds, Acting
  <2>2. http[FirstTab][k].at \in AtsOf(k)
    BY <1>0, ServerTypes DEF ExchangeAgrees
  <2>3. QED
    BY <1>2, <2>1, <2>2, LanesAre
<1>4. k = "boot" \/ k \in Queries
  BY <1>1, <1>3, LanesAre DEF Acting
<1>5. Needed
  <2>1. CASE k = "boot"
    BY <1>0, <1>2, <2>1, ServerTypes, LanesAre DEF ExchangeAgrees, Needed
  <2>2. CASE k \in Queries
    BY <1>0, <1>2, <2>2, ServerTypes, LanesAre DEF ExchangeAgrees, Needed
  <2>3. QED
    BY <1>4, <2>1, <2>2
<1>6. jar # None /\ jar' # None
  BY <1>1, <1>5 DEF SilentHolds
<1>7. ~Refreshing("boot")'
  <2>1. CASE k = "boot"
    BY <1>1, <1>2, <2>1 DEF Refreshing
  <2>2. CASE k \in Queries
    <3>1. ~Refreshing("boot")
      BY <1>2, <2>2, NoExchangeFields DEF SilentHolds
    <3>2. k # "boot"
      BY <2>2, LanesAre
    <3>3. QED
      BY <1>0, <1>1, <3>1, <3>2 DEF Refreshing
  <2>3. QED
    BY <1>4, <2>1, <2>2
<1>8. \A l \in Acting : http'[FirstTab][l] = http[FirstTab][l]
  BY <1>0, <1>1, <1>3 DEF Acting
<1>9. Refreshing("refresh")' => /\ http'[FirstTab]["refresh"].with # None
                                /\ http'[FirstTab]["refresh"].answer \in {None, "ok"}
  <2>1. CASE http'[FirstTab]["refresh"] = http[FirstTab]["refresh"]
    BY <2>1 DEF SilentHolds, Refreshing
  <2>2. CASE /\ http'[FirstTab]["refresh"].with = jar
             /\ http'[FirstTab]["refresh"].answer = None
    BY <1>6, <2>2
  <2>3. QED
    BY <1>0, <2>1, <2>2, AwaitFacts
<1>10. QED
  BY <1>1, <1>6, <1>7, <1>8, <1>9, SilentGoesOn

LEMMA SilentWhenAnswered ==
  ASSUME Typed, OnePresents, SilentAgrees, SilentHolds, Handle(FirstTab)
  PROVE  SilentHolds'
<1>0. /\ FirstTab \in Tabs /\ "boot" \in Lanes /\ "login" \in Lanes /\ "refresh" \in Lanes
      /\ Acting \subseteq Lanes /\ "boot" \notin Acting /\ "login" \notin Acting
      /\ "boot" \notin Queries /\ "login" \notin Queries /\ "refresh" \notin Queries
      /\ \A q \in Queries : q \in Lanes /\ q \notin Acting /\ q # "boot" /\ q # "refresh"
      /\ \A l \in Acting : l # "boot" /\ l # "refresh"
  BY LanesAre, TabAssumption DEF Acting
<1>a. \A l \in Acting : http[FirstTab][l].at = "idle" /\ http[FirstTab][l].answer = None
  BY NoExchangeFields DEF SilentHolds, Acting
<1>1. CASE Refreshed(FirstTab)
  <2>1. PICK g \in Bearers :
          /\ jar' = Cookie(g.n)
          /\ \A l \in Lanes \ {"refresh"} :
               \/ http'[FirstTab][l] = http[FirstTab][l]
               \/ http[FirstTab][l].answer = "await" /\ http'[FirstTab][l].at = http[FirstTab][l].at
    BY <1>0, <1>1, RefreshedFacts
  <2>2. jar' # None
    BY <2>1, TokensHaveNumbers, TokenFields, NoneIsNothing
  <2>3. /\ leaving' = leaving /\ Refreshing("refresh") /\ http'[FirstTab]["refresh"] = NoExchange
    BY <1>0, <1>1, RefreshedFacts DEF Refreshing
  <2>4. ~Refreshing("refresh")'
    BY <2>3, NoExchangeFields DEF Refreshing
  <2>5. ~Refreshing("boot")'
    <3>1. ~Refreshing("boot")
      BY <2>3, OneRefreshes
    <3>2. QED
      BY <1>0, <2>1, <3>1 DEF Refreshing
  <2>6. \A l \in Acting : http'[FirstTab][l] = http[FirstTab][l]
    BY <1>0, <1>a, <2>1, NoneIsNothing
  <2>7. QED
    BY <2>2, <2>3, <2>4, <2>5, <2>6, SilentGoesOn
<1>2. CASE FailRefresh(FirstTab)
  <2>1. Refreshing("refresh") /\ http[FirstTab]["refresh"].answer \notin {None, "ok"}
    BY <1>0, <1>2, FailRefreshFacts DEF Refreshing
  <2>2. QED
    BY <2>1 DEF SilentHolds
<1>3. CASE BootRefreshed(FirstTab)
  <2>1. PICK g \in Bearers : jar' = Cookie(g.n) /\ LaneAsks(FirstTab, "boot", "me", g, g)
    BY <1>0, <1>3, BootRefreshedFacts
  <2>2. jar' # None
    BY <2>1, TokensHaveNumbers, TokenFields, NoneIsNothing
  <2>3. /\ leaving' = leaving /\ http'[FirstTab]["boot"].at = "me"
        /\ \A l \in Lanes : l # "boot" => http'[FirstTab][l] = http[FirstTab][l]
    BY <1>0, <1>3, <2>1, BootRefreshedFacts DEF LaneAsks
  <2>4. ~Refreshing("boot")'
    BY <2>3 DEF Refreshing
  <2>5. QED
    BY <1>0, <2>2, <2>3, <2>4, SilentBeside
<1>4. CASE BootKnows(FirstTab)
  <2>1. /\ jar' = jar /\ leaving' = leaving /\ LaneRests(FirstTab, "boot")
        /\ http[FirstTab]["boot"].at = "me"
    BY <1>0, <1>4, BootKnowsFacts
  <2>2. jar # None
    BY <2>1 DEF SilentHolds, Needed
  <2>3. ~Refreshing("boot")'
    BY <2>1, RestsAreQuiet DEF LaneRests
  <2>4. QED
    BY <1>0, <2>1, <2>2, <2>3, SilentBeside DEF LaneRests
<1>5. CASE BootFailed(FirstTab)
  <2>1. /\ jar' = jar /\ leaving' = leaving /\ LaneRests(FirstTab, "boot")
        /\ store'[FirstTab] = Closed
    BY <1>0, <1>5, BootFailedFacts
  <2>2. Needed' => Needed
    <3>1. ~store'[FirstTab].authed /\ http'[FirstTab]["boot"].at # "me"
      BY <2>1, InitialFields, NoExchangeFields DEF LaneRests
    <3>2. \A q \in Queries : http'[FirstTab][q] = http[FirstTab][q]
      BY <1>0, <2>1 DEF LaneRests
    <3>3. QED
      BY <3>1, <3>2 DEF Needed
  <2>3. ~Refreshing("boot")'
    BY <2>1, RestsAreQuiet DEF LaneRests
  <2>4. QED
    BY <1>0, <2>1, <2>2, <2>3, SilentBeside DEF LaneRests
<1>6. CASE LoggedIn(FirstTab)
  <2>1. leaving' = leaving /\ LaneRests(FirstTab, "login")
    BY <1>0, <1>6, LoggedInFacts
  <2>2. /\ \A l \in Lanes : l # "login" => http'[FirstTab][l] = http[FirstTab][l]
        /\ http'[FirstTab]["boot"] = http[FirstTab]["boot"]
        /\ \A q \in Queries : http'[FirstTab][q] = http[FirstTab][q]
    BY <1>0, <2>1 DEF LaneRests
  <2>3. Refreshing("boot")' <=> Refreshing("boot")
    BY <2>2 DEF Refreshing
  <2>4. CASE UNCHANGED <<jar, store>>
    <3>1. Needed' <=> Needed
      BY <2>2, <2>4 DEF Needed
    <3>2. QED
      BY <1>0, <2>1, <2>2, <2>3, <2>4, <3>1, SilentBeside
  <2>5. CASE \E g \in Bearers : jar' = Cookie(g.n)
    <3>1. jar' # None
      BY <2>5, TokensHaveNumbers, TokenFields, NoneIsNothing
    <3>2. QED
      BY <1>0, <2>1, <2>2, <2>3, <3>1, SilentBeside
  <2>6. QED
    BY <1>0, <1>6, <2>4, <2>5, LoggedInFacts
<1>7. CASE LoggedOut(FirstTab) \/ Started(FirstTab) \/ StartKnows(FirstTab) \/ Stopped(FirstTab)
           \/ MenuStopped(FirstTab) \/ MenuKnows(FirstTab)
  BY <1>7, <1>a
     DEF LoggedOut, Started, StartKnows, Stopped, MenuStopped, MenuKnows, Answered, Acting
<1>8. ASSUME NEW l \in Lanes, AwaitRefresh(FirstTab, l)
      PROVE  SilentHolds'
  BY <1>8, SilentWhenAwaited
<1>9. ASSUME NEW q \in Queries, QueryAnswered(FirstTab, q)
      PROVE  SilentHolds'
  <2>1. UNCHANGED <<jar, store, leaving>> /\ LaneRests(FirstTab, q)
    BY <1>0, <1>9, QueryFacts
  <2>2. /\ http'[FirstTab][q] = NoExchange /\ http'[FirstTab]["boot"] = http[FirstTab]["boot"]
        /\ \A l \in Lanes : l # q => http'[FirstTab][l] = http[FirstTab][l]
    BY <1>0, <2>1 DEF LaneRests
  <2>3. Needed' => Needed
    <3>1. \A p \in Queries : http'[FirstTab][p].at = "query" => http[FirstTab][p].at = "query"
      BY <1>0, <2>2, NoExchangeFields
    <3>2. QED
      BY <2>1, <2>2, <3>1 DEF Needed
  <2>4. Refreshing("boot")' <=> Refreshing("boot")
    BY <2>2 DEF Refreshing
  <2>5. QED
    BY <1>0, <2>1, <2>2, <2>3, <2>4, SilentBeside
<1>10. QED
  BY <1>1, <1>2, <1>3, <1>4, <1>5, <1>6, <1>7, <1>8, <1>9 DEF Handle

LEMMA SilentKept ==
  ASSUME Typed, OneTab, FlowsAgree, SelfAgrees, CookiesAgree, SilentAgrees, NEW t \in Tabs, Acts(t)
  PROVE  SilentAgrees'
<1>1. SUFFICES ASSUME OnePresents, "coded" \in faults
               PROVE  SilentHolds'
  <2>1. faults' = faults
    BY TypesKept DEF Apart
  <2>2. OnePresents' <=> OnePresents
    BY <2>1 DEF OnePresents, Meets
  <2>3. QED
    BY <2>1, <2>2 DEF SilentAgrees
<1>2. CookiesHold /\ SilentHolds /\ t = FirstTab /\ FirstTab \in Tabs
  BY <1>1, Unexcused, OnlyFirst DEF CookiesAgree, SilentAgrees
<1>3. ASSUME NEW l \in Lanes, Serve(FirstTab, l) \/ Fail(FirstTab, l)
      PROVE  SilentHolds'
  BY <1>1, <1>2, <1>3, SilentWhenServed
<1>4. CASE Handle(FirstTab)
  BY <1>1, <1>2, <1>4, SilentWhenAnswered
<1>5. CASE Load(FirstTab)
  <2>1. FirstTab \in leaving
    BY <1>1, <1>2, <1>5, LoadFacts, Unexcused
  <2>2. QED
    BY <1>2, <2>1 DEF SilentHolds
<1>6. CASE ExpireAccess(FirstTab)
  <2>1. UNCHANGED <<jar, store, http, leaving>>
    BY <1>2, <1>6, ExpireFacts
  <2>2. QED
    BY <1>2, <2>1 DEF SilentHolds, Needed, Refreshing, NoExchange
<1>7. CASE UserActs(FirstTab)
  BY <1>1, <1>2, <1>7, SilentWhenStarted
<1>8. QED
  BY <1>2, <1>3, <1>4, <1>5, <1>6, <1>7 DEF Acts

-----------------------------------------------------------------------------
(* Who is shown is who acts *)

\* A token that somebody holds is not taken for a fresh one.
Lapses ==
  \A x \in Credentials : x.n \in HeldNumbers =>
    (x \in ended => x \in ended') /\ (x \in expiredTokens => x \in expiredTokens')

LEMMA LapsesWhen ==
  ASSUME expiredTokens \subseteq expiredTokens' \/ expiredTokens' = Remembered(expiredTokens),
         ended \subseteq ended' \/ ended' = Remembered(ended)
  PROVE  Lapses
BY HeldIsRemembered DEF Lapses

LEMMA TokensLapse ==
  ASSUME Typed, NEW t \in Tabs, Acts(t)
  PROVE  Lapses
<1>0. WebTypeOK /\ ExchangesAgree
  BY DEF Typed
<1>1. ASSUME NEW l \in Lanes, Serve(t, l) \/ Fail(t, l)
      PROVE  Lapses
  <2>1. CASE ServeRefresh(t, l)
    BY <1>0, <2>1, RefreshServed, LapsesWhen
  <2>2. CASE l = "login" /\ ServeLogin(t)
    BY <1>0, <2>2, LoginServed, LapsesWhen
  <2>3. CASE ServeRead(t, l)
    BY <1>0, <2>3, ReadServed, LapsesWhen
  <2>4. CASE l = "start" /\ ServeStart(t)
    BY <1>0, <2>4, StartServed, LapsesWhen
  <2>5. CASE ServeStop(t, l)
    BY <1>0, <2>5, StopServed, LapsesWhen
  <2>6. CASE l = "logout" /\ ServeLogout(t)
    BY <1>0, <2>6, LogoutServed, LapsesWhen
  <2>7. CASE Fail(t, l)
    BY <1>0, <2>7, FailServed, LapsesWhen
  <2>8. QED
    BY <1>1, <2>1, <2>2, <2>3, <2>4, <2>5, <2>6, <2>7 DEF Serve
<1>2. CASE SameServer
  BY <1>2, LapsesWhen DEF SameServer
<1>3. CASE Handle(t)
  <2>1. SameServer
    BY <1>3, RefreshedFacts, FailRefreshFacts, BootRefreshedFacts, BootKnowsFacts, BootFailedFacts,
       LoggedInFacts, LoggedOutFacts, StartedFacts, StartKnowsFacts, StoppedFacts,
       MenuStoppedFacts, MenuKnowsFacts, AwaitFacts, QueryFacts DEF Handle, Handles
  <2>2. QED
    BY <1>2, <2>1
<1>4. CASE Load(t)
  BY <1>2, <1>4, LoadFacts DEF Handles
<1>5. CASE ExpireAccess(t)
  BY <1>5, ExpireFacts, LapsesWhen
<1>6. CASE UserActs(t)
  BY <1>2, <1>6, UserStarts
<1>7. QED
  BY <1>1, <1>3, <1>4, <1>5, <1>6 DEF Acts

LEMMA StaysRefused ==
  ASSUME Lapses, NEW x \in Credentials, x.n \in HeldNumbers
  PROVE  (Accepted(x)' => Accepted(x)) /\ (x \in ended => x \in ended')
BY DEF Lapses, Accepted

LEMMA RefusedIsNothing ==
  /\ ~Accepted(None) /\ ~Accepted(None)'
  /\ \A x \in ended : ~Accepted(x)
BY DEF Accepted

\* The tab's store and its flows that act are left alone.
LEMMA ActBeside ==
  ASSUME Typed, NEW t \in Tabs, ActAt(t), Lapses, store'[t] = store[t],
         http'[t]["start"] = http[t]["start"], http'[t]["menu"] = http[t]["menu"],
         Booting(t) => Booting(t)'
  PROVE  ActAt(t)'
<1>0. "start" \in Lanes /\ "menu" \in Lanes
  BY LanesAre
<1>1. /\ store[t].token \in Credentials \cup {None}
      /\ http[t]["start"].with \in Credentials \cup {None}
      /\ http[t]["menu"].with \in Credentials \cup {None}
  <2>1. store[t].token \in Credentials \cup {None}
    BY ServerTypes DEF Stores
  <2>2. \A l \in Lanes : http[t][l].with \in Credentials \cup {None}
    BY ServerTypes DEF Exchanges
  <2>3. QED
    BY <1>0, <2>1, <2>2
<1>2. Accepted(store[t].token)' => Accepted(store[t].token)
  BY <1>0, <1>1, HeldAre, StaysRefused, RefusedIsNothing
<1>3. Accepted(http[t]["start"].with)' => Accepted(http[t]["start"].with)
  <2>1. CASE http[t]["start"].with = None
    BY <2>1, RefusedIsNothing DEF Accepted
  <2>2. CASE http[t]["start"].with \in Credentials
    BY <1>0, <2>2, HeldAre, NoneIsNothing, StaysRefused DEF Accepted, Lapses
  <2>3. QED
    BY <1>1, <2>1, <2>2
<1>4. http[t]["menu"].with \in ended => http[t]["menu"].with \in ended'
  <2>1. ended \subseteq Credentials /\ None \notin Credentials
    BY ServerTypes, NoneIsNothing
  <2>2. QED
    BY <1>0, <2>1, HeldAre DEF Lapses
<1>5. Shows(t)'
  <2>1. Hydrating(t) => Hydrating(t)'
    BY DEF Hydrating
  <2>2. QED
    BY <1>2, <2>1 DEF Shows, ActAt, Accepted
<1>6. http'[t]["start"].at = "me" /\ http'[t]["start"].answer \notin {None, "ok"}
        => ~Accepted(http[t]["start"].with)'
  BY <1>3 DEF ActAt
<1>7. QED
  BY <1>4, <1>5, <1>6 DEF ActAt, Accepted

\* Neither of those flows is under way.
LEMMA ActAlone ==
  ASSUME NEW t \in Tabs, http'[t]["start"].at # "me", http'[t]["menu"].at \notin {"stop", "me"},
         Shows(t)'
  PROVE  ActAt(t)'
BY DEF ActAt

LEMMA MeIsOwn ==
  ASSUME Typed, "coded" \notin faults, NEW t \in Tabs, NEW l \in {"boot", "start"},
         http[t][l].at = "me"
  PROVE  http[t][l].with = http[t][l].own
<1>1. l \in Lanes /\ l # "menu"
  BY LanesAre
<1>2. QED
  BY <1>1, ServerTypes DEF ExchangeAgrees, Keeps

LEMMA ActWhenServed ==
  ASSUME Typed, NEW t \in Tabs, ActAt(t), Lapses, faults \cap {"fail", "lose", "coded"} = {},
         NEW l \in Lanes, Serve(t, l) \/ Fail(t, l)
  PROVE  ActAt(t)'
<1>0. /\ WebTypeOK /\ ExchangesAgree /\ "start" \in Lanes /\ "menu" \in Lanes /\ "boot" \in Lanes
      /\ "lose" \notin faults /\ "coded" \notin faults /\ "fail" \notin faults
  BY LanesAre DEF Typed
<1>1. PICK a \in Answers, g \in Credentials \cup {None} : Told(t, l, a, g)
  BY Served
<1>2. /\ store' = store
      /\ http'[t][l].at = http[t][l].at /\ http'[t][l].with = http[t][l].with
      /\ http'[t][l].own = http[t][l].own
      /\ \A k \in Lanes : k # l => http'[t][k] = http[t][k]
  BY <1>1, ToldFields DEF Told
<1>3. \A k \in Lanes : /\ http'[t][k].at = http[t][k].at /\ http'[t][k].with = http[t][k].with
                       /\ http'[t][k].own = http[t][k].own
  BY <1>2
<1>4. Booting(t)' <=> Booting(t)
  BY <1>0, <1>3 DEF Booting
<1>5. CASE l \notin {"start", "menu"}
  BY <1>0, <1>2, <1>4, <1>5, ActBeside
<1>6. Shows(t)'
  <2>1. Hydrating(t)' <=> Hydrating(t)
    BY <1>0, <1>3, <1>4 DEF Hydrating
  <2>2. Accepted(store[t].token)' => Accepted(store[t].token)
    <3>1. store[t].token \in Credentials \cup {None}
      BY ServerTypes DEF Stores
    <3>2. store[t].token # None => store[t].token.n \in HeldNumbers
      BY <1>0, HeldAre
    <3>3. QED
      BY <1>2, <3>1, <3>2, StaysRefused, RefusedIsNothing
  <2>3. QED
    BY <1>2, <2>1, <2>2 DEF Shows, ActAt, Accepted
<1>7. \A k \in Lanes : http[t][k].with \in Credentials \cup {None}
  BY ServerTypes DEF Exchanges
<1>8. CASE l = "start"
  <2>1. /\ http'[t]["menu"] = http[t]["menu"]
        /\ http[t]["menu"].with \in ended => http[t]["menu"].with \in ended'
    <3>1. http'[t]["menu"] = http[t]["menu"]
      BY <1>0, <1>2, <1>8
    <3>2. ended \subseteq Credentials /\ None \notin Credentials
      BY ServerTypes, NoneIsNothing
    <3>3. QED
      BY <1>0, <3>1, <3>2, HeldAre DEF Lapses
  <2>2. ASSUME http[t]["start"].at = "me", http'[t]["start"].answer \notin {None, "ok"}
        PROVE  ~Accepted(http[t]["start"].with)'
    <3>1. ServeRead(t, "start")
      BY <1>0, <1>8, <2>2 DEF Serve, Fail, ServeRefresh, ServeStart, ServeStop, Asked
    <3>2. PICK b \in Answers, h \in Credentials \cup {None} :
            Told(t, "start", b, h) /\ (b = "ok" \/ ~Accepted(http[t]["start"].with))
      BY <1>0, <3>1, ReadServed
    <3>3. http'[t]["start"].answer = b
      BY <1>0, <3>2, ToldFields
    <3>4. ~Accepted(http[t]["start"].with)
      BY <2>2, <3>2, <3>3
    <3>5. UNCHANGED <<expiredTokens, ended>>
      BY <1>0, <3>1, ReadServed
    <3>6. QED
      BY <1>2, <1>8, <3>4, <3>5 DEF Accepted
  <2>3. QED
    BY <1>2, <1>6, <1>8, <2>1, <2>2 DEF ActAt, Accepted
<1>9. CASE l = "menu"
  <2>1. /\ http'[t]["start"] = http[t]["start"]
        /\ Accepted(http[t]["start"].with)' => Accepted(http[t]["start"].with)
    <3>1. http'[t]["start"] = http[t]["start"]
      BY <1>0, <1>2, <1>9
    <3>2. http[t]["start"].with # None => http[t]["start"].with.n \in HeldNumbers
      BY <1>0, HeldAre
    <3>3. CASE http[t]["start"].with = None
      BY <3>1, <3>3, RefusedIsNothing DEF Accepted
    <3>4. CASE http[t]["start"].with \in Credentials
      BY <3>1, <3>2, <3>4, NoneIsNothing DEF Accepted, Lapses
    <3>5. QED
      BY <1>0, <1>7, <3>1, <3>3, <3>4
  <2>2. ASSUME http[t]["menu"].at = "stop", http'[t]["menu"].answer = "ok"
        PROVE  http[t]["menu"].with \in ended'
    <3>1. ServeStop(t, "menu")
      BY <1>0, <1>9, <2>2 DEF Serve, Fail, ServeRefresh, ServeRead, Asked
    <3>2. PICK b \in Answers, h \in Credentials \cup {None} :
            Told(t, "menu", b, h) /\ (b = "ok" => http[t]["menu"].with \in ended')
      BY <1>0, <3>1, StopServed
    <3>3. http'[t]["menu"].answer = b
      BY <1>0, <3>2, ToldFields
    <3>4. QED
      BY <2>2, <3>2, <3>3
  <2>3. ASSUME http[t]["menu"].at = "me"
        PROVE  http[t]["menu"].with \in ended' /\ http'[t]["menu"].answer # "ok"
    <3>1. http[t]["menu"].with \in ended
      BY <2>3 DEF ActAt
    <3>2. ServeRead(t, "menu")
      BY <1>0, <1>9, <2>3 DEF Serve, Fail, ServeRefresh, ServeStop, Asked
    <3>3. PICK b \in Answers, h \in Credentials \cup {None} :
            Told(t, "menu", b, h) /\ (b = "ok" => Accepted(http[t]["menu"].with))
      BY <1>0, <3>2, ReadServed, Zenon
    <3>4. http'[t]["menu"].answer = b
      BY <1>0, <3>3, ToldFields
    <3>5. UNCHANGED ended
      BY <1>0, <3>2, ReadServed
    <3>6. QED
      BY <3>1, <3>3, <3>4, <3>5, RefusedIsNothing
  <2>4. QED
    BY <1>2, <1>6, <1>9, <2>1, <2>2, <2>3 DEF ActAt, Accepted
<1>10. QED
  BY <1>5, <1>8, <1>9

LEMMA ActWhenStarted ==
  ASSUME Typed, NEW t \in Tabs, ActAt(t), Lapses, UserActs(t)
  PROVE  ActAt(t)'
<1>0. /\ "start" \in Lanes /\ "menu" \in Lanes /\ "boot" \in Lanes /\ "login" \in Lanes
      /\ "logout" \in Lanes /\ "stop" \in Lanes
      /\ \A q \in Queries : q \in Lanes /\ q # "start" /\ q # "menu" /\ q # "boot"
  BY LanesAre
<1>1. UNCHANGED store /\ SameServer /\ Starts(t)
  BY UserStarts
<1>2. ASSUME NEW k \in Lanes, k \notin {"start", "menu", "boot"},
             \A l \in Lanes : l # k => http'[t][l] = http[t][l]
      PROVE  ActAt(t)'
  <2>1. /\ http'[t]["start"] = http[t]["start"] /\ http'[t]["menu"] = http[t]["menu"]
        /\ http'[t]["boot"] = http[t]["boot"]
    BY <1>0, <1>2
  <2>2. QED
    BY <1>1, <2>1, ActBeside DEF Booting
<1>3. ASSUME LaneAsks(t, "start", "start", store[t].token, None), BetweenFlows(t)
      PROVE  ActAt(t)'
  <2>1. /\ http'[t]["start"].at = "start" /\ http'[t]["menu"] = http[t]["menu"]
        /\ http'[t]["boot"] = http[t]["boot"]
    BY <1>0, <1>3 DEF LaneAsks
  <2>2. http[t]["start"].at # "me" /\ http[t]["menu"].at \notin {"stop", "me"}
    BY <1>3 DEF BetweenFlows, Flows
  <2>3. Shows(t)'
    BY <1>1, <2>1, <2>2 DEF ActAt, Shows, Hydrating, Booting, Accepted, SameServer
  <2>4. QED
    BY <2>1, <2>2, <2>3, ActAlone
<1>4. ASSUME LaneAsks(t, "menu", "stop", store[t].token, None)
      PROVE  ActAt(t)'
  <2>1. /\ http'[t]["menu"].at = "stop" /\ http'[t]["menu"].answer = None
        /\ http'[t]["menu"].with = store'[t].token
        /\ http'[t]["start"] = http[t]["start"] /\ http'[t]["boot"] = http[t]["boot"]
    BY <1>0, <1>1, <1>4 DEF LaneAsks
  <2>2. Shows(t)'
    BY <1>1, <2>1 DEF ActAt, Shows, Hydrating, Booting, Accepted, SameServer
  <2>3. QED
    BY <1>1, <2>1, <2>2, NoneIsNothing DEF ActAt, Accepted, SameServer
<1>5. QED
  BY <1>0, <1>1, <1>2, <1>3, <1>4 DEF Starts, LaneAsks

\* A flow that ends with the tab's token and user as they should be.
LEMMA ActAfterAlone ==
  ASSUME NEW t \in Tabs, FlowsAt(t), Typed, NEW l \in Flows \cup {"boot"},
         l = "boot" => Booting(t), l # "boot" => Busy(t, l), l \notin {"start", "menu"},
         \A k \in Lanes : k # l => http'[t][k] = http[t][k] \/ k = "boot", Shows(t)'
  PROVE  ActAt(t)'
<1>0. "start" \in Lanes /\ "menu" \in Lanes /\ "start" \in Flows /\ "menu" \in Flows /\ "boot" \notin Flows
  BY LanesAre, FlowLanes DEF Flows
<1>1. ~Busy(t, "start") /\ ~Busy(t, "menu")
  BY <1>0 DEF FlowsAt
<1>2. http'[t]["start"] = http[t]["start"] /\ http'[t]["menu"] = http[t]["menu"]
  BY <1>0
<1>3. QED
  BY <1>1, <1>2, ActAlone DEF Busy

LEMMA KnowsShows ==
  ASSUME Typed', NEW t \in Tabs, NEW token, NEW user, Knows(t, token, user), user = token.who
  PROVE  Shows(t)'
<1>1. store'[t].imp \in BOOLEAN
  BY DEF Typed, WebTypeOK
<1>2. QED
  BY <1>1, Zenon DEF Knows, Shows

LEMMA ClosedShows ==
  ASSUME NEW t \in Tabs, store'[t] \in {Closed, initialState}
  PROVE  Shows(t)'
BY InitialFields DEF Shows

LEMMA ActWhenAnswered ==
  ASSUME Typed, NEW t \in Tabs, FlowsAt(t), ActAt(t), Lapses, "coded" \notin faults, Handle(t)
  PROVE  ActAt(t)'
<1>0. /\ "start" \in Lanes /\ "menu" \in Lanes /\ "boot" \in Lanes /\ "login" \in Lanes
      /\ "logout" \in Lanes /\ "stop" \in Lanes
      /\ {"login", "start", "stop", "menu", "logout"} = Flows
      /\ \A q \in Queries : q \in Lanes /\ q # "start" /\ q # "menu" /\ q # "boot"
  BY LanesAre DEF Flows
<1>1. CASE Refreshed(t) \/ FailRefresh(t)
  BY <1>1, RefreshedFacts, FailRefreshFacts
<1>2. CASE BootRefreshed(t)
  <2>1. PICK g \in Bearers : LaneAsks(t, "boot", "me", g, g)
    BY <1>2, BootRefreshedFacts
  <2>2. /\ http[t]["boot"].at = "refresh" /\ http'[t]["boot"].at = "me"
        /\ \A k \in Lanes : k # "boot" => http'[t][k] = http[t][k]
    BY <1>2, <2>1, BootRefreshedFacts DEF LaneAsks
  <2>3. Shows(t)'
    BY <2>2 DEF Shows, Hydrating, Booting
  <2>4. QED
    BY <2>2, <2>3, ActAfterAlone DEF Booting
<1>3. CASE BootKnows(t)
  <2>1. /\ LaneRests(t, "boot") /\ http[t]["boot"].at = "me" /\ Typed'
        /\ http[t]["boot"].given = http[t]["boot"].with
        /\ Knows(t, http[t]["boot"].own, http[t]["boot"].given.who)
    BY <1>3, BootKnowsFacts DEF Handles
  <2>2. http[t]["boot"].with = http[t]["boot"].own
    BY <2>1, MeIsOwn
  <2>3. Shows(t)'
    BY <2>1, <2>2, KnowsShows
  <2>4. QED
    BY <2>1, <2>3, ActAfterAlone DEF Booting, LaneRests
<1>4. CASE BootFailed(t)
  <2>1. LaneRests(t, "boot") /\ Booting(t) /\ store'[t] = Closed
    BY <1>4, BootFailedFacts
  <2>2. QED
    BY <2>1, ActAfterAlone, ClosedShows DEF LaneRests
<1>5. CASE LoggedIn(t)
  <2>1. LaneRests(t, "login") /\ http[t]["login"].at = "login" /\ Typed'
    BY <1>5, LoggedInFacts DEF Handles
  <2>2. CASE UNCHANGED <<jar, store>>
    <3>1. /\ http'[t]["start"] = http[t]["start"] /\ http'[t]["menu"] = http[t]["menu"]
          /\ http'[t]["boot"] = http[t]["boot"]
      BY <1>0, <2>1 DEF LaneRests
    <3>2. QED
      BY <2>2, <3>1, ActBeside DEF Booting
  <2>3. CASE \E g \in Bearers : g.who = "self" /\ Knows(t, g, "self")
    <3>1. Shows(t)'
      BY <2>1, <2>3, KnowsShows
    <3>2. Busy(t, "login")
      BY <2>1 DEF Busy
    <3>3. QED
      BY <1>0, <2>1, <3>1, <3>2, ActAfterAlone DEF LaneRests
  <2>4. QED
    BY <1>5, <2>2, <2>3, LoggedInFacts
<1>6. CASE LoggedOut(t)
  <2>1. LaneRests(t, "logout") /\ Busy(t, "logout") /\ store'[t] = Closed
    BY <1>6, LoggedOutFacts DEF Busy
  <2>2. QED
    BY <1>0, <2>1, ActAfterAlone, ClosedShows DEF LaneRests
<1>7. CASE Started(t)
  <2>1. Busy(t, "start") /\ http[t]["start"].at = "start" /\ SameServer
    BY <1>7, StartedFacts DEF Handles, Busy
  <2>2. ~Busy(t, "menu")
    BY <1>0, <2>1 DEF FlowsAt
  <2>3. CASE LaneRests(t, "start") /\ UNCHANGED store
    <3>1. /\ http'[t]["start"].at = "idle" /\ http'[t]["menu"] = http[t]["menu"]
          /\ http'[t]["boot"] = http[t]["boot"]
      BY <1>0, <2>3, NoExchangeFields DEF LaneRests
    <3>2. Shows(t)'
      BY <2>1, <2>3, <3>1 DEF ActAt, Shows, Hydrating, Booting, Accepted, SameServer
    <3>3. QED
      BY <2>2, <3>1, <3>2, ActAlone DEF Busy
  <2>4. ASSUME NEW g \in Bearers, store'[t].token = g, LaneAsks(t, "start", "me", g, g)
        PROVE  ActAt(t)'
    <3>1. /\ http'[t]["start"].at = "me" /\ http'[t]["start"].own = g
          /\ http'[t]["start"].answer = None /\ http'[t]["menu"] = http[t]["menu"]
      BY <1>0, <2>4 DEF LaneAsks
    <3>2. Shows(t)'
      BY <3>1 DEF Shows, Hydrating
    <3>3. QED
      BY <2>2, <2>4, <3>1, <3>2 DEF ActAt, Busy
  <2>5. QED
    BY <1>7, <2>3, <2>4, StartedFacts
<1>8. CASE StartKnows(t)
  <2>1. /\ LaneRests(t, "start") /\ http[t]["start"].at = "me" /\ Typed' /\ SameServer
    BY <1>8, StartKnowsFacts DEF Handles
  <2>2. ~Busy(t, "menu")
    BY <1>0, <2>1 DEF FlowsAt, Busy
  <2>3. /\ http'[t]["start"].at = "idle" /\ http'[t]["menu"] = http[t]["menu"]
    BY <1>0, <2>1, NoExchangeFields DEF LaneRests
  <2>4. http[t]["start"].with = http[t]["start"].own
    BY <2>1, MeIsOwn
  <2>5. CASE UNCHANGED store /\ http[t]["start"].answer \notin {None, "ok"}
    <3>1. ~Accepted(store[t].token)
      BY <2>1, <2>4, <2>5 DEF ActAt
    <3>2. Shows(t)'
      BY <2>1, <2>5, <3>1 DEF Shows, Accepted, SameServer
    <3>3. QED
      BY <2>2, <2>3, <3>2, ActAlone DEF Busy
  <2>6. CASE /\ http[t]["start"].given = http[t]["start"].with
             /\ Knows(t, http[t]["start"].own, http[t]["start"].given.who)
    <3>1. Shows(t)'
      BY <2>1, <2>4, <2>6, KnowsShows
    <3>2. QED
      BY <2>2, <2>3, <3>1, ActAlone DEF Busy
  <2>7. QED
    BY <1>8, <2>5, <2>6, StartKnowsFacts
<1>9. CASE Stopped(t)
  <2>1. Busy(t, "stop")
    BY <1>9, StoppedFacts DEF Busy
  <2>2. CASE LaneRests(t, "stop") /\ UNCHANGED store
    <3>1. /\ http'[t]["start"] = http[t]["start"] /\ http'[t]["menu"] = http[t]["menu"]
          /\ http'[t]["boot"] = http[t]["boot"]
      BY <1>0, <2>2 DEF LaneRests
    <3>2. QED
      BY <2>2, <3>1, ActBeside DEF Booting
  <2>3. CASE /\ http'[t]["boot"].at = "refresh"
             /\ \A l \in Lanes \ {"stop", "boot"} : http'[t][l] = http[t][l]
    <3>1. Shows(t)'
      BY <2>3 DEF Shows, Hydrating, Booting
    <3>2. QED
      BY <1>0, <2>1, <2>3, <3>1, ActAfterAlone
  <2>4. QED
    BY <1>9, <2>2, <2>3, StoppedFacts
<1>10. CASE MenuStopped(t)
  <2>1. UNCHANGED store /\ SameServer /\ http[t]["menu"].at = "stop"
    BY <1>10, MenuStoppedFacts DEF Handles
  <2>2. \A k \in Lanes : k # "menu" => http'[t][k] = http[t][k]
    BY <1>10, MenuStoppedFacts DEF LaneEnds, LaneAsks
  <2>3. http'[t]["start"] = http[t]["start"] /\ http'[t]["boot"] = http[t]["boot"]
    BY <1>0, <2>2
  <2>4. Shows(t)'
    BY <2>1, <2>3 DEF ActAt, Shows, Hydrating, Booting, Accepted, SameServer
  <2>5. CASE LaneEnds(t, "menu")
    <3>1. http'[t]["menu"].at = "ended"
      BY <2>5 DEF LaneEnds
    <3>2. QED
      BY <2>1, <2>3, <2>4, <3>1 DEF ActAt, Accepted, SameServer
  <2>6. CASE http[t]["menu"].answer = "ok" /\ LaneAsks(t, "menu", "me", store[t].token, None)
    <3>1. /\ http'[t]["menu"].at = "me" /\ http'[t]["menu"].with = store[t].token
          /\ http'[t]["menu"].answer = None
      BY <2>6 DEF LaneAsks
    <3>2. store[t].token \in ended'
      BY <2>1, <2>6 DEF ActAt, SameServer
    <3>3. QED
      BY <2>1, <2>3, <2>4, <3>1, <3>2, NoneIsNothing DEF ActAt, Accepted, SameServer
  <2>7. QED
    BY <1>10, <2>5, <2>6, MenuStoppedFacts
<1>11. CASE MenuKnows(t)
  <2>1. /\ SameServer /\ LaneEnds(t, "menu") /\ UNCHANGED store
    <3>1. http[t]["menu"].answer # "ok"
      BY <1>11, MenuKnowsFacts DEF ActAt
    <3>2. QED
      BY <1>11, <3>1, MenuKnowsFacts DEF Handles
  <2>2. /\ http'[t]["menu"].at = "ended" /\ http'[t]["start"] = http[t]["start"]
        /\ http'[t]["boot"] = http[t]["boot"]
    BY <1>0, <2>1 DEF LaneEnds
  <2>3. Shows(t)'
    BY <2>1, <2>2 DEF ActAt, Shows, Hydrating, Booting, Accepted, SameServer
  <2>4. QED
    BY <2>1, <2>2, <2>3 DEF ActAt, Accepted, SameServer
<1>12. ASSUME NEW l \in Lanes, AwaitRefresh(t, l)
       PROVE  ActAt(t)'
  BY <1>12, AwaitFacts
<1>13. ASSUME NEW q \in Queries, QueryAnswered(t, q)
       PROVE  ActAt(t)'
  <2>1. UNCHANGED store /\ LaneRests(t, q)
    BY <1>13, QueryFacts
  <2>2. /\ http'[t]["start"] = http[t]["start"] /\ http'[t]["menu"] = http[t]["menu"]
        /\ http'[t]["boot"] = http[t]["boot"]
    BY <1>0, <2>1 DEF LaneRests
  <2>3. QED
    BY <2>1, <2>2, ActBeside DEF Booting
<1>14. QED
  BY <1>1, <1>2, <1>3, <1>4, <1>5, <1>6, <1>7, <1>8, <1>9, <1>10, <1>11, <1>12, <1>13 DEF Handle

LEMMA ActKept ==
  ASSUME Typed, FlowsAgree, ActAgrees, NEW t \in Tabs, Acts(t)
  PROVE  ActAgrees'
<1>1. Typed' /\ Apart(t) /\ faults' = faults
  BY TypesKept DEF Apart
<1>2. SUFFICES ASSUME "act" \in faults, faults \cap {"fail", "lose", "coded"} = {}, NEW u \in Tabs
               PROVE  ActAt(u)'
  BY <1>1 DEF ActAgrees
<1>3. Lapses /\ ActAt(u) /\ ActAt(t) /\ FlowsAt(t) /\ "coded" \notin faults
  BY <1>2, TokensLapse DEF ActAgrees, FlowsAgree
<1>4. CASE u # t
  <2>1. http'[u] = http[u] /\ store'[u] = store[u]
    BY <1>1, <1>4 DEF Apart
  <2>2. QED
    BY <1>3, <2>1, ActBeside DEF Booting
<1>5. ASSUME NEW l \in Lanes, Serve(t, l) \/ Fail(t, l)
      PROVE  ActAt(t)'
  BY <1>2, <1>3, <1>5, ActWhenServed
<1>6. ASSUME Handle(t)
      PROVE  ActAt(t)'
  BY <1>3, <1>6, ActWhenAnswered
<1>7. ASSUME Load(t)
      PROVE  ActAt(t)'
  <2>1. store'[t] = initialState /\ http'[t]["start"] = NoExchange /\ http'[t]["menu"] = NoExchange
    BY <1>7, LoadFacts, LanesAre
  <2>2. QED
    BY <2>1, NoExchangeFields, ClosedShows, ActAlone
<1>8. ASSUME ExpireAccess(t)
      PROVE  ActAt(t)'
  <2>1. UNCHANGED <<store, http>>
    BY <1>8, ExpireFacts
  <2>2. QED
    BY <1>3, <2>1, ActBeside DEF Booting
<1>9. ASSUME UserActs(t)
      PROVE  ActAt(t)'
  BY <1>3, <1>9, ActWhenStarted
<1>10. QED
  BY <1>4, <1>5, <1>6, <1>7, <1>8, <1>9 DEF Acts

-----------------------------------------------------------------------------
(* The browser is true *)

LEMMA WebStarts == WebInit => WebInv
<1>0. SUFFICES ASSUME WebInit
               PROVE  WebInv
  OBVIOUS
<1>1. /\ 1 \in 1 .. LastToken /\ FirstTab \in Tabs /\ Cookie(1) \in Cookies
      /\ Cookie(1) \in Credentials
  BY TabAssumption, TokenFields, TokensHaveNumbers
<1>2. jar \in Cookies \cup {None} /\ jar \in Credentials \cup {None} /\ jar \in valid \cup {None}
  BY <1>0, <1>1 DEF WebInit
<1>3. /\ Loaded(jar) \in [Lanes -> Exchanges] /\ Quiet \in [Lanes -> Exchanges]
      /\ \A l \in Lanes : Quiet[l] = NoExchange
  BY <1>2, LoadedFields, NoExchangeFields DEF Quiet
<1>4. /\ store \in [Tabs -> Stores] /\ store[FirstTab] = initialState
      /\ \A t \in Tabs : t # FirstTab => store[t] = Closed
  BY <1>0, <1>1, InitialFields DEF WebInit
<1>5. /\ http \in [Tabs -> [Lanes -> Exchanges]] /\ http[FirstTab] = Loaded(jar)
      /\ \A t \in Tabs : t # FirstTab => http[t] = Quiet
  BY <1>0, <1>1, <1>3 DEF WebInit
<1>6. WebTypeOK
  BY <1>0, <1>1, <1>2, <1>4, <1>5 DEF WebInit, WebTypeOK, Stores
<1>7. ExchangesAgree
  BY <1>2, <1>3, <1>5, LoadedFields, NothingAgrees DEF ExchangesAgree
<1>8. StoresAgree
  BY <1>1, <1>2, <1>4, InitialFields DEF StoresAgree
<1>9. /\ leaving = {} /\ ~replayed
      /\ \A t \in Tabs, l \in Lanes : l # "boot" => http[t][l] = NoExchange
      /\ \A t \in Tabs : t # FirstTab => http[t]["boot"] = NoExchange
      /\ http[FirstTab]["boot"].with = jar /\ http[FirstTab]["boot"].answer = None
      /\ http[FirstTab]["boot"].given = None /\ http[FirstTab]["boot"].own = None
      /\ http[FirstTab]["boot"].at = "refresh"
  BY <1>0, <1>2, <1>3, <1>5, LoadedFields, LanesAre DEF WebInit
<1>10. FlowsAgree
  <2>1. \A t \in Tabs, l \in Flows : ~Busy(t, l)
    BY <1>9, FlowLanes, NoExchangeFields DEF Busy
  <2>2. \A t \in Tabs : Booting(t) => store[t].loading
    BY <1>4, <1>9, InitialFields, NoExchangeFields DEF Booting
  <2>3. QED
    BY <1>9, <2>1, <2>2 DEF FlowsAgree, FlowsAt
<1>11. SelfAgrees
  <2>1. \A t \in Tabs : StoreSelf(store[t])
    BY <1>4, NothingIsSelf
  <2>2. IsSelf(jar)
    BY <1>2 DEF IsSelf, Cookies
  <2>3. \A t \in Tabs, l \in Lanes : LaneSelf(http[t][l])
    BY <1>9, <2>2, NothingIsSelf DEF LaneSelf
  <2>4. \A t \in Tabs, l \in {"start", "stop", "menu"} : http[t][l] = NoExchange
    BY <1>9, LanesAre
  <2>5. QED
    BY <2>1, <2>3, <2>4 DEF SelfAgrees, SelfAt
<1>12. OneTab
  BY <1>4, <1>5, <1>9 DEF OneTab
<1>13. /\ ~Refreshing("refresh") /\ \A l \in Lanes : ~Brings(l)
       /\ "refresh" \in Lanes /\ "login" \in Lanes /\ "boot" \in Lanes
  <2>1. ~Refreshing("refresh")
    BY <1>1, <1>9, LanesAre, NoExchangeFields DEF Refreshing
  <2>2. \A l \in Lanes : http[FirstTab][l].answer = None
    BY <1>1, <1>9, NoExchangeFields
  <2>3. QED
    BY <2>1, <2>2, NoneIsNothing, LanesAre DEF Brings
<1>14. CookiesAgree
  BY <1>2, <1>9, <1>13 DEF CookiesAgree, CookiesHold
<1>15. SilentAgrees
  <2>1. ~Needed
    <3>1. \A q \in Queries : http[FirstTab][q] = NoExchange
      BY <1>1, <1>9, LanesAre
    <3>2. QED
      BY <1>4, <1>9, <3>1, InitialFields, NoExchangeFields DEF Needed
  <2>2. /\ \A l \in {"start", "stop", "menu", "logout"} : http[FirstTab][l] = NoExchange
        /\ http[FirstTab]["refresh"] = NoExchange
        /\ \A q \in Queries : http[FirstTab][q] = NoExchange
    BY <1>1, <1>9, LanesAre
  <2>3. QED
    BY <1>9, <1>13, <2>1, <2>2 DEF SilentAgrees, SilentHolds
<1>16. ActAgrees
  <2>1. \A t \in Tabs : Shows(t)
    BY <1>1, <1>4, InitialFields DEF Shows
  <2>2. \A t \in Tabs : http[t]["start"].at = "idle" /\ http[t]["menu"].at = "idle"
    BY <1>9, LanesAre, NoExchangeFields
  <2>3. QED
    BY <2>1, <2>2 DEF ActAgrees, ActAt
<1>17. QED
  BY <1>6, <1>7, <1>8, <1>10, <1>11, <1>12, <1>14, <1>15, <1>16 DEF WebInv

LEMMA WebKeeps == WebInv /\ [WebNext]_webVars => WebInv'
<1>1. ASSUME WebInv, WebNext
      PROVE  WebInv'
  <2>1. PICK t \in Tabs : Acts(t)
    BY <1>1, EveryStep
  <2>2. Typed
    BY <1>1 DEF WebInv, Typed
  <2>3. Typed'
    BY <2>1, <2>2, TypesKept
  <2>4. FlowsAgree' /\ SelfAgrees' /\ OneTab'
    BY <1>1, <2>1, <2>2, FlowsKept, SelfKept, OneTabKept DEF WebInv
  <2>5. CookiesAgree' /\ SilentAgrees' /\ ActAgrees'
    BY <1>1, <2>1, <2>2, CookiesKept, SilentKept, ActKept DEF WebInv
  <2>6. QED
    BY <2>3, <2>4, <2>5 DEF WebInv, Typed
<1>2. ASSUME WebInv, UNCHANGED webVars
      PROVE  WebInv'
  BY <1>2 DEF webVars, WebInv, WebTypeOK, ExchangesAgree, ExchangeAgrees, StoresAgree,
     FlowsAgree, FlowsAt, Busy, Booting, SelfAgrees, SelfAt, OneTab, CookiesAgree, OnePresents,
     CookiesHold, Refreshing, Brings, Brought, SilentAgrees, SilentHolds, Needed, ActAgrees,
     ActAt, Shows, Accepted, Hydrating, Meets
<1>3. QED
  BY <1>1, <1>2

LEMMA WebIsTrue == WebInv => BrowserIsTrue
<1>1. SUFFICES ASSUME WebInv
               PROVE  BrowserIsTrue
  OBVIOUS
<1>2. NoSelfReplay
  <2>1. OnePresents => ~replayed
    BY <1>1 DEF WebInv, CookiesAgree, CookiesHold
  <2>2. QED
    BY <2>1 DEF NoSelfReplay, OnePresents
<1>3. Typed /\ WebTypeOK
  BY <1>1 DEF WebInv, Typed
<1>4. RetryKeepsActor
  <2>1. SUFFICES ASSUME NEW t \in Tabs, NEW q \in Queries, http[t][q].at = "query",
                        http[t][q].answer = "ok", http[t][q].given.who # http[t][q].own.who
                 PROVE  http[t][q].own.who = "target" /\ Meets({"coded", "act"})
    BY DEF RetryKeepsActor
  <2>2. q \in Lanes
    BY LanesAre
  <2>3. PICK x : x = http[t][q]
    OBVIOUS
  <2>4. /\ x.given = x.with /\ x.with \in Bearers /\ x.own \in Bearers \cup {None}
        /\ x.again => "coded" \in faults /\ x.with.who = "self"
        /\ IF x.again THEN x.own \in Bearers ELSE x.with = x.own
    BY <1>3, <2>1, <2>2, <2>3, ServerTypes DEF ExchangeAgrees, Keeps
  <2>5. x.again /\ "coded" \in faults /\ x.with.who = "self" /\ x.own \in Bearers
    BY <2>1, <2>3, <2>4
  <2>6. x.own.who = "target"
    BY <2>1, <2>3, <2>4, <2>5, TokensHaveNumbers
  <2>7. "act" \in faults
    <3>1. SUFFICES ASSUME "act" \notin faults
                   PROVE  FALSE
      OBVIOUS
    <3>2. IsSelf(x.own)
      BY <1>1, <2>2, <2>3, <3>1 DEF WebInv, SelfAgrees, SelfAt, LaneSelf
    <3>3. QED
      BY <2>5, <2>6, <3>2, NoneIsNothing DEF IsSelf
  <2>8. QED
    BY <2>3, <2>5, <2>6, <2>7 DEF Meets
<1>5. ShownIsActed
  <2>1. SUFFICES ASSUME NEW t \in Tabs, store[t].authed, Accepted(store[t].token), ~Hydrating(t),
                        t \notin leaving,
                        ~("act" \in faults /\ faults \cap {"fail", "lose", "coded"} # {})
                 PROVE  /\ store[t].user = store[t].token.who
                        /\ store[t].imp = (store[t].user = "target")
    BY DEF ShownIsActed
  <2>2. CASE "act" \in faults
    <3>1. Shows(t)
      BY <1>1, <2>1, <2>2 DEF WebInv, ActAgrees, ActAt
    <3>2. QED
      BY <2>1, <3>1 DEF Shows
  <2>3. CASE "act" \notin faults
    <3>1. StoreSelf(store[t]) /\ store[t].token \in Bearers /\ store[t].imp \in BOOLEAN
      BY <1>1, <1>3, <2>1, <2>3, ServerTypes DEF WebInv, SelfAgrees, SelfAt, Accepted, Stores
    <3>2. store[t].user = "self" /\ ~store[t].imp /\ store[t].token.who = "self"
      BY <2>1, <3>1, TokensHaveNumbers, NoneIsNothing DEF StoreSelf, IsSelf
    <3>3. "self" # "target"
      OBVIOUS
    <3>4. QED
      BY <3>1, <3>2, <3>3, Zenon
  <2>4. QED
    BY <2>2, <2>3
<1>6. QED
  BY <1>2, <1>3, <1>4, <1>5 DEF BrowserIsTrue

\* (lib/api-client.ts, store/auth.store.ts) For any tabs and any requests of their pages: the
\* browser does not replay its own refresh token, what is sent again is answered for whom it was
\* sent, and the user on the page is who acts; each but for the faults it names.
THEOREM BrowserIsAlwaysTrue == WebSpec => []BrowserIsTrue
<1>1. WebInit => WebInv
  BY WebStarts
<1>2. WebInv /\ [WebNext]_webVars => WebInv'
  BY WebKeeps
<1>3. WebInv => BrowserIsTrue
  BY WebIsTrue
<1>4. QED
  BY <1>1, <1>2, <1>3, PTL DEF WebSpec

-----------------------------------------------------------------------------
(* A login lasts, and a logout holds *)

\* A stop is asked for on a page with the banner, a logout where users log out; and a bootstrap
\* meets no login, and a user only where the banner is left.
KeptAt(t) ==
  /\ Busy(t, "stop") => store[t].imp
  /\ Busy(t, "logout") => "out" \in faults
  /\ "slow" \notin faults =>
       /\ Busy(t, "login") => ~Booting(t)
       /\ Booting(t) /\ store[t].authed => store[t].imp
KeptAgrees == \A t \in Tabs : KeptAt(t)

\* Who asks for a refresh with a cookie has it still.
Presents(l) == Refreshing(l) /\ (http[FirstTab][l].with # None \/ http[FirstTab][l].answer = "ok")
ForgottenAgrees ==
  "tabs" \notin faults /\ ~Meets({"coded", "out"}) =>
    \A l \in {"boot", "refresh"} : Presents(l) => jar # None

LEMMA KeptBeside ==
  ASSUME NEW t \in Tabs, KeptAt(t), faults' = faults,
         Busy(t, "stop")' => Busy(t, "stop"), Busy(t, "logout")' => Busy(t, "logout"),
         Busy(t, "login")' => Busy(t, "login"), Booting(t)' => Booting(t),
         store'[t].authed => store[t].authed, store[t].imp => store'[t].imp
  PROVE  KeptAt(t)'
<1>1. (Busy(t, "stop")' => store'[t].imp) /\ (Busy(t, "logout")' => "out" \in faults')
  BY DEF KeptAt
<1>2. "slow" \notin faults' => /\ Busy(t, "login")' => ~Booting(t)'
                               /\ Booting(t)' /\ store'[t].authed => store'[t].imp
  BY DEF KeptAt
<1>3. QED
  BY <1>1, <1>2 DEF KeptAt

\* The same after a step of a bootstrap, or of a flow that excludes the others.
LEMMA KeptAlone ==
  ASSUME NEW t \in Tabs, ~Busy(t, "stop")', ~Busy(t, "logout")',
         "slow" \notin faults' => /\ Busy(t, "login")' => ~Booting(t)'
                                  /\ Booting(t)' /\ store'[t].authed => store'[t].imp
  PROVE  KeptAt(t)'
BY DEF KeptAt

Kept(t) == KeptAt(t)' /\ (store[t].authed /\ ~store'[t].authed =>
                            t \in leaving \cup leaving' \/ store[t].imp \/ "slow" \in faults)

LEMMA KeptWhenAnswered ==
  ASSUME Typed, NEW t \in Tabs, FlowsAt(t), KeptAt(t), Handle(t)
  PROVE  Kept(t)
<1>0. /\ "start" \in Lanes /\ "menu" \in Lanes /\ "boot" \in Lanes /\ "login" \in Lanes
      /\ "logout" \in Lanes /\ "stop" \in Lanes /\ "refresh" \in Lanes
      /\ {"login", "start", "stop", "menu", "logout"} = Flows
      /\ \A q \in Queries : q \in Lanes /\ q \notin {"boot", "login", "logout", "stop"}
      /\ faults' = faults /\ t \in Tabs
  BY LanesAre, TypesKept DEF Flows, Acts, Apart
<1>1. ASSUME store'[t].authed = store[t].authed, store'[t].imp = store[t].imp,
             \A l \in {"boot", "login", "logout", "stop"} :
               http'[t][l].at = http[t][l].at \/ http'[t][l] = NoExchange
      PROVE  Kept(t)
  <2>1. \A l \in {"login", "logout", "stop"} : Busy(t, l)' => Busy(t, l)
    BY <1>1, NoExchangeFields DEF Busy
  <2>2. Booting(t)' => Booting(t)
    BY <1>1, NoExchangeFields DEF Booting
  <2>3. QED
    BY <1>0, <1>1, <2>1, <2>2, KeptBeside DEF Kept
<1>2. CASE Refreshed(t)
  <2>1. \A l \in Lanes \ {"refresh"} : http'[t][l].at = http[t][l].at
    BY <1>2, RefreshedFacts
  <2>2. SameUser(t)
    BY <1>2, RefreshedFacts
  <2>3. QED
    BY <1>0, <1>1, <2>1, <2>2 DEF SameUser
<1>3. CASE FailRefresh(t)
  <2>1. \A l \in Lanes \ {"refresh"} : http'[t][l].at = http[t][l].at
    BY <1>3, FailRefreshFacts
  <2>2. SameUser(t)
    BY <1>3, FailRefreshFacts
  <2>3. QED
    BY <1>0, <1>1, <2>1, <2>2 DEF SameUser
<1>4. CASE BootRefreshed(t)
  <2>1. /\ SameUser(t) /\ http[t]["boot"].at = "refresh" /\ http'[t]["boot"].at = "me"
        /\ \A k \in Lanes : k # "boot" => http'[t][k] = http[t][k]
    BY <1>4, BootRefreshedFacts DEF LaneAsks
  <2>2. \A l \in {"login", "logout", "stop"} : Busy(t, l)' <=> Busy(t, l)
    BY <1>0, <2>1 DEF Busy
  <2>3. Booting(t)' /\ Booting(t)
    BY <2>1 DEF Booting
  <2>4. QED
    BY <1>0, <2>1, <2>2, <2>3, KeptBeside DEF Kept, SameUser
<1>5. CASE BootKnows(t) \/ BootFailed(t)
  <2>1. LaneRests(t, "boot") /\ Booting(t)
    BY <1>5, BootKnowsFacts, BootFailedFacts DEF Booting
  <2>2. ~Booting(t)' /\ \A l \in {"logout", "stop"} : ~Busy(t, l)'
    BY <1>0, <2>1, NoExchangeFields DEF LaneRests, Booting, FlowsAt, Busy
  <2>3. KeptAt(t)'
    BY <2>2, KeptAlone
  <2>4. CASE BootKnows(t)
    BY <2>3, <2>4, BootKnowsFacts DEF Kept, Knows
  <2>5. CASE BootFailed(t)
    BY <2>1, <2>3, <2>5 DEF Kept, KeptAt
  <2>6. QED
    BY <1>5, <2>4, <2>5
<1>6. CASE LoggedIn(t)
  <2>1. LaneRests(t, "login") /\ Busy(t, "login")
    BY <1>6, LoggedInFacts DEF Busy
  <2>2. /\ ~Busy(t, "login")' /\ (Booting(t)' <=> Booting(t))
        /\ \A l \in {"logout", "stop"} : ~Busy(t, l)'
    BY <1>0, <2>1, NoExchangeFields DEF LaneRests, Booting, FlowsAt, Busy
  <2>3. "slow" \notin faults => ~Booting(t)'
    BY <2>1, <2>2 DEF KeptAt
  <2>4. KeptAt(t)'
    BY <1>0, <2>2, <2>3, KeptAlone
  <2>5. store[t].authed => store'[t].authed
    BY <1>6, LoggedInFacts DEF Knows
  <2>6. QED
    BY <2>4, <2>5 DEF Kept
<1>7. CASE LoggedOut(t)
  <2>1. LaneRests(t, "logout") /\ Busy(t, "logout") /\ store'[t] = Closed /\ t \in leaving'
    BY <1>7, LoggedOutFacts DEF Busy
  <2>2. /\ ~Busy(t, "login")' /\ ~Busy(t, "logout")' /\ ~Busy(t, "stop")'
        /\ ~store'[t].authed
    BY <1>0, <2>1, NoExchangeFields, InitialFields DEF LaneRests, FlowsAt, Busy
  <2>3. KeptAt(t)'
    BY <2>2, KeptAlone
  <2>4. QED
    BY <2>1, <2>3 DEF Kept
<1>8. CASE Started(t)
  <2>1. \A l \in Lanes : l # "start" => http'[t][l] = http[t][l]
    BY <1>8, StartedFacts DEF LaneRests, LaneAsks
  <2>2. store'[t].authed = store[t].authed /\ store'[t].imp = store[t].imp
    BY <1>8, StartedFacts DEF SameUser
  <2>3. QED
    BY <1>0, <1>1, <2>1, <2>2
<1>9. CASE StartKnows(t)
  <2>1. LaneRests(t, "start") /\ Busy(t, "start")
    BY <1>9, StartKnowsFacts DEF Busy
  <2>2. /\ ~Busy(t, "login")' /\ ~Busy(t, "logout")' /\ ~Busy(t, "stop")' /\ ~Booting(t)'
    BY <1>0, <2>1 DEF LaneRests, FlowsAt, Busy, Booting
  <2>3. KeptAt(t)'
    BY <2>2, KeptAlone
  <2>4. store[t].authed => store'[t].authed
    BY <1>9, StartKnowsFacts DEF Knows
  <2>5. QED
    BY <2>3, <2>4 DEF Kept
<1>10. CASE Stopped(t)
  <2>1. Busy(t, "stop") /\ store[t].imp
    BY <1>10, StoppedFacts DEF Busy, KeptAt
  <2>2. CASE LaneRests(t, "stop") /\ UNCHANGED store
    BY <1>0, <1>1, <2>2 DEF LaneRests
  <2>3. CASE /\ store'[t].authed = store[t].authed /\ store'[t].imp = store[t].imp
             /\ http'[t]["stop"] = NoExchange
             /\ \A l \in Lanes \ {"stop", "boot"} : http'[t][l] = http[t][l]
    <3>1. ~Busy(t, "login")' /\ ~Busy(t, "logout")' /\ ~Busy(t, "stop")'
      BY <1>0, <2>1, <2>3, NoExchangeFields DEF FlowsAt, Busy
    <3>2. KeptAt(t)'
      BY <2>1, <2>3, <3>1, KeptAlone
    <3>3. QED
      BY <2>3, <3>2 DEF Kept
  <2>4. QED
    BY <1>10, <2>2, <2>3, StoppedFacts
<1>11. CASE MenuStopped(t)
  <2>1. UNCHANGED store /\ \A k \in Lanes : k # "menu" => http'[t][k] = http[t][k]
    BY <1>11, MenuStoppedFacts DEF LaneEnds, LaneAsks
  <2>2. QED
    BY <1>0, <1>1, <2>1
<1>12. CASE MenuKnows(t)
  <2>1. \A k \in Lanes : k # "menu" => http'[t][k] = http[t][k]
    BY <1>12, MenuKnowsFacts DEF LaneEnds
  <2>2. store'[t].authed = store[t].authed /\ store'[t].imp = store[t].imp
    BY <1>12, MenuKnowsFacts
  <2>3. QED
    BY <1>0, <1>1, <2>1, <2>2
<1>13. ASSUME NEW k \in Lanes, AwaitRefresh(t, k)
       PROVE  Kept(t)
  <2>1. UNCHANGED store /\ \A l \in Lanes \ {"refresh"} : http'[t][l].at = http[t][l].at
    BY <1>13, AwaitFacts
  <2>2. QED
    BY <1>0, <1>1, <2>1
<1>14. ASSUME NEW q \in Queries, QueryAnswered(t, q)
       PROVE  Kept(t)
  <2>1. UNCHANGED store /\ \A l \in Lanes : l # q => http'[t][l] = http[t][l]
    BY <1>14, QueryFacts DEF LaneRests
  <2>2. QED
    BY <1>0, <1>1, <2>1
<1>15. QED
  BY <1>2, <1>3, <1>4, <1>5, <1>6, <1>7, <1>8, <1>9, <1>10, <1>11, <1>12, <1>13, <1>14 DEF Handle

LEMMA KeptWhenStarted ==
  ASSUME Typed, NEW t \in Tabs, FlowsAt(t), KeptAt(t), UserActs(t)
  PROVE  Kept(t)
<1>0. /\ "boot" \in Lanes /\ "login" \in Lanes /\ "logout" \in Lanes /\ "stop" \in Lanes
      /\ \A l \in {"start", "menu"} \cup Queries : l \notin {"boot", "login", "logout", "stop"}
      /\ faults' = faults
  BY LanesAre, UserStarts DEF Apart
<1>1. UNCHANGED store /\ Starts(t)
  BY UserStarts
<1>2. ASSUME NEW k, \A l \in Lanes : l # k => http'[t][l] = http[t][l],
             k \in {"login", "logout", "stop", "start", "menu"} \cup Queries,
             k = "stop" => store[t].imp, k = "logout" => "out" \in faults,
             k = "login" => "slow" \in faults \/ ~Booting(t)
      PROVE  Kept(t)
  <2>1. \A l \in {"login", "logout", "stop"} : l # k => (Busy(t, l)' <=> Busy(t, l))
    BY <1>0, <1>2 DEF Busy
  <2>2. Booting(t)' <=> Booting(t)
    BY <1>0, <1>2 DEF Booting
  <2>3. (Busy(t, "stop")' => store'[t].imp) /\ (Busy(t, "logout")' => "out" \in faults')
    BY <1>0, <1>1, <1>2, <2>1 DEF KeptAt
  <2>4. "slow" \notin faults' => /\ Busy(t, "login")' => ~Booting(t)'
                                 /\ Booting(t)' /\ store'[t].authed => store'[t].imp
    BY <1>0, <1>1, <1>2, <2>1, <2>2 DEF KeptAt
  <2>5. QED
    BY <1>1, <2>3, <2>4 DEF Kept, KeptAt
<1>3. LaneAsks(t, "login", "login", None, None) => "slow" \in faults \/ ~Booting(t)
  <2>1. CASE Verify(t)
    BY <2>1 DEF Verify, FlowsAt
  <2>2. CASE ~Verify(t)
    <3>1. \/ AskLogout(t) \/ StartImpersonation(t) \/ StopImpersonation(t) \/ MenuStop(t)
          \/ \E q \in Queries : Query(t, q)
      BY <2>2 DEF UserActs
    <3>2. ~Booting(t)
      BY <3>1 DEF AskLogout, StartImpersonation, StopImpersonation, MenuStop, Query, Shown, FlowsAt
    <3>3. QED
      BY <3>2
  <2>3. QED
    BY <2>1, <2>2
<1>4. QED
  BY <1>0, <1>1, <1>2, <1>3 DEF Starts, LaneAsks

LEMMA LoginKept ==
  ASSUME Typed, FlowsAgree, KeptAgrees, NEW t \in Tabs, Acts(t), NEW u \in Tabs
  PROVE  Kept(u)
<1>1. Apart(t) /\ faults' = faults /\ KeptAt(u) /\ KeptAt(t) /\ FlowsAt(t)
  BY TypesKept DEF Apart, KeptAgrees, FlowsAgree
<1>2. CASE u # t
  BY <1>1, <1>2 DEF Apart, Kept, KeptAt, Busy, Booting
<1>3. ASSUME NEW l \in Lanes, Serve(t, l) \/ Fail(t, l)
      PROVE  Kept(t)
  <2>1. PICK a \in Answers, g \in Credentials \cup {None} : Told(t, l, a, g)
    BY <1>3, Served
  <2>2. store' = store /\ \A k \in Lanes : http'[t][k].at = http[t][k].at
    BY <2>1, ToldFields DEF Told
  <2>3. QED
    BY <1>1, <2>2, LanesAre DEF Kept, KeptAt, Busy, Booting
<1>4. ASSUME Handle(t)
      PROVE  Kept(t)
  BY <1>1, <1>4, KeptWhenAnswered
<1>5. ASSUME Load(t)
      PROVE  Kept(t)
  <2>1. /\ store'[t] = initialState /\ http'[t]["stop"] = NoExchange
        /\ http'[t]["logout"] = NoExchange /\ http'[t]["login"] = NoExchange
    BY <1>5, LoadFacts, LanesAre
  <2>2. store[t].authed => t \in leaving
    BY <1>5, InitialFields DEF Load
  <2>3. QED
    BY <2>1, <2>2, NoExchangeFields, InitialFields, KeptAlone DEF Kept, Busy
<1>6. ASSUME ExpireAccess(t)
      PROVE  Kept(t)
  BY <1>1, <1>6, ExpireFacts DEF Kept, KeptAt, Busy, Booting
<1>7. ASSUME UserActs(t)
      PROVE  Kept(t)
  BY <1>1, <1>7, KeptWhenStarted
<1>8. QED
  BY <1>2, <1>3, <1>4, <1>5, <1>6, <1>7 DEF Acts

\* No cookie comes but by a login or an excused refresh.
CookieComes(t) ==
  jar = None /\ jar' # None =>
    \/ http[t]["login"].at = "login" /\ http'[t]["login"] = NoExchange
    \/ "tabs" \in faults \/ Meets({"coded", "out"})

LEMMA ForgottenBeside ==
  ASSUME ForgottenAgrees, faults' = faults, jar # None => jar' # None,
         \A l \in {"boot", "refresh"} : Presents(l)' => Presents(l) \/ jar' # None
  PROVE  ForgottenAgrees'
BY DEF ForgottenAgrees, Meets

LEMMA ForgottenKept ==
  ASSUME Typed, OneTab, FlowsAgree, KeptAgrees, ForgottenAgrees, NEW t \in Tabs, Acts(t)
  PROVE  ForgottenAgrees' /\ CookieComes(t)
<1>0. faults' = faults
  BY TypesKept DEF Apart
<1>1. SUFFICES ASSUME "tabs" \notin faults, ~Meets({"coded", "out"})
               PROVE  ForgottenAgrees' /\ CookieComes(t)
  BY <1>0 DEF ForgottenAgrees, CookieComes, Meets
<1>2. /\ t = FirstTab /\ FirstTab \in Tabs /\ WebTypeOK /\ ExchangesAgree
      /\ "boot" \in Lanes /\ "refresh" \in Lanes /\ None # "ok" /\ None # "error"
  BY <1>1, OnlyFirst, TabAssumption, LanesAre, NoneIsNothing DEF Typed
<1>3. \A g \in Bearers : Cookie(g.n) # None
  BY TokensHaveNumbers, TokenFields, NoneIsNothing
<1>4. ASSUME jar' = jar, \A l \in {"boot", "refresh"} : Presents(l)' => Presents(l) \/ jar # None
      PROVE  ForgottenAgrees' /\ CookieComes(t)
  BY <1>0, <1>4, ForgottenBeside DEF CookieComes
<1>5. ASSUME jar' # None, jar = None => \E l \in {"boot", "refresh"} : Presents(l)
      PROVE  ForgottenAgrees' /\ CookieComes(t)
  <2>1. jar # None
    BY <1>1, <1>5 DEF ForgottenAgrees
  <2>2. QED
    BY <1>0, <1>5, <2>1, ForgottenBeside DEF CookieComes
<1>6. ASSUME NEW l \in Lanes, Serve(FirstTab, l) \/ Fail(FirstTab, l)
      PROVE  ForgottenAgrees' /\ CookieComes(t)
  <2>1. PICK a \in Answers, g \in Credentials \cup {None} :
          /\ Told(FirstTab, l, a, g)
          /\ http[FirstTab][l].at = "refresh" /\ a = "ok" => http[FirstTab][l].with # None
    <3>1. CASE ServeRefresh(FirstTab, l)
      <4>1. valid \subseteq Credentials /\ None \notin Credentials /\ "ok" # "401" /\ "ok" # "error"
        BY ServerTypes, NoneIsNothing
      <4>2. QED
        BY <1>2, <3>1, <4>1, RefreshServed
    <3>2. CASE Fail(FirstTab, l)
      <4>1. PICK g \in Credentials \cup {None} : Told(FirstTab, l, "error", g)
        BY <1>2, <3>2, FailServed
      <4>2. "error" \in Answers /\ "error" # "ok"
        BY DEF Answers
      <4>3. QED
        BY <4>1, <4>2
    <3>3. CASE ~ServeRefresh(FirstTab, l) /\ ~Fail(FirstTab, l)
      <4>1. http[FirstTab][l].at # "refresh"
        BY <1>6, <3>3, LanesAre
           DEF Serve, ServeRead, ServeStop, ServeLogin, ServeStart, ServeLogout, Asked
      <4>2. QED
        BY <1>2, <1>6, <4>1, Served
    <3>4. QED
      BY <3>1, <3>2, <3>3
  <2>2. /\ jar' = jar /\ http'[FirstTab][l].at = http[FirstTab][l].at
        /\ http'[FirstTab][l].with = http[FirstTab][l].with /\ http'[FirstTab][l].answer = a
        /\ \A k \in Lanes : k # l => http'[FirstTab][k] = http[FirstTab][k]
    BY <1>2, <2>1, ToldFields DEF Told
  <2>3. ASSUME NEW k \in {"boot", "refresh"}, Presents(k)'
        PROVE  Presents(k)
    <3>1. CASE k = l
      BY <2>1, <2>2, <2>3, <3>1 DEF Presents, Refreshing
    <3>2. CASE k # l
      BY <1>2, <2>2, <2>3, <3>2 DEF Presents, Refreshing
    <3>3. QED
      BY <3>1, <3>2
  <2>4. QED
    BY <1>4, <2>2, <2>3
<1>7. ASSUME Refreshed(t)
      PROVE  ForgottenAgrees' /\ CookieComes(t)
  <2>1. Presents("refresh")
    BY <1>2, <1>7, RefreshedFacts DEF Presents, Refreshing
  <2>2. jar' # None
    BY <1>3, <1>7, RefreshedFacts
  <2>3. QED
    BY <1>5, <2>1, <2>2
<1>8. ASSUME BootRefreshed(t)
      PROVE  ForgottenAgrees' /\ CookieComes(t)
  <2>1. Presents("boot")
    BY <1>2, <1>8, BootRefreshedFacts DEF Presents, Refreshing
  <2>2. jar' # None
    BY <1>3, <1>8, BootRefreshedFacts
  <2>3. QED
    BY <1>5, <2>1, <2>2
<1>9. ASSUME LoggedIn(t)
      PROVE  ForgottenAgrees' /\ CookieComes(t)
  <2>1. /\ http[t]["login"].at = "login" /\ http'[t]["login"] = NoExchange
        /\ \A k \in Lanes : k # "login" => http'[t][k] = http[t][k]
    BY <1>9, LoggedInFacts DEF LaneRests
  <2>2. \A l \in {"boot", "refresh"} : Presents(l)' => Presents(l)
    BY <1>2, <2>1 DEF Presents, Refreshing
  <2>3. jar # None => jar' # None
    BY <1>3, <1>9, LoggedInFacts
  <2>4. QED
    BY <1>0, <2>1, <2>2, <2>3, ForgottenBeside DEF CookieComes
<1>10. ASSUME LoggedOut(t)
       PROVE  ForgottenAgrees' /\ CookieComes(t)
  <2>1. /\ jar' \in {None, jar} /\ LaneRests(t, "logout") /\ Busy(t, "logout")
    BY <1>10, LoggedOutFacts DEF Busy
  <2>2. "coded" \notin faults
    BY <1>1, <2>1 DEF KeptAgrees, KeptAt, Meets
  <2>3. ~Booting(t)
    BY <2>1 DEF FlowsAgree, FlowsAt, Flows
  <2>4. ~Refreshing("boot") /\ ~Refreshing("refresh")
    BY <1>2, <2>2, <2>3, RefreshLanes DEF Booting, Refreshing
  <2>5. ~Refreshing("boot")' /\ ~Refreshing("refresh")'
    BY <1>2, <2>1, <2>4, LanesAre DEF LaneRests, Refreshing
  <2>6. QED
    BY <2>1, <2>5 DEF ForgottenAgrees, Presents, CookieComes
<1>11. ASSUME FailRefresh(t)
       PROVE  ForgottenAgrees' /\ CookieComes(t)
  <2>1. /\ jar' = jar /\ http'[t]["refresh"] = NoExchange
        /\ \A l \in Lanes \ {"refresh"} :
             \/ http'[t][l] = http[t][l]
             \/ /\ http'[t][l].at = http[t][l].at /\ http'[t][l].with = http[t][l].with
                /\ http'[t][l].answer # "ok"
    BY <1>11, FailRefreshFacts
  <2>2. ~Presents("refresh")'
    BY <1>2, <2>1, NoExchangeFields DEF Presents, Refreshing
  <2>3. Presents("boot")' => Presents("boot")
    BY <1>2, <2>1 DEF Presents, Refreshing
  <2>4. QED
    BY <1>4, <2>1, <2>2, <2>3
<1>12. ASSUME jar' = jar, NEW k \in Lanes \ {"boot", "refresh"},
              \A l \in Lanes : l # k => http'[t][l] = http[t][l]
       PROVE  ForgottenAgrees' /\ CookieComes(t)
  <2>1. \A l \in {"boot", "refresh"} : Presents(l)' => Presents(l)
    BY <1>2, <1>12 DEF Presents, Refreshing
  <2>2. QED
    BY <1>4, <1>12, <2>1
<1>13. ASSUME NEW l \in {"boot", "refresh"}, jar' = jar, http'[t][l].with = jar,
              http'[t][l].answer = None,
              \A k \in {"boot", "refresh"} \ {l} :
                \/ http'[t][k] = http[t][k] \/ http'[t][k] = NoExchange
                \/ http'[t][k].at # "refresh"
       PROVE  ForgottenAgrees' /\ CookieComes(t)
  <2>1. Presents(l)' => jar # None
    BY <1>2, <1>13 DEF Presents
  <2>2. \A k \in {"boot", "refresh"} \ {l} : Presents(k)' => Presents(k)
    BY <1>2, <1>13, NoExchangeFields DEF Presents, Refreshing
  <2>3. QED
    BY <1>4, <1>13, <2>1, <2>2
<1>14. ASSUME Load(t)
       PROVE  ForgottenAgrees' /\ CookieComes(t)
  <2>1. /\ jar' = jar /\ http'[t]["boot"].with = jar /\ http'[t]["boot"].answer = None
        /\ http'[t]["refresh"] = NoExchange
    BY <1>2, <1>14, LoadFacts
  <2>2. QED
    BY <1>13, <2>1
<1>15. ASSUME Stopped(t)
       PROVE  ForgottenAgrees' /\ CookieComes(t)
  <2>1. jar' = jar /\ "stop" \in Lanes \ {"boot", "refresh"}
    BY <1>15, StoppedFacts, LanesAre
  <2>2. CASE LaneRests(t, "stop")
    BY <1>12, <2>1, <2>2 DEF LaneRests
  <2>3. CASE /\ http'[t]["boot"].with = jar /\ http'[t]["boot"].answer = None
             /\ \A l \in Lanes \ {"stop", "boot"} : http'[t][l] = http[t][l]
    BY <1>2, <1>13, <2>1, <2>3
  <2>4. QED
    BY <1>15, <2>2, <2>3, StoppedFacts
<1>16. ASSUME NEW k \in Lanes, AwaitRefresh(t, k)
       PROVE  ForgottenAgrees' /\ CookieComes(t)
  <2>1. /\ jar' = jar /\ k # "refresh" /\ http[t][k].at # "refresh"
        /\ http'[t][k].at = http[t][k].at
        /\ \A l \in Lanes \ {"refresh", k} : http'[t][l] = http[t][l]
    BY <1>16, AwaitFacts DEF WithBearer
  <2>2. http'[t]["boot"] = http[t]["boot"] \/ http'[t]["boot"].at # "refresh"
    BY <1>2, <2>1
  <2>3. CASE http'[t]["refresh"] = http[t]["refresh"]
    <3>1. \A l \in {"boot", "refresh"} : Presents(l)' => Presents(l)
      BY <1>2, <2>2, <2>3 DEF Presents, Refreshing
    <3>2. QED
      BY <1>4, <2>1, <3>1
  <2>4. CASE http'[t]["refresh"].with = jar /\ http'[t]["refresh"].answer = None
    BY <1>13, <2>1, <2>2, <2>4
  <2>5. QED
    BY <1>16, <2>3, <2>4, AwaitFacts
<1>17. ASSUME BootKnows(t) \/ BootFailed(t)
       PROVE  ForgottenAgrees' /\ CookieComes(t)
  <2>1. jar' = jar /\ LaneRests(t, "boot")
    BY <1>17, BootKnowsFacts, BootFailedFacts
  <2>2. \A l \in {"boot", "refresh"} : Presents(l)' => Presents(l)
    BY <1>2, <2>1, NoExchangeFields DEF LaneRests, Presents, Refreshing
  <2>3. QED
    BY <1>4, <2>1, <2>2
<1>18. ASSUME Started(t) \/ StartKnows(t) \/ MenuStopped(t) \/ MenuKnows(t)
       PROVE  ForgottenAgrees' /\ CookieComes(t)
  <2>1. "start" \in Lanes \ {"boot", "refresh"} /\ "menu" \in Lanes \ {"boot", "refresh"}
    BY LanesAre
  <2>2. CASE Started(t) \/ StartKnows(t)
    <3>1. jar' = jar /\ \A l \in Lanes : l # "start" => http'[t][l] = http[t][l]
      BY <2>2, StartedFacts, StartKnowsFacts DEF LaneRests, LaneAsks
    <3>2. QED
      BY <1>12, <2>1, <3>1
  <2>3. CASE MenuStopped(t) \/ MenuKnows(t)
    <3>1. jar' = jar /\ \A l \in Lanes : l # "menu" => http'[t][l] = http[t][l]
      BY <2>3, MenuStoppedFacts, MenuKnowsFacts DEF LaneEnds, LaneAsks
    <3>2. QED
      BY <1>12, <2>1, <3>1
  <2>4. QED
    BY <1>18, <2>2, <2>3
<1>19. ASSUME NEW q \in Queries, QueryAnswered(t, q)
       PROVE  ForgottenAgrees' /\ CookieComes(t)
  <2>1. q \in Lanes \ {"boot", "refresh"}
    BY LanesAre
  <2>2. QED
    BY <1>12, <1>19, <2>1, QueryFacts DEF LaneRests
<1>20. ASSUME ExpireAccess(t)
       PROVE  ForgottenAgrees' /\ CookieComes(t)
  <2>1. UNCHANGED <<jar, http>>
    BY <1>20, ExpireFacts
  <2>2. QED
    BY <1>4, <2>1 DEF Presents, Refreshing
<1>21. ASSUME UserActs(t)
       PROVE  ForgottenAgrees' /\ CookieComes(t)
  <2>1. jar' = jar /\ Starts(t)
    BY <1>21, UserStarts
  <2>2. /\ {"login", "logout", "start", "stop", "menu"} \subseteq Lanes \ {"boot", "refresh"}
        /\ Queries \subseteq Lanes \ {"boot", "refresh"}
    BY LanesAre
  <2>3. \E k \in Lanes \ {"boot", "refresh"} : \A l \in Lanes : l # k => http'[t][l] = http[t][l]
    BY <2>1, <2>2 DEF Starts, LaneAsks
  <2>4. QED
    BY <1>12, <2>1, <2>3
<1>22. QED
  BY <1>2, <1>6, <1>7, <1>8, <1>9, <1>10, <1>11, <1>14, <1>15, <1>16, <1>17, <1>18, <1>19, <1>20,
     <1>21 DEF Acts, Handle

\* The invariant under which a login lasts and a logout holds.
LastingInv == WebInv /\ KeptAgrees /\ ForgottenAgrees

LEMMA LastingStarts == WebInit => LastingInv
<1>1. SUFFICES ASSUME WebInit
               PROVE  KeptAgrees /\ ForgottenAgrees
  BY WebStarts DEF LastingInv
<1>2. /\ jar \in Cookies \cup {None} /\ FirstTab \in Tabs
      /\ "stop" \in Lanes /\ "logout" \in Lanes /\ "login" \in Lanes /\ "refresh" \in Lanes
  BY <1>1, TabAssumption, TokenFields, LanesAre DEF WebInit
<1>3. /\ \A t \in Tabs : store[t] \in {initialState, Closed}
      /\ \A t \in Tabs, l \in Lanes : l # "boot" => http[t][l] = NoExchange
      /\ http[FirstTab]["boot"].with = jar /\ http[FirstTab]["boot"].answer = None
  BY <1>1, <1>2, LoadedFields, LanesAre DEF WebInit, Quiet
<1>4. KeptAgrees
  BY <1>2, <1>3, NoExchangeFields, InitialFields DEF KeptAgrees, KeptAt, Busy
<1>5. ForgottenAgrees
  BY <1>2, <1>3, NoExchangeFields, NoneIsNothing DEF ForgottenAgrees, Presents, Refreshing
<1>6. QED
  BY <1>4, <1>5

LEMMA LastingKeeps ==
  LastingInv /\ [WebNext]_webVars =>
    /\ LastingInv'
    /\ jar = None /\ jar' # None =>
         \/ \E t \in Tabs : http[t]["login"].at = "login" /\ http'[t]["login"] = NoExchange
         \/ "tabs" \in faults \/ Meets({"coded", "out"})
    /\ \A t \in Tabs : store[t].authed /\ ~store'[t].authed =>
         t \in leaving \cup leaving' \/ store[t].imp \/ "slow" \in faults
<1>1. ASSUME LastingInv, WebNext
      PROVE  /\ KeptAgrees' /\ ForgottenAgrees'
             /\ \E t \in Tabs : CookieComes(t)
             /\ \A t \in Tabs : Kept(t)
  <2>1. PICK t \in Tabs : Acts(t)
    BY <1>1, EveryStep
  <2>2. Typed /\ FlowsAgree /\ OneTab /\ KeptAgrees /\ ForgottenAgrees
    BY <1>1 DEF LastingInv, WebInv, Typed
  <2>3. \A u \in Tabs : Kept(u)
    BY <2>1, <2>2, LoginKept
  <2>4. ForgottenAgrees' /\ CookieComes(t)
    BY <2>1, <2>2, ForgottenKept
  <2>5. KeptAgrees'
    BY <2>3 DEF KeptAgrees, Kept
  <2>6. QED
    BY <2>3, <2>4, <2>5
<1>2. ASSUME LastingInv, UNCHANGED webVars
      PROVE  KeptAgrees' /\ ForgottenAgrees' /\ jar' = jar /\ store' = store
  BY <1>2 DEF webVars, LastingInv, KeptAgrees, KeptAt, Busy, Booting, ForgottenAgrees, Presents,
     Refreshing, Meets
<1>3. WebInv /\ [WebNext]_webVars => WebInv'
  BY WebKeeps
<1>4. ASSUME LastingInv, [WebNext]_webVars
      PROVE  LastingInv'
  BY <1>1, <1>2, <1>3, <1>4 DEF LastingInv
<1>5. ASSUME LastingInv, [WebNext]_webVars, jar = None, jar' # None
      PROVE  \/ \E t \in Tabs : http[t]["login"].at = "login" /\ http'[t]["login"] = NoExchange
             \/ "tabs" \in faults \/ Meets({"coded", "out"})
  BY <1>1, <1>2, <1>5 DEF CookieComes
<1>6. ASSUME LastingInv, [WebNext]_webVars, NEW t \in Tabs, store[t].authed, ~store'[t].authed
      PROVE  t \in leaving \cup leaving' \/ store[t].imp \/ "slow" \in faults
  BY <1>1, <1>2, <1>6 DEF Kept
<1>7. QED
  BY <1>4, <1>5, <1>6

\* (store/auth.store.ts:148; login/verify/page.tsx:72-73) For any tabs: who is logged in stays so
\* until the page is left or an impersonation is ended; except that a bootstrap that fails late
\* undoes a login.
THEOREM LoginsAlwaysLast == WebSpec => LoginIsKept
<1>1. WebInit => LastingInv
  BY LastingStarts
<1>2. LastingInv /\ [WebNext]_webVars => LastingInv'
  BY LastingKeeps
<1>3. LastingInv /\ [WebNext]_webVars =>
        \A t \in Tabs : store[t].authed /\ ~store'[t].authed =>
          t \in leaving \cup leaving' \/ store[t].imp \/ "slow" \in faults
  BY LastingKeeps
<1>4. QED
  BY <1>1, <1>2, <1>3, PTL DEF WebSpec, LoginIsKept

\* (lib/logout.ts) For any tabs: once the user has logged out no refresh gives the browser a
\* cookie again, unless one is under way in another tab or silently.
THEOREM LogoutsAlwaysHold == WebSpec => LogoutForgets
<1>1. WebInit => LastingInv
  BY LastingStarts
<1>2. LastingInv /\ [WebNext]_webVars => LastingInv'
  BY LastingKeeps
<1>3. LastingInv /\ [WebNext]_webVars =>
        (jar = None /\ jar' # None =>
           \/ \E t \in Tabs : http[t]["login"].at = "login" /\ http'[t]["login"] = NoExchange
           \/ "tabs" \in faults \/ Meets({"coded", "out"}))
  BY LastingKeeps
<1>4. QED
  BY <1>1, <1>2, <1>3, PTL DEF WebSpec, LogoutForgets
===============================================================================
