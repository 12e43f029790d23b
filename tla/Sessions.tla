------------------------------ MODULE Sessions ------------------------------
(***************************************************************************)
(* SessionsService (core/sessions) and the refresh and logout endpoints of *)
(* AuthController, for the sessions of one user.  A session row is named   *)
(* by its refresh token.  rotateRefreshToken is one interactive            *)
(* transaction at READ COMMITTED: it reads the row without a lock, and its *)
(* UPDATE, which waits for the row, writes by id alone.  A transaction     *)
(* whose callback throws is rolled back.  The browser keeps the cookie the *)
(* last answer gave it; an answer may be lost.                             *)
(***************************************************************************)
EXTENDS Naturals, FiniteSets, PlatformFaults

CONSTANTS
  Tokens,     \* refresh tokens that may be issued
  Browsers,   \* where the user is logged in
  Calls       \* POST auth/refresh requests

ASSUME NoneAssumption == None \notin Tokens \cup Calls

VARIABLES
  session,    \* "ABSENT", "ACTIVE" or "REVOKED" (revokedAt is set)
  expired,    \* sessions past their expiresAt
  parent,     \* the token a session was exchanged for, None after a login
  cookie,     \* the refresh_token cookie of a browser, or None
  rowLock,    \* the transaction that has updated a session row
  detected,   \* sessions with a SESSION_REPLAY_DETECTED audit row
  pc,         \* where a refresh call is
  request,    \* the browser and token of a refresh call
  matched,    \* the sessions the updateMany of a replay is to revoke
  sweeping    \* those revokeAllForUser is to revoke, {} when it is not running

\* "overlap": refreshes with one token are under way at the same time; "lose": a call fails
\* or its answer does not reach the browser.
SessionFaults == {"overlap", "lose"}

vars == <<session, expired, parent, cookie, rowLock, detected, pc, request,
          matched, sweeping, faults>>

Requests == [browser: Browsers, token: Tokens]
NoRequest == [browser |-> None, token |-> None]
InTransaction == {"read", "rotate", "create", "replay", "match", "audit", "throw", "expire"}
Working == InTransaction \cup {"answer"}

TypeOK ==
  /\ session \in [Tokens -> {"ABSENT", "ACTIVE", "REVOKED"}]
  /\ expired \subseteq Tokens
  /\ parent \in [Tokens -> Tokens \cup {None}]
  /\ cookie \in [Browsers -> Tokens \cup {None}]
  /\ rowLock \in [Tokens -> Calls \cup {None}]
  /\ detected \subseteq Tokens
  /\ pc \in [Calls -> {"idle", "ended", "replayed"} \cup Working]
  /\ request \in [Calls -> Requests \cup {NoRequest}]
  /\ matched \in [Calls -> SUBSET Tokens]
  /\ sweeping \subseteq Tokens
  /\ faults \in FaultSets

Init ==
  /\ session = [t \in Tokens |-> "ABSENT"]
  /\ expired = {}
  /\ parent = [t \in Tokens |-> None]
  /\ cookie = [b \in Browsers |-> None]
  /\ rowLock = [t \in Tokens |-> None]
  /\ detected = {}
  /\ pc = [c \in Calls |-> "idle"]
  /\ request = [c \in Calls |-> NoRequest]
  /\ matched = [c \in Calls |-> {}]
  /\ sweeping = {}
  /\ faults \in FaultSets
-----------------------------------------------------------------------------
rows == <<session, expired, parent>>
calls == <<pc, request, matched>>

Active == {t \in Tokens : session[t] = "ACTIVE"}
Goto(c, step) == pc' = [pc EXCEPT ![c] = step]
TokenOf(c) == request[c].token
Free(t) == rowLock[t] = None

\* The transaction of c is over.
Release(c) == rowLock' = [t \in Tokens |-> IF rowLock[t] = c THEN None ELSE rowLock[t]]

\* Bound: a login or a refresh starts only while a token is left for it.
TokenLeft ==
  Cardinality({t \in Tokens : session[t] = "ABSENT"})
    > Cardinality({c \in Calls : pc[c] \in InTransaction})

\* issueTokens, at the end of a login.
Login(b, t) ==
  /\ session[t] = "ABSENT" /\ TokenLeft
  /\ session' = [session EXCEPT ![t] = "ACTIVE"]
  /\ cookie' = [cookie EXCEPT ![b] = t]
  /\ UNCHANGED <<expired, parent, rowLock, detected, calls, sweeping, faults>>

Expire(t) ==
  /\ session[t] # "ABSENT" /\ t \notin expired
  /\ expired' = expired \cup {t}
  /\ UNCHANGED <<session, parent, cookie, rowLock, detected, calls, sweeping, faults>>

\* logout: the cookie's path is the refresh endpoint, so the browser does not
\* send it here, there is no token to revoke, and only the cookie is cleared.
Logout(b) ==
  /\ cookie[b] # None
  /\ cookie' = [cookie EXCEPT ![b] = None]
  /\ UNCHANGED <<rows, rowLock, detected, calls, sweeping, faults>>

\* revokeOne: the user or an admin ends one session, in one UPDATE by id.
RevokeOne(t) ==
  /\ session[t] # "ABSENT" /\ Free(t)
  /\ session' = [session EXCEPT ![t] = "REVOKED"]
  /\ UNCHANGED <<expired, parent, cookie, rowLock, detected, calls, sweeping, faults>>

\* revokeAllForUser: one UPDATE of what is not revoked when the statement
\* begins.  It may wait for a row; a session created meanwhile is not seen.
BeginRevokeAll ==
  /\ sweeping = {}
  /\ sweeping' = Active
  /\ UNCHANGED <<rows, cookie, rowLock, detected, calls, faults>>

RevokeAll ==
  /\ sweeping # {}
  /\ \A t \in sweeping : Free(t)
  /\ session' = [t \in Tokens |-> IF t \in sweeping THEN "REVOKED" ELSE session[t]]
  /\ sweeping' = {}
  /\ UNCHANGED <<expired, parent, cookie, rowLock, detected, calls, faults>>
-----------------------------------------------------------------------------
(* rotateRefreshToken *)

Refresh(c, b) ==
  /\ pc[c] = "idle"
  /\ cookie[b] # None /\ TokenLeft
  /\ "overlap" \in faults \/ \A d \in Calls : pc[d] \in Working => TokenOf(d) # cookie[b]
  /\ request' = [request EXCEPT ![c] = [browser |-> b, token |-> cookie[b]]]
  /\ Goto(c, "read")
  /\ UNCHANGED <<rows, cookie, rowLock, detected, matched, sweeping, faults>>

\* Mutation of FindSession: revokedAt is not looked at.
FindUnexpired(c) ==
  /\ pc[c] = "read"
  /\ Goto(c, IF TokenOf(c) \in expired THEN "expire" ELSE "rotate")
  /\ UNCHANGED <<rows, cookie, rowLock, detected, request, matched, sweeping, faults>>

FindSession(c) ==
  /\ pc[c] = "read"
  /\ Goto(c, IF session[TokenOf(c)] = "REVOKED" THEN "replay"
             ELSE IF TokenOf(c) \in expired THEN "expire" ELSE "rotate")
  /\ UNCHANGED <<rows, cookie, rowLock, detected, request, matched, sweeping, faults>>

RevokeOld(c) ==
  /\ pc[c] = "rotate"
  /\ Free(TokenOf(c))
  /\ rowLock' = [rowLock EXCEPT ![TokenOf(c)] = c]
  /\ Goto(c, "create")
  /\ UNCHANGED <<rows, cookie, detected, request, matched, sweeping, faults>>

\* The insert of the new session, and the commit of both writes.
CreateNew(c, t) ==
  /\ pc[c] = "create"
  /\ session[t] = "ABSENT"
  /\ session' = [session EXCEPT ![TokenOf(c)] = "REVOKED", ![t] = "ACTIVE"]
  /\ parent' = [parent EXCEPT ![t] = TokenOf(c)]
  /\ Release(c)
  /\ request' = [request EXCEPT ![c].token = t]
  /\ Goto(c, "answer")
  /\ UNCHANGED <<expired, cookie, detected, matched, sweeping, faults>>

\* The browser stores the new cookie.
Answer(c) ==
  /\ pc[c] = "answer"
  /\ cookie' = [cookie EXCEPT ![request[c].browser] = TokenOf(c)]
  /\ Goto(c, "ended")
  /\ UNCHANGED <<rows, rowLock, detected, request, matched, sweeping, faults>>

\* A revoked token: the transaction revokes every active session, with the
\* same UPDATE as revokeAllForUser ...
BeginRevokeMatching(c) ==
  /\ pc[c] = "replay"
  /\ matched' = [matched EXCEPT ![c] = Active]
  /\ Goto(c, "match")
  /\ UNCHANGED <<rows, cookie, rowLock, detected, request, sweeping, faults>>

RevokeMatching(c) ==
  /\ pc[c] = "match"
  /\ \A t \in matched[c] : Free(t)
  /\ rowLock' = [t \in Tokens |-> IF t \in matched[c] THEN c ELSE rowLock[t]]
  /\ Goto(c, "audit")
  /\ UNCHANGED <<rows, cookie, detected, request, matched, sweeping, faults>>

\* ... the audit row is written outside it ...
LogReplay(c) ==
  /\ pc[c] = "audit"
  /\ detected' = detected \cup {TokenOf(c)}
  /\ Goto(c, "throw")
  /\ UNCHANGED <<rows, cookie, rowLock, request, matched, sweeping, faults>>

\* ... and SESSION_REPLAY is thrown inside it: what it wrote is rolled back.
ThrowReplay(c) ==
  /\ pc[c] = "throw"
  /\ Release(c)
  /\ Goto(c, "replayed")
  /\ UNCHANGED <<rows, cookie, detected, request, matched, sweeping, faults>>

\* An expired token: its revocation is rolled back in the same way.
ThrowExpired(c) ==
  /\ pc[c] = "expire"
  /\ Free(TokenOf(c))
  /\ Goto(c, "ended")
  /\ UNCHANGED <<rows, cookie, rowLock, detected, request, matched, sweeping, faults>>

\* A statement fails, or the answer does not reach the browser.
Loses(c) ==
  /\ "lose" \in faults
  /\ pc[c] \in Working
  /\ Release(c)
  /\ Goto(c, "ended")
  /\ UNCHANGED <<rows, cookie, detected, request, matched, sweeping, faults>>

AllEnded ==
  /\ \A c \in Calls : pc[c] \in {"idle", "ended", "replayed"}
  /\ UNCHANGED vars

CallStep(c) ==
  \/ FindSession(c) \/ RevokeOld(c) \/ (\E t \in Tokens : CreateNew(c, t)) \/ Answer(c)
  \/ BeginRevokeMatching(c) \/ RevokeMatching(c) \/ LogReplay(c)
  \/ ThrowReplay(c) \/ ThrowExpired(c)

Next ==
  \/ \E b \in Browsers : Logout(b) \/ \E t \in Tokens : Login(b, t)
  \/ \E t \in Tokens : Expire(t) \/ RevokeOne(t)
  \/ BeginRevokeAll \/ RevokeAll
  \/ \E c \in Calls : (\E b \in Browsers : Refresh(c, b)) \/ CallStep(c) \/ Loses(c)
  \/ AllEnded

Spec == Init /\ [][Next]_vars
-----------------------------------------------------------------------------
\* Whatever overlaps, is lost or is revoked meanwhile: who holds a new pair
\* no longer holds a valid old one.
ExchangedIsRevoked ==
  \A t \in Tokens : parent[t] # None => session[parent[t]] = "REVOKED"

\* A refresh token is exchanged for at most one new one, so that of the
\* sessions of one login at most one is live ...
NeverForked ==
  \A t, u \in Tokens : parent[t] # None /\ parent[t] = parent[u] => t = u

\* ... as long as refreshes with one token do not overlap.
ExchangedOnce == "overlap" \in faults \/ NeverForked

\* A replay is reported only of a token that had been revoked.
NoFalseAlarm == \A t \in detected : session[t] = "REVOKED"

\* After SESSION_REPLAY every session the user had is revoked.
ReplayRevokesAll ==
  \A c \in Calls : pc[c] = "replayed" => \A t \in matched[c] : session[t] = "REVOKED"

\* (core/sessions/sessions.service.ts) Whatever is lost or revoked meanwhile, a token
\* that was exchanged is revoked and only a revoked one is reported as replayed; unless
\* refreshes overlap it is exchanged once.
ExchangesAreSafe == TypeOK /\ ExchangedIsRevoked /\ NoFalseAlarm /\ ExchangedOnce
=============================================================================
