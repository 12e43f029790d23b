----------------------------- MODULE WebClient -----------------------------
(***************************************************************************)
(* The browser's side of a session: ApiClient (lib/api-client.ts), the     *)
(* auth store (store/auth.store.ts) and the pages that write it (login,    *)
(* the admin's user page, the impersonation banner, the user menu).  The   *)
(* tabs of a browser share its cookie and nothing else.  A tab runs one    *)
(* flow per lane; every request of a flow is answered in its own time, and *)
(* what the page does with an answer runs to the next await undisturbed.   *)
(*                                                                         *)
(* The API is what Sessions and Accounts say of it, one step per request:  *)
(* a refresh cookie is good for one refresh, a rotated one is reported as  *)
(* a replay, and an ended impersonation is refused at once.                *)
(***************************************************************************)
EXTENDS Naturals, PlatformFaults

CONSTANTS
  Tabs, FirstTab,   \* the tabs of the browser, and the one that is open from the start
  Queries,          \* requests of pages
  FirstQuery,       \* bound: the one that is made beside an impersonation or a logout
  LastToken         \* bound: tokens that are told apart at one time

Credentials == [who : {"self", "target", "cookie"}, n : 1 .. LastToken]

\* What a tab runs: its flows, the silent refresh, and what its pages ask for.
Flows == {"login", "start", "stop", "menu", "logout"}
Lanes == Flows \cup {"boot", "refresh"} \cup Queries

Answers == {"ok", "401", "error", "expired", "await"}

ASSUME TabAssumption ==
  /\ FirstTab \in Tabs /\ FirstQuery \in Queries /\ None \notin Tabs \cup Queries
  /\ Queries \cap (Flows \cup {"boot", "refresh"}) = {}
  /\ LastToken \in Nat \ {0}
  /\ None \notin Credentials \cup Answers \cup {"self", "target"}

VARIABLES
  jar,            \* the refresh_token cookie
  store,          \* useAuthStore of a tab
  http,           \* the exchange a lane of a tab is waiting for
  leaving,        \* tabs for which window.location.href is set
  valid,          \* refresh tokens in force
  expiredTokens,  \* access tokens past their exp
  ended,          \* access tokens of ended impersonations
  replayed        \* a rotated refresh token was presented

webVars == <<jar, store, http, leaving, valid, expiredTokens, ended, replayed, faults>>

\* "ask": pages ask for things; "act": an admin impersonates; "menu": and ends it from the
\* user menu; "out": the user logs out; "fail": a request fails; "lose": it has its effect
\* and its answer is lost; "tabs": a second tab is opened; "slow": the user logs in before
\* the first bootstrap has ended; "coded": the API answers TOKEN_EXPIRED as lib/api-client
\* expects, which JwtAuthGuard does not.
WebFaults == {"ask", "act", "menu", "out", "fail", "lose", "tabs", "slow", "coded"}
-----------------------------------------------------------------------------
Access(who, n) == [who |-> who, n |-> n]
Cookie(n) == [who |-> "cookie", n |-> n]

NoExchange == [at |-> "idle", with |-> None, answer |-> None, given |-> None, again |-> FALSE,
               own |-> None]
\* at: what is asked for; with: the bearer or cookie sent; answer: how it was answered,
\* given: with what token, or for whose; again: isRetry; own: the token the flow has in a
\* variable of its own, for a query the one it was first sent with.
Exchanges ==
  [at : {"idle", "refresh", "me", "login", "start", "stop", "logout", "query", "ended"},
   with : Credentials \cup {None},
   answer : Answers \cup {None},
   given : Credentials \cup {None}, again : BOOLEAN, own : Credentials \cup {None}]

initialState == [token |-> None, user |-> None, authed |-> FALSE, loading |-> TRUE, imp |-> FALSE]
Closed == [initialState EXCEPT !.loading = FALSE]

WebTypeOK ==
  /\ jar \in Credentials \cup {None}
  /\ store \in [Tabs -> [token : Credentials \cup {None}, user : {"self", "target", None},
                         authed : BOOLEAN, loading : BOOLEAN, imp : BOOLEAN]]
  /\ http \in [Tabs -> [Lanes -> Exchanges]]
  /\ leaving \subseteq Tabs
  /\ valid \subseteq Credentials /\ expiredTokens \subseteq Credentials
  /\ ended \subseteq Credentials
  /\ replayed \in BOOLEAN
  /\ faults \in FaultSets

Ask(at, with) == [NoExchange EXCEPT !.at = at, !.with = with]
\* The same with a bearer, which the flow keeps.
AskAs(at, token) == [NoExchange EXCEPT !.at = at, !.with = token, !.own = token]
Quiet == [l \in Lanes |-> NoExchange]
\* A page that has just loaded: AuthBootstrap calls bootstrap, once.
Loaded(cookie) == [Quiet EXCEPT !["boot"] = Ask("refresh", cookie)]

WebInit ==
  /\ jar \in {None, Cookie(1)}
  /\ valid = {Cookie(1)}
  /\ store = [t \in Tabs |-> IF t = FirstTab THEN initialState ELSE Closed]
  /\ http = [t \in Tabs |-> IF t = FirstTab THEN Loaded(jar) ELSE Quiet]
  /\ leaving = {} /\ expiredTokens = {} /\ ended = {}
  /\ replayed = FALSE
  /\ faults \in FaultSets

server == <<valid, expiredTokens, ended, replayed>>
Exchange(t, l, x) == http' = [http EXCEPT ![t][l] = x]
Answered(t, l, at) == http[t][l].at = at /\ http[t][l].answer \in {"ok", "401", "error"}
Succeeded(t, l) == http[t][l].answer = "ok"
GivenTo(t, l) == http[t][l].given
Booting(t) == http[t]["boot"].at \in {"refresh", "me"}
-----------------------------------------------------------------------------
(* The API *)

HeldBy(t) ==
  {store[t].token}
    \cup UNION {{http[t][l].with, http[t][l].given, http[t][l].own} : l \in Lanes}
Held == {jar} \cup UNION {HeldBy(t) : t \in Tabs}
HeldNumbers == {x.n : x \in Held \ {None}}
FreshNumbers == (1 .. LastToken) \ HeldNumbers
FreshNumber == CHOOSE n \in FreshNumbers : TRUE
\* Bound: a token is issued when a number is free.
MayIssue == FreshNumbers # {}
\* Tokens nobody holds any more are forgotten, so that their numbers can be used again.
Remembered(tokens) == {x \in tokens : x.n \in HeldNumbers}

Asked(t, l, at) == http[t][l].at = at /\ http[t][l].answer = None
Reply(t, l, answer, token) ==
  \E arrives \in IF "lose" \in faults THEN BOOLEAN ELSE {TRUE} :
    Exchange(t, l, [http[t][l] EXCEPT !.answer = IF arrives THEN answer ELSE "error",
                                      !.given = IF arrives THEN token ELSE None])

Accepted(x) == x # None /\ x \notin expiredTokens \cup ended
Refusal(t, l) ==
  IF "coded" \in faults /\ ~http[t][l].again /\ http[t][l].with \in expiredTokens \ ended
  THEN "expired" ELSE "401"

\* POST /auth/refresh: for bootstrap and for doRefresh.
ServeRefresh(t, l) ==
  /\ Asked(t, l, "refresh")
  /\ LET cookie == http[t][l].with
     IN \/ /\ cookie \in valid /\ MayIssue
           /\ valid' = (Remembered(valid) \ {cookie}) \cup {Cookie(FreshNumber)}
           /\ expiredTokens' = Remembered(expiredTokens) /\ ended' = Remembered(ended)
           /\ Reply(t, l, "ok", Access("self", FreshNumber))
           /\ UNCHANGED replayed
        \/ /\ cookie \notin valid
           /\ replayed' = (replayed \/ cookie # None)
           /\ Reply(t, l, "401", None)
           /\ UNCHANGED <<valid, expiredTokens, ended>>
  /\ UNCHANGED <<jar, store, leaving, faults>>

\* POST /auth/otp/verify, with the right code.
ServeLogin(t) ==
  /\ Asked(t, "login", "login") /\ MayIssue
  /\ valid' = Remembered(valid) \cup {Cookie(FreshNumber)}
  /\ expiredTokens' = Remembered(expiredTokens) /\ ended' = Remembered(ended)
  /\ Reply(t, "login", "ok", Access("self", FreshNumber))
  /\ UNCHANGED <<jar, store, leaving, replayed, faults>>

\* GET /users/me and what pages ask for.
ServeRead(t, l) ==
  /\ Asked(t, l, "me") \/ Asked(t, l, "query")
  /\ LET bearer == http[t][l].with
     IN Reply(t, l, IF Accepted(bearer) THEN "ok" ELSE Refusal(t, l),
                    IF Accepted(bearer) THEN bearer ELSE None)
  /\ UNCHANGED <<jar, store, leaving, server, faults>>

\* ImpersonationController.start.
ServeStart(t) ==
  /\ Asked(t, "start", "start")
  /\ LET bearer == http[t]["start"].with
     IN \/ /\ Accepted(bearer) /\ bearer.who = "self" /\ MayIssue
           /\ valid' = Remembered(valid) /\ expiredTokens' = Remembered(expiredTokens)
           /\ ended' = Remembered(ended)
           /\ Reply(t, "start", "ok", Access("target", FreshNumber))
        \/ /\ ~(Accepted(bearer) /\ bearer.who = "self")
           /\ Reply(t, "start", IF Accepted(bearer) THEN "error" ELSE Refusal(t, "start"), None)
           /\ UNCHANGED <<valid, expiredTokens, ended>>
  /\ UNCHANGED <<jar, store, leaving, replayed, faults>>

\* ImpersonationController.stop.
ServeStop(t, l) ==
  /\ Asked(t, l, "stop")
  /\ LET bearer == http[t][l].with
         stops == Accepted(bearer) /\ bearer.who = "target"
     IN /\ ended' = IF stops THEN ended \cup {bearer} ELSE ended
        /\ Reply(t, l, IF stops THEN "ok" ELSE IF Accepted(bearer) THEN "401" ELSE Refusal(t, l),
                 None)
  /\ UNCHANGED <<jar, store, leaving, valid, expiredTokens, replayed, faults>>

\* AuthController.logout: the cookie does not reach it, and it has no guard.
ServeLogout(t) ==
  /\ Asked(t, "logout", "logout")
  /\ Reply(t, "logout", "ok", None)
  /\ UNCHANGED <<jar, store, leaving, server, faults>>

\* fetch throws, or the API answers with something else than 401.
Fail(t, l) ==
  /\ "fail" \in faults
  /\ http[t][l].at \notin {"idle", "ended"} /\ http[t][l].answer = None
  /\ Exchange(t, l, [http[t][l] EXCEPT !.answer = "error"])
  /\ UNCHANGED <<jar, store, leaving, server, faults>>

\* Bound: the browser holds one expired token at a time.
ExpireAccess(t) ==
  /\ Accepted(store[t].token) /\ Remembered(expiredTokens) = {}
  /\ expiredTokens' = expiredTokens \cup {store[t].token}
  /\ UNCHANGED <<jar, store, http, leaving, valid, ended, replayed, faults>>

Serve(t, l) ==
  ServeRefresh(t, l) \/ ServeRead(t, l) \/ ServeStop(t, l)
    \/ (l = "login" /\ ServeLogin(t)) \/ (l = "start" /\ ServeStart(t))
    \/ (l = "logout" /\ ServeLogout(t))
-----------------------------------------------------------------------------
(* ApiClient *)

\* Mutation of AwaitRefresh: every 401 asks for a refresh of its own.
AwaitOwnRefresh(t, l) ==
  /\ http[t][l].answer = "expired"
  /\ http' = [http EXCEPT ![t] = [@ EXCEPT ![l].answer = "await",
                                           !["refresh"] = Ask("refresh", jar)]]
  /\ UNCHANGED <<jar, store, leaving, server, faults>>

\* request meets 401 TOKEN_EXPIRED: handleRefresh, one for all who meet it meanwhile.
AwaitRefresh(t, l) ==
  /\ http[t][l].answer = "expired"
  /\ LET flight == http[t]["refresh"]
     IN http' = [http EXCEPT ![t] =
                   [@ EXCEPT ![l].answer = "await",
                             !["refresh"] = IF flight.at = "refresh" THEN flight
                                            ELSE Ask("refresh", jar)]]
  /\ UNCHANGED <<jar, store, leaving, server, faults>>

\* The lanes of t after a refresh that gave token: who waited sends again.
Retried(t, token) ==
  [l \in Lanes |-> IF l = "refresh" THEN NoExchange
                   ELSE IF http[t][l].answer # "await" THEN http[t][l]
                   ELSE [http[t][l] EXCEPT !.with = token, !.again = TRUE, !.answer = None]]
\* The lanes of t after a refresh that failed: who waited is answered as it was.
GivenUp(t) ==
  [l \in Lanes |-> IF l = "refresh" THEN NoExchange
                   ELSE IF http[t][l].answer # "await" THEN http[t][l]
                   ELSE [http[t][l] EXCEPT !.answer = http[t]["refresh"].answer]]

\* doRefresh is answered with a token.
Refreshed(t) ==
  /\ Answered(t, "refresh", "refresh") /\ Succeeded(t, "refresh")
  /\ jar' = Cookie(GivenTo(t, "refresh").n)
  /\ store' = [store EXCEPT ![t].token = GivenTo(t, "refresh")]
  /\ http' = [http EXCEPT ![t] = Retried(t, GivenTo(t, "refresh"))]
  /\ UNCHANGED <<leaving, server, faults>>

\* Mutation of FailRefresh: who waits for it is not told.
FailRefreshAlone(t) ==
  /\ Answered(t, "refresh", "refresh") /\ ~Succeeded(t, "refresh")
  /\ store' = [store EXCEPT ![t].token = None]
  /\ Exchange(t, "refresh", NoExchange)
  /\ UNCHANGED <<jar, leaving, server, faults>>

\* failRefresh: the token is dropped and the page is left for /login.
FailRefresh(t) ==
  /\ Answered(t, "refresh", "refresh") /\ ~Succeeded(t, "refresh")
  /\ store' = [store EXCEPT ![t].token = None]
  /\ http' = [http EXCEPT ![t] = GivenUp(t)]
  /\ leaving' = leaving \cup {t}
  /\ UNCHANGED <<jar, server, faults>>
-----------------------------------------------------------------------------
(* The auth store *)

impersonationFromToken(token) == token.who = "target"

Authed(s, token, user) ==
  [s EXCEPT !.token = token, !.user = user, !.authed = TRUE, !.imp = impersonationFromToken(token)]
setAuth(t, token, user) == store' = [store EXCEPT ![t] = Authed(@, token, user)]

clearAuth(t) == store' = [store EXCEPT ![t] = [initialState EXCEPT !.loading = FALSE]]

\* A tab is opened, or the page it was leaving for is loaded.
Load(t) ==
  /\ \/ t \in leaving
     \/ "tabs" \in faults /\ store[t] = Closed /\ http[t] = Quiet /\ t # FirstTab
  /\ store' = [store EXCEPT ![t] = initialState]
  /\ http' = [http EXCEPT ![t] = Loaded(jar)]
  /\ leaving' = leaving \ {t}
  /\ UNCHANGED <<jar, server, faults>>

\* bootstrap has the token and asks who it is.
BootRefreshed(t) ==
  /\ Answered(t, "boot", "refresh") /\ Succeeded(t, "boot")
  /\ jar' = Cookie(GivenTo(t, "boot").n)
  /\ store' = [store EXCEPT ![t].token = GivenTo(t, "boot")]
  /\ Exchange(t, "boot", AskAs("me", GivenTo(t, "boot")))
  /\ UNCHANGED <<leaving, server, faults>>

\* bootstrap knows the user, and stores the token it has once more.
BootKnows(t) ==
  /\ Answered(t, "boot", "me") /\ Succeeded(t, "boot")
  /\ store' = [store EXCEPT ![t] = [Authed(@, http[t]["boot"].own, GivenTo(t, "boot").who)
                                      EXCEPT !.loading = FALSE]]
  /\ Exchange(t, "boot", NoExchange)
  /\ UNCHANGED <<jar, leaving, server, faults>>

\* Any failure of bootstrap.
BootFailed(t) ==
  /\ Answered(t, "boot", "refresh") \/ Answered(t, "boot", "me")
  /\ ~Succeeded(t, "boot")
  /\ clearAuth(t)
  /\ Exchange(t, "boot", NoExchange)
  /\ UNCHANGED <<jar, leaving, server, faults>>
-----------------------------------------------------------------------------
(* The pages *)

\* AccountLayout and AdminLayout show a page to who is logged in and not loading.
Shown(t) == store[t].authed /\ ~store[t].loading /\ t \notin leaving
\* Bound: a user waits for one flow to end before starting the next.
BetweenFlows(t) ==
  /\ t \notin leaving
  /\ \A l \in Flows : http[t][l].at \in {"idle", "ended"}

\* handleVerify, once at a time, on a page outside those layouts (bound: in the first
\* tab).
Verify(t) ==
  /\ t = FirstTab /\ BetweenFlows(t)
  /\ store[t].user = None
  /\ "slow" \in faults \/ ~store[t].loading
  /\ Exchange(t, "login", Ask("login", None))
  /\ UNCHANGED <<jar, store, leaving, server, faults>>

LoggedIn(t) ==
  /\ Answered(t, "login", "login")
  /\ IF Succeeded(t, "login")
     THEN /\ jar' = Cookie(GivenTo(t, "login").n)
          /\ setAuth(t, GivenTo(t, "login"), "self")
     ELSE UNCHANGED <<jar, store>>
  /\ Exchange(t, "login", NoExchange)
  /\ UNCHANGED <<leaving, server, faults>>

\* logout, which does not care how it is answered.
AskLogout(t) ==
  /\ "out" \in faults
  /\ Shown(t) /\ BetweenFlows(t)
  /\ Exchange(t, "logout", Ask("logout", store[t].token))
  /\ UNCHANGED <<jar, store, leaving, server, faults>>

LoggedOut(t) ==
  /\ Answered(t, "logout", "logout")
  /\ jar' = IF Succeeded(t, "logout") THEN None ELSE jar
  /\ clearAuth(t)
  /\ leaving' = leaving \cup {t}
  /\ Exchange(t, "logout", NoExchange)
  /\ UNCHANGED <<server, faults>>

\* A page asks for what it shows (bound: with "act" and "coded", between flows).
Query(t, q) ==
  /\ "ask" \in faults /\ (q = FirstQuery \/ faults \cap {"act", "out"} = {})
  /\ Shown(t) /\ http[t][q] = NoExchange
  /\ {"act", "coded"} \subseteq faults => BetweenFlows(t)
  /\ Exchange(t, q, AskAs("query", store[t].token))
  /\ UNCHANGED <<jar, store, leaving, server, faults>>

\* Data or an error, which the page shows.
QueryAnswered(t, q) ==
  /\ Answered(t, q, "query")
  /\ Exchange(t, q, NoExchange)
  /\ UNCHANGED <<jar, store, leaving, server, faults>>

\* impersonationMutation of the admin's user page.
StartImpersonation(t) ==
  /\ "act" \in faults
  /\ Shown(t) /\ store[t].user = "self" /\ BetweenFlows(t)
  /\ Exchange(t, "start", Ask("start", store[t].token))
  /\ UNCHANGED <<jar, store, leaving, server, faults>>

\* Its onSuccess: the token is replaced, and then the user is asked for.
Started(t) ==
  /\ Answered(t, "start", "start")
  /\ IF Succeeded(t, "start")
     THEN /\ store' = [store EXCEPT ![t].token = GivenTo(t, "start")]
          /\ Exchange(t, "start", AskAs("me", GivenTo(t, "start")))
     ELSE Exchange(t, "start", NoExchange) /\ UNCHANGED store
  /\ UNCHANGED <<jar, leaving, server, faults>>

\* A failure is shown, and nothing is taken back.
StartKnows(t) ==
  /\ Answered(t, "start", "me")
  /\ IF Succeeded(t, "start")
     THEN setAuth(t, http[t]["start"].own, GivenTo(t, "start").who)
     ELSE UNCHANGED store
  /\ Exchange(t, "start", NoExchange)
  /\ UNCHANGED <<jar, leaving, server, faults>>

\* stopMutation of the banner, whose button waits for it (bound: with "coded", once what
\* the page asked for is answered).
StopImpersonation(t) ==
  /\ store[t].imp /\ BetweenFlows(t) /\ ~Booting(t)
  /\ "coded" \in faults => \A q \in Queries : http[t][q] = NoExchange
  /\ Exchange(t, "stop", Ask("stop", store[t].token))
  /\ UNCHANGED <<jar, store, leaving, server, faults>>

\* onSuccess and onError: bootstrap, with the admin's cookie; other errors are shown.
Stopped(t) ==
  /\ Answered(t, "stop", "stop")
  /\ IF http[t]["stop"].answer \in {"ok", "401"}
     THEN /\ store' = [store EXCEPT ![t].loading = TRUE]
          /\ http' = [http EXCEPT ![t] = [@ EXCEPT !["stop"] = NoExchange,
                                                   !["boot"] = Ask("refresh", jar)]]
     ELSE Exchange(t, "stop", NoExchange) /\ UNCHANGED store
  /\ UNCHANGED <<jar, leaving, server, faults>>

\* stopImpersonation of the user menu.
MenuStop(t) ==
  /\ "menu" \in faults
  /\ Shown(t) /\ store[t].imp /\ BetweenFlows(t)
  /\ Exchange(t, "menu", Ask("stop", store[t].token))
  /\ UNCHANGED <<jar, store, leaving, server, faults>>

\* Then refreshUser, which does nothing without a token.
MenuStopped(t) ==
  /\ Answered(t, "menu", "stop")
  /\ Exchange(t, "menu", IF Succeeded(t, "menu") /\ store[t].token # None
                         THEN Ask("me", store[t].token)
                         ELSE [http[t]["menu"] EXCEPT !.at = "ended"])
  /\ UNCHANGED <<jar, store, leaving, server, faults>>

\* refreshUser: the user alone is replaced.
MenuKnows(t) ==
  /\ Answered(t, "menu", "me")
  /\ store' = IF Succeeded(t, "menu") THEN [store EXCEPT ![t].user = GivenTo(t, "menu").who]
              ELSE store
  /\ Exchange(t, "menu", [http[t]["menu"] EXCEPT !.at = "ended"])
  /\ UNCHANGED <<jar, leaving, server, faults>>

\* What the page does with an answer.
Handle(t) ==
  \/ Refreshed(t) \/ FailRefresh(t) \/ BootRefreshed(t) \/ BootKnows(t) \/ BootFailed(t)
  \/ LoggedIn(t) \/ LoggedOut(t) \/ Started(t) \/ StartKnows(t) \/ Stopped(t)
  \/ MenuStopped(t) \/ MenuKnows(t)
  \/ \E l \in Lanes : AwaitRefresh(t, l)
  \/ \E q \in Queries : QueryAnswered(t, q)

\* The same for the answer that lane l waits for.
Settle(t, l) == Handle(t) /\ http'[t][l] # http[t][l]

WebNext ==
  \E t \in Tabs :
    \/ \E l \in Lanes : Serve(t, l) \/ Fail(t, l)
    \/ Handle(t) \/ Load(t) \/ ExpireAccess(t)
    \/ Verify(t) \/ AskLogout(t) \/ StartImpersonation(t) \/ StopImpersonation(t) \/ MenuStop(t)
    \/ \E q \in Queries : Query(t, q)

WebSpec == WebInit /\ [][WebNext]_webVars
-----------------------------------------------------------------------------
Meets(fs) == fs \subseteq faults
Hydrating(t) == Booting(t) \/ http[t]["start"].at = "me"

\* (lib/api-client.ts:177-188) However many requests meet an expired token together, the
\* browser presents no refresh token twice: unless an answer is lost, tabs refresh at once, or
\* a silent refresh meets the bootstrap that ends an impersonation, a logout or the page that is
\* being left since another one failed.
NoSelfReplay ==
  replayed => \/ faults \cap {"tabs", "lose"} # {}
              \/ \E f \in {"act", "out", "fail"} : Meets({"coded", f})

\* (lib/logout.ts) Once the user has logged out no refresh gives the browser a cookie again:
\* unless one is under way, in another tab or silently.
LogoutForgets ==
  [][jar = None /\ jar' # None =>
       \/ \E t \in Tabs : http[t]["login"].at = "login" /\ http'[t]["login"] = NoExchange
       \/ "tabs" \in faults \/ Meets({"coded", "out"})]_webVars

\* (lib/api-client.ts:110-117) What is sent again after a refresh is answered for whom it
\* was sent: except that what an admin sent as someone else is then sent as the admin.
RetryKeepsActor ==
  \A t \in Tabs, q \in Queries :
    http[t][q].at = "query" /\ http[t][q].answer = "ok" =>
      \/ http[t][q].given.who = http[t][q].own.who
      \/ http[t][q].own.who = "target" /\ Meets({"coded", "act"})

\* (store/auth.store.ts:159-185; users/[id]/page.tsx:169-182) While nothing is being asked
\* for, the user and the banner shown are those of the token in use: unless what follows
\* the start of an impersonation fails, or a silent refresh replaces its token.
ShownIsActed ==
  \A t \in Tabs :
    store[t].authed /\ Accepted(store[t].token) /\ ~Hydrating(t) /\ t \notin leaving =>
      \/ store[t].user = store[t].token.who /\ store[t].imp = (store[t].user = "target")
      \/ "act" \in faults /\ faults \cap {"fail", "lose", "coded"} # {}

\* (store/auth.store.ts:148; login/verify/page.tsx:72-73) Who is logged in stays so until
\* the page is left or an impersonation is ended: except that a bootstrap that fails late
\* undoes a login.
LoginIsKept ==
  [][\A t \in Tabs :
       store[t].authed /\ ~store'[t].authed =>
         t \in leaving \cup leaving' \/ store[t].imp \/ "slow" \in faults]_webVars

\* (impersonation-banner.tsx:52-74) The banner's stop leads back to the admin's own
\* account or to the login page, whatever the API answers short of an error.
StopRestores ==
  \A t \in Tabs : http[t]["stop"].at = "stop"
                  ~> ~store[t].imp \/ faults \cap {"fail", "lose"} # {}

\* (store/auth.store.ts:112-157) A tab does not wait for its bootstrap for ever.
LoadingEnds == \A t \in Tabs : store[t].loading ~> ~store[t].loading

\* (lib/api-client.ts:89-130) Every request of a page is answered, or its page left.
QueriesSettle ==
  \A t \in Tabs, q \in Queries : http[t][q].at = "query" ~> http[t][q].at # "query"

\* (lib/api-client.ts, store/auth.store.ts) Whatever answers meet, a browser does not replay
\* its own refresh token, what is sent again is answered for whom it was sent, and the user
\* on the page is who acts; each but for the faults it names.
BrowserIsTrue == WebTypeOK /\ NoSelfReplay /\ RetryKeepsActor /\ ShownIsActed

\* (lib/api-client.ts, lib/logout.ts, components/impersonation) A login lasts, a logout holds,
\* an impersonation can be left, and no tab and no request waits for ever.
BrowserSettles ==
  LoginIsKept /\ LogoutForgets /\ StopRestores /\ LoadingEnds /\ QueriesSettle
=============================================================================
