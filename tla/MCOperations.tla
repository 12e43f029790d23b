---------------------------- MODULE MCOperations ----------------------------
(***************************************************************************)
(* Instance of five parts that share no state: the browser's side of a     *)
(* session, the boots of the API with its modules, the payout queue of the *)
(* admin pages, the price of a cart line, and the checks of                *)
(* persian-utils.  A behaviour looks at one of them, its focus.            *)
(***************************************************************************)
EXTENDS WebClient, ModuleLoader, AdminQueue, CartPrices, PersianUtils, TLC

CONSTANTS t1, t2, q1, q2, p1, p2

VARIABLE focus

vars == <<webVars, loaderVars, queueVars, priceVars, utilVars, focus>>

TabIds == {t1, t2}
QueryIds == {q1, q2}
PayoutIds == {p1, p2}

ModuleNames == <<"example", "agents">>
CodesOfModule == [example |-> {"ping"}, agents |-> {"buy", "moderate"}]
RolesOfCode == [ping |-> {"user", "admin"}, buy |-> {"user"}, moderate |-> {"admin"}]
ModuleOfDefault == [settings |-> "agents", categories |-> "agents"]

\* Two digits and the check digit of a national id vary, and the check digits and two
\* others of an IBAN.
NationalIds == {<<0, a, 7, b, 9, 9, 2, 8, 4, check>> : a, b, check \in Digit}
Ibans == {<<x, y, 0, 6, 0, a, 0, 0, 0, 0, 0, 1, 2, 3, 4, 5, 6, 7, 8, 9, 0, 1, 2, b>> :
            x, y, b \in Digit, a \in {0, 5}}

\* Numbers that look like prefixes, in every script, after every prefix, with separators.
Numbers == {<<9, 1, 2, 3, 4, 5, 6, 7, 8, 9>>, <<9, 8, 9, 1, 2, 3, 4, 5, 6, 7>>,
            <<0, 9, 8, 9, 1, 2, 3, 4, 5, 6>>, <<0, 0, 9, 8, 9, 1, 2, 3, 4, 5>>,
            <<8, 9, 1, 2, 3, 4, 5, 6, 7, 8>>}
InScript(script, s) == [i \in DOMAIN s |-> IF s[i].script = "latin" THEN Char(script, s[i].n)
                                           ELSE s[i]]
Spaced(s, at, mark) == SubSeq(s, 1, at) \o <<Char(mark, 0)>> \o SubSeq(s, at + 1, Len(s))
WaysToWrite(number) ==
  {Spaced(InScript(script, Prefixes98[i] \o InLatin(number)), at, mark) :
     script \in Scripts, i \in DOMAIN Prefixes98, at \in {0, 3, 10}, mark \in Separators}
    \cup {InLatin(number)}
Phones == UNION {{number} \X WaysToWrite(number) : number \in Numbers}

FaultsOf ==
  [web    |-> {{"out", "fail", "slow"}, {"act", "menu"}, {"act", "fail"}, {"act", "out"},
               {"ask", "coded"}, {"ask", "coded", "lose"}, {"ask", "coded", "out"},
               {"ask", "coded", "act"}, {"tabs"}, {"lose"}, {"ask", "act"}},
   loader |-> {{}, {"fail"}, {"die", "grant"}, {"flag"}},
   queue  |-> {{"button"}, {"others"}, {"focus", "fail"}},
   prices |-> {{}},
   utils  |-> {{}}]

AllFaults == UNION {FaultsOf[f] : f \in DOMAIN FaultsOf}

\* A browser without a page, and an API without modules that serves: where nothing has to
\* happen any more.
WebRests ==
  /\ jar = None /\ valid = {} /\ expiredTokens = {} /\ ended = {} /\ replayed = FALSE
  /\ leaving = {}
  /\ store = [t \in Tabs |-> Closed] /\ http = [t \in Tabs |-> Quiet]
LoaderRests ==
  /\ permissions = {} /\ links = {} /\ roleRows = {} /\ installed = {} /\ ensured = {}
  /\ enabled = {} /\ boots = 1 /\ loading = "serving" /\ module = Len(MODULES) + 1 /\ code = None
  /\ merged = {} /\ seen = {} /\ registered = {} /\ booted = {} /\ completed = {}
  /\ installs = [m \in Modules |-> 0] /\ cut = installs

Init ==
  /\ focus \in DOMAIN FaultsOf
  /\ faults \in FaultsOf[focus]
  /\ IF focus = "web" THEN WebInit ELSE WebRests
  /\ IF focus = "loader" THEN LoaderInit ELSE LoaderRests
  /\ QueueInit
  /\ PricesInit /\ (focus # "prices" => cartLine.pricing = "FREE" /\ commissionPercent = 20)
  /\ UtilInit /\ (focus # "utils" => digits = <<9, 1, 2, 3, 4, 5, 6, 7, 8, 9>>
                                   /\ text = InLatin(digits))

webOnly == <<jar, store, http, leaving, valid, expiredTokens, ended, replayed>>
loaderOnly == <<permissions, links, roleRows, installed, ensured, enabled, boots, merged, seen,
                registered, booted, installs, cut, completed, loading, module, code>>
queueOnly == <<payout, written, tab, list, outdated, fetching, dialog, draft, mutation>>
pureOnly == <<cartLine, commissionPercent, bought, form, digits, text>>
utilOnly == <<form, digits, text>>

InWeb(A) == focus = "web" /\ A /\ UNCHANGED <<loaderOnly, queueOnly, pureOnly, focus>>
InLoader(A) == focus = "loader" /\ A /\ UNCHANGED <<webOnly, queueOnly, pureOnly, focus>>
InQueue(A) == focus = "queue" /\ A /\ UNCHANGED <<webOnly, loaderOnly, pureOnly, focus>>
InPrices(A) ==
  focus = "prices" /\ A /\ UNCHANGED <<webOnly, loaderOnly, queueOnly, utilOnly, focus>>

Next == InWeb(WebNext) \/ InLoader(LoaderNext) \/ InQueue(QueueNext) \/ InPrices(PricesNext)

\* Requests are answered, pages handle the answers and are loaded; boots and restarts go on.
Spec ==
  /\ Init /\ [][Next]_vars
  /\ \A t \in Tabs :
       /\ WF_vars(InWeb(t \in leaving /\ Load(t)))
       /\ \A l \in Lanes : WF_vars(InWeb(Serve(t, l))) /\ WF_vars(InWeb(Settle(t, l)))
  /\ WF_vars(InLoader(Boot)) /\ WF_vars(InLoader(Restart))
=============================================================================
