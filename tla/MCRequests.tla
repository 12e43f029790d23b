----------------------------- MODULE MCRequests -----------------------------
(***************************************************************************)
(* Instance of four parts that share no state: the requests made with one  *)
(* idempotency key and without, the rate limit of one address, the         *)
(* notifications of two users, and the reading of a paged list.  A         *)
(* behaviour looks at one of them, its focus.                              *)
(***************************************************************************)
EXTENDS Pipeline, RateLimit, Notifications, Pages, TLC

CONSTANTS i1, i2, i3, i4, a1, a2, a3, key1, b1, b2, p1, p2, admin,
          h1, h2, h3, h4, n1, n2, m1, m2

VARIABLE focus

vars == <<pipelineVars, rateVars, noticeVars, pageVars, focus>>

IntentIds == {i1, i2, i3, i4}
AttemptIds == {a1, a2, a3}
HitIds == {h1, h2, h3, h4}
NoticeIds == {n1, n2}
MarkIds == {m1, m2}

\* i1 is an admin's, who impersonates p1; i2 has its key and body, i3 its key alone, i4
\* no key.
KeyOfIntent == [i \in IntentIds |-> IF i = i4 THEN None ELSE key1]
BodyOfIntent == [i \in IntentIds |-> IF i = i3 THEN b2 ELSE b1]
SubjectOfIntent == [i \in IntentIds |-> IF i = i2 THEN p2 ELSE p1]
PersonOfIntent == [i \in IntentIds |-> IF i = i1 THEN admin ELSE SubjectOfIntent[i]]
NeededByIntent == i1 :> None @@ i2 :> "collide" @@ i3 :> "reuse" @@ i4 :> "keyless"

FaultsOf ==
  [pipeline |-> {{"lose", "reuse"}, {"keyless", "mute"}, {"sorts"}, {"overlap", "lose"}, {"die"},
                 {"uncached"}, {"expire"}, {"collide"}, {"overlap", "reuse", "die"},
                 {"partial", "mute"}},
   rate     |-> {{}, {"mixed"}, {"late"}},
   notices  |-> {{"fail"}, {"unknown"}, {"extend"}},
   pages    |-> {{}, {"change"}, {"refilter"}}]

AllFaults == UNION {FaultsOf[f] : f \in DOMAIN FaultsOf}

Init ==
  /\ focus \in DOMAIN FaultsOf
  /\ PipelineInit /\ RateInit /\ NoticesInit /\ PagesInit
  /\ faults \in FaultsOf[focus]

pipelineOnly == <<performed, idem, tryOf, tryAt, got, unwritten, auditLog>>
rateOnly == <<now, window, expiresAt, hit, hitAt, ruled>>
noticesOnly == <<override, notice, rows, texts, mark, markAt, counted, arriving>>
pagesOnly == <<item, list, cursor, page, shown, meant, reading>>

InPipeline(A) ==
  focus = "pipeline" /\ A /\ UNCHANGED <<rateOnly, noticesOnly, pagesOnly, focus>>
InRate(A) == focus = "rate" /\ A /\ UNCHANGED <<pipelineOnly, noticesOnly, pagesOnly, focus>>
InNotices(A) == focus = "notices" /\ A /\ UNCHANGED <<pipelineOnly, rateOnly, pagesOnly, focus>>
InPages(A) == focus = "pages" /\ A /\ UNCHANGED <<pipelineOnly, rateOnly, noticesOnly, focus>>

Next == InPipeline(PipelineNext) \/ InRate(RateNext) \/ InNotices(NoticesNext) \/ InPages(PagesNext)

\* The browser asks and answers arrive; the reader turns pages to the end.
Spec ==
  /\ Init /\ [][Next]_vars
  /\ WF_vars(InNotices(Poll)) /\ WF_vars(InNotices(ShowCount))
  /\ WF_vars(InPages(TurnPage))
=============================================================================
