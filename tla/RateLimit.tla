----------------------------- MODULE RateLimit -----------------------------
(***************************************************************************)
(* RateLimitGuard: a sliding window per client address, a Redis sorted set *)
(* that one script prunes, counts and adds to.  The window of an address   *)
(* is shared by all routes, while each route has a limit of its own.  The  *)
(* script is atomic, but the time it works with is read before it is sent. *)
(*                                                                         *)
(* One address is modelled.  A user has no window: nothing sets            *)
(* req.userId, so that the check of profile.user is never made.            *)
(***************************************************************************)
EXTENDS Naturals, Integers, FiniteSets, Sequences, PlatformFaults

CONSTANTS
  Hits,       \* requests of one address
  Limits,     \* the limits of the routes that have one for an address
  Usual,      \* the limit of all routes without "mixed"
  windowMs,   \* 60 seconds for every route
  LastInstant \* bound: the last instant

ASSUME LimitAssumption ==
  /\ Limits \subseteq Nat \ {0} /\ Usual \in Limits /\ windowMs \in Nat \ {0}
  /\ IsFiniteSet(Hits) /\ LastInstant \in Nat

VARIABLES
  now,        \* the clock
  window,     \* ratelimit:ip:<address>: scores and members
  expiresAt,  \* when Redis drops the whole key
  hit,        \* a request: its route's limit, or None, the time it took, and what it got
  hitAt,      \* where it is
  ruled       \* the requests in the order in which the script ruled on them

rateVars == <<now, window, expiresAt, hit, hitAt, ruled, faults>>

\* "late": time passes between Date.now() and the script; "mixed": routes of several
\* limits are called.
RateFaults == {"late", "mixed"}

Instants == 0 .. LastInstant
Fresh == [limit |-> None, time |-> 0, allowed |-> FALSE, reset |-> 0]

RateTypeOK ==
  /\ now \in Instants
  /\ window \subseteq [score : Instants, member : Hits]
  /\ expiresAt \in 0 .. LastInstant + windowMs
  /\ hit \in [Hits -> [limit : Limits \cup {None}, time : Instants, allowed : BOOLEAN,
                       reset : 0 .. LastInstant + windowMs]]
  /\ hitAt \in [Hits -> {"idle", "script", "ruled", "unlimited"}]
  /\ ruled \in Seq(Hits) /\ Len(ruled) <= Cardinality(Hits)
  /\ faults \in FaultSets

RateInit ==
  /\ now = 0 /\ window = {} /\ expiresAt = 0
  /\ hit = [h \in Hits |-> Fresh]
  /\ hitAt = [h \in Hits |-> "idle"]
  /\ ruled = <<>>
  /\ faults \in FaultSets
-----------------------------------------------------------------------------
\* Requests are alike: it does not matter which one comes next.
Arrives(h) == hitAt[h] = "idle" /\ h = CHOOSE g \in Hits : hitAt[g] = "idle"

\* A route without a limit per address (the download route) is not limited at all.
PassUnlimited(h) ==
  /\ Arrives(h)
  /\ "mixed" \in faults
  /\ hitAt' = [hitAt EXCEPT ![h] = "unlimited"]
  /\ UNCHANGED <<now, window, expiresAt, hit, ruled, faults>>

\* canActivate, and runCheck up to the script.
canActivate(h) ==
  /\ Arrives(h)
  /\ \E limit \in IF "mixed" \in faults THEN Limits ELSE {Usual} :
       hit' = [hit EXCEPT ![h].limit = limit, ![h].time = now]
  /\ hitAt' = [hitAt EXCEPT ![h] = "script"]
  /\ UNCHANGED <<now, window, expiresAt, ruled, faults>>

Oldest(entries) == CHOOSE t \in {e.score : e \in entries} : \A e \in entries : t <= e.score

\* ZREMRANGEBYSCORE key -inf now - windowMs.
Pruned(time) == {e \in window : e.score > time - windowMs}

Rule(h, entries, allowed) ==
  /\ window' = entries
  /\ hit' = [hit EXCEPT ![h].allowed = allowed, ![h].reset = Oldest(entries) + windowMs]
  /\ hitAt' = [hitAt EXCEPT ![h] = "ruled"]
  /\ ruled' = Append(ruled, h)
  /\ UNCHANGED <<now, faults>>

\* Mutation of SlidingWindow: refused requests are counted too.
SlidingWindowAll(h) ==
  LET kept == Pruned(hit[h].time)
      full == Cardinality(kept) >= hit[h].limit
      added == kept \cup {[score |-> hit[h].time, member |-> h]}
  IN /\ hitAt[h] = "script"
     /\ Rule(h, added, ~full)
     /\ expiresAt' = now + windowMs

\* SLIDING_WINDOW_LUA.
SlidingWindow(h) ==
  LET kept == Pruned(hit[h].time)
      full == Cardinality(kept) >= hit[h].limit
      added == kept \cup {[score |-> hit[h].time, member |-> h]}
  IN /\ hitAt[h] = "script"
     /\ Rule(h, IF full THEN kept ELSE added, ~full)
     /\ expiresAt' = IF full THEN expiresAt ELSE now + windowMs

\* Time passes, and PEXPIRE with it.
RateTick ==
  /\ now < LastInstant
  /\ "late" \in faults \/ \A h \in Hits : hitAt[h] # "script"
  /\ now' = now + 1
  /\ window' = IF now' >= expiresAt THEN {} ELSE window
  /\ UNCHANGED <<expiresAt, hit, hitAt, ruled, faults>>

RateNext ==
  \/ \E h \in Hits : PassUnlimited(h) \/ canActivate(h) \/ SlidingWindow(h)
  \/ RateTick

RateSpec == RateInit /\ [][RateNext]_rateVars
-----------------------------------------------------------------------------
Ruled == {ruled[n] : n \in DOMAIN ruled}
Allowed == {h \in Ruled : hit[h].allowed}
Position(h) == CHOOSE n \in DOMAIN ruled : ruled[n] = h
\* Those allowed within the windowMs that end at an instant.
AllowedUntil(t) == {h \in Allowed : hit[h].time > t - windowMs /\ hit[h].time <= t}

\* (common/middleware/rate-limit.middleware.ts:33-55) No windowMs see more requests
\* allowed than the largest limit among them, unless a time is late: then a script with
\* an older time counts entries that a newer one has already pruned.
WindowNeverExceeded ==
  "late" \notin faults =>
    \A last \in Allowed :
      \E h \in AllowedUntil(hit[last].time) :
        Cardinality(AllowedUntil(hit[last].time)) <= hit[h].limit

\* (rate-limit.middleware.ts:43-47) A request is refused only when as many as its limit
\* were allowed in its window: a refusal does not prolong itself.
RefusedOnlyWhenFull ==
  \A h \in Ruled : ~hit[h].allowed =>
    hit[h].limit <= Cardinality({g \in Allowed : Position(g) < Position(h)
                                    /\ hit[g].time > hit[h].time - windowMs})

\* (rate-limit.middleware.ts:31-32, "when the oldest entry in the window will fall off,
\* freeing a slot") A client that waits as Retry-After says is refused again only if
\* somebody took the slot.  Where limits differ the oldest entry frees none: the window
\* may hold more entries than the limit of the route that refused.
RetryAfterFrees ==
  "mixed" \notin faults =>
    \A g, h \in Ruled :
      /\ Position(g) < Position(h) /\ ~hit[g].allowed /\ ~hit[h].allowed
      /\ hit[h].time >= hit[g].reset
      => \E f \in Allowed : Position(g) < Position(f) /\ Position(f) < Position(h)

\* (common/middleware/rate-limit.middleware.ts) No window holds more requests than its limit,
\* nobody is refused whose window has room, and who waits as told finds a slot; each but for
\* the faults it names.
WindowKept == RateTypeOK /\ WindowNeverExceeded /\ RefusedOnlyWhenFull /\ RetryAfterFrees
=============================================================================
