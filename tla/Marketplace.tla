----------------------------- MODULE Marketplace -----------------------------
(***************************************************************************)
(* CartService, CheckoutService and RunsService of the agents marketplace. *)
(*                                                                         *)
(* A checkout is one SERIALIZABLE transaction: all its reads are of the    *)
(* snapshot its first statement takes.  It locks the rows of the user's    *)
(* cart (SELECT ... FOR UPDATE), validates every line, writes the lines    *)
(* one after the other and deletes the rows.  A row that changed after the *)
(* snapshot cannot be locked or updated: the transaction fails with a      *)
(* serialization failure, as it does when it is the victim of a deadlock,  *)
(* and is run a second time, not a third.  What PostgreSQL aborts beyond   *)
(* that, to rule out cycles of reads, is a failure like any other.         *)
(* Everything else is statements that commit one by one: an add checks,    *)
(* looks and creates; a consumer decrements and counts.                    *)
(*                                                                         *)
(* FREE and ONE_TIME listings are alike here: bought once and owned.  The  *)
(* prices, the commission and the notifications are left out, and a run    *)
(* pack is on sale as long as its listing is.                              *)
(***************************************************************************)
EXTENDS Naturals, FiniteSets, Functions, PlatformFaults

CONSTANTS
  Users,
  Listings,
  PerRun,      \* the listings sold by the run, in packs
  Items,       \* what can be put in a cart: a listing, or a pack of it
  ListingOf,
  RunsOf,      \* the runs a pack grants
  RowIds,      \* bound: ids of agents_cart_item rows, in the order they are given
  Carts,       \* the rows there are at first, and the line of each
  Moderated,   \* bound: listings that are suspended and unsuspended meanwhile
  Removable,   \* bound: cart rows that may be removed by their user
  Added,       \* bound: the lines that are added meanwhile
  Adds,        \* calls of addItem
  Checkouts,   \* calls of checkout
  Consumers    \* calls of consume

Line == [user: Users, item: Items]

ASSUME MarketAssumption ==
  /\ PerRun \subseteq Listings
  /\ ListingOf \in [Items -> Listings]
  /\ RunsOf \in [Items -> Nat]
  /\ \A i, j \in Items : ListingOf[i] = ListingOf[j] /\ ListingOf[i] \notin PerRun => i = j
  /\ IsFiniteSet(Users) /\ IsFiniteSet(RowIds) /\ IsFiniteSet(Consumers)
  /\ Listings \cap (Users \X Listings) = {}
  /\ RowIds \subseteq Nat /\ Removable \subseteq RowIds
  /\ Moderated \subseteq Listings
  /\ DOMAIN Carts \subseteq RowIds /\ Carts \in [DOMAIN Carts -> Line]
  /\ \A q, r \in DOMAIN Carts : Carts[q] = Carts[r] => q = r
  /\ Added \subseteq Line /\ None \notin Line

VARIABLES
  published,   \* listings whose status is PUBLISHED
  line,        \* what a cart row was created for, None before
  cart,        \* the cart rows there are
  sold,        \* number of purchases made of a cart row
  runs,        \* agents_user_runs: totalGranted, remainingRuns, totalConsumed
  totalUsers,  \* agents_listing.totalUsers
  totalRuns,   \* agents_listing.totalRuns
  add,         \* where an add is, and what it is for
  checkout,    \* where a checkout is, and what its transaction knows
  consumer     \* where a consumer is, and what it is for

\* "overlap": adds of one item to one cart are under way at the same time.
MarketFaults == {"overlap"}

vars == <<published, line, cart, sold, runs, totalUsers, totalRuns, add, checkout,
          consumer, faults>>

\* Rows a transaction updates besides the cart: those of listings, and those of
\* the runs a user has of a listing.
Rows == Listings \cup (Users \X Listings)

NoRuns == [granted |-> 0, remaining |-> 0, consumed |-> 0]
NoAdd == [at |-> "idle", user |-> None, item |-> None]
NoConsumer == [at |-> "idle", user |-> None, listing |-> None]
NoCheckout ==
  [at |-> "idle", user |-> None, snapshot |-> {}, refused |-> FALSE, bought |-> {},
   written |-> {}, granted |-> [l \in Listings |-> 0], stale |-> {}, retried |-> FALSE]

TypeOK ==
  /\ published \subseteq Listings
  /\ line \in [RowIds -> Line \cup {None}]
  /\ cart \subseteq RowIds
  /\ sold \in [RowIds -> Nat]
  /\ runs \in [Users \X Listings -> [granted: Nat, remaining: Nat, consumed: Nat]]
  /\ totalUsers \in [Listings -> Nat]
  /\ totalRuns \in [Listings -> Nat]
  /\ add \in [Adds -> [at: {"idle", "checked", "create", "ended"},
                       user: Users \cup {None}, item: Items \cup {None}]]
  /\ checkout \in [Checkouts ->
       [at: {"idle", "begun", "locked", "again", "ended", "failed"},
        user: Users \cup {None},
        snapshot: SUBSET RowIds,   \* the cart rows it saw
        refused: BOOLEAN,          \* a line it saw can no longer be bought
        bought: SUBSET Listings,   \* the listings it saw purchases of
        written: SUBSET RowIds,    \* the rows it has made a purchase of
        granted: [Listings -> Nat],  \* the runs they grant
        stale: SUBSET Rows,        \* rows that changed after its snapshot
        retried: BOOLEAN]]
  /\ consumer \in [Consumers -> [at: {"idle", "authorized", "count", "lost", "ended"},
                                 user: Users \cup {None}, listing: Listings \cup {None}]]
  /\ faults \in FaultSets

Init ==
  /\ published = Listings
  /\ line = [r \in RowIds |-> IF r \in DOMAIN Carts THEN Carts[r] ELSE None]
  /\ cart = DOMAIN Carts
  /\ sold = [r \in RowIds |-> 0]
  /\ runs = [x \in Users \X Listings |-> NoRuns]
  /\ totalUsers = [l \in Listings |-> 0]
  /\ totalRuns = [l \in Listings |-> 0]
  /\ add = [a \in Adds |-> NoAdd]
  /\ checkout = [k \in Checkouts |-> NoCheckout]
  /\ consumer = [c \in Consumers |-> NoConsumer]
  /\ faults \in FaultSets
-----------------------------------------------------------------------------
shop == <<published, line, cart>>
books == <<sold, runs, totalUsers, totalRuns>>

ListingOn(r) == ListingOf[line[r].item]
Owns(u, l) == \E r \in RowIds : sold[r] > 0 /\ line[r].user = u /\ ListingOn(r) = l
InCart(u, i) == {r \in cart : line[r] = [user |-> u, item |-> i]}

\* The listings of the lines k has written, and those whose totalUsers it has
\* incremented: the user had not bought them.
WrittenListings(k) == {ListingOn(r) : r \in checkout[k].written}

NewListings(k) == WrittenListings(k) \ checkout[k].bought

\* The rows the transaction of k has locked: those of the cart, and those its
\* lines have updated.
LockedCart(k) == IF checkout[k].at = "locked" THEN checkout[k].snapshot ELSE {}
LockedRows(k) ==
  IF checkout[k].at # "locked" THEN {}
  ELSE NewListings(k) \cup {<<checkout[k].user, l>> : l \in WrittenListings(k) \cap PerRun}

CartRowFree(r) == \A k \in Checkouts : r \notin LockedCart(k)
RowFree(x) == \A k \in Checkouts : x \notin LockedRows(k)

\* What the checkouts know when a committed statement has changed the rows R.
Outdated(R) ==
  [k \in Checkouts |->
     IF checkout[k].at \in {"begun", "locked"}
     THEN [checkout[k] EXCEPT !.stale = @ \cup R] ELSE checkout[k]]
-----------------------------------------------------------------------------
(* the catalogue *)

\* A moderator suspends or unsuspends a listing.
Moderate(l) ==
  /\ RowFree(l)
  /\ published' = IF l \in published THEN published \ {l} ELSE published \cup {l}
  /\ checkout' = Outdated({l})
  /\ UNCHANGED <<line, cart, books, add, consumer, faults>>
-----------------------------------------------------------------------------
(* addItem and removeItem *)

Adding(u, i) ==
  \E a \in Adds : add[a].at \in {"checked", "create"} /\ add[a].user = u /\ add[a].item = i

EndAdd(a) == add' = [add EXCEPT ![a] = [NoAdd EXCEPT !.at = "ended"]]

\* LISTING_NOT_PURCHASABLE, ALREADY_OWNED
Purchasable(u, l) == l \in published /\ (l \in PerRun \/ ~Owns(u, l))

CheckItem(a, u, i) ==
  /\ add[a].at = "idle"
  /\ "overlap" \in faults \/ ~Adding(u, i)
  /\ IF Purchasable(u, ListingOf[i])
     THEN add' = [add EXCEPT ![a] = [at |-> "checked", user |-> u, item |-> i]]
     ELSE EndAdd(a)
  /\ UNCHANGED <<shop, books, checkout, consumer, faults>>

FindInCart(a) ==
  /\ add[a].at = "checked"
  /\ IF InCart(add[a].user, add[a].item) # {}
     THEN EndAdd(a) ELSE add' = [add EXCEPT ![a].at = "create"]
  /\ UNCHANGED <<shop, books, checkout, consumer, faults>>

\* The unique index (userId, listingId, runPackId) tells packs apart; a row
\* without a pack (NULL) is equal to no other.
Duplicate(u, i) == ListingOf[i] \in PerRun /\ InCart(u, i) # {}

\* The insert violates the unique index: the row there is is returned.
FindRacedRow(a) ==
  /\ add[a].at = "create"
  /\ Duplicate(add[a].user, add[a].item)
  /\ EndAdd(a)
  /\ UNCHANGED <<shop, books, checkout, consumer, faults>>

CreateRow(a) ==
  /\ add[a].at = "create"
  /\ ~Duplicate(add[a].user, add[a].item)
  /\ \E r \in RowIds :
       /\ line[r] = None /\ \A q \in RowIds : q < r => line[q] # None
       /\ line' = [line EXCEPT ![r] = [user |-> add[a].user, item |-> add[a].item]]
       /\ cart' = cart \cup {r}
  /\ EndAdd(a)
  /\ UNCHANGED <<published, books, checkout, consumer, faults>>

\* A DELETE, which waits for a checkout that has locked the row.
RemoveItem(r) ==
  /\ r \in cart
  /\ CartRowFree(r)
  /\ cart' = cart \ {r}
  /\ UNCHANGED <<published, line, books, add, checkout, consumer, faults>>
-----------------------------------------------------------------------------
(* checkout *)

CartOf(u) == {r \in cart : line[r].user = u}

\* Mutation of CanBuy: the purchases of the user are not looked at.
StillPublished(u, r) == ListingOn(r) \in published

\* Every line is validated again: the listing is published, and not owned.
CanBuy(u, r) == Purchasable(u, ListingOn(r))

Enter(k, step) == checkout' = [checkout EXCEPT ![k].at = step]

\* The transaction of k is over, and rolled back unless this step commits it.
Over(outcome) == [NoCheckout EXCEPT !.at = outcome]

\* The first SELECT takes the snapshot; an empty cart is EMPTY_CART.
TakeSnapshot(k, u, retried) ==
  checkout' = [checkout EXCEPT ![k] =
    IF CartOf(u) = {} THEN Over("ended")
    ELSE [NoCheckout EXCEPT
            !.at = "begun", !.user = u, !.snapshot = CartOf(u), !.retried = retried,
            !.refused = \E r \in CartOf(u) : ~CanBuy(u, r),
            !.bought = {l \in Listings : Owns(u, l)}]]

Begin(k, u) ==
  /\ checkout[k].at = "idle"
  /\ TakeSnapshot(k, u, FALSE)
  /\ UNCHANGED <<shop, books, add, consumer, faults>>

Retry(k) ==
  /\ checkout[k].at = "again"
  /\ TakeSnapshot(k, checkout[k].user, TRUE)
  /\ UNCHANGED <<shop, books, add, consumer, faults>>

\* SELECT ... FOR UPDATE has every row of the snapshot, as it saw them.
HasCart(k) == \A r \in checkout[k].snapshot : r \in cart /\ CartRowFree(r)

\* CHECKOUT_VALIDATION_FAILED: one line is enough to refuse them all.
RefuseLines(k) ==
  /\ checkout[k].at = "begun"
  /\ HasCart(k) /\ checkout[k].refused
  /\ checkout' = [checkout EXCEPT ![k] = Over("ended")]
  /\ UNCHANGED <<shop, books, add, consumer, faults>>

LockCart(k) ==
  /\ checkout[k].at = "begun"
  /\ HasCart(k) /\ ~checkout[k].refused
  /\ Enter(k, "locked")
  /\ UNCHANGED <<shop, books, add, consumer, faults>>

Unwritten(k) == checkout[k].snapshot \ checkout[k].written

\* No purchase of the listing is on record, nor written by an earlier line.
FirstPurchase(k, l) ==
  l \notin checkout[k].bought \cup WrittenListings(k)

\* The rows the line of cart row r updates: the runs, and the listing for its
\* totalUsers.
LineRows(k, r) ==
  {x \in {<<checkout[k].user, ListingOn(r)>>} : ListingOn(r) \in PerRun}
    \cup {l \in {ListingOn(r)} : FirstPurchase(k, l)}

NextLine(k) == {r \in Unwritten(k) : \A q \in Unwritten(k) : r <= q}
NextRows(k) ==
  IF checkout[k].at = "locked" THEN UNION {LineRows(k, r) : r \in NextLine(k)} ELSE {}

\* What k knows once it has made the purchase of r.
WithLine(k, r) ==
  [checkout[k] EXCEPT !.written = @ \cup {r},
                      !.granted[ListingOn(r)] = @ + RunsOf[line[r].item]]

WriteLine(k) ==
  /\ checkout[k].at = "locked"
  /\ NextRows(k) \cap checkout[k].stale = {}
  /\ \A j \in Checkouts \ {k} : NextRows(k) \cap LockedRows(j) = {}
  /\ \E r \in NextLine(k) : checkout' = [checkout EXCEPT ![k] = WithLine(k, r)]
  /\ UNCHANGED <<shop, books, add, consumer, faults>>

\* Mutation of TopUp: the runs of the last pack are all there are.
Replace(x, n) == [x EXCEPT !.granted = @ + n, !.remaining = n]

\* agents_user_runs once the user has bought n more runs: an increment.
TopUp(x, n) == [x EXCEPT !.granted = @ + n, !.remaining = @ + n]

\* Mutations of Deleted: the cart is not emptied; it is emptied of what was
\* added meanwhile, too.
NotDeleted(k) == checkout[k].snapshot \ checkout[k].snapshot
DeletedByUser(k) == CartOf(checkout[k].user)

\* deleteMany deletes what its snapshot shows.
Deleted(k) == checkout[k].snapshot

Commit(k) ==
  /\ checkout[k].at = "locked"
  /\ Unwritten(k) = {}
  /\ cart' = cart \ Deleted(k)
  /\ sold' = [r \in RowIds |-> IF r \in checkout[k].written THEN sold[r] + 1 ELSE sold[r]]
  /\ runs' = [x \in Users \X Listings |->
                IF x \in LockedRows(k) THEN TopUp(runs[x], checkout[k].granted[x[2]]) ELSE runs[x]]
  /\ totalUsers' = [l \in Listings |->
                      IF l \in LockedRows(k) THEN totalUsers[l] + 1 ELSE totalUsers[l]]
  /\ checkout' = [Outdated(LockedRows(k)) EXCEPT ![k] = Over("ended")]
  /\ UNCHANGED <<published, line, totalRuns, add, consumer, faults>>

\* k is in a circle of checkouts each of which waits for a row of the next.
Deadlocked(k) ==
  \E circle \in SUBSET Checkouts :
    /\ k \in circle
    /\ \A j \in circle : \E i \in circle \ {j} : NextRows(j) \cap LockedRows(i) # {}

\* A row of the cart is gone, or the next row to update has changed.
Conflicts(k) ==
  \/ checkout[k].at = "begun" /\ ~(checkout[k].snapshot \subseteq cart)
  \/ NextRows(k) \cap checkout[k].stale # {}
  \/ Deadlocked(k)

\* Mutation of RollBack: every serialization failure is retried.
RollBackAndRetry(k) ==
  checkout' = [checkout EXCEPT ![k] = [Over("again") EXCEPT !.user = checkout[k].user]]

\* The first serialization failure is retried, the second one escapes.
RollBack(k) ==
  checkout' = [checkout EXCEPT ![k] =
    IF @.retried THEN Over("failed") ELSE [Over("again") EXCEPT !.user = checkout[k].user]]

SerializationFailure(k) ==
  /\ Conflicts(k)
  /\ RollBack(k)
  /\ UNCHANGED <<shop, books, add, consumer, faults>>
-----------------------------------------------------------------------------
(* consume *)

EndConsumer(c) == [consumer EXCEPT ![c] = [NoConsumer EXCEPT !.at = "ended"]]
RunsRow(c) == <<consumer[c].user, consumer[c].listing>>

\* The listing is published, sold by the run, and the caller has its key.
Authorize(c, u, l) ==
  /\ consumer[c].at = "idle"
  /\ consumer' = IF l \in published \cap PerRun
                 THEN [consumer EXCEPT ![c] = [at |-> "authorized", user |-> u, listing |-> l]]
                 ELSE EndConsumer(c)
  /\ UNCHANGED <<shop, books, add, checkout, faults>>

\* UPDATE ... SET remainingRuns = remainingRuns - 1 WHERE remainingRuns > 0
Decrement(c) ==
  /\ consumer[c].at = "authorized"
  /\ RowFree(RunsRow(c))
  /\ runs[RunsRow(c)].remaining > 0
  /\ runs' = [runs EXCEPT ![RunsRow(c)].remaining = @ - 1, ![RunsRow(c)].consumed = @ + 1]
  /\ checkout' = Outdated({RunsRow(c)})
  /\ consumer' = [consumer EXCEPT ![c].at = "count"]
  /\ UNCHANGED <<shop, sold, totalUsers, totalRuns, add, faults>>

\* INSUFFICIENT_RUNS
RefuseRun(c) ==
  /\ consumer[c].at = "authorized"
  /\ runs[RunsRow(c)].remaining = 0
  /\ consumer' = EndConsumer(c)
  /\ UNCHANGED <<shop, books, add, checkout, faults>>

CountRun(c) ==
  /\ consumer[c].at = "count"
  /\ RowFree(consumer[c].listing)
  /\ totalRuns' = [totalRuns EXCEPT ![consumer[c].listing] = @ + 1]
  /\ checkout' = Outdated({consumer[c].listing})
  /\ consumer' = EndConsumer(c)
  /\ UNCHANGED <<shop, sold, runs, totalUsers, add, faults>>
-----------------------------------------------------------------------------
(* A statement fails or the process dies: the transaction is rolled back, or *)
(* the consumer has its run, and it is not counted.                          *)

CheckoutFails(k) ==
  /\ checkout[k].at \in {"begun", "locked", "again"}
  /\ checkout' = [checkout EXCEPT ![k] = Over("ended")]
  /\ UNCHANGED <<shop, books, add, consumer, faults>>

ConsumerFails(c) ==
  /\ consumer[c].at = "count"
  /\ consumer' = [consumer EXCEPT ![c].at = "lost"]
  /\ UNCHANGED <<shop, books, add, checkout, faults>>

AllEnded ==
  /\ \A k \in Checkouts : checkout[k].at \in {"ended", "failed"}
  /\ \A c \in Consumers : consumer[c].at \in {"ended", "lost"}
  /\ \A a \in Adds : add[a].at = "ended"
  /\ UNCHANGED vars

CheckoutStep(k) ==
  \/ Retry(k) \/ RefuseLines(k) \/ LockCart(k) \/ WriteLine(k) \/ Commit(k)
  \/ SerializationFailure(k)

Next ==
  \/ \E l \in Moderated : Moderate(l)
  \/ \E a \in Adds :
       \/ \E x \in Added : CheckItem(a, x.user, x.item)
       \/ FindInCart(a) \/ FindRacedRow(a) \/ CreateRow(a)
  \/ \E r \in Removable : RemoveItem(r)
  \/ \E k \in Checkouts :
       \/ \E u \in Users : Begin(k, u)
       \/ CheckoutStep(k) \/ CheckoutFails(k)
  \/ \E c \in Consumers :
       \/ \E u \in Users, l \in Listings : Authorize(c, u, l)
       \/ Decrement(c) \/ RefuseRun(c) \/ CountRun(c) \/ ConsumerFails(c)
  \/ AllEnded

Spec == Init /\ [][Next]_vars

\* The database answers a checkout whose next statement stays possible.
FairSpec == Spec /\ \A k \in Checkouts : WF_vars(CheckoutStep(k))
-----------------------------------------------------------------------------
\* The cart rows a user bought a listing with, and the runs they granted.
Owned(u, l) == {r \in RowIds : sold[r] > 0 /\ line[r].user = u /\ ListingOn(r) = l}
RunsBought(u, l) ==
  SumFunctionOnSet([r \in RowIds |-> IF r \in Owned(u, l) THEN sold[r] * RunsOf[line[r].item] ELSE 0],
                   RowIds)

\* What a user can run is what the purchases granted, less what was consumed,
\* whatever checkouts and consumers interleave, are aborted or die at.
RunsAreExplained ==
  \A u \in Users, l \in Listings :
    LET x == runs[u, l]
    IN /\ x.granted = x.remaining + x.consumed
       /\ x.granted = IF l \in PerRun THEN RunsBought(u, l) ELSE 0

\* totalUsers counts the buyers of a listing, each once, although two checkouts
\* read that there is no earlier purchase in snapshots of their own.
TotalUsersIsBuyers ==
  \A l \in Listings : totalUsers[l] = Cardinality({u \in Users : Owns(u, l)})

\* A cart row is sold at most once, and not after it has left the cart: two
\* checkouts of one cart cannot both grant it.
SoldOnce == \A r \in RowIds : sold[r] <= 1 /\ (sold[r] = 1 => r \notin cart)

\* A FREE or ONE_TIME listing is bought once by a user ...
BoughtOnce == \A u \in Users, l \in Listings \ PerRun : Cardinality(Owned(u, l)) <= 1

\* ... as long as adds of one item to one cart do not overlap: an add that
\* looked before a checkout committed may leave a row of an owned listing in
\* the cart, but the next checkout refuses it.
OwnedOnce == "overlap" \in faults \/ BoughtOnce

\* A step that sells takes from the carts the rows it sells and no others: a row
\* added while the checkout runs stays.
TakesWhatItSells ==
  [][\A r \in RowIds : sold' # sold => (r \in cart \ cart' <=> sold'[r] # sold[r])]_vars

\* The consumers that have a run nobody has counted yet, or never will.
Uncounted(l) ==
  {c \in Consumers : consumer[c].at \in {"count", "lost"} /\ consumer[c].listing = l}

\* totalRuns counts every run consumed, but for those whose consumer has not
\* counted it yet, or never will.
RunsAreCounted ==
  \A l \in Listings :
    SumFunctionOnSet([u \in Users |-> runs[u, l].consumed], Users)
      = totalRuns[l] + Cardinality(Uncounted(l))

\* A checkout is answered: what it waits for is released, a deadlock is broken,
\* and it is retried once, not for ever.
EveryCheckoutEnds ==
  \A k \in Checkouts :
    checkout[k].at \in {"begun", "locked", "again"} ~> checkout[k].at \in {"ended", "failed"}

\* (agents/services/checkout.service.ts, runs.service.ts) What is counted is what
\* happened, whatever checkouts, retries, consumers and failures interleave: the runs a user
\* has left, the buyers of a listing, and the runs consumed of it.
CountersAreTrue == TypeOK /\ RunsAreExplained /\ TotalUsersIsBuyers /\ RunsAreCounted

\* (agents/services/checkout.service.ts, cart.service.ts) No row of a cart is
\* sold twice, and unless adds overlap nobody buys twice what is bought once.
NothingIsSoldTwice == SoldOnce /\ OwnedOnce
=============================================================================
