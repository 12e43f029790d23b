--------------------------- MODULE MarketplaceProofs --------------------------
(***************************************************************************)
(* Proofs about Marketplace, CartPrices, Reviews and Listings: what is     *)
(* bought, at which price, how it is rated, how it is moderated and how it *)
(* is found, for every set of users, listings, cart rows, prices,          *)
(* percentages, ratings, calls and readers.                                *)
(***************************************************************************)
EXTENDS Marketplace, CartPrices, Reviews, Listings, Browse, SumProofs, TLAPS

(***************************************************************************)
(* Marketplace. Inv says who holds which cart rows: what a checkout has    *)
(* locked stays in the cart and is its own, so that no row is sold twice.  *)
(* BuyersInv says that what a checkout saw of the purchases is either what *)
(* they are or stale, and that no row it has locked is stale, so that a    *)
(* buyer it counts was not counted before. GrantsInv says that what a      *)
(* checkout is about to grant is the sum over the lines it has written,    *)
(* which its commit adds to the runs and to the lines sold. OnceInv says   *)
(* that an item has one row in a cart and that a line a checkout does not  *)
(* refuse is not owned; it needs adds that do not overlap.                 *)
(***************************************************************************)
Open == {"begun", "locked"}

Record == [at: {"idle", "begun", "locked", "again", "ended", "failed"},
           user: Users \cup {None}, snapshot: SUBSET RowIds, refused: BOOLEAN,
           bought: SUBSET Listings, written: SUBSET RowIds, granted: [Listings -> Nat],
           stale: SUBSET Rows, retried: BOOLEAN]

\* A row in a cart, or sold, has been created.
RowsInv == \A r \in RowIds : line[r] = None => r \notin cart /\ sold[r] = 0

\* An add or a consumer under way is for a user.
CallersInv ==
  /\ \A a \in Adds : add[a].at \in {"checked", "create"} =>
       add[a].user \in Users /\ add[a].item \in Items
  /\ \A c \in Consumers : consumer[c].at \in {"authorized", "count"} =>
       consumer[c].user \in Users /\ consumer[c].listing \in Listings

\* A checkout writes rows of its user that it has seen, and what it has locked
\* is still in the cart.
CheckoutsInv ==
  \A k \in Checkouts :
    /\ checkout[k].at \in Open \cup {"again"} => checkout[k].user \in Users
    /\ checkout[k].at \in Open =>
         \A r \in checkout[k].snapshot : line[r] \in Line /\ line[r].user = checkout[k].user
    /\ checkout[k].at = "begun" => checkout[k].written = {}
    /\ checkout[k].at = "locked" =>
         checkout[k].snapshot \subseteq cart /\ checkout[k].written \subseteq checkout[k].snapshot

\* A cart row is locked by one checkout.
CartLocksInv ==
  \A j, k \in Checkouts : j # k => LockedCart(j) \cap LockedCart(k) = {}

Inv == TypeOK /\ RowsInv /\ CallersInv /\ CheckoutsInv /\ CartLocksInv /\ SoldOnce

\* The purchases a checkout saw there are, and those it did not see made a row
\* stale.
KnownInv ==
  \A k \in Checkouts, u \in Users :
    checkout[k].at \in Open /\ checkout[k].user = u =>
      /\ \A l \in checkout[k].bought : Owns(u, l)
      /\ \A l \in Listings : Owns(u, l) => l \in checkout[k].bought \cup checkout[k].stale

\* A row is locked by one checkout, and nobody else changes it.
RowLocksInv ==
  /\ \A j, k \in Checkouts : j # k => LockedRows(j) \cap LockedRows(k) = {}
  /\ \A k \in Checkouts : LockedRows(k) \cap checkout[k].stale = {}

BuyersInv == KnownInv /\ RowLocksInv /\ TotalUsersIsBuyers
-----------------------------------------------------------------------------
LEMMA InitInv == Init => Inv
<1> SUFFICES ASSUME Init PROVE Inv
  OBVIOUS
<1> USE MarketAssumption DEF Init
<1>1. TypeOK
  BY DEF TypeOK, NoRuns, NoAdd, NoConsumer, NoCheckout
<1>2. RowsInv /\ SoldOnce
  BY DEF RowsInv, SoldOnce
<1>3. CallersInv /\ CheckoutsInv /\ CartLocksInv
  BY DEF CallersInv, CheckoutsInv, CartLocksInv, LockedCart, Open, NoAdd, NoConsumer, NoCheckout
<1>4. QED
  BY <1>1, <1>2, <1>3 DEF Inv

(* What Outdated leaves alone. *)
LEMMA OutdatedFacts ==
  ASSUME TypeOK, NEW R \in SUBSET Rows
  PROVE  /\ DOMAIN Outdated(R) = Checkouts
         /\ \A k \in Checkouts :
              /\ Outdated(R)[k].at = checkout[k].at
              /\ Outdated(R)[k].user = checkout[k].user
              /\ Outdated(R)[k].snapshot = checkout[k].snapshot
              /\ Outdated(R)[k].refused = checkout[k].refused
              /\ Outdated(R)[k].bought = checkout[k].bought
              /\ Outdated(R)[k].written = checkout[k].written
              /\ Outdated(R)[k].granted = checkout[k].granted
              /\ Outdated(R)[k].retried = checkout[k].retried
              /\ Outdated(R)[k].stale = IF checkout[k].at \in Open
                                        THEN checkout[k].stale \cup R ELSE checkout[k].stale
         /\ Outdated(R) \in [Checkouts -> Record]
<1>1. ASSUME NEW x \in Record
      PROVE  LET y == [x EXCEPT !.stale = @ \cup R]
             IN /\ y \in Record /\ y.stale = x.stale \cup R
                /\ y.at = x.at /\ y.user = x.user /\ y.snapshot = x.snapshot
                /\ y.refused = x.refused /\ y.bought = x.bought /\ y.written = x.written
                /\ y.granted = x.granted /\ y.retried = x.retried
  BY DEF Record
<1>2. \A k \in Checkouts : checkout[k] \in Record
  BY DEF TypeOK, Record
<1>3. \A k \in Checkouts :
        Outdated(R)[k] = IF checkout[k].at \in Open
                         THEN [checkout[k] EXCEPT !.stale = @ \cup R] ELSE checkout[k]
  BY DEF Outdated, Open
<1>4. DOMAIN Outdated(R) = Checkouts
  BY DEF Outdated
<1>5. Outdated(R) \in [Checkouts -> Record]
  BY <1>1, <1>2, <1>3 DEF Outdated, Open
<1>6. ASSUME NEW k \in Checkouts
      PROVE  /\ Outdated(R)[k].at = checkout[k].at
             /\ Outdated(R)[k].user = checkout[k].user
             /\ Outdated(R)[k].snapshot = checkout[k].snapshot
             /\ Outdated(R)[k].refused = checkout[k].refused
             /\ Outdated(R)[k].bought = checkout[k].bought
             /\ Outdated(R)[k].written = checkout[k].written
             /\ Outdated(R)[k].granted = checkout[k].granted
             /\ Outdated(R)[k].retried = checkout[k].retried
             /\ Outdated(R)[k].stale = IF checkout[k].at \in Open
                                       THEN checkout[k].stale \cup R ELSE checkout[k].stale
  <2> DEFINE y == [checkout[k] EXCEPT !.stale = @ \cup R]
  <2>1. /\ y.stale = checkout[k].stale \cup R
        /\ y.at = checkout[k].at /\ y.user = checkout[k].user
        /\ y.snapshot = checkout[k].snapshot /\ y.refused = checkout[k].refused
        /\ y.bought = checkout[k].bought /\ y.written = checkout[k].written
        /\ y.granted = checkout[k].granted /\ y.retried = checkout[k].retried
    BY <1>1, <1>2
  <2>2. Outdated(R)[k] = IF checkout[k].at \in Open THEN y ELSE checkout[k]
    BY <1>3
  <2> HIDE DEF y
  <2>3. QED
    BY <2>1, <2>2
<1>7. QED
  BY <1>4, <1>5, <1>6

(* Steps that change neither rows of carts nor what checkouts hold. *)
LEMMA AsideKeepsInv ==
  ASSUME Inv, NEW R \in SUBSET Rows, checkout' = Outdated(R) \/ UNCHANGED checkout,
         UNCHANGED <<line, cart, sold>>
  PROVE  RowsInv' /\ CheckoutsInv' /\ CartLocksInv' /\ SoldOnce'
<1> USE DEF Inv
<1>1. \A k \in Checkouts :
        /\ checkout'[k].at = checkout[k].at
        /\ checkout'[k].user = checkout[k].user
        /\ checkout'[k].snapshot = checkout[k].snapshot
        /\ checkout'[k].written = checkout[k].written
  BY ZenonT(30), OutdatedFacts
<1>2. RowsInv' /\ SoldOnce'
  BY DEF RowsInv, SoldOnce
<1>3. CheckoutsInv'
  BY <1>1 DEF CheckoutsInv
<1>4. CartLocksInv'
  BY <1>1 DEF CartLocksInv, LockedCart
<1>5. QED
  BY <1>2, <1>3, <1>4

LEMMA CatalogueKeepsInv ==
  ASSUME Inv, NEW l \in Listings, Moderate(l)
  PROVE  Inv'
<1> USE DEF Inv
<1>1. /\ published' \subseteq Listings /\ checkout' = Outdated({l})
      /\ UNCHANGED <<line, cart, sold, runs, totalUsers, totalRuns, add, consumer, faults>>
  BY DEF Moderate, TypeOK, books
<1>2. {l} \in SUBSET Rows
  BY DEF Rows
<1>3. TypeOK'
  BY <1>1, <1>2, OutdatedFacts DEF TypeOK, Record
<1>4. CallersInv'
  BY <1>1 DEF CallersInv
<1>5. QED
  BY <1>1, <1>2, <1>3, <1>4, AsideKeepsInv

LEMMA AddKeepsInv ==
  ASSUME Inv, NEW a \in Adds,
         \/ \E x \in Added : CheckItem(a, x.user, x.item)
         \/ FindInCart(a) \/ FindRacedRow(a) \/ CreateRow(a)
  PROVE  Inv'
<1> USE MarketAssumption DEF Inv
<1>1. ASSUME UNCHANGED <<shop, books, checkout, consumer, faults>>,
             NEW x \in [at: {"idle", "checked", "create", "ended"},
                        user: Users \cup {None}, item: Items \cup {None}],
             add' = [add EXCEPT ![a] = x],
             x.at \in {"checked", "create"} => x.user \in Users /\ x.item \in Items
      PROVE  Inv'
  <2>1. UNCHANGED <<published, line, cart, sold, runs, totalUsers, totalRuns>>
    BY <1>1 DEF shop, books
  <2>2. TypeOK'
    BY <1>1, <2>1 DEF TypeOK
  <2>3. CallersInv'
    BY <1>1 DEF TypeOK, CallersInv
  <2>4. QED
    BY <1>1, <2>1, <2>2, <2>3, AsideKeepsInv
<1>2. ASSUME UNCHANGED <<shop, books, checkout, consumer, faults>>, EndAdd(a) PROVE Inv'
  <2>1. [NoAdd EXCEPT !.at = "ended"] \in [at: {"idle", "checked", "create", "ended"},
                                           user: Users \cup {None}, item: Items \cup {None}]
    BY DEF NoAdd
  <2>2. [NoAdd EXCEPT !.at = "ended"].at = "ended"
    BY DEF NoAdd
  <2>3. QED
    BY <1>1, <1>2, <2>1, <2>2 DEF EndAdd
<1>3. ASSUME NEW x \in Added, CheckItem(a, x.user, x.item) PROVE Inv'
  <2>1. x.user \in Users /\ x.item \in Items
    BY DEF Line
  <2>2. CASE EndAdd(a)
    BY <1>2, <1>3, <2>2 DEF CheckItem
  <2>3. CASE add' = [add EXCEPT ![a] = [at |-> "checked", user |-> x.user, item |-> x.item]]
    BY <1>1, <1>3, <2>1, <2>3 DEF CheckItem
  <2>4. QED
    BY <1>3, <2>2, <2>3 DEF CheckItem
<1>4. CASE FindInCart(a)
  <2>1. CASE EndAdd(a)
    BY <1>2, <1>4, <2>1 DEF FindInCart
  <2>2. CASE add' = [add EXCEPT ![a].at = "create"]
    <3>1. add' = [add EXCEPT ![a] = [add[a] EXCEPT !.at = "create"]]
      BY <2>2 DEF TypeOK
    <3>2. [add[a] EXCEPT !.at = "create"] \in [at: {"idle", "checked", "create", "ended"},
                                               user: Users \cup {None}, item: Items \cup {None}]
      <4>1. add[a] \in [at: {"idle", "checked", "create", "ended"},
                        user: Users \cup {None}, item: Items \cup {None}]
        BY DEF TypeOK
      <4>2. QED
        BY <4>1
    <3>3. add[a].user \in Users /\ add[a].item \in Items
      BY <1>4 DEF FindInCart, CallersInv
    <3>4. /\ [add[a] EXCEPT !.at = "create"].user = add[a].user
          /\ [add[a] EXCEPT !.at = "create"].item = add[a].item
      BY DEF TypeOK
    <3>5. QED
      BY <1>1, <1>4, <3>1, <3>2, <3>3, <3>4 DEF FindInCart
  <2>3. QED
    BY <1>4, <2>1, <2>2 DEF FindInCart
<1>5. CASE FindRacedRow(a)
  BY <1>2, <1>5 DEF FindRacedRow
<1>6. CASE CreateRow(a)
  <2>1. PICK r \in RowIds :
          /\ line[r] = None
          /\ line' = [line EXCEPT ![r] = [user |-> add[a].user, item |-> add[a].item]]
          /\ cart' = cart \cup {r}
    BY <1>6 DEF CreateRow
  <2>2. [user |-> add[a].user, item |-> add[a].item] \in Line
    BY <1>6 DEF CreateRow, CallersInv, Line
  <2>3. /\ add' = [add EXCEPT ![a] = [NoAdd EXCEPT !.at = "ended"]]
        /\ UNCHANGED <<published, sold, runs, totalUsers, totalRuns, checkout, consumer, faults>>
    BY <1>6 DEF CreateRow, EndAdd, books
  <2>4. TypeOK'
    BY <2>1, <2>2, <2>3 DEF TypeOK, NoAdd
  <2>5. r \notin cart /\ sold[r] = 0
    BY <2>1 DEF RowsInv
  <2>6. RowsInv'
    BY <2>1, <2>2, <2>3 DEF RowsInv, TypeOK
  <2>7. SoldOnce'
    BY <2>1, <2>3, <2>5 DEF SoldOnce, TypeOK
  <2>8. CallersInv'
    BY <2>3 DEF CallersInv, TypeOK, NoAdd
  <2>9. CheckoutsInv'
    BY <2>1, <2>3 DEF CheckoutsInv, TypeOK, Open
  <2>10. CartLocksInv'
    BY <2>3 DEF CartLocksInv, LockedCart
  <2>11. QED
    BY <2>4, <2>6, <2>7, <2>8, <2>9, <2>10
<1>7. QED
  BY <1>3, <1>4, <1>5, <1>6

LEMMA RemoveKeepsInv ==
  ASSUME Inv, NEW r \in RowIds, RemoveItem(r)
  PROVE  Inv'
<1> USE DEF Inv
<1>1. /\ cart' = cart \ {r} /\ \A k \in Checkouts : r \notin LockedCart(k)
      /\ UNCHANGED <<published, line, sold, runs, totalUsers, totalRuns, add, checkout, consumer, faults>>
  BY DEF RemoveItem, CartRowFree, books
<1>2. TypeOK' /\ RowsInv' /\ SoldOnce' /\ CallersInv'
  BY <1>1 DEF TypeOK, RowsInv, SoldOnce, CallersInv
<1>3. CheckoutsInv' /\ CartLocksInv'
  BY <1>1 DEF CheckoutsInv, CartLocksInv, LockedCart, Open
<1>4. QED
  BY <1>2, <1>3

LEMMA ConsumerKeepsInv ==
  ASSUME Inv, NEW c \in Consumers,
         \/ \E u \in Users, l \in Listings : Authorize(c, u, l)
         \/ Decrement(c) \/ RefuseRun(c) \/ CountRun(c) \/ ConsumerFails(c)
  PROVE  Inv'
<1> USE DEF Inv
<1> DEFINE Caller == [at: {"idle", "authorized", "count", "lost", "ended"},
                      user: Users \cup {None}, listing: Listings \cup {None}]
<1>1. ASSUME NEW x \in Caller, consumer' = [consumer EXCEPT ![c] = x],
             x.at \in {"authorized", "count"} => x.user \in Users /\ x.listing \in Listings,
             NEW R \in SUBSET Rows, checkout' = Outdated(R) \/ UNCHANGED checkout,
             runs' \in [Users \X Listings -> [granted: Nat, remaining: Nat, consumed: Nat]],
             totalRuns' \in [Listings -> Nat],
             UNCHANGED <<published, line, cart, sold, totalUsers, add, faults>>
      PROVE  Inv'
  <2>1. checkout' \in [Checkouts -> Record]
    <3>1. CASE checkout' = Outdated(R)
      <4>1. Outdated(R) \in [Checkouts -> Record]
        BY OutdatedFacts
      <4>2. QED
        BY <3>1, <4>1
    <3>2. CASE UNCHANGED checkout
      BY <3>2 DEF TypeOK, Record
    <3>3. QED
      BY <1>1, <3>1, <3>2
  <2>2. TypeOK'
    BY <1>1, <2>1 DEF TypeOK, Record
  <2>3. CallersInv'
    BY <1>1 DEF TypeOK, CallersInv
  <2>4. QED
    BY <1>1, <2>2, <2>3, AsideKeepsInv
<1>2. {} \in SUBSET Rows
  OBVIOUS
<1>3. /\ runs \in [Users \X Listings -> [granted: Nat, remaining: Nat, consumed: Nat]]
      /\ totalRuns \in [Listings -> Nat] /\ consumer[c] \in Caller
  BY DEF TypeOK
<1>4. [NoConsumer EXCEPT !.at = "ended"] \in Caller /\ [NoConsumer EXCEPT !.at = "ended"].at = "ended"
  BY DEF NoConsumer
<1>5. ASSUME NEW u \in Users, NEW l \in Listings, Authorize(c, u, l) PROVE Inv'
  <2>1. UNCHANGED <<published, line, cart, sold, runs, totalUsers, totalRuns, add, checkout, faults>>
    BY <1>5 DEF Authorize, shop, books
  <2>2. CASE consumer' = EndConsumer(c)
    BY <1>1, <1>2, <1>3, <1>4, <2>1, <2>2 DEF EndConsumer
  <2>3. CASE consumer' = [consumer EXCEPT ![c] = [at |-> "authorized", user |-> u, listing |-> l]]
    BY <1>1, <1>2, <1>3, <2>1, <2>3
  <2>4. QED
    BY <1>5, <2>2, <2>3 DEF Authorize
<1>6. ASSUME NEW s \in {"count", "lost"}
      PROVE  /\ [consumer[c] EXCEPT !.at = s] \in Caller
             /\ [consumer[c] EXCEPT !.at = s].at = s
             /\ [consumer[c] EXCEPT !.at = s].user = consumer[c].user
             /\ [consumer[c] EXCEPT !.at = s].listing = consumer[c].listing
  BY <1>3
<1>7. CASE Decrement(c)
  <2>1. RunsRow(c) \in Users \X Listings /\ consumer[c].user \in Users /\ consumer[c].listing \in Listings
    BY <1>7 DEF Decrement, CallersInv, RunsRow
  <2>2. runs[RunsRow(c)].remaining - 1 \in Nat
    BY <1>3, <1>7, <2>1 DEF Decrement
  <2>3. runs' = [runs EXCEPT ![RunsRow(c)].remaining = @ - 1, ![RunsRow(c)].consumed = @ + 1]
    BY <1>7 DEF Decrement
  <2>4. runs' \in [Users \X Listings -> [granted: Nat, remaining: Nat, consumed: Nat]]
    BY <1>3, <2>1, <2>2, <2>3
  <2>5. consumer' = [consumer EXCEPT ![c] = [consumer[c] EXCEPT !.at = "count"]]
    BY <1>7 DEF Decrement, TypeOK
  <2>6. {RunsRow(c)} \in SUBSET Rows
    BY <2>1 DEF Rows
  <2>7. /\ checkout' = Outdated({RunsRow(c)})
        /\ UNCHANGED <<published, line, cart, sold, totalUsers, totalRuns, add, faults>>
    BY <1>7 DEF Decrement, shop
  <2>8. QED
    BY <1>1, <1>3, <1>6, <2>1, <2>4, <2>5, <2>6, <2>7
<1>8. CASE RefuseRun(c)
  BY <1>1, <1>2, <1>3, <1>4, <1>8 DEF RefuseRun, EndConsumer, shop, books
<1>9. CASE CountRun(c)
  <2>1. consumer[c].listing \in Listings
    BY <1>9 DEF CountRun, CallersInv
  <2>2. totalRuns' \in [Listings -> Nat]
    BY <1>3, <1>9, <2>1 DEF CountRun
  <2>3. {consumer[c].listing} \in SUBSET Rows
    BY <2>1 DEF Rows
  <2>4. QED
    BY <1>1, <1>3, <1>4, <1>9, <2>2, <2>3 DEF CountRun, EndConsumer, shop
<1>10. CASE ConsumerFails(c)
  <2>1. consumer' = [consumer EXCEPT ![c] = [consumer[c] EXCEPT !.at = "lost"]]
    BY <1>10 DEF ConsumerFails, TypeOK
  <2>2. QED
    BY <1>1, <1>2, <1>3, <1>6, <1>10, <2>1 DEF ConsumerFails, shop, books
<1>11. QED
  BY <1>5, <1>7, <1>8, <1>9, <1>10

(* A checkout takes a step that nobody else sees. *)
LEMMA LocalStepKeepsInv ==
  ASSUME Inv, NEW k \in Checkouts, NEW x \in Record,
         checkout' = [checkout EXCEPT ![k] = x],
         UNCHANGED <<shop, books, add, consumer, faults>>,
         x.at \in Open \cup {"again"} => x.user \in Users,
         x.at \in Open => \A r \in x.snapshot : line[r] \in Line /\ line[r].user = x.user,
         x.at = "begun" => x.written = {},
         x.at = "locked" =>
           /\ x.snapshot \subseteq cart /\ x.written \subseteq x.snapshot
           /\ \A j \in Checkouts \ {k} : LockedCart(j) \cap x.snapshot = {}
  PROVE  Inv'
<1> USE DEF Inv
<1>1. UNCHANGED <<published, line, cart, sold, runs, totalUsers, totalRuns>>
  BY DEF shop, books
<1>2. checkout'[k] = x /\ \A j \in Checkouts \ {k} : checkout'[j] = checkout[j]
  BY DEF TypeOK
<1>3. checkout' \in [Checkouts -> Record]
  BY DEF TypeOK, Record
<1>4. TypeOK'
  BY <1>1, <1>3 DEF TypeOK, Record
<1>5. RowsInv' /\ SoldOnce' /\ CallersInv'
  BY <1>1 DEF RowsInv, SoldOnce, CallersInv
<1>6. CheckoutsInv'
  BY <1>1, <1>2 DEF CheckoutsInv
<1>7. CartLocksInv'
  BY <1>2 DEF CartLocksInv, LockedCart
<1>8. QED
  BY <1>4, <1>5, <1>6, <1>7

LEMMA OverFacts ==
  ASSUME NEW s \in {"again", "ended", "failed"}
  PROVE  Over(s) \in Record /\ Over(s).at = s /\ Over(s).snapshot = {}
BY DEF Over, NoCheckout, Record

(* What writing a line changes. *)
LEMMA WriteLineFacts ==
  ASSUME Inv, NEW k \in Checkouts, WriteLine(k)
  PROVE  \E r \in NextLine(k) :
           /\ r \in checkout[k].snapshot
           /\ line[r] \in Line
           /\ ListingOn(r) \in Listings
           /\ checkout' = [checkout EXCEPT ![k] = WithLine(k, r)]
           /\ WithLine(k, r) \in Record
           /\ WithLine(k, r).at = "locked"
           /\ WithLine(k, r).user = checkout[k].user
           /\ WithLine(k, r).snapshot = checkout[k].snapshot
           /\ WithLine(k, r).bought = checkout[k].bought
           /\ WithLine(k, r).stale = checkout[k].stale
           /\ WithLine(k, r).written = checkout[k].written \cup {r}
           /\ WithLine(k, r).granted =
                [checkout[k].granted EXCEPT ![ListingOn(r)] = @ + RunsOf[line[r].item]]
           /\ WithLine(k, r).refused = checkout[k].refused
<1> USE MarketAssumption DEF Inv
<1>1. PICK r \in NextLine(k) : checkout' = [checkout EXCEPT ![k] = WithLine(k, r)]
  BY DEF WriteLine
<1>2. r \in checkout[k].snapshot /\ checkout[k].at = "locked"
  BY DEF NextLine, Unwritten, WriteLine
<1>3. line[r] \in Line
  BY <1>2 DEF CheckoutsInv, Open
<1>4. ListingOn(r) \in Listings /\ RunsOf[line[r].item] \in Nat
  BY <1>3 DEF ListingOn, Line
<1>6. checkout[k] \in Record
  BY DEF TypeOK, Record
<1>7. r \in RowIds
  BY <1>2, <1>6 DEF Record
<1> DEFINE n == RunsOf[line[r].item]
           l == ListingOn(r)
<1>8. ASSUME NEW x \in Record, NEW y,
             y = [x EXCEPT !.written = @ \cup {r}, !.granted[l] = @ + n]
      PROVE  /\ y \in Record /\ y.at = x.at /\ y.user = x.user /\ y.snapshot = x.snapshot
             /\ y.bought = x.bought /\ y.stale = x.stale /\ y.written = x.written \cup {r}
             /\ y.granted = [x.granted EXCEPT ![l] = @ + n]
  <2> HIDE DEF n, l
  <2>1. l \in Listings /\ n \in Nat
    BY <1>4 DEF n, l
  <2>2. [x.granted EXCEPT ![l] = @ + n] \in [Listings -> Nat]
    BY <2>1 DEF Record
  <2>3. QED
    BY <1>7, <1>8, <2>2 DEF Record
<1>9. WithLine(k, r).refused = checkout[k].refused
  BY <1>6 DEF WithLine, Record
<1>10. QED
  BY ZenonT(30), <1>1, <1>2, <1>3, <1>4, <1>6, <1>8, <1>9 DEF WithLine

(* What a snapshot knows. *)
Snapshot(u, retried) ==
  [NoCheckout EXCEPT
     !.at = "begun", !.user = u, !.snapshot = CartOf(u), !.retried = retried,
     !.refused = \E r \in CartOf(u) : ~CanBuy(u, r),
     !.bought = {l \in Listings : Owns(u, l)}]

LEMMA SnapshotFacts ==
  ASSUME Inv, NEW u \in Users, NEW retried \in BOOLEAN
  PROVE  /\ Snapshot(u, retried) \in Record
         /\ Snapshot(u, retried).at = "begun"
         /\ Snapshot(u, retried).user = u
         /\ Snapshot(u, retried).snapshot = CartOf(u)
         /\ Snapshot(u, retried).bought = {l \in Listings : Owns(u, l)}
         /\ Snapshot(u, retried).written = {}
         /\ Snapshot(u, retried).stale = {}
         /\ Snapshot(u, retried).granted = [l \in Listings |-> 0]
         /\ Snapshot(u, retried).refused = \E r \in CartOf(u) : ~CanBuy(u, r)
<1> DEFINE refusal == \E r \in CartOf(u) : ~CanBuy(u, r)
           seen == CartOf(u)
           owned == {l \in Listings : Owns(u, l)}
           none == NoCheckout
           zero == [l \in Listings |-> 0]
<1>1. seen \in SUBSET RowIds
  BY DEF CartOf, Inv, TypeOK
<1>2. refusal \in BOOLEAN /\ owned \in SUBSET Listings
  OBVIOUS
<1>3. none \in Record /\ none.written = {} /\ none.stale = {} /\ none.granted = zero
  BY DEF NoCheckout, Record
<1>4. Snapshot(u, retried) =
        [none EXCEPT !.at = "begun", !.user = u, !.snapshot = seen, !.retried = retried,
                     !.refused = refusal, !.bought = owned]
  BY DEF Snapshot
<1> HIDE DEF refusal, seen, owned, none, zero
<1>5. /\ Snapshot(u, retried) \in Record
      /\ Snapshot(u, retried).at = "begun" /\ Snapshot(u, retried).user = u
      /\ Snapshot(u, retried).snapshot = seen /\ Snapshot(u, retried).bought = owned
      /\ Snapshot(u, retried).written = {} /\ Snapshot(u, retried).stale = {}
      /\ Snapshot(u, retried).granted = zero /\ Snapshot(u, retried).refused = refusal
  BY <1>1, <1>2, <1>3, <1>4 DEF Record
<1>6. QED
  BY <1>5 DEF owned, seen, zero, refusal

LEMMA CheckoutKeepsInv ==
  ASSUME Inv, NEW k \in Checkouts,
         \/ \E u \in Users : Begin(k, u)
         \/ Retry(k) \/ RefuseLines(k) \/ LockCart(k) \/ WriteLine(k)
         \/ SerializationFailure(k) \/ CheckoutFails(k)
  PROVE  Inv'
<1> USE MarketAssumption
<1>1. ASSUME NEW s \in {"ended", "failed"}, checkout' = [checkout EXCEPT ![k] = Over(s)],
             UNCHANGED <<shop, books, add, consumer, faults>>
      PROVE  Inv'
  BY <1>1, OverFacts, LocalStepKeepsInv DEF Open
<1>2. ASSUME NEW u \in Users, NEW retried \in BOOLEAN, TakeSnapshot(k, u, retried),
             UNCHANGED <<shop, books, add, consumer, faults>>
      PROVE  Inv'
  <2>1. CASE checkout' = [checkout EXCEPT ![k] = Over("ended")]
    BY <1>1, <1>2, <2>1
  <2>2. CASE checkout' = [checkout EXCEPT ![k] = Snapshot(u, retried)]
    <3>1. \A r \in CartOf(u) : line[r] \in Line /\ line[r].user = u
      BY DEF CartOf, Inv, RowsInv, TypeOK
    <3>2. /\ Snapshot(u, retried) \in Record
          /\ Snapshot(u, retried).at = "begun"
          /\ Snapshot(u, retried).user = u
          /\ Snapshot(u, retried).snapshot = CartOf(u)
          /\ Snapshot(u, retried).written = {}
      BY SnapshotFacts
    <3>3. QED
      BY <1>2, <2>2, <3>1, <3>2, LocalStepKeepsInv
  <2>3. QED
    BY <1>2, <2>1, <2>2 DEF TakeSnapshot, Snapshot
<1>3. ASSUME NEW u \in Users, Begin(k, u) PROVE Inv'
  BY <1>2, <1>3 DEF Begin
<1>4. CASE Retry(k)
  <2>1. checkout[k].user \in Users
    BY <1>4 DEF Retry, Inv, CheckoutsInv
  <2>2. QED
    BY <1>2, <1>4, <2>1 DEF Retry
<1>5. CASE RefuseLines(k)
  BY <1>1, <1>5 DEF RefuseLines
<1>6. CASE LockCart(k)
  <2> DEFINE x == [checkout[k] EXCEPT !.at = "locked"]
  <2>1. checkout[k] \in Record
    BY DEF Inv, TypeOK, Record
  <2>2. /\ x \in Record /\ x.at = "locked" /\ x.user = checkout[k].user
        /\ x.snapshot = checkout[k].snapshot /\ x.written = checkout[k].written
    BY <2>1 DEF Record
  <2>3. checkout' = [checkout EXCEPT ![k] = x]
    BY <1>6 DEF LockCart, Enter, Inv, TypeOK
  <2>4. /\ checkout[k].at = "begun"
        /\ \A r \in checkout[k].snapshot : r \in cart /\ \A j \in Checkouts : r \notin LockedCart(j)
        /\ UNCHANGED <<shop, books, add, consumer, faults>>
    BY <1>6 DEF LockCart, HasCart, CartRowFree
  <2>5. /\ checkout[k].user \in Users /\ checkout[k].written = {}
        /\ \A r \in checkout[k].snapshot : line[r] \in Line /\ line[r].user = checkout[k].user
    BY <2>4 DEF Inv, CheckoutsInv, Open
  <2> HIDE DEF x
  <2>6. QED
    BY <2>2, <2>3, <2>4, <2>5, LocalStepKeepsInv
<1>7. CASE WriteLine(k)
  <2>1. PICK r \in NextLine(k) :
          /\ r \in checkout[k].snapshot
          /\ checkout' = [checkout EXCEPT ![k] = WithLine(k, r)]
          /\ WithLine(k, r) \in Record
          /\ WithLine(k, r).at = "locked"
          /\ WithLine(k, r).user = checkout[k].user
          /\ WithLine(k, r).snapshot = checkout[k].snapshot
          /\ WithLine(k, r).written = checkout[k].written \cup {r}
    BY <1>7, WriteLineFacts
  <2>2. checkout[k].at = "locked" /\ UNCHANGED <<shop, books, add, consumer, faults>>
    BY <1>7 DEF WriteLine
  <2>3. /\ checkout[k].user \in Users
        /\ checkout[k].snapshot \subseteq cart /\ checkout[k].written \subseteq checkout[k].snapshot
        /\ \A q \in checkout[k].snapshot : line[q] \in Line /\ line[q].user = checkout[k].user
    BY <2>2 DEF Inv, CheckoutsInv, Open
  <2>4. \A j \in Checkouts \ {k} : LockedCart(j) \cap checkout[k].snapshot = {}
    BY <2>2 DEF Inv, CartLocksInv, LockedCart
  <2>5. QED
    BY <2>1, <2>2, <2>3, <2>4, LocalStepKeepsInv
<1>8. CASE SerializationFailure(k)
  <2>1. CASE checkout' = [checkout EXCEPT ![k] = Over("failed")]
    BY <1>1, <1>8, <2>1 DEF SerializationFailure
  <2>2. CASE checkout' = [checkout EXCEPT ![k] = [Over("again") EXCEPT !.user = checkout[k].user]]
    <3>1. checkout[k].at \in Open
      BY <1>8 DEF SerializationFailure, Conflicts, NextRows, Deadlocked, Open
    <3>2. checkout[k].user \in Users
      BY <3>1 DEF Inv, CheckoutsInv
    <3>3. /\ [Over("again") EXCEPT !.user = checkout[k].user] \in Record
          /\ [Over("again") EXCEPT !.user = checkout[k].user].at = "again"
          /\ [Over("again") EXCEPT !.user = checkout[k].user].user = checkout[k].user
      BY <3>2 DEF Over, NoCheckout, Record
    <3>4. QED
      BY <1>8, <2>2, <3>2, <3>3, LocalStepKeepsInv DEF SerializationFailure, Open
  <2>3. QED
    BY <1>8, <2>1, <2>2 DEF SerializationFailure, RollBack
<1>9. CASE CheckoutFails(k)
  BY <1>1, <1>9 DEF CheckoutFails
<1>10. QED
  BY <1>3, <1>4, <1>5, <1>6, <1>7, <1>8, <1>9

(* A checkout that commits has written what it has locked, which is in the *)
(* cart and was not sold.                                                  *)
LEMMA CommitFacts ==
  ASSUME Inv, NEW k \in Checkouts, Commit(k)
  PROVE  /\ checkout[k].at = "locked"
         /\ checkout[k].written = checkout[k].snapshot
         /\ checkout[k].snapshot \subseteq cart
         /\ \A r \in checkout[k].snapshot : sold[r] = 0 /\ line[r] \in Line
         /\ cart' = cart \ checkout[k].snapshot
         /\ sold' = [r \in RowIds |-> IF r \in checkout[k].snapshot THEN 1 ELSE sold[r]]
         /\ LockedRows(k) \in SUBSET Rows
         /\ checkout' \in [Checkouts -> Record]
         /\ checkout'[k] = Over("ended")
         /\ \A j \in Checkouts \ {k} : checkout'[j] = Outdated(LockedRows(k))[j]
<1> USE MarketAssumption DEF Inv
<1>1. checkout[k].at = "locked" /\ Unwritten(k) = {}
  BY DEF Commit
<1>2. /\ checkout[k].user \in Users
      /\ checkout[k].snapshot \subseteq cart /\ checkout[k].written \subseteq checkout[k].snapshot
      /\ \A r \in checkout[k].snapshot : line[r] \in Line
  BY <1>1 DEF CheckoutsInv, Open
<1>3. checkout[k].written = checkout[k].snapshot
  BY <1>1, <1>2 DEF Unwritten
<1>4. \A r \in checkout[k].snapshot : r \in RowIds /\ sold[r] = 0
  <2> SUFFICES ASSUME NEW r \in checkout[k].snapshot PROVE r \in RowIds /\ sold[r] = 0
    OBVIOUS
  <2>1. r \in cart /\ r \in RowIds /\ sold[r] \in Nat
    BY <1>2 DEF TypeOK
  <2>2. QED
    BY <2>1 DEF SoldOnce
<1>5. sold' = [r \in RowIds |-> IF r \in checkout[k].snapshot THEN 1 ELSE sold[r]]
  <2>1. sold' = [r \in RowIds |-> IF r \in checkout[k].written THEN sold[r] + 1 ELSE sold[r]]
    BY DEF Commit
  <2>2. QED
    BY <1>3, <1>4, <2>1
<1>6. cart' = cart \ checkout[k].snapshot
  BY DEF Commit, Deleted
<1>7. \A r \in checkout[k].written : ListingOn(r) \in Listings
  BY <1>2, <1>3 DEF ListingOn, Line
<1>8. LockedRows(k) \in SUBSET Rows
  BY <1>2, <1>7 DEF LockedRows, NewListings, WrittenListings, Rows
<1>9. checkout' = [Outdated(LockedRows(k)) EXCEPT ![k] = Over("ended")]
  BY DEF Commit
<1>10. Outdated(LockedRows(k)) \in [Checkouts -> Record]
  BY <1>8, OutdatedFacts
<1>11. checkout' \in [Checkouts -> Record] /\ checkout'[k] = Over("ended")
       /\ \A j \in Checkouts \ {k} : checkout'[j] = Outdated(LockedRows(k))[j]
  BY <1>9, <1>10, OverFacts
<1>12. QED
  BY <1>1, <1>2, <1>3, <1>4, <1>5, <1>6, <1>8, <1>11

LEMMA TopUpFacts ==
  ASSUME NEW x \in [granted: Nat, remaining: Nat, consumed: Nat], NEW n \in Nat
  PROVE  TopUp(x, n) \in [granted: Nat, remaining: Nat, consumed: Nat]
<1> DEFINE a == x.granted + n
           b == x.remaining + n
<1>1. a \in Nat /\ b \in Nat
  OBVIOUS
<1>2. TopUp(x, n) = [x EXCEPT !.granted = a, !.remaining = b]
  BY DEF TopUp
<1> HIDE DEF a, b
<1>3. QED
  BY <1>1, <1>2

LEMMA CommitKeepsInv ==
  ASSUME Inv, NEW k \in Checkouts, Commit(k)
  PROVE  Inv'
<1> USE MarketAssumption DEF Inv
<1>1. /\ checkout[k].at = "locked"
      /\ checkout[k].snapshot \subseteq cart
      /\ \A r \in checkout[k].snapshot : sold[r] = 0 /\ line[r] \in Line
      /\ cart' = cart \ checkout[k].snapshot
      /\ sold' = [r \in RowIds |-> IF r \in checkout[k].snapshot THEN 1 ELSE sold[r]]
      /\ LockedRows(k) \in SUBSET Rows
      /\ checkout' \in [Checkouts -> Record]
      /\ checkout'[k] = Over("ended")
      /\ \A j \in Checkouts \ {k} : checkout'[j] = Outdated(LockedRows(k))[j]
  BY CommitFacts
<1>2. UNCHANGED <<published, line, totalRuns, add, consumer, faults>>
  BY DEF Commit
<1>3. Over("ended").at = "ended" /\ Over("ended").snapshot = {}
  BY OverFacts
<1>4. \A j \in Checkouts \ {k} :
        /\ checkout'[j].at = checkout[j].at /\ checkout'[j].user = checkout[j].user
        /\ checkout'[j].snapshot = checkout[j].snapshot
        /\ checkout'[j].written = checkout[j].written
  <2> DEFINE R == LockedRows(k)
  <2>1. R \in SUBSET Rows /\ \A j \in Checkouts \ {k} : checkout'[j] = Outdated(R)[j]
    BY <1>1
  <2> HIDE DEF R
  <2>2. \A j \in Checkouts :
          /\ Outdated(R)[j].at = checkout[j].at /\ Outdated(R)[j].user = checkout[j].user
          /\ Outdated(R)[j].snapshot = checkout[j].snapshot
          /\ Outdated(R)[j].written = checkout[j].written
    BY ZenonT(30), <2>1, OutdatedFacts
  <2>3. QED
    BY <2>1, <2>2
<1>5. runs' \in [Users \X Listings -> [granted: Nat, remaining: Nat, consumed: Nat]]
  <2>1. \A x \in Users \X Listings : x[2] \in Listings /\ checkout[k].granted[x[2]] \in Nat
    BY DEF TypeOK
  <2>2. \A x \in Users \X Listings :
          TopUp(runs[x], checkout[k].granted[x[2]]) \in [granted: Nat, remaining: Nat, consumed: Nat]
    <3>1. ASSUME NEW x \in [granted: Nat, remaining: Nat, consumed: Nat], NEW n \in Nat
          PROVE  TopUp(x, n) \in [granted: Nat, remaining: Nat, consumed: Nat]
      BY <3>1, TopUpFacts
    <3>2. \A x \in Users \X Listings : runs[x] \in [granted: Nat, remaining: Nat, consumed: Nat]
      BY DEF TypeOK
    <3>3. ASSUME NEW x \in Users \X Listings
          PROVE  TopUp(runs[x], checkout[k].granted[x[2]]) \in [granted: Nat, remaining: Nat, consumed: Nat]
      <4>1. checkout[k].granted[x[2]] \in Nat
        BY <2>1
      <4>2. runs[x] \in [granted: Nat, remaining: Nat, consumed: Nat]
        BY <3>2
      <4>3. QED
        BY <3>1, <4>1, <4>2
    <3>4. QED
      BY <3>3
  <2>3. runs' = [x \in Users \X Listings |->
                   IF x \in LockedRows(k) THEN TopUp(runs[x], checkout[k].granted[x[2]]) ELSE runs[x]]
    BY DEF Commit
  <2>4. QED
    BY <2>2, <2>3 DEF TypeOK
<1>6. totalUsers' \in [Listings -> Nat]
  BY DEF Commit, TypeOK
<1>7. sold' \in [RowIds -> Nat] /\ cart' \subseteq RowIds
  BY <1>1 DEF TypeOK
<1>8. TypeOK'
  BY <1>1, <1>2, <1>5, <1>6, <1>7 DEF TypeOK, Record
<1>9. RowsInv' /\ SoldOnce'
  BY <1>1, <1>2 DEF RowsInv, SoldOnce, TypeOK
<1>10. CallersInv'
  BY <1>2 DEF CallersInv
<1>11. \A j \in Checkouts \ {k} :
         checkout[j].at = "locked" => checkout[j].snapshot \cap checkout[k].snapshot = {}
  BY <1>1 DEF CartLocksInv, LockedCart
<1>12. CheckoutsInv'
  BY <1>1, <1>2, <1>3, <1>4, <1>11 DEF CheckoutsInv, Open
<1>13. CartLocksInv'
  BY <1>1, <1>3, <1>4 DEF CartLocksInv, LockedCart
<1>14. QED
  BY <1>8, <1>9, <1>10, <1>12, <1>13

LEMMA StepKeepsInv == Inv /\ [Next]_vars => Inv'
<1> SUFFICES ASSUME Inv, [Next]_vars PROVE Inv'
  OBVIOUS
<1>1. CASE UNCHANGED vars
  BY <1>1 DEF vars, Inv, TypeOK, RowsInv, CallersInv, CheckoutsInv, CartLocksInv, LockedCart, SoldOnce
<1>2. ASSUME NEW l \in Moderated, Moderate(l) PROVE Inv'
  BY <1>2, CatalogueKeepsInv, MarketAssumption
<1>3. ASSUME NEW a \in Adds,
             \/ \E x \in Added : CheckItem(a, x.user, x.item)
             \/ FindInCart(a) \/ FindRacedRow(a) \/ CreateRow(a)
      PROVE  Inv'
  BY <1>3, AddKeepsInv
<1>4. ASSUME NEW r \in Removable, RemoveItem(r) PROVE Inv'
  BY <1>4, RemoveKeepsInv, MarketAssumption
<1>5. ASSUME NEW k \in Checkouts,
             (\E u \in Users : Begin(k, u)) \/ CheckoutStep(k) \/ CheckoutFails(k)
      PROVE  Inv'
  BY <1>5, CheckoutKeepsInv, CommitKeepsInv DEF CheckoutStep
<1>6. ASSUME NEW c \in Consumers,
             \/ \E u \in Users, l \in Listings : Authorize(c, u, l)
             \/ Decrement(c) \/ RefuseRun(c) \/ CountRun(c) \/ ConsumerFails(c)
      PROVE  Inv'
  BY <1>6, ConsumerKeepsInv
<1>7. CASE AllEnded
  BY <1>1, <1>7 DEF AllEnded
<1>8. QED
  BY <1>1, <1>2, <1>3, <1>4, <1>5, <1>6, <1>7 DEF Next

LEMMA SpecInv == Spec => []Inv
BY InitInv, StepKeepsInv, PTL DEF Spec
-----------------------------------------------------------------------------
\* Every state of the marketplace is well typed: no run balance below zero.
THEOREM MarketplaceTypeOK == Spec => []TypeOK
BY SpecInv, PTL DEF Inv

\* Whatever checkouts, adds, removals and failures interleave, CheckoutService
\* sells a cart row at most once, and no row that is still in a cart.
THEOREM MarketplaceSoldOnce == Spec => []SoldOnce
BY SpecInv, PTL DEF Inv

LEMMA StepTakesWhatItSells ==
  ASSUME Inv, [Next]_vars
  PROVE  [\A r \in RowIds : sold' # sold => (r \in cart \ cart' <=> sold'[r] # sold[r])]_vars
<1>1. ASSUME NEW k \in Checkouts, Commit(k)
      PROVE  \A r \in RowIds : r \in cart \ cart' <=> sold'[r] # sold[r]
  BY <1>1, CommitFacts DEF Inv, TypeOK
<1>2. CASE \A k \in Checkouts : ~Commit(k)
  <2>1. UNCHANGED sold
    BY <1>2 DEF Next, vars, books, Moderate, CheckItem, FindInCart, FindRacedRow, CreateRow, RemoveItem,
       Begin, CheckoutStep, Retry, RefuseLines, LockCart, WriteLine, SerializationFailure, CheckoutFails,
       Authorize, Decrement, RefuseRun, CountRun, ConsumerFails, AllEnded
  <2>2. QED
    BY <2>1
<1>3. QED
  BY <1>1, <1>2

\* A checkout takes out of the carts the rows it sells and no others, so that
\* what is added while it runs stays.
THEOREM MarketplaceTakesWhatItSells == Spec => TakesWhatItSells
BY SpecInv, StepTakesWhatItSells, PTL DEF Spec, TakesWhatItSells
-----------------------------------------------------------------------------
(* The rows that carts and purchases are made of do not change.            *)
LinesStay == \A r \in RowIds : line[r] # None => line'[r] = line[r]

LEMMA OwnsStays ==
  ASSUME Inv, LinesStay, UNCHANGED sold
  PROVE  \A u \in Users, l \in Listings : Owns(u, l)' <=> Owns(u, l)
<1>1. \A r \in RowIds : sold[r] > 0 => line'[r] = line[r]
  BY DEF Inv, RowsInv, LinesStay
<1>2. \A r \in RowIds : sold[r] > 0 => ListingOn(r)' = ListingOn(r)
  BY <1>1 DEF ListingOn
<1>3. QED
  BY <1>1, <1>2 DEF Owns

LEMMA TotalStays ==
  ASSUME Inv, LinesStay, UNCHANGED <<sold, totalUsers>>, TotalUsersIsBuyers
  PROVE  TotalUsersIsBuyers'
<1> SUFFICES ASSUME NEW l \in Listings
             PROVE  totalUsers'[l] = Cardinality({u \in Users : Owns(u, l)'})
  BY DEF TotalUsersIsBuyers
<1>1. {u \in Users : Owns(u, l)'} = {u \in Users : Owns(u, l)}
  BY OwnsStays
<1>2. totalUsers[l] = Cardinality({u \in Users : Owns(u, l)})
  BY DEF TotalUsersIsBuyers
<1>3. QED
  BY <1>1, <1>2

LEMMA LockedRowsStay ==
  ASSUME Inv, LinesStay, NEW j \in Checkouts,
         checkout'[j].at = checkout[j].at, checkout'[j].user = checkout[j].user,
         checkout'[j].written = checkout[j].written, checkout'[j].bought = checkout[j].bought
  PROVE  LockedRows(j)' = LockedRows(j)
<1>1. CASE checkout[j].at # "locked"
  BY <1>1 DEF LockedRows
<1>2. CASE checkout[j].at = "locked"
  <2>1. \A r \in checkout[j].written : r \in RowIds /\ line[r] # None
    BY <1>2, MarketAssumption DEF Inv, TypeOK, CheckoutsInv, Open
  <2>2. \A r \in checkout[j].written : ListingOn(r)' = ListingOn(r)
    BY <2>1 DEF LinesStay, ListingOn
  <2>3. WrittenListings(j)' = WrittenListings(j)
    BY <2>2 DEF WrittenListings
  <2>4. QED
    BY <2>3 DEF LockedRows, NewListings
<1>3. QED
  BY <1>1, <1>2

(* Rows that nobody has locked become stale. *)
LEMMA AsideKeepsBuyers ==
  ASSUME Inv, BuyersInv, LinesStay, UNCHANGED <<sold, totalUsers>>,
         NEW R \in SUBSET Rows, checkout' = Outdated(R) \/ UNCHANGED checkout,
         \A k \in Checkouts : R \cap LockedRows(k) = {}
  PROVE  BuyersInv'
<1>1. TypeOK
  BY DEF Inv
<1>2. \A k \in Checkouts :
        /\ checkout'[k].at = checkout[k].at /\ checkout'[k].user = checkout[k].user
        /\ checkout'[k].written = checkout[k].written /\ checkout'[k].bought = checkout[k].bought
        /\ checkout[k].stale \subseteq checkout'[k].stale
        /\ checkout'[k].stale \subseteq checkout[k].stale \cup R
  <2>1. CASE UNCHANGED checkout
    BY <2>1
  <2>2. CASE checkout' = Outdated(R)
    <3>1. \A k \in Checkouts :
            /\ Outdated(R)[k].at = checkout[k].at /\ Outdated(R)[k].user = checkout[k].user
            /\ Outdated(R)[k].written = checkout[k].written
            /\ Outdated(R)[k].bought = checkout[k].bought
            /\ Outdated(R)[k].stale = IF checkout[k].at \in Open
                                      THEN checkout[k].stale \cup R ELSE checkout[k].stale
      BY <1>1, OutdatedFacts
    <3>2. QED
      BY <2>2, <3>1
  <2>3. QED
    BY <2>1, <2>2
<1>3. \A k \in Checkouts : LockedRows(k)' = LockedRows(k)
  BY <1>2, LockedRowsStay
<1>4. RowLocksInv'
  <2>1. \A j, k \in Checkouts : j # k => LockedRows(j)' \cap LockedRows(k)' = {}
    BY <1>3 DEF BuyersInv, RowLocksInv
  <2>2. \A k \in Checkouts : LockedRows(k)' \cap checkout'[k].stale = {}
    BY <1>2, <1>3 DEF BuyersInv, RowLocksInv
  <2>3. QED
    BY <2>1, <2>2 DEF RowLocksInv
<1>5. KnownInv'
  <2> SUFFICES ASSUME NEW k \in Checkouts, NEW u \in Users,
                      checkout'[k].at \in Open, checkout'[k].user = u
               PROVE  /\ \A l \in checkout'[k].bought : Owns(u, l)'
                      /\ \A l \in Listings : Owns(u, l)' =>
                           l \in checkout'[k].bought \cup checkout'[k].stale
    BY DEF KnownInv
  <2>1. /\ \A l \in checkout[k].bought : Owns(u, l)
        /\ \A l \in Listings : Owns(u, l) => l \in checkout[k].bought \cup checkout[k].stale
    BY <1>2 DEF BuyersInv, KnownInv
  <2>2. checkout[k].bought \subseteq Listings
    BY <1>1 DEF TypeOK
  <2>3. \A l \in Listings : Owns(u, l)' <=> Owns(u, l)
    BY OwnsStays
  <2>4. QED
    BY <1>2, <2>1, <2>2, <2>3
<1>6. QED
  BY <1>4, <1>5, TotalStays DEF BuyersInv

(* A checkout takes a step that nobody else sees. *)
LEMMA LocalStepKeepsBuyers ==
  ASSUME Inv, BuyersInv, NEW k \in Checkouts, NEW x \in Record,
         checkout' = [checkout EXCEPT ![k] = x],
         UNCHANGED <<line, sold, totalUsers>>,
         x.at \in Open => /\ \A l \in x.bought : Owns(x.user, l)
                          /\ \A l \in Listings : Owns(x.user, l) => l \in x.bought \cup x.stale,
         LockedRows(k)' \cap x.stale = {},
         \A j \in Checkouts \ {k} : LockedRows(k)' \cap LockedRows(j) = {}
  PROVE  BuyersInv'
<1>1. checkout'[k] = x /\ \A j \in Checkouts \ {k} : checkout'[j] = checkout[j]
  BY DEF Inv, TypeOK
<1>2. LinesStay
  BY DEF LinesStay
<1>3. \A j \in Checkouts \ {k} : LockedRows(j)' = LockedRows(j)
  BY <1>1, <1>2, LockedRowsStay
<1>4. RowLocksInv'
  <2>1. \A i, j \in Checkouts : i # j => LockedRows(i)' \cap LockedRows(j)' = {}
    BY <1>3 DEF BuyersInv, RowLocksInv
  <2>2. \A j \in Checkouts : LockedRows(j)' \cap checkout'[j].stale = {}
    BY <1>1, <1>3 DEF BuyersInv, RowLocksInv
  <2>3. QED
    BY <2>1, <2>2 DEF RowLocksInv
<1>5. KnownInv'
  <2> SUFFICES ASSUME NEW j \in Checkouts, NEW u \in Users,
                      checkout'[j].at \in Open, checkout'[j].user = u
               PROVE  /\ \A l \in checkout'[j].bought : Owns(u, l)'
                      /\ \A l \in Listings : Owns(u, l)' =>
                           l \in checkout'[j].bought \cup checkout'[j].stale
    BY DEF KnownInv
  <2>1. checkout'[j].bought \subseteq Listings
    BY <1>1 DEF Inv, TypeOK, Record
  <2>2. \A l \in Listings : Owns(u, l)' <=> Owns(u, l)
    BY <1>2, OwnsStays
  <2>3. CASE j = k
    BY <1>1, <2>1, <2>2, <2>3
  <2>4. CASE j # k
    BY <1>1, <2>1, <2>2, <2>4 DEF BuyersInv, KnownInv
  <2>5. QED
    BY <2>3, <2>4
<1>6. QED
  BY <1>2, <1>4, <1>5, TotalStays DEF BuyersInv

LEMMA CheckoutKeepsBuyers ==
  ASSUME Inv, BuyersInv, NEW k \in Checkouts,
         \/ \E u \in Users : Begin(k, u)
         \/ Retry(k) \/ RefuseLines(k) \/ LockCart(k) \/ WriteLine(k)
         \/ SerializationFailure(k) \/ CheckoutFails(k)
  PROVE  BuyersInv'
<1> USE DEF shop, books
<1>1. ASSUME NEW x \in Record, x.at \notin Open, checkout' = [checkout EXCEPT ![k] = x],
             UNCHANGED <<shop, books, add, consumer, faults>>
      PROVE  BuyersInv'
  <2>1. LockedRows(k)' = {}
    BY <1>1 DEF LockedRows, Open, Inv, TypeOK
  <2>2. QED
    BY <1>1, <2>1, LocalStepKeepsBuyers
<1>2. ASSUME NEW u \in Users, NEW retried \in BOOLEAN, TakeSnapshot(k, u, retried),
             UNCHANGED <<shop, books, add, consumer, faults>>
      PROVE  BuyersInv'
  <2>1. CASE checkout' = [checkout EXCEPT ![k] = Over("ended")]
    BY <1>1, <1>2, <2>1, OverFacts DEF Open
  <2>2. CASE checkout' = [checkout EXCEPT ![k] = Snapshot(u, retried)]
    <3>1. /\ Snapshot(u, retried) \in Record
          /\ Snapshot(u, retried).at = "begun" /\ Snapshot(u, retried).user = u
          /\ Snapshot(u, retried).bought = {l \in Listings : Owns(u, l)}
      BY SnapshotFacts
    <3>2. LockedRows(k)' = {}
      BY <2>2, <3>1 DEF LockedRows, Inv, TypeOK
    <3>3. QED
      BY <1>2, <2>2, <3>1, <3>2, LocalStepKeepsBuyers
  <2>3. QED
    BY <1>2, <2>1, <2>2 DEF TakeSnapshot, Snapshot
<1>3. ASSUME NEW u \in Users, Begin(k, u) PROVE BuyersInv'
  BY <1>2, <1>3 DEF Begin
<1>4. CASE Retry(k)
  <2>1. checkout[k].user \in Users
    BY <1>4 DEF Retry, Inv, CheckoutsInv
  <2>2. QED
    BY <1>2, <1>4, <2>1 DEF Retry
<1>5. CASE RefuseLines(k) \/ CheckoutFails(k)
  BY <1>1, <1>5, OverFacts DEF RefuseLines, CheckoutFails, Open
<1>6. CASE LockCart(k)
  <2> DEFINE x == [checkout[k] EXCEPT !.at = "locked"]
  <2>1. checkout[k] \in Record
    BY DEF Inv, TypeOK, Record
  <2>2. /\ x \in Record /\ x.at = "locked" /\ x.user = checkout[k].user
        /\ x.bought = checkout[k].bought /\ x.stale = checkout[k].stale
        /\ x.written = checkout[k].written
    BY <2>1 DEF Record
  <2>3. checkout' = [checkout EXCEPT ![k] = x] /\ checkout[k].at = "begun"
    BY <1>6 DEF LockCart, Enter, Inv, TypeOK
  <2>4. checkout[k].user \in Users /\ checkout[k].written = {}
    BY <2>3 DEF Inv, CheckoutsInv, Open
  <2>5. /\ \A l \in x.bought : Owns(checkout[k].user, l)
        /\ \A l \in Listings : Owns(checkout[k].user, l) => l \in x.bought \cup x.stale
    BY <2>2, <2>3, <2>4 DEF BuyersInv, KnownInv, Open
  <2> HIDE DEF x
  <2>6. checkout'[k] = x
    BY <2>3 DEF Inv, TypeOK
  <2>7. LockedRows(k)' = {}
    <3>1. WrittenListings(k)' = {}
      BY <2>2, <2>4, <2>6 DEF WrittenListings
    <3>2. QED
      BY <3>1 DEF LockedRows, NewListings
  <2>8. QED
    BY <1>6, <2>2, <2>3, <2>5, <2>7, LocalStepKeepsBuyers DEF LockCart
<1>7. CASE WriteLine(k)
  <2>1. PICK r \in NextLine(k) :
          /\ r \in checkout[k].snapshot
          /\ ListingOn(r) \in Listings
          /\ checkout' = [checkout EXCEPT ![k] = WithLine(k, r)]
          /\ WithLine(k, r) \in Record
          /\ WithLine(k, r).at = "locked"
          /\ WithLine(k, r).user = checkout[k].user
          /\ WithLine(k, r).bought = checkout[k].bought
          /\ WithLine(k, r).stale = checkout[k].stale
          /\ WithLine(k, r).written = checkout[k].written \cup {r}
    BY <1>7, WriteLineFacts
  <2> DEFINE x == WithLine(k, r)
  <2>2. /\ checkout[k].at = "locked" /\ UNCHANGED <<shop, books, add, consumer, faults>>
        /\ NextRows(k) \cap checkout[k].stale = {}
        /\ \A j \in Checkouts \ {k} : NextRows(k) \cap LockedRows(j) = {}
    BY <1>7 DEF WriteLine
  <2>3. checkout'[k] = x
    BY <2>1 DEF Inv, TypeOK
  <2>4. LineRows(k, r) \subseteq NextRows(k)
    BY <2>2 DEF NextRows
  <2>5. WrittenListings(k)' = WrittenListings(k) \cup {ListingOn(r)}
    <3>1. \A q : ListingOn(q)' = ListingOn(q)
      BY <2>2 DEF ListingOn
    <3>2. checkout'[k].written = checkout[k].written \cup {r}
      BY <2>1, <2>3
    <3>3. QED
      BY <3>1, <3>2 DEF WrittenListings
  <2>6. LockedRows(k)' \subseteq LockedRows(k) \cup LineRows(k, r)
    <3>1. checkout'[k].bought = checkout[k].bought /\ checkout'[k].user = checkout[k].user
      BY <2>1, <2>3
    <3>2. NewListings(k)' \subseteq NewListings(k) \cup LineRows(k, r)
      BY <2>5, <3>1 DEF NewListings, LineRows, FirstPurchase
    <3>3. ASSUME NEW l \in WrittenListings(k)' \cap PerRun
          PROVE  <<checkout'[k].user, l>> \in LockedRows(k) \cup LineRows(k, r)
      BY <2>2, <2>5, <3>1, <3>3 DEF LineRows, LockedRows
    <3>4. QED
      BY <2>2, <3>1, <3>2, <3>3 DEF LockedRows
  <2>7. /\ LockedRows(k)' \cap checkout[k].stale = {}
        /\ \A j \in Checkouts \ {k} : LockedRows(k)' \cap LockedRows(j) = {}
    BY <2>2, <2>4, <2>6 DEF BuyersInv, RowLocksInv
  <2>8. checkout[k].user \in Users
    BY <2>2 DEF Inv, CheckoutsInv, Open
  <2>9. /\ \A l \in x.bought : Owns(x.user, l)
        /\ \A l \in Listings : Owns(x.user, l) => l \in x.bought \cup x.stale
    BY <2>1, <2>2, <2>8 DEF BuyersInv, KnownInv, Open
  <2> HIDE DEF x
  <2>10. /\ x \in Record /\ x.stale = checkout[k].stale
         /\ checkout' = [checkout EXCEPT ![k] = x]
    BY <2>1 DEF x
  <2>11. QED
    BY <2>2, <2>7, <2>9, <2>10, LocalStepKeepsBuyers
<1>8. CASE SerializationFailure(k)
  <2>1. CASE checkout' = [checkout EXCEPT ![k] = Over("failed")]
    BY <1>1, <1>8, <2>1, OverFacts DEF SerializationFailure, Open
  <2>2. CASE checkout' = [checkout EXCEPT ![k] = [Over("again") EXCEPT !.user = checkout[k].user]]
    <3>1. checkout[k].at \in Open
      BY <1>8 DEF SerializationFailure, Conflicts, NextRows, Deadlocked, Open
    <3>2. checkout[k].user \in Users
      BY <3>1 DEF Inv, CheckoutsInv
    <3>3. /\ [Over("again") EXCEPT !.user = checkout[k].user] \in Record
          /\ [Over("again") EXCEPT !.user = checkout[k].user].at = "again"
      BY <3>2 DEF Over, NoCheckout, Record
    <3>4. QED
      BY <1>1, <1>8, <2>2, <3>3 DEF SerializationFailure, Open
  <2>3. QED
    BY <1>8, <2>1, <2>2 DEF SerializationFailure, RollBack
<1>9. QED
  BY <1>3, <1>4, <1>5, <1>6, <1>7, <1>8

(* The buyers a commit counts are those it makes. *)
LEMMA CommitKeepsBuyers ==
  ASSUME Inv, BuyersInv, NEW k \in Checkouts, Commit(k)
  PROVE  BuyersInv'
<1> DEFINE u == checkout[k].user
           N == NewListings(k)
           W == WrittenListings(k)
<1>1. /\ checkout[k].at = "locked"
      /\ checkout[k].written = checkout[k].snapshot
      /\ \A r \in checkout[k].snapshot : sold[r] = 0 /\ line[r] \in Line
      /\ sold' = [r \in RowIds |-> IF r \in checkout[k].snapshot THEN 1 ELSE sold[r]]
      /\ checkout'[k] = Over("ended") /\ Over("ended").at = "ended"
  BY CommitFacts, OverFacts
<1>2. UNCHANGED line /\ LinesStay
  BY DEF Commit, LinesStay
<1>3. /\ u \in Users
      /\ \A r \in checkout[k].snapshot : r \in RowIds /\ line[r].user = u
  BY <1>1 DEF Inv, TypeOK, CheckoutsInv, Open
<1>4. W \subseteq Listings
  BY <1>1, MarketAssumption DEF WrittenListings, ListingOn, Line
<1>5. \A l \in Listings : l \in LockedRows(k) <=> l \in N
  <2>1. LockedRows(k) = N \cup {<<u, l>> : l \in W \cap PerRun}
    BY <1>1 DEF LockedRows
  <2>2. \A l \in W : <<u, l>> \notin Listings
    BY <1>3, <1>4, MarketAssumption
  <2> HIDE DEF u, N, W
  <2>3. QED
    BY <2>1, <2>2
<1>6. \A v \in Users, l \in Listings : Owns(v, l)' <=> Owns(v, l) \/ (v = u /\ l \in W)
  <2>1. \A r \in RowIds : ListingOn(r)' = ListingOn(r)
    BY <1>2 DEF ListingOn
  <2>2. \A r \in RowIds : sold'[r] > 0 <=> sold[r] > 0 \/ r \in checkout[k].snapshot
    BY <1>1 DEF Inv, TypeOK
  <2>3. W = {ListingOn(r) : r \in checkout[k].snapshot}
    BY <1>1 DEF WrittenListings
  <2> HIDE DEF W, u
  <2>4. QED
    BY <1>2, <1>3, <2>1, <2>2, <2>3 DEF Owns
<1>7. \A l \in N : ~Owns(u, l)
  BY <1>1, <1>3, <1>4, <1>5 DEF BuyersInv, KnownInv, RowLocksInv, Open, NewListings
<1>8. \A l \in W : l \in N \/ Owns(u, l)
  BY <1>1, <1>3 DEF BuyersInv, KnownInv, Open, NewListings
<1>9. N \subseteq W
  BY DEF NewListings
<1>10. \A j \in Checkouts \ {k} :
         /\ checkout'[j].at = checkout[j].at /\ checkout'[j].user = checkout[j].user
         /\ checkout'[j].written = checkout[j].written /\ checkout'[j].bought = checkout[j].bought
         /\ checkout'[j].stale = IF checkout[j].at \in Open
                                 THEN checkout[j].stale \cup LockedRows(k) ELSE checkout[j].stale
  <2> DEFINE R == LockedRows(k)
  <2>1. R \in SUBSET Rows /\ \A j \in Checkouts \ {k} : checkout'[j] = Outdated(R)[j]
    BY CommitFacts
  <2> HIDE DEF R
  <2>2. \A j \in Checkouts :
          /\ Outdated(R)[j].at = checkout[j].at /\ Outdated(R)[j].user = checkout[j].user
          /\ Outdated(R)[j].written = checkout[j].written
          /\ Outdated(R)[j].bought = checkout[j].bought
          /\ Outdated(R)[j].stale = IF checkout[j].at \in Open
                                    THEN checkout[j].stale \cup R ELSE checkout[j].stale
    BY <2>1, OutdatedFacts DEF Inv
  <2>3. QED
    BY <2>1, <2>2 DEF R
<1>11. RowLocksInv'
  <2>1. LockedRows(k)' = {}
    BY <1>1 DEF LockedRows
  <2>2. \A j \in Checkouts \ {k} : LockedRows(j)' = LockedRows(j)
    BY <1>2, <1>10, LockedRowsStay
  <2>3. \A i, j \in Checkouts : i # j => LockedRows(i)' \cap LockedRows(j)' = {}
    BY <2>1, <2>2 DEF BuyersInv, RowLocksInv
  <2>4. \A j \in Checkouts : LockedRows(j)' \cap checkout'[j].stale = {}
    BY <1>10, <2>1, <2>2 DEF BuyersInv, RowLocksInv
  <2>5. QED
    BY <2>3, <2>4 DEF RowLocksInv
<1>12. KnownInv'
  <2> SUFFICES ASSUME NEW j \in Checkouts, NEW v \in Users,
                      checkout'[j].at \in Open, checkout'[j].user = v
               PROVE  /\ \A l \in checkout'[j].bought : Owns(v, l)'
                      /\ \A l \in Listings : Owns(v, l)' =>
                           l \in checkout'[j].bought \cup checkout'[j].stale
    BY DEF KnownInv
  <2>1. j # k
    BY <1>1 DEF Open
  <2>2. /\ checkout[j].bought \subseteq Listings /\ checkout'[j].bought = checkout[j].bought
        /\ checkout'[j].stale = checkout[j].stale \cup LockedRows(k)
        /\ \A l \in checkout[j].bought : Owns(v, l)
        /\ \A l \in Listings : Owns(v, l) => l \in checkout[j].bought \cup checkout[j].stale
    BY <1>10, <2>1 DEF Inv, TypeOK, BuyersInv, KnownInv
  <2> HIDE DEF u, N, W
  <2>3. ASSUME NEW l \in Listings, Owns(v, l)' PROVE l \in checkout'[j].bought \cup checkout'[j].stale
    BY <1>5, <1>6, <1>8, <2>2, <2>3
  <2>4. QED
    BY <1>6, <2>2, <2>3
<1>13. TotalUsersIsBuyers'
  <2> SUFFICES ASSUME NEW l \in Listings
               PROVE  totalUsers'[l] = Cardinality({v \in Users : Owns(v, l)'})
    BY DEF TotalUsersIsBuyers
  <2> DEFINE before == {v \in Users : Owns(v, l)}
             after == {v \in Users : Owns(v, l)'}
  <2>1. totalUsers[l] = Cardinality(before) /\ totalUsers[l] \in Nat
    BY DEF BuyersInv, TotalUsersIsBuyers, Inv, TypeOK
  <2>2. totalUsers' = [m \in Listings |->
                         IF m \in LockedRows(k) THEN totalUsers[m] + 1 ELSE totalUsers[m]]
    BY DEF Commit
  <2>3. CASE l \in N
    <3>1. u \notin before /\ after = before \cup {u}
      BY <1>3, <1>6, <1>7, <1>9, <2>3
    <3>2. IsFiniteSet(before)
      BY FS_Subset, MarketAssumption
    <3> HIDE DEF before, after, u
    <3>3. Cardinality(after) = Cardinality(before) + 1
      BY <3>1, <3>2, FS_AddElement
    <3>4. QED
      BY <1>5, <2>1, <2>2, <2>3, <3>3 DEF after
  <2>4. CASE l \notin N
    <3>1. after = before
      BY <1>6, <1>8, <2>4
    <3> HIDE DEF before, after
    <3>2. Cardinality(after) = totalUsers'[l]
      BY <1>5, <2>1, <2>2, <2>4, <3>1
    <3>3. QED
      BY <3>2 DEF after
  <2>5. QED
    BY <2>3, <2>4
<1>14. QED
  BY <1>11, <1>12, <1>13 DEF BuyersInv

LEMMA InitBuyersInv == Init => BuyersInv
<1> SUFFICES ASSUME Init PROVE BuyersInv
  OBVIOUS
<1>1. \A k \in Checkouts : checkout[k].at = "idle"
  BY DEF Init, NoCheckout
<1>2. KnownInv /\ RowLocksInv
  BY <1>1 DEF KnownInv, RowLocksInv, LockedRows, Open
<1>3. TotalUsersIsBuyers
  <2> SUFFICES ASSUME NEW l \in Listings
               PROVE  totalUsers[l] = Cardinality({u \in Users : Owns(u, l)})
    BY DEF TotalUsersIsBuyers
  <2>1. {u \in Users : Owns(u, l)} = {}
    BY DEF Owns, Init
  <2>2. totalUsers[l] = 0
    BY DEF Init
  <2>3. QED
    BY <2>1, <2>2, FS_EmptySet
<1>4. QED
  BY <1>2, <1>3 DEF BuyersInv

LEMMA StepKeepsBuyers == Inv /\ BuyersInv /\ [Next]_vars => BuyersInv'
<1> SUFFICES ASSUME Inv, BuyersInv, [Next]_vars PROVE BuyersInv'
  OBVIOUS
<1>1. ASSUME UNCHANGED <<line, sold, totalUsers, checkout>> PROVE BuyersInv'
  <2>1. LinesStay
    BY <1>1 DEF LinesStay
  <2>2. {} \in SUBSET Rows /\ \A k \in Checkouts : {} \cap LockedRows(k) = {}
    OBVIOUS
  <2>3. QED
    BY <1>1, <2>1, <2>2, AsideKeepsBuyers
<1>2. ASSUME NEW x \in Rows, checkout' = Outdated({x}), RowFree(x),
             UNCHANGED <<line, sold, totalUsers>>
      PROVE  BuyersInv'
  <2>1. LinesStay
    BY <1>2 DEF LinesStay
  <2>2. {x} \in SUBSET Rows /\ \A k \in Checkouts : {x} \cap LockedRows(k) = {}
    BY <1>2 DEF RowFree
  <2>3. QED
    BY <1>2, <2>1, <2>2, AsideKeepsBuyers
<1>3. ASSUME NEW l \in Moderated, Moderate(l) PROVE BuyersInv'
  BY <1>2, <1>3, MarketAssumption DEF Moderate, books, Rows
<1>4. ASSUME NEW a \in Adds, CreateRow(a) PROVE BuyersInv'
  <2>1. LinesStay
    BY <1>4 DEF CreateRow, LinesStay, Inv, TypeOK
  <2>2. UNCHANGED <<sold, totalUsers, checkout>>
    BY <1>4 DEF CreateRow, books
  <2>3. {} \in SUBSET Rows /\ \A k \in Checkouts : {} \cap LockedRows(k) = {}
    OBVIOUS
  <2>4. QED
    BY <2>1, <2>2, <2>3, AsideKeepsBuyers
<1>5. ASSUME NEW c \in Consumers, Decrement(c) PROVE BuyersInv'
  <2>1. RunsRow(c) \in Rows
    BY <1>5 DEF Decrement, RunsRow, Rows, Inv, CallersInv
  <2>2. QED
    BY <1>2, <1>5, <2>1 DEF Decrement, shop
<1>6. ASSUME NEW c \in Consumers, CountRun(c) PROVE BuyersInv'
  <2>1. consumer[c].listing \in Rows
    BY <1>6 DEF CountRun, Rows, Inv, CallersInv
  <2>2. QED
    BY <1>2, <1>6, <2>1 DEF CountRun, shop
<1>7. ASSUME NEW k \in Checkouts,
             (\E u \in Users : Begin(k, u)) \/ CheckoutStep(k) \/ CheckoutFails(k)
      PROVE  BuyersInv'
  BY <1>7, CheckoutKeepsBuyers, CommitKeepsBuyers DEF CheckoutStep
<1>8. CASE \/ UNCHANGED vars \/ AllEnded
           \/ \E a \in Adds : \/ \E x \in Added : CheckItem(a, x.user, x.item)
                              \/ FindInCart(a) \/ FindRacedRow(a)
           \/ \E r \in Removable : RemoveItem(r)
           \/ \E c \in Consumers :
                \/ \E u \in Users, l \in Listings : Authorize(c, u, l)
                \/ RefuseRun(c) \/ ConsumerFails(c)
  BY <1>1, <1>8 DEF vars, AllEnded, CheckItem, FindInCart, FindRacedRow, RemoveItem, Authorize,
     RefuseRun, ConsumerFails, shop, books
<1>9. QED
  BY <1>3, <1>4, <1>5, <1>6, <1>7, <1>8 DEF Next

\* totalUsers of a listing is the number of its buyers: checkouts that overlap,
\* each of which read that there is no earlier purchase, do not count one twice,
\* for any number of users and checkouts, retries and failures included.
THEOREM MarketplaceTotalUsersIsBuyers == Spec => []TotalUsersIsBuyers
<1>1. Inv /\ BuyersInv /\ [Next]_vars => (Inv /\ BuyersInv)'
  BY StepKeepsInv, StepKeepsBuyers
<1>2. Init => Inv /\ BuyersInv
  BY InitInv, InitBuyersInv
<1>3. QED
  BY <1>1, <1>2, PTL DEF Spec, BuyersInv
-----------------------------------------------------------------------------
(* The runs of a listing that are counted.                                 *)
Consumed(l) == SumFunctionOnSet([u \in Users |-> runs[u, l].consumed], Users)

LEMMA ConsumedIsNat == ASSUME TypeOK, NEW l \in Listings PROVE Consumed(l) \in Nat
<1> DEFINE f == [u \in Users |-> runs[u, l].consumed]
<1>1. \A u \in Users : f[u] \in Nat
  BY DEF TypeOK
<1> HIDE DEF f
<1>2. SumFunctionOnSet(f, Users) \in Nat
  BY <1>1, MarketAssumption, SumIsNat
<1>3. QED
  BY <1>2 DEF f, Consumed

LEMMA UncountedIsFinite ==
  ASSUME NEW l \in Listings
  PROVE  IsFiniteSet(Uncounted(l)) /\ Cardinality(Uncounted(l)) \in Nat
<1>1. Uncounted(l) \subseteq Consumers
  BY DEF Uncounted
<1>2. QED
  BY <1>1, MarketAssumption, FS_Subset, FS_CardinalityType

LEMMA SameConsumed ==
  ASSUME \A u \in Users, l \in Listings : runs'[u, l].consumed = runs[u, l].consumed,
         NEW l \in Listings
  PROVE  Consumed(l)' = Consumed(l)
<1>1. [u \in Users |-> runs'[u, l].consumed] = [u \in Users |-> runs[u, l].consumed]
  OBVIOUS
<1>2. QED
  BY <1>1 DEF Consumed

\* The step of a consumer: the record of another one stays, the row of another user too.
LEMMA ConsumerStepFacts ==
  ASSUME Inv, NEW c \in Consumers, NEW s \in {"count", "lost"},
         consumer' = [consumer EXCEPT ![c].at = s]
  PROVE  /\ consumer'[c].at = s /\ consumer'[c].listing = consumer[c].listing
         /\ \A d \in Consumers : d # c => consumer'[d] = consumer[d]
<1>1. consumer[c] \in [at: {"idle", "authorized", "count", "lost", "ended"},
                       user: Users \cup {None}, listing: Listings \cup {None}]
  BY DEF Inv, TypeOK
<1>2. consumer' = [consumer EXCEPT ![c] = [consumer[c] EXCEPT !.at = s]]
  OBVIOUS
<1>3. /\ [consumer[c] EXCEPT !.at = s].at = s
      /\ [consumer[c] EXCEPT !.at = s].listing = consumer[c].listing
  BY <1>1
<1>4. QED
  BY <1>2, <1>3 DEF Inv, TypeOK

LEMMA StepKeepsCount == Inv /\ RunsAreCounted /\ [Next]_vars => RunsAreCounted'
<1> SUFFICES ASSUME Inv, RunsAreCounted, [Next]_vars PROVE RunsAreCounted'
  OBVIOUS
<1> USE MarketAssumption
<1>1. ASSUME \A u \in Users, l \in Listings : runs'[u, l].consumed = runs[u, l].consumed,
             UNCHANGED totalRuns, \A l \in Listings : Uncounted(l)' = Uncounted(l)
      PROVE  RunsAreCounted'
  <2>1. \A l \in Listings : Consumed(l)' = Consumed(l)
    BY <1>1, SameConsumed
  <2>2. QED
    BY <1>1, <2>1 DEF RunsAreCounted, Consumed
<1>2. ASSUME NEW c \in Consumers, Decrement(c) PROVE RunsAreCounted'
  <2>1. PICK v \in Users, m \in Listings :
          v = consumer[c].user /\ m = consumer[c].listing /\ RunsRow(c) = <<v, m>>
    BY <1>2 DEF Decrement, RunsRow, Inv, CallersInv
  <2>2. /\ consumer[c].at = "authorized" /\ consumer' = [consumer EXCEPT ![c].at = "count"]
        /\ runs' = [runs EXCEPT ![<<v, m>>].remaining = @ - 1, ![<<v, m>>].consumed = @ + 1]
        /\ UNCHANGED totalRuns
    BY <1>2, <2>1 DEF Decrement
  <2>3. /\ \A x \in Users \X Listings : x # <<v, m>> => runs'[x] = runs[x]
        /\ runs'[<<v, m>>].consumed = runs[<<v, m>>].consumed + 1
    <3>1. runs \in [Users \X Listings -> [granted: Nat, remaining: Nat, consumed: Nat]]
      BY DEF Inv, TypeOK
    <3>2. QED
      BY <2>2, <3>1
  <2>4. /\ consumer'[c].at = "count" /\ consumer'[c].listing = m
        /\ \A d \in Consumers : d # c => consumer'[d] = consumer[d]
    BY <2>1, <2>2, ConsumerStepFacts
  <2> SUFFICES ASSUME NEW l \in Listings
               PROVE  Consumed(l)' = totalRuns'[l] + Cardinality(Uncounted(l)')
    BY DEF RunsAreCounted, Consumed
  <2>5. Consumed(l) = totalRuns[l] + Cardinality(Uncounted(l)) /\ totalRuns[l] \in Nat
    BY DEF RunsAreCounted, Consumed, Inv, TypeOK
  <2>6. CASE l = m
    <3> DEFINE f == [u \in Users |-> runs[u, l].consumed]
               g == [u \in Users |-> runs'[u, l].consumed]
    <3>1. \A u \in Users : u # v => f[u] = g[u]
      BY <2>3
    <3>2. g[v] = f[v] + 1
      BY <2>3, <2>6
    <3>3. \A u \in Users : f[u] \in Int /\ g[u] \in Int
      <4>1. ASSUME NEW u \in Users PROVE f[u] \in Int
        <5>1. runs[u, l] \in [granted: Nat, remaining: Nat, consumed: Nat]
          BY DEF Inv, TypeOK
        <5>2. runs[u, l].consumed \in Nat
          BY <5>1
        <5>3. f[u] = runs[u, l].consumed
          OBVIOUS
        <5>4. f[u] \in Nat
          BY <5>2, <5>3
        <5> HIDE DEF f
        <5>5. QED
          BY <5>4
      <4> HIDE DEF f, g
      <4>2. ASSUME NEW u \in Users PROVE g[u] \in Int
        BY <3>1, <3>2, <4>1
      <4>3. QED
        BY <4>1, <4>2
    <3>4. Consumed(l) = SumFunctionOnSet(f, Users) /\ Consumed(l)' = SumFunctionOnSet(g, Users)
      BY DEF Consumed
    <3> HIDE DEF f, g
    <3>5. SumFunctionOnSet(g, Users) = SumFunctionOnSet(f, Users) + g[v] - f[v]
      BY <3>1, <3>3, SumChanges
    <3>6. Uncounted(l)' = Uncounted(l) \cup {c} /\ c \notin Uncounted(l)
      BY <2>2, <2>4, <2>6 DEF Uncounted
    <3>7. Cardinality(Uncounted(l)') = Cardinality(Uncounted(l)) + 1
      BY <3>6, UncountedIsFinite, FS_AddElement
    <3>8. Consumed(l) \in Nat /\ f[v] \in Int /\ Cardinality(Uncounted(l)) \in Nat
      BY <3>3, ConsumedIsNat, UncountedIsFinite DEF Inv
    <3>9. QED
      BY <2>2, <2>5, <3>2, <3>4, <3>5, <3>7, <3>8
  <2>7. CASE l # m
    <3>1. [u \in Users |-> runs'[u, l].consumed] = [u \in Users |-> runs[u, l].consumed]
      BY <2>3, <2>7
    <3>2. Consumed(l)' = Consumed(l)
      BY <3>1 DEF Consumed
    <3>3. Uncounted(l)' = Uncounted(l)
      BY <2>1, <2>4, <2>7 DEF Uncounted
    <3>4. QED
      BY <2>2, <2>5, <3>2, <3>3
  <2>8. QED
    BY <2>6, <2>7
<1>3. ASSUME NEW c \in Consumers, CountRun(c) PROVE RunsAreCounted'
  <2>1. PICK m \in Listings : m = consumer[c].listing
    BY <1>3 DEF CountRun, Inv, CallersInv
  <2>2. /\ consumer[c].at = "count" /\ consumer' = EndConsumer(c)
        /\ totalRuns' = [totalRuns EXCEPT ![m] = totalRuns[m] + 1]
        /\ UNCHANGED runs
    BY <1>3, <2>1 DEF CountRun
  <2>3. /\ consumer'[c].at = "ended"
        /\ \A d \in Consumers : d # c => consumer'[d] = consumer[d]
    BY <2>2 DEF EndConsumer, NoConsumer, Inv, TypeOK
  <2> SUFFICES ASSUME NEW l \in Listings
               PROVE  Consumed(l)' = totalRuns'[l] + Cardinality(Uncounted(l)')
    BY DEF RunsAreCounted, Consumed
  <2>4. /\ Consumed(l) = totalRuns[l] + Cardinality(Uncounted(l)) /\ totalRuns[l] \in Nat
        /\ Consumed(l)' = Consumed(l)
    BY <2>2 DEF RunsAreCounted, Consumed, Inv, TypeOK
  <2>5. CASE l = m
    <3>1. Uncounted(l)' = Uncounted(l) \ {c} /\ c \in Uncounted(l)
      BY <2>1, <2>2, <2>3, <2>5 DEF Uncounted
    <3>2. Cardinality(Uncounted(l)') = Cardinality(Uncounted(l)) - 1
      BY <3>1, UncountedIsFinite, FS_RemoveElement
    <3>3. totalRuns'[l] = totalRuns[l] + 1
      BY <2>2, <2>5 DEF Inv, TypeOK
    <3>4. Cardinality(Uncounted(l)) \in Nat
      BY UncountedIsFinite
    <3>5. QED
      BY <2>4, <3>2, <3>3, <3>4
  <2>6. CASE l # m
    <3>1. Uncounted(l)' = Uncounted(l)
      BY <2>1, <2>2, <2>3, <2>6 DEF Uncounted
    <3>2. totalRuns'[l] = totalRuns[l]
      BY <2>2, <2>6 DEF Inv, TypeOK
    <3>3. QED
      BY <2>4, <3>1, <3>2
  <2>7. QED
    BY <2>5, <2>6
<1>4. ASSUME NEW k \in Checkouts, Commit(k) PROVE RunsAreCounted'
  <2>1. UNCHANGED <<totalRuns, consumer>>
    BY <1>4 DEF Commit
  <2>2. \A x \in Users \X Listings : runs'[x].consumed = runs[x].consumed
    <3> SUFFICES ASSUME NEW x \in Users \X Listings PROVE runs'[x].consumed = runs[x].consumed
      OBVIOUS
    <3>1. runs[x] \in [granted: Nat, remaining: Nat, consumed: Nat]
      BY DEF Inv, TypeOK
    <3>2. TopUp(runs[x], checkout[k].granted[x[2]]).consumed = runs[x].consumed
      BY <3>1 DEF TopUp
    <3>3. QED
      BY <1>4, <3>2 DEF Commit
  <2>3. \A l \in Listings : Uncounted(l)' = Uncounted(l)
    BY <2>1 DEF Uncounted
  <2>4. QED
    BY <1>1, <2>1, <2>2, <2>3
<1>5. ASSUME NEW c \in Consumers, NEW u \in Users, NEW l \in Listings, Authorize(c, u, l)
      PROVE  RunsAreCounted'
  <2>1. /\ consumer[c].at = "idle" /\ consumer'[c].at \in {"authorized", "ended"}
        /\ \A d \in Consumers : d # c => consumer'[d] = consumer[d]
        /\ UNCHANGED <<runs, totalRuns>>
    BY <1>5 DEF Authorize, EndConsumer, NoConsumer, books, Inv, TypeOK
  <2>2. \A m \in Listings : Uncounted(m)' = Uncounted(m)
    BY <2>1 DEF Uncounted
  <2>3. QED
    BY <1>1, <2>1, <2>2
<1>6. ASSUME NEW c \in Consumers, RefuseRun(c) PROVE RunsAreCounted'
  <2>1. /\ consumer[c].at = "authorized" /\ consumer'[c].at = "ended"
        /\ \A d \in Consumers : d # c => consumer'[d] = consumer[d]
        /\ UNCHANGED <<runs, totalRuns>>
    BY <1>6 DEF RefuseRun, EndConsumer, NoConsumer, books, Inv, TypeOK
  <2>2. \A m \in Listings : Uncounted(m)' = Uncounted(m)
    BY <2>1 DEF Uncounted
  <2>3. QED
    BY <1>1, <2>1, <2>2
<1>7. ASSUME NEW c \in Consumers, ConsumerFails(c) PROVE RunsAreCounted'
  <2>1. /\ consumer[c].at = "count" /\ consumer' = [consumer EXCEPT ![c].at = "lost"]
        /\ UNCHANGED <<runs, totalRuns>>
    BY <1>7 DEF ConsumerFails, books
  <2>2. /\ consumer'[c].at = "lost" /\ consumer'[c].listing = consumer[c].listing
        /\ \A d \in Consumers : d # c => consumer'[d] = consumer[d]
    BY <2>1, ConsumerStepFacts
  <2>3. \A m \in Listings : Uncounted(m)' = Uncounted(m)
    BY <2>1, <2>2 DEF Uncounted
  <2>4. QED
    BY <1>1, <2>1, <2>3
<1>8. CASE UNCHANGED <<runs, totalRuns, consumer>>
  <2>1. \A m \in Listings : Uncounted(m)' = Uncounted(m)
    BY <1>8 DEF Uncounted
  <2>2. QED
    BY <1>1, <1>8, <2>1
<1>9. QED
  BY <1>2, <1>3, <1>4, <1>5, <1>6, <1>7, <1>8
     DEF Next, vars, books, Moderate, CheckItem, FindInCart, FindRacedRow, CreateRow, RemoveItem,
         Begin, CheckoutStep, Retry, RefuseLines, LockCart, WriteLine, SerializationFailure,
         CheckoutFails, AllEnded

\* totalRuns of a listing is the number of runs its users consumed, but for the
\* runs whose consumer is between its two statements or died there.
THEOREM MarketplaceRunsAreCounted == Spec => []RunsAreCounted
<1>1. Init => RunsAreCounted
  <2> SUFFICES ASSUME Init, NEW l \in Listings
               PROVE  Consumed(l) = totalRuns[l] + Cardinality(Uncounted(l))
    BY DEF RunsAreCounted, Consumed
  <2> DEFINE f == [u \in Users |-> runs[u, l].consumed]
  <2>1. \A u \in Users : f[u] = 0
    BY DEF Init, NoRuns
  <2>2. Consumed(l) = SumFunctionOnSet(f, Users)
    BY DEF Consumed
  <2> HIDE DEF f
  <2>3. Consumed(l) = 0
    BY <2>1, <2>2, MarketAssumption, SumOfZeros
  <2>4. Uncounted(l) = {}
    BY DEF Init, NoConsumer, Uncounted
  <2>5. totalRuns[l] = 0
    BY DEF Init
  <2>6. QED
    BY <2>3, <2>4, <2>5, FS_EmptySet
<1>2. QED
  BY <1>1, StepKeepsCount, SpecInv, PTL DEF Spec
-----------------------------------------------------------------------------
(* The runs that the lines a checkout has written will grant of a listing. *)
LineRuns(k, l) ==
  [r \in RowIds |-> IF r \in checkout[k].written /\ ListingOn(r) = l
                    THEN RunsOf[line[r].item] ELSE 0]
GrantsInv ==
  \A k \in Checkouts, l \in Listings :
    checkout[k].at \in Open => checkout[k].granted[l] = SumFunctionOnSet(LineRuns(k, l), RowIds)

(* What the purchases of a listing by a user granted, row by row. *)
RowRuns(u, l) == [r \in RowIds |-> IF r \in Owned(u, l) THEN sold[r] * RunsOf[line[r].item] ELSE 0]

LEMMA LineRunsStay ==
  ASSUME Inv, LinesStay, NEW k \in Checkouts, NEW l \in Listings, checkout[k].at \in Open,
         checkout'[k].written = checkout[k].written
  PROVE  LineRuns(k, l)' = LineRuns(k, l)
<1>1. \A r \in checkout[k].written : r \in RowIds /\ line[r] # None
  BY MarketAssumption DEF Inv, TypeOK, CheckoutsInv, Open
<1>2. \A r \in checkout[k].written : line'[r] = line[r] /\ ListingOn(r)' = ListingOn(r)
  BY <1>1 DEF LinesStay, ListingOn
<1>3. QED
  BY <1>2 DEF LineRuns

LEMMA RowRunsStay ==
  ASSUME Inv, LinesStay, UNCHANGED sold, NEW u \in Users, NEW l \in Listings
  PROVE  RowRuns(u, l)' = RowRuns(u, l)
<1>1. \A r \in RowIds : sold[r] > 0 => line'[r] = line[r]
  BY DEF Inv, RowsInv, LinesStay
<1>2. \A r \in RowIds : sold[r] > 0 => ListingOn(r)' = ListingOn(r)
  BY <1>1 DEF ListingOn
<1>3. Owned(u, l)' = Owned(u, l)
  BY <1>1, <1>2 DEF Owned
<1>4. \A r \in Owned(u, l) : line'[r] = line[r]
  BY <1>1 DEF Owned
<1>5. QED
  BY <1>3, <1>4 DEF RowRuns

LEMMA RunsOfRowsAreNat ==
  ASSUME Inv, NEW u \in Users, NEW l \in Listings, NEW k \in Checkouts, checkout[k].at \in Open
  PROVE  \A r \in RowIds : RowRuns(u, l)[r] \in Int /\ LineRuns(k, l)[r] \in Int
<1> SUFFICES ASSUME NEW r \in RowIds
             PROVE  RowRuns(u, l)[r] \in Int /\ LineRuns(k, l)[r] \in Int
  OBVIOUS
<1> USE MarketAssumption DEF Inv
<1>1. ASSUME line[r] \in Line PROVE RunsOf[line[r].item] \in Nat
  BY <1>1 DEF Line
<1>2. RowRuns(u, l)[r] \in Int
  <2>1. CASE r \in Owned(u, l)
    <3>1. sold[r] > 0 /\ sold[r] \in Nat /\ sold[r] <= 1
      BY <2>1 DEF Owned, TypeOK, SoldOnce
    <3>2. line[r] \in Line
      BY <3>1 DEF RowsInv, TypeOK
    <3>3. RowRuns(u, l)[r] = sold[r] * RunsOf[line[r].item]
      BY <2>1 DEF RowRuns
    <3>4. sold[r] = 1
      BY <3>1
    <3>5. QED
      BY <1>1, <3>2, <3>3, <3>4
  <2>2. QED
    BY <2>1 DEF RowRuns
<1>3. LineRuns(k, l)[r] \in Int
  <2>1. CASE r \in checkout[k].written
    <3>1. line[r] \in Line
      BY <2>1 DEF CheckoutsInv, Open
    <3>2. QED
      BY <1>1, <3>1 DEF LineRuns
  <2>2. QED
    BY <2>1 DEF LineRuns
<1>4. QED
  BY <1>2, <1>3

(* Steps that leave what checkouts have written alone. *)
LEMMA AsideKeepsGrants ==
  ASSUME Inv, GrantsInv, LinesStay, NEW R \in SUBSET Rows,
         checkout' = Outdated(R) \/ UNCHANGED checkout
  PROVE  GrantsInv'
<1>1. \A k \in Checkouts :
        /\ checkout'[k].at = checkout[k].at /\ checkout'[k].written = checkout[k].written
        /\ checkout'[k].granted = checkout[k].granted
  BY ZenonT(30), OutdatedFacts DEF Inv
<1> SUFFICES ASSUME NEW k \in Checkouts, NEW l \in Listings, checkout'[k].at \in Open
             PROVE  checkout'[k].granted[l] = SumFunctionOnSet(LineRuns(k, l)', RowIds)
  BY DEF GrantsInv
<1>2. LineRuns(k, l)' = LineRuns(k, l)
  BY <1>1, LineRunsStay
<1>3. QED
  BY <1>1, <1>2 DEF GrantsInv

(* A checkout takes a step that nobody else sees. *)
LEMMA LocalStepKeepsGrants ==
  ASSUME Inv, GrantsInv, NEW k \in Checkouts, UNCHANGED line,
         \A j \in Checkouts \ {k} : checkout'[j] = checkout[j],
         \A l \in Listings : checkout'[k].at \in Open =>
           checkout'[k].granted[l] = SumFunctionOnSet(LineRuns(k, l)', RowIds)
  PROVE  GrantsInv'
<1> SUFFICES ASSUME NEW j \in Checkouts, NEW l \in Listings, checkout'[j].at \in Open
             PROVE  checkout'[j].granted[l] = SumFunctionOnSet(LineRuns(j, l)', RowIds)
  BY DEF GrantsInv
<1>1. CASE j = k
  BY <1>1
<1>2. CASE j # k
  <2>1. checkout'[j] = checkout[j] /\ LinesStay
    BY <1>2 DEF LinesStay
  <2>2. LineRuns(j, l)' = LineRuns(j, l)
    BY <2>1, LineRunsStay
  <2>3. QED
    BY <2>1, <2>2 DEF GrantsInv
<1>3. QED
  BY <1>1, <1>2

LEMMA CheckoutKeepsGrants ==
  ASSUME Inv, GrantsInv, NEW k \in Checkouts,
         \/ \E u \in Users : Begin(k, u)
         \/ Retry(k) \/ RefuseLines(k) \/ LockCart(k) \/ WriteLine(k)
         \/ SerializationFailure(k) \/ CheckoutFails(k)
  PROVE  GrantsInv'
<1> USE MarketAssumption
<1>1. UNCHANGED line
  BY DEF Begin, Retry, RefuseLines, LockCart, WriteLine, SerializationFailure, CheckoutFails, shop
<1>2. ASSUME NEW x, checkout' = [checkout EXCEPT ![k] = x], x.at \notin Open
      PROVE  GrantsInv'
  <2>1. checkout'[k] = x /\ \A j \in Checkouts \ {k} : checkout'[j] = checkout[j]
    BY <1>2 DEF Inv, TypeOK
  <2>2. QED
    BY <1>1, <1>2, <2>1, LocalStepKeepsGrants
<1>3. ASSUME NEW u \in Users, NEW retried \in BOOLEAN, TakeSnapshot(k, u, retried)
      PROVE  GrantsInv'
  <2>1. CASE checkout' = [checkout EXCEPT ![k] = Over("ended")]
    BY <1>2, <2>1, OverFacts DEF Open
  <2>2. CASE checkout' = [checkout EXCEPT ![k] = Snapshot(u, retried)]
    <3>1. /\ checkout'[k] = Snapshot(u, retried)
          /\ \A j \in Checkouts \ {k} : checkout'[j] = checkout[j]
      BY <2>2 DEF Inv, TypeOK
    <3>2. checkout'[k].written = {} /\ \A l \in Listings : checkout'[k].granted[l] = 0
      <4> DEFINE zero == [l \in Listings |-> 0]
      <4>1. Snapshot(u, retried).written = {} /\ Snapshot(u, retried).granted = zero
        BY SnapshotFacts
      <4>2. \A l \in Listings : zero[l] = 0
        OBVIOUS
      <4> HIDE DEF zero
      <4>3. QED
        BY <3>1, <4>1, <4>2
    <3>3. ASSUME NEW l \in Listings
          PROVE  checkout'[k].granted[l] = SumFunctionOnSet(LineRuns(k, l)', RowIds)
      <4> DEFINE f == LineRuns(k, l)'
      <4>1. \A r \in RowIds : f[r] = 0
        BY <3>2 DEF LineRuns
      <4> HIDE DEF f
      <4>2. SumFunctionOnSet(f, RowIds) = 0
        BY <4>1, SumOfZeros
      <4>3. QED
        BY <3>2, <4>2 DEF f
    <3>4. QED
      BY <1>1, <3>1, <3>3, LocalStepKeepsGrants
  <2>3. QED
    BY <1>3, <2>1, <2>2 DEF TakeSnapshot, Snapshot
<1>4. ASSUME NEW u \in Users, Begin(k, u) PROVE GrantsInv'
  BY <1>3, <1>4 DEF Begin
<1>5. CASE Retry(k)
  <2>1. checkout[k].user \in Users
    BY <1>5 DEF Retry, Inv, CheckoutsInv
  <2>2. QED
    BY <1>3, <1>5, <2>1 DEF Retry
<1>6. CASE RefuseLines(k) \/ CheckoutFails(k)
  BY <1>2, <1>6, OverFacts DEF RefuseLines, CheckoutFails, Open
<1>7. CASE LockCart(k)
  <2>1. checkout[k] \in Record /\ checkout[k].at \in Open
    BY <1>7 DEF LockCart, Inv, TypeOK, Record, Open
  <2>2. /\ checkout'[k] = [checkout[k] EXCEPT !.at = "locked"]
        /\ \A j \in Checkouts \ {k} : checkout'[j] = checkout[j]
    BY <1>7 DEF LockCart, Enter, Inv, TypeOK
  <2>3. checkout'[k].written = checkout[k].written /\ checkout'[k].granted = checkout[k].granted
    BY <2>1, <2>2 DEF Record
  <2>4. \A l \in Listings : LineRuns(k, l)' = LineRuns(k, l)
    BY <1>1, <2>1, <2>3, LineRunsStay DEF LinesStay
  <2>5. \A l \in Listings : checkout'[k].granted[l] = SumFunctionOnSet(LineRuns(k, l)', RowIds)
    BY <2>1, <2>3, <2>4 DEF GrantsInv
  <2>6. QED
    BY <1>1, <2>2, <2>5, LocalStepKeepsGrants
<1>8. CASE WriteLine(k)
  <2>1. PICK r \in NextLine(k) :
          /\ r \in checkout[k].snapshot
          /\ line[r] \in Line
          /\ ListingOn(r) \in Listings
          /\ checkout' = [checkout EXCEPT ![k] = WithLine(k, r)]
          /\ WithLine(k, r).written = checkout[k].written \cup {r}
          /\ WithLine(k, r).granted =
               [checkout[k].granted EXCEPT ![ListingOn(r)] = @ + RunsOf[line[r].item]]
    BY <1>8, WriteLineFacts
  <2>2. /\ checkout'[k] = WithLine(k, r)
        /\ \A j \in Checkouts \ {k} : checkout'[j] = checkout[j]
    BY <2>1 DEF Inv, TypeOK
  <2>3. r \notin checkout[k].written /\ r \in RowIds /\ checkout[k].at \in Open
    BY <1>8, <2>1 DEF NextLine, Unwritten, WriteLine, Open, Inv, TypeOK
  <2>4. \A q : ListingOn(q)' = ListingOn(q)
    BY <1>1 DEF ListingOn
  <2>5. ASSUME NEW l \in Listings
        PROVE  checkout'[k].granted[l] = SumFunctionOnSet(LineRuns(k, l)', RowIds)
    <3>1. checkout[k].granted[l] = SumFunctionOnSet(LineRuns(k, l), RowIds)
          /\ checkout[k].granted \in [Listings -> Nat]
      BY <2>3 DEF GrantsInv, Inv, TypeOK
    <3>2. CASE ListingOn(r) # l
      <4>1. LineRuns(k, l)' = LineRuns(k, l)
        BY <1>1, <2>1, <2>2, <2>4, <3>2 DEF LineRuns
      <4>2. checkout'[k].granted[l] = checkout[k].granted[l]
        BY <2>1, <2>2, <3>1, <3>2
      <4>3. QED
        BY <3>1, <4>1, <4>2
    <3>3. CASE ListingOn(r) = l
      <4> DEFINE f == LineRuns(k, l)
                 g == LineRuns(k, l)'
                 n == RunsOf[line[r].item]
      <4>1. \A q \in RowIds : q # r => f[q] = g[q]
        BY <1>1, <2>1, <2>2, <2>4 DEF LineRuns
      <4>2. f[r] = 0 /\ g[r] = n /\ n \in Nat
        BY <1>1, <2>1, <2>2, <2>3, <2>4, <3>3 DEF LineRuns, Line
      <4>3. PICK u \in Users : TRUE
        BY <2>1 DEF Line
      <4>4. \A q \in RowIds : f[q] \in Int
        BY <2>3, <4>3, RunsOfRowsAreNat
      <4>5. checkout'[k].granted[l] = checkout[k].granted[l] + n
        BY <2>1, <2>2, <3>1, <3>3
      <4>6. checkout[k].granted[l] = SumFunctionOnSet(f, RowIds)
        BY <3>1
      <4> HIDE DEF f, g, n
      <4>7. \A q \in RowIds : f[q] \in Int /\ g[q] \in Int
        BY <4>1, <4>2, <4>4
      <4>8. SumFunctionOnSet(g, RowIds) = SumFunctionOnSet(f, RowIds) + g[r] - f[r]
        BY <2>3, <4>1, <4>7, SumChanges
      <4>9. SumFunctionOnSet(f, RowIds) \in Int
        BY <4>4, SumIsInt
      <4>10. checkout'[k].granted[l] = SumFunctionOnSet(g, RowIds)
        BY <4>2, <4>5, <4>6, <4>8, <4>9
      <4>11. QED
        BY <4>10 DEF g
    <3>4. QED
      BY <3>2, <3>3
  <2>6. QED
    BY <1>1, <2>2, <2>5, LocalStepKeepsGrants
<1>9. CASE SerializationFailure(k)
  <2>1. CASE checkout' = [checkout EXCEPT ![k] = Over("failed")]
    BY <1>2, <2>1, OverFacts DEF Open
  <2>2. CASE checkout' = [checkout EXCEPT ![k] = [Over("again") EXCEPT !.user = checkout[k].user]]
    <3>1. [Over("again") EXCEPT !.user = checkout[k].user].at = "again"
      BY DEF Over, NoCheckout
    <3>2. QED
      BY <1>2, <2>2, <3>1 DEF Open
  <2>3. QED
    BY <1>9, <2>1, <2>2 DEF SerializationFailure, RollBack
<1>10. QED
  BY <1>4, <1>5, <1>6, <1>7, <1>8, <1>9

(* Purchases and what they granted. *)
LEMMA CommitKeepsExplained ==
  ASSUME Inv, GrantsInv, RunsAreExplained, NEW k \in Checkouts, Commit(k)
  PROVE  RunsAreExplained'
<1> USE MarketAssumption
<1> DEFINE me == checkout[k].user
           S == checkout[k].snapshot
<1>1. /\ checkout[k].at = "locked" /\ checkout[k].written = S
      /\ \A r \in S : sold[r] = 0 /\ line[r] \in Line
      /\ sold' = [r \in RowIds |-> IF r \in S THEN 1 ELSE sold[r]]
  BY CommitFacts
<1>2. UNCHANGED line /\ \A r : ListingOn(r)' = ListingOn(r)
  BY DEF Commit, ListingOn
<1>3. me \in Users /\ S \subseteq RowIds /\ \A r \in S : line[r].user = me
  BY <1>1 DEF Inv, TypeOK, CheckoutsInv, Open
<1>4. runs' = [x \in Users \X Listings |->
                 IF x \in LockedRows(k) THEN TopUp(runs[x], checkout[k].granted[x[2]]) ELSE runs[x]]
  BY DEF Commit
<1>5. \A u \in Users, l \in Listings :
        <<u, l>> \in LockedRows(k) <=> u = me /\ l \in PerRun /\ \E r \in S : ListingOn(r) = l
  <2>1. WrittenListings(k) = {ListingOn(r) : r \in S}
    BY <1>1 DEF WrittenListings
  <2>2. \A r \in S : ListingOn(r) \in Listings
    BY <1>1 DEF ListingOn, Line
  <2>3. NewListings(k) \subseteq Listings
    BY <2>1, <2>2 DEF NewListings
  <2>4. LockedRows(k) = NewListings(k) \cup {<<me, l>> : l \in WrittenListings(k) \cap PerRun}
    BY <1>1 DEF LockedRows
  <2> HIDE DEF me, S
  <2>5. \A u \in Users, l \in Listings : <<u, l>> \notin NewListings(k)
    BY <2>3
  <2>6. QED
    BY <2>1, <2>4, <2>5
<1> SUFFICES ASSUME NEW u \in Users, NEW l \in Listings
             PROVE  /\ runs'[<<u, l>>].granted = runs'[<<u, l>>].remaining + runs'[<<u, l>>].consumed
                    /\ runs'[<<u, l>>].granted =
                         IF l \in PerRun THEN SumFunctionOnSet(RowRuns(u, l)', RowIds) ELSE 0
  BY DEF RunsAreExplained, RunsBought, RowRuns
<1> DEFINE x == runs[<<u, l>>]
           f == RowRuns(u, l)
           g == LineRuns(k, l)
           h == RowRuns(u, l)'
<1>6. /\ x \in [granted: Nat, remaining: Nat, consumed: Nat]
      /\ x.granted = x.remaining + x.consumed
      /\ x.granted = IF l \in PerRun THEN SumFunctionOnSet(f, RowIds) ELSE 0
      /\ checkout[k].granted[l] \in Nat
      /\ checkout[k].granted[l] = SumFunctionOnSet(g, RowIds)
  <2>1. x \in [granted: Nat, remaining: Nat, consumed: Nat]
    BY DEF Inv, TypeOK
  <2>2. /\ x.granted = x.remaining + x.consumed
        /\ x.granted = IF l \in PerRun THEN SumFunctionOnSet(f, RowIds) ELSE 0
    BY DEF RunsAreExplained, RunsBought, RowRuns
  <2>3. checkout[k].granted \in [Listings -> Nat]
    BY DEF Inv, TypeOK
  <2>4. checkout[k].granted[l] = SumFunctionOnSet(g, RowIds)
    BY <1>1 DEF GrantsInv, Open
  <2> HIDE DEF x, f, g
  <2>5. QED
    BY <2>1, <2>2, <2>3, <2>4
<1>7. \A r \in RowIds : f[r] \in Int /\ g[r] \in Int
  BY <1>1, RunsOfRowsAreNat DEF Open
<1>8. \A r \in RowIds \ S : h[r] = f[r] /\ g[r] = 0
  BY <1>1, <1>2 DEF RowRuns, LineRuns, Owned
<1>9. \A r \in S : f[r] = 0 /\ h[r] = IF u = me THEN g[r] ELSE 0
  <2> SUFFICES ASSUME NEW r \in S PROVE f[r] = 0 /\ h[r] = IF u = me THEN g[r] ELSE 0
    OBVIOUS
  <2>1. /\ r \in RowIds /\ sold[r] = 0 /\ sold'[r] = 1 /\ line'[r] = line[r]
        /\ line[r].user = me /\ line'[r].user = me /\ RunsOf[line[r].item] \in Nat
        /\ r \in checkout[k].written /\ ListingOn(r)' = ListingOn(r)
    BY <1>1, <1>2, <1>3 DEF Line
  <2>2. f[r] = 0
    BY <2>1 DEF RowRuns, Owned
  <2>3. r \in Owned(u, l)' <=> u = me /\ ListingOn(r) = l
    BY <2>1 DEF Owned
  <2>4. h[r] = IF r \in Owned(u, l)' THEN 1 * RunsOf[line[r].item] ELSE 0
    BY <2>1 DEF RowRuns
  <2>5. g[r] = IF ListingOn(r) = l THEN RunsOf[line[r].item] ELSE 0
    BY <2>1 DEF LineRuns
  <2> HIDE DEF f, g, h, me, S
  <2>6. QED
    BY <2>1, <2>2, <2>3, <2>4, <2>5
<1>10. CASE <<u, l>> \in LockedRows(k)
  <2>1. u = me /\ l \in PerRun
    BY <1>5, <1>10
  <2>2. runs'[<<u, l>>] = TopUp(x, checkout[k].granted[l])
    BY <1>4, <1>10
  <2> DEFINE n == checkout[k].granted[l]
  <2> HIDE DEF x, n
  <2>3. /\ TopUp(x, n).granted = x.granted + n /\ TopUp(x, n).remaining = x.remaining + n
        /\ TopUp(x, n).consumed = x.consumed
    BY <1>6 DEF TopUp
  <2> HIDE DEF f, g, h, me, S
  <2>4. \A r \in RowIds : f[r] \in Int /\ g[r] \in Int /\ h[r] = f[r] + g[r]
    BY <1>7, <1>8, <1>9, <2>1
  <2>5. SumFunctionOnSet(h, RowIds) = SumFunctionOnSet(f, RowIds) + SumFunctionOnSet(g, RowIds)
    BY <2>4, SumAdds
  <2>6. /\ x.granted = x.remaining + x.consumed /\ x.granted = SumFunctionOnSet(f, RowIds)
        /\ n = SumFunctionOnSet(g, RowIds) /\ n \in Nat
        /\ x.granted \in Nat /\ x.remaining \in Nat /\ x.consumed \in Nat
    BY <1>6, <2>1 DEF n
  <2>7. /\ x.granted + n = (x.remaining + n) + x.consumed
        /\ x.granted + n = SumFunctionOnSet(h, RowIds)
    BY <2>5, <2>6
  <2>8. QED
    BY <2>1, <2>2, <2>3, <2>7 DEF h, n
<1>11. CASE <<u, l>> \notin LockedRows(k)
  <2>1. runs'[<<u, l>>] = x
    BY <1>4, <1>11
  <2>2. CASE l \notin PerRun
    BY <1>6, <2>1, <2>2
  <2>3. CASE l \in PerRun
    <3>1. u # me \/ \A r \in S : ListingOn(r) # l
      BY <1>5, <1>11, <2>3
    <3>2. \A r \in S : u # me \/ g[r] = 0
      <4> SUFFICES ASSUME NEW r \in S, u = me PROVE g[r] = 0
        OBVIOUS
      <4>1. r \in RowIds /\ ListingOn(r) # l
        BY <1>3, <3>1
      <4>2. QED
        BY <4>1 DEF LineRuns
    <3> HIDE DEF f, g, h, me, S, x
    <3>3. \A r \in RowIds : h[r] = f[r]
      BY <1>8, <1>9, <3>2
    <3>4. SumFunctionOnSet(h, RowIds) = SumFunctionOnSet(f, RowIds)
      BY <3>3, SumsOfEqualsAreEqual
    <3>5. /\ x.granted = x.remaining + x.consumed /\ x.granted = SumFunctionOnSet(h, RowIds)
      BY <1>6, <2>3, <3>4
    <3>6. QED
      BY <2>1, <2>3, <3>5 DEF h
  <2>4. QED
    BY <2>2, <2>3
<1>12. QED
  BY <1>10, <1>11

LEMMA AsideKeepsExplained ==
  ASSUME Inv, RunsAreExplained, LinesStay, UNCHANGED sold,
         \A y \in Users \X Listings :
           /\ runs'[y].granted = runs[y].granted
           /\ runs'[y].remaining + runs'[y].consumed = runs[y].remaining + runs[y].consumed
  PROVE  RunsAreExplained'
<1> SUFFICES ASSUME NEW u \in Users, NEW l \in Listings
             PROVE  /\ runs'[<<u, l>>].granted = runs'[<<u, l>>].remaining + runs'[<<u, l>>].consumed
                    /\ runs'[<<u, l>>].granted =
                         IF l \in PerRun THEN SumFunctionOnSet(RowRuns(u, l)', RowIds) ELSE 0
  BY DEF RunsAreExplained, RunsBought, RowRuns
<1>1. /\ runs[<<u, l>>].granted = runs[<<u, l>>].remaining + runs[<<u, l>>].consumed
      /\ runs[<<u, l>>].granted = IF l \in PerRun THEN SumFunctionOnSet(RowRuns(u, l), RowIds) ELSE 0
  BY DEF RunsAreExplained, RunsBought, RowRuns
<1>2. RowRuns(u, l)' = RowRuns(u, l)
  BY RowRunsStay
<1>3. /\ runs'[<<u, l>>].granted = runs[<<u, l>>].granted
      /\ runs'[<<u, l>>].remaining + runs'[<<u, l>>].consumed
           = runs[<<u, l>>].remaining + runs[<<u, l>>].consumed
  OBVIOUS
<1>4. QED
  BY <1>1, <1>2, <1>3

LEMMA StepKeepsExplained ==
  Inv /\ GrantsInv /\ RunsAreExplained /\ [Next]_vars => GrantsInv' /\ RunsAreExplained'
<1> SUFFICES ASSUME Inv, GrantsInv, RunsAreExplained, [Next]_vars
             PROVE  GrantsInv' /\ RunsAreExplained'
  OBVIOUS
<1> USE MarketAssumption
<1>1. {} \in SUBSET Rows
  OBVIOUS
<1>2. ASSUME UNCHANGED <<sold, runs>>, LinesStay PROVE RunsAreExplained'
  BY <1>2, AsideKeepsExplained
<1>3. ASSUME NEW x \in Rows, checkout' = Outdated({x}), UNCHANGED line PROVE GrantsInv'
  <2>1. {x} \in SUBSET Rows /\ LinesStay
    BY <1>3 DEF LinesStay
  <2>2. QED
    BY <1>3, <2>1, AsideKeepsGrants
<1>4. ASSUME UNCHANGED <<line, sold, runs, checkout>> PROVE GrantsInv' /\ RunsAreExplained'
  BY <1>1, <1>2, <1>4, AsideKeepsGrants DEF LinesStay
<1>5. ASSUME NEW l \in Moderated, Moderate(l) PROVE GrantsInv' /\ RunsAreExplained'
  <2>1. l \in Rows
    BY DEF Rows
  <2>2. QED
    BY <1>2, <1>3, <1>5, <2>1 DEF Moderate, books, LinesStay
<1>6. ASSUME NEW a \in Adds, CreateRow(a) PROVE GrantsInv' /\ RunsAreExplained'
  <2>1. LinesStay
    BY <1>6 DEF CreateRow, LinesStay, Inv, TypeOK
  <2>2. UNCHANGED <<sold, runs, checkout>>
    BY <1>6 DEF CreateRow, books
  <2>3. QED
    BY <1>1, <1>2, <2>1, <2>2, AsideKeepsGrants
<1>7. ASSUME NEW k \in Checkouts, Commit(k) PROVE GrantsInv' /\ RunsAreExplained'
  <2>1. RunsAreExplained'
    BY <1>7, CommitKeepsExplained
  <2>2. LinesStay
    BY <1>7 DEF Commit, LinesStay
  <2>3. checkout'[k].at = "ended"
    BY <1>7, CommitFacts, OverFacts
  <2>4. \A j \in Checkouts \ {k} :
          /\ checkout'[j].at = checkout[j].at /\ checkout'[j].written = checkout[j].written
          /\ checkout'[j].granted = checkout[j].granted
    <3> DEFINE R == LockedRows(k)
    <3>1. R \in SUBSET Rows /\ \A j \in Checkouts \ {k} : checkout'[j] = Outdated(R)[j]
      BY <1>7, CommitFacts
    <3> HIDE DEF R
    <3>2. \A j \in Checkouts :
            /\ Outdated(R)[j].at = checkout[j].at /\ Outdated(R)[j].written = checkout[j].written
            /\ Outdated(R)[j].granted = checkout[j].granted
      BY <3>1, OutdatedFacts DEF Inv
    <3>3. QED
      BY <3>1, <3>2
  <2>5. ASSUME NEW j \in Checkouts, NEW l \in Listings, checkout'[j].at \in Open
        PROVE  checkout'[j].granted[l] = SumFunctionOnSet(LineRuns(j, l)', RowIds)
    <3>1. j # k
      BY <2>3, <2>5 DEF Open
    <3>2. LineRuns(j, l)' = LineRuns(j, l)
      BY <2>2, <2>4, <2>5, <3>1, LineRunsStay
    <3>3. QED
      BY <2>4, <2>5, <3>1, <3>2 DEF GrantsInv
  <2>6. QED
    BY <2>1, <2>5 DEF GrantsInv
<1>8. ASSUME NEW c \in Consumers, Decrement(c) PROVE GrantsInv' /\ RunsAreExplained'
  <2>1. PICK v \in Users, m \in Listings : RunsRow(c) = <<v, m>>
    BY <1>8 DEF Decrement, RunsRow, Inv, CallersInv
  <2>2. /\ <<v, m>> \in Rows /\ checkout' = Outdated({<<v, m>>})
        /\ runs' = [runs EXCEPT ![<<v, m>>].remaining = @ - 1, ![<<v, m>>].consumed = @ + 1]
        /\ UNCHANGED <<line, sold>> /\ LinesStay
    BY <1>8, <2>1 DEF Decrement, Rows, shop, LinesStay
  <2>3. \A y \in Users \X Listings :
          /\ runs'[y].granted = runs[y].granted
          /\ runs'[y].remaining + runs'[y].consumed = runs[y].remaining + runs[y].consumed
    <3>1. runs \in [Users \X Listings -> [granted: Nat, remaining: Nat, consumed: Nat]]
      BY DEF Inv, TypeOK
    <3>2. /\ \A y \in Users \X Listings : y # <<v, m>> => runs'[y] = runs[y]
          /\ runs'[<<v, m>>].granted = runs[<<v, m>>].granted
          /\ runs'[<<v, m>>].remaining = runs[<<v, m>>].remaining - 1
          /\ runs'[<<v, m>>].consumed = runs[<<v, m>>].consumed + 1
      BY <2>2, <3>1
    <3>3. runs[<<v, m>>].remaining \in Nat /\ runs[<<v, m>>].consumed \in Nat
      BY <3>1
    <3>4. runs'[<<v, m>>].remaining + runs'[<<v, m>>].consumed
            = runs[<<v, m>>].remaining + runs[<<v, m>>].consumed
      BY <3>2, <3>3
    <3>5. QED
      BY <3>2, <3>4
  <2>4. QED
    BY <1>3, <2>2, <2>3, AsideKeepsExplained
<1>9. ASSUME NEW c \in Consumers, CountRun(c) PROVE GrantsInv' /\ RunsAreExplained'
  <2>1. consumer[c].listing \in Rows
    BY <1>9 DEF CountRun, Rows, Inv, CallersInv
  <2>2. QED
    BY <1>2, <1>3, <1>9, <2>1 DEF CountRun, shop, LinesStay
<1>10. ASSUME NEW k \in Checkouts,
              \/ \E u \in Users : Begin(k, u)
              \/ Retry(k) \/ RefuseLines(k) \/ LockCart(k) \/ WriteLine(k)
              \/ SerializationFailure(k) \/ CheckoutFails(k)
       PROVE  GrantsInv' /\ RunsAreExplained'
  <2>1. UNCHANGED <<line, sold, runs>> /\ LinesStay
    BY <1>10 DEF Begin, Retry, RefuseLines, LockCart, WriteLine, SerializationFailure, CheckoutFails,
       shop, books, LinesStay
  <2>2. QED
    BY <1>2, <1>10, <2>1, CheckoutKeepsGrants
<1>11. CASE \/ UNCHANGED vars \/ AllEnded
            \/ \E a \in Adds : \/ \E x \in Added : CheckItem(a, x.user, x.item)
                               \/ FindInCart(a) \/ FindRacedRow(a)
            \/ \E r \in Removable : RemoveItem(r)
            \/ \E c \in Consumers :
                 \/ \E u \in Users, l \in Listings : Authorize(c, u, l)
                 \/ RefuseRun(c) \/ ConsumerFails(c)
  BY <1>4, <1>11 DEF vars, AllEnded, CheckItem, FindInCart, FindRacedRow, RemoveItem, Authorize,
     RefuseRun, ConsumerFails, shop, books
<1>12. QED
  BY <1>5, <1>6, <1>7, <1>8, <1>9, <1>10, <1>11 DEF Next, CheckoutStep

\* What a user can run of a listing is what the packs bought granted, less what
\* was consumed: no run is lost or made by checkouts that overlap, by a retry or
\* by consumers that race for the last run.
THEOREM MarketplaceRunsAreExplained == Spec => []RunsAreExplained
<1>1. Init => GrantsInv /\ RunsAreExplained
  <2> SUFFICES ASSUME Init PROVE GrantsInv /\ RunsAreExplained
    OBVIOUS
  <2>1. GrantsInv
    BY DEF Init, GrantsInv, NoCheckout, Open
  <2>2. ASSUME NEW u \in Users, NEW l \in Listings
        PROVE  SumFunctionOnSet(RowRuns(u, l), RowIds) = 0
    <3> DEFINE f == RowRuns(u, l)
    <3>1. \A r \in RowIds : f[r] = 0
      BY DEF Init, RowRuns, Owned
    <3> HIDE DEF f
    <3>2. SumFunctionOnSet(f, RowIds) = 0
      BY <3>1, MarketAssumption, SumOfZeros
    <3>3. QED
      BY <3>2 DEF f
  <2>3. \A u \in Users, l \in Listings : RunsBought(u, l) = 0
    BY <2>2 DEF RunsBought, RowRuns
  <2>4. RunsAreExplained
    <3> SUFFICES ASSUME NEW u \in Users, NEW l \in Listings
                 PROVE  /\ runs[u, l].granted = runs[u, l].remaining + runs[u, l].consumed
                        /\ runs[u, l].granted = IF l \in PerRun THEN RunsBought(u, l) ELSE 0
      BY DEF RunsAreExplained
    <3>1. RunsBought(u, l) = 0
      BY <2>3
    <3>2. runs[<<u, l>>] = NoRuns
      BY DEF Init
    <3>3. NoRuns.granted = 0 /\ NoRuns.remaining = 0 /\ NoRuns.consumed = 0
      BY DEF NoRuns
    <3>4. NoRuns.granted = NoRuns.remaining + NoRuns.consumed
      BY <3>3
    <3>5. QED
      BY <3>1, <3>2, <3>3, <3>4
  <2>5. QED
    BY <2>1, <2>4
<1>2. Inv /\ GrantsInv /\ RunsAreExplained /\ [Next]_vars => (Inv /\ GrantsInv /\ RunsAreExplained)'
  BY StepKeepsInv, StepKeepsExplained
<1>3. QED
  BY <1>1, <1>2, InitInv, PTL DEF Spec
-----------------------------------------------------------------------------
Under == {"checked", "create"}

\* As long as adds of one item to one cart do not overlap, a cart has one row of
\* an item, and an add that is about to create a row has found none.
CartsInv ==
  /\ \A q, r \in cart : line[q] = line[r] => q = r
  /\ \A a \in Adds : add[a].at = "create" => InCart(add[a].user, add[a].item) = {}
  /\ \A a, b \in Adds :
       add[a].at \in Under /\ add[b].at \in Under /\ add[a].user = add[b].user
         /\ add[a].item = add[b].item => a = b

\* A checkout that has not refused its lines saw no purchase of what it sells
\* once only.
ValidInv ==
  \A k \in Checkouts :
    /\ checkout[k].at = "locked" => ~checkout[k].refused
    /\ checkout[k].at \in Open /\ ~checkout[k].refused =>
         \A r \in checkout[k].snapshot :
           ListingOn(r) \in PerRun \/ ListingOn(r) \notin checkout[k].bought

OneRowOwned ==
  \A u \in Users, l \in Listings \ PerRun : \A q, r \in Owned(u, l) : q = r

OnceInv == ValidInv /\ ("overlap" \in faults \/ (CartsInv /\ OneRowOwned))

LEMMA OutdatedKeepsValid ==
  ASSUME Inv, ValidInv, LinesStay, NEW R \in SUBSET Rows,
         checkout' = Outdated(R) \/ UNCHANGED checkout
  PROVE  ValidInv'
<1>1. \A k \in Checkouts :
        /\ checkout'[k].at = checkout[k].at /\ checkout'[k].refused = checkout[k].refused
        /\ checkout'[k].snapshot = checkout[k].snapshot /\ checkout'[k].bought = checkout[k].bought
  BY ZenonT(30), OutdatedFacts DEF Inv
<1> SUFFICES ASSUME NEW k \in Checkouts
             PROVE  /\ checkout[k].at = "locked" => ~checkout[k].refused
                    /\ checkout[k].at \in Open /\ ~checkout[k].refused =>
                         \A r \in checkout[k].snapshot :
                           ListingOn(r)' \in PerRun \/ ListingOn(r)' \notin checkout[k].bought
  BY <1>1 DEF ValidInv
<1>2. CASE checkout[k].at \in Open
  <2>1. \A r \in checkout[k].snapshot : r \in RowIds /\ line[r] # None
    BY <1>2, MarketAssumption DEF Inv, TypeOK, CheckoutsInv
  <2>2. \A r \in checkout[k].snapshot : ListingOn(r)' = ListingOn(r)
    BY <2>1 DEF LinesStay, ListingOn
  <2>3. QED
    BY <1>2, <2>2 DEF ValidInv
<1>3. CASE checkout[k].at \notin Open
  BY <1>3 DEF Open
<1>4. QED
  BY <1>2, <1>3

(* A checkout takes a step that nobody else sees. *)
LEMMA LocalStepKeepsValid ==
  ASSUME Inv, ValidInv, NEW k \in Checkouts, UNCHANGED line,
         \A j \in Checkouts \ {k} : checkout'[j] = checkout[j],
         checkout'[k].at = "locked" => ~checkout'[k].refused,
         checkout'[k].at \in Open /\ ~checkout'[k].refused =>
           \A r \in checkout'[k].snapshot :
             ListingOn(r) \in PerRun \/ ListingOn(r) \notin checkout'[k].bought
  PROVE  ValidInv'
<1>1. \A r : ListingOn(r)' = ListingOn(r)
  BY DEF ListingOn
<1>2. QED
  BY <1>1 DEF ValidInv

LEMMA CheckoutKeepsValid ==
  ASSUME Inv, ValidInv, NEW k \in Checkouts,
         \/ \E u \in Users : Begin(k, u)
         \/ Retry(k) \/ RefuseLines(k) \/ LockCart(k) \/ WriteLine(k)
         \/ SerializationFailure(k) \/ CheckoutFails(k)
  PROVE  ValidInv'
<1>1. UNCHANGED line
  BY DEF Begin, Retry, RefuseLines, LockCart, WriteLine, SerializationFailure, CheckoutFails, shop
<1>2. ASSUME NEW x, checkout' = [checkout EXCEPT ![k] = x], x.at \notin Open
      PROVE  ValidInv'
  <2>1. checkout'[k] = x /\ \A j \in Checkouts \ {k} : checkout'[j] = checkout[j]
    BY <1>2 DEF Inv, TypeOK
  <2>2. QED
    BY <1>1, <1>2, <2>1, LocalStepKeepsValid DEF Open
<1>3. ASSUME NEW u \in Users, NEW retried \in BOOLEAN, TakeSnapshot(k, u, retried)
      PROVE  ValidInv'
  <2>1. CASE checkout' = [checkout EXCEPT ![k] = Over("ended")]
    BY <1>2, <2>1, OverFacts DEF Open
  <2>2. CASE checkout' = [checkout EXCEPT ![k] = Snapshot(u, retried)]
    <3>1. /\ Snapshot(u, retried).at = "begun"
          /\ Snapshot(u, retried).snapshot = CartOf(u)
          /\ Snapshot(u, retried).bought = {l \in Listings : Owns(u, l)}
          /\ Snapshot(u, retried).refused = \E r \in CartOf(u) : ~CanBuy(u, r)
      BY ZenonT(30), SnapshotFacts
    <3> DEFINE owned == {l \in Listings : Owns(u, l)}
               refusal == \E r \in CartOf(u) : ~CanBuy(u, r)
               x == Snapshot(u, retried)
    <3>2. x.at = "begun" /\ x.snapshot = CartOf(u) /\ x.bought = owned /\ x.refused = refusal
      BY <3>1
    <3>3. ASSUME ~refusal, NEW r \in CartOf(u)
          PROVE  ListingOn(r) \in PerRun \/ ListingOn(r) \notin owned
      BY <3>3 DEF CanBuy, Purchasable
    <3>4. checkout'[k] = x /\ \A j \in Checkouts \ {k} : checkout'[j] = checkout[j]
      BY <2>2 DEF Inv, TypeOK
    <3> HIDE DEF owned, refusal, x
    <3>5. QED
      BY <1>1, <3>2, <3>3, <3>4, LocalStepKeepsValid
  <2>3. QED
    BY <1>3, <2>1, <2>2 DEF TakeSnapshot, Snapshot
<1>4. ASSUME NEW u \in Users, Begin(k, u) PROVE ValidInv'
  BY <1>3, <1>4 DEF Begin
<1>5. CASE Retry(k)
  <2>1. checkout[k].user \in Users
    BY <1>5 DEF Retry, Inv, CheckoutsInv
  <2>2. QED
    BY <1>3, <1>5, <2>1 DEF Retry
<1>6. CASE RefuseLines(k) \/ CheckoutFails(k)
  BY <1>2, <1>6, OverFacts DEF RefuseLines, CheckoutFails, Open
<1>7. CASE LockCart(k)
  <2>1. checkout[k] \in Record /\ checkout[k].at \in Open /\ ~checkout[k].refused
    BY <1>7 DEF LockCart, Inv, TypeOK, Record, Open
  <2>2. /\ checkout'[k] = [checkout[k] EXCEPT !.at = "locked"]
        /\ \A j \in Checkouts \ {k} : checkout'[j] = checkout[j]
    BY <1>7 DEF LockCart, Enter, Inv, TypeOK
  <2>3. /\ checkout'[k].snapshot = checkout[k].snapshot /\ checkout'[k].bought = checkout[k].bought
        /\ checkout'[k].refused = checkout[k].refused
    BY <2>1, <2>2 DEF Record
  <2>4. \A r \in checkout[k].snapshot : ListingOn(r) \in PerRun \/ ListingOn(r) \notin checkout[k].bought
    BY <2>1 DEF ValidInv
  <2>5. QED
    BY <1>1, <2>1, <2>2, <2>3, <2>4, LocalStepKeepsValid
<1>8. CASE WriteLine(k)
  <2>1. PICK r \in NextLine(k) :
          /\ checkout' = [checkout EXCEPT ![k] = WithLine(k, r)]
          /\ WithLine(k, r).snapshot = checkout[k].snapshot
          /\ WithLine(k, r).bought = checkout[k].bought
          /\ WithLine(k, r).refused = checkout[k].refused
    BY <1>8, WriteLineFacts
  <2>2. /\ checkout'[k] = WithLine(k, r)
        /\ \A j \in Checkouts \ {k} : checkout'[j] = checkout[j]
    BY <2>1 DEF Inv, TypeOK
  <2>3. checkout[k].at = "locked"
    BY <1>8 DEF WriteLine
  <2>4. /\ ~checkout[k].refused
        /\ \A q \in checkout[k].snapshot :
             ListingOn(q) \in PerRun \/ ListingOn(q) \notin checkout[k].bought
    BY <2>3 DEF ValidInv, Open
  <2>5. /\ checkout'[k].snapshot = checkout[k].snapshot /\ checkout'[k].bought = checkout[k].bought
        /\ checkout'[k].refused = checkout[k].refused
    BY <2>1, <2>2
  <2>6. QED
    BY <1>1, <2>2, <2>4, <2>5, LocalStepKeepsValid
<1>9. CASE SerializationFailure(k)
  <2>1. CASE checkout' = [checkout EXCEPT ![k] = Over("failed")]
    BY <1>2, <2>1, OverFacts DEF Open
  <2>2. CASE checkout' = [checkout EXCEPT ![k] = [Over("again") EXCEPT !.user = checkout[k].user]]
    <3>1. [Over("again") EXCEPT !.user = checkout[k].user].at = "again"
      BY DEF Over, NoCheckout
    <3>2. QED
      BY <1>2, <2>2, <3>1 DEF Open
  <2>3. QED
    BY <1>9, <2>1, <2>2 DEF SerializationFailure, RollBack
<1>10. QED
  BY <1>4, <1>5, <1>6, <1>7, <1>8, <1>9

(* The cart rows there are keep their lines: carts get smaller, adds end. *)
LEMMA FewerRowsKeepCarts ==
  ASSUME Inv, CartsInv, cart' \subseteq cart, UNCHANGED line,
         \A a \in Adds :
           add'[a].at \in Under =>
             /\ add[a].at \in Under /\ add'[a].user = add[a].user /\ add'[a].item = add[a].item
             /\ add'[a].at = "create" => InCart(add[a].user, add[a].item) = {}
  PROVE  CartsInv'
<1>1. \A q, r \in cart' : line'[q] = line'[r] => q = r
  BY DEF CartsInv
<1>2. ASSUME NEW a \in Adds, add'[a].at = "create"
      PROVE  InCart(add[a].user, add[a].item)' = {}
  <2>1. /\ InCart(add[a].user, add[a].item) = {}
        /\ add'[a].user = add[a].user /\ add'[a].item = add[a].item
    BY <1>2 DEF Under
  <2>2. \A r \in cart' : r \in cart /\ line'[r] = line[r]
    OBVIOUS
  <2>3. QED
    BY <2>1, <2>2 DEF InCart
<1>3. ASSUME NEW a \in Adds, NEW b \in Adds, add'[a].at \in Under, add'[b].at \in Under,
             add'[a].user = add'[b].user, add'[a].item = add'[b].item
      PROVE  a = b
  BY <1>3 DEF CartsInv
<1>4. QED
  BY <1>1, <1>2, <1>3 DEF CartsInv

LEMMA AddKeepsCarts ==
  ASSUME Inv, CartsInv, "overlap" \notin faults, NEW a \in Adds,
         \/ \E x \in Added : CheckItem(a, x.user, x.item)
         \/ FindInCart(a) \/ FindRacedRow(a) \/ CreateRow(a)
  PROVE  CartsInv'
<1> DEFINE Call == [at: {"idle", "checked", "create", "ended"},
                    user: Users \cup {None}, item: Items \cup {None}]
<1>1. add \in [Adds -> Call]
  BY DEF Inv, TypeOK
<1>2. ASSUME EndAdd(a)
      PROVE  /\ add'[a].at = "ended"
             /\ \A b \in Adds : b # a => add'[b] = add[b]
  BY <1>1, <1>2 DEF EndAdd, NoAdd
<1>3. ASSUME EndAdd(a), UNCHANGED <<line, cart>> PROVE CartsInv'
  BY <1>2, <1>3, FewerRowsKeepCarts DEF Under, CartsInv
<1>4. ASSUME NEW x \in Added, CheckItem(a, x.user, x.item) PROVE CartsInv'
  <2>1. UNCHANGED <<line, cart>>
    BY <1>4 DEF CheckItem, shop
  <2>2. CASE EndAdd(a)
    BY <1>3, <2>1, <2>2
  <2>3. CASE add' = [add EXCEPT ![a] = [at |-> "checked", user |-> x.user, item |-> x.item]]
    <3>1. /\ add'[a].at = "checked" /\ add'[a].user = x.user /\ add'[a].item = x.item
          /\ \A b \in Adds : b # a => add'[b] = add[b]
      BY <1>1, <2>3
    <3>2. \A b \in Adds : add[b].at \in Under => ~(add[b].user = x.user /\ add[b].item = x.item)
      BY <1>4 DEF CheckItem, Adding, Under
    <3>3. \A b, c \in Adds :
            add'[b].at \in Under /\ add'[c].at \in Under /\ add'[b].user = add'[c].user
              /\ add'[b].item = add'[c].item => b = c
      BY <3>1, <3>2 DEF CartsInv
    <3>4. ASSUME NEW b \in Adds, add'[b].at = "create"
          PROVE  InCart(add[b].user, add[b].item)' = {}
      <4>1. b # a /\ add'[b] = add[b]
        BY <3>1, <3>4
      <4>2. InCart(add[b].user, add[b].item) = {}
        BY <3>4, <4>1 DEF CartsInv
      <4>3. QED
        BY <2>1, <4>1, <4>2 DEF InCart
    <3>5. QED
      BY <2>1, <3>3, <3>4 DEF CartsInv
  <2>4. QED
    BY <1>4, <2>2, <2>3 DEF CheckItem
<1>5. CASE FindInCart(a)
  <2>1. UNCHANGED <<line, cart>>
    BY <1>5 DEF FindInCart, shop
  <2>2. CASE InCart(add[a].user, add[a].item) # {}
    BY <1>3, <1>5, <2>1, <2>2 DEF FindInCart
  <2>3. CASE InCart(add[a].user, add[a].item) = {}
    <3>1. add[a].at = "checked" /\ add' = [add EXCEPT ![a].at = "create"]
      BY <1>5, <2>3 DEF FindInCart
    <3>2. /\ add'[a].user = add[a].user /\ add'[a].item = add[a].item
          /\ \A b \in Adds : b # a => add'[b] = add[b]
      BY <1>1, <3>1
    <3>3. \A b \in Adds : b # a /\ add[b].at = "create" => InCart(add[b].user, add[b].item) = {}
      BY DEF CartsInv
    <3>4. QED
      BY <2>1, <2>3, <3>1, <3>2, <3>3, FewerRowsKeepCarts DEF Under
  <2>4. QED
    BY <2>2, <2>3
<1>6. CASE FindRacedRow(a)
  BY <1>3, <1>6 DEF FindRacedRow, shop
<1>7. CASE CreateRow(a)
  <2>1. PICK r \in RowIds :
          /\ line[r] = None
          /\ line' = [line EXCEPT ![r] = [user |-> add[a].user, item |-> add[a].item]]
          /\ cart' = cart \cup {r}
    BY <1>7 DEF CreateRow
  <2>2. add[a].at = "create" /\ EndAdd(a)
    BY <1>7 DEF CreateRow
  <2>3. /\ add'[a].at = "ended" /\ \A b \in Adds : b # a => add'[b] = add[b]
    BY <1>2, <2>2
  <2> DEFINE new == [user |-> add[a].user, item |-> add[a].item]
  <2>4. /\ r \notin cart /\ cart \subseteq RowIds /\ line'[r] = new
        /\ \A q \in cart : line'[q] = line[q]
    BY <2>1 DEF Inv, TypeOK, RowsInv
  <2>5. \A q \in cart : line[q] # new
    BY <2>2 DEF CartsInv, InCart
  <2>6. \A p, q \in cart : line[p] = line[q] => p = q
    BY DEF CartsInv
  <2>7. \A p, q \in cart' : line'[p] = line'[q] => p = q
    <3> HIDE DEF new
    <3>1. QED
      BY <2>1, <2>4, <2>5, <2>6
  <2>8. ASSUME NEW b \in Adds, add'[b].at = "create"
        PROVE  InCart(add[b].user, add[b].item)' = {}
    <3>1. b # a /\ add'[b] = add[b] /\ add[b].at = "create"
      BY <2>3, <2>8
    <3>2. ~(add[b].user = add[a].user /\ add[b].item = add[a].item)
      BY <2>2, <3>1 DEF CartsInv, Under
    <3>3. InCart(add[b].user, add[b].item) = {}
      BY <3>1 DEF CartsInv
    <3>4. [user |-> add[b].user, item |-> add[b].item] # new
      BY <3>2
    <3> HIDE DEF new
    <3>5. QED
      BY <2>1, <2>4, <3>1, <3>3, <3>4 DEF InCart
  <2>9. \A b, c \in Adds :
          add'[b].at \in Under /\ add'[c].at \in Under /\ add'[b].user = add'[c].user
            /\ add'[b].item = add'[c].item => b = c
    BY <2>3 DEF CartsInv, Under
  <2>10. QED
    BY <2>7, <2>8, <2>9 DEF CartsInv
<1>8. QED
  BY <1>4, <1>5, <1>6, <1>7

(* The rows a user owns a listing by stay as they are. *)
LEMMA OwnedStays ==
  ASSUME Inv, LinesStay, UNCHANGED sold, OneRowOwned
  PROVE  OneRowOwned'
<1>1. \A r \in RowIds : sold[r] > 0 => line'[r] = line[r]
  BY DEF Inv, RowsInv, LinesStay
<1>2. \A r \in RowIds : sold[r] > 0 => ListingOn(r)' = ListingOn(r)
  BY <1>1 DEF ListingOn
<1>3. \A u \in Users, l \in Listings : Owned(u, l)' = Owned(u, l)
  BY <1>1, <1>2 DEF Owned
<1>4. QED
  BY <1>3 DEF OneRowOwned

(* What a commit sells once only was not owned, and is one row of the cart. *)
LEMMA CommitKeepsOwned ==
  ASSUME Inv, BuyersInv, ValidInv, CartsInv, OneRowOwned, NEW k \in Checkouts, Commit(k)
  PROVE  OneRowOwned'
<1> DEFINE me == checkout[k].user
           S == checkout[k].snapshot
<1>1. /\ checkout[k].at = "locked" /\ checkout[k].written = S /\ S \subseteq cart
      /\ \A r \in S : sold[r] = 0 /\ line[r] \in Line
      /\ sold' = [r \in RowIds |-> IF r \in S THEN 1 ELSE sold[r]]
  BY CommitFacts
<1>2. UNCHANGED line /\ \A r : ListingOn(r)' = ListingOn(r)
  BY DEF Commit, ListingOn
<1>3. me \in Users /\ S \subseteq RowIds /\ \A r \in S : line[r].user = me
  BY <1>1 DEF Inv, TypeOK, CheckoutsInv, Open
<1>4. \A r \in S : ListingOn(r) \in Listings
  BY <1>1, MarketAssumption DEF ListingOn, Line
<1>5. \A r \in S : ListingOn(r) \in PerRun \/ ListingOn(r) \notin checkout[k].bought
  BY <1>1 DEF ValidInv, Open
<1>6. ASSUME NEW r \in S, ListingOn(r) \notin PerRun PROVE ~Owns(me, ListingOn(r))
  <2>1. ListingOn(r) \in LockedRows(k) /\ ListingOn(r) \notin checkout[k].bought
    BY <1>1, <1>5, <1>6 DEF LockedRows, NewListings, WrittenListings
  <2>2. ListingOn(r) \notin checkout[k].stale
    BY <2>1 DEF BuyersInv, RowLocksInv
  <2>3. QED
    BY <1>1, <1>3, <1>4, <2>1, <2>2 DEF BuyersInv, KnownInv, Open
<1>7. ASSUME NEW q \in S, NEW r \in S, ListingOn(q) = ListingOn(r), ListingOn(r) \notin PerRun
      PROVE  q = r
  <2>1. /\ line[q] \in [user: Users, item: Items] /\ line[r] \in [user: Users, item: Items]
        /\ line[q].user = line[r].user
    BY <1>1, <1>3 DEF Line
  <2>2. line[q].item = line[r].item
    BY <1>7, <2>1, MarketAssumption DEF ListingOn
  <2>3. line[q] = line[r]
    BY <2>1, <2>2
  <2>4. QED
    BY <1>1, <2>3 DEF CartsInv
<1>8. ASSUME NEW u \in Users, NEW l \in Listings \ PerRun, NEW q \in Owned(u, l)', NEW r \in Owned(u, l)'
      PROVE  q = r
  <2>1. /\ q \in RowIds /\ line[q].user = u /\ ListingOn(q) = l
        /\ r \in RowIds /\ line[r].user = u /\ ListingOn(r) = l
        /\ sold'[q] > 0 /\ sold'[r] > 0
    BY <1>2 DEF Owned
  <2>2. \A p \in RowIds : sold'[p] > 0 => p \in S \/ sold[p] > 0
    BY <1>1
  <2>3. CASE q \in S /\ r \in S
    BY <1>7, <2>1, <2>3
  <2>4. CASE q \in S /\ r \notin S
    <3>1. sold[r] > 0 /\ u = me
      BY <1>3, <2>1, <2>2, <2>4
    <3>2. Owns(me, ListingOn(q))
      BY <2>1, <3>1 DEF Owns
    <3>3. QED
      BY <1>6, <2>1, <2>4, <3>2
  <2>5. CASE q \notin S /\ r \in S
    <3>1. sold[q] > 0 /\ u = me
      BY <1>3, <2>1, <2>2, <2>5
    <3>2. Owns(me, ListingOn(r))
      BY <2>1, <3>1 DEF Owns
    <3>3. QED
      BY <1>6, <2>1, <2>5, <3>2
  <2>6. CASE q \notin S /\ r \notin S
    <3>1. q \in Owned(u, l) /\ r \in Owned(u, l)
      BY <2>1, <2>2, <2>6 DEF Owned
    <3>2. QED
      BY <3>1 DEF OneRowOwned
  <2>7. QED
    BY <2>3, <2>4, <2>5, <2>6
<1>9. QED
  BY <1>8 DEF OneRowOwned

LEMMA StepKeepsOnce == Inv /\ BuyersInv /\ OnceInv /\ [Next]_vars => OnceInv'
<1> SUFFICES ASSUME Inv, BuyersInv, OnceInv, [Next]_vars PROVE OnceInv'
  OBVIOUS
<1>1. {} \in SUBSET Rows
  OBVIOUS
<1>2. ASSUME LinesStay, NEW R \in SUBSET Rows, checkout' = Outdated(R) \/ UNCHANGED checkout,
             UNCHANGED <<sold, faults>>, "overlap" \notin faults => (CartsInv => CartsInv')
      PROVE  OnceInv'
  <2>1. ValidInv'
    BY <1>2, OutdatedKeepsValid DEF OnceInv
  <2>2. OneRowOwned => OneRowOwned'
    BY <1>2, OwnedStays
  <2>3. QED
    BY <1>2, <2>1, <2>2 DEF OnceInv
<1>3. ASSUME UNCHANGED <<line, cart, add>> PROVE CartsInv => CartsInv'
  <2>1. CASE CartsInv
    BY <1>3, <2>1, FewerRowsKeepCarts DEF CartsInv
  <2>2. QED
    BY <2>1
<1>4. ASSUME UNCHANGED <<line, cart, sold, add, checkout, faults>> PROVE OnceInv'
  <2>1. LinesStay
    BY <1>4 DEF LinesStay
  <2>2. QED
    BY <1>1, <1>2, <1>3, <1>4, <2>1
<1>5. ASSUME NEW x \in Rows, checkout' = Outdated({x}), UNCHANGED <<line, cart, sold, add, faults>>
      PROVE  OnceInv'
  <2>1. LinesStay /\ {x} \in SUBSET Rows
    BY <1>5 DEF LinesStay
  <2>2. QED
    BY <1>2, <1>3, <1>5, <2>1
<1>6. ASSUME NEW l \in Moderated, Moderate(l) PROVE OnceInv'
  BY <1>5, <1>6, MarketAssumption DEF Moderate, books, Rows
<1>7. ASSUME NEW a \in Adds,
             \/ \E x \in Added : CheckItem(a, x.user, x.item)
             \/ FindInCart(a) \/ FindRacedRow(a) \/ CreateRow(a)
      PROVE  OnceInv'
  <2>1. LinesStay
    BY <1>7 DEF CheckItem, FindInCart, FindRacedRow, CreateRow, LinesStay, shop, Inv, TypeOK
  <2>2. UNCHANGED <<sold, checkout, faults>>
    BY <1>7 DEF CheckItem, FindInCart, FindRacedRow, CreateRow, books
  <2>3. "overlap" \notin faults => (CartsInv => CartsInv')
    BY <1>7, AddKeepsCarts
  <2>4. QED
    BY <1>1, <1>2, <2>1, <2>2, <2>3
<1>8. ASSUME NEW r \in Removable, RemoveItem(r) PROVE OnceInv'
  <2>1. /\ cart' \subseteq cart /\ UNCHANGED <<line, sold, add, checkout, faults>> /\ LinesStay
    BY <1>8 DEF RemoveItem, books, LinesStay
  <2>2. CartsInv => CartsInv'
    <3>1. CASE CartsInv
      BY <2>1, <3>1, FewerRowsKeepCarts DEF CartsInv
    <3>2. QED
      BY <3>1
  <2>3. QED
    BY <1>1, <1>2, <2>1, <2>2
<1>9. ASSUME NEW k \in Checkouts, Commit(k) PROVE OnceInv'
  <2>1. /\ cart' \subseteq cart /\ UNCHANGED <<line, add, faults>> /\ LinesStay
    BY <1>9 DEF Commit, LinesStay
  <2>2. CartsInv => CartsInv'
    <3>1. CASE CartsInv
      BY <2>1, <3>1, FewerRowsKeepCarts DEF CartsInv
    <3>2. QED
      BY <3>1
  <2>3. ValidInv /\ CartsInv /\ OneRowOwned => OneRowOwned'
    BY <1>9, CommitKeepsOwned
  <2>4. ValidInv'
    <3>1. /\ checkout'[k].at = "ended"
          /\ LockedRows(k) \in SUBSET Rows
          /\ \A j \in Checkouts \ {k} : checkout'[j] = Outdated(LockedRows(k))[j]
      BY <1>9, CommitFacts, OverFacts
    <3> DEFINE R == LockedRows(k)
    <3>2. R \in SUBSET Rows /\ \A j \in Checkouts \ {k} : checkout'[j] = Outdated(R)[j]
      BY <3>1
    <3> HIDE DEF R
    <3>3. \A j \in Checkouts \ {k} :
            /\ checkout'[j].at = checkout[j].at /\ checkout'[j].refused = checkout[j].refused
            /\ checkout'[j].snapshot = checkout[j].snapshot /\ checkout'[j].bought = checkout[j].bought
      <4>1. \A j \in Checkouts :
              /\ Outdated(R)[j].at = checkout[j].at /\ Outdated(R)[j].refused = checkout[j].refused
              /\ Outdated(R)[j].snapshot = checkout[j].snapshot
              /\ Outdated(R)[j].bought = checkout[j].bought
        BY <3>2, OutdatedFacts DEF Inv
      <4>2. QED
        BY <3>2, <4>1
    <3>4. \A r : ListingOn(r)' = ListingOn(r)
      BY <2>1 DEF ListingOn
    <3>5. QED
      BY <3>1, <3>3, <3>4 DEF OnceInv, ValidInv, Open
  <2>5. faults' = faults
    BY <2>1
  <2>6. "overlap" \in faults \/ (CartsInv' /\ OneRowOwned')
    BY <2>2, <2>3 DEF OnceInv
  <2>7. QED
    BY <2>4, <2>5, <2>6 DEF OnceInv
<1>10. ASSUME NEW c \in Consumers, Decrement(c) PROVE OnceInv'
  <2>1. RunsRow(c) \in Rows
    BY <1>10 DEF Decrement, RunsRow, Rows, Inv, CallersInv
  <2>2. QED
    BY <1>5, <1>10, <2>1 DEF Decrement, shop
<1>11. ASSUME NEW c \in Consumers, CountRun(c) PROVE OnceInv'
  <2>1. consumer[c].listing \in Rows
    BY <1>11 DEF CountRun, Rows, Inv, CallersInv
  <2>2. QED
    BY <1>5, <1>11, <2>1 DEF CountRun, shop
<1>12. ASSUME NEW k \in Checkouts,
              \/ \E u \in Users : Begin(k, u)
              \/ Retry(k) \/ RefuseLines(k) \/ LockCart(k) \/ WriteLine(k)
              \/ SerializationFailure(k) \/ CheckoutFails(k)
       PROVE  OnceInv'
  <2>1. UNCHANGED <<line, cart, sold, add, faults>> /\ LinesStay
    BY <1>12 DEF Begin, Retry, RefuseLines, LockCart, WriteLine, SerializationFailure, CheckoutFails,
       shop, books, LinesStay
  <2>2. ValidInv'
    BY <1>12, CheckoutKeepsValid DEF OnceInv
  <2>3. OneRowOwned => OneRowOwned'
    BY <2>1, OwnedStays
  <2>4. QED
    BY <1>3, <2>1, <2>2, <2>3 DEF OnceInv
<1>13. CASE \/ UNCHANGED vars \/ AllEnded
            \/ \E c \in Consumers :
                 \/ \E u \in Users, l \in Listings : Authorize(c, u, l)
                 \/ RefuseRun(c) \/ ConsumerFails(c)
  BY <1>4, <1>13 DEF vars, AllEnded, Authorize, RefuseRun, ConsumerFails, shop, books
<1>14. QED
  BY <1>6, <1>7, <1>8, <1>9, <1>10, <1>11, <1>12, <1>13 DEF Next, CheckoutStep

LEMMA InitOnceInv == Init => OnceInv
<1> SUFFICES ASSUME Init PROVE OnceInv
  OBVIOUS
<1>1. ValidInv
  BY DEF Init, NoCheckout, ValidInv, Open
<1>2. \A a \in Adds : add[a].at = "idle"
  BY DEF Init, NoAdd
<1>3. \A q, r \in cart : line[q] = line[r] => q = r
  BY MarketAssumption DEF Init
<1>4. CartsInv
  BY <1>2, <1>3 DEF CartsInv, Under
<1>5. OneRowOwned
  BY DEF Init, OneRowOwned, Owned
<1>6. QED
  BY <1>1, <1>4, <1>5 DEF OnceInv

\* A FREE or ONE_TIME listing is bought once by a user, whatever checkouts of
\* one cart overlap, as long as adds of one item to one cart do not: an add that
\* looked before a purchase leaves a row that no checkout sells.
THEOREM MarketplaceOwnedOnce == Spec => []OwnedOnce
<1>1. Inv /\ BuyersInv /\ OnceInv /\ [Next]_vars => (Inv /\ BuyersInv /\ OnceInv)'
  BY StepKeepsInv, StepKeepsBuyers, StepKeepsOnce
<1>2. OnceInv => OwnedOnce
  <2> SUFFICES ASSUME OneRowOwned, NEW u \in Users, NEW l \in Listings \ PerRun
               PROVE  Cardinality(Owned(u, l)) <= 1
    BY DEF OnceInv, OwnedOnce, BoughtOnce
  <2>1. CASE Owned(u, l) = {}
    BY <2>1, FS_EmptySet
  <2>2. CASE Owned(u, l) # {}
    <3>1. PICK r \in Owned(u, l) : TRUE
      BY <2>2
    <3>2. Owned(u, l) = {r}
      BY <3>1 DEF OneRowOwned
    <3>3. Cardinality({r}) = 1
      BY FS_Singleton
    <3>4. QED
      BY <3>2, <3>3
  <2>3. QED
    BY <2>1, <2>2
<1>3. QED
  BY <1>1, <1>2, InitInv, InitBuyersInv, InitOnceInv, PTL DEF Spec

(* The counters are true: runs left, buyers and runs consumed are what the   *)
(* checkouts and consumers made them.                                        *)
THEOREM MarketplaceCountersAreTrue == Spec => []CountersAreTrue
BY MarketplaceTypeOK, MarketplaceRunsAreExplained, MarketplaceTotalUsersIsBuyers,
   MarketplaceRunsAreCounted,
   PTL DEF CountersAreTrue

(* No row of a cart is sold twice, and unless adds overlap nobody buys twice *)
(* what is bought once.                                                      *)
THEOREM MarketplaceSellsNothingTwice == Spec => []NothingIsSoldTwice
BY MarketplaceSoldOnce, MarketplaceOwnedOnce,
   PTL DEF NothingIsSoldTwice


-----------------------------------------------------------------------------
(***************************************************************************)
(* CartPrices. The cart, the order and the split between the platform and  *)
(* the maker are functions of one line, so that their agreement is a fact  *)
(* of arithmetic about every price and percentage.                         *)
(***************************************************************************)
\* The division of a price: nothing is lost, nobody gets less than nothing, and rounding is the
\* platform's loss.
LEMMA ShareDivides ==
  ASSUME NEW amount \in Nat, NEW percent \in 0 .. 100
  PROVE  LET share == Share(amount, percent) IN
         /\ share.commission \in Nat /\ share.earned \in Nat
         /\ share.commission + share.earned = amount
         /\ 100 * share.commission <= percent * amount
         /\ 100 * (share.commission + 1) > percent * amount
<1> DEFINE product == amount * percent
           part == product \div 100
<1>1. product \in Nat /\ product = percent * amount
  OBVIOUS
<1>2. product <= 100 * amount
  <2>1. (100 - percent) \in Nat /\ (100 - percent) * amount \in Nat
    OBVIOUS
  <2>2. (100 - percent) * amount = 100 * amount - percent * amount
    OBVIOUS
  <2>3. QED
    BY <1>1, <2>1, <2>2
<1>3. Share(amount, percent).commission = part /\ Share(amount, percent).earned = amount - part
  BY DEF Share
<1> HIDE DEF product
<1>4. part \in Nat /\ 100 * part <= product /\ product < 100 * (part + 1)
  BY <1>1
<1> HIDE DEF part
<1>5. part <= amount
  BY <1>2, <1>1, <1>4
<1>6. amount - part \in Nat /\ part + (amount - part) = amount
  BY <1>4, <1>5
<1>7. QED
  BY <1>1, <1>3, <1>4, <1>6

\* A purchase is what checkout makes of the line and the percentage as they are.
BoughtAsIs ==
  Bought =>
    LET share == Share(amountToman(cartLine), commissionPercent)
    IN bought = [amount |-> amountToman(cartLine), commission |-> share.commission,
                 earned |-> share.earned, runs |-> runsGranted(cartLine)]

\* The cart page and the checkout price a line alike.
LEMMA PricedAlike ==
  ASSUME NEW row \in Lines
  PROVE  amountToman(row) = getForUser(row) /\ amountToman(row) \in Nat /\ runsGranted(row) \in Nat
<1>1. CASE row \in [pricing : {"FREE"}, oneTime : {0}, pack : {NoPack}]
  BY <1>1 DEF amountToman, getForUser, runsGranted
<1>2. CASE row \in [pricing : {"ONE_TIME"}, oneTime : Prices, pack : {NoPack}]
  BY <1>2, PriceAssumption DEF amountToman, getForUser, runsGranted
<1>3. CASE row \in [pricing : {"PER_RUN"}, oneTime : {0}, pack : [price : Prices, runs : {5}]]
  BY <1>3, PriceAssumption DEF amountToman, getForUser, runsGranted
<1>4. QED
  BY <1>1, <1>2, <1>3 DEF Lines

\* (cart-adapter.service.ts, checkout.service.ts) For every price and every percentage, a line is
\* charged as the cart showed it, and the platform and the maker divide it without loss.
THEOREM PricesAlwaysAgree == PricesSpec => []PricesAgree
<1>1. PricesInit => PricesTypeOK /\ BoughtAsIs
  BY DEF PricesInit, PricesTypeOK, BoughtAsIs, Bought
<1>2. PricesTypeOK /\ BoughtAsIs /\ [PricesNext]_priceVars => (PricesTypeOK /\ BoughtAsIs)'
  <2> SUFFICES ASSUME PricesTypeOK, BoughtAsIs, [PricesNext]_priceVars
               PROVE  PricesTypeOK' /\ BoughtAsIs'
    OBVIOUS
  <2>1. CASE Buy
    <3> DEFINE amount == amountToman(cartLine)
               share == Share(amount, commissionPercent)
    <3>1. /\ UNCHANGED <<cartLine, commissionPercent>>
          /\ bought' = [amount |-> amount, commission |-> share.commission, earned |-> share.earned,
                        runs |-> runsGranted(cartLine)]
      BY <2>1 DEF Buy
    <3>2. amount \in Nat /\ runsGranted(cartLine) \in Nat /\ commissionPercent \in 0 .. 100
      BY PricedAlike, PriceAssumption DEF PricesTypeOK
    <3>3. share.commission \in Nat /\ share.earned \in Nat
      BY <3>2, ShareDivides
    <3>4. bought' \in Purchases
      BY <3>1, <3>2, <3>3 DEF Purchases
    <3>5. QED
      BY <3>1, <3>4 DEF PricesTypeOK, BoughtAsIs
  <2>2. CASE RefuseLine
    BY <2>2 DEF RefuseLine, PricesTypeOK, BoughtAsIs, Bought
  <2>3. ASSUME NEW percent \in Percents, SetCommission(percent) PROVE PricesTypeOK' /\ BoughtAsIs'
    BY <2>3 DEF SetCommission, PricesTypeOK, BoughtAsIs, Bought
  <2>4. CASE UNCHANGED priceVars
    BY <2>4 DEF priceVars, PricesTypeOK, BoughtAsIs, Bought
  <2>5. QED
    BY <2>1, <2>2, <2>3, <2>4 DEF PricesNext
<1>3. PricesTypeOK /\ BoughtAsIs => PricesAgree
  <2> SUFFICES ASSUME PricesTypeOK, BoughtAsIs, Bought PROVE ChargedAsShown
    BY DEF PricesAgree, ChargedAsShown
  <2> DEFINE amount == amountToman(cartLine)
             share == Share(amount, commissionPercent)
  <2>1. amount = getForUser(cartLine) /\ amount \in Nat /\ commissionPercent \in 0 .. 100
    BY PricedAlike, PriceAssumption DEF PricesTypeOK
  <2>2. /\ share.commission + share.earned = amount
        /\ 100 * share.commission <= commissionPercent * amount
        /\ 100 * (share.commission + 1) > commissionPercent * amount
    BY <2>1, ShareDivides
  <2>3. bought.amount = amount /\ bought.commission = share.commission /\ bought.earned = share.earned
    BY DEF BoughtAsIs
  <2> HIDE DEF amount, share
  <2>4. QED
    BY <2>1, <2>2, <2>3 DEF ChargedAsShown
<1>4. QED
  BY <1>1, <1>2, <1>3, PTL DEF PricesSpec


-----------------------------------------------------------------------------
(***************************************************************************)
(* Reviews. ReviewsInv says that what a call has read is the aggregate of  *)
(* reviews there were, which keeps the stored count and average a pair;    *)
(* that it is the one of the reviews there are, when calls do not overlap  *)
(* or die; and that the maker has not been told of a review that is being  *)
(* posted. The bars of the detail page agree with the aggregate by two     *)
(* lemmas on sums, SumOfBars and SumOfFive.                                *)
(***************************************************************************)
\* The reviews there may be.
Reviewings == [Buyers -> Ratings \cup {0}]

\* Who of a set gave a rating.
Gave(f, S, k) == {x \in S : f[x] = k}

\* What the terms of a sum are is how many of each there are: sums of ratings are sums of bars.
LEMMA SumOfBars ==
  ASSUME NEW f, NEW S, IsFiniteSet(S), \A x \in S : f[x] \in 1 .. 5
  PROVE  /\ \A k \in 1 .. 5 : Cardinality(Gave(f, S, k)) \in Nat
         /\ Cardinality(S) = Cardinality(Gave(f, S, 1)) + Cardinality(Gave(f, S, 2))
              + Cardinality(Gave(f, S, 3)) + Cardinality(Gave(f, S, 4)) + Cardinality(Gave(f, S, 5))
         /\ SumFunctionOnSet(f, S) = Cardinality(Gave(f, S, 1)) + 2 * Cardinality(Gave(f, S, 2))
              + 3 * Cardinality(Gave(f, S, 3)) + 4 * Cardinality(Gave(f, S, 4))
              + 5 * Cardinality(Gave(f, S, 5))
<1> DEFINE N(T, k) == Cardinality(Gave(f, T, k))
           Holds(T) == /\ Cardinality(T) = N(T, 1) + N(T, 2) + N(T, 3) + N(T, 4) + N(T, 5)
                       /\ SumFunctionOnSet(f, T)
                            = N(T, 1) + 2 * N(T, 2) + 3 * N(T, 3) + 4 * N(T, 4) + 5 * N(T, 5)
           B == {T \in SUBSET S : ~Holds(T)}
<1>1. \A T \in SUBSET S : IsFiniteSet(T) /\ \A k \in 1 .. 5 : IsFiniteSet(Gave(f, T, k)) /\ N(T, k) \in Nat
  <2>1. ASSUME NEW T \in SUBSET S, NEW k \in 1 .. 5
        PROVE  IsFiniteSet(T) /\ IsFiniteSet(Gave(f, T, k)) /\ N(T, k) \in Nat
    <3>1. Gave(f, T, k) \in SUBSET S
      BY DEF Gave
    <3>2. IsFiniteSet(T) /\ IsFiniteSet(Gave(f, T, k))
      BY <3>1, FS_Subset
    <3>3. QED
      BY <3>2, FS_CardinalityType
  <2>2. QED
    BY <2>1
<1>2. ASSUME B # {} PROVE FALSE
  <2>1. PICK T \in B : \A U \in B : U \subseteq T => U = T
    <3>1. B \in SUBSET (SUBSET S)
      OBVIOUS
    <3> HIDE DEF B
    <3>2. QED
      BY <1>2, <3>1, MinimalSubset
  <2>2. T \in SUBSET S /\ ~Holds(T)
    BY <2>1
  <2> HIDE DEF B
  <2>3. T # {}
    <3>1. ASSUME T = {} PROVE Holds(T)
      <4>1. \A k \in 1 .. 5 : Gave(f, T, k) = {}
        BY <3>1 DEF Gave
      <4>2. Cardinality(T) = 0 /\ SumFunctionOnSet(f, T) = 0 /\ \A k \in 1 .. 5 : N(T, k) = 0
        BY <3>1, <4>1, SumOfNone, FS_EmptySet
      <4>3. QED
        BY <4>2
    <3>2. QED
      BY <2>2, <3>1
  <2>4. PICK y \in T : TRUE
    BY <2>3
  <2>5. PICK R : R = T \ {y}
    OBVIOUS
  <2>6. R \in SUBSET S /\ R \subseteq T /\ R # T /\ y \notin R /\ f[y] \in 1 .. 5
    BY <2>2, <2>4, <2>5
  <2>7. Holds(R)
    <3>1. R \notin B
      BY <2>1, <2>6
    <3>2. QED
      BY <2>6, <3>1 DEF B
  <2>8. IsFiniteSet(R) /\ IsFiniteSet(T) /\ Cardinality(R) \in Nat /\ Cardinality(T) = Cardinality(R) + 1
    <3>1. IsFiniteSet(R) /\ IsFiniteSet(T)
      BY <1>1, <2>2, <2>6
    <3>2. T = R \cup {y}
      BY <2>4, <2>5
    <3>3. QED
      BY <2>6, <3>1, <3>2, FS_AddElement, FS_CardinalityType
  <2>9. SumFunctionOnSet(f, T) = f[y] + SumFunctionOnSet(f, R)
    <3>1. \A x \in T : f[x] \in Int
      BY <2>2
    <3>2. QED
      BY <2>4, <2>5, <2>8, <3>1, SumTakesOut
  <2>10. \A k \in 1 .. 5 : N(T, k) = N(R, k) + IF f[y] = k THEN 1 ELSE 0
    <3>1. ASSUME NEW k \in 1 .. 5 PROVE N(T, k) = N(R, k) + IF f[y] = k THEN 1 ELSE 0
      <4>1. IsFiniteSet(Gave(f, R, k)) /\ N(R, k) \in Nat
        BY <1>1, <2>6
      <4>2. CASE f[y] = k
        <5>1. Gave(f, T, k) = Gave(f, R, k) \cup {y} /\ y \notin Gave(f, R, k)
          BY <2>4, <2>5, <4>2 DEF Gave
        <5>2. QED
          BY <4>1, <4>2, <5>1, FS_AddElement
      <4>3. CASE f[y] # k
        <5>1. Gave(f, T, k) = Gave(f, R, k)
          BY <2>4, <2>5, <4>3 DEF Gave
        <5>2. QED
          BY <4>1, <4>3, <5>1
      <4>4. QED
        BY <4>2, <4>3
    <3>2. QED
      BY <3>1
  <2>11. \A k \in 1 .. 5 : N(R, k) \in Nat
    BY <1>1, <2>6
  <2>12. 1 \in 1 .. 5 /\ 2 \in 1 .. 5 /\ 3 \in 1 .. 5 /\ 4 \in 1 .. 5 /\ 5 \in 1 .. 5
    OBVIOUS
  <2>13. SumFunctionOnSet(f, R)
           = N(R, 1) + 2 * N(R, 2) + 3 * N(R, 3) + 4 * N(R, 4) + 5 * N(R, 5)
    BY <2>7
  <2>14. Cardinality(R) = N(R, 1) + N(R, 2) + N(R, 3) + N(R, 4) + N(R, 5)
    BY <2>7
  <2> HIDE DEF N
  <2>15. f[y] = 1 \/ f[y] = 2 \/ f[y] = 3 \/ f[y] = 4 \/ f[y] = 5
    BY <2>6
  <2>16. Holds(T)
    BY <2>8, <2>9, <2>10, <2>11, <2>12, <2>13, <2>14, <2>15
  <2>17. QED
    BY <2>2, <2>16
<1>3. Holds(S)
  BY <1>2
<1>4. QED
  BY <1>1, <1>3

\* The sum of what there is for each rating.
LEMMA SumOfFive ==
  ASSUME NEW f, \A k \in 1 .. 5 : f[k] \in Nat
  PROVE  SumFunctionOnSet(f, 1 .. 5) = f[1] + f[2] + f[3] + f[4] + f[5]
<1>1. \A T \in SUBSET (1 .. 5) : IsFiniteSet(T)
  <2>1. IsFiniteSet(1 .. 5)
    <3>1. \A a, b \in Int : IsFiniteSet(a .. b)
      BY FS_Interval
    <3>2. 1 \in Int /\ 5 \in Int
      OBVIOUS
    <3>3. QED
      BY <3>1, <3>2
  <2>2. QED
    BY <2>1, FS_Subset
<1>2. /\ 1 .. 5 = {1, 2, 3, 4, 5} /\ {1, 2, 3, 4, 5} \ {5} = {1, 2, 3, 4}
      /\ {1, 2, 3, 4} \ {4} = {1, 2, 3} /\ {1, 2, 3} \ {3} = {1, 2} /\ {1, 2} \ {2} = {1}
      /\ {1} \ {1} = {}
  OBVIOUS
<1>3. /\ IsFiniteSet({1, 2, 3, 4, 5}) /\ IsFiniteSet({1, 2, 3, 4}) /\ IsFiniteSet({1, 2, 3})
      /\ IsFiniteSet({1, 2}) /\ IsFiniteSet({1})
  BY <1>1
<1>4. /\ \A k \in {1, 2, 3, 4, 5} : f[k] \in Int
      /\ f[1] \in Nat /\ f[2] \in Nat /\ f[3] \in Nat /\ f[4] \in Nat /\ f[5] \in Nat
  BY <1>2
<1>5. SumFunctionOnSet(f, {1, 2, 3, 4, 5}) = f[5] + SumFunctionOnSet(f, {1, 2, 3, 4})
  BY <1>2, <1>3, <1>4, SumTakesOut
<1>6. SumFunctionOnSet(f, {1, 2, 3, 4}) = f[4] + SumFunctionOnSet(f, {1, 2, 3})
  BY <1>2, <1>3, <1>4, SumTakesOut
<1>7. SumFunctionOnSet(f, {1, 2, 3}) = f[3] + SumFunctionOnSet(f, {1, 2})
  BY <1>2, <1>3, <1>4, SumTakesOut
<1>8. SumFunctionOnSet(f, {1, 2}) = f[2] + SumFunctionOnSet(f, {1})
  BY <1>2, <1>3, <1>4, SumTakesOut
<1>9. SumFunctionOnSet(f, {1}) = f[1] + SumFunctionOnSet(f, {})
  BY <1>2, <1>3, <1>4, SumTakesOut
<1>10. SumFunctionOnSet(f, {}) = 0
  BY SumOfNone
<1>11. QED
  BY <1>2, <1>4, <1>5, <1>6, <1>7, <1>8, <1>9, <1>10

\* What a quotient is between, as its dividend is.
LEMMA QuotientWithin ==
  ASSUME NEW a \in Nat, NEW d \in Nat \ {0}, 100 * d <= a, a < 501 * d
  PROVE  a \div d \in 100 .. 500
<1>1. PICK q \in Int : q = a \div d
  OBVIOUS
<1>2. d * q <= a /\ a < d * q + d
  BY <1>1
<1>3. ASSUME q < 100 PROVE FALSE
  <2>1. PICK e \in Nat : e = 99 - q
    BY <1>3
  <2>2. d * e \in Nat
    BY <2>1
  <2>3. q = 99 - e /\ d * q = 99 * d - d * e
    BY <2>1
  <2>4. QED
    BY <1>2, <2>2, <2>3
<1>4. ASSUME q > 500 PROVE FALSE
  <2>1. PICK e \in Nat : e = q - 501
    BY <1>4
  <2>2. d * e \in Nat
    BY <2>1
  <2>3. q = 501 + e /\ d * q = 501 * d + d * e
    BY <2>1
  <2>4. QED
    BY <1>2, <2>2, <2>3
<1>5. QED
  BY <1>1, <1>3, <1>4

\* The aggregate of any reviews: a count of buyers, and an average between 1.00 and 5.00.
LEMMA AggregatesFit ==
  ASSUME NEW r \in Reviewings
  PROVE  /\ AggregateOf(r) \in Aggregates
         /\ IsFiniteSet(Reviewed(r)) /\ \A b \in Reviewed(r) : r[b] \in 1 .. 5
<1>1. IsFiniteSet(Reviewed(r)) /\ Cardinality(Reviewed(r)) <= Cardinality(Buyers)
  <2>1. IsFiniteSet(Buyers) /\ Reviewed(r) \in SUBSET Buyers
    BY ReviewsAssumption DEF Reviewed
  <2>2. QED
    BY <2>1, FS_Subset
<1>2. \A b \in Reviewed(r) : r[b] \in 1 .. 5
  <2>1. \A b \in Buyers : r[b] \in Ratings \cup {0}
    BY DEF Reviewings
  <2>2. \A b \in Buyers : r[b] \in 1 .. 5 \/ r[b] = 0
    BY <2>1, ReviewsAssumption
  <2>3. QED
    BY <2>2 DEF Reviewed
<1>3. PICK S, f : S = Reviewed(r) /\ f = r
  OBVIOUS
<1>4. PICK count, sum : count = Cardinality(S) /\ sum = SumFunctionOnSet(f, S)
  OBVIOUS
<1>5. count \in Nat /\ Cardinality(Buyers) \in Nat /\ count \in 0 .. Cardinality(Buyers)
  <2>1. count \in Nat /\ Cardinality(Buyers) \in Nat
    BY <1>1, <1>3, <1>4, ReviewsAssumption, FS_CardinalityType
  <2>2. QED
    BY <1>1, <1>3, <1>4, <2>1
<1>6. sum \in Nat /\ count <= sum /\ sum <= 5 * count
  <2>1. /\ \A k \in 1 .. 5 : Cardinality(Gave(f, S, k)) \in Nat
        /\ count = Cardinality(Gave(f, S, 1)) + Cardinality(Gave(f, S, 2))
              + Cardinality(Gave(f, S, 3)) + Cardinality(Gave(f, S, 4)) + Cardinality(Gave(f, S, 5))
        /\ sum = Cardinality(Gave(f, S, 1)) + 2 * Cardinality(Gave(f, S, 2))
              + 3 * Cardinality(Gave(f, S, 3)) + 4 * Cardinality(Gave(f, S, 4))
              + 5 * Cardinality(Gave(f, S, 5))
    BY <1>1, <1>2, <1>3, <1>4, SumOfBars
  <2>2. PICK n1, n2, n3, n4, n5 \in Nat :
          /\ count = n1 + n2 + n3 + n4 + n5 /\ sum = n1 + 2 * n2 + 3 * n3 + 4 * n4 + 5 * n5
    <3>1. /\ Cardinality(Gave(f, S, 1)) \in Nat /\ Cardinality(Gave(f, S, 2)) \in Nat
          /\ Cardinality(Gave(f, S, 3)) \in Nat /\ Cardinality(Gave(f, S, 4)) \in Nat
          /\ Cardinality(Gave(f, S, 5)) \in Nat
      BY <2>1
    <3>2. QED
      BY <2>1, <3>1
  <2>3. QED
    BY <2>2
<1>7. count # 0 => Hundredths(sum, count) \in 100 .. 500
  <2>1. ASSUME count # 0 PROVE Hundredths(sum, count) \in 100 .. 500
    <3>1. PICK a, d : a = 200 * sum + count /\ d = 2 * count
      OBVIOUS
    <3>2. a \in Nat /\ d \in Nat \ {0} /\ 100 * d <= a /\ a < 501 * d
      BY <1>5, <1>6, <2>1, <3>1
    <3>3. a \div d \in 100 .. 500
      BY <3>2, QuotientWithin
    <3>4. QED
      BY <3>1, <3>3 DEF Hundredths
  <2>2. QED
    BY <2>1
<1>8. AggregateOf(r) = [count |-> count, average |-> IF count = 0 THEN None ELSE Hundredths(sum, count)]
  BY <1>3, <1>4 DEF AggregateOf
<1>9. AggregateOf(r) \in Aggregates
  BY <1>5, <1>7, <1>8 DEF Aggregates
<1>10. QED
  BY <1>1, <1>2, <1>9

\* The bars of the detail page and the aggregate say the same of the same reviews.
LEMMA BarsAgree ==
  ASSUME rating \in Reviewings
  PROVE  LET bars == computeRatingDistribution
             count == SumFunctionOnSet(bars, 1 .. 5)
             sum == SumFunctionOnSet([r \in 1 .. 5 |-> r * bars[r]], 1 .. 5)
         IN AggregateOf(rating)
              = [count |-> count, average |-> IF count = 0 THEN None ELSE Hundredths(sum, count)]
<1>1. PICK S, f : S = Reviewed(rating) /\ f = rating
  OBVIOUS
<1>2. IsFiniteSet(S) /\ \A b \in S : f[b] \in 1 .. 5
  BY <1>1, AggregatesFit
<1>3. PICK bars, weighed : /\ bars = computeRatingDistribution
                           /\ weighed = [r \in 1 .. 5 |-> r * bars[r]]
  OBVIOUS
<1>4. \A k \in 1 .. 5 : bars[k] = Cardinality(Gave(f, S, k))
  <2>1. \A k \in 1 .. 5 : {b \in Buyers : rating[b] = k} = Gave(f, S, k)
    BY <1>1 DEF Gave, Reviewed
  <2>2. QED
    BY <1>3, <2>1 DEF computeRatingDistribution
<1>5. /\ \A k \in 1 .. 5 : Cardinality(Gave(f, S, k)) \in Nat
      /\ Cardinality(S) = Cardinality(Gave(f, S, 1)) + Cardinality(Gave(f, S, 2))
           + Cardinality(Gave(f, S, 3)) + Cardinality(Gave(f, S, 4)) + Cardinality(Gave(f, S, 5))
      /\ SumFunctionOnSet(f, S) = Cardinality(Gave(f, S, 1)) + 2 * Cardinality(Gave(f, S, 2))
           + 3 * Cardinality(Gave(f, S, 3)) + 4 * Cardinality(Gave(f, S, 4))
           + 5 * Cardinality(Gave(f, S, 5))
  BY <1>2, SumOfBars
<1>6. \A k \in 1 .. 5 : bars[k] \in Nat
  BY <1>4, <1>5
<1>7. \A k \in 1 .. 5 : weighed[k] = k * bars[k] /\ weighed[k] \in Nat
  BY <1>3, <1>6
<1>8. SumFunctionOnSet(bars, 1 .. 5) = bars[1] + bars[2] + bars[3] + bars[4] + bars[5]
  BY <1>6, SumOfFive
<1>9. SumFunctionOnSet(weighed, 1 .. 5) = weighed[1] + weighed[2] + weighed[3] + weighed[4] + weighed[5]
  BY <1>7, SumOfFive
<1>10. 1 \in 1 .. 5 /\ 2 \in 1 .. 5 /\ 3 \in 1 .. 5 /\ 4 \in 1 .. 5 /\ 5 \in 1 .. 5
  OBVIOUS
<1>11. Cardinality(S) = SumFunctionOnSet(bars, 1 .. 5)
  BY <1>4, <1>5, <1>8, <1>10
<1>12. SumFunctionOnSet(f, S) = SumFunctionOnSet(weighed, 1 .. 5)
  <2>1. /\ weighed[1] = bars[1] /\ weighed[2] = 2 * bars[2] /\ weighed[3] = 3 * bars[3]
        /\ weighed[4] = 4 * bars[4] /\ weighed[5] = 5 * bars[5]
    BY <1>6, <1>7, <1>10
  <2>2. QED
    BY <1>4, <1>5, <1>9, <1>10, <2>1
<1>13. QED
  BY <1>1, <1>3, <1>11, <1>12 DEF AggregateOf

\* A call is under way.
Going(c) == reviewAt[c] # "idle"

\* What a call carries: that it is a first review only if it posts one, and the aggregate it has
\* read, which was that of the reviews there were then.
CallsAgree ==
  \A c \in ReviewCalls : Going(c) =>
    /\ reviewCall[c] \in [request : ReviewRequests, first : BOOLEAN, found : Aggregates \cup {None}]
    /\ reviewCall[c].first => RequestOf(c).op = "post"
    /\ reviewAt[c] \in {"own", "count"} => ~reviewCall[c].first
    /\ reviewAt[c] = "count" => RequestOf(c).op = "post"
    /\ reviewAt[c] = "tell" => reviewCall[c].first
    /\ reviewAt[c] = "store" => \E r \in Reviewings : reviewCall[c].found = AggregateOf(r)

\* Calls that do not overlap: one at a time, and the maker has not been told of a review that
\* is not there, or of the first one that is being posted.
AloneAgrees ==
  "overlap" \notin faults =>
    /\ \A c, d \in ReviewCalls : Going(c) /\ Going(d) => c = d
    /\ \A b \in Watched : makerTold[b] <= 1 /\ (rating[b] = 0 => makerTold[b] = 0)
    /\ \A c \in ReviewCalls : Going(c) /\ reviewCall[c].first =>
         /\ RequestOf(c).buyer \in Watched => makerTold[RequestOf(c).buyer] = 0
         /\ reviewAt[c] \in {"aggregate", "store", "tell"} => rating[RequestOf(c).buyer] # 0

\* Calls that neither overlap nor die: the stored aggregate is that of the reviews there are, or
\* is about to be stored.
StoredAgrees ==
  faults \subseteq {"delete"} =>
    /\ (\A c \in ReviewCalls : reviewAt[c] \notin {"aggregate", "store"}) => stored = AggregateOf(rating)
    /\ \A c \in ReviewCalls : reviewAt[c] = "store" => reviewCall[c].found = AggregateOf(rating)

\* The inductive invariant.
ReviewsInv ==
  ReviewsTypeOK /\ RatingIsConsistent /\ CallsAgree /\ AloneAgrees /\ StoredAgrees

\* What a step may do to a call and leave everything it relies on.
LEMMA CallMoves ==
  ASSUME ReviewsTypeOK, NEW c \in ReviewCalls, NEW after,
         NEW at \in {"idle", "own", "count", "write", "aggregate", "store", "tell"},
         after \in [request : ReviewRequests, first : BOOLEAN, found : Aggregates \cup {None}] \cup {NoCall},
         reviewCall' = [reviewCall EXCEPT ![c] = after], reviewAt' = [reviewAt EXCEPT ![c] = at]
  PROVE  /\ reviewCall' \in [ReviewCalls -> [request : ReviewRequests, first : BOOLEAN,
                                      found : Aggregates \cup {None}] \cup {NoCall}]
         /\ reviewAt' \in [ReviewCalls -> {"idle", "own", "count", "write", "aggregate", "store", "tell"}]
         /\ reviewCall'[c] = after /\ reviewAt'[c] = at
         /\ \A d \in ReviewCalls : d # c => reviewCall'[d] = reviewCall[d] /\ reviewAt'[d] = reviewAt[d]
BY DEF ReviewsTypeOK

\* A call begins.
LEMMA BeginReviewKeeps ==
  ASSUME ReviewsInv, NEW c \in ReviewCalls, NEW request \in ReviewRequests, BeginReview(c, request)
  PROVE  ReviewsInv'
<1>1. ReviewsTypeOK /\ RatingIsConsistent /\ CallsAgree /\ AloneAgrees /\ StoredAgrees
  BY DEF ReviewsInv
<1>2. PICK after, at : /\ after = [request |-> request, first |-> FALSE, found |-> None]
                       /\ at = IF request.op = "delete" THEN "write" ELSE "own"
  OBVIOUS
<1>3. /\ reviewCall' = [reviewCall EXCEPT ![c] = after] /\ reviewAt' = [reviewAt EXCEPT ![c] = at]
      /\ rating' = rating /\ stored' = stored /\ gone' = gone /\ makerTold' = makerTold /\ faults' = faults
      /\ reviewAt[c] = "idle" /\ ("overlap" \in faults \/ \A d \in ReviewCalls : ~Going(d))
  BY <1>2 DEF BeginReview, ToStep, NoReviewUnderWay, Going
<1>4. /\ after \in [request : ReviewRequests, first : BOOLEAN, found : Aggregates \cup {None}]
      /\ after.request = request /\ ~after.first /\ at \in {"own", "write"}
  BY <1>2
<1>5. /\ reviewCall' \in [ReviewCalls -> [request : ReviewRequests, first : BOOLEAN,
                                   found : Aggregates \cup {None}] \cup {NoCall}]
      /\ reviewAt' \in [ReviewCalls -> {"idle", "own", "count", "write", "aggregate", "store", "tell"}]
      /\ reviewCall'[c] = after /\ reviewAt'[c] = at
      /\ \A d \in ReviewCalls : d # c => reviewCall'[d] = reviewCall[d] /\ reviewAt'[d] = reviewAt[d]
  BY <1>1, <1>3, <1>4, CallMoves
<1>6. ReviewsTypeOK' /\ RatingIsConsistent'
  BY <1>1, <1>3, <1>5 DEF ReviewsTypeOK, RatingIsConsistent
<1>7. CallsAgree'
  BY <1>1, <1>3, <1>4, <1>5 DEF CallsAgree, Going, RequestOf
<1>8. AloneAgrees'
  BY <1>1, <1>3, <1>4, <1>5 DEF AloneAgrees, Going, RequestOf
<1>9. StoredAgrees'
  BY <1>1, <1>3, <1>4, <1>5 DEF StoredAgrees
<1>10. QED
  BY <1>6, <1>7, <1>8, <1>9 DEF ReviewsInv

\* A call ends, early or dead, or goes on to its write with what it has counted.
LEMMA ChecksKeep ==
  ASSUME ReviewsInv, NEW c \in ReviewCalls, AssertOwnership(c) \/ CountReviews(c) \/ ReviewDies(c)
  PROVE  ReviewsInv'
<1>1. ReviewsTypeOK /\ RatingIsConsistent /\ CallsAgree /\ AloneAgrees /\ StoredAgrees
  BY DEF ReviewsInv
<1>2. PICK old : old = reviewCall[c]
  OBVIOUS
<1>3. /\ rating' = rating /\ stored' = stored /\ gone' = gone /\ makerTold' = makerTold /\ faults' = faults
      /\ Going(c)
  BY DEF AssertOwnership, CountReviews, ReviewDies, Going
<1>4. /\ old \in [request : ReviewRequests, first : BOOLEAN, found : Aggregates \cup {None}]
      /\ old.first => old.request.op = "post"
      /\ old.request.buyer \in Buyers
  BY <1>1, <1>2, <1>3 DEF CallsAgree, RequestOf, ReviewRequests
<1>5. PICK after, at :
        /\ reviewCall' = [reviewCall EXCEPT ![c] = after] /\ reviewAt' = [reviewAt EXCEPT ![c] = at]
        /\ \/ at = "idle" /\ after = NoCall /\ (reviewAt[c] = "own" \/ "die" \in faults)
           \/ reviewAt[c] = "own" /\ at = "write" /\ after = old
           \/ reviewAt[c] = "own" /\ at = "count" /\ after = old /\ old.request.op = "post"
           \/ /\ reviewAt[c] = "count" /\ at = "write"
              /\ after = [old EXCEPT !.first = (rating[old.request.buyer] = 0)]
  <2>1. CASE AssertOwnership(c)
    <3>1. CASE EndReview(c) /\ reviewAt[c] = "own"
      BY <3>1 DEF EndReview, ToStep
    <3>2. CASE ~gone
      <4>1. /\ reviewAt[c] = "own" /\ reviewCall' = reviewCall
            /\ reviewAt' = [reviewAt EXCEPT ![c] = IF old.request.op = "post" THEN "count" ELSE "write"]
        BY <1>2, <2>1, <3>2 DEF AssertOwnership, ToStep, RequestOf
      <4>2. reviewCall' = [reviewCall EXCEPT ![c] = old]
        BY <1>1, <1>2, <4>1 DEF ReviewsTypeOK
      <4>3. CASE old.request.op = "post"
        BY <4>1, <4>2, <4>3
      <4>4. CASE old.request.op # "post"
        BY <4>1, <4>2, <4>4
      <4>5. QED
        BY <4>3, <4>4
    <3>3. QED
      BY <2>1, <3>1, <3>2 DEF AssertOwnership
  <2>2. CASE CountReviews(c)
    <3>1. /\ reviewAt[c] = "count" /\ reviewAt' = [reviewAt EXCEPT ![c] = "write"]
          /\ reviewCall' = [reviewCall EXCEPT ![c].first = (rating[old.request.buyer] = 0)]
      BY <1>2, <2>2 DEF CountReviews, ToStep, RequestOf
    <3>2. reviewCall' = [reviewCall EXCEPT ![c] = [old EXCEPT !.first = (rating[old.request.buyer] = 0)]]
      BY <1>1, <1>2, <3>1 DEF ReviewsTypeOK
    <3>3. QED
      BY <3>1, <3>2
  <2>3. CASE ReviewDies(c)
    BY <2>3 DEF ReviewDies, EndReview, ToStep
  <2>4. QED
    BY <2>1, <2>2, <2>3
<1>6. /\ after \in [request : ReviewRequests, first : BOOLEAN, found : Aggregates \cup {None}] \cup {NoCall}
      /\ at \in {"idle", "own", "count", "write", "aggregate", "store", "tell"}
      /\ at \notin {"aggregate", "store", "tell", "own"}
      /\ at # "idle" => /\ after \in [request : ReviewRequests, first : BOOLEAN, found : Aggregates \cup {None}]
                        /\ after.request = old.request
                        /\ after.first => rating[old.request.buyer] = 0 \/ old.first
  <2>1. (rating[old.request.buyer] = 0) \in BOOLEAN
    OBVIOUS
  <2>2. PICK e : e = [old EXCEPT !.first = (rating[old.request.buyer] = 0)]
    OBVIOUS
  <2>3. /\ e \in [request : ReviewRequests, first : BOOLEAN, found : Aggregates \cup {None}]
        /\ e.request = old.request /\ e.first = (rating[old.request.buyer] = 0)
    BY <1>4, <2>1, <2>2
  <2>4. QED
    BY <1>4, <1>5, <2>2, <2>3
<1>7. /\ reviewCall' \in [ReviewCalls -> [request : ReviewRequests, first : BOOLEAN,
                                   found : Aggregates \cup {None}] \cup {NoCall}]
      /\ reviewAt' \in [ReviewCalls -> {"idle", "own", "count", "write", "aggregate", "store", "tell"}]
      /\ reviewCall'[c] = after /\ reviewAt'[c] = at
      /\ \A d \in ReviewCalls : d # c => reviewCall'[d] = reviewCall[d] /\ reviewAt'[d] = reviewAt[d]
  BY <1>1, <1>5, <1>6, CallMoves
<1>8. ReviewsTypeOK' /\ RatingIsConsistent'
  BY <1>1, <1>3, <1>7 DEF ReviewsTypeOK, RatingIsConsistent
<1>9. CallsAgree'
  <2>1. /\ reviewAt[c] \in {"own", "count"} => ~old.first
        /\ reviewAt[c] = "count" => old.request.op = "post"
    BY <1>1, <1>2, <1>3 DEF CallsAgree, RequestOf
  <2>2. at # "idle" => /\ after.first => old.request.op = "post"
                       /\ at = "count" => old.request.op = "post" /\ ~after.first
    BY <1>4, <1>5, <1>6, <2>1
  <2>3. QED
    BY <1>1, <1>3, <1>6, <1>7, <2>2 DEF CallsAgree, Going, RequestOf
<1>10. AloneAgrees'
  <2>1. ASSUME "overlap" \notin faults, at # "idle", after.first, old.request.buyer \in Watched
        PROVE  makerTold[old.request.buyer] = 0
    BY <1>1, <1>2, <1>3, <1>6, <2>1 DEF AloneAgrees, RequestOf
  <2>2. QED
    BY <1>1, <1>3, <1>6, <1>7, <2>1 DEF AloneAgrees, Going, RequestOf
<1>11. StoredAgrees'
  <2>1. faults \subseteq {"delete"} => reviewAt[c] \notin {"aggregate", "store"}
    BY <1>5
  <2>2. QED
    BY <1>1, <1>3, <1>6, <1>7, <2>1 DEF StoredAgrees
<1>12. QED
  BY <1>8, <1>9, <1>10, <1>11 DEF ReviewsInv
\* A review is written, changed or deleted, or there is nothing to write.
LEMMA WriteKeeps ==
  ASSUME ReviewsInv, NEW c \in ReviewCalls, WriteReview(c)
  PROVE  ReviewsInv'
<1>1. ReviewsTypeOK /\ RatingIsConsistent /\ CallsAgree /\ AloneAgrees /\ StoredAgrees
  BY DEF ReviewsInv
<1>2. PICK old, b, op : old = reviewCall[c] /\ b = old.request.buyer /\ op = old.request.op
  OBVIOUS
<1>3. stored' = stored /\ gone' = gone /\ faults' = faults /\ reviewAt[c] = "write" /\ Going(c)
  BY DEF WriteReview, Going
<1>4. /\ old \in [request : ReviewRequests, first : BOOLEAN, found : Aggregates \cup {None}]
      /\ old.first => op = "post"
      /\ b \in Buyers /\ old.request.rating \in Ratings \cup {None}
      /\ op = "post" => old.request.rating \in Ratings
      /\ op \in {"post", "patch", "delete"}
  <2>1. old \in [request : ReviewRequests, first : BOOLEAN, found : Aggregates \cup {None}] /\ (old.first => op = "post")
    BY <1>1, <1>2, <1>3 DEF CallsAgree, RequestOf
  <2>2. old.request \in ReviewRequests
    BY <2>1
  <2>3. /\ b \in Buyers /\ old.request.rating \in Ratings \cup {None}
        /\ op = "post" => old.request.rating \in Ratings
        /\ op \in {"post", "patch", "delete"}
    BY <1>2, <2>2 DEF ReviewRequests
  <2>4. QED
    BY <2>1, <2>3
<1>5. PICK now, at, after :
        /\ rating' = [rating EXCEPT ![b] = now] /\ reviewAt' = [reviewAt EXCEPT ![c] = at]
        /\ reviewCall' = [reviewCall EXCEPT ![c] = after]
        /\ \/ /\ op \in {"post", "patch"} /\ now \in Ratings /\ at = "aggregate" /\ after = old
              /\ makerTold' = makerTold
           \/ /\ op = "delete" /\ now = 0 /\ at = "aggregate" /\ after = old
              /\ makerTold' = [makerTold EXCEPT ![b] = 0]
           \/ /\ now = rating[b] /\ at = "idle" /\ after = NoCall /\ makerTold' = makerTold
              /\ op # "post"
  <2>1. reviewCall = [reviewCall EXCEPT ![c] = old] /\ rating = [rating EXCEPT ![b] = rating[b]]
    BY <1>1, <1>2 DEF ReviewsTypeOK
  <2>2. CASE op = "post" \/ (op = "patch" /\ rating[b] # 0 /\ old.request.rating # None)
    <3>1. /\ rating' = [rating EXCEPT ![b] = old.request.rating]
          /\ reviewAt' = [reviewAt EXCEPT ![c] = "aggregate"]
          /\ reviewCall' = reviewCall /\ makerTold' = makerTold
      BY <1>2, <2>2 DEF WriteReview, SetRating, ToStep, RequestOf
    <3>2. old.request.rating \in Ratings /\ op \in {"post", "patch"}
      BY <1>4, <2>2
    <3>3. QED
      BY <2>1, <3>1, <3>2
  <2>3. CASE op = "delete" /\ rating[b] # 0
    <3>1. /\ rating' = [rating EXCEPT ![b] = 0]
          /\ reviewAt' = [reviewAt EXCEPT ![c] = "aggregate"]
          /\ reviewCall' = reviewCall /\ makerTold' = [makerTold EXCEPT ![b] = 0]
      BY <1>2, <2>3 DEF WriteReview, SetRating, ToStep, RequestOf
    <3>2. QED
      BY <2>1, <2>3, <3>1
  <2>4. CASE /\ ~(op = "post" \/ (op = "patch" /\ rating[b] # 0 /\ old.request.rating # None))
             /\ ~(op = "delete" /\ rating[b] # 0)
    <3>1. /\ reviewAt' = [reviewAt EXCEPT ![c] = "idle"]
          /\ reviewCall' = [reviewCall EXCEPT ![c] = NoCall]
          /\ rating' = rating /\ makerTold' = makerTold
      BY <1>2, <2>4 DEF WriteReview, EndReview, ToStep, RequestOf
    <3>2. QED
      BY <2>1, <2>4, <3>1
  <2>5. QED
    BY <2>2, <2>3, <2>4
<1>6. /\ after \in [request : ReviewRequests, first : BOOLEAN, found : Aggregates \cup {None}] \cup {NoCall}
      /\ at \in {"idle", "own", "count", "write", "aggregate", "store", "tell"}
      /\ at \in {"idle", "aggregate"} /\ (at = "aggregate" => after = old)
  BY <1>4, <1>5
<1>7. /\ reviewCall' \in [ReviewCalls -> [request : ReviewRequests, first : BOOLEAN,
                                   found : Aggregates \cup {None}] \cup {NoCall}]
      /\ reviewAt' \in [ReviewCalls -> {"idle", "own", "count", "write", "aggregate", "store", "tell"}]
      /\ reviewCall'[c] = after /\ reviewAt'[c] = at
      /\ \A d \in ReviewCalls : d # c => reviewCall'[d] = reviewCall[d] /\ reviewAt'[d] = reviewAt[d]
  BY <1>1, <1>5, <1>6, CallMoves
<1>8. /\ now \in Ratings \cup {0} /\ rating' \in [Buyers -> Ratings \cup {0}] /\ rating'[b] = now
      /\ \A a \in Buyers : a # b => rating'[a] = rating[a]
      /\ makerTold' \in [Watched -> 0 .. MaxTold]
      /\ \A a \in Watched : makerTold'[a] = IF op = "delete" /\ at = "aggregate" /\ a = b THEN 0 ELSE makerTold[a]
  BY <1>1, <1>4, <1>5, ReviewsAssumption DEF ReviewsTypeOK
<1>9. ReviewsTypeOK' /\ RatingIsConsistent'
  BY <1>1, <1>3, <1>7, <1>8 DEF ReviewsTypeOK, RatingIsConsistent
<1>10. CallsAgree'
  <2>1. at = "aggregate" /\ after.first => after.request.op = "post"
    BY <1>2, <1>4, <1>6
  <2>2. QED
    BY <1>1, <1>3, <1>4, <1>6, <1>7, <2>1 DEF CallsAgree, Going, RequestOf
<1>11. AloneAgrees'
  <2>1. SUFFICES ASSUME "overlap" \notin faults
                 PROVE  /\ \A d, e \in ReviewCalls : Going(d)' /\ Going(e)' => d = e
                        /\ \A a \in Watched : makerTold'[a] <= 1 /\ (rating'[a] = 0 => makerTold'[a] = 0)
                        /\ \A d \in ReviewCalls : Going(d)' /\ reviewCall'[d].first =>
                             /\ reviewCall'[d].request.buyer \in Watched =>
                                  makerTold'[reviewCall'[d].request.buyer] = 0
                             /\ reviewAt'[d] \in {"aggregate", "store", "tell"} =>
                                  rating'[reviewCall'[d].request.buyer] # 0
    BY <1>3 DEF AloneAgrees, RequestOf
  <2>2. /\ \A d, e \in ReviewCalls : Going(d) /\ Going(e) => d = e
        /\ \A a \in Watched : makerTold[a] <= 1 /\ (rating[a] = 0 => makerTold[a] = 0)
        /\ old.first => (b \in Watched => makerTold[b] = 0)
    BY <1>1, <1>2, <1>3, <2>1 DEF AloneAgrees, RequestOf
  <2>3. \A d \in ReviewCalls : Going(d)' => d = c /\ at = "aggregate"
    BY <1>3, <1>6, <1>7, <2>2 DEF Going
  <2>4. \A a \in Watched : makerTold'[a] <= 1 /\ (rating'[a] = 0 => makerTold'[a] = 0)
    <3>1. ASSUME NEW a \in Watched PROVE makerTold'[a] <= 1 /\ (rating'[a] = 0 => makerTold'[a] = 0)
      <4>1. a \in Buyers /\ 0 \notin Ratings
        BY ReviewsAssumption
      <4>2. CASE a # b
        BY <1>8, <2>2, <4>1, <4>2
      <4>3. CASE a = b
        BY <1>5, <1>8, <2>2, <4>1, <4>3
      <4>4. QED
        BY <4>2, <4>3
    <3>2. QED
      BY <3>1
  <2>5. ASSUME at = "aggregate", old.first
        PROVE  (b \in Watched => makerTold'[b] = 0) /\ rating'[b] # 0
    BY <1>4, <1>5, <1>8, <2>2, <2>5, ReviewsAssumption
  <2>6. QED
    BY <1>2, <1>6, <1>7, <2>3, <2>4, <2>5 DEF Going
<1>12. StoredAgrees'
  <2>1. SUFFICES ASSUME faults \subseteq {"delete"}
                 PROVE  /\ (\A d \in ReviewCalls : reviewAt'[d] \notin {"aggregate", "store"}) =>
                             stored = AggregateOf(rating')
                        /\ \A d \in ReviewCalls : reviewAt'[d] = "store" =>
                             reviewCall'[d].found = AggregateOf(rating')
    BY <1>3 DEF StoredAgrees, AggregateOf, Reviewed
  <2>2. \A d \in ReviewCalls : Going(d) => d = c
    BY <1>1, <1>3, <2>1 DEF AloneAgrees
  <2>3. \A d \in ReviewCalls : reviewAt'[d] # "store"
    BY <1>6, <1>7, <2>2 DEF Going
  <2>4. CASE at = "idle"
    <3>1. rating' = rating
      BY <1>1, <1>5, <2>4 DEF ReviewsTypeOK
    <3>2. \A d \in ReviewCalls : reviewAt[d] \notin {"aggregate", "store"}
      BY <1>3, <2>2 DEF Going
    <3>3. QED
      BY <1>1, <2>1, <2>3, <3>1, <3>2 DEF StoredAgrees
  <2>5. CASE at = "aggregate"
    BY <1>7, <2>3, <2>5
  <2>6. QED
    BY <1>6, <2>4, <2>5
<1>13. QED
  BY <1>9, <1>10, <1>11, <1>12 DEF ReviewsInv

\* The aggregate is read, and stored a while later.
LEMMA AggregateKeeps ==
  ASSUME ReviewsInv, NEW c \in ReviewCalls, ReadAggregate(c) \/ StoreAggregate(c)
  PROVE  ReviewsInv'
<1>1. ReviewsTypeOK /\ RatingIsConsistent /\ CallsAgree /\ AloneAgrees /\ StoredAgrees
  BY DEF ReviewsInv
<1>2. PICK old, read : old = reviewCall[c] /\ read = AggregateOf(rating)
  OBVIOUS
<1>3. /\ rating' = rating /\ gone' = gone /\ makerTold' = makerTold /\ faults' = faults
      /\ Going(c) /\ reviewAt[c] \in {"aggregate", "store"}
  BY DEF ReadAggregate, StoreAggregate, Going
<1>4. /\ old \in [request : ReviewRequests, first : BOOLEAN, found : Aggregates \cup {None}]
      /\ old.first => old.request.op = "post"
  BY <1>1, <1>2, <1>3 DEF CallsAgree, RequestOf
<1>5. rating \in Reviewings /\ read \in Aggregates
  BY <1>1, <1>2, AggregatesFit DEF ReviewsTypeOK, Reviewings
<1>6. PICK after, at :
        /\ reviewCall' = [reviewCall EXCEPT ![c] = after] /\ reviewAt' = [reviewAt EXCEPT ![c] = at]
        /\ \/ /\ reviewAt[c] = "aggregate" /\ at = "store" /\ stored' = stored
              /\ after = [old EXCEPT !.found = read]
           \/ /\ reviewAt[c] = "store" /\ stored' = old.found
              /\ \/ at = "idle" /\ after = NoCall
                 \/ at = "tell" /\ after = [old EXCEPT !.found = None] /\ old.first
  <2>1. CASE ReadAggregate(c)
    <3>1. /\ reviewAt[c] = "aggregate" /\ reviewAt' = [reviewAt EXCEPT ![c] = "store"]
          /\ reviewCall' = [reviewCall EXCEPT ![c].found = read] /\ stored' = stored
      BY <1>2, <2>1 DEF ReadAggregate, ToStep
    <3>2. reviewCall' = [reviewCall EXCEPT ![c] = [old EXCEPT !.found = read]]
      BY <1>1, <1>2, <3>1 DEF ReviewsTypeOK
    <3>3. QED
      BY <3>1, <3>2
  <2>2. CASE StoreAggregate(c)
    <3>1. reviewAt[c] = "store" /\ stored' = old.found
      BY <1>2, <2>2 DEF StoreAggregate
    <3>2. CASE EndReview(c)
      BY <3>1, <3>2 DEF EndReview, ToStep
    <3>3. CASE old.first /\ ToStep(c, "tell") /\ reviewCall' = [reviewCall EXCEPT ![c].found = None]
      <4>1. reviewCall' = [reviewCall EXCEPT ![c] = [old EXCEPT !.found = None]]
        BY <1>1, <1>2, <3>3 DEF ReviewsTypeOK
      <4>2. QED
        BY <3>1, <3>3, <4>1 DEF ToStep
    <3>4. QED
      BY <1>2, <2>2, <3>2, <3>3 DEF StoreAggregate
  <2>3. QED
    BY <2>1, <2>2
<1>7. /\ after \in [request : ReviewRequests, first : BOOLEAN, found : Aggregates \cup {None}] \cup {NoCall}
      /\ at \in {"idle", "own", "count", "write", "aggregate", "store", "tell"}
      /\ at \in {"idle", "store", "tell"}
      /\ at # "idle" => /\ after \in [request : ReviewRequests, first : BOOLEAN, found : Aggregates \cup {None}]
                        /\ after.request = old.request /\ after.first = old.first
      /\ at = "store" => after.found = read /\ reviewAt[c] = "aggregate"
      /\ at = "tell" => after.first
  <2>1. PICK e, g : e = [old EXCEPT !.found = read] /\ g = [old EXCEPT !.found = None]
    OBVIOUS
  <2>2. /\ e \in [request : ReviewRequests, first : BOOLEAN, found : Aggregates \cup {None}]
        /\ e.request = old.request /\ e.first = old.first /\ e.found = read
        /\ g \in [request : ReviewRequests, first : BOOLEAN, found : Aggregates \cup {None}]
        /\ g.request = old.request /\ g.first = old.first
    BY <1>4, <1>5, <2>1
  <2>3. QED
    BY <1>6, <2>1, <2>2
<1>8. /\ reviewCall' \in [ReviewCalls -> [request : ReviewRequests, first : BOOLEAN,
                                   found : Aggregates \cup {None}] \cup {NoCall}]
      /\ reviewAt' \in [ReviewCalls -> {"idle", "own", "count", "write", "aggregate", "store", "tell"}]
      /\ reviewCall'[c] = after /\ reviewAt'[c] = at
      /\ \A d \in ReviewCalls : d # c => reviewCall'[d] = reviewCall[d] /\ reviewAt'[d] = reviewAt[d]
  BY <1>1, <1>6, <1>7, CallMoves
<1>9. stored' \in Aggregates /\ \E r \in Reviewings : stored' = AggregateOf(r)
  <2>1. CASE stored' = stored
    BY <1>1, <2>1 DEF ReviewsTypeOK, RatingIsConsistent, Reviewings
  <2>2. CASE reviewAt[c] = "store" /\ stored' = old.found
    <3>1. PICK r \in Reviewings : old.found = AggregateOf(r)
      BY <1>1, <1>2, <1>3, <2>2 DEF CallsAgree
    <3>2. QED
      BY <2>2, <3>1, AggregatesFit
  <2>3. QED
    BY <1>6, <2>1, <2>2
<1>10. ReviewsTypeOK' /\ RatingIsConsistent'
  BY <1>1, <1>3, <1>8, <1>9 DEF ReviewsTypeOK, RatingIsConsistent, Reviewings
<1>11. CallsAgree'
  <2>1. \A d \in ReviewCalls : d = c \/ (reviewCall'[d] = reviewCall[d] /\ reviewAt'[d] = reviewAt[d])
    BY <1>8
  <2>2. reviewAt'[c] # "idle" =>
          /\ reviewCall'[c] \in [request : ReviewRequests, first : BOOLEAN, found : Aggregates \cup {None}]
          /\ reviewCall'[c].request = old.request /\ reviewCall'[c].first = old.first
          /\ reviewAt'[c] \in {"store", "tell"}
    BY <1>7, <1>8
  <2>3. reviewAt'[c] = "store" => \E r \in Reviewings : reviewCall'[c].found = AggregateOf(r)
    BY <1>2, <1>5, <1>7, <1>8
  <2>4. reviewAt'[c] = "tell" => reviewCall'[c].first
    BY <1>7, <1>8
  <2>5. QED
    BY <1>1, <1>4, <2>1, <2>2, <2>3, <2>4 DEF CallsAgree, Going, RequestOf
<1>12. AloneAgrees'
  <2>1. "overlap" \notin faults /\ old.first =>
                       /\ old.request.buyer \in Watched => makerTold[old.request.buyer] = 0
                       /\ rating[old.request.buyer] # 0
    BY <1>1, <1>2, <1>3 DEF AloneAgrees, RequestOf
  <2>2. QED
    BY <1>1, <1>3, <1>7, <1>8, <2>1 DEF AloneAgrees, Going, RequestOf
<1>13. StoredAgrees'
  <2>1. SUFFICES ASSUME faults \subseteq {"delete"}
                 PROVE  /\ (\A d \in ReviewCalls : reviewAt'[d] \notin {"aggregate", "store"}) =>
                             stored' = read
                        /\ \A d \in ReviewCalls : reviewAt'[d] = "store" => reviewCall'[d].found = read
    BY <1>2, <1>3 DEF StoredAgrees
  <2>2. \A d \in ReviewCalls : Going(d) => d = c
    BY <1>1, <1>3, <2>1 DEF AloneAgrees
  <2>3. \A d \in ReviewCalls : d # c => reviewAt'[d] = "idle"
    BY <1>8, <2>2 DEF Going
  <2>4. reviewAt[c] = "store" => old.found = read
    BY <1>1, <1>2, <2>1 DEF StoredAgrees
  <2>5. QED
    BY <1>6, <1>7, <1>8, <2>3, <2>4
<1>14. QED
  BY <1>10, <1>11, <1>12, <1>13 DEF ReviewsInv

\* The maker is told, once.
LEMMA TellKeeps ==
  ASSUME ReviewsInv, NEW c \in ReviewCalls, TellMaker(c)
  PROVE  ReviewsInv'
<1>1. ReviewsTypeOK /\ RatingIsConsistent /\ CallsAgree /\ AloneAgrees /\ StoredAgrees
  BY DEF ReviewsInv
<1>2. PICK b : b = reviewCall[c].request.buyer
  OBVIOUS
<1>3. /\ rating' = rating /\ stored' = stored /\ gone' = gone /\ faults' = faults
      /\ reviewAt[c] = "tell" /\ Going(c)
      /\ reviewAt' = [reviewAt EXCEPT ![c] = "idle"] /\ reviewCall' = [reviewCall EXCEPT ![c] = NoCall]
      /\ makerTold' = [makerTold EXCEPT ![b] = IF @ < MaxTold THEN @ + 1 ELSE @]
  BY <1>2 DEF TellMaker, EndReview, ToStep, RequestOf, Going
<1>4. /\ reviewCall' \in [ReviewCalls -> [request : ReviewRequests, first : BOOLEAN,
                                   found : Aggregates \cup {None}] \cup {NoCall}]
      /\ reviewAt' \in [ReviewCalls -> {"idle", "own", "count", "write", "aggregate", "store", "tell"}]
      /\ reviewCall'[c] = NoCall /\ reviewAt'[c] = "idle"
      /\ \A d \in ReviewCalls : d # c => reviewCall'[d] = reviewCall[d] /\ reviewAt'[d] = reviewAt[d]
  BY <1>1, <1>3, CallMoves
<1>5. /\ makerTold' \in [Watched -> 0 .. MaxTold]
      /\ \A a \in Watched : a # b => makerTold'[a] = makerTold[a]
      /\ b \in Watched => makerTold'[b] <= makerTold[b] + 1
  <2>1. makerTold \in [Watched -> 0 .. MaxTold] /\ MaxTold \in Nat
    BY <1>1, ReviewsAssumption DEF ReviewsTypeOK
  <2>2. PICK n : n = IF makerTold[b] < MaxTold THEN makerTold[b] + 1 ELSE makerTold[b]
    OBVIOUS
  <2>3. makerTold' = [makerTold EXCEPT ![b] = n]
    BY <1>3, <2>2
  <2>4. b \in Watched => n \in 0 .. MaxTold /\ n <= makerTold[b] + 1
    BY <2>1, <2>2
  <2>5. QED
    BY <2>1, <2>3, <2>4
<1>6. ReviewsTypeOK' /\ RatingIsConsistent'
  BY <1>1, <1>3, <1>4, <1>5 DEF ReviewsTypeOK, RatingIsConsistent
<1>7. CallsAgree'
  BY <1>1, <1>3, <1>4 DEF CallsAgree, Going, RequestOf
<1>8. AloneAgrees'
  <2>1. SUFFICES ASSUME "overlap" \notin faults
                 PROVE  /\ \A d, e \in ReviewCalls : Going(d)' /\ Going(e)' => d = e
                        /\ \A a \in Watched : makerTold'[a] <= 1 /\ (rating[a] = 0 => makerTold'[a] = 0)
                        /\ \A d \in ReviewCalls : ~Going(d)'
    BY <1>3 DEF AloneAgrees
  <2>2. \A d \in ReviewCalls : Going(d) => d = c
    BY <1>1, <1>3, <2>1 DEF AloneAgrees
  <2>3. \A d \in ReviewCalls : ~Going(d)'
    BY <1>4, <2>2 DEF Going
  <2>4. reviewCall[c].first => (b \in Watched => makerTold[b] = 0) /\ rating[b] # 0
    BY <1>1, <1>2, <1>3, <2>1 DEF AloneAgrees, RequestOf
  <2>5. reviewCall[c].first
    BY <1>1, <1>3 DEF CallsAgree
  <2>6. \A a \in Watched : makerTold[a] <= 1 /\ (rating[a] = 0 => makerTold[a] = 0)
    BY <1>1, <2>1 DEF AloneAgrees
  <2>7. \A a \in Watched : makerTold'[a] <= 1 /\ (rating[a] = 0 => makerTold'[a] = 0)
    <3>1. ASSUME NEW a \in Watched PROVE makerTold'[a] <= 1 /\ (rating[a] = 0 => makerTold'[a] = 0)
      <4>1. CASE a # b
        BY <1>5, <2>6, <4>1
      <4>2. CASE a = b
        <5>1. makerTold[b] = 0 /\ rating[a] # 0 /\ makerTold'[b] \in 0 .. MaxTold
          BY <1>5, <2>4, <2>5, <4>2
        <5>2. makerTold'[b] <= 1
          BY <1>5, <4>2, <5>1
        <5>3. QED
          BY <4>2, <5>1, <5>2
      <4>3. QED
        BY <4>1, <4>2
    <3>2. QED
      BY <3>1
  <2>8. QED
    BY <2>3, <2>7
<1>9. StoredAgrees'
  <2>1. \A d \in ReviewCalls : reviewAt'[d] = reviewAt[d] \/ (reviewAt'[d] = "idle" /\ reviewAt[d] = "tell")
    BY <1>3, <1>4
  <2>2. \A d \in ReviewCalls : reviewAt'[d] = "store" => reviewCall'[d] = reviewCall[d] /\ reviewAt[d] = "store"
    BY <1>3, <1>4
  <2>3. QED
    BY <1>1, <1>3, <2>1, <2>2 DEF StoredAgrees
<1>10. QED
  BY <1>6, <1>7, <1>8, <1>9 DEF ReviewsInv

LEMMA ReviewsStart == ReviewsInit => ReviewsInv
<1> SUFFICES ASSUME ReviewsInit PROVE ReviewsInv
  OBVIOUS
<1>1. rating \in Reviewings /\ Reviewed(rating) = {}
  BY DEF ReviewsInit, Reviewings, Reviewed
<1>2. AggregateOf(rating) = [count |-> 0, average |-> None] /\ AggregateOf(rating) \in Aggregates
  <2>1. Cardinality(Reviewed(rating)) = 0
    BY <1>1, FS_EmptySet
  <2>2. QED
    BY <1>1, <2>1, AggregatesFit DEF AggregateOf
<1>3. stored = AggregateOf(rating)
  BY <1>2 DEF ReviewsInit
<1>4. ReviewsTypeOK
  <2>1. 0 \in 0 .. MaxTold
    BY ReviewsAssumption
  <2>2. makerTold \in [Watched -> 0 .. MaxTold]
    BY <2>1 DEF ReviewsInit
  <2>3. stored \in Aggregates /\ rating \in [Buyers -> Ratings \cup {0}]
    BY <1>1, <1>2, <1>3 DEF Reviewings
  <2>4. QED
    BY <2>2, <2>3 DEF ReviewsInit, ReviewsTypeOK
<1>5. RatingIsConsistent
  BY <1>1, <1>3 DEF RatingIsConsistent, Reviewings
<1>6. CallsAgree /\ AloneAgrees
  BY DEF ReviewsInit, CallsAgree, AloneAgrees, Going
<1>7. StoredAgrees
  BY <1>3 DEF ReviewsInit, StoredAgrees
<1>8. QED
  BY <1>4, <1>5, <1>6, <1>7 DEF ReviewsInv

LEMMA ReviewsStep == ReviewsInv /\ [ReviewsNext]_reviewVars => ReviewsInv'
<1> SUFFICES ASSUME ReviewsInv, [ReviewsNext]_reviewVars PROVE ReviewsInv'
  OBVIOUS
<1>1. ASSUME NEW c \in ReviewCalls, NEW request \in ReviewRequests, BeginReview(c, request)
      PROVE  ReviewsInv'
  BY <1>1, BeginReviewKeeps
<1>2. ASSUME NEW c \in ReviewCalls, AssertOwnership(c) \/ CountReviews(c) \/ ReviewDies(c)
      PROVE  ReviewsInv'
  BY <1>2, ChecksKeep
<1>3. ASSUME NEW c \in ReviewCalls, WriteReview(c) PROVE ReviewsInv'
  BY <1>3, WriteKeeps
<1>4. ASSUME NEW c \in ReviewCalls, ReadAggregate(c) \/ StoreAggregate(c) PROVE ReviewsInv'
  BY <1>4, AggregateKeeps
<1>5. ASSUME NEW c \in ReviewCalls, TellMaker(c) PROVE ReviewsInv'
  BY <1>5, TellKeeps
<1>6. CASE DeleteListing \/ UNCHANGED reviewVars
  <2>1. /\ rating' = rating /\ stored' = stored /\ reviewCall' = reviewCall /\ reviewAt' = reviewAt
        /\ makerTold' = makerTold /\ faults' = faults /\ gone' \in {gone, TRUE}
    BY <1>6 DEF DeleteListing, reviewVars
  <2>2. ReviewsTypeOK' /\ RatingIsConsistent' /\ CallsAgree' /\ AloneAgrees' /\ StoredAgrees'
    BY <2>1 DEF ReviewsInv, ReviewsTypeOK, RatingIsConsistent, CallsAgree, AloneAgrees, StoredAgrees,
       Going, RequestOf
  <2>3. QED
    BY <2>2 DEF ReviewsInv
<1>7. QED
  BY <1>1, <1>2, <1>3, <1>4, <1>5, <1>6 DEF ReviewsNext

\* (agents/services/reviews.service.ts, listings.service.ts recomputeRating) Whoever buys and
\* reviews: the stored rating is that of some reviews whatever overlaps or dies, of all of them
\* when nothing did, and the maker was told once of a first review.
THEOREM RatingsAlwaysAgree == ReviewsSpec => []RatingsAgree
<1>1. ReviewsInit => ReviewsInv
  BY ReviewsStart
<1>2. ReviewsInv /\ [ReviewsNext]_reviewVars => ReviewsInv'
  BY ReviewsStep
<1>3. ReviewsInv => RatingsAgree
  <2> SUFFICES ASSUME ReviewsInv PROVE RatingsAgree
    OBVIOUS
  <2>1. ReviewsTypeOK /\ RatingIsConsistent /\ AloneAgrees /\ StoredAgrees
    BY DEF ReviewsInv
  <2>2. RatingIsAverage
    <3>1. SUFFICES ASSUME faults \subseteq {"delete"}, NoReviewUnderWay
                   PROVE  LET bars == computeRatingDistribution
                              count == SumFunctionOnSet(bars, 1 .. 5)
                              sum == SumFunctionOnSet([r \in 1 .. 5 |-> r * bars[r]], 1 .. 5)
                          IN stored = [count |-> count,
                                       average |-> IF count = 0 THEN None ELSE Hundredths(sum, count)]
      BY DEF RatingIsAverage
    <3>2. stored = AggregateOf(rating)
      BY <2>1, <3>1 DEF StoredAgrees, NoReviewUnderWay
    <3>3. QED
      BY <2>1, <3>2, BarsAgree DEF ReviewsTypeOK, Reviewings
  <2>3. FirstReviewToldOnce
    BY <2>1 DEF FirstReviewToldOnce, AloneAgrees
  <2>4. QED
    BY <2>1, <2>2, <2>3 DEF RatingsAgree
<1>4. QED
  BY <1>1, <1>2, <1>3, PTL DEF ReviewsSpec


-----------------------------------------------------------------------------
(***************************************************************************)
(* Listings. ListingsInv says what a request has established at its place, *)
(* that a check made under the lock of a row holds until the write, and    *)
(* how far the notices, the trail and the cached sections have followed    *)
(* the status of a row.                                                    *)
(***************************************************************************)
\* Where a request to create is, and one to moderate.
CreatesAt == {"slug", "count", "insert"}
ModeratesAt == {"lock", "update", "invalidate", "audit"}

\* A request is what its place says; what a transaction has checked under the lock of its row
\* still holds when it writes.
RequestsAgree ==
  \A t \in Tasks :
    /\ taskAt[t] = "idle" => task[t] = None
    /\ taskAt[t] \in CreatesAt => task[t] \in Creation /\ assertPricingShape(task[t].shape)
    /\ taskAt[t] \in ModeratesAt => task[t] \in Moderation /\ task[t].listing \in Created
    /\ taskAt[t] = "update" => rowLock[task[t].listing] = t /\ MayMove(task[t])

\* Without overlapping creations, one counts and inserts at a time: what it counted is what
\* there is, or more.
CountsAgree ==
  "creates" \notin faults =>
    /\ \A t, u \in Tasks : task[t] \in Creation /\ task[u] \in Creation => t = u
    /\ \A t \in Tasks : taskAt[t] = "insert" => Cardinality(OwnedBy(task[t].maker)) < Quota
    /\ \A m \in Makers : Cardinality(OwnedBy(m)) <= Quota

\* What a row is and what is told of it, from its creation on.
RowsAgree ==
  /\ \A l \in Created : assertPricingShape(listing[l].shape)
  /\ \A l \in ListingRows \ Created : told[l] = None /\ trail[l] = None
  /\ ReasonsFitStatus

\* Where every notice is sent and every update is committed, the last notice is that of the status, but
\* that nobody is told of the end of a suspension.
NoticesFollow ==
  \A l \in Created : faults \cap {"mute", "rollback", "crash"} = {} =>
    \/ told[l] = None /\ listing[l].status = "DRAFT"
    \/ told[l] # None /\ \/ StatusAfter[told[l]] = listing[l].status
                         \/ told[l] = "suspend" /\ listing[l].status = "PUBLISHED"

\* One moderation of a listing at a time: the status is that of the last audit row, or of the
\* one that is about to be written.
TrailFollows ==
  faults \cap {"moderates", "crash"} = {} =>
    /\ \A t, u \in Tasks :
         task[t] \in Moderation /\ task[u] \in Moderation /\ task[t].listing = task[u].listing
           => t = u
    /\ \A t \in Tasks : taskAt[t] \in {"invalidate", "audit"} =>
         StatusAfter[task[t].op] = listing[task[t].listing].status
    /\ \A l \in Created :
         (\A t \in Tasks : taskAt[t] \in {"invalidate", "audit"} => task[t].listing # l) =>
           IF trail[l] = None THEN listing[l].status = "DRAFT"
                              ELSE StatusAfter[trail[l]] = listing[l].status

\* Who computes a section does so with nothing to invalidate, and until then nobody changes
\* what its query finds.
SectionsFollow ==
  faults \cap {"race", "redis", "crash", "delete"} = {} =>
    IF At("invalidate") # {} THEN reader = None
    ELSE /\ reader # None => reader.found \in Selects(reader.section)
         /\ \A s \in Sections : sections[s] \in Selects(s) \cup {None}

\* The inductive invariant.
ListingsInv ==
  /\ ListingsTypeOK /\ RequestsAgree /\ CountsAgree /\ RowsAgree
  /\ NoticesFollow /\ TrailFollows /\ SectionsFollow

LEMMA ModerationsAre ==
  /\ Moderations = {"submitForReview", "approve", "reject", "suspend", "unsuspend"}
  /\ StatusAfter["submitForReview"] = "PENDING_REVIEW" /\ StatusAfter["approve"] = "PUBLISHED"
  /\ StatusAfter["reject"] = "REJECTED" /\ StatusAfter["suspend"] = "SUSPENDED"
  /\ StatusAfter["unsuspend"] = "PUBLISHED"
  /\ ALLOWED_FROM["submitForReview"] = {"DRAFT"} /\ ALLOWED_FROM["approve"] = {"PENDING_REVIEW"}
  /\ ALLOWED_FROM["reject"] = {"PENDING_REVIEW"} /\ ALLOWED_FROM["suspend"] = {"PUBLISHED"}
  /\ ALLOWED_FROM["unsuspend"] = {"SUSPENDED"}
BY DEF Moderations, StatusAfter, ALLOWED_FROM

LEMMA RequestTypes ==
  /\ \A x \in Creation : x.op = "create" /\ x.maker \in Makers /\ x.slug \in Slugs /\ x.shape \in Shapes
  /\ \A x \in Moderation : x.op \in Moderations /\ x.op # "create" /\ x.listing \in ListingRows
  /\ \A x \in Creation : x \notin Moderation /\ x # None
  /\ \A x \in Moderation : x \notin Creation /\ x # None
  /\ None \notin Creation /\ None \notin Moderation /\ None \notin Tasks /\ None \notin Moderations
BY ListingsAssumption, ModerationsAre DEF Creation, Moderation

\* What a write leaves of a row.
LEMMA MovedRow ==
  ASSUME NEW row \in Row, NEW op \in Moderations
  PROVE  /\ Moved(row, op) \in Row
         /\ Moved(row, op).status = StatusAfter[op]
         /\ Moved(row, op).maker = row.maker /\ Moved(row, op).slug = row.slug
         /\ Moved(row, op).shape = row.shape /\ Moved(row, op).deleted = row.deleted
<1>1. StatusAfter[op] \in Statuses
  BY ModerationsAre DEF Statuses
<1>2. QED
  BY <1>1, ModerationsAre DEF Moved, Row

LEMMA MovedFlags ==
  ASSUME NEW row \in Row, NEW op \in Moderations
  PROVE  /\ Moved(row, op).publishedAt <=> row.publishedAt \/ op = "approve"
         /\ Moved(row, op).rejectionReason
              <=> op = "reject" \/ (row.rejectionReason /\ op # "approve")
         /\ Moved(row, op).suspensionReason
              <=> op = "suspend" \/ (row.suspensionReason /\ op \notin {"approve", "unsuspend"})
BY ModerationsAre DEF Moved, Row

\* A draft as create makes it.
Draft(body) == [status |-> "DRAFT", maker |-> body.maker, slug |-> body.slug,
                shape |-> body.shape, deleted |-> FALSE, publishedAt |-> FALSE,
                rejectionReason |-> FALSE, suspensionReason |-> FALSE]

LEMMA DraftRow ==
  ASSUME NEW body \in Creation
  PROVE  /\ Draft(body) \in Row /\ Draft(body).status = "DRAFT" /\ Draft(body).maker = body.maker
         /\ Draft(body).shape = body.shape /\ ~Draft(body).deleted /\ ~Draft(body).publishedAt
         /\ ~Draft(body).rejectionReason /\ ~Draft(body).suspensionReason
BY RequestTypes DEF Draft, Row, Statuses

LEMMA InitIsListingsInv == ListingsInit => ListingsInv
<1> SUFFICES ASSUME ListingsInit PROVE ListingsInv
  OBVIOUS
<1>1. Created = {} /\ Live = {} /\ \A m \in Makers : OwnedBy(m) = {}
  BY DEF ListingsInit, Created, Live, OwnedBy
<1>2. ListingsTypeOK
  BY DEF ListingsInit, ListingsTypeOK
<1>3. RequestsAgree
  BY DEF ListingsInit, RequestsAgree, CreatesAt, ModeratesAt
<1>4. CountsAgree
  <2>1. \A m \in Makers : Cardinality(OwnedBy(m)) = 0
    BY <1>1, FS_EmptySet
  <2>2. \A t \in Tasks : task[t] \notin Creation /\ taskAt[t] # "insert"
    BY RequestTypes DEF ListingsInit
  <2>3. QED
    BY <2>1, <2>2, ListingsAssumption DEF CountsAgree
<1>5. RowsAgree
  BY <1>1 DEF ListingsInit, RowsAgree, ReasonsFitStatus
<1>6. NoticesFollow
  BY <1>1 DEF NoticesFollow
<1>7. TrailFollows
  <2>1. \A t \in Tasks : task[t] \notin Moderation /\ taskAt[t] = "idle"
    BY RequestTypes DEF ListingsInit
  <2>2. QED
    BY <1>1, <2>1 DEF TrailFollows
<1>8. SectionsFollow
  BY DEF ListingsInit, SectionsFollow, At
<1>9. QED
  BY <1>2, <1>3, <1>4, <1>5, <1>6, <1>7, <1>8 DEF ListingsInv

-----------------------------------------------------------------------------
LEMMA ListingsTypeKept ==
  ASSUME ListingsTypeOK, RequestsAgree, [ListingsNext]_listingVars
  PROVE  ListingsTypeOK'
<1> USE DEF ListingsTypeOK
<1>1. ASSUME NEW t \in Tasks, NEW body \in Creation, BeginCreate(t, body) PROVE ListingsTypeOK'
  BY <1>1 DEF BeginCreate, GoOn, notices, caches
<1>2. ASSUME NEW t \in Tasks, NEW call \in Moderation, BeginModeration(t, call)
      PROVE  ListingsTypeOK'
  BY <1>2 DEF BeginModeration, GoOn, notices, caches
<1>3. ASSUME NEW t \in Tasks, FindSlug(t) PROVE ListingsTypeOK'
  BY <1>3 DEF FindSlug, GoOn, Answered, notices, caches, InTransaction
<1>4. ASSUME NEW t \in Tasks, CountListings(t) PROVE ListingsTypeOK'
  BY <1>4 DEF CountListings, GoOn, Answered, notices, caches, InTransaction
<1>5. ASSUME NEW t \in Tasks, NEW l \in ListingRows, Insert(t, l) PROVE ListingsTypeOK'
  <2>1. task[t] \in Creation
    BY <1>5 DEF Insert, RequestsAgree, CreatesAt
  <2>2. listing' \in [ListingRows -> Row \cup {None}]
    BY <1>5, <2>1, DraftRow DEF Insert, Draft
  <2>3. QED
    BY <1>5, <2>2 DEF Insert, GoOn, Answered, notices, caches
<1>6. ASSUME NEW t \in Tasks, LockAndLoad(t) PROVE ListingsTypeOK'
  BY <1>6 DEF LockAndLoad, GoOn, Answered, notices, caches, InTransaction
<1>7. ASSUME NEW t \in Tasks, CommitMove(t) PROVE ListingsTypeOK'
  <2>1. PICK l : l = task[t].listing
    OBVIOUS
  <2>2. task[t] \in Moderation /\ l \in Created /\ task[t].op \in Moderations
    BY <1>7, <2>1, RequestTypes DEF CommitMove, RequestsAgree, ModeratesAt
  <2>3. listing[l] \in Row /\ l \in ListingRows
    BY <2>2 DEF Created
  <2>4. listing' \in [ListingRows -> Row \cup {None}]
    BY <1>7, <2>1, <2>2, <2>3, MovedRow DEF CommitMove
  <2>5. told' \in [ListingRows -> Announced \cup {None}]
    BY <1>7, <2>2 DEF CommitMove, Notify
  <2>6. rowLock' \in [ListingRows -> Tasks \cup {None}]
    BY <1>7 DEF CommitMove, Unlock
  <2>7. taskAt' \in [Tasks -> {"idle", "slug", "lock", "invalidate", "audit"} \cup InTransaction]
    BY <1>7 DEF CommitMove, GoOn
  <2>8. UNCHANGED <<task, trail, sections, reader, faults>>
    BY <1>7 DEF CommitMove, caches
  <2>9. QED
    BY <2>4, <2>5, <2>6, <2>7, <2>8
<1>8. ASSUME NEW t \in Tasks, RollBackMove(t) PROVE ListingsTypeOK'
  <2>1. task[t] \in Moderation /\ task[t].op \in Moderations
    BY <1>8, RequestTypes DEF RollBackMove, RequestsAgree, ModeratesAt
  <2>2. told' \in [ListingRows -> Announced \cup {None}]
    BY <1>8, <2>1 DEF RollBackMove, Notify
  <2>3. rowLock' \in [ListingRows -> Tasks \cup {None}]
    BY <1>8 DEF RollBackMove, Unlock
  <2>4. QED
    BY <1>8, <2>2, <2>3 DEF RollBackMove, GoOn, Answered, caches
<1>9. ASSUME NEW t \in Tasks, Invalidate(t) PROVE ListingsTypeOK'
  BY <1>9 DEF Invalidate, GoOn, notices
<1>10. ASSUME NEW t \in Tasks, LogMove(t) PROVE ListingsTypeOK'
  <2>1. task[t] \in Moderation /\ task[t].op \in Moderations
    BY <1>10, RequestTypes DEF LogMove, RequestsAgree, ModeratesAt
  <2>2. QED
    BY <1>10, <2>1 DEF LogMove, GoOn, Answered, caches
<1>11. ASSUME NEW l \in ListingRows, SoftDelete(l) PROVE ListingsTypeOK'
  <2>1. listing[l] \in Row
    BY <1>11 DEF SoftDelete, Live, Created
  <2>2. [listing[l] EXCEPT !.deleted = TRUE] \in Row
    BY <2>1 DEF Row
  <2>3. QED
    BY <1>11, <2>2 DEF SoftDelete, notices, caches
<1>12. ASSUME NEW s \in Sections, ComputeSection(s) PROVE ListingsTypeOK'
  <2>1. \A found \in Selects(s) : found \subseteq ListingRows
    BY DEF Selects, Published, Traded, Live, Created
  <2>2. reader' \in [section : Sections, found : SUBSET ListingRows]
    BY <1>12, <2>1 DEF ComputeSection
  <2>3. QED
    BY <1>12, <2>2 DEF ComputeSection, notices
<1>13. ASSUME NEW s \in Sections, ExpireSection(s) PROVE ListingsTypeOK'
  BY <1>13 DEF ExpireSection, notices
<1>14. ASSUME StoreSection PROVE ListingsTypeOK'
  BY <1>14 DEF StoreSection, notices
<1>15. ASSUME CrashListings PROVE ListingsTypeOK'
  BY <1>15 DEF CrashListings, notices
<1>16. CASE UNCHANGED listingVars
  BY <1>16 DEF listingVars
<1>17. QED
  BY <1>1, <1>2, <1>3, <1>4, <1>5, <1>6, <1>7, <1>8, <1>9, <1>10, <1>11, <1>12, <1>13, <1>14,
     <1>15, <1>16 DEF ListingsNext, TaskStep

\* What was checked of a row holds as long as the row does not change.
LEMMA CheckHolds ==
  ASSUME NEW call, call.listing \in ListingRows, MayMove(call),
         listing'[call.listing] = listing[call.listing]
  PROVE  /\ call.listing \in Live'
         /\ call.op = "submitForReview" =>
              /\ listing'[call.listing].maker = call.by
              /\ assertSubmissionReady(listing'[call.listing].shape)
         /\ listing'[call.listing].status \in ALLOWED_FROM[call.op]
BY DEF MayMove, Live, Created

LEMMA RequestsKept ==
  ASSUME ListingsTypeOK, RequestsAgree, [ListingsNext]_listingVars
  PROVE  RequestsAgree'
<1> USE DEF ListingsTypeOK
<1> DEFINE Agrees(u) ==
      /\ taskAt[u] = "idle" => task[u] = None
      /\ taskAt[u] \in CreatesAt => task[u] \in Creation /\ assertPricingShape(task[u].shape)
      /\ taskAt[u] \in ModeratesAt => task[u] \in Moderation /\ task[u].listing \in Created
      /\ taskAt[u] = "update" => rowLock[task[u].listing] = u /\ MayMove(task[u])
    Same(u) == taskAt'[u] = taskAt[u] /\ task'[u] = task[u]
<1>a. \A u \in Tasks : Agrees(u)
  BY DEF RequestsAgree
<1>b. \A u \in Tasks : taskAt[u] = "update" =>
        task[u] \in Moderation /\ task[u].listing \in ListingRows /\ task[u].listing \in Live
  BY <1>a, RequestTypes DEF ModeratesAt, MayMove
\* What another request has found out is not disturbed, if its row and its lock are not.
<1>c. ASSUME NEW u \in Tasks, Same(u), Created \subseteq Created',
             taskAt[u] = "update" => /\ listing'[task[u].listing] = listing[task[u].listing]
                                     /\ rowLock'[task[u].listing] = u
      PROVE  Agrees(u)'
  <2>1. taskAt[u] = "update" => MayMove(task[u])'
    <3>1. ASSUME taskAt[u] = "update" PROVE MayMove(task[u])'
      <4>1. PICK call : call = task[u]
        OBVIOUS
      <4>2. call = task'[u] /\ call.listing \in ListingRows /\ MayMove(call)
            /\ listing'[call.listing] = listing[call.listing]
        BY <1>a, <1>b, <1>c, <3>1, <4>1
      <4>3. QED
        BY <4>2, CheckHolds DEF MayMove
    <3>2. QED
      BY <3>1
  <2>2. QED
    BY <1>a, <1>c, <2>1
<1>d. ASSUME NEW u \in Tasks, taskAt'[u] = "idle", task'[u] = None PROVE Agrees(u)'
  BY <1>d DEF CreatesAt, ModeratesAt
<1>1. ASSUME NEW t \in Tasks, NEW body \in Creation, BeginCreate(t, body) PROVE RequestsAgree'
  <2>1. Agrees(t)'
    BY <1>1, RequestTypes DEF BeginCreate, GoOn, CreatesAt, ModeratesAt
  <2>2. \A u \in Tasks \ {t} : Same(u)
    BY <1>1 DEF BeginCreate, GoOn
  <2>3. UNCHANGED <<listing, rowLock>>
    BY <1>1 DEF BeginCreate
  <2>4. \A u \in Tasks \ {t} : Agrees(u)'
    BY <1>a, <1>c, <2>2, <2>3 DEF Created
  <2>5. QED
    BY <2>1, <2>4 DEF RequestsAgree
<1>2. ASSUME NEW t \in Tasks, NEW call \in Moderation, BeginModeration(t, call)
      PROVE  RequestsAgree'
  <2>1. Agrees(t)'
    BY <1>2 DEF BeginModeration, GoOn, CreatesAt, ModeratesAt, Created
  <2>2. \A u \in Tasks \ {t} : Same(u)
    BY <1>2 DEF BeginModeration, GoOn
  <2>3. UNCHANGED <<listing, rowLock>>
    BY <1>2 DEF BeginModeration
  <2>4. \A u \in Tasks \ {t} : Agrees(u)'
    BY <1>a, <1>c, <2>2, <2>3 DEF Created
  <2>5. QED
    BY <2>1, <2>4 DEF RequestsAgree
<1>3. ASSUME NEW t \in Tasks, FindSlug(t) \/ CountListings(t) PROVE RequestsAgree'
  <2>1. Agrees(t)'
    <3>1. taskAt[t] \in CreatesAt /\ task[t] \in Creation /\ assertPricingShape(task[t].shape)
      BY <1>3, <1>a DEF FindSlug, CountListings, CreatesAt
    <3>2. \/ taskAt'[t] = "idle" /\ task'[t] = None
          \/ taskAt'[t] \in CreatesAt /\ task'[t] = task[t]
      BY <1>3 DEF FindSlug, CountListings, GoOn, Answered, CreatesAt
    <3>3. CASE taskAt'[t] \in CreatesAt /\ task'[t] = task[t]
      BY <3>1, <3>3 DEF CreatesAt, ModeratesAt
    <3>4. QED
      BY <1>d, <3>2, <3>3
  <2>2. \A u \in Tasks \ {t} : Same(u)
    BY <1>3 DEF FindSlug, CountListings, GoOn, Answered
  <2>3. UNCHANGED <<listing, rowLock>>
    BY <1>3 DEF FindSlug, CountListings
  <2>4. \A u \in Tasks \ {t} : Agrees(u)'
    BY <1>a, <1>c, <2>2, <2>3 DEF Created
  <2>5. QED
    BY <2>1, <2>4 DEF RequestsAgree
<1>4. ASSUME NEW t \in Tasks, NEW l \in ListingRows, Insert(t, l) PROVE RequestsAgree'
  <2>1. Agrees(t)'
    BY <1>d, <1>4 DEF Insert, GoOn, Answered
  <2>2. \A u \in Tasks \ {t} : Same(u)
    BY <1>4 DEF Insert, GoOn, Answered
  <2>3. UNCHANGED rowLock /\ listing[l] = None /\ \A k \in ListingRows \ {l} : listing'[k] = listing[k]
    BY <1>4 DEF Insert
  <2>4. Created \subseteq Created'
    BY <2>3 DEF Created
  <2>5. \A u \in Tasks : taskAt[u] = "update" => task[u].listing \in ListingRows \ {l}
    BY <1>b, <2>3 DEF Live, Created
  <2>6. \A u \in Tasks \ {t} : Agrees(u)'
    BY <1>a, <1>c, <2>2, <2>3, <2>4, <2>5
  <2>7. QED
    BY <2>1, <2>6 DEF RequestsAgree
<1>5. ASSUME NEW t \in Tasks, LockAndLoad(t) PROVE RequestsAgree'
  <2>1. PICK l : l = task[t].listing
    OBVIOUS
  <2>2. task[t] \in Moderation /\ l \in Created /\ l \in ListingRows
    BY <1>5, <1>a, <2>1 DEF LockAndLoad, ModeratesAt, Created
  <2>3. UNCHANGED listing /\ rowLock[l] = None /\ Created' = Created
    BY <1>5, <2>1 DEF LockAndLoad, Created
  <2>4. Agrees(t)'
    <3>1. CASE MayMove(task[t])
      <4>1. rowLock'[l] = t /\ taskAt'[t] = "update" /\ task'[t] = task[t]
        BY <1>5, <2>1, <2>2, <3>1 DEF LockAndLoad, GoOn
      <4>2. MayMove(task[t])'
        BY <2>3, <3>1, <4>1 DEF MayMove, Live, Created
      <4>3. QED
        BY <2>1, <2>2, <2>3, <4>1, <4>2 DEF CreatesAt, ModeratesAt
    <3>2. CASE ~MayMove(task[t])
      BY <1>5, <1>d, <3>2 DEF LockAndLoad, GoOn, Answered
    <3>3. QED
      BY <3>1, <3>2
  <2>5. \A u \in Tasks \ {t} : Same(u)
    BY <1>5 DEF LockAndLoad, GoOn, Answered
  <2>6. \A k \in ListingRows \ {l} : rowLock'[k] = rowLock[k]
    BY <1>5, <2>1 DEF LockAndLoad
  <2>7. \A u \in Tasks : taskAt[u] = "update" => task[u].listing \in ListingRows \ {l}
    BY <1>a, <1>b, <2>3, RequestTypes
  <2>8. \A u \in Tasks \ {t} : Agrees(u)'
    BY <1>a, <1>c, <2>3, <2>5, <2>6, <2>7
  <2>9. QED
    BY <2>4, <2>8 DEF RequestsAgree
<1>6. ASSUME NEW t \in Tasks, CommitMove(t) PROVE RequestsAgree'
  <2>1. PICK l : l = task[t].listing
    OBVIOUS
  <2>2. task[t] \in Moderation /\ l \in Created /\ l \in ListingRows /\ rowLock[l] = t
    BY <1>6, <1>a, <2>1 DEF CommitMove, ModeratesAt, Created
  <2>3. \A k \in ListingRows \ {l} : listing'[k] = listing[k]
    BY <1>6, <2>1 DEF CommitMove
  <2>4. listing'[l] = Moved(listing[l], task[t].op) /\ UNCHANGED task
    BY <1>6, <2>1, <2>2 DEF CommitMove
  <2>5. l \in Created'
    <3>1. task[t].op \in Moderations /\ listing[l] \in Row
      BY <2>2, RequestTypes DEF Created
    <3>2. PICK row \in Row, op \in Moderations : row = listing[l] /\ op = task[t].op
      BY <3>1
    <3>3. listing'[l] = Moved(row, op)
      BY <2>4, <3>2
    <3>4. Moved(row, op) \in Row
      BY MovedRow
    <3>5. QED
      BY <2>2, <3>3, <3>4, ListingsAssumption DEF Created
  <2>6. Created \subseteq Created'
    BY <2>3, <2>5 DEF Created
  <2>7. taskAt'[t] \in {"invalidate", "audit"} /\ task'[t] = task[t]
    BY <1>6 DEF CommitMove, GoOn
  <2>8. Agrees(t)'
    BY <2>1, <2>2, <2>6, <2>7 DEF CreatesAt, ModeratesAt
  <2>9. \A u \in Tasks \ {t} : Same(u)
    BY <1>6 DEF CommitMove, GoOn
  <2>10. \A u \in Tasks \ {t} : taskAt[u] = "update" =>
           task[u].listing \in ListingRows \ {l} /\ rowLock'[task[u].listing] = u
    BY <1>6, <1>a, <1>b, <2>2 DEF CommitMove, Unlock
  <2>11. \A u \in Tasks \ {t} : Agrees(u)'
    BY <1>a, <1>c, <2>3, <2>6, <2>9, <2>10
  <2>12. QED
    BY <2>8, <2>11 DEF RequestsAgree
<1>7. ASSUME NEW t \in Tasks, RollBackMove(t) PROVE RequestsAgree'
  <2>1. Agrees(t)'
    BY <1>d, <1>7 DEF RollBackMove, GoOn, Answered
  <2>2. \A u \in Tasks \ {t} : Same(u)
    BY <1>7 DEF RollBackMove, GoOn, Answered
  <2>3. UNCHANGED listing /\ Created' = Created
    BY <1>7 DEF RollBackMove, Created
  <2>4. \A u \in Tasks \ {t} : taskAt[u] = "update" => rowLock'[task[u].listing] = u
    BY <1>7, <1>a, <1>b DEF RollBackMove, Unlock
  <2>5. \A u \in Tasks \ {t} : Agrees(u)'
    BY <1>a, <1>c, <2>2, <2>3, <2>4
  <2>6. QED
    BY <2>1, <2>5 DEF RequestsAgree
<1>8. ASSUME NEW t \in Tasks, Invalidate(t) \/ LogMove(t) PROVE RequestsAgree'
  <2>1. UNCHANGED <<listing, rowLock>> /\ Created' = Created
    BY <1>8 DEF Invalidate, LogMove, Created
  <2>2. Agrees(t)'
    <3>1. taskAt[t] \in ModeratesAt
      BY <1>8 DEF Invalidate, LogMove, ModeratesAt
    <3>2. \/ taskAt'[t] = "idle" /\ task'[t] = None
          \/ taskAt'[t] = "audit" /\ task'[t] = task[t]
      BY <1>8 DEF Invalidate, LogMove, GoOn, Answered
    <3>3. CASE taskAt'[t] = "audit" /\ task'[t] = task[t]
      BY <1>a, <2>1, <3>1, <3>3 DEF CreatesAt, ModeratesAt
    <3>4. QED
      BY <1>d, <3>2, <3>3
  <2>3. \A u \in Tasks \ {t} : Same(u)
    BY <1>8 DEF Invalidate, LogMove, GoOn, Answered
  <2>4. \A u \in Tasks \ {t} : Agrees(u)'
    BY <1>a, <1>c, <2>1, <2>3
  <2>5. QED
    BY <2>2, <2>4 DEF RequestsAgree
<1>9. ASSUME NEW l \in ListingRows, SoftDelete(l) PROVE RequestsAgree'
  <2>1. UNCHANGED <<rowLock, task, taskAt>> /\ rowLock[l] = None /\ listing[l] \in Row
    BY <1>9 DEF SoftDelete, Live, Created
  <2>2. \A k \in ListingRows \ {l} : listing'[k] = listing[k]
    BY <1>9 DEF SoftDelete
  <2>3. listing'[l] = [listing[l] EXCEPT !.deleted = TRUE] /\ listing'[l] \in Row
    BY <1>9, <2>1 DEF SoftDelete, Row
  <2>4. l \in Created'
    BY <2>3, ListingsAssumption DEF Created
  <2>5. Created \subseteq Created'
    BY <2>2, <2>4 DEF Created
  <2>6. \A u \in Tasks : taskAt[u] = "update" => task[u].listing \in ListingRows \ {l}
    BY <1>a, <1>b, <2>1, RequestTypes
  <2>7. \A u \in Tasks : Agrees(u)'
    BY <1>a, <1>c, <2>1, <2>2, <2>5, <2>6
  <2>8. QED
    BY <2>7 DEF RequestsAgree
<1>10. ASSUME UNCHANGED <<listing, rowLock, task, taskAt>> PROVE RequestsAgree'
  <2>1. \A u \in Tasks : Agrees(u)'
    BY <1>a, <1>c, <1>10 DEF Created
  <2>2. QED
    BY <2>1 DEF RequestsAgree
<1>11. ASSUME CrashListings PROVE RequestsAgree'
  <2>1. \A u \in Tasks : Agrees(u)'
    BY <1>d, <1>11 DEF CrashListings
  <2>2. QED
    BY <2>1 DEF RequestsAgree
<1>12. QED
  <2>1. ASSUME NEW s \in Sections, ComputeSection(s) \/ ExpireSection(s)
        PROVE  UNCHANGED <<listing, rowLock, task, taskAt>>
    BY <2>1 DEF ComputeSection, ExpireSection
  <2>2. StoreSection \/ UNCHANGED listingVars => UNCHANGED <<listing, rowLock, task, taskAt>>
    BY DEF StoreSection, listingVars
  <2>3. QED
    BY <1>1, <1>2, <1>3, <1>4, <1>5, <1>6, <1>7, <1>8, <1>9, <1>10, <1>11, <2>1, <2>2
    DEF ListingsNext, TaskStep

-----------------------------------------------------------------------------
LEMMA FaultsStay ==
  ASSUME [ListingsNext]_listingVars
  PROVE  UNCHANGED faults
BY DEF ListingsNext, TaskStep, listingVars, BeginCreate, BeginModeration, FindSlug, CountListings,
       Insert, LockAndLoad, CommitMove, RollBackMove, Invalidate, LogMove, SoftDelete,
       ComputeSection, StoreSection, ExpireSection, CrashListings

LEMMA CountsKept ==
  ASSUME ListingsTypeOK, RequestsAgree, CountsAgree, [ListingsNext]_listingVars
  PROVE  CountsAgree'
<1> USE DEF ListingsTypeOK
<1> SUFFICES ASSUME "creates" \notin faults PROVE CountsAgree'
  BY FaultsStay DEF CountsAgree
<1>a. /\ \A t, u \in Tasks : task[t] \in Creation /\ task[u] \in Creation => t = u
      /\ \A t \in Tasks : taskAt[t] = "insert" => Cardinality(OwnedBy(task[t].maker)) < Quota
      /\ \A m \in Makers : Cardinality(OwnedBy(m)) <= Quota
  BY DEF CountsAgree
<1>b. \A m : IsFiniteSet(OwnedBy(m)) /\ Cardinality(OwnedBy(m)) \in Nat
  <2>1. \A m : OwnedBy(m) \in SUBSET ListingRows
    BY DEF OwnedBy, Live, Created
  <2>2. QED
    BY <2>1, ListingsAssumption, FS_Subset, FS_CardinalityType
<1>c. Quota \in Nat
  BY ListingsAssumption
<1>d. \A u \in Tasks : taskAt[u] \in CreatesAt => task[u] \in Creation /\ task[u].maker \in Makers
  BY RequestTypes DEF RequestsAgree
\* Nobody has more, and nobody else creates.
<1>e. ASSUME \A m \in Makers : OwnedBy(m)' \subseteq OwnedBy(m),
             \A u \in Tasks : task'[u] \in Creation => task[u] \in Creation,
             \A u \in Tasks : taskAt'[u] = "insert" => taskAt[u] = "insert" /\ task'[u] = task[u]
      PROVE  CountsAgree'
  <2>1. \A m \in Makers : Cardinality(OwnedBy(m)') \in Nat
                          /\ Cardinality(OwnedBy(m)') <= Cardinality(OwnedBy(m))
    BY <1>b, <1>e, FS_Subset, FS_CardinalityType
  <2>2. \A m \in Makers : Cardinality(OwnedBy(m))' <= Quota
    BY <1>a, <1>b, <1>c, <2>1
  <2>3. \A u \in Tasks : taskAt'[u] = "insert" => Cardinality(OwnedBy(task[u].maker))' < Quota
    <3>1. ASSUME NEW u \in Tasks, taskAt'[u] = "insert"
          PROVE  Cardinality(OwnedBy(task[u].maker))' < Quota
      <4>1. PICK m \in Makers : m = task[u].maker
        BY <1>d, <1>e, <3>1 DEF CreatesAt
      <4>2. task'[u].maker = m /\ Cardinality(OwnedBy(m)) < Quota
        BY <1>a, <1>e, <3>1, <4>1
      <4>3. Cardinality(OwnedBy(m))' < Quota
        BY <1>b, <1>c, <2>1, <4>2
      <4>4. Cardinality(OwnedBy(task[u].maker))' = Cardinality(OwnedBy(m))'
        BY <4>2
      <4>5. QED
        BY <4>3, <4>4
    <3>2. QED
      BY <3>1
  <2>4. QED
    BY <1>a, <1>e, <2>2, <2>3 DEF CountsAgree
<1>f. UNCHANGED listing => \A m \in Makers : OwnedBy(m)' = OwnedBy(m)
  BY DEF OwnedBy, Live, Created
<1>1. ASSUME NEW t \in Tasks, NEW body \in Creation, BeginCreate(t, body) PROVE CountsAgree'
  <2>1. \A u \in Tasks : task[u] \notin Creation
    <3>1. Creating = {}
      BY <1>1 DEF BeginCreate
    <3>2. QED
      BY <3>1, RequestTypes DEF Creating
  <2>2. \A u, v \in Tasks : task'[u] \in Creation /\ task'[v] \in Creation => u = v
    BY <1>1, <2>1 DEF BeginCreate
  <2>3. \A u \in Tasks : taskAt'[u] # "insert"
    BY <1>1, <1>d, <2>1 DEF BeginCreate, GoOn, CreatesAt
  <2>4. \A m \in Makers : Cardinality(OwnedBy(m))' <= Quota
    BY <1>1, <1>a, <1>f DEF BeginCreate
  <2>5. QED
    BY <2>2, <2>3, <2>4 DEF CountsAgree
<1>2. ASSUME NEW t \in Tasks, NEW call \in Moderation, BeginModeration(t, call)
      PROVE  CountsAgree'
  BY <1>2, <1>e, <1>f, RequestTypes DEF BeginModeration, GoOn
<1>3. ASSUME NEW t \in Tasks, FindSlug(t) PROVE CountsAgree'
  BY <1>3, <1>e, <1>f, RequestTypes DEF FindSlug, GoOn, Answered
<1>4. ASSUME NEW t \in Tasks, CountListings(t) PROVE CountsAgree'
  <2>1. CASE Cardinality(OwnedBy(task[t].maker)) >= Quota
    BY <1>4, <2>1, <1>e, <1>f, RequestTypes DEF CountListings, GoOn, Answered
  <2>2. CASE ~(Cardinality(OwnedBy(task[t].maker)) >= Quota)
    <3>1. UNCHANGED <<task, listing>> /\ taskAt' = [taskAt EXCEPT ![t] = "insert"]
      BY <1>4, <2>2 DEF CountListings, GoOn
    <3>2. task[t].maker \in Makers /\ Cardinality(OwnedBy(task[t].maker)) < Quota
      BY <1>4, <1>b, <1>c, <1>d, <2>2 DEF CountListings, CreatesAt
    <3>3. \A m \in Makers : Cardinality(OwnedBy(m))' = Cardinality(OwnedBy(m))
      BY <1>f, <3>1
    <3>4. \A u \in Tasks : taskAt'[u] = "insert" => Cardinality(OwnedBy(task[u].maker))' < Quota
      <4>1. ASSUME NEW u \in Tasks, taskAt'[u] = "insert"
            PROVE  Cardinality(OwnedBy(task[u].maker))' < Quota
        <5>1. task[u].maker \in Makers /\ Cardinality(OwnedBy(task[u].maker)) < Quota
          BY <1>a, <1>d, <3>1, <3>2, <4>1 DEF CreatesAt
        <5>2. PICK m \in Makers : m = task[u].maker
          BY <5>1
        <5>3. Cardinality(OwnedBy(m))' < Quota /\ task'[u].maker = m
          BY <3>1, <3>3, <5>1, <5>2
        <5>4. QED
          BY <5>3
      <4>2. QED
        BY <4>1
    <3>5. QED
      BY <1>a, <3>1, <3>3, <3>4 DEF CountsAgree
  <2>3. QED
    BY <2>1, <2>2
<1>5. ASSUME NEW t \in Tasks, NEW l \in ListingRows, Insert(t, l) PROVE CountsAgree'
  <2>1. PICK m \in Makers : m = task[t].maker
    BY <1>5, <1>d DEF Insert, CreatesAt
  <2>2. task[t] \in Creation /\ taskAt[t] = "insert" /\ listing[l] = None
    BY <1>5, <1>d DEF Insert, CreatesAt
  <2>3. Cardinality(OwnedBy(m)) < Quota
    BY <1>a, <2>1, <2>2
  <2>4. \A u \in Tasks : task'[u] \notin Creation /\ taskAt'[u] # "insert"
    <3>1. task' = [task EXCEPT ![t] = None] /\ taskAt' = [taskAt EXCEPT ![t] = "idle"]
      BY <1>5 DEF Insert, GoOn, Answered
    <3>2. \A u \in Tasks \ {t} : task[u] \notin Creation /\ taskAt[u] # "insert"
      BY <1>a, <1>d, <2>2 DEF CreatesAt
    <3>3. QED
      BY <3>1, <3>2, RequestTypes
  <2>5. \A n \in Makers : n # m => OwnedBy(n)' \subseteq OwnedBy(n)
    <3>1. \A k \in ListingRows \ {l} : listing'[k] = listing[k]
      BY <1>5 DEF Insert
    <3>2. listing'[l] = None \/ listing'[l].maker = m
      BY <1>5, <2>1, <2>2 DEF Insert
    <3>3. QED
      BY <3>1, <3>2 DEF OwnedBy, Live, Created
  <2>6. OwnedBy(m)' \subseteq OwnedBy(m) \cup {l}
    <3>1. \A k \in ListingRows \ {l} : listing'[k] = listing[k]
      BY <1>5 DEF Insert
    <3>2. QED
      BY <3>1 DEF OwnedBy, Live, Created
  <2>7. Cardinality(OwnedBy(m)') <= Quota
    <3>1. Cardinality(OwnedBy(m) \cup {l}) <= Cardinality(OwnedBy(m)) + 1
          /\ IsFiniteSet(OwnedBy(m) \cup {l}) /\ Cardinality(OwnedBy(m) \cup {l}) \in Nat
      <4>1. l \notin OwnedBy(m) /\ IsFiniteSet(OwnedBy(m)) /\ Cardinality(OwnedBy(m)) \in Nat
        BY <1>b, <2>2 DEF OwnedBy, Live, Created
      <4>2. IsFiniteSet(OwnedBy(m) \cup {l})
            /\ Cardinality(OwnedBy(m) \cup {l}) = Cardinality(OwnedBy(m)) + 1
        BY <4>1, FS_AddElement
      <4>3. QED
        BY <4>1, <4>2
    <3>2. Cardinality(OwnedBy(m)') <= Cardinality(OwnedBy(m) \cup {l})
          /\ Cardinality(OwnedBy(m)') \in Nat
      BY <2>6, <3>1, FS_Subset, FS_CardinalityType
    <3>3. QED
      BY <1>b, <1>c, <2>3, <3>1, <3>2
  <2>8. \A n \in Makers : Cardinality(OwnedBy(n)') <= Quota
    <3>1. \A n \in Makers : n # m => Cardinality(OwnedBy(n)') \in Nat
                                     /\ Cardinality(OwnedBy(n)') <= Cardinality(OwnedBy(n))
      BY <1>b, <2>5, FS_Subset, FS_CardinalityType
    <3>2. QED
      BY <1>a, <1>b, <1>c, <2>7, <3>1
  <2>9. QED
    BY <2>4, <2>8 DEF CountsAgree
<1>6. ASSUME NEW t \in Tasks, LockAndLoad(t) PROVE CountsAgree'
  BY <1>6, <1>e, <1>f, RequestTypes DEF LockAndLoad, GoOn, Answered
<1>7. ASSUME NEW t \in Tasks, CommitMove(t) PROVE CountsAgree'
  <2>1. PICK l : l = task[t].listing
    OBVIOUS
  <2>2. task[t] \in Moderation /\ task[t].op \in Moderations /\ l \in ListingRows /\ listing[l] \in Row
    BY <1>7, <2>1, RequestTypes DEF CommitMove, RequestsAgree, ModeratesAt, Created
  <2>3. listing' = [listing EXCEPT ![l] = Moved(listing[l], task[t].op)]
    BY <1>7, <2>1 DEF CommitMove
  <2>4. \A m \in Makers : OwnedBy(m)' \subseteq OwnedBy(m)
    <3>1. listing'[l].maker = listing[l].maker /\ listing'[l].deleted = listing[l].deleted
          /\ listing[l] # None
      <4>1. PICK row \in Row, op \in Moderations : row = listing[l] /\ op = task[t].op
        BY <2>2
      <4>2. listing'[l] = Moved(row, op)
        BY <2>2, <2>3, <4>1
      <4>3. Moved(row, op).maker = row.maker /\ Moved(row, op).deleted = row.deleted
        BY MovedRow
      <4>4. QED
        BY <2>2, <4>1, <4>2, <4>3, ListingsAssumption
    <3>2. \A k \in ListingRows \ {l} : listing'[k] = listing[k]
      BY <2>3
    <3>3. QED
      BY <3>1, <3>2 DEF OwnedBy, Live, Created
  <2>5. QED
    BY <1>7, <1>e, <2>4 DEF CommitMove, GoOn
<1>8. ASSUME NEW t \in Tasks, RollBackMove(t) PROVE CountsAgree'
  BY <1>8, <1>e, <1>f, RequestTypes DEF RollBackMove, GoOn, Answered
<1>9. ASSUME NEW t \in Tasks, Invalidate(t) PROVE CountsAgree'
  BY <1>9, <1>e, <1>f, RequestTypes DEF Invalidate, GoOn
<1>10. ASSUME NEW t \in Tasks, LogMove(t) PROVE CountsAgree'
  BY <1>10, <1>e, <1>f, RequestTypes DEF LogMove, GoOn, Answered
<1>11. ASSUME NEW l \in ListingRows, SoftDelete(l) PROVE CountsAgree'
  <2>1. listing[l] \in Row /\ listing' = [listing EXCEPT ![l].deleted = TRUE]
        /\ UNCHANGED <<task, taskAt>>
    BY <1>11 DEF SoftDelete, Live, Created
  <2>2. \A k \in ListingRows \ {l} : listing'[k] = listing[k]
    BY <2>1
  <2>3. listing'[l].deleted
    BY <2>1 DEF Row
  <2>4. \A m \in Makers : OwnedBy(m)' \subseteq OwnedBy(m)
    BY <2>2, <2>3 DEF OwnedBy, Live, Created
  <2>5. QED
    BY <1>e, <2>1, <2>4
<1>12. ASSUME UNCHANGED <<listing, task, taskAt>> PROVE CountsAgree'
  BY <1>e, <1>f, <1>12
<1>13. ASSUME CrashListings PROVE CountsAgree'
  BY <1>13, <1>e, <1>f, RequestTypes DEF CrashListings
<1>14. QED
  <2>1. ASSUME NEW s \in Sections, ComputeSection(s) \/ ExpireSection(s)
        PROVE  UNCHANGED <<listing, task, taskAt>>
    BY <2>1 DEF ComputeSection, ExpireSection
  <2>2. StoreSection \/ UNCHANGED listingVars => UNCHANGED <<listing, task, taskAt>>
    BY DEF StoreSection, listingVars
  <2>3. QED
    BY <1>1, <1>2, <1>3, <1>4, <1>5, <1>6, <1>7, <1>8, <1>9, <1>10, <1>11, <1>12, <1>13, <2>1, <2>2
    DEF ListingsNext, TaskStep

-----------------------------------------------------------------------------
\* What a step does to the rows, the notices and the trail.
LEMMA RowSteps ==
  ASSUME [ListingsNext]_listingVars
  PROVE  \/ UNCHANGED listing
         \/ \E t \in Tasks, l \in ListingRows : Insert(t, l)
         \/ \E t \in Tasks : CommitMove(t)
         \/ \E l \in ListingRows : SoftDelete(l)
BY DEF ListingsNext, TaskStep, listingVars, BeginCreate, BeginModeration, FindSlug, CountListings,
       LockAndLoad, RollBackMove, Invalidate, LogMove, ComputeSection, StoreSection,
       ExpireSection, CrashListings

LEMMA ToldSteps ==
  ASSUME [ListingsNext]_listingVars
  PROVE  UNCHANGED told \/ CrashListings \/ \E t \in Tasks : CommitMove(t) \/ RollBackMove(t)
BY DEF ListingsNext, TaskStep, listingVars, BeginCreate, BeginModeration, FindSlug, CountListings,
       Insert, LockAndLoad, Invalidate, LogMove, ComputeSection, StoreSection, SoftDelete,
       ExpireSection, notices

LEMMA TrailSteps ==
  ASSUME [ListingsNext]_listingVars
  PROVE  UNCHANGED trail \/ \E t \in Tasks : LogMove(t)
BY DEF ListingsNext, TaskStep, listingVars, BeginCreate, BeginModeration, FindSlug, CountListings,
       Insert, LockAndLoad, Invalidate, CommitMove, RollBackMove, ComputeSection, StoreSection,
       SoftDelete, ExpireSection, CrashListings, notices

\* The write of a moderation: the row it checked is the row it changes.
LEMMA MoveFacts ==
  ASSUME ListingsTypeOK, RequestsAgree, NEW t \in Tasks, CommitMove(t)
  PROVE  \E l \in Live, op \in Moderations :
           /\ task[t] \in Moderation /\ l = task[t].listing /\ op = task[t].op
           /\ l \in ListingRows /\ l \in Created /\ listing[l] \in Row /\ ~listing[l].deleted
           /\ listing[l].status \in ALLOWED_FROM[op]
           /\ listing'[l] = Moved(listing[l], op) /\ l \in Created'
           /\ \A k \in ListingRows \ {l} : listing'[k] = listing[k]
           /\ Created' = Created
<1>1. PICK l : l = task[t].listing
  OBVIOUS
<1>2. /\ task[t] \in Moderation /\ task[t].op \in Moderations /\ MayMove(task[t])
      /\ l \in ListingRows /\ l \in Live /\ l \in Created
  BY <1>1, RequestTypes DEF CommitMove, RequestsAgree, ModeratesAt, MayMove, Live, Created
<1>3. listing[l] \in Row /\ ~listing[l].deleted
  BY <1>2 DEF ListingsTypeOK, Live, Created
<1>4. PICK row \in Row, op \in Moderations : row = listing[l] /\ op = task[t].op
  BY <1>2, <1>3
<1>5. listing'[l] = Moved(row, op) /\ \A k \in ListingRows \ {l} : listing'[k] = listing[k]
  BY <1>1, <1>2, <1>4 DEF CommitMove, ListingsTypeOK
<1>6. Moved(row, op) \in Row
  BY MovedRow
<1>7. l \in Created'
  BY <1>2, <1>5, <1>6, ListingsAssumption DEF Created
<1>8. Created' = Created
  BY <1>2, <1>5, <1>7 DEF Created
<1>9. listing[l].status \in ALLOWED_FROM[op]
  BY <1>1, <1>2, <1>4 DEF MayMove
<1>10. listing'[l] = Moved(listing[l], op)
  BY <1>4, <1>5
<1>11. QED
  BY <1>1, <1>2, <1>3, <1>4, <1>5, <1>7, <1>8, <1>9, <1>10

LEMMA InsertFacts ==
  ASSUME ListingsTypeOK, RequestsAgree, NEW t \in Tasks, NEW l \in ListingRows, Insert(t, l)
  PROVE  /\ listing[l] = None /\ l \notin Created
         /\ task[t] \in Creation /\ assertPricingShape(task[t].shape)
         /\ \A k \in ListingRows \ {l} : listing'[k] = listing[k]
         /\ listing'[l] = None \/ listing'[l] = Draft(task[t])
         /\ Created' \subseteq Created \cup {l} /\ Created \subseteq Created'
<1>1. listing[l] = None /\ l \notin Created
  BY DEF Insert, Created
<1>2. task[t] \in Creation /\ assertPricingShape(task[t].shape)
  BY DEF Insert, RequestsAgree, CreatesAt
<1>3. \A k \in ListingRows \ {l} : listing'[k] = listing[k]
  BY DEF Insert, ListingsTypeOK
<1>4. listing'[l] = None \/ listing'[l] = Draft(task[t])
  BY <1>1 DEF Insert, ListingsTypeOK, Draft
<1>5. Created' \subseteq Created \cup {l} /\ Created \subseteq Created'
  BY <1>1, <1>3 DEF Created
<1>6. QED
  BY <1>1, <1>2, <1>3, <1>4, <1>5

LEMMA SoftDeleteFacts ==
  ASSUME ListingsTypeOK, NEW l \in ListingRows, SoftDelete(l)
  PROVE  /\ l \in Live /\ l \in Created /\ Created' = Created
         /\ \A k \in ListingRows \ {l} : listing'[k] = listing[k]
         /\ listing'[l].status = listing[l].status /\ listing'[l].shape = listing[l].shape
         /\ listing'[l].publishedAt = listing[l].publishedAt
         /\ listing'[l].rejectionReason = listing[l].rejectionReason
         /\ listing'[l].suspensionReason = listing[l].suspensionReason
<1>1. l \in Live /\ l \in Created /\ listing[l] \in Row
  BY DEF SoftDelete, ListingsTypeOK, Live, Created
<1>2. \A k \in ListingRows \ {l} : listing'[k] = listing[k]
  BY DEF SoftDelete, ListingsTypeOK
<1>3. listing'[l] = [listing[l] EXCEPT !.deleted = TRUE]
  BY DEF SoftDelete, ListingsTypeOK
<1>4. listing'[l] \in Row
  BY <1>1, <1>3 DEF Row
<1>5. Created' = Created
  BY <1>1, <1>2, <1>4, ListingsAssumption DEF Created
<1>6. QED
  BY <1>1, <1>2, <1>3, <1>5 DEF Row

-----------------------------------------------------------------------------
LEMMA RowsKept ==
  ASSUME ListingsTypeOK, RequestsAgree, RowsAgree, [ListingsNext]_listingVars
  PROVE  RowsAgree'
<1> DEFINE Fits(row) == /\ row.suspensionReason <=> row.status = "SUSPENDED"
                        /\ row.rejectionReason <=> row.status = "REJECTED"
                        /\ row.publishedAt <=> row.status \in {"PUBLISHED", "SUSPENDED"}
<1>a. \A l \in Created : assertPricingShape(listing[l].shape) /\ Fits(listing[l])
  BY DEF RowsAgree, ReasonsFitStatus
<1>b. \A l \in ListingRows \ Created : told[l] = None /\ trail[l] = None
  BY DEF RowsAgree
<1>c. \A l \in ListingRows \ Created : told'[l] = None /\ trail'[l] = None
  <2>1. ASSUME NEW t \in Tasks, CommitMove(t) \/ RollBackMove(t)
        PROVE  \A l \in ListingRows \ Created : told'[l] = told[l]
    <3>1. task[t].listing \in Created
      BY <2>1 DEF CommitMove, RollBackMove, RequestsAgree, ModeratesAt
    <3>2. told' = told \/ told' = [told EXCEPT ![task[t].listing] = task[t].op]
      BY <2>1 DEF CommitMove, RollBackMove, Notify
    <3>3. QED
      BY <3>1, <3>2 DEF ListingsTypeOK
  <2>2. ASSUME NEW t \in Tasks, LogMove(t)
        PROVE  \A l \in ListingRows \ Created : trail'[l] = trail[l]
    <3>1. task[t].listing \in Created
      BY <2>2 DEF LogMove, RequestsAgree, ModeratesAt
    <3>2. QED
      BY <2>2, <3>1 DEF LogMove, ListingsTypeOK
  <2>3. ASSUME CrashListings
        PROVE  \A l \in ListingRows \ Created : told'[l] = told[l]
    <3>1. \A t \in At("update") : task[t].listing \in Created
      BY DEF At, RequestsAgree, ModeratesAt
    <3>2. QED
      BY <2>3, <3>1 DEF CrashListings
  <2>4. QED
    BY <1>b, <2>1, <2>2, <2>3, ToldSteps, TrailSteps
<1>d. ASSUME \A l \in Created' : assertPricingShape(listing'[l].shape) /\ Fits(listing'[l]),
             Created \subseteq Created'
      PROVE  RowsAgree'
  <2>1. \A l \in ListingRows \ Created' : l \notin Created
    BY <1>d
  <2>2. \A l \in ListingRows \ Created' : told'[l] = None /\ trail'[l] = None
    BY <1>c, <2>1
  <2>3. ReasonsFitStatus'
    BY <1>d DEF ReasonsFitStatus
  <2>4. QED
    BY <1>d, <2>2, <2>3 DEF RowsAgree
<1>1. CASE UNCHANGED listing
  <2>1. Created' = Created
    BY <1>1 DEF Created
  <2>2. QED
    BY <1>1, <1>a, <1>d, <2>1
<1>2. ASSUME NEW t \in Tasks, NEW l \in ListingRows, Insert(t, l) PROVE RowsAgree'
  <2>1. /\ task[t] \in Creation /\ assertPricingShape(task[t].shape)
        /\ \A k \in ListingRows \ {l} : listing'[k] = listing[k]
        /\ listing'[l] = None \/ listing'[l] = Draft(task[t])
        /\ Created' \subseteq Created \cup {l} /\ Created \subseteq Created' /\ l \notin Created
    BY <1>2, InsertFacts
  <2>2. l \in Created' => assertPricingShape(listing'[l].shape) /\ Fits(listing'[l])
    <3>1. PICK body \in Creation : body = task[t]
      BY <2>1
    <3>2. /\ Draft(body).shape = body.shape /\ Draft(body).status = "DRAFT"
          /\ ~Draft(body).publishedAt /\ ~Draft(body).rejectionReason /\ ~Draft(body).suspensionReason
      BY DraftRow
    <3>3. l \in Created' => listing'[l] = Draft(body)
      BY <2>1, <3>1 DEF Created
    <3>4. QED
      BY <2>1, <3>1, <3>2, <3>3
  <2>3. \A k \in Created' \ {l} : k \in Created /\ listing'[k] = listing[k]
    BY <2>1 DEF Created
  <2>4. QED
    BY <1>a, <1>d, <2>1, <2>2, <2>3
<1>3. ASSUME NEW t \in Tasks, CommitMove(t) PROVE RowsAgree'
  <2>1. PICK l \in Live, op \in Moderations :
           /\ l \in Created /\ listing[l] \in Row /\ listing[l].status \in ALLOWED_FROM[op]
           /\ listing'[l] = Moved(listing[l], op)
           /\ \A k \in ListingRows \ {l} : listing'[k] = listing[k]
           /\ Created' = Created
    BY <1>3, MoveFacts
  <2>2. PICK row \in Row : row = listing[l]
    BY <2>1
  <2>3. /\ Moved(row, op).status = StatusAfter[op] /\ Moved(row, op).shape = row.shape
        /\ Moved(row, op).publishedAt <=> row.publishedAt \/ op = "approve"
        /\ Moved(row, op).rejectionReason
             <=> op = "reject" \/ (row.rejectionReason /\ op # "approve")
        /\ Moved(row, op).suspensionReason
             <=> op = "suspend" \/ (row.suspensionReason /\ op \notin {"approve", "unsuspend"})
    BY <2>1, <2>2, MovedRow, MovedFlags
  <2>4. Fits(row) /\ assertPricingShape(row.shape)
    BY <1>a, <2>1, <2>2
  <2>5. Fits(Moved(row, op))
    <3>1. /\ row.status \in ALLOWED_FROM[op] /\ row.publishedAt \in BOOLEAN
          /\ row.rejectionReason \in BOOLEAN /\ row.suspensionReason \in BOOLEAN
      BY <2>1, <2>2 DEF Row
    <3>2. QED
      BY <2>3, <2>4, <3>1, ModerationsAre
  <2>6. assertPricingShape(listing'[l].shape) /\ Fits(listing'[l])
    BY <2>1, <2>2, <2>3, <2>4, <2>5
  <2>7. \A k \in Created \ {l} : listing'[k] = listing[k]
    BY <2>1 DEF Created
  <2>8. QED
    BY <1>a, <1>d, <2>1, <2>6, <2>7
<1>4. ASSUME NEW l \in ListingRows, SoftDelete(l) PROVE RowsAgree'
  <2>1. /\ l \in Created /\ Created' = Created
        /\ \A k \in ListingRows \ {l} : listing'[k] = listing[k]
        /\ listing'[l].status = listing[l].status /\ listing'[l].shape = listing[l].shape
        /\ listing'[l].publishedAt = listing[l].publishedAt
        /\ listing'[l].rejectionReason = listing[l].rejectionReason
        /\ listing'[l].suspensionReason = listing[l].suspensionReason
    BY <1>4, SoftDeleteFacts
  <2>2. assertPricingShape(listing'[l].shape) /\ Fits(listing'[l])
    BY <1>a, <2>1
  <2>3. \A k \in Created \ {l} : listing'[k] = listing[k]
    BY <2>1 DEF Created
  <2>4. QED
    BY <1>a, <1>d, <2>1, <2>2, <2>3
<1>5. QED
  BY <1>1, <1>2, <1>3, <1>4, RowSteps

LEMMA NoticesKept ==
  ASSUME ListingsTypeOK, RequestsAgree, RowsAgree, NoticesFollow, [ListingsNext]_listingVars
  PROVE  NoticesFollow'
<1> SUFFICES ASSUME faults \cap {"mute", "rollback", "crash"} = {} PROVE NoticesFollow'
  BY FaultsStay DEF NoticesFollow
<1> DEFINE Follows(note, st) ==
      \/ note = None /\ st = "DRAFT"
      \/ note # None /\ \/ StatusAfter[note] = st
                        \/ note = "suspend" /\ st = "PUBLISHED"
<1>a. \A l \in Created : Follows(told[l], listing[l].status)
  BY DEF NoticesFollow
<1>b. ASSUME \A l \in Created' : Follows(told'[l], listing'[l].status) PROVE NoticesFollow'
  BY <1>b DEF NoticesFollow
<1>c. ~CrashListings /\ \A t \in Tasks : ~RollBackMove(t)
  BY DEF RollBackMove, CrashListings
<1>1. ASSUME NEW t \in Tasks, CommitMove(t) PROVE NoticesFollow'
  <2>1. PICK l \in Live, op \in Moderations :
           /\ l \in ListingRows /\ l \in Created /\ l = task[t].listing /\ op = task[t].op
           /\ listing[l] \in Row /\ listing[l].status \in ALLOWED_FROM[op]
           /\ listing'[l] = Moved(listing[l], op)
           /\ \A k \in ListingRows \ {l} : listing'[k] = listing[k]
           /\ Created' = Created
    BY <1>1, MoveFacts
  <2>2. PICK row \in Row : row = listing[l]
    BY <2>1
  <2>3. Moved(row, op).status = StatusAfter[op]
    BY <2>1, <2>2, MovedRow
  <2>4. listing'[l].status = StatusAfter[op]
    BY <2>1, <2>2, <2>3
  <2>5. told' = IF op \in Announced THEN [told EXCEPT ![l] = op] ELSE told
    BY <1>1, <2>1 DEF CommitMove, Notify
  <2>6. \A k \in Created \ {l} : told'[k] = told[k] /\ listing'[k] = listing[k]
    BY <2>1, <2>5 DEF Created, ListingsTypeOK
  <2>7. Follows(told'[l], listing'[l].status)
    <3>1. CASE op \in Announced
      <4>1. told'[l] = op /\ op # None
        BY <2>1, <2>5, <3>1, RequestTypes DEF ListingsTypeOK
      <4>2. QED
        BY <2>4, <4>1
    <3>2. CASE op \notin Announced
      <4>1. op = "unsuspend" /\ told'[l] = told[l] /\ told[l] \in Announced \cup {None}
        BY <2>1, <2>5, <3>2 DEF Announced, ListingsTypeOK
      <4>2. listing[l].status = "SUSPENDED" /\ listing'[l].status = "PUBLISHED"
        BY <2>1, <2>4, <4>1, ModerationsAre
      <4>3. Follows(told[l], "SUSPENDED")
        BY <1>a, <2>1, <4>2
      <4>4. told[l] # None /\ told[l] = "suspend"
        BY <4>1, <4>3, ModerationsAre DEF Announced
      <4>5. QED
        BY <4>1, <4>2, <4>4
    <3>3. QED
      BY <3>1, <3>2
  <2>8. QED
    BY <1>a, <1>b, <2>1, <2>6, <2>7
<1>2. ASSUME NEW t \in Tasks, NEW l \in ListingRows, Insert(t, l), UNCHANGED told PROVE NoticesFollow'
  <2>1. /\ task[t] \in Creation /\ \A k \in ListingRows \ {l} : listing'[k] = listing[k]
        /\ listing'[l] = None \/ listing'[l] = Draft(task[t])
        /\ Created' \subseteq Created \cup {l} /\ l \notin Created
    BY <1>2, InsertFacts
  <2>2. l \in Created' => listing'[l].status = "DRAFT"
    BY <2>1, DraftRow DEF Created
  <2>3. told'[l] = None
    BY <1>2, <2>1 DEF RowsAgree
  <2>4. \A k \in Created' \ {l} : k \in Created /\ listing'[k] = listing[k] /\ told'[k] = told[k]
    BY <1>2, <2>1 DEF Created
  <2>5. QED
    BY <1>a, <1>b, <2>2, <2>3, <2>4
<1>3. ASSUME NEW l \in ListingRows, SoftDelete(l), UNCHANGED told PROVE NoticesFollow'
  <2>1. /\ Created' = Created /\ listing'[l].status = listing[l].status
        /\ \A k \in ListingRows \ {l} : listing'[k] = listing[k]
    BY <1>3, SoftDeleteFacts
  <2>2. \A k \in Created : listing'[k].status = listing[k].status
    BY <2>1 DEF Created
  <2>3. QED
    BY <1>a, <1>b, <1>3, <2>1, <2>2
<1>4. ASSUME UNCHANGED <<listing, told>> PROVE NoticesFollow'
  <2>1. Created' = Created
    BY <1>4 DEF Created
  <2>2. QED
    BY <1>a, <1>b, <1>4, <2>1
<1>5. QED
  <2>1. (\E t \in Tasks : CommitMove(t)) \/ UNCHANGED told
    BY <1>c, ToldSteps
  <2>2. QED
    BY <1>1, <1>2, <1>3, <1>4, <2>1, RowSteps

-----------------------------------------------------------------------------
LEMMA TrailKept ==
  ASSUME ListingsTypeOK, RequestsAgree, RowsAgree, TrailFollows, [ListingsNext]_listingVars
  PROVE  TrailFollows'
<1> SUFFICES ASSUME faults \cap {"moderates", "crash"} = {} PROVE TrailFollows'
  BY FaultsStay DEF TrailFollows
<1> USE DEF ListingsTypeOK
<1> DEFINE Late(u) == taskAt[u] \in {"invalidate", "audit"}
           Follows(op, st) == IF op = None THEN st = "DRAFT" ELSE StatusAfter[op] = st
<1>a. /\ \A u, v \in Tasks :
           task[u] \in Moderation /\ task[v] \in Moderation /\ task[u].listing = task[v].listing
             => u = v
      /\ \A u \in Tasks : Late(u) => StatusAfter[task[u].op] = listing[task[u].listing].status
      /\ \A l \in Created : (\A u \in Tasks : Late(u) => task[u].listing # l) =>
           Follows(trail[l], listing[l].status)
  BY DEF TrailFollows
<1>b. \A u \in Tasks : Late(u) => task[u] \in Moderation /\ task[u].listing \in Created
  BY DEF RequestsAgree, ModeratesAt
\* Nothing is written, and nobody begins to moderate or to log.
<1>c. ASSUME \A u \in Tasks : task'[u] \in Moderation => task'[u] = task[u],
             \A u \in Tasks : Late(u)' <=> Late(u), \A u \in Tasks : Late(u) => task'[u] = task[u],
             Created' = Created, UNCHANGED trail,
             \A l \in Created : listing'[l].status = listing[l].status
      PROVE  TrailFollows'
  <2>1. \A u, v \in Tasks :
           task'[u] \in Moderation /\ task'[v] \in Moderation /\ task'[u].listing = task'[v].listing
             => u = v
    BY <1>a, <1>c
  <2>2. \A u \in Tasks : Late(u)' => StatusAfter[task'[u].op] = listing'[task'[u].listing].status
    BY <1>a, <1>b, <1>c
  <2>3. \A l \in Created' : (\A u \in Tasks : Late(u)' => task'[u].listing # l) =>
           Follows(trail'[l], listing'[l].status)
    BY <1>a, <1>c
  <2>4. QED
    BY <2>1, <2>2, <2>3 DEF TrailFollows
<1>d. UNCHANGED listing => Created' = Created /\ \A l \in Created : listing'[l].status = listing[l].status
  BY DEF Created
<1>1. ASSUME NEW t \in Tasks, NEW body \in Creation, BeginCreate(t, body) PROVE TrailFollows'
  BY <1>1, <1>c, <1>d, RequestTypes DEF BeginCreate, GoOn, notices
<1>2. ASSUME NEW t \in Tasks, NEW call \in Moderation, BeginModeration(t, call)
      PROVE  TrailFollows'
  <2>1. \A u \in Tasks : task[u] \in Moderation => task[u].listing # call.listing
    <3>1. Moderating(call.listing) = {}
      BY <1>2 DEF BeginModeration
    <3>2. QED
      BY <3>1, RequestTypes DEF Moderating
  <2>2. task' = [task EXCEPT ![t] = call] /\ taskAt' = [taskAt EXCEPT ![t] = "lock"]
        /\ taskAt[t] = "idle" /\ UNCHANGED <<listing, trail>>
    BY <1>2 DEF BeginModeration, GoOn, notices
  <2>3. \A u, v \in Tasks :
           task'[u] \in Moderation /\ task'[v] \in Moderation /\ task'[u].listing = task'[v].listing
             => u = v
    BY <1>a, <2>1, <2>2
  <2>4. \A u \in Tasks : Late(u)' <=> Late(u)
    BY <2>2
  <2>5. \A u \in Tasks : Late(u) => task'[u] = task[u]
    BY <2>2
  <2>6. \A u \in Tasks : Late(u)' => StatusAfter[task'[u].op] = listing'[task'[u].listing].status
    BY <1>a, <2>2, <2>4, <2>5
  <2>7. \A l \in Created' : (\A u \in Tasks : Late(u)' => task'[u].listing # l) =>
           Follows(trail'[l], listing'[l].status)
    BY <1>a, <1>d, <2>2, <2>4, <2>5
  <2>8. QED
    BY <2>3, <2>6, <2>7 DEF TrailFollows
<1>3. ASSUME NEW t \in Tasks, FindSlug(t) \/ CountListings(t) PROVE TrailFollows'
  <2>1. /\ taskAt[t] \in {"slug", "count"} /\ taskAt'[t] \in {"idle", "count", "insert"}
        /\ \A u \in Tasks \ {t} : taskAt'[u] = taskAt[u] /\ task'[u] = task[u]
        /\ task'[t] \in {task[t], None} /\ UNCHANGED <<listing, trail>>
    BY <1>3 DEF FindSlug, CountListings, GoOn, Answered, notices
  <2>2. QED
    BY <1>c, <1>d, <2>1, RequestTypes
<1>4. ASSUME NEW t \in Tasks, NEW l \in ListingRows, Insert(t, l) PROVE TrailFollows'
  <2>1. /\ task[t] \in Creation /\ \A k \in ListingRows \ {l} : listing'[k] = listing[k]
        /\ listing'[l] = None \/ listing'[l] = Draft(task[t])
        /\ Created' \subseteq Created \cup {l} /\ Created \subseteq Created' /\ l \notin Created
    BY <1>4, InsertFacts
  <2>2. /\ taskAt[t] = "insert" /\ taskAt'[t] = "idle" /\ task'[t] = None /\ UNCHANGED trail
        /\ \A u \in Tasks \ {t} : taskAt'[u] = taskAt[u] /\ task'[u] = task[u]
    BY <1>4 DEF Insert, GoOn, Answered, notices
  <2>3. \A u \in Tasks : Late(u)' => Late(u) /\ task'[u] = task[u]
    BY <2>2
  <2>4. \A u, v \in Tasks :
           task'[u] \in Moderation /\ task'[v] \in Moderation /\ task'[u].listing = task'[v].listing
             => u = v
    BY <1>a, <2>2, RequestTypes
  <2>5. \A u \in Tasks : Late(u)' => StatusAfter[task'[u].op] = listing'[task'[u].listing].status
    <3>1. ASSUME NEW u \in Tasks, Late(u)'
          PROVE  StatusAfter[task'[u].op] = listing'[task'[u].listing].status
      <4>1. Late(u) /\ task'[u] = task[u] /\ task[u].listing \in Created
        BY <1>b, <2>3, <3>1
      <4>2. task[u].listing \in ListingRows \ {l}
        BY <2>1, <4>1 DEF Created
      <4>3. QED
        BY <1>a, <2>1, <4>1, <4>2
    <3>2. QED
      BY <3>1
  <2>6. \A k \in Created' : (\A u \in Tasks : Late(u)' => task'[u].listing # k) =>
           Follows(trail'[k], listing'[k].status)
    <3>1. l \in Created' => trail'[l] = None /\ listing'[l].status = "DRAFT"
      BY <2>1, <2>2, DraftRow DEF RowsAgree, Created
    <3>2. \A k \in Created' \ {l} : k \in Created /\ listing'[k] = listing[k]
      BY <2>1 DEF Created
    <3>3. \A u \in Tasks : Late(u) => Late(u)' /\ task'[u] = task[u]
      BY <2>2
    <3>4. QED
      BY <1>a, <2>2, <3>1, <3>2, <3>3
  <2>7. QED
    BY <2>4, <2>5, <2>6 DEF TrailFollows
<1>5. ASSUME NEW t \in Tasks, LockAndLoad(t) \/ RollBackMove(t) PROVE TrailFollows'
  <2>1. /\ taskAt[t] \in {"lock", "update"} /\ taskAt'[t] \in {"idle", "update"}
        /\ \A u \in Tasks \ {t} : taskAt'[u] = taskAt[u] /\ task'[u] = task[u]
        /\ task'[t] \in {task[t], None} /\ UNCHANGED <<listing, trail>>
    BY <1>5 DEF LockAndLoad, RollBackMove, GoOn, Answered, notices
  <2>2. QED
    BY <1>c, <1>d, <2>1, RequestTypes
<1>6. ASSUME NEW t \in Tasks, CommitMove(t) PROVE TrailFollows'
  <2>1. PICK l \in Live, op \in Moderations :
           /\ task[t] \in Moderation /\ l \in ListingRows /\ l \in Created
           /\ l = task[t].listing /\ op = task[t].op /\ listing[l] \in Row
           /\ listing'[l] = Moved(listing[l], op)
           /\ \A k \in ListingRows \ {l} : listing'[k] = listing[k]
           /\ Created' = Created
    BY <1>6, MoveFacts
  <2>2. listing'[l].status = StatusAfter[op]
    <3>1. PICK row \in Row : row = listing[l]
      BY <2>1
    <3>2. Moved(row, op).status = StatusAfter[op]
      BY <2>1, <3>1, MovedRow
    <3>3. QED
      BY <2>1, <3>1, <3>2
  <2>3. /\ UNCHANGED <<task, trail>> /\ Late(t)'
        /\ \A u \in Tasks \ {t} : taskAt'[u] = taskAt[u]
    BY <1>6 DEF CommitMove, GoOn, notices
  <2>4. \A u \in Tasks \ {t} : task[u] \in Moderation => task[u].listing # l
    BY <1>a, <2>1
  <2>5. \A u \in Tasks : Late(u)' => StatusAfter[task[u].op] = listing'[task[u].listing].status
    <3>1. ASSUME NEW u \in Tasks \ {t}, Late(u)'
          PROVE  StatusAfter[task[u].op] = listing'[task[u].listing].status
      <4>1. Late(u) /\ task[u] \in Moderation /\ task[u].listing \in Created
        BY <1>b, <2>3, <3>1
      <4>2. task[u].listing \in ListingRows \ {l}
        BY <2>4, <4>1 DEF Created
      <4>3. QED
        BY <1>a, <2>1, <4>1, <4>2
    <3>2. QED
      BY <2>1, <2>2, <3>1
  <2>6. \A k \in Created : (\A u \in Tasks : Late(u)' => task[u].listing # k) =>
           Follows(trail[k], listing'[k].status)
    <3>1. ASSUME NEW k \in Created, \A u \in Tasks : Late(u)' => task[u].listing # k
          PROVE  Follows(trail[k], listing'[k].status)
      <4>1. k # l
        BY <2>1, <2>3, <3>1
      <4>2. listing'[k] = listing[k]
        BY <2>1, <4>1 DEF Created
      <4>3. \A u \in Tasks : Late(u) => task[u].listing # k
        BY <2>1, <2>3, <3>1, <4>1
      <4>4. QED
        BY <1>a, <4>2, <4>3
    <3>2. QED
      BY <3>1
  <2>7. QED
    BY <1>a, <2>1, <2>3, <2>5, <2>6 DEF TrailFollows
<1>7. ASSUME NEW t \in Tasks, Invalidate(t) PROVE TrailFollows'
  <2>1. /\ taskAt[t] = "invalidate" /\ taskAt'[t] = "audit" /\ UNCHANGED <<listing, task, trail>>
        /\ \A u \in Tasks \ {t} : taskAt'[u] = taskAt[u]
    BY <1>7 DEF Invalidate, GoOn, notices
  <2>2. QED
    BY <1>c, <1>d, <2>1
<1>8. ASSUME NEW t \in Tasks, LogMove(t) PROVE TrailFollows'
  <2>1. PICK l \in Created : l = task[t].listing
    BY <1>8, <1>b DEF LogMove
  <2>2. /\ task[t] \in Moderation /\ task[t].op \in Moderations /\ task[t].op # None
        /\ StatusAfter[task[t].op] = listing[l].status
    BY <1>8, <1>a, <1>b, <2>1, RequestTypes DEF LogMove
  <2>3. /\ taskAt'[t] = "idle" /\ task'[t] = None /\ UNCHANGED listing
        /\ trail' = [trail EXCEPT ![l] = task[t].op]
        /\ \A u \in Tasks \ {t} : taskAt'[u] = taskAt[u] /\ task'[u] = task[u]
    BY <1>8, <2>1 DEF LogMove, GoOn, Answered
  <2>4. Follows(trail'[l], listing'[l].status)
    BY <2>1, <2>2, <2>3 DEF Created
  <2>5. \A u \in Tasks : Late(u)' => Late(u) /\ task'[u] = task[u]
    BY <2>3
  <2>6. \A u, v \in Tasks :
           task'[u] \in Moderation /\ task'[v] \in Moderation /\ task'[u].listing = task'[v].listing
             => u = v
    BY <1>a, <2>3, RequestTypes
  <2>7. \A u \in Tasks : Late(u)' => StatusAfter[task'[u].op] = listing'[task'[u].listing].status
    BY <1>a, <2>3, <2>5
  <2>8. \A k \in Created' : (\A u \in Tasks : Late(u)' => task'[u].listing # k) =>
           Follows(trail'[k], listing'[k].status)
    <3>1. ASSUME NEW k \in Created, k # l, \A u \in Tasks : Late(u)' => task'[u].listing # k
          PROVE  Follows(trail'[k], listing'[k].status)
      <4>1. \A u \in Tasks : Late(u) => task[u].listing # k
        BY <2>1, <2>3, <3>1
      <4>2. trail'[k] = trail[k] /\ listing'[k] = listing[k]
        BY <2>3, <3>1 DEF Created
      <4>3. QED
        BY <1>a, <4>1, <4>2
    <3>2. Created' = Created
      BY <1>d, <2>3
    <3>3. QED
      BY <2>4, <3>1, <3>2
  <2>9. QED
    BY <2>6, <2>7, <2>8 DEF TrailFollows
<1>9. ASSUME NEW l \in ListingRows, SoftDelete(l) PROVE TrailFollows'
  <2>1. /\ Created' = Created /\ listing'[l].status = listing[l].status
        /\ \A k \in ListingRows \ {l} : listing'[k] = listing[k]
    BY <1>9, SoftDeleteFacts
  <2>2. \A k \in Created : listing'[k].status = listing[k].status
    BY <2>1 DEF Created
  <2>3. UNCHANGED <<task, taskAt, trail>>
    BY <1>9 DEF SoftDelete, notices
  <2>4. QED
    BY <1>c, <2>1, <2>2, <2>3
<1>10. ASSUME UNCHANGED <<listing, task, taskAt, trail>> PROVE TrailFollows'
  BY <1>c, <1>d, <1>10
<1>11. QED
  <2>1. ASSUME NEW s \in Sections, ComputeSection(s) \/ ExpireSection(s)
        PROVE  UNCHANGED <<listing, task, taskAt, trail>>
    BY <2>1 DEF ComputeSection, ExpireSection, notices
  <2>2. StoreSection \/ UNCHANGED listingVars => UNCHANGED <<listing, task, taskAt, trail>>
    BY DEF StoreSection, listingVars, notices
  <2>3. ~CrashListings
    BY DEF CrashListings
  <2>4. QED
    BY <1>1, <1>2, <1>3, <1>4, <1>5, <1>6, <1>7, <1>8, <1>9, <1>10, <2>1, <2>2, <2>3
    DEF ListingsNext, TaskStep

LEMMA SectionsKept ==
  ASSUME ListingsTypeOK, RequestsAgree, SectionsFollow, [ListingsNext]_listingVars
  PROVE  SectionsFollow'
<1> SUFFICES ASSUME faults \cap {"race", "redis", "crash", "delete"} = {} PROVE SectionsFollow'
  BY FaultsStay DEF SectionsFollow
<1> USE DEF ListingsTypeOK
<1> DEFINE Waiting == At("invalidate")
<1>a. /\ Waiting # {} => reader = None
      /\ Waiting = {} => /\ reader # None => reader.found \in Selects(reader.section)
                         /\ \A s \in Sections : sections[s] \in Selects(s) \cup {None}
  BY DEF SectionsFollow
<1>b. ASSUME Waiting' # {} => reader' = None,
             Waiting' = {} => /\ reader' # None => reader'.found \in Selects(reader.section)'
                              /\ \A s \in Sections : sections'[s] \in Selects(s)' \cup {None}
      PROVE  SectionsFollow'
  BY <1>b DEF SectionsFollow
\* Neither what a query finds nor what waits is touched.
<1>c. ASSUME \A u \in Tasks : taskAt'[u] = "invalidate" <=> taskAt[u] = "invalidate",
             Published' = Published, Traded' = Traded, UNCHANGED <<sections, reader>>
      PROVE  SectionsFollow'
  <2>1. Waiting' = Waiting
    BY <1>c DEF At
  <2>2. \A s \in Sections : Selects(s)' = Selects(s)
    BY <1>c DEF Selects
  <2>3. reader # None => reader.section \in Sections
    OBVIOUS
  <2>4. QED
    BY <1>a, <1>b, <1>c, <2>1, <2>2, <2>3
<1>d. UNCHANGED listing => Published' = Published /\ Traded' = Traded
  BY DEF Published, Traded, Live, Created
<1>e. UNCHANGED listing => \A s \in Sections : Selects(s)' = Selects(s)
  BY <1>d DEF Selects
<1>1. ASSUME NEW t \in Tasks, NEW body \in Creation, BeginCreate(t, body) PROVE SectionsFollow'
  BY <1>1, <1>c, <1>d DEF BeginCreate, GoOn, caches
<1>2. ASSUME NEW t \in Tasks, NEW call \in Moderation, BeginModeration(t, call)
      PROVE  SectionsFollow'
  BY <1>2, <1>c, <1>d DEF BeginModeration, GoOn, caches
<1>3. ASSUME NEW t \in Tasks, FindSlug(t) \/ CountListings(t) \/ LockAndLoad(t) \/ RollBackMove(t)
                              \/ LogMove(t)
      PROVE  SectionsFollow'
  BY <1>3, <1>c, <1>d
  DEF FindSlug, CountListings, LockAndLoad, RollBackMove, LogMove, GoOn, Answered, caches
<1>4. ASSUME NEW t \in Tasks, NEW l \in ListingRows, Insert(t, l) PROVE SectionsFollow'
  <2>1. /\ task[t] \in Creation /\ \A k \in ListingRows \ {l} : listing'[k] = listing[k]
        /\ listing'[l] = None \/ listing'[l] = Draft(task[t])
        /\ l \notin Created
    BY <1>4, InsertFacts
  <2>2. listing'[l] # None => listing'[l].status = "DRAFT" /\ ~listing'[l].publishedAt
    BY <2>1, DraftRow
  <2>3. Published' = Published
    BY <1>4, <2>1, <2>2 DEF Published, Live, Created, Insert
  <2>4. Traded' = Traded
    BY <1>4, <2>1, <2>2 DEF Traded, Live, Created, Insert
  <2>5. QED
    BY <1>4, <1>c, <2>3, <2>4 DEF Insert, GoOn, Answered, caches
<1>5. ASSUME NEW t \in Tasks, CommitMove(t) PROVE SectionsFollow'
  <2>1. PICK l \in Live, op \in Moderations :
           /\ task[t] \in Moderation /\ l \in ListingRows /\ l \in Created
           /\ l = task[t].listing /\ op = task[t].op /\ listing[l] \in Row
           /\ listing[l].status \in ALLOWED_FROM[op]
           /\ listing'[l] = Moved(listing[l], op)
           /\ \A k \in ListingRows \ {l} : listing'[k] = listing[k]
           /\ Created' = Created
    BY <1>5, MoveFacts
  <2>2. reader = None /\ UNCHANGED <<sections, reader>> /\ taskAt[t] = "update"
        /\ taskAt' = [taskAt EXCEPT ![t] = IF op \in Invalidates THEN "invalidate" ELSE "audit"]
    BY <1>5, <2>1 DEF CommitMove, GoOn, caches
  <2>3. CASE op \in Invalidates
    <3>1. t \in Waiting'
      BY <2>2, <2>3 DEF At
    <3>2. QED
      BY <1>b, <2>2, <3>1
  <2>4. CASE op \notin Invalidates
    <3>1. listing[l].status # "PUBLISHED" /\ StatusAfter[op] # "PUBLISHED"
      BY <2>1, <2>4, ModerationsAre DEF Invalidates
    <3>2. /\ listing'[l].status = StatusAfter[op]
          /\ listing'[l].publishedAt = listing[l].publishedAt
          /\ listing'[l].deleted = listing[l].deleted
      <4>1. PICK row \in Row : row = listing[l]
        BY <2>1
      <4>2. /\ Moved(row, op).status = StatusAfter[op] /\ Moved(row, op).deleted = row.deleted
            /\ Moved(row, op).publishedAt <=> row.publishedAt
        BY <2>1, <2>4, <4>1, MovedRow, MovedFlags DEF Invalidates
      <4>3. Moved(row, op) \in Row
        BY <2>1, <4>1, MovedRow
      <4>4. Moved(row, op).publishedAt = row.publishedAt
        BY <4>2, <4>3 DEF Row
      <4>5. QED
        BY <2>1, <4>1, <4>2, <4>4
    <3>3. Published' = Published
      BY <2>1, <3>1, <3>2 DEF Published, Live, Created
    <3>4. Traded' = Traded
      BY <2>1, <3>2 DEF Traded, Live, Created
    <3>5. QED
      BY <1>c, <2>2, <2>4, <3>3, <3>4
  <2>5. QED
    BY <2>3, <2>4
<1>6. ASSUME NEW t \in Tasks, Invalidate(t) PROVE SectionsFollow'
  <2>1. t \in Waiting /\ reader = None
    BY <1>6, <1>a DEF Invalidate, At
  <2>2. reader' = None /\ \A s \in Sections : sections'[s] = None
    BY <1>6, <2>1 DEF Invalidate
  <2>3. QED
    BY <1>b, <2>2
<1>7. ASSUME NEW s \in Sections, ComputeSection(s) PROVE SectionsFollow'
  <2>1. Waiting = {} /\ UNCHANGED <<listing, taskAt, sections>>
    BY <1>7 DEF ComputeSection
  <2>2. PICK found \in Selects(s) : reader' = [section |-> s, found |-> found]
    BY <1>7 DEF ComputeSection
  <2>3. Waiting' = {} /\ \A r \in Sections : Selects(r)' = Selects(r)
    BY <1>e, <2>1 DEF At
  <2>4. reader'.found \in Selects(reader.section)'
    BY <2>2, <2>3
  <2>5. QED
    BY <1>a, <1>b, <2>1, <2>3, <2>4
<1>8. ASSUME StoreSection PROVE SectionsFollow'
  <2>1. /\ reader # None /\ reader' = None /\ UNCHANGED <<listing, taskAt>>
        /\ sections' = [sections EXCEPT ![reader.section] = reader.found]
    BY <1>8 DEF StoreSection
  <2>2. Waiting = {} /\ reader.section \in Sections /\ reader.found \in Selects(reader.section)
    BY <1>a, <2>1
  <2>3. Waiting' = {} /\ \A s \in Sections : Selects(s)' = Selects(s)
    BY <1>e, <2>1, <2>2 DEF At
  <2>4. \A s \in Sections : sections'[s] = sections[s] \/ sections'[s] \in Selects(s)
    BY <2>1, <2>2
  <2>5. QED
    BY <1>a, <1>b, <2>1, <2>2, <2>3, <2>4
<1>9. ASSUME NEW s \in Sections, ExpireSection(s) PROVE SectionsFollow'
  <2>1. sections' = [sections EXCEPT ![s] = None] /\ UNCHANGED <<listing, taskAt, reader>>
    BY <1>9 DEF ExpireSection
  <2>2. Waiting' = Waiting /\ \A r \in Sections : Selects(r)' = Selects(r)
    BY <1>e, <2>1 DEF At
  <2>3. \A r \in Sections : sections'[r] \in {sections[r], None}
    BY <2>1
  <2>4. reader # None => reader.section \in Sections
    OBVIOUS
  <2>5. QED
    BY <1>a, <1>b, <2>1, <2>2, <2>3, <2>4
<1>10. CASE UNCHANGED listingVars
  BY <1>c, <1>d, <1>10 DEF listingVars
<1>11. QED
  <2>1. ~CrashListings /\ \A l \in ListingRows : ~SoftDelete(l)
    BY DEF CrashListings, SoftDelete
  <2>2. QED
    BY <1>1, <1>2, <1>3, <1>4, <1>5, <1>6, <1>7, <1>8, <1>9, <1>10, <2>1 DEF ListingsNext, TaskStep

-----------------------------------------------------------------------------
LEMMA ListingsNextKeepsInv ==
  ASSUME ListingsInv, [ListingsNext]_listingVars
  PROVE  ListingsInv'
BY ListingsTypeKept, RequestsKept, CountsKept, RowsKept, NoticesKept, TrailKept, SectionsKept
DEF ListingsInv

LEMMA ListingsInvHolds == ListingsSpec => []ListingsInv
<1>1. ListingsInv /\ [ListingsNext]_listingVars => ListingsInv'
  BY ListingsNextKeepsInv
<1>2. QED
  BY InitIsListingsInv, <1>1, PTL DEF ListingsSpec

\* The checks of the controller and of the service are the same.
LEMMA ValidatorsAccept ==
  ASSUME NEW shape \in ShapeType
  PROVE  /\ SchemaAccepts(shape) => assertPricingShape(shape)
         /\ assertPricingShape(shape) => assertSubmissionReady(shape)
<1>1. shape.type = "PER_RUN" \/ shape.type = "ONE_TIME" \/ shape.type = "FREE"
  BY DEF ShapeType, PricingTypes
<1>2. CASE shape.type = "PER_RUN"
  BY <1>2 DEF SchemaAccepts, assertPricingShape, assertSubmissionReady, PackCount
<1>3. CASE shape.type = "ONE_TIME"
  BY <1>3 DEF SchemaAccepts, assertPricingShape, assertSubmissionReady, PackCount
<1>4. CASE shape.type = "FREE"
  BY <1>4 DEF SchemaAccepts, assertPricingShape, assertSubmissionReady, PackCount
<1>5. QED
  BY <1>1, <1>2, <1>3, <1>4

\* And what passes them can be sold.
LEMMA SellableShape ==
  ASSUME NEW shape \in ShapeType, assertPricingShape(shape)
  PROVE  /\ shape.price # None => shape.price > 0
         /\ PackCount(shape) > 0 => shape.positive
         /\ shape.type = "FREE" => shape.price = None /\ PackCount(shape) = 0
         /\ shape.type # "FREE" => shape.price # None \/ PackCount(shape) > 0
<1>1. shape.type = "PER_RUN" \/ shape.type = "ONE_TIME" \/ shape.type = "FREE"
  BY DEF ShapeType, PricingTypes
<1>2. CASE shape.type = "PER_RUN"
  <2>1. PackCount(shape) \in 1 .. 5 /\ shape.positive /\ shape.price = None
    BY <1>2 DEF assertPricingShape, RunPacksMin, RunPacksMax
  <2>2. QED
    BY <1>2, <2>1
<1>3. CASE shape.type = "ONE_TIME"
  <2>1. shape.price # None /\ shape.price > 0 /\ PackCount(shape) = 0
    BY <1>3 DEF assertPricingShape
  <2>2. QED
    BY <1>3, <2>1
<1>4. CASE shape.type = "FREE"
  <2>1. shape.price = None /\ PackCount(shape) = 0
    BY <1>4 DEF assertPricingShape
  <2>2. QED
    BY <1>4, <2>1
<1>5. QED
  BY <1>1, <1>2, <1>3, <1>4

LEMMA InvMeansModerationAgrees == ListingsInv => ModerationAgrees
<1> SUFFICES ASSUME ListingsInv PROVE ModerationAgrees
  OBVIOUS
<1> USE DEF ListingsInv
<1>1. \A l \in Created : listing[l] \in Row /\ listing[l].shape \in ShapeType
                         /\ assertPricingShape(listing[l].shape)
  BY ListingsAssumption DEF ListingsTypeOK, Created, Row, RowsAgree
<1>2. ValidatorsAgree
  BY <1>1, ListingsAssumption, ValidatorsAccept DEF ValidatorsAgree
<1>3. QueuedIsSellable
  BY <1>1, SellableShape DEF QueuedIsSellable
<1>4. QuotaKept
  BY DEF CountsAgree, QuotaKept
<1>5. ReasonsFitStatus
  BY DEF RowsAgree
<1>6. NoticeFitsStatus
  BY DEF NoticesFollow, NoticeFitsStatus
<1>7. TrailFitsStatus
  <2>1. ASSUME NEW l \in Created, faults \cap {"moderates", "crash"} = {}, Moderating(l) = {}
        PROVE  IF trail[l] = None THEN listing[l].status = "DRAFT"
                                  ELSE StatusAfter[trail[l]] = listing[l].status
    <3>1. \A t \in Tasks : taskAt[t] \in {"invalidate", "audit"} => task[t].listing # l
      <4>1. \A t \in Tasks : taskAt[t] \in {"invalidate", "audit"} => task[t] \in Moderation
        BY DEF RequestsAgree, ModeratesAt
      <4>2. QED
        BY <2>1, <4>1, RequestTypes DEF Moderating
    <3>2. QED
      BY <2>1, <3>1 DEF TrailFollows
  <2>2. QED
    BY <2>1 DEF TrailFitsStatus
<1>8. QED
  BY <1>2, <1>3, <1>4, <1>5, <1>6, <1>7 DEF ModerationAgrees

\* (agents/services/listings.service.ts) However makers and moderators interleave, what is told
\* of a listing is true.
THEOREM ModerationAlwaysAgrees == ListingsSpec => []ModerationAgrees
BY ListingsInvHolds, InvMeansModerationAgrees, PTL

\* (listings.service.ts, getCachedSection and invalidateSectionCaches) A cached section holds
\* what its query finds, but between a change and its invalidation: a shelf what is
\* published, a feed listings that have been and are not deleted.
THEOREM SectionsStayFresh == ListingsSpec => []SectionsAreFresh
<1>1. ListingsInv => SectionsAreFresh
  BY DEF ListingsInv, SectionsFollow, SectionsAreFresh
<1>2. QED
  BY ListingsInvHolds, <1>1, PTL

\* (listings.service.ts, softDelete and lockAndLoad) A deleted listing does not change any more,
\* although a moderator may have begun before it was deleted.
THEOREM DeletedListingsAreFrozen == ListingsSpec => DeletedIsFrozen
<1>1. ASSUME ListingsInv, [ListingsNext]_listingVars
      PROVE  \A l \in ListingRows :
               l \in Created /\ listing[l].deleted => listing'[l] = listing[l]
  <2> SUFFICES ASSUME NEW l \in ListingRows, l \in Created, listing[l].deleted
               PROVE  listing'[l] = listing[l]
    OBVIOUS
  <2>1. ListingsTypeOK /\ RequestsAgree /\ l \notin Live
    BY <1>1 DEF ListingsInv, Live
  <2>2. ASSUME NEW t \in Tasks, NEW k \in ListingRows, Insert(t, k) PROVE listing'[l] = listing[l]
    BY <2>1, <2>2, InsertFacts
  <2>3. ASSUME NEW t \in Tasks, CommitMove(t) PROVE listing'[l] = listing[l]
    BY <2>1, <2>3, MoveFacts
  <2>4. ASSUME NEW k \in ListingRows, SoftDelete(k) PROVE listing'[l] = listing[l]
    BY <2>1, <2>4, SoftDeleteFacts
  <2>5. QED
    BY <1>1, <2>2, <2>3, <2>4, RowSteps
<1>2. QED
  BY ListingsInvHolds, <1>1, PTL DEF ListingsSpec, DeletedIsFrozen


-----------------------------------------------------------------------------
(***************************************************************************)
(* Browse. BrowseInv says that what a catalog has shown ends at the        *)
(* cursor, that what a search has shown is what comes first while nothing  *)
(* was published or archived, and that what is open to be read was shown   *)
(* or bought.                                                              *)
(***************************************************************************)
\* The order of the catalog and of a search: the key, then the id.
ByKey == {p \in Ids \X Ids : Before(p[1], p[2])}
\* What the visitor of a page has not been shown yet, when the order is that of the ids.
Unread == {i \in shelf : visitor.cursor # None => i < visitor.cursor}

\* The catalog is read down to its cursor, where the order is that of the ids.
CatalogToCursor ==
  visitor.reads = "catalog" /\ faults \cap BrowseFaults \subseteq {"substring"} =>
    /\ FollowsIds(sortKey)
    /\ ~visitor.twice
    /\ IF visitor.ended THEN visitor.shown = shelf ELSE visitor.shown = shelf \ Unread
\* A search that the full text answers alone is read down to its offset.
SearchToOffset ==
  visitor.reads = "search" /\ faults \cap BrowseFaults \subseteq {"order"} =>
    /\ substring = {}
    /\ ~visitor.twice
    /\ visitor.shown = IF visitor.ended THEN worded \cap shelf
                       ELSE First(worded \cap shelf, visitor.offset)
\* Without moderators what was shown is still there.
ShownStays == "moderate" \notin faults => visitor.shown \subseteq shelf

\* The inductive invariant.
BrowseInv == BrowseTypeOK /\ CatalogToCursor /\ SearchToOffset /\ ShownStays

LEMMA KeyOrders ==
  ASSUME BrowseTypeOK, NEW S \in SUBSET Ids
  PROVE  /\ IsFiniteSet(S) /\ Orders(ByKey, S)
         /\ \A i, j \in Ids : <<i, j>> \in ByKey <=> Before(i, j)
<1>1. IsFiniteSet(S)
  BY BrowseAssumption, FS_Subset
<1>2. \A i, j \in Ids : <<i, j>> \in ByKey <=> Before(i, j)
  BY DEF ByKey
<1>3. \A i \in Ids : i \in Nat /\ sortKey[i] \in Nat
  BY BrowseAssumption DEF BrowseTypeOK
<1>4. \A i, j, k \in Ids : /\ ~Before(i, i)
                             /\ (Before(i, j) /\ Before(j, k) => Before(i, k))
                             /\ (i = j \/ Before(i, j) \/ Before(j, i))
  BY <1>3 DEF Before
<1>5. Orders(ByKey, S)
  BY <1>2, <1>4 DEF Orders
<1>6. QED
  BY <1>1, <1>2, <1>5

LEMMA FirstIsForemost ==
  ASSUME BrowseTypeOK, NEW S \in SUBSET Ids, NEW n
  PROVE  First(S, n) = Foremost(ByKey, S, n)
<1>1. ASSUME NEW i \in S PROVE {j \in S : Before(j, i)} = Earlier(ByKey, S, i)
  BY KeyOrders DEF Earlier
<1>2. QED
  BY <1>1 DEF First, Foremost

\* A page read with one more row than it shows: it shows all that there is, or has a last one
\* down to which it shows everything.
LEMMA PageIs ==
  ASSUME BrowseTypeOK, NEW S \in SUBSET Ids
  PROVE  LET found == First(S, PageLimit + 1)
             items == First(found, PageLimit)
         IN /\ items = First(S, PageLimit) /\ items \subseteq S /\ found \subseteq S
            /\ items = found => items = S
            /\ items # found => /\ Last(items) \in items
                                /\ \A i \in items : ~Before(Last(items), i)
                                /\ \A i \in S : Before(i, Last(items)) => i \in items
<1> DEFINE found == First(S, PageLimit + 1)
           items == First(found, PageLimit)
<1>1. PageLimit \in Nat /\ PageLimit + 1 \in Nat /\ PageLimit > 0
  BY BrowseAssumption
<1>2. IsFiniteSet(S) /\ Orders(ByKey, S)
  BY KeyOrders
<1>3. found = Foremost(ByKey, S, PageLimit + 1) /\ found \subseteq S
  BY FirstIsForemost DEF Foremost
<1>4. items = Foremost(ByKey, S, PageLimit) /\ items \subseteq S
  <2> HIDE DEF found
  <2>1. items = Foremost(ByKey, found, PageLimit)
    BY <1>3, FirstIsForemost
  <2>2. Foremost(ByKey, found, PageLimit) = Foremost(ByKey, S, PageLimit)
    BY <1>1, <1>2, <1>3, ForemostOfForemost
  <2>3. QED
    BY <2>1, <2>2 DEF Foremost
<1>5. items = First(S, PageLimit)
  BY <1>4, FirstIsForemost
<1> HIDE DEF found, items
<1>6. items = found => items = S
  BY <1>1, <1>2, <1>3, <1>4, NothingBeyond
<1>7. ASSUME items # found
      PROVE  /\ Last(items) \in items
             /\ \A i \in items : ~Before(Last(items), i)
             /\ \A i \in S : Before(i, Last(items)) => i \in items
  <2>1. items # {}
    <3>1. SUFFICES ASSUME items = {} PROVE FALSE
      OBVIOUS
    <3>2. Foremost(ByKey, S, PageLimit) # S
      BY <1>3, <1>4, <1>7, <3>1
    <3>3. Cardinality(items) = PageLimit
      BY <1>1, <1>2, <1>4, <3>2, ForemostIsFull
    <3>4. QED
      BY <1>1, <3>1, <3>3, FS_EmptySet
  <2>2. items \in SUBSET Ids
    BY <1>4
  <2>3. IsFiniteSet(items) /\ Orders(ByKey, items)
    BY <2>2, KeyOrders
  <2>4. PICK i \in items : \A j \in items : <<i, j>> \notin ByKey
    BY <2>1, <2>3, LastExists
  <2>5. \A j \in items : ~Before(i, j)
    BY <2>2, <2>4, KeyOrders
  <2>6. Last(items) \in items /\ \A j \in items : ~Before(Last(items), j)
    BY <2>5 DEF Last
  <2>7. ASSUME NEW j \in S, Before(j, Last(items)) PROVE j \in items
    <3>1. <<j, Last(items)>> \in ByKey
      BY <2>2, <2>6, <2>7, KeyOrders
    <3>2. QED
      BY <1>1, <1>2, <1>4, <2>6, <3>1, ForemostIsFirst
  <2>8. QED
    BY <2>6, <2>7
<1>8. QED
  BY <1>3, <1>4, <1>5, <1>6, <1>7 DEF items, found

LEMMA ShowIs ==
  ASSUME visitor \in Visitors, NEW items, NEW more \in BOOLEAN, Show(items, more)
  PROVE  /\ visitor'.reads = visitor.reads /\ visitor'.shown = visitor.shown \cup items
         /\ visitor'.twice = (visitor.twice \/ items \cap visitor.shown # {})
         /\ visitor'.ended = ~more
         /\ visitor'.cursor = IF more /\ visitor.reads = "catalog" THEN Last(items)
                              ELSE visitor.cursor
         /\ visitor'.offset = IF more /\ visitor.reads = "search" THEN visitor.offset + PageLimit
                              ELSE visitor.offset
         /\ items \subseteq Ids /\ (more /\ visitor.reads = "catalog" => Last(items) \in items)
            => visitor' \in Visitors
<1>1. PageLimit \in Nat
  BY BrowseAssumption
<1>2. visitor' = [visitor EXCEPT !.shown = visitor.shown \cup items,
                                !.twice = visitor.twice \/ items \cap visitor.shown # {},
                                !.ended = ~more,
                                !.cursor = IF more /\ visitor.reads = "catalog"
                                           THEN Last(items) ELSE visitor.cursor,
                                !.offset = IF more /\ visitor.reads = "search"
                                           THEN visitor.offset + PageLimit ELSE visitor.offset]
  BY DEF Show
<1>3. /\ visitor = [reads |-> visitor.reads, cursor |-> visitor.cursor, offset |-> visitor.offset,
                    shown |-> visitor.shown, twice |-> visitor.twice, ended |-> visitor.ended]
      /\ visitor.reads \in {"catalog", "search"} /\ visitor.cursor \in Ids \cup {None}
      /\ visitor.offset \in Nat /\ visitor.shown \subseteq Ids /\ visitor.twice \in BOOLEAN
  BY DEF Visitors
<1>4. visitor' = [reads |-> visitor.reads,
                  cursor |-> IF more /\ visitor.reads = "catalog" THEN Last(items)
                             ELSE visitor.cursor,
                  offset |-> IF more /\ visitor.reads = "search" THEN visitor.offset + PageLimit
                             ELSE visitor.offset,
                  shown |-> visitor.shown \cup items,
                  twice |-> (visitor.twice \/ items \cap visitor.shown # {}),
                  ended |-> ~more]
  BY <1>2, <1>3, Zenon
<1>5. /\ visitor'.reads = visitor.reads /\ visitor'.shown = visitor.shown \cup items
      /\ visitor'.twice = (visitor.twice \/ items \cap visitor.shown # {})
      /\ visitor'.ended = ~more
      /\ visitor'.cursor = IF more /\ visitor.reads = "catalog" THEN Last(items)
                           ELSE visitor.cursor
      /\ visitor'.offset = IF more /\ visitor.reads = "search" THEN visitor.offset + PageLimit
                           ELSE visitor.offset
  BY <1>4, Zenon
<1>6. ASSUME items \subseteq Ids, more /\ visitor.reads = "catalog" => Last(items) \in items
      PROVE  visitor' \in Visitors
  <2> DEFINE c == IF more /\ visitor.reads = "catalog" THEN Last(items) ELSE visitor.cursor
             o == IF more /\ visitor.reads = "search" THEN visitor.offset + PageLimit
                  ELSE visitor.offset
             w == visitor.shown \cup items
             t == (visitor.twice \/ items \cap visitor.shown # {})
             e == ~more
  <2>1. c \in Ids \cup {None} /\ w \in SUBSET Ids
    BY <1>3, <1>6
  <2>2. o \in Nat
    BY <1>1, <1>3
  <2>3. t \in BOOLEAN /\ e \in BOOLEAN
    OBVIOUS
  <2>4. visitor' = [reads |-> visitor.reads, cursor |-> c, offset |-> o, shown |-> w, twice |-> t,
                    ended |-> e]
    BY <1>4
  <2> HIDE DEF c, o, w, t, e
  <2>5. QED
    BY <1>3, <2>1, <2>2, <2>3, <2>4 DEF Visitors
<1>7. QED
  BY <1>5, <1>6

LEMMA BrowseStart == BrowseInit => BrowseInv
<1>1. SUFFICES ASSUME BrowseInit PROVE BrowseInv
  OBVIOUS
<1>2. visitor \in Visitors /\ visitor.cursor = None /\ visitor.offset = 0 /\ visitor.shown = {}
      /\ ~visitor.twice /\ ~visitor.ended
  <2>1. visitor \in [reads : {"catalog", "search"}, cursor : {None}, offset : {0},
                     shown : {{}}, twice : {FALSE}, ended : {FALSE}]
    BY <1>1 DEF BrowseInit
  <2>2. /\ visitor = [reads |-> visitor.reads, cursor |-> visitor.cursor, offset |-> visitor.offset,
                      shown |-> visitor.shown, twice |-> visitor.twice, ended |-> visitor.ended]
        /\ visitor.reads \in {"catalog", "search"} /\ visitor.cursor = None /\ visitor.offset = 0
        /\ visitor.shown = {} /\ visitor.twice = FALSE /\ visitor.ended = FALSE
    BY <2>1
  <2>3. visitor \in Visitors
    <3>1. {} \in SUBSET Ids /\ FALSE \in BOOLEAN /\ 0 \in Nat
      OBVIOUS
    <3>2. QED
      BY <2>2, <3>1 DEF Visitors
  <2>4. QED
    BY <2>2, <2>3, Zenon
<1>3. removed \subseteq Ids /\ worded \subseteq Ids /\ substring \subseteq Ids
      /\ library \subseteq Ids
  BY <1>1 DEF BrowseInit
<1>4. BrowseTypeOK
  BY <1>1, <1>2, <1>3 DEF BrowseInit, BrowseTypeOK
<1>5. CatalogToCursor
  BY <1>1, <1>2 DEF BrowseInit, CatalogToCursor, BrowseFaults, Unread
<1>6. SearchToOffset
  <2>1. SUFFICES ASSUME faults \cap BrowseFaults \subseteq {"order"}
                 PROVE  substring = {} /\ First(worded \cap shelf, 0) = {}
    BY <1>2 DEF SearchToOffset
  <2>2. substring = {}
    BY <1>1, <2>1 DEF BrowseInit, BrowseFaults
  <2>3. ASSUME NEW i \in worded \cap shelf
        PROVE  ~(Cardinality({j \in worded \cap shelf : Before(j, i)}) < 0)
    <3>1. IsFiniteSet({j \in worded \cap shelf : Before(j, i)})
      BY <1>3, BrowseAssumption, FS_Subset
    <3>2. QED
      BY <3>1, FS_CardinalityType
  <2>4. QED
    BY <2>2, <2>3 DEF First
<1>7. QED
  BY <1>2, <1>4, <1>5, <1>6 DEF BrowseInv, ShownStays

\* The next page of the catalog begins below the cursor, where nothing was shown.
LEMMA CatalogKeeps == ASSUME BrowseInv, findPublished PROVE BrowseInv'
<1> DEFINE found == First(Unread, PageLimit + 1)
           items == First(found, PageLimit)
<1>1. /\ visitor.reads = "catalog" /\ ~visitor.ended /\ Show(items, items # found)
      /\ UNCHANGED <<shelf, sortKey, removed, worded, substring, library, bundled, faults>>
  BY DEF findPublished, rows, Unread
<1>2. BrowseTypeOK /\ visitor \in Visitors /\ shelf \subseteq Ids /\ Unread \in SUBSET Ids
  BY DEF BrowseInv, BrowseTypeOK, Unread
<1>3. /\ items \subseteq Unread /\ (items = found => items = Unread)
      /\ items # found => /\ Last(items) \in items
                          /\ \A i \in items : ~Before(Last(items), i)
                          /\ \A i \in Unread : Before(i, Last(items)) => i \in items
  BY <1>2, PageIs
<1> HIDE DEF items, found
<1>4. /\ visitor'.reads = visitor.reads /\ visitor'.shown = visitor.shown \cup items
      /\ visitor'.twice = (visitor.twice \/ items \cap visitor.shown # {})
      /\ visitor'.ended = (items = found)
      /\ items # found => visitor'.cursor = Last(items)
      /\ visitor' \in Visitors
  <2>1. (items # found) \in BOOLEAN /\ items \subseteq Ids
    BY <1>2, <1>3
  <2>2. QED
    BY <1>1, <1>2, <1>3, <2>1, ShowIs
<1>5. BrowseTypeOK'
  BY <1>1, <1>2, <1>4 DEF BrowseTypeOK
<1>6. CatalogToCursor'
  <2>1. SUFFICES ASSUME faults \cap BrowseFaults \subseteq {"substring"} PROVE CatalogToCursor'
    BY <1>1 DEF CatalogToCursor
  <2>2. FollowsIds(sortKey) /\ ~visitor.twice /\ visitor.shown = shelf \ Unread
    BY <1>1, <2>1 DEF BrowseInv, CatalogToCursor
  <2>3. FollowsIds(sortKey)' /\ ~visitor'.twice
    BY <1>1, <1>3, <1>4, <2>2 DEF FollowsIds
  <2>4. Unread \subseteq shelf
    BY DEF Unread
  <2>5. CASE items = found
    BY ZenonT(30), <1>1, <1>3, <1>4, <2>2, <2>3, <2>4, <2>5 DEF CatalogToCursor
  <2>6. CASE items # found
    <3>1. Last(items) \in Ids /\ Last(items) # None
      BY <1>2, <1>3, <2>6, BrowseAssumption
    <3>2. Unread' = {i \in shelf : i < Last(items)}
      BY <1>1, <1>4, <2>6, <3>1 DEF Unread
    <3>3. \A i, j \in Ids : i \in Nat /\ j \in Nat /\ (i > j => Before(i, j))
      <4>1. \A i \in Ids : i \in Nat /\ sortKey[i] \in Nat
        BY <1>2, BrowseAssumption DEF BrowseTypeOK
      <4>2. QED
        BY <2>2, <4>1 DEF FollowsIds, Before
    <3>4. ASSUME NEW i \in Unread PROVE i \in items <=> ~(i < Last(items))
      <4>1. i \in Ids /\ i \in Nat /\ Last(items) \in Nat
        BY <1>2, <3>1, <3>3
      <4>2. CASE i < Last(items)
        BY <1>3, <2>6, <3>1, <3>3, <4>1, <4>2
      <4>3. CASE i = Last(items)
        BY <1>3, <2>6, <4>1, <4>3
      <4>4. CASE i > Last(items)
        BY <1>3, <2>6, <3>1, <3>3, <4>1, <4>4
      <4>5. QED
        BY <4>1, <4>2, <4>3, <4>4
    <3>5. ASSUME NEW i \in shelf, i \notin Unread PROVE ~(i < Last(items))
      <4>1. visitor.cursor # None /\ ~(i < visitor.cursor) /\ visitor.cursor \in Ids
        BY <1>2, <3>5 DEF Unread, Visitors
      <4>2. Last(items) < visitor.cursor
        BY <1>3, <2>6, <4>1 DEF Unread
      <4>3. i \in Nat /\ Last(items) \in Nat /\ visitor.cursor \in Nat
        BY <1>2, <3>1, <4>1, BrowseAssumption
      <4>4. QED
        BY <4>1, <4>2, <4>3
    <3>6. visitor'.shown = shelf \ Unread'
      BY <1>3, <1>4, <2>2, <2>4, <3>2, <3>4, <3>5
    <3>7. QED
      BY <1>1, <1>4, <2>3, <2>6, <3>6 DEF CatalogToCursor
  <2>7. QED
    BY <2>5, <2>6
<1>7. SearchToOffset'
  BY <1>1, <1>4 DEF SearchToOffset
<1>8. ShownStays'
  BY <1>1, <1>3, <1>4 DEF BrowseInv, ShownStays, Unread
<1>9. QED
  BY <1>5, <1>6, <1>7, <1>8 DEF BrowseInv

\* The next page of a search begins after those it has skipped, which are those it has shown.
LEMMA SearchKeeps == ASSUME BrowseInv, searchPublished PROVE BrowseInv'
<1> DEFINE hits == worded \cap shelf
           rest == hits \ First(hits, visitor.offset)
           ranked == First(rest, PageLimit + 1)
           few == Cardinality(ranked) < FTS_FALLBACK_THRESHOLD
           wide == First(substring \cap shelf, PageLimit + 1 - Cardinality(ranked))
           fallback == IF few THEN wide \ ranked ELSE {}
           fromText == First(ranked, PageLimit)
           filled == First(fallback, PageLimit - Cardinality(fromText))
           items == fromText \cup filled
           all == ranked \cup fallback
<1>1. /\ visitor.reads = "search" /\ ~visitor.ended /\ ~visitor.twice /\ Show(items, items # all)
      /\ UNCHANGED <<shelf, sortKey, removed, worded, substring, library, bundled, faults>>
  BY DEF searchPublished, rows
<1>2. BrowseTypeOK /\ visitor \in Visitors /\ shelf \subseteq Ids /\ rest \in SUBSET Ids
  BY DEF BrowseInv, BrowseTypeOK
<1>3. \A S, n : First(S, n) \subseteq S
  BY DEF First
<1>4. items \subseteq shelf /\ fallback \subseteq substring
  <2>1. fromText \subseteq ranked /\ ranked \subseteq rest /\ wide \subseteq substring \cap shelf
        /\ filled \subseteq fallback
    <3>1. ranked \subseteq rest /\ wide \subseteq substring \cap shelf
      <4> HIDE DEF rest
      <4>1. ranked \subseteq rest
        BY <1>3
      <4> HIDE DEF ranked
      <4>2. wide \subseteq substring \cap shelf
        BY <1>3
      <4>3. QED
        BY <4>1, <4>2
    <3>2. fromText \subseteq ranked
      <4> HIDE DEF ranked
      <4>1. QED
        BY <1>3
    <3>3. filled \subseteq fallback
      <4> HIDE DEF fallback, fromText
      <4>1. QED
        BY <1>3
    <3>4. QED
      BY <3>1, <3>2, <3>3
  <2>2. rest \subseteq shelf /\ fallback \subseteq wide
    OBVIOUS
  <2> HIDE DEF rest, ranked, wide, fallback, fromText, filled
  <2>3. QED
    BY <2>1, <2>2
<1>5. /\ fromText = First(rest, PageLimit) /\ fromText \subseteq rest
      /\ (fromText = ranked => fromText = rest)
  <2> HIDE DEF rest
  <2>1. QED
    BY <1>2, PageIs
<1>6. substring = {} => items = fromText /\ all = ranked
  <2>1. filled \subseteq fallback
    <3> HIDE DEF fallback
    <3>1. QED
      BY <1>3
  <2> HIDE DEF ranked, fallback, fromText, filled
  <2>2. QED
    BY <1>4, <2>1
<1> HIDE DEF ranked, fallback, fromText, filled, items, all, wide, few
<1>7. /\ visitor'.reads = visitor.reads /\ visitor'.shown = visitor.shown \cup items
      /\ visitor'.twice = (visitor.twice \/ items \cap visitor.shown # {})
      /\ visitor'.ended = (items = all)
      /\ visitor'.offset = IF items # all THEN visitor.offset + PageLimit ELSE visitor.offset
      /\ visitor' \in Visitors
  <2>1. (items # all) \in BOOLEAN /\ items \subseteq Ids
    BY <1>2, <1>4
  <2>2. visitor.reads # "catalog"
    BY <1>1
  <2>3. QED
    BY <1>1, <1>2, <2>1, <2>2, ShowIs
<1>8. BrowseTypeOK'
  BY <1>1, <1>2, <1>7 DEF BrowseTypeOK
<1>9. SearchToOffset'
  <2>1. SUFFICES ASSUME faults \cap BrowseFaults \subseteq {"order"} PROVE SearchToOffset'
    BY <1>1 DEF SearchToOffset
  <2>2. substring = {} /\ visitor.shown = First(hits, visitor.offset)
    BY <1>1, <2>1 DEF BrowseInv, SearchToOffset
  <2>3. items = fromText /\ all = ranked
    BY <1>6, <2>2
  <2>4. ~visitor'.twice
    BY ZenonT(30), <1>1, <1>5, <1>7, <2>2, <2>3
  <2>5. hits \in SUBSET Ids /\ visitor.offset \in Nat /\ PageLimit \in Nat
        /\ visitor.offset + PageLimit \in Nat
    <3>1. hits \in SUBSET Ids
      BY <1>2
    <3>2. visitor.offset \in Nat /\ PageLimit \in Nat
      BY <1>2, BrowseAssumption DEF Visitors
    <3>3. QED
      BY <3>1, <3>2
  <2>7. visitor'.shown = IF visitor'.ended THEN hits ELSE First(hits, visitor'.offset)
    <3>1. CASE items = all
      <4>1. fromText = rest /\ visitor'.ended
        BY <1>5, <1>7, <2>3, <3>1
      <4>2. First(hits, visitor.offset) \subseteq hits
        BY <1>3
      <4>3. QED
        BY <1>7, <2>2, <2>3, <4>1, <4>2
    <3>2. CASE items # all
      <4>1. ~visitor'.ended /\ visitor'.offset = visitor.offset + PageLimit
            /\ visitor'.shown = First(hits, visitor.offset) \cup First(rest, PageLimit)
        BY <1>5, <1>7, <2>2, <2>3, <3>2
      <4>2. First(hits, visitor.offset) \cup First(rest, PageLimit)
              = First(hits, visitor.offset + PageLimit)
        <5>1. First(hits, visitor.offset) = Foremost(ByKey, hits, visitor.offset)
              /\ First(rest, PageLimit) = Foremost(ByKey, rest, PageLimit)
              /\ First(hits, visitor.offset + PageLimit)
                   = Foremost(ByKey, hits, visitor.offset + PageLimit)
          <6> HIDE DEF hits, rest
          <6>1. QED
            BY <1>2, <2>5, FirstIsForemost
        <5>2. Orders(ByKey, hits) /\ IsFiniteSet(hits)
          BY <1>2, <2>5, KeyOrders
        <5>3. rest = hits \ Foremost(ByKey, hits, visitor.offset)
          BY <5>1
        <5> HIDE DEF hits, rest
        <5>4. Foremost(ByKey, hits, visitor.offset + PageLimit)
                = Foremost(ByKey, hits, visitor.offset) \cup Foremost(ByKey, rest, PageLimit)
          BY <2>5, <5>2, <5>3, ForemostAdds
        <5>5. QED
          BY <5>1, <5>3, <5>4
      <4>3. QED
        BY <4>1, <4>2
    <3>3. QED
      BY <3>1, <3>2
  <2>8. visitor'.shown = IF visitor'.ended THEN (worded \cap shelf)'
                         ELSE First(worded \cap shelf, visitor.offset)'
    BY <1>1, <2>7 DEF First, Before
  <2>9. QED
    BY <1>1, <2>2, <2>4, <2>8, Zenon DEF SearchToOffset
<1>10. CatalogToCursor'
  BY <1>1, <1>7 DEF CatalogToCursor
<1>11. ShownStays'
  BY <1>1, <1>4, <1>7 DEF BrowseInv, ShownStays
<1>12. QED
  BY <1>8, <1>9, <1>10, <1>11 DEF BrowseInv

\* Moderators and sales are among the faults that excuse what they disturb.
LEMMA OthersKeep ==
  ASSUME BrowseInv, \E i \in Ids : Reshelve(i) \/ Sell(i)
  PROVE  BrowseInv'
<1>1. PICK i \in Ids : Reshelve(i) \/ Sell(i)
  OBVIOUS
<1>2. UNCHANGED <<removed, worded, substring, library, bundled, visitor, faults>>
  BY <1>1 DEF Reshelve, Sell, rows
<1>3. "moderate" \in faults \/ "sales" \in faults
  BY <1>1 DEF Reshelve, Sell
<1>4. BrowseTypeOK'
  <2>1. shelf' \subseteq Ids \ removed
    BY <1>1 DEF Reshelve, Sell, BrowseInv, BrowseTypeOK
  <2>2. sortKey' \in [Ids -> Keys]
    BY <1>1 DEF Reshelve, Sell, BrowseInv, BrowseTypeOK
  <2>3. QED
    BY <1>2, <2>1, <2>2 DEF BrowseInv, BrowseTypeOK
<1>5. CatalogToCursor' /\ SearchToOffset'
  BY <1>2, <1>3 DEF CatalogToCursor, SearchToOffset, BrowseFaults
<1>6. ShownStays'
  BY <1>1, <1>2 DEF Reshelve, Sell, BrowseInv, ShownStays
<1>7. QED
  BY <1>4, <1>5, <1>6 DEF BrowseInv

LEMMA BrowseStep == BrowseInv /\ [BrowseNext]_browseVars => BrowseInv'
<1>1. SUFFICES ASSUME BrowseInv, [BrowseNext]_browseVars PROVE BrowseInv'
  OBVIOUS
<1>2. CASE findPublished
  BY <1>1, <1>2, CatalogKeeps
<1>3. CASE searchPublished
  BY <1>1, <1>3, SearchKeeps
<1>4. CASE \E i \in Ids : Reshelve(i) \/ Sell(i)
  BY <1>1, <1>4, OthersKeep
<1>5. CASE UNCHANGED browseVars
  BY <1>1, <1>5
     DEF browseVars, BrowseInv, BrowseTypeOK, CatalogToCursor, SearchToOffset, ShownStays,
     FollowsIds, Unread, First, Before
<1>6. QED
  BY <1>1, <1>2, <1>3, <1>4, <1>5 DEF BrowseNext

LEMMA BrowseSees ==
  BrowseInv => /\ BrowseTypeOK /\ CatalogShowsEachOnce /\ SearchShowsEachOnce
               /\ ShownCanBeOpened /\ LibraryOpens
<1>1. SUFFICES ASSUME BrowseInv
               PROVE  /\ BrowseTypeOK /\ CatalogShowsEachOnce /\ SearchShowsEachOnce
                      /\ ShownCanBeOpened /\ LibraryOpens
  OBVIOUS
<1>2. CatalogShowsEachOnce /\ SearchShowsEachOnce
  BY <1>1 DEF BrowseInv, CatalogToCursor, SearchToOffset, CatalogShowsEachOnce, SearchShowsEachOnce
<1>3. ShownCanBeOpened
  <2>1. SUFFICES ASSUME "moderate" \notin faults, NEW i \in visitor.shown
                 PROVE  findDetailBySlug(i) # None
                        /\ (findDetailBySlug(i).owns <=> findDetailForUser(i))
    BY DEF ShownCanBeOpened
  <2>2. i \in shelf /\ i \notin removed
    BY <1>1, <2>1 DEF BrowseInv, ShownStays, BrowseTypeOK
  <2>3. findDetailBySlug(i) = [owns |-> i \in library]
    BY <2>2 DEF findDetailBySlug
  <2>4. findDetailBySlug(i) # None
    <3>1. \A b \in BOOLEAN : [owns |-> b] \in [owns : BOOLEAN]
      OBVIOUS
    <3>2. (i \in library) \in BOOLEAN
      OBVIOUS
    <3>3. QED
      BY <2>3, <3>1, <3>2, BrowseAssumption, Zenon
  <2>5. findDetailBySlug(i).owns = (i \in library)
    <3>1. \A b : [owns |-> b].owns = b
      OBVIOUS
    <3>2. QED
      BY <2>3, <3>1, Zenon
  <2>6. findDetailForUser(i) <=> i \in library
    BY <2>2 DEF findDetailForUser
  <2>7. QED
    BY <2>4, <2>5, <2>6, Zenon
<1>4. LibraryOpens
  BY DEF LibraryOpens, findForUser, findDetailForUser, streamBundleForOwner
<1>5. QED
  BY <1>1, <1>2, <1>3, <1>4 DEF BrowseInv

\* (agents/services/listings.service.ts, library.service.ts) A visitor who turns pages is shown
\* each listing once where the order allows it, and at the end all of them; can open what was
\* shown; and keeps what was bought: the first part of VisitorsSeeAll.
THEOREM VisitorsSeeEachOnce ==
  BrowseSpec => [](/\ BrowseTypeOK /\ CatalogShowsEachOnce /\ SearchShowsEachOnce
                   /\ ShownCanBeOpened /\ LibraryOpens)
BY BrowseStart, BrowseStep, BrowseSees, PTL DEF BrowseSpec
===============================================================================
