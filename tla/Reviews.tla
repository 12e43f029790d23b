------------------------------ MODULE Reviews ------------------------------
(***************************************************************************)
(* ReviewsService (modules/agents) and ListingsService.recomputeRating,    *)
(* for one listing and those who bought it.  A review is written in one    *)
(* statement, the aggregate of all reviews is read in a second and stored  *)
(* on the listing in a third, in no transaction.  No code hides a review,  *)
(* so isHidden is left out; the average is kept as the column does, in     *)
(* hundredths.                                                             *)
(***************************************************************************)
EXTENDS Integers, FiniteSets, Functions, PlatformFaults

CONSTANTS
  Buyers,      \* users with a COMPLETED purchase of the listing
  Ratings,     \* the ratings an instance looks at, within 1 .. 5
  ReviewCalls,
  Watched,     \* the buyers whose first reviews are counted
  MaxTold      \* bound: notifications are counted up to it

ASSUME ReviewsAssumption ==
  /\ IsFiniteSet(Buyers) /\ Ratings \subseteq 1 .. 5 /\ None \notin Ratings
  /\ Watched \subseteq Buyers /\ MaxTold \in Nat

VARIABLES
  rating,        \* the rating of a buyer's review, 0 without one
  stored,        \* ratingCount and ratingAverage of the listing
  gone,          \* the listing is soft-deleted
  reviewCall, reviewAt,
  makerTold      \* how often the maker was told of a buyer's first review since
                 \* the buyer last had none

reviewVars == <<rating, stored, gone, reviewCall, reviewAt, makerTold, faults>>

\* "overlap": calls are under way together; "die": a call ends between two steps;
\* "delete": the listing is soft-deleted.
ReviewFaults == {"overlap", "die", "delete"}
-----------------------------------------------------------------------------
Reviewed(r) == {b \in Buyers : r[b] > 0}

\* toDecimalPlaces(2): rounded half up.
Hundredths(sum, count) == (200 * sum + count) \div (2 * count)

\* The aggregate of agents_review, as it is stored.
AggregateOf(r) ==
  LET count == Cardinality(Reviewed(r))
      sum == SumFunctionOnSet(r, Reviewed(r))
  IN [count |-> count, average |-> IF count = 0 THEN None ELSE Hundredths(sum, count)]

Aggregates == [count : 0 .. Cardinality(Buyers), average : (100 .. 500) \cup {None}]

\* A call: rating is None for a PATCH of the text alone, and for a DELETE.
ReviewRequests == [op : {"post", "patch"}, buyer : Buyers, rating : Ratings]
                    \cup [op : {"patch", "delete"}, buyer : Buyers, rating : {None}]

NoCall == [op |-> "none"]

ReviewsTypeOK ==
  /\ rating \in [Buyers -> Ratings \cup {0}]
  /\ stored \in Aggregates
  /\ gone \in BOOLEAN
  /\ reviewCall \in [ReviewCalls -> [request : ReviewRequests, first : BOOLEAN,
                                      found : Aggregates \cup {None}] \cup {NoCall}]
  /\ reviewAt \in [ReviewCalls -> {"idle", "own", "count", "write", "aggregate", "store", "tell"}]
  /\ makerTold \in [Watched -> 0 .. MaxTold]
  /\ faults \in FaultSets

ReviewsInit ==
  /\ rating = [b \in Buyers |-> 0]
  /\ stored = [count |-> 0, average |-> None]
  /\ gone = FALSE
  /\ reviewCall = [c \in ReviewCalls |-> NoCall]
  /\ reviewAt = [c \in ReviewCalls |-> "idle"]
  /\ makerTold = [b \in Watched |-> 0]
  /\ faults \in FaultSets

ToStep(c, at) == reviewAt' = [reviewAt EXCEPT ![c] = at]
EndReview(c) == ToStep(c, "idle") /\ reviewCall' = [reviewCall EXCEPT ![c] = NoCall]
RequestOf(c) == reviewCall[c].request
NoReviewUnderWay == \A c \in ReviewCalls : reviewAt[c] = "idle"

SetRating(b, r) == rating' = [rating EXCEPT ![b] = r]
-----------------------------------------------------------------------------
BeginReview(c, request) ==
  /\ reviewAt[c] = "idle"
  /\ "overlap" \in faults \/ NoReviewUnderWay
  /\ reviewCall' = [reviewCall EXCEPT ![c] = [request |-> request, first |-> FALSE,
                                              found |-> None]]
  /\ ToStep(c, IF request.op = "delete" THEN "write" ELSE "own")
  /\ UNCHANGED <<rating, stored, gone, makerTold, faults>>

\* assertOwnership: who reviews has bought the listing, and it is not deleted.
AssertOwnership(c) ==
  /\ reviewAt[c] = "own"
  /\ IF gone THEN EndReview(c)
     ELSE /\ ToStep(c, IF RequestOf(c).op = "post" THEN "count" ELSE "write")
          /\ UNCHANGED reviewCall
  /\ UNCHANGED <<rating, stored, gone, makerTold, faults>>

CountReviews(c) ==
  /\ reviewAt[c] = "count"
  /\ reviewCall' = [reviewCall EXCEPT ![c].first = (rating[RequestOf(c).buyer] = 0)]
  /\ ToStep(c, "write")
  /\ UNCHANGED <<rating, stored, gone, makerTold, faults>>

\* Mutation of WriteReview: a PATCH of the rating does not recompute the average.
WriteWithoutRecompute(c) ==
  /\ reviewAt[c] = "write"
  /\ LET b == RequestOf(c).buyer
         op == RequestOf(c).op
     IN CASE op = "post" ->
               /\ SetRating(b, RequestOf(c).rating)
               /\ ToStep(c, "aggregate") /\ UNCHANGED <<reviewCall, makerTold>>
          [] op = "patch" /\ rating[b] # 0 /\ RequestOf(c).rating # None ->
               /\ SetRating(b, RequestOf(c).rating)
               /\ EndReview(c) /\ UNCHANGED makerTold
          [] op = "delete" /\ rating[b] # 0 ->
               /\ SetRating(b, 0)
               /\ makerTold' = [makerTold EXCEPT ![b] = 0]
               /\ ToStep(c, "aggregate") /\ UNCHANGED reviewCall
          [] OTHER -> EndReview(c) /\ UNCHANGED <<rating, makerTold>>
  /\ UNCHANGED <<stored, gone, faults>>

\* The upsert of a POST, the update of a PATCH, the deleteMany of a DELETE.  A
\* PATCH or DELETE of a review that is not there is refused, and a PATCH of
\* the text alone changes no rating.
WriteReview(c) ==
  /\ reviewAt[c] = "write"
  /\ LET b == RequestOf(c).buyer
         op == RequestOf(c).op
     IN CASE op = "post" \/ (op = "patch" /\ rating[b] # 0 /\ RequestOf(c).rating # None) ->
               /\ SetRating(b, RequestOf(c).rating)
               /\ ToStep(c, "aggregate") /\ UNCHANGED <<reviewCall, makerTold>>
          [] op = "delete" /\ rating[b] # 0 ->
               /\ SetRating(b, 0)
               /\ makerTold' = [makerTold EXCEPT ![b] = 0]
               /\ ToStep(c, "aggregate") /\ UNCHANGED reviewCall
          [] OTHER -> EndReview(c) /\ UNCHANGED <<rating, makerTold>>
  /\ UNCHANGED <<stored, gone, faults>>

ReadAggregate(c) ==
  /\ reviewAt[c] = "aggregate"
  /\ reviewCall' = [reviewCall EXCEPT ![c].found = AggregateOf(rating)]
  /\ ToStep(c, "store")
  /\ UNCHANGED <<rating, stored, gone, makerTold, faults>>

StoreAggregate(c) ==
  /\ reviewAt[c] = "store"
  /\ stored' = reviewCall[c].found
  /\ IF reviewCall[c].first
     THEN ToStep(c, "tell") /\ reviewCall' = [reviewCall EXCEPT ![c].found = None]
     ELSE EndReview(c)
  /\ UNCHANGED <<rating, gone, makerTold, faults>>

\* The maker is told of a first review.  Bound: counted to MaxTold.
TellMaker(c) ==
  /\ reviewAt[c] = "tell"
  /\ LET b == RequestOf(c).buyer IN
       makerTold' = [makerTold EXCEPT ![b] = IF @ < MaxTold THEN @ + 1 ELSE @]
  /\ EndReview(c)
  /\ UNCHANGED <<rating, stored, gone, faults>>

ReviewDies(c) ==
  /\ "die" \in faults
  /\ reviewAt[c] # "idle"
  /\ EndReview(c)
  /\ UNCHANGED <<rating, stored, gone, makerTold, faults>>

DeleteListing ==
  /\ "delete" \in faults
  /\ ~gone /\ gone' = TRUE
  /\ UNCHANGED <<rating, stored, reviewCall, reviewAt, makerTold, faults>>

ReviewsNext ==
  \/ \E c \in ReviewCalls :
       \/ \E request \in ReviewRequests : BeginReview(c, request)
       \/ AssertOwnership(c) \/ CountReviews(c) \/ WriteReview(c)
       \/ ReadAggregate(c) \/ StoreAggregate(c) \/ TellMaker(c) \/ ReviewDies(c)
  \/ DeleteListing

ReviewsSpec == ReviewsInit /\ [][ReviewsNext]_reviewVars
-----------------------------------------------------------------------------
\* The bars of the detail page, counted on each request.
computeRatingDistribution == [r \in 1 .. 5 |-> Cardinality({b \in Buyers : rating[b] = r})]

\* The rating stored on a listing is the one its detail page explains, bar by bar,
\* whenever no call is under way, if calls neither overlapped nor died between their
\* statements (findDetailBySlug shows both).
RatingIsAverage ==
  faults \subseteq {"delete"} /\ NoReviewUnderWay =>
    LET bars == computeRatingDistribution
        count == SumFunctionOnSet(bars, 1 .. 5)
        sum == SumFunctionOnSet([r \in 1 .. 5 |-> r * bars[r]], 1 .. 5)
    IN /\ stored.count = count
       /\ stored.average = IF count = 0 THEN None ELSE Hundredths(sum, count)

\* Whatever overlaps or dies, count and average belong together: there are
\* reviews whose rating they are.
RatingIsConsistent ==
  \E r \in [Buyers -> Ratings \cup {0}] : stored = AggregateOf(r)

\* The maker is told of the first review of a buyer once, and again only if the
\* review was deleted and posted anew; two posts that overlap may tell twice.
FirstReviewToldOnce ==
  "overlap" \in faults \/ \A b \in Watched : makerTold[b] <= 1

\* (agents/services/reviews.service.ts) The stored rating is that of some reviews
\* whatever overlaps or dies, of all of them when nothing did, and its maker was told once
\* of a first review.
RatingsAgree == ReviewsTypeOK /\ RatingIsConsistent /\ RatingIsAverage /\ FirstReviewToldOnce
=============================================================================
