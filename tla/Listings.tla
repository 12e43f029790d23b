------------------------------ MODULE Listings ------------------------------
(***************************************************************************)
(* ListingsService (modules/agents): the life cycle of marketplace         *)
(* listings, from a maker's draft to moderation and removal, and the       *)
(* cached sections of the home page.  A status changes in a transaction    *)
(* that locks the row (lockAndLoad), sends its notifications on another    *)
(* connection, and commits; the caches are invalidated and the audit row   *)
(* is written after the commit, outside it.                                *)
(***************************************************************************)
EXTENDS Naturals, FiniteSets, PlatformFaults

CONSTANTS
  ListingRows, \* agents_listing rows that may be created
  Makers, Slugs,
  Shapes,      \* the pricing part of the bodies sent to create
  Quota,       \* MAKER_LISTINGS_QUOTA
  Tasks,       \* requests that create or moderate a listing
  Sections,    \* cached views: a section of the home page, the categories
  Feeds        \* those that list sales and reviews: recentActivity

VARIABLES
  listing,      \* the agents_listing rows
  rowLock,      \* the task whose transaction holds a row FOR UPDATE
  task, taskAt, \* what a request does, and where it is
  told,         \* the last in-app notification about a listing
  trail,        \* the operation of the last audit row about a listing
  sections,     \* Redis: what a section's key holds, None after a miss
  reader        \* the request that reads a section: its key and what it computed

listingVars == <<listing, rowLock, task, taskAt, told, trail, sections, reader, faults>>

\* "creates": requests to create are under way together; "moderates": requests to
\* moderate one listing are; "rollback": a transaction fails; "mute": a notification is not
\* written; "race": a section is computed while a listing changes; "redis": Redis
\* refuses an invalidation; "crash": the process dies; "delete": a listing is
\* soft-deleted.
ListingFaults == {"creates", "moderates", "rollback", "mute", "race", "redis", "crash", "delete"}
-----------------------------------------------------------------------------
(* Pricing *)

RunPacksMin == 1
RunPacksMax == 5
PricingTypes == {"FREE", "ONE_TIME", "PER_RUN"}

\* A body: its price and its number of packs may be absent (None); positive
\* says that every pack has runs and a price above zero.
ShapeType == [type : PricingTypes, price : Nat \cup {None}, packs : Nat \cup {None},
              positive : BOOLEAN]

PackCount(shape) == IF shape.packs = None THEN 0 ELSE shape.packs

\* CreateListingSchema of the controller.
SchemaAccepts(shape) ==
  /\ shape.packs # None => shape.packs \in RunPacksMin .. RunPacksMax /\ shape.positive
  /\ CASE shape.type = "PER_RUN"  -> shape.packs # None /\ shape.price = None
       [] shape.type = "ONE_TIME" -> shape.price # None /\ shape.price > 0 /\ shape.packs = None
       [] shape.type = "FREE"     -> shape.price = None /\ shape.packs = None

assertPricingShape(shape) ==
  CASE shape.type = "PER_RUN" ->
         /\ PackCount(shape) \in RunPacksMin .. RunPacksMax
         /\ shape.positive /\ shape.price = None
    [] shape.type = "ONE_TIME" ->
         shape.price # None /\ shape.price > 0 /\ PackCount(shape) = 0
    [] shape.type = "FREE" -> shape.price = None /\ PackCount(shape) = 0

\* The same rules, read back from the row at submission.
assertSubmissionReady(shape) ==
  CASE shape.type = "PER_RUN"  -> PackCount(shape) \in RunPacksMin .. RunPacksMax
    [] shape.type = "ONE_TIME" -> shape.price # None /\ shape.price > 0
    [] shape.type = "FREE"     -> TRUE
-----------------------------------------------------------------------------
(* Rows and requests *)

Statuses == {"DRAFT", "PENDING_REVIEW", "PUBLISHED", "REJECTED", "SUSPENDED"}

ALLOWED_FROM == [submitForReview |-> {"DRAFT"},
                 approve         |-> {"PENDING_REVIEW"},
                 reject          |-> {"PENDING_REVIEW"},
                 suspend         |-> {"PUBLISHED"},
                 unsuspend       |-> {"SUSPENDED"}]

Moderations == DOMAIN ALLOWED_FROM

StatusAfter == [submitForReview |-> "PENDING_REVIEW",
                approve         |-> "PUBLISHED",
                reject          |-> "REJECTED",
                suspend         |-> "SUSPENDED",
                unsuspend       |-> "PUBLISHED"]

\* unsuspend tells nobody.
Announced == Moderations \ {"unsuspend"}

\* The operations that invalidate the cached sections.
Invalidates == {"approve", "suspend", "unsuspend"}

Row == [status : Statuses, maker : Makers, slug : Slugs, shape : Shapes, deleted : BOOLEAN,
        publishedAt : BOOLEAN, rejectionReason : BOOLEAN, suspensionReason : BOOLEAN]

Creation == [op : {"create"}, maker : Makers, slug : Slugs, shape : Shapes]
Moderation == [op : Moderations, listing : ListingRows, by : Makers]

ASSUME ListingsAssumption ==
  /\ Quota \in Nat /\ IsFiniteSet(ListingRows)
  /\ Shapes \subseteq ShapeType /\ Feeds \subseteq Sections
  /\ None \notin Tasks \cup Row \cup Moderations \cup Creation \cup Moderation

InTransaction == {"count", "insert", "update"}

ListingsTypeOK ==
  /\ listing \in [ListingRows -> Row \cup {None}]
  /\ rowLock \in [ListingRows -> Tasks \cup {None}]
  /\ task \in [Tasks -> Creation \cup Moderation \cup {None}]
  /\ taskAt \in [Tasks -> {"idle", "slug", "lock", "invalidate", "audit"} \cup InTransaction]
  /\ told \in [ListingRows -> Announced \cup {None}]
  /\ trail \in [ListingRows -> Moderations \cup {None}]
  /\ sections \in [Sections -> (SUBSET ListingRows) \cup {None}]
  /\ reader \in [section : Sections, found : SUBSET ListingRows] \cup {None}
  /\ faults \in FaultSets

ListingsInit ==
  /\ listing = [l \in ListingRows |-> None]
  /\ rowLock = [l \in ListingRows |-> None]
  /\ task = [t \in Tasks |-> None]
  /\ taskAt = [t \in Tasks |-> "idle"]
  /\ told = [l \in ListingRows |-> None]
  /\ trail = [l \in ListingRows |-> None]
  /\ sections = [s \in Sections |-> None]
  /\ reader = None
  /\ faults \in FaultSets

notices == <<told, trail>>
caches == <<sections, reader>>

Created == {l \in ListingRows : listing[l] # None}
Live == {l \in Created : ~listing[l].deleted}
OwnedBy(m) == {l \in Live : listing[l].maker = m}
Published == {l \in Live : listing[l].status = "PUBLISHED"}

\* The listings that may have been sold or reviewed: those approved once.
Traded == {l \in Live : listing[l].publishedAt}

\* What the query of a section may find: findRecentActivity looks at sales and
\* reviews, of which any may have been made, and at no listing's status.
Selects(s) == IF s \in Feeds THEN SUBSET Traded ELSE {Published}

GoOn(t, step) == taskAt' = [taskAt EXCEPT ![t] = step]
Answered(t) == GoOn(t, "idle") /\ task' = [task EXCEPT ![t] = None]
Unlock(t) == rowLock' = [l \in ListingRows |-> IF rowLock[l] = t THEN None ELSE rowLock[l]]
At(step) == {t \in Tasks : taskAt[t] = step}
Moderating(l) == {t \in Tasks : task[t] # None /\ task[t].op # "create" /\ task[t].listing = l}
Creating == {t \in Tasks : task[t] # None /\ task[t].op = "create"}
-----------------------------------------------------------------------------
(* create *)

BeginCreate(t, body) ==
  /\ taskAt[t] = "idle"
  /\ "creates" \in faults \/ Creating = {}
  /\ assertPricingShape(body.shape)
  /\ task' = [task EXCEPT ![t] = body]
  /\ GoOn(t, "slug")
  /\ UNCHANGED <<listing, rowLock, notices, caches, faults>>

\* The slug is looked for among the listings that are not deleted.
FindSlug(t) ==
  /\ taskAt[t] = "slug"
  /\ IF \E l \in Live : listing[l].slug = task[t].slug
     THEN Answered(t)
     ELSE GoOn(t, "count") /\ UNCHANGED task
  /\ UNCHANGED <<listing, rowLock, notices, caches, faults>>

CountListings(t) ==
  /\ taskAt[t] = "count"
  /\ IF Cardinality(OwnedBy(task[t].maker)) >= Quota
     THEN Answered(t)
     ELSE GoOn(t, "insert") /\ UNCHANGED task
  /\ UNCHANGED <<listing, rowLock, notices, caches, faults>>

\* The insert and the commit.  slug is unique over all rows, the deleted ones
\* too: the insert of a slug that only a deleted listing has is an error.
Insert(t, l) ==
  /\ taskAt[t] = "insert"
  /\ listing[l] = None
  /\ IF \E k \in Created : listing[k].slug = task[t].slug
     THEN UNCHANGED listing
     ELSE listing' = [listing EXCEPT ![l] =
            [status |-> "DRAFT", maker |-> task[t].maker, slug |-> task[t].slug,
             shape |-> task[t].shape, deleted |-> FALSE, publishedAt |-> FALSE,
             rejectionReason |-> FALSE, suspensionReason |-> FALSE]]
  /\ Answered(t)
  /\ UNCHANGED <<rowLock, notices, caches, faults>>
-----------------------------------------------------------------------------
(* submitForReview, approve, reject, suspend, unsuspend *)

BeginModeration(t, call) ==
  /\ taskAt[t] = "idle"
  /\ call.listing \in Created
  /\ "moderates" \in faults \/ Moderating(call.listing) = {}
  /\ task' = [task EXCEPT ![t] = call]
  /\ GoOn(t, "lock")
  /\ UNCHANGED <<listing, rowLock, notices, caches, faults>>

MayMove(call) ==
  /\ call.listing \in Live
  /\ call.op = "submitForReview" =>
       /\ listing[call.listing].maker = call.by
       /\ assertSubmissionReady(listing[call.listing].shape)
  /\ listing[call.listing].status \in ALLOWED_FROM[call.op]

\* Mutation of LockAndLoad: the row is read without FOR UPDATE.
LoadOnly(t) ==
  /\ taskAt[t] = "lock"
  /\ LET l == task[t].listing IN
     /\ rowLock[l] = None
     /\ IF MayMove(task[t])
        THEN GoOn(t, "update") /\ UNCHANGED task
        ELSE Answered(t)
     /\ UNCHANGED <<listing, rowLock, notices, caches, faults>>

\* lockAndLoad, and the checks on the row it loaded.
LockAndLoad(t) ==
  /\ taskAt[t] = "lock"
  /\ LET l == task[t].listing IN
     /\ rowLock[l] = None
     /\ IF MayMove(task[t])
        THEN /\ rowLock' = [rowLock EXCEPT ![l] = t]
             /\ GoOn(t, "update") /\ UNCHANGED task
        ELSE Answered(t) /\ UNCHANGED rowLock
     /\ UNCHANGED <<listing, notices, caches, faults>>

\* What an operation writes to the row it has loaded.
Moved(row, op) ==
  [row EXCEPT !.status = StatusAfter[op],
              !.publishedAt = (@ \/ op = "approve"),
              !.rejectionReason = CASE op = "approve" -> FALSE
                                    [] op = "reject"  -> TRUE
                                    [] OTHER          -> @,
              !.suspensionReason = CASE op \in {"approve", "unsuspend"} -> FALSE
                                     [] op = "suspend" -> TRUE
                                     [] OTHER          -> @]

\* dispatch, inside the transaction but not part of it; it never throws, and
\* may fail.
Notify(l, op) ==
  \/ told' = IF op \in Announced THEN [told EXCEPT ![l] = op] ELSE told
  \/ "mute" \in faults /\ UNCHANGED told

\* The update, the notification and the commit ...
CommitMove(t) ==
  /\ taskAt[t] = "update"
  /\ "race" \in faults \/ reader = None
  /\ LET l == task[t].listing IN
     /\ listing' = [listing EXCEPT ![l] = Moved(@, task[t].op)]
     /\ Notify(l, task[t].op)
     /\ Unlock(t)
     /\ GoOn(t, IF task[t].op \in Invalidates THEN "invalidate" ELSE "audit")
     /\ UNCHANGED <<task, trail, caches, faults>>

\* ... or a rollback: the notification is not taken back.
RollBackMove(t) ==
  /\ "rollback" \in faults
  /\ taskAt[t] = "update"
  /\ Notify(task[t].listing, task[t].op)
  /\ Unlock(t)
  /\ Answered(t)
  /\ UNCHANGED <<listing, trail, caches, faults>>

\* Mutation of Invalidate: an approval leaves the sections as they are.
InvalidateSome(t) ==
  /\ taskAt[t] = "invalidate"
  /\ IF task[t].op = "approve" THEN UNCHANGED sections
     ELSE sections' = [s \in Sections |-> None]
  /\ GoOn(t, "audit")
  /\ UNCHANGED <<listing, rowLock, task, notices, reader, faults>>

\* invalidateSectionCaches and CategoriesService.invalidateCache: what Redis
\* refuses is only logged.
Invalidate(t) ==
  /\ taskAt[t] = "invalidate"
  /\ \/ sections' = [s \in Sections |-> None]
     \/ "redis" \in faults /\ UNCHANGED sections
  /\ GoOn(t, "audit")
  /\ UNCHANGED <<listing, rowLock, task, notices, reader, faults>>

LogMove(t) ==
  /\ taskAt[t] = "audit"
  /\ trail' = [trail EXCEPT ![task[t].listing] = task[t].op]
  /\ Answered(t)
  /\ UNCHANGED <<listing, rowLock, told, caches, faults>>

\* softDelete: one UPDATE by id; it invalidates no cache (its audit row is left out).
SoftDelete(l) ==
  /\ "delete" \in faults
  /\ l \in Live /\ rowLock[l] = None
  /\ listing' = [listing EXCEPT ![l].deleted = TRUE]
  /\ UNCHANGED <<rowLock, task, taskAt, notices, caches, faults>>
-----------------------------------------------------------------------------
(* getCachedSection and findAllPublic *)

\* A reader that finds the key returns what it holds; one that does not
\* computes the section and stores it in a later step.
ComputeSection(s) ==
  /\ reader = None
  /\ sections[s] = None
  /\ "race" \in faults \/ At("invalidate") = {}
  /\ \E found \in Selects(s) : reader' = [section |-> s, found |-> found]
  /\ UNCHANGED <<listing, rowLock, task, taskAt, notices, sections, faults>>

StoreSection ==
  /\ reader # None
  /\ sections' = [sections EXCEPT ![reader.section] = reader.found]
  /\ reader' = None
  /\ UNCHANGED <<listing, rowLock, task, taskAt, notices, faults>>

\* Mutation of ExpireSection: the key is stored without its 60 seconds.
ExpireNever(s) ==
  /\ sections[s] # None
  /\ FALSE
  /\ sections' = [sections EXCEPT ![s] = None]
  /\ UNCHANGED <<listing, rowLock, task, taskAt, notices, reader, faults>>

ExpireSection(s) ==
  /\ sections[s] # None
  /\ sections' = [sections EXCEPT ![s] = None]
  /\ UNCHANGED <<listing, rowLock, task, taskAt, notices, reader, faults>>

\* The process dies: PostgreSQL rolls open transactions back, Redis keeps its keys, and
\* the notification of an update that was not committed may have been written.
CrashListings ==
  /\ "crash" \in faults
  /\ \E t \in Tasks : taskAt[t] # "idle"
  /\ taskAt' = [t \in Tasks |-> "idle"]
  /\ task' = [t \in Tasks |-> None]
  /\ rowLock' = [l \in ListingRows |-> None]
  /\ reader' = None
  /\ told' \in [ListingRows -> Announced \cup {None}]
  /\ \A l \in ListingRows : told'[l] = told[l] \/ \E t \in At("update") :
       task[t].listing = l /\ task[t].op = told'[l]
  /\ UNCHANGED <<listing, trail, sections, faults>>

TaskStep(t) ==
  \/ FindSlug(t) \/ CountListings(t) \/ (\E l \in ListingRows : Insert(t, l))
  \/ LockAndLoad(t) \/ CommitMove(t) \/ RollBackMove(t) \/ Invalidate(t) \/ LogMove(t)

ListingsNext ==
  \/ \E t \in Tasks : \/ \E body \in Creation : BeginCreate(t, body)
                      \/ \E call \in Moderation : BeginModeration(t, call)
                      \/ TaskStep(t)
  \/ \E l \in ListingRows : SoftDelete(l)
  \/ \E s \in Sections : ComputeSection(s) \/ ExpireSection(s)
  \/ StoreSection
  \/ CrashListings

ListingsSpec == ListingsInit /\ [][ListingsNext]_listingVars
-----------------------------------------------------------------------------
\* A body that the controller's schema accepts is never refused by the service, and
\* the draft the service makes of a body passes the check at its submission.
ValidatorsAgree ==
  /\ \A shape \in Shapes : SchemaAccepts(shape) => assertPricingShape(shape)
  /\ \A l \in Created : assertSubmissionReady(listing[l].shape)

\* Whatever the body was, a listing that left the draft can be sold: each
\* price a buyer can meet is above zero, and nothing free has a price.
QueuedIsSellable ==
  \A l \in Created : listing[l].status # "DRAFT" =>
    LET shape == listing[l].shape IN
      /\ (shape.price # None => shape.price > 0) /\ (PackCount(shape) > 0 => shape.positive)
      /\ shape.type = "FREE" => shape.price = None /\ PackCount(shape) = 0
      /\ shape.type # "FREE" => shape.price # None \/ PackCount(shape) > 0

\* A maker has at most Quota listings, unless creations overlap: they count
\* before either has inserted its row.
QuotaKept == "creates" \in faults \/ \A m \in Makers : Cardinality(OwnedBy(m)) <= Quota

\* What a row says of its history fits its status, however the moderators
\* interleave: a suspended listing has its reason and a date of publication,
\* a published one no reason left over, a draft none of them.
ReasonsFitStatus ==
  \A l \in Created : LET row == listing[l] IN
    /\ row.suspensionReason <=> row.status = "SUSPENDED"
    /\ row.rejectionReason <=> row.status = "REJECTED"
    /\ row.publishedAt <=> row.status \in {"PUBLISHED", "SUSPENDED"}

\* A deleted listing does not change any more, although a moderator may have
\* begun before it was deleted.
DeletedIsFrozen ==
  [][\A l \in ListingRows :
       l \in Created /\ listing[l].deleted => listing'[l] = listing[l]]_listingVars

\* When nothing is under way on a listing, the last notification its maker or
\* the admins got is about its present status (or it was unsuspended, which is
\* not announced), unless one was lost, or a transaction rolled back or the
\* process died after it.
NoticeFitsStatus ==
  \A l \in Created : (faults \cap {"mute", "rollback", "crash"} = {} /\ rowLock[l] = None) =>
    \/ told[l] = None /\ listing[l].status = "DRAFT"
    \/ told[l] # None /\ \/ StatusAfter[told[l]] = listing[l].status
                         \/ told[l] = "suspend" /\ listing[l].status = "PUBLISHED"

\* When nothing is under way on a listing, its last audit row is the operation
\* that led to its status, unless moderations overlap or the process dies: the
\* row is written after the commit.
TrailFitsStatus ==
  \A l \in Created : (faults \cap {"moderates", "crash"} = {} /\ Moderating(l) = {}) =>
    IF trail[l] = None THEN listing[l].status = "DRAFT"
                       ELSE StatusAfter[trail[l]] = listing[l].status

\* A cached section holds what its query finds, except between a change and its
\* invalidation: a shelf what is published, a feed listings that have been
\* (suspended since or not).  Provided that no reader computes while that is going on,
\* Redis takes the invalidation, the process lives and nothing is soft-deleted.
SectionsAreFresh ==
  (faults \cap {"race", "redis", "crash", "delete"} = {} /\ At("invalidate") = {}) =>
    \A s \in Sections : sections[s] \in Selects(s) \cup {None}

\* Even then, and with every fault, a suspended or deleted listing leaves the shelves
\* and a deleted one the feeds.
MayShow(s) == UNION Selects(s)

RemovedLeavesSections ==
  \A l \in ListingRows, s \in Sections :
    (sections[s] # None /\ l \in sections[s] /\ l \notin MayShow(s))
      ~> (sections[s] = None \/ l \notin sections[s] \/ l \in MayShow(s))

\* (agents/services/listings.service.ts) However makers and moderators interleave, what is
\* told of a listing is true: its shape can be sold, its reasons, last notice and last audit
\* row fit its status, and its maker keeps to the quota; each but for the faults it names.
ModerationAgrees ==
  /\ ListingsTypeOK /\ ValidatorsAgree /\ QueuedIsSellable /\ QuotaKept
  /\ ReasonsFitStatus /\ NoticeFitsStatus /\ TrailFitsStatus

\* (listings.service.ts) What moderation has decided takes effect: a deleted listing stays
\* as it was and leaves every section in the end, a suspended one every section but
\* recentActivity.
ModerationHolds == DeletedIsFrozen /\ RemovedLeavesSections
=============================================================================
