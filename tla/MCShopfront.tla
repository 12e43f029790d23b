---------------------------- MODULE MCShopfront ----------------------------
(***************************************************************************)
(* Instance of four parts that share no state: the moderation of listings, *)
(* their reviews, the visitors who read them, and the file store.  A       *)
(* behaviour looks at one of them, its focus, so that the states of the    *)
(* instance are the sum of those of the parts, not their product.          *)
(***************************************************************************)
EXTENDS Listings, Reviews, Browse, Files

CONSTANTS l1, l2, m1, s1, s2, t1, t2, home, feed, b1, b2, c1, c2, u1, u2, x1, x2

VARIABLE focus

vars == <<listingVars, reviewVars, browseVars, fileVars, focus>>

ListingIds == {l1, l2}
MakerIds == {m1}
SlugIds == {s1, s2}
TaskIds == {t1, t2}
SectionIds == {home, feed}
BuyerIds == {b1, b2}
CallIds == {c1, c2}
UserIds == {u1, u2}
UploadIds == {x1, x2}
IdsListed == 1 .. 4

PricingShapes ==
  {[type |-> "ONE_TIME", price |-> 0, packs |-> None, positive |-> TRUE],
   [type |-> "FREE", price |-> None, packs |-> 1, positive |-> TRUE],
   [type |-> "PER_RUN", price |-> None, packs |-> 1, positive |-> TRUE],
   [type |-> "PER_RUN", price |-> None, packs |-> 1, positive |-> FALSE]}

FaultsOf ==
  [listings |-> {{}, {"creates"}, {"moderates"}, {"delete"}, {"race", "redis"},
                 {"mute", "rollback"}, {"crash"}},
   reviews  |-> {{"delete"}, {"overlap"}, {"die"}},
   browse   |-> {{}, {"order"}, {"substring"}, {"moderate"}, {"sales"}},
   files    |-> {{}, {"refuse"}, {"shared", "refuse"}, {"midnight", "retype"}, {"nested", "retype"},
                 {"removal", "shared", "retype", "midnight"}}]

AllFaults == UNION {FaultsOf[f] : f \in DOMAIN FaultsOf}

Init ==
  /\ focus \in DOMAIN FaultsOf
  /\ ListingsInit /\ ReviewsInit /\ FilesInit
  /\ faults \in FaultsOf[focus]
  /\ IF focus = "browse" THEN BrowseInit
     ELSE /\ shelf = {} /\ removed = {} /\ sortKey = [i \in Ids |-> 0]
          /\ worded = {} /\ substring = {} /\ library = {} /\ bundled = {}
          /\ visitor = [reads |-> "catalog", cursor |-> None, offset |-> 0, shown |-> {},
                        twice |-> FALSE, ended |-> TRUE]

InListings(A) == focus = "listings" /\ A /\ UNCHANGED <<reviewVars, browseVars, fileVars, focus>>
InReviews(A) == focus = "reviews" /\ A /\ UNCHANGED <<listingVars, browseVars, fileVars, focus>>
InBrowse(A) == focus = "browse" /\ A /\ UNCHANGED <<listingVars, reviewVars, fileVars, focus>>
InFiles(A) == focus = "files" /\ A /\ UNCHANGED <<listingVars, reviewVars, browseVars, focus>>

\* A bound of the instance: both sections are read together only where nothing else is
\* large; the feed alone while listings are deleted, which it must follow, and else the shelf.
ReadHere == CASE faults \subseteq {"race", "redis"} -> Sections
              [] "delete" \in faults -> {feed}
              [] OTHER -> {home}

\* And the rows, which differ in nothing but their name, are inserted in order.
WithinBounds ==
  /\ reader' # None => reader'.section \in ReadHere
  /\ listing'[l2] # None => listing'[l1] # None

Next ==
  \/ InListings(ListingsNext /\ WithinBounds)
  \/ InReviews(ReviewsNext)
  \/ InBrowse(BrowseNext)
  \/ InFiles(FilesNext)

\* Who reads a section goes on to store it, Redis drops its keys after 60 seconds,
\* and a visitor of the catalog asks for the next page.
Spec ==
  /\ Init /\ [][Next]_vars
  /\ WF_vars(InListings(StoreSection))
  /\ \A s \in Sections : WF_vars(InListings(ExpireSection(s)))
  /\ WF_vars(InBrowse(findPublished))
=============================================================================
