------------------------------- MODULE Browse -------------------------------
(***************************************************************************)
(* How a visitor reads the marketplace: the pages of the catalog           *)
(* (findPublished, whose cursor is the id of the last item although the    *)
(* order is by another key), the pages of a search (searchPublished: full  *)
(* text first, a substring match when that finds little, an offset for a   *)
(* cursor), and the library of a buyer with its downloads.  Listings are   *)
(* numbers, their ids; moderators and sales change them between two pages. *)
(***************************************************************************)
EXTENDS Naturals, FiniteSets, PlatformFaults

CONSTANTS
  Ids,       \* ids of listings
  Keys,        \* the values of the key the catalog is sorted by, 0 for null
  PageLimit,   \* the limit of a request
  FTS_FALLBACK_THRESHOLD

VARIABLES
  shelf,       \* PUBLISHED listings that are not deleted
  removed,     \* deleted listings
  sortKey,     \* totalUsers, ratingAverage or publishedAt of a listing
  worded,      \* those the full text search finds
  substring,   \* those whose title or slug contains the words
  library,     \* those the visitor has bought
  bundled,     \* those with a bundle
  visitor      \* what the visitor reads, how far, and what was shown

browseVars == <<shelf, removed, sortKey, worded, substring, library, bundled, visitor, faults>>

\* "order": the key does not follow the ids; "substring": the fallback finds
\* something; "moderate": listings come and go between two pages; "sales": the
\* key changes between two pages.
BrowseFaults == {"order", "substring", "moderate", "sales"}

rows == <<removed, worded, substring, library, bundled>>
-----------------------------------------------------------------------------
ASSUME BrowseAssumption ==
  /\ Ids \subseteq Nat /\ IsFiniteSet(Ids) /\ Keys \subseteq Nat
  /\ PageLimit \in Nat \ {0} /\ FTS_FALLBACK_THRESHOLD \in Nat
  /\ None \notin Ids /\ None \notin [owns : BOOLEAN]

Visitors == [reads : {"catalog", "search"}, cursor : Ids \cup {None}, offset : Nat,
             shown : SUBSET Ids, twice : BOOLEAN, ended : BOOLEAN]

BrowseTypeOK ==
  /\ shelf \subseteq Ids \ removed
  /\ removed \subseteq Ids
  /\ sortKey \in [Ids -> Keys]
  /\ worded \subseteq Ids /\ substring \subseteq Ids
  /\ library \subseteq Ids /\ bundled \subseteq Ids
  /\ visitor \in Visitors
  /\ faults \in FaultSets

FollowsIds(key) == \A i, j \in Ids : i < j => key[i] <= key[j]

BrowseInit ==
  /\ faults \in FaultSets
  /\ removed \in {{}} \cup {{i} : i \in Ids}
  /\ shelf = Ids \ removed
  /\ sortKey \in [Ids -> Keys]
  /\ "order" \in faults \/ FollowsIds(sortKey)
  /\ worded = {i \in Ids : i % 2 = 0}
  /\ substring \in IF "substring" \in faults THEN {Ids, {i \in Ids : i > 1}} ELSE {{}}
  /\ library \in {{}, Ids}
  /\ bundled = worded
  /\ visitor \in [reads : {"catalog", "search"}, cursor : {None}, offset : {0},
                  shown : {{}}, twice : {FALSE}, ended : {FALSE}]

\* ORDER BY the key, then the id, both descending, nulls last; and LIMIT n.
Before(i, j) == sortKey[i] > sortKey[j] \/ (sortKey[i] = sortKey[j] /\ i > j)
First(S, n) == {i \in S : Cardinality({j \in S : Before(j, i)}) < n}
Last(S) == CHOOSE i \in S : \A j \in S : ~Before(i, j)

Show(items, more) ==
  visitor' = [visitor EXCEPT !.shown = @ \cup items,
                             !.twice = @ \/ items \cap visitor.shown # {},
                             !.ended = ~more,
                             !.cursor = IF more /\ visitor.reads = "catalog"
                                        THEN Last(items) ELSE @,
                             !.offset = IF more /\ visitor.reads = "search"
                                        THEN @ + PageLimit ELSE @]
-----------------------------------------------------------------------------
\* Mutation of findPublished: the next page begins with the cursor itself.
findFromCursor ==
  /\ visitor.reads = "catalog" /\ ~visitor.ended
  /\ LET found == First({i \in shelf : visitor.cursor # None => i <= visitor.cursor},
                        PageLimit + 1)
         items == First(found, PageLimit)
     IN Show(items, items # found)
  /\ UNCHANGED <<shelf, sortKey, rows, faults>>

findPublished ==
  /\ visitor.reads = "catalog" /\ ~visitor.ended
  /\ LET found == First({i \in shelf : visitor.cursor # None => i < visitor.cursor},
                        PageLimit + 1)
         items == First(found, PageLimit)
     IN Show(items, items # found)
  /\ UNCHANGED <<shelf, sortKey, rows, faults>>

\* The full text matches of this page; when they are few, the first substring
\* matches, whatever the page, that are not among them.  Bound: a visitor who
\* has been shown a listing again is given no further page.
searchPublished ==
  /\ visitor.reads = "search" /\ ~visitor.ended /\ ~visitor.twice
  /\ LET hits == worded \cap shelf
         ranked == First(hits \ First(hits, visitor.offset), PageLimit + 1)
         fallback == IF Cardinality(ranked) < FTS_FALLBACK_THRESHOLD
                     THEN First(substring \cap shelf, PageLimit + 1 - Cardinality(ranked)) \ ranked
                     ELSE {}
         fromText == First(ranked, PageLimit)
         items == fromText \cup First(fallback, PageLimit - Cardinality(fromText))
     IN Show(items, items # ranked \cup fallback)
  /\ UNCHANGED <<shelf, sortKey, rows, faults>>

\* A moderator suspends or publishes a listing.
Reshelve(i) ==
  /\ "moderate" \in faults
  /\ i \notin removed
  /\ shelf' = IF i \in shelf THEN shelf \ {i} ELSE shelf \cup {i}
  /\ UNCHANGED <<sortKey, rows, visitor, faults>>

\* A sale or a review moves a listing in the order.
Sell(i) ==
  /\ "sales" \in faults
  /\ \E k \in Keys : k > sortKey[i] /\ sortKey' = [sortKey EXCEPT ![i] = k]
  /\ UNCHANGED <<shelf, rows, visitor, faults>>

BrowseNext ==
  \/ findPublished \/ searchPublished
  \/ \E i \in Ids : Reshelve(i) \/ Sell(i)

BrowseSpec == BrowseInit /\ [][BrowseNext]_browseVars
-----------------------------------------------------------------------------
(* The library *)

\* findForUser: a row for each listing bought, also for a deleted one.
findForUser == library

\* Whether the detail page of a library row is there.
findDetailForUser(i) == i \in library /\ i \notin removed

\* streamBundleForOwner, when the listing has a bundle.
streamBundleForOwner(i) == i \in library /\ i \notin removed /\ i \in bundled

\* A buyer keeps what was bought: every row of the library opens, and its bundle
\* downloads, also while the listing is suspended; a deleted listing is still a
\* row of the list but neither opens nor downloads.
LibraryOpens ==
  \A i \in findForUser :
    i \notin removed <=> (findDetailForUser(i) /\ (i \in bundled => streamBundleForOwner(i)))

\* The page of a listing; owns is computeOwnership.
findDetailBySlug(i) == IF i \in shelf THEN [owns |-> i \in library] ELSE None

\* What a page of the catalog or of a search shows can be opened, if no moderator
\* comes between, and its page says that the visitor owns it exactly when the library
\* of the visitor opens it.
ShownCanBeOpened ==
  "moderate" \notin faults =>
    \A i \in visitor.shown :
      findDetailBySlug(i) # None /\ (findDetailBySlug(i).owns <=> findDetailForUser(i))

\* Who reads the catalog to its end has seen every published listing once, if
\* the listings stay as they are and their order is that of their ids.
CatalogShowsEachOnce ==
  visitor.reads = "catalog" /\ faults \cap BrowseFaults \subseteq {"substring"} =>
    ~visitor.twice /\ (visitor.ended => visitor.shown = shelf)

\* The same of a search that the full text answers alone.
SearchShowsEachOnce ==
  visitor.reads = "search" /\ faults \cap BrowseFaults \subseteq {"order"} =>
    ~visitor.twice /\ (visitor.ended => visitor.shown = worded \cap shelf)

\* The catalog comes to its end, whatever changes meanwhile.
CatalogEnds == visitor.reads = "catalog" ~> visitor.ended

\* (agents/services/listings.service.ts, library.service.ts) A visitor who turns
\* pages comes to the end, having seen each listing once where the order allows it, can open what
\* was shown, and keeps what was bought.
VisitorsSeeAll ==
  /\ [](BrowseTypeOK /\ CatalogShowsEachOnce /\ SearchShowsEachOnce)
  /\ [](ShownCanBeOpened /\ LibraryOpens)
  /\ CatalogEnds
=============================================================================
