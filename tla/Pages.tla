------------------------------- MODULE Pages -------------------------------
(***************************************************************************)
(* The paged lists of the API: ledger entries, payments, refunds, payouts, *)
(* audit rows, notifications and users.  Each answers the rows that match  *)
(* its filter, newest id first, below a cursor, and one row more than the  *)
(* page is read to tell whether there is another.  While a reader goes     *)
(* from page to page rows are added, whose ids are given out before they   *)
(* are committed, and rows change and cease to match.                      *)
(***************************************************************************)
EXTENDS Naturals, FiniteSets, FiniteSetsExt, PlatformFaults

CONSTANTS
  LastId,             \* bound: ids are 1 .. LastId
  Reader, Stranger,   \* owners of rows; Reader is also whom admins filter by
  pageLimit               \* rows of a page

VARIABLES
  item,     \* the rows, by id
  list,     \* the list that is read, or None
  cursor,   \* where its next page starts, or None for the first
  page,     \* the ids in view
  shown,    \* how often a row was shown since the list was opened
  meant,    \* rows there when the list was opened that have matched ever since
  reading   \* "closed", "open", or "done" when there is no next page

pageVars == <<item, list, cursor, page, shown, meant, reading, faults>>

\* "change": rows change state while they are read; "refilter": the reader applies the
\* filter anew.
PageFaults == {"change", "refilter"}
-----------------------------------------------------------------------------
Ids == 1 .. LastId
\* A row that has no id yet, and one whose transaction is not committed.
Free == [owner |-> None, open |-> FALSE]
Uncommitted == [owner |-> None, open |-> TRUE]

Rows == {id \in Ids : item[id].owner # None}
OwnedBy(owner) == {id \in Rows : item[id].owner = owner}
\* A row is open while its status is the one a list may ask for: unread, PENDING, ACTIVE.
Open == {id \in Rows : item[id].open}

\* The where clauses, each with the filters its callers use.
findEntriesForWallet == OwnedBy(Reader)
findPaymentsForUser == OwnedBy(Reader)
findPayoutsForUser == OwnedBy(Reader)
findPaymentsForAdmin == Open \cap OwnedBy(Reader)
findRefundsForAdmin == Open
findPayoutsForAdmin == Open
findAuditForAdmin == Rows \ Open
findNotifications == OwnedBy(Reader) \cap Open
findUsersForAdmin == Open

Lists == {"entries", "own payments", "own payouts", "payments", "refunds", "payouts",
          "audit", "notifications", "users"}

Matching(name) ==
  CASE name = "entries" -> findEntriesForWallet
    [] name = "own payments" -> findPaymentsForUser
    [] name = "own payouts" -> findPayoutsForUser
    [] name = "payments" -> findPaymentsForAdmin
    [] name = "refunds" -> findRefundsForAdmin
    [] name = "payouts" -> findPayoutsForAdmin
    [] name = "audit" -> findAuditForAdmin
    [] name = "notifications" -> findNotifications
    [] OTHER -> findUsersForAdmin

ASSUME PageAssumption ==
  /\ LastId \in Nat /\ pageLimit \in Nat \ {0}
  /\ None \notin {Reader, Stranger} /\ None \notin Lists /\ None \notin Ids

PagesTypeOK ==
  /\ item \in [Ids -> [owner : {Reader, Stranger, None}, open : BOOLEAN]]
  /\ list \in Lists \cup {None}
  /\ cursor \in Ids \cup {None}
  /\ page \subseteq Ids /\ Cardinality(page) <= pageLimit
  /\ shown \in [Ids -> Nat]
  /\ meant \subseteq Rows
  /\ reading \in {"closed", "open", "done"}
  /\ faults \in FaultSets

PagesInit ==
  /\ item = [id \in Ids |-> Free]
  /\ list = None /\ cursor = None /\ page = {}
  /\ shown = [id \in Ids |-> 0]
  /\ meant = {}
  /\ reading = "closed"
  /\ faults \in FaultSets
-----------------------------------------------------------------------------
\* An insert takes the next id of the sequence, and is seen when it is committed.
TakeId ==
  /\ \E id \in Ids :
       /\ item[id] = Free /\ \A lower \in 1 .. id - 1 : item[lower] # Free
       /\ item' = [item EXCEPT ![id] = Uncommitted]
  /\ UNCHANGED <<list, cursor, page, shown, meant, reading, faults>>

CommitRow(id) ==
  /\ item[id] = Uncommitted
  /\ \E owner \in {Reader, Stranger}, open \in BOOLEAN :
       item' = [item EXCEPT ![id] = [owner |-> owner, open |-> open]]
  /\ UNCHANGED <<list, cursor, page, shown, meant, reading, faults>>

\* A row changes state: where the list asks for one, it may cease to match.
ChangeRow(id) ==
  /\ "change" \in faults
  /\ id \in Rows
  /\ item' = [item EXCEPT ![id].open = ~@]
  /\ UNCHANGED <<list, cursor, page, shown, reading, faults>>
  /\ meant' = IF list = None THEN meant ELSE meant \cap Matching(list)'

TheHighest(n, ids) == {id \in ids : Cardinality({h \in ids : h > id}) < n}

\* id: { lt: cursor }.
Below(ids, from) == IF from = None THEN ids ELSE {id \in ids : id < from}

\* Mutation of NextCursor: the row beyond the page is skipped.
CursorBeyond(read, items) == IF items = read THEN None ELSE Min(read)

\* hasMore && last ? last.id : null.
NextCursor(read, items) == IF items = read THEN None ELSE Min(items)

\* take limit + 1, orderBy id desc.
Fetch(name, from) ==
  LET read == TheHighest(pageLimit + 1, Below(Matching(name), from))
      items == TheHighest(pageLimit, read)
  IN [items |-> items, next |-> NextCursor(read, items)]

Show(fetched) ==
  /\ page' = fetched.items
  /\ cursor' = fetched.next
  /\ reading' = IF fetched.next = None THEN "done" ELSE "open"

\* A list is opened, or its filter is applied anew, which drops the cursor.
OpenList(name) ==
  /\ reading = "closed" \/ ("refilter" \in faults /\ list = name)
  /\ list' = name
  /\ meant' = Matching(name)
  /\ LET first == Fetch(name, None)
     IN /\ Show(first)
        /\ shown' = [id \in Ids |-> IF id \in first.items THEN 1 ELSE 0]
  /\ UNCHANGED <<item, faults>>

\* The button of the next page, or fetchNextPage.
TurnPage ==
  /\ reading = "open"
  /\ LET next == Fetch(list, cursor)
     IN /\ Show(next)
        /\ shown' = [id \in Ids |-> IF id \in next.items THEN shown[id] + 1 ELSE shown[id]]
  /\ UNCHANGED <<item, list, meant, faults>>

PagesNext ==
  \/ TakeId
  \/ \E id \in Ids : CommitRow(id) \/ ChangeRow(id)
  \/ \E name \in Lists : OpenList(name)
  \/ TurnPage

PagesSpec == PagesInit /\ [][PagesNext]_pageVars
-----------------------------------------------------------------------------
\* (core/*: id lt cursor, orderBy id desc) No row is shown twice, whatever is added,
\* committed late or changed between two pages.
ShownOnce == \A id \in Ids : shown[id] <= 1

\* (core/*: limit + 1, nextCursor) A reader who reaches the last page was shown every row
\* that was there when the list was opened and has matched since.
NothingIsMissed == reading = "done" => \A id \in meant : shown[id] = 1

\* (apps/web: hasMore, nextCursor) Turning pages comes to an end, even while new rows
\* are added.
ReadingEnds == (reading = "open" /\ "refilter" \notin faults) ~> (reading = "done")

\* (core/*: findMany with a cursor) Who turns the pages of a list comes to its end, shown each
\* row once and none missed of those that were there all along.
ListsAreWhole == [](PagesTypeOK /\ ShownOnce /\ NothingIsMissed) /\ ReadingEnds
=============================================================================
