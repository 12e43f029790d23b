----------------------------- MODULE AdminQueue -----------------------------
(***************************************************************************)
(* The payout queue of the admin pages (admin/payouts/page.tsx): a list    *)
(* per status, kept by the query client, and dialogs that act on a row of  *)
(* it.  A row is shown until the list is fetched again, whatever becomes   *)
(* of the payout; the API decides every request by the payout's status     *)
(* (Payouts), here in one step.  A text is known by the payout it was      *)
(* typed for.                                                              *)
(***************************************************************************)
EXTENDS FiniteSets, PlatformFaults

CONSTANT Queued   \* payout requests, fewer than a page of the list holds

ASSUME QueueAssumption == None \notin Queued \cup {"approve", "reject", "pay"}

VARIABLES
  payout,    \* payout_requests.status
  written,   \* rejectionReason or paymentReference of a payout, set by this page
  tab,       \* the list that is shown, and whose dialogs there are
  list,      \* what the query client has for a status
  outdated,  \* the statuses whose list is invalidated
  fetching,  \* the request for the shown list that is under way, and its answer
  dialog,    \* the dialog that is open and the row it was opened for
  draft,     \* the text in a dialog's field, which outlives the dialog
  mutation   \* the request that is under way (bound: one at a time)

queueVars == <<payout, written, tab, list, outdated, fetching, dialog, draft, mutation, faults>>

\* "others": other admins and the user decide payouts; "button": dialogs are also left by
\* their cancel button; "fail": requests fail; "focus": the window is left and shown again.
QueueFaults == {"others", "button", "fail", "focus"}
-----------------------------------------------------------------------------
PayoutStatuses == {"PENDING", "APPROVED", "PAID", "REJECTED", "CANCELLED"}
\* The lists whose rows have buttons; the other three only show.
Listed == {"PENDING", "APPROVED"}
Kinds == {"approve", "reject", "pay"}
WithText == {"reject", "pay"}
ShownIn(k) == IF k = "pay" THEN "APPROVED" ELSE "PENDING"
DecisionOf(k) == CASE k = "approve" -> "APPROVED" [] k = "reject" -> "REJECTED" [] k = "pay" -> "PAID"

NoDialog == [kind |-> None, row |-> None]
NoMutation == [kind |-> None, at |-> "idle", row |-> None, text |-> None, mounted |-> FALSE]
NoDrafts == [k \in WithText |-> None]

QueueTypeOK ==
  /\ payout \in [Queued -> PayoutStatuses] /\ written \in [Queued -> Queued \cup {None}]
  /\ tab \in Listed /\ list \in [Listed -> SUBSET Queued] /\ outdated \subseteq Listed
  /\ fetching \in [at : {"idle", "answered"}, rows : SUBSET Queued]
  /\ dialog \in [kind : Kinds \cup {None}, row : Queued \cup {None}]
  /\ draft \in [WithText -> Queued \cup {None}]
  /\ mutation \in [kind : Kinds \cup {None}, at : {"idle", "sent", "ok", "error"},
                   row : Queued \cup {None}, text : Queued \cup {None}, mounted : BOOLEAN]

NotFetching == [at |-> "idle", rows |-> {}]

QueueInit ==
  /\ payout = [p \in Queued |-> "PENDING"]
  /\ written = [p \in Queued |-> None]
  /\ tab = "PENDING"
  /\ list = [s \in Listed |-> {}] /\ outdated = Listed
  /\ fetching = NotFetching
  /\ dialog = NoDialog /\ draft = NoDrafts
  /\ mutation = NoMutation
  /\ faults \in FaultSets

rowsShown == <<tab, list, outdated, fetching>>
-----------------------------------------------------------------------------
(* The list *)

\* What is invalidated is asked for again; what has become stale is, on the window's focus.
\* The API reads the rows (bound: when it is asked).
FetchRows ==
  /\ fetching.at = "idle"
  /\ tab \in outdated \/ "focus" \in faults
  /\ fetching' = [at |-> "answered", rows |-> {p \in Queued : payout[p] = tab}]
  /\ outdated' = outdated \ {tab}
  /\ UNCHANGED <<payout, written, tab, list, dialog, draft, mutation, faults>>

ShowRows ==
  /\ fetching.at = "answered"
  /\ list' = [list EXCEPT ![tab] = fetching.rows]
  /\ fetching' = NotFetching
  /\ UNCHANGED <<payout, written, tab, outdated, dialog, draft, mutation, faults>>

\* Another PayoutsTable is mounted, with a state of its own; requests go on (bound: not with
\* "button" and "others").
ChangeTab(s) ==
  /\ s # tab /\ dialog = NoDialog /\ faults \cap {"button", "others"} = {}
  /\ tab' = s /\ fetching' = NotFetching
  /\ draft' = NoDrafts
  /\ mutation' = [mutation EXCEPT !.mounted = FALSE]
  /\ outdated' = IF fetching.at = "idle" THEN outdated ELSE outdated \cup {tab}
  /\ UNCHANGED <<payout, written, list, dialog, faults>>
-----------------------------------------------------------------------------
(* The dialogs *)

\* A row's button; an open dialog covers the list.
OpenDialog(k, p) ==
  /\ dialog = NoDialog
  /\ tab = ShownIn(k) /\ p \in list[tab]
  /\ dialog' = [kind |-> k, row |-> p]
  /\ UNCHANGED <<payout, written, rowsShown, draft, mutation, faults>>

Type ==
  /\ dialog.kind \in WithText
  /\ draft' = [draft EXCEPT ![dialog.kind] = dialog.row]
  /\ UNCHANGED <<payout, written, rowsShown, dialog, mutation, faults>>

\* onOpenChange: Escape, or a click beside it or on its cross.
Dismiss ==
  /\ dialog # NoDialog
  /\ dialog' = NoDialog
  /\ draft' = [k \in WithText |-> IF k = dialog.kind THEN None ELSE draft[k]]
  /\ UNCHANGED <<payout, written, rowsShown, mutation, faults>>

\* The cancel button of a dialog, which onOpenChange does not hear of.
Cancel ==
  /\ "button" \in faults /\ dialog # NoDialog
  /\ dialog' = NoDialog
  /\ UNCHANGED <<payout, written, rowsShown, draft, mutation, faults>>

\* The dialog's action.  That of "approve" closes it at once.
Submit ==
  /\ dialog # NoDialog /\ mutation = NoMutation
  /\ dialog.kind \in WithText => draft[dialog.kind] # None
  /\ mutation' = [kind |-> dialog.kind, at |-> "sent", row |-> dialog.row, mounted |-> TRUE,
                  text |-> IF dialog.kind \in WithText THEN draft[dialog.kind] ELSE None]
  /\ dialog' = IF dialog.kind = "approve" THEN NoDialog ELSE dialog
  /\ UNCHANGED <<payout, written, rowsShown, draft, faults>>

\* approve, reject and markPaid of PayoutsService.
Decide ==
  /\ mutation.at = "sent"
  /\ LET p == mutation.row
         before == ShownIn(mutation.kind)
     IN \/ /\ payout[p] = before
           /\ payout' = [payout EXCEPT ![p] = DecisionOf(mutation.kind)]
           /\ written' = [written EXCEPT ![p] = mutation.text]
           /\ mutation' = [mutation EXCEPT !.at = "ok"]
        \/ /\ payout[p] # before \/ "fail" \in faults
           /\ mutation' = [mutation EXCEPT !.at = "error"]
           /\ UNCHANGED <<payout, written>>
  /\ UNCHANGED <<rowsShown, dialog, draft, faults>>

\* Invalidated: a request that is under way is given up, and made again.
Invalidate == outdated' = Listed /\ fetching' = NotFetching

\* The dialog of the mutation's kind, for whichever row it is open by then.
CloseDialog ==
  dialog' = IF mutation.mounted /\ dialog.kind = mutation.kind THEN NoDialog ELSE dialog
ClearDraft ==
  draft' = [k \in WithText |-> IF mutation.mounted /\ k = mutation.kind THEN None ELSE draft[k]]

\* Mutations of Decided: the text of the dialog is not cleared; nothing is invalidated.
DecidedWithText ==
  /\ mutation.at = "ok"
  /\ CloseDialog /\ UNCHANGED draft
  /\ Invalidate
  /\ mutation' = NoMutation
  /\ UNCHANGED <<payout, written, tab, list, faults>>

DecidedQuietly ==
  /\ mutation.at = "ok"
  /\ CloseDialog /\ ClearDraft
  /\ mutation' = NoMutation
  /\ UNCHANGED <<payout, written, rowsShown, faults>>

\* onSuccess.
Decided ==
  /\ mutation.at = "ok"
  /\ CloseDialog /\ ClearDraft
  /\ Invalidate
  /\ mutation' = NoMutation
  /\ UNCHANGED <<payout, written, tab, list, faults>>

\* onError says so, and leaves everything as it is.
NotDecided ==
  /\ mutation.at = "error"
  /\ mutation' = NoMutation
  /\ UNCHANGED <<payout, written, rowsShown, dialog, draft, faults>>

\* Another admin decides it, or its user gives it up (bound: while this admin has its
\* dialog open, and waits for nothing).
DecideElsewhere(p, s) ==
  /\ "others" \in faults
  /\ p = dialog.row /\ mutation = NoMutation
  /\ \/ payout[p] = "PENDING" /\ s \in {"APPROVED", "CANCELLED"}
     \/ payout[p] = "APPROVED" /\ s = "PAID"
  /\ payout' = [payout EXCEPT ![p] = s]
  /\ UNCHANGED <<written, rowsShown, dialog, draft, mutation, faults>>

QueueNext ==
  \/ FetchRows \/ ShowRows \/ Type \/ Dismiss \/ Cancel \/ Submit \/ Decide
  \/ Decided \/ NotDecided
  \/ \E s \in Listed : ChangeTab(s)
  \/ \E k \in Kinds, p \in Queued : OpenDialog(k, p)
  \/ \E p \in Queued, s \in PayoutStatuses : DecideElsewhere(p, s)

QueueSpec == QueueInit /\ [][QueueNext]_queueVars
-----------------------------------------------------------------------------
\* (payouts/page.tsx:75-116, 217-221) The reason a user is given, and the reference of a
\* payment, were typed for that payout, however dialogs and answers follow each other:
\* except that a text survives the cancel button, and is offered for the next row.
TextFitsPayout ==
  \A p \in Queued : written[p] \in {None, p} \/ "button" \in faults

\* (payouts/page.tsx:61, 78-80) A row whose payout this admin has decided does not stay: its
\* list is asked for again, whichever list is shown when the answer comes, and whatever
\* request of the list was under way meanwhile.
DecidedRowsLeave ==
  mutation = NoMutation =>
    \A s \in Listed : \A p \in list[s] :
      \/ payout[p] = s \/ s \in outdated
      \/ s = tab /\ fetching.at # "idle"
      \/ "others" \in faults

\* (payouts/page.tsx) However dialogs, answers and lists follow each other, a text is written
\* to the payout it was typed for, and a row that was decided leaves its list.
QueueIsTrue == QueueTypeOK /\ TextFitsPayout /\ DecidedRowsLeave
=============================================================================
