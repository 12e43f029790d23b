--------------------------- MODULE Notifications ---------------------------
(***************************************************************************)
(* NotificationsService, and the bell of the web application for one user. *)
(* A dispatch tries its channels one after the other; what one of them     *)
(* does, throw included, does not stop the next.  The bell asks for the    *)
(* number of unread notifications every 30 seconds and after every mark.   *)
(***************************************************************************)
EXTENDS Naturals, FiniteSets, Sequences, PlatformFaults

CONSTANTS
  Notices,   \* dispatches
  Bell,      \* the user whose bell is modelled
  Other,     \* another user
  Marks      \* markRead and markAllRead calls

ASSUME NoticesAssumption == IsFiniteSet(Notices)

VARIABLES
  override,  \* a module has registered the type of one-time codes for IN_APP
  notice,    \* what a dispatch was asked, the channels it has left, and its result
  rows,      \* notifications: "absent", "unread" or "read"
  texts,     \* the dispatches whose SMS was sent
  mark,      \* the notification a call marks, "all", or None; and who calls
  markAt,
  counted,   \* the number the bell shows
  arriving   \* the answer to its last question, on its way, or None

noticeVars == <<override, notice, rows, texts, mark, markAt, counted, arriving, faults>>

\* "fail": a statement or the SMS gateway fails; "unknown": a type without a template,
\* or a user without a row; "extend": a module registers a type of the catalog anew.
NoticeFaults == {"fail", "unknown", "extend"}
-----------------------------------------------------------------------------
Channels == {"IN_APP", "SMS"}
\* A type of each kind of the catalog, and one that nothing registered.
Types == {"OTP_SENT", "WALLET_CREDITED", "PAYMENT_SUCCEEDED", "UNREGISTERED"}
NON_PERSISTENT_TYPES == {"OTP_SENT"}

\* NOTIFICATION_TEMPLATES: the channels a type has a template for.
Templates(type) ==
  CASE type = "OTP_SENT" -> {"SMS"}
    [] type = "WALLET_CREDITED" -> {"IN_APP"}
    [] type = "PAYMENT_SUCCEEDED" -> {"IN_APP", "SMS"}
    [] OTHER -> {}

\* What dispatch looks up: extensionTemplates before the catalog.
TemplateOf(type) == IF override /\ type = "OTP_SENT" THEN Channels ELSE Templates(type)

\* What is asked for each: wallets in the app, payments by SMS as well, codes by SMS, and
\* by tests both ways.
Asked == {<<"IN_APP">>, <<"SMS">>, <<"IN_APP", "SMS">>}
AskedOf(type) ==
  IF type \in {"WALLET_CREDITED", "UNREGISTERED"} THEN {<<"IN_APP">>}
  ELSE {<<"IN_APP", "SMS">>, <<"SMS">>}
Absent ==
  [user |-> None, type |-> None, asked |-> {}, left |-> <<>>, dispatched |-> {}, failures |-> {}]

NoticesTypeOK ==
  /\ override \in BOOLEAN
  /\ notice \in [Notices -> [user : {Bell, Other}, type : Types, asked : SUBSET Channels,
                             left : Asked \cup {<<>>}, dispatched : SUBSET Channels,
                             failures : SUBSET Channels]
                              \cup {Absent}]
  /\ rows \in [Notices -> {"absent", "unread", "read"}]
  /\ texts \subseteq Notices
  /\ mark \in [Marks -> [of : Notices \cup {"all"}, by : {Bell, Other}] \cup {None}]
  /\ markAt \in [Marks -> {"idle", "write", "ended"}]
  /\ counted \in 0 .. Cardinality(Notices)
  /\ arriving \in (0 .. Cardinality(Notices)) \cup {None}
  /\ faults \in FaultSets

NoticesInit ==
  /\ override = FALSE
  /\ notice = [n \in Notices |-> Absent]
  /\ rows = [n \in Notices |-> "absent"]
  /\ texts = {}
  /\ mark = [m \in Marks |-> None]
  /\ markAt = [m \in Marks |-> "idle"]
  /\ counted = 0 /\ arriving = None
  /\ faults \in FaultSets

UserOf(n) == notice[n].user
countUnread(u) == Cardinality({n \in Notices : UserOf(n) = u /\ rows[n] = "unread"})
bellVars == <<counted, arriving>>
-----------------------------------------------------------------------------
\* registerType, at boot: nothing refuses a type that the catalog has.
registerType ==
  /\ "extend" \in faults
  /\ \A n \in Notices : notice[n] = Absent
  /\ ~override
  /\ override' = TRUE
  /\ UNCHANGED <<notice, rows, texts, mark, markAt, bellVars, faults>>

\* Dispatches are alike, and so are marks: it does not matter which one comes next.
\* A type without a template ends at once, with nothing dispatched and no failure.
Dispatch(n) ==
  /\ notice[n] = Absent /\ n = CHOOSE other \in Notices : notice[other] = Absent
  /\ \E user \in {Bell, Other},
        type \in IF "unknown" \in faults THEN Types ELSE Types \ {"UNREGISTERED"} :
      \E channels \in AskedOf(type) :
       notice' = [notice EXCEPT ![n] =
         [user |-> user, type |-> type, asked |-> {channels[k] : k \in DOMAIN channels},
          dispatched |-> {}, failures |-> {},
          left |-> IF TemplateOf(type) = {} THEN <<>> ELSE channels]]
  /\ UNCHANGED <<override, rows, texts, mark, markAt, bellVars, faults>>

Waiting(n, channel) == notice[n].left # <<>> /\ Head(notice[n].left) = channel
Dispatched(n, channel) ==
  notice' = [notice EXCEPT ![n].left = Tail(@), ![n].dispatched = @ \cup {channel}]

\* The IN_APP channel: a row, unless the type must not be stored or has no template.
InApp(n) ==
  /\ Waiting(n, "IN_APP")
  /\ \/ /\ \/ notice[n].type \in NON_PERSISTENT_TYPES
           \/ "IN_APP" \notin TemplateOf(notice[n].type)
        /\ notice' = [notice EXCEPT ![n].left = Tail(@)]
        /\ UNCHANGED rows
     \/ /\ notice[n].type \notin NON_PERSISTENT_TYPES
        /\ "IN_APP" \in TemplateOf(notice[n].type)
        /\ rows' = [rows EXCEPT ![n] = "unread"]
        /\ Dispatched(n, "IN_APP")
  /\ UNCHANGED <<override, texts, mark, markAt, bellVars, faults>>

\* The SMS channel: the user's phone is looked up and the message sent.
Sms(n) ==
  /\ Waiting(n, "SMS")
  /\ \/ /\ "SMS" \notin TemplateOf(notice[n].type)
        /\ notice' = [notice EXCEPT ![n].left = Tail(@)]
        /\ UNCHANGED texts
     \/ /\ "SMS" \in TemplateOf(notice[n].type)
        /\ texts' = texts \cup {n}
        /\ Dispatched(n, "SMS")
  /\ UNCHANGED <<override, rows, mark, markAt, bellVars, faults>>

\* Mutation of ChannelFails: the dispatch ends at the first failure.
FailAll(n) ==
  /\ faults \cap {"fail", "unknown"} # {}
  /\ notice[n].left # <<>> /\ Head(notice[n].left) \in TemplateOf(notice[n].type)
  /\ notice' = [notice EXCEPT ![n].left = <<>>, ![n].failures = @ \cup {Head(notice[n].left)}]
  /\ UNCHANGED <<override, rows, texts, mark, markAt, bellVars, faults>>

\* A channel throws, or finds no user: it is recorded, and the next one is tried.
ChannelFails(n) ==
  /\ faults \cap {"fail", "unknown"} # {}
  /\ notice[n].left # <<>> /\ Head(notice[n].left) \in TemplateOf(notice[n].type)
  /\ notice[n].type \notin NON_PERSISTENT_TYPES \/ Head(notice[n].left) # "IN_APP"
  /\ notice' = [notice EXCEPT ![n].left = Tail(@), ![n].failures = @ \cup {Head(notice[n].left)}]
  /\ UNCHANGED <<override, rows, texts, mark, markAt, bellVars, faults>>
-----------------------------------------------------------------------------
BeginMark(m, of, by) ==
  /\ markAt[m] = "idle" /\ m = CHOOSE other \in Marks : markAt[other] = "idle"
  /\ mark' = [mark EXCEPT ![m] = [of |-> of, by |-> by]]

\* markRead up to its update: 404 unless the caller owns the row, nothing if it is read.
FindNotification(m) ==
  /\ \E n \in Notices, by \in {Bell, Other} :
       /\ BeginMark(m, n, by)
       /\ markAt' = [markAt EXCEPT ![m] =
                      IF rows[n] = "unread" /\ UserOf(n) = by THEN "write" ELSE "ended"]
  /\ UNCHANGED <<override, notice, rows, texts, bellVars, faults>>

\* invalidateQueries: the bell asks again, and drops an answer that is on its way.
AskAgain(by, after) ==
  arriving' = IF by = Bell
              THEN Cardinality({n \in Notices : UserOf(n) = Bell /\ after[n] = "unread"})
              ELSE arriving

\* The update of markRead.
WriteRead(m) ==
  /\ markAt[m] = "write"
  /\ rows' = [rows EXCEPT ![mark[m].of] = "read"]
  /\ markAt' = [markAt EXCEPT ![m] = "ended"]
  /\ AskAgain(mark[m].by, rows')
  /\ UNCHANGED <<override, notice, texts, mark, counted, faults>>

markAllRead(m) ==
  /\ \E by \in {Bell, Other} :
       /\ BeginMark(m, "all", by)
       /\ rows' = [n \in Notices |->
                    IF UserOf(n) = by /\ rows[n] = "unread" THEN "read" ELSE rows[n]]
       /\ AskAgain(by, rows')
  /\ markAt' = [markAt EXCEPT ![m] = "ended"]
  /\ UNCHANGED <<override, notice, texts, counted, faults>>

\* Mutation of Poll: the bell asks when it is mounted and after marks only.
PollOnce ==
  /\ arriving = None /\ counted = 0
  /\ \A n \in Notices : notice[n] = Absent
  /\ arriving' = countUnread(Bell)
  /\ UNCHANGED <<override, notice, rows, texts, mark, markAt, counted, faults>>

\* refetchInterval of NotificationsBell: the count as it is when it is asked for.
Poll ==
  /\ arriving = None
  /\ arriving' = countUnread(Bell)
  /\ UNCHANGED <<override, notice, rows, texts, mark, markAt, counted, faults>>

ShowCount ==
  /\ arriving # None
  /\ counted' = arriving /\ arriving' = None
  /\ UNCHANGED <<override, notice, rows, texts, mark, markAt, faults>>

NoticeStep(n) == InApp(n) \/ Sms(n) \/ ChannelFails(n)

NoticesNext ==
  \/ registerType \/ Poll \/ ShowCount
  \/ \E n \in Notices : Dispatch(n) \/ NoticeStep(n)
  \/ \E m \in Marks : FindNotification(m) \/ WriteRead(m) \/ markAllRead(m)

NoticesSpec == NoticesInit /\ [][NoticesNext]_noticeVars
-----------------------------------------------------------------------------
\* (core/notifications/notifications.service.ts:115-184) What dispatch answers is what
\* happened: a channel is dispatched exactly if its row or its message exists, and with
\* the failures these are all channels that were asked for and have a template.
ResultIsTrue ==
  \A n \in Notices :
    /\ "IN_APP" \in notice[n].dispatched <=> rows[n] # "absent"
    /\ "SMS" \in notice[n].dispatched <=> n \in texts
    /\ notice[n].dispatched \cap notice[n].failures = {}

\* (notifications.service.ts:173-180) A failing channel never costs another one its turn:
\* when a dispatch ends, every channel that was asked for and has a template was either
\* dispatched or is among the failures, except the row of a one-time code.
EveryChannelIsTried ==
  \A n \in Notices :
    notice[n] # Absent /\ notice[n].left = <<>> =>
      notice[n].asked \cap TemplateOf(notice[n].type)
        \subseteq notice[n].dispatched \cup notice[n].failures
                    \cup IF notice[n].type \in NON_PERSISTENT_TYPES THEN {"IN_APP"} ELSE {}

\* (notifications.service.ts:118-123) A one-time code never becomes a row, not even when
\* a module registers a template for its type.
CodesNotStored == \A n \in Notices : notice[n].type = "OTP_SENT" => rows[n] = "absent"

\* (notifications.service.ts:186-214) A notification is read only if its own user marked
\* it, or all, as read: nobody else can, and a dispatch never creates a read row.
ReadByOwner ==
  \A n \in Notices : rows[n] = "read" =>
    \E m \in Marks : markAt[m] = "ended" /\ mark[m].by = UserOf(n) /\ mark[m].of \in {n, "all"}

\* (apps/web components/notifications/notifications-bell.tsx:37-69) The bell shows the
\* number of unread notifications again and again, whatever was marked or arrived.
BellCatchesUp == []<>(counted = countUnread(Bell))

\* (core/notifications/notifications.service.ts) Whatever channels fail or modules override, a
\* dispatch forgets none and reports what happened, a one-time code is not kept, and nobody
\* reads for another.
NoticesAgree ==
  NoticesTypeOK /\ ResultIsTrue /\ EveryChannelIsTried /\ CodesNotStored /\ ReadByOwner
=============================================================================
