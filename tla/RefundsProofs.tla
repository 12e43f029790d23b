---------------------------- MODULE RefundsProofs ----------------------------
(***************************************************************************)
(* Proofs about Refunds for every set of payments, amounts and calls.      *)
(*                                                                         *)
(* The inductive invariant is RefundsInv: the types, and what a call has   *)
(* done so far at each place it may be.  DebitIsRecorded follows from the  *)
(* order of the steps of refund: the row comes before the debit.           *)
(* ReferenceIsFinal needs in addition that a refund that carries a bank    *)
(* reference is COMPLETED, and that confirmations of one refund do not     *)
(* overlap.  RefundsWithinPayment needs RoomIsKept: what a call added to   *)
(* the refunds it read still fits when it writes its row, as long as       *)
(* nobody else is refunding the same payment.                              *)
(***************************************************************************)
EXTENDS Refunds, SumProofs, TLAPS

\* Where a call may be, what it has done by then.
PlacesAgree ==
  /\ \A r \in RefundIds :
       /\ pc[r] \in {"idle", "ended", "provider", "completed", "manual", "debit"}
       /\ pc[r] = "idle" => status[r] = "ABSENT" /\ r \notin debited
       /\ pc[r] \in {"provider", "completed", "manual"} =>
            asked[r] \in Requests /\ status[r] = "ABSENT" /\ r \notin debited
       /\ pc[r] = "debit" =>
            asked[r] \in Requests /\ asked[r].payment \in Topups /\ status[r] # "ABSENT"
  /\ \A c \in Confirmations :
       /\ pc[c] \in {"idle", "ended", "confirm"}
       /\ pc[c] = "confirm" => confirming[c] \in RefundIds /\ status[confirming[c]] # "ABSENT"

\* A refund with a bank reference is COMPLETED, and nobody who does not overlap with the
\* call that recorded it confirms it again.
ConfirmedOnce ==
  "overlap" \notin faults =>
    /\ \A r \in RefundIds : bankReference[r] # None => status[r] = "COMPLETED"
    /\ \A c, d \in Confirmations :
         pc[c] = "confirm" /\ pc[d] = "confirm" /\ confirming[c] = confirming[d] => c = d
    /\ \A c \in Confirmations : pc[c] = "confirm" => status[confirming[c]] = "PENDING_MANUAL"

RefundsInv == TypeOK /\ PlacesAgree /\ DebitIsRecorded

\* A call that has passed the check still has room for its refund: nobody else is refunding
\* its payment.
RoomIsKept ==
  "overlap" \notin faults =>
    /\ \A r, s \in RefundIds :
         /\ pc[r] \in Working /\ pc[s] \in Working
         /\ asked[r].payment = asked[s].payment
         => r = s
    /\ \A r \in RefundIds :
         pc[r] \in {"provider", "completed", "manual"} =>
           asked[r].amount + AlreadyRefunded(asked[r].payment) <= PaidAmount[asked[r].payment]
    /\ RefundsCapped
-----------------------------------------------------------------------------
LEMMA AmountsArePositive == \A a \in Amounts : a \in Nat /\ a > 0
BY DEF Amounts

LEMMA InitRefundsInv == Init => RefundsInv /\ ConfirmedOnce
<1> SUFFICES ASSUME Init PROVE RefundsInv /\ ConfirmedOnce
  OBVIOUS
<1> USE RefundAssumption DEF Init
<1>1. TypeOK
  BY DEF TypeOK, Processes
<1>2. PlacesAgree
  BY DEF PlacesAgree, Processes
<1>3. DebitIsRecorded /\ ConfirmedOnce
  BY DEF DebitIsRecorded, ConfirmedOnce, Processes
<1>4. QED
  BY <1>1, <1>2, <1>3 DEF RefundsInv

LEMMA RefundStepKeepsInv ==
  ASSUME RefundsInv, NEW r \in RefundIds,
         \/ \E p \in PaymentIds, amount \in Amounts : Ask(r, p, amount)
         \/ AskProvider(r) \/ CreateRow(r) \/ DebitWallet(r) \/ InsufficientBalance(r)
  PROVE  RefundsInv'
<1> USE CallAssumption DEF RefundsInv, Goto, Processes, Working
<1>1. ASSUME NEW p \in PaymentIds, NEW amount \in Amounts, Ask(r, p, amount) PROVE RefundsInv'
  <2> USE <1>1 DEF Ask
  <2>1. [payment |-> p, amount |-> amount] \in Requests
    BY DEF Requests
  <2>2. TypeOK'
    BY <2>1 DEF TypeOK
  <2>3. PlacesAgree'
    BY <2>1 DEF TypeOK, PlacesAgree
  <2>4. DebitIsRecorded'
    BY DEF TypeOK, PlacesAgree, DebitIsRecorded
  <2>5. QED
    BY <2>2, <2>3, <2>4
<1>2. CASE AskProvider(r)
  BY <1>2 DEF AskProvider, TypeOK, PlacesAgree, DebitIsRecorded
<1>3. CASE CreateRow(r)
  <2> USE <1>3 DEF CreateRow
  <2>1. TypeOK'
    BY DEF TypeOK
  <2>2. PlacesAgree'
    BY DEF TypeOK, PlacesAgree
  <2>3. DebitIsRecorded'
    BY DEF TypeOK, DebitIsRecorded
  <2>4. QED
    BY <2>1, <2>2, <2>3
<1>4. CASE DebitWallet(r)
  <2> USE <1>4 DEF DebitWallet
  <2>1. asked[r].amount \in Nat
    BY AmountsArePositive DEF PlacesAgree, Requests
  <2>2. TypeOK'
    BY <2>1, RefundAssumption DEF TypeOK
  <2>3. PlacesAgree' /\ DebitIsRecorded'
    BY DEF TypeOK, PlacesAgree, DebitIsRecorded
  <2>4. QED
    BY <2>2, <2>3
<1>5. CASE InsufficientBalance(r)
  BY <1>5 DEF InsufficientBalance, TypeOK, PlacesAgree, DebitIsRecorded
<1>6. QED
  BY <1>1, <1>2, <1>3, <1>4, <1>5

LEMMA OtherStepKeepsInv ==
  ASSUME RefundsInv,
         \/ \E c \in Confirmations :
              (\E r \in RefundIds : ReadRefund(c, r)) \/ MarkCompleted(c)
         \/ Spend \/ (\E x \in Processes : Fails(x)) \/ AllEnded
  PROVE  RefundsInv'
<1> USE CallAssumption DEF RefundsInv, Goto, Processes, Working
<1>1. ASSUME NEW c \in Confirmations, NEW r \in RefundIds, ReadRefund(c, r) PROVE RefundsInv'
  BY <1>1 DEF ReadRefund, TypeOK, PlacesAgree, DebitIsRecorded
<1>2. ASSUME NEW c \in Confirmations, MarkCompleted(c) PROVE RefundsInv'
  <2> USE <1>2 DEF MarkCompleted
  <2>1. TypeOK' /\ DebitIsRecorded'
    BY DEF TypeOK, PlacesAgree, DebitIsRecorded
  <2>2. PlacesAgree'
    BY DEF TypeOK, PlacesAgree
  <2>3. QED
    BY <2>1, <2>2
<1>3. CASE Spend
  BY <1>3, RefundAssumption DEF Spend, TypeOK, PlacesAgree, DebitIsRecorded
<1>4. ASSUME NEW x \in Processes, Fails(x) PROVE RefundsInv'
  BY <1>4 DEF Fails, TypeOK, PlacesAgree, DebitIsRecorded
<1>5. CASE AllEnded
  BY <1>5 DEF AllEnded, vars, TypeOK, PlacesAgree, DebitIsRecorded
<1>6. QED
  BY <1>1, <1>2, <1>3, <1>4, <1>5

LEMMA NextKeepsInv == RefundsInv /\ [Next]_vars => RefundsInv'
<1>1. RefundsInv /\ Next => RefundsInv'
  BY RefundStepKeepsInv, OtherStepKeepsInv DEF Next
<1>2. RefundsInv /\ UNCHANGED vars => RefundsInv'
  BY DEF RefundsInv, vars, TypeOK, PlacesAgree, DebitIsRecorded
<1>3. QED
  BY <1>1, <1>2
-----------------------------------------------------------------------------
(* Without overlapping confirmations, a bank reference is recorded once.     *)
LEMMA NextKeepsConfirmed == RefundsInv /\ ConfirmedOnce /\ [Next]_vars => ConfirmedOnce'
<1> SUFFICES ASSUME RefundsInv, ConfirmedOnce, [Next]_vars, "overlap" \notin faults'
             PROVE  ConfirmedOnce'
  BY DEF ConfirmedOnce
<1> USE CallAssumption DEF RefundsInv, Goto, Processes, Working
<1>1. ASSUME NEW r \in RefundIds,
             \/ \E p \in PaymentIds, amount \in Amounts : Ask(r, p, amount)
             \/ AskProvider(r) \/ DebitWallet(r) \/ InsufficientBalance(r)
      PROVE  ConfirmedOnce'
  BY <1>1 DEF Ask, AskProvider, DebitWallet, InsufficientBalance, TypeOK, PlacesAgree,
              ConfirmedOnce
<1>2. ASSUME NEW r \in RefundIds, CreateRow(r) PROVE ConfirmedOnce'
  BY <1>2 DEF CreateRow, TypeOK, PlacesAgree, ConfirmedOnce
<1>3. ASSUME NEW c \in Confirmations, NEW r \in RefundIds, ReadRefund(c, r) PROVE ConfirmedOnce'
  BY <1>3 DEF ReadRefund, Confirming, TypeOK, PlacesAgree, ConfirmedOnce
<1>4. ASSUME NEW c \in Confirmations, MarkCompleted(c) PROVE ConfirmedOnce'
  BY <1>4 DEF MarkCompleted, TypeOK, PlacesAgree, ConfirmedOnce
<1>5. ASSUME Spend \/ (\E x \in Processes : Fails(x)) \/ AllEnded \/ UNCHANGED vars
      PROVE  ConfirmedOnce'
  BY <1>5 DEF Spend, Fails, AllEnded, vars, TypeOK, PlacesAgree, ConfirmedOnce
<1>6. QED
  BY <1>1, <1>2, <1>3, <1>4, <1>5 DEF Next

LEMMA ReferencesStay ==
  ASSUME RefundsInv, ConfirmedOnce, [Next]_vars, "overlap" \notin faults,
         NEW r \in RefundIds, bankReference[r] # None
  PROVE  bankReference'[r] = bankReference[r]
<1>1. ASSUME NEW c \in Confirmations, MarkCompleted(c) PROVE bankReference'[r] = bankReference[r]
  <2>1. status[confirming[c]] = "PENDING_MANUAL" /\ status[r] = "COMPLETED"
    BY <1>1 DEF MarkCompleted, ConfirmedOnce
  <2>2. QED
    BY <1>1, <2>1 DEF MarkCompleted, RefundsInv, TypeOK
<1>2. CASE UNCHANGED bankReference
  BY <1>2
<1>3. QED
  BY <1>1, <1>2 DEF Next, vars, Ask, AskProvider, CreateRow, DebitWallet, InsufficientBalance,
                    ReadRefund, Spend, Fails, AllEnded
-----------------------------------------------------------------------------
(* The sum of the rows changes only when a row is created.                   *)
LEMMA RowsSumToNat ==
  ASSUME RefundsInv, NEW p \in PaymentIds
  PROVE  AlreadyRefunded(p) \in Nat
<1> DEFINE f == [r \in RefundIds |-> asked[r].amount]
<1>1. IsFiniteSet(Rows(p))
  BY CallAssumption, FS_Subset DEF Rows
<1>2. \A r \in Rows(p) : f[r] \in Nat
  BY AmountsArePositive DEF Rows, RefundsInv, TypeOK, Requests, NoRequest
<1> HIDE DEF f
<1>3. SumFunctionOnSet(f, Rows(p)) \in Nat
  BY <1>1, <1>2, SumIsNat
<1>4. QED
  BY <1>3 DEF f, AlreadyRefunded

LEMMA SameRowsSameSum ==
  ASSUME NEW p \in PaymentIds,
         \A s \in RefundIds :
           /\ status[s] = "ABSENT" <=> status'[s] = "ABSENT"
           /\ status[s] # "ABSENT" => asked'[s] = asked[s]
  PROVE  AlreadyRefunded(p)' = AlreadyRefunded(p)
<1> DEFINE f == [s \in RefundIds |-> asked[s].amount]
           g == [s \in RefundIds |-> asked'[s].amount]
           T == Rows(p)
<1>1. Rows(p)' = T
  BY DEF Rows
<1>2. IsFiniteSet(T)
  BY CallAssumption, FS_Subset DEF Rows
<1>3. \A s \in T : g[s] = f[s]
  BY DEF Rows
<1>4. AlreadyRefunded(p) = SumFunctionOnSet(f, T) /\ AlreadyRefunded(p)' = SumFunctionOnSet(g, T)
  BY <1>1 DEF AlreadyRefunded
<1> HIDE DEF f, g, T
<1>5. QED
  BY <1>2, <1>3, <1>4, SumsOfEqualsAreEqual

LEMMA NewRowAddsItsAmount ==
  ASSUME RefundsInv, NEW r \in RefundIds, CreateRow(r), NEW p \in PaymentIds
  PROVE  AlreadyRefunded(p)' =
           AlreadyRefunded(p) + IF p = asked[r].payment THEN asked[r].amount ELSE 0
<1> DEFINE f == [s \in RefundIds |-> asked[s].amount]
           T == Rows(p)
           U == Rows(p)'
<1>1. /\ asked' = asked
      /\ status' = [status EXCEPT ![r] = status'[r]] /\ status'[r] # "ABSENT"
      /\ status[r] = "ABSENT" /\ asked[r] \in Requests
  BY DEF CreateRow, RefundsInv, TypeOK, PlacesAgree
<1>2. p = asked[r].payment => r \in U /\ U \ {r} = T
  BY <1>1 DEF Rows, RefundsInv, TypeOK
<1>3. p # asked[r].payment => U = T
  BY <1>1 DEF Rows, RefundsInv, TypeOK
<1>4. IsFiniteSet(U)
  <2>1. U \subseteq RefundIds
    BY DEF Rows
  <2>2. QED
    BY <2>1, CallAssumption, FS_Subset
<1>5. \A s \in U : f[s] \in Int
  BY <1>1, AmountsArePositive DEF Rows, RefundsInv, TypeOK, Requests, NoRequest
<1>6. AlreadyRefunded(p) = SumFunctionOnSet(f, T) /\ AlreadyRefunded(p)' = SumFunctionOnSet(f, U)
  BY <1>1 DEF AlreadyRefunded
<1>7. f[r] = asked[r].amount
  OBVIOUS
<1>8. AlreadyRefunded(p) \in Nat /\ asked[r].amount \in Nat
  BY <1>1, RowsSumToNat, AmountsArePositive DEF Requests
<1> HIDE DEF f, T, U
<1>9. CASE p = asked[r].payment
  <2>1. SumFunctionOnSet(f, U) = f[r] + SumFunctionOnSet(f, U \ {r})
    BY <1>2, <1>4, <1>5, <1>9, SumTakesOut
  <2>2. AlreadyRefunded(p)' = asked[r].amount + AlreadyRefunded(p)
    BY <2>1, <1>2, <1>6, <1>7, <1>9
  <2>3. QED
    BY <2>2, <1>8, <1>9
<1>10. CASE p # asked[r].payment
  <2>1. AlreadyRefunded(p)' = AlreadyRefunded(p)
    BY <1>3, <1>6, <1>10
  <2>2. QED
    BY <2>1, <1>8, <1>10
<1>11. QED
  BY <1>9, <1>10

LEMMA NextKeepsRoom == RefundsInv /\ RoomIsKept /\ [Next]_vars => RoomIsKept'
<1> SUFFICES ASSUME RefundsInv, RoomIsKept, [Next]_vars, "overlap" \notin faults'
             PROVE  RoomIsKept'
  BY DEF RoomIsKept
<1>1. faults' = faults
  BY DEF Next, vars, Ask, AskProvider, CreateRow, DebitWallet, InsufficientBalance,
         ReadRefund, MarkCompleted, Spend, Fails, AllEnded
<1> DEFINE Room(r) == asked[r].amount + AlreadyRefunded(asked[r].payment)
                        <= PaidAmount[asked[r].payment]
           Places == {"provider", "completed", "manual"}
<1>2. ASSUME NEW r \in RefundIds, NEW p \in PaymentIds, NEW amount \in Amounts,
             Ask(r, p, amount)
      PROVE  RoomIsKept'
  <2> USE <1>2 DEF Ask, Goto
  <2>1. pc[r] = "idle" /\ status[r] = "ABSENT" /\ r \in Processes
    BY DEF RefundsInv, PlacesAgree, Processes
  <2>2. /\ asked'[r] = [payment |-> p, amount |-> amount]
        /\ \A s \in RefundIds : s # r => asked'[s] = asked[s] /\ pc'[s] = pc[s]
        /\ pc'[r] = IF Exceeds(p, amount) THEN "ended" ELSE "provider"
    BY <2>1 DEF RefundsInv, TypeOK, Processes
  <2>3. \A q \in PaymentIds : AlreadyRefunded(q)' = AlreadyRefunded(q)
    BY <2>1, <2>2, SameRowsSameSum
  <2>4. \A s, t \in RefundIds :
          pc'[s] \in Working /\ pc'[t] \in Working /\ asked'[s].payment = asked'[t].payment
          => s = t
    BY <1>1, <2>2 DEF RoomIsKept, Refunding
  <2>5. ASSUME NEW s \in RefundIds, pc'[s] \in Places PROVE Room(s)'
    <3>1. CASE s = r
      <4>1. amount + AlreadyRefunded(p) <= PaidAmount[p]
        <5>1. ~Exceeds(p, amount)
          BY <2>2, <2>5, <3>1
        <5>2. AlreadyRefunded(p) \in Nat /\ amount \in Nat /\ PaidAmount[p] \in Nat
          BY RowsSumToNat, AmountsArePositive, RefundAssumption
        <5>3. QED
          BY <5>1, <5>2 DEF Exceeds
      <4>2. QED
        BY <2>2, <2>3, <3>1, <4>1
    <3>2. CASE s # r
      <4>1. asked'[s] = asked[s] /\ pc'[s] = pc[s]
        BY <2>2, <3>2
      <4>2. asked[s].payment \in PaymentIds
        BY <2>5, <4>1 DEF RefundsInv, PlacesAgree, Requests
      <4>3. Room(s)
        BY <1>1, <2>5, <4>1 DEF RoomIsKept
      <4>4. QED
        BY <2>3, <4>1, <4>2, <4>3
    <3>3. QED
      BY <3>1, <3>2
  <2>6. RefundsCapped'
    BY <1>1, <2>3 DEF RoomIsKept, RefundsCapped
  <2>7. QED
    BY <2>4, <2>5, <2>6 DEF RoomIsKept
<1>3. ASSUME NEW r \in RefundIds, CreateRow(r) PROVE RoomIsKept'
  <2>1. /\ pc[r] \in Places /\ asked[r] \in Requests /\ asked' = asked
        /\ pc'[r] \notin Places
        /\ \A s \in RefundIds : s # r => pc'[s] = pc[s]
    BY <1>3 DEF CreateRow, Goto, RefundsInv, TypeOK, PlacesAgree, Processes
  <2>2. \A q \in PaymentIds : AlreadyRefunded(q)' =
          AlreadyRefunded(q) + IF q = asked[r].payment THEN asked[r].amount ELSE 0
    BY <1>3, NewRowAddsItsAmount
  <2>3. \A s, t \in RefundIds :
          pc'[s] \in Working /\ pc'[t] \in Working /\ asked'[s].payment = asked'[t].payment
          => s = t
    BY <1>1, <2>1 DEF RoomIsKept, Working
  <2>4. ASSUME NEW s \in RefundIds, pc'[s] \in Places PROVE Room(s)'
    <3>1. s # r /\ pc[s] \in Places
      BY <2>1, <2>4
    <3>2. asked[s].payment # asked[r].payment /\ asked[s].payment \in PaymentIds
      BY <1>1, <2>1, <3>1 DEF RoomIsKept, Working, RefundsInv, PlacesAgree, Requests
    <3>3. \A q \in PaymentIds :
            q # asked[r].payment => AlreadyRefunded(q)' = AlreadyRefunded(q)
      <4> TAKE q \in PaymentIds
      <4>1. AlreadyRefunded(q) \in Nat
        BY RowsSumToNat
      <4>2. QED
        BY <2>2, <4>1
    <3>4. Room(s)
      BY <1>1, <3>1 DEF RoomIsKept
    <3>5. QED
      BY <2>1, <3>2, <3>3, <3>4
  <2>5. RefundsCapped'
    <3> SUFFICES ASSUME NEW p \in PaymentIds PROVE AlreadyRefunded(p)' <= PaidAmount[p]
      BY DEF RefundsCapped
    <3>1. CASE p = asked[r].payment
      <4>1. Room(r)
        BY <1>1, <2>1 DEF RoomIsKept
      <4>2. AlreadyRefunded(p) \in Nat /\ asked[r].amount \in Nat
        BY <2>1, RowsSumToNat, AmountsArePositive DEF Requests
      <4>3. QED
        BY <2>2, <3>1, <4>1, <4>2
    <3>2. CASE p # asked[r].payment
      BY <1>1, <2>2, <3>2, RowsSumToNat DEF RoomIsKept, RefundsCapped
    <3>3. QED
      BY <3>1, <3>2
  <2>6. QED
    BY <2>3, <2>4, <2>5 DEF RoomIsKept
<1>4. ASSUME asked' = asked,
             \A s \in RefundIds : status[s] = "ABSENT" <=> status'[s] = "ABSENT",
             \A s \in RefundIds : /\ pc'[s] \in Working => pc[s] \in Working
                                  /\ pc'[s] \in Places => pc[s] \in Places
      PROVE  RoomIsKept'
  <2>1. \A q \in PaymentIds : AlreadyRefunded(q)' = AlreadyRefunded(q)
    BY <1>4, SameRowsSameSum
  <2>2. \A s, t \in RefundIds :
          pc'[s] \in Working /\ pc'[t] \in Working /\ asked'[s].payment = asked'[t].payment
          => s = t
    BY <1>1, <1>4 DEF RoomIsKept
  <2>3. ASSUME NEW s \in RefundIds, pc'[s] \in Places PROVE Room(s)'
    <3>1. pc[s] \in Places
      BY <1>4, <2>3
    <3>2. asked[s].payment \in PaymentIds
      BY <3>1 DEF RefundsInv, PlacesAgree, Requests
    <3>3. Room(s)
      BY <1>1, <3>1 DEF RoomIsKept
    <3>4. QED
      BY <1>4, <2>1, <3>2, <3>3
  <2>4. RefundsCapped'
    BY <1>1, <2>1 DEF RoomIsKept, RefundsCapped
  <2>5. QED
    BY <2>2, <2>3, <2>4 DEF RoomIsKept
<1>5. ASSUME NEW r \in RefundIds, AskProvider(r) \/ DebitWallet(r) \/ InsufficientBalance(r)
      PROVE  RoomIsKept'
  BY <1>4, <1>5 DEF AskProvider, DebitWallet, InsufficientBalance, Goto, Working, RefundsInv,
                    TypeOK, Processes
<1>6. ASSUME NEW c \in Confirmations, (\E r \in RefundIds : ReadRefund(c, r)) \/ MarkCompleted(c)
      PROVE  RoomIsKept'
  BY <1>4, <1>6, CallAssumption DEF ReadRefund, MarkCompleted, Goto, RefundsInv, TypeOK,
                                    Processes, PlacesAgree
<1>7. ASSUME NEW x \in Processes, Fails(x) PROVE RoomIsKept'
  BY <1>4, <1>7 DEF Fails, Goto, Working, RefundsInv, TypeOK, Processes
<1>8. CASE Spend \/ AllEnded \/ UNCHANGED vars
  BY <1>4, <1>8 DEF Spend, AllEnded, vars
<1>9. QED
  BY <1>2, <1>3, <1>5, <1>6, <1>7, <1>8 DEF Next
-----------------------------------------------------------------------------
(* The inductive invariant holds in every state. *)
LEMMA InitRoomIsKept == Init => RoomIsKept
<1> SUFFICES ASSUME Init PROVE RoomIsKept
  OBVIOUS
<1>1. ASSUME NEW p \in PaymentIds PROVE AlreadyRefunded(p) = 0
  <2>1. Rows(p) = {}
    BY DEF Init, Rows
  <2>2. QED
    BY <2>1, SumOfNone DEF AlreadyRefunded
<1>2. QED
  BY <1>1, RefundAssumption DEF Init, RoomIsKept, RefundsCapped, Processes, Working

LEMMA RefundsInvariant == Spec => [](RefundsInv /\ ConfirmedOnce /\ RoomIsKept)
<1>1. RefundsInv /\ ConfirmedOnce /\ RoomIsKept /\ [Next]_vars
        => (RefundsInv /\ ConfirmedOnce /\ RoomIsKept)'
  BY NextKeepsInv, NextKeepsConfirmed, NextKeepsRoom
<1>2. QED
  BY <1>1, InitRefundsInv, InitRoomIsKept, PTL DEF Spec

(* Every state of the refunds is well typed: the wallet never goes below     *)
(* zero, nor above what it held when the refunds began.                      *)
THEOREM RefundsTypeOK == Spec => []TypeOK
BY RefundsInvariant, PTL DEF RefundsInv

(* The refunds of a payment stay within what was paid, wherever the calls    *)
(* stop, as long as refunds of one payment do not overlap.                   *)
THEOREM RefundsStayWithinPayment == Spec => []RefundsWithinPayment
<1>1. RoomIsKept => RefundsWithinPayment
  BY DEF RoomIsKept, RefundsWithinPayment
<1>2. QED
  BY <1>1, RefundsInvariant, PTL

(* No wallet is debited for a refund that has no row, or for a payment that  *)
(* was not a topup, wherever refund stops.                                   *)
THEOREM RefundsDebitIsRecorded == Spec => []DebitIsRecorded
BY RefundsInvariant, PTL DEF RefundsInv

(* markRefundCompleted never replaces the bank reference of a refund, as     *)
(* long as confirmations of one refund do not overlap.                       *)
THEOREM RefundsReferenceIsFinal == Spec => ReferenceIsFinal
<1>1. RefundsInv /\ ConfirmedOnce /\ [Next]_vars =>
        \/ "overlap" \in faults
        \/ \A r \in RefundIds : bankReference[r] # None => bankReference'[r] = bankReference[r]
  BY ReferencesStay
<1>2. QED
  BY <1>1, RefundsInvariant, PTL DEF Spec, ReferenceIsFinal

(* Every debit has its refund on record, and unless calls overlap the refunds *)
(* of a payment stay within what was paid.                                   *)
THEOREM RefundsAreAllCovered == Spec => []RefundsAreCovered
BY RefundsTypeOK, RefundsDebitIsRecorded, RefundsStayWithinPayment,
   PTL DEF RefundsAreCovered
=============================================================================
